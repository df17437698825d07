SPECIFICATION Spec
CONSTANTS
  o1 = o1  o2 = o2  s1 = s1  s2 = s2  s3 = s3
  x1 = x1  x2 = x2  x3 = x3
  Outputs = {o1, o2}  Windows = {x1, x2, x3}  Workspaces = {s1, s2, s3}
  Columns = {1, 2}  Addresses = {1, 2, 3}  Named = {3}
  MaxChanges = 2  MaxTurns = 3
  None = None  Unset = Unset  Absent = Absent
  Layouts <- Floors  Configurations <- Written
  Parts = {"niri", "furnished", "renumbered", "focused", "mixed"}
SYMMETRY Symmetry
CHECK_DEADLOCK FALSE
INVARIANTS PositionsConverge SnapshotsConverge
