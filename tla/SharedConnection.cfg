CONSTANTS
  o1 = o1  o2 = o2  p1 = p1  p2 = p2
  Outputs = {o1, o2}
  Visible = {o1, o2}
  Pics = {p1}
  NoPic = NoPic
  Nothing = Nothing
  Values = {0, 1}
  Looks = {0, 1}
  Steps = 1
  MaxChanges = 1
SPECIFICATION Spec
INVARIANT DrainedBeforeSleep
PROPERTY ImplementsDisplay
SYMMETRY Symmetry
CHECK_DEADLOCK FALSE
