CONSTANTS
  o1 = o1  o2 = o2  p1 = p1  p2 = p2
  Outputs = {o1}
  Visible = {o1}
  Pics = {p1, p2}
  NoPic = NoPic
  Nothing = Nothing
  Values = {0, 1}
  Looks = {0, 1}
  Steps = 2
  MaxChanges = 3
SPECIFICATION FairSpec
INVARIANTS CallbackAccounting NothingStranded ResolvedBeforeSleep
PROPERTIES CatchesUp FallsIdle
CHECK_DEADLOCK FALSE
