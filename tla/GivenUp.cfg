CONSTANTS
  o1 = o1
  o2 = o2
  a = a
  f = f
  Outputs = {o1, o2}
  All = All
  NoPic = NoPic
  Pics = {a, f}
  Fallbacks = {f}
  Sizes = {{}, {"w"}}
  None = None
  MaxChanges = 2
SPECIFICATION Spec
INVARIANTS GivenUpIsNotWanted
CHECK_DEADLOCK FALSE
