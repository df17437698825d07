CONSTANTS
  o1 = o1
  o2 = o2
  a = a
  f = f
  Outputs = {o1}
  All = All
  NoPic = NoPic
  Pics = {a, f}
  Fallbacks = {f}
  Sizes = {{}, {"w"}, {"h"}, {"w", "h"}}
  None = None
  MaxChanges = 2
SPECIFICATION Spec
PROPERTIES ShownUntilReplaced
CHECK_DEADLOCK FALSE
