CONSTANTS
  o1 = o1
  Outputs = {o1}
  All = All
  NoPic = NoPic
  Sizes = {{"w"}, {"h"}}
  None = None
  MaxSets = 2
  MaxJobs = 1
SPECIFICATION Spec
PROPERTIES ServedLargeEnough
CHECK_DEADLOCK FALSE
