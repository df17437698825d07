CONSTANTS
  o1 = o1
  Outputs = {o1}
  All = All
  NoPic = NoPic
  Sizes = {{"w"}, {"h"}}
  None = None
  MaxSets = 2
  MaxJobs = 2
SPECIFICATION Spec
INVARIANTS OwnCopy ServesOwnCopy RecordedCopyExists RecordAgrees
CHECK_DEADLOCK FALSE
