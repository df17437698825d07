CONSTANTS
  o1 = o1  o2 = o2  a = a  f = f
  Outputs = {o1, o2}
  All = All
  NoPic = NoPic
  Pics = {a, f}
  Fallbacks = {f}
  Sizes = {{}, {"w"}}
  None = None
  MaxChanges = 2
SPECIFICATION FairSpec
INVARIANTS ResultNoticed WantedIsComing HeldIsUsed
PROPERTIES EveryOutputAnswered DecodesRunDry
CHECK_DEADLOCK FALSE
