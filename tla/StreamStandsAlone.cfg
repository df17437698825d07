SPECIFICATION OutputSpec
CONSTANTS
  All = All  NoPic = NoPic  NoImage = NoImage  o1 = o1  o2 = o2
  wa = wa  wb = wb  wc = wc  w1 = w1  f1 = f1  small = small  wide = wide
  Outputs = {o1}
  Pics = {w1, f1}
  Views = {small, wide}
  Configs <- Both
  Geometry <- Travel
  MaxShift = 8
  Positions <- WholeAxis
  Unit = 8
  MaxChanges = 4
  Wallpapers = {wa, wb, wc}
  Shares = {0, 1, 2}
  Transitions <- Crossings
  MaxSets = 4
  Parts = {"announcing"}
INVARIANTS StreamStandsAlone
CHECK_DEADLOCK FALSE
