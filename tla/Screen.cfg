SPECIFICATION Spec
CONSTANTS
  o1 = o1  o2 = o2  wa = wa  wb = wb  wc = wc
  NoImage = NoImage
  Outputs = {o1, o2}
  Wallpapers = {wa, wb, wc}
  Native <- NativeSizes
  Opaque = {wa}
  Broken = {wc}
  Fallback = wb
  MaxSize = 2
  Radii = {0, 1}
  Fade = 1
  Blurring = 1
  Unit = 2
  MaxChanges = 2
SYMMETRY Symmetry
INVARIANTS ShowsTheState EvenlyBlurred HonestlyOpaque HeldIsShown
PROPERTIES StaysHeld
CHECK_DEADLOCK FALSE
