\* -neverclose: whatever is in flight, no damaged window is left waiting for nothing.
SPECIFICATION Spec
CONSTANTS
  Windows = {w1, w2}
  NoWindow = NoWindow
  Surfaces = {s1}
  NoSurface = NoSurface
  Sizes = {small, large}
  RootlessModes = {TRUE}
  NeverClose = TRUE
  Software = TRUE
  PipeCapacity = 2
  MaxResizes = 1
CONSTRAINT SwapsBound
INVARIANTS NeverFrozen
