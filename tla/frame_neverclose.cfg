\* -neverclose: the surface outlives its window, and so do its swaps.
SPECIFICATION Spec
CONSTANTS
  Windows = {w1}
  NoWindow = NoWindow
  Surfaces = {s1}
  NoSurface = NoSurface
  Sizes = {small}
  RootlessModes = {TRUE}
  NeverClose = TRUE
  Software = TRUE
  PipeCapacity = 2
  MaxResizes = 0
INVARIANTS PaintsOnlyOwnBuffers
