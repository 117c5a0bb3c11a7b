\* Two top-level windows: safety.
SPECIFICATION Spec
CONSTANTS
  Windows = {w1, w2}
  NoWindow = NoWindow
  Surfaces = {s1, s2}
  NoSurface = NoSurface
  Sizes = {small, large}
  RootlessModes = {TRUE}
  NeverClose = FALSE
  Software = TRUE
  PipeCapacity = 2
  MaxResizes = 2
SYMMETRY Symmetry
INVARIANTS TypeOK SurfacesOwned OneBuffer NoStaleMessage SleepsOnlyForMir QuietIsSettled
