\* Two resizes in a row can leave a wrong-sized frame on the screen.
SPECIFICATION Spec
CONSTANTS
  Windows = {w1}
  NoWindow = NoWindow
  Surfaces = {s1}
  NoSurface = NoSurface
  Sizes = {small, large}
  RootlessModes = {TRUE}
  NeverClose = FALSE
  Software = TRUE
  PipeCapacity = 2
  MaxResizes = 2
PROPERTIES FramesBecomeWhole
