\* One window, top-level or the root window, and two sizes: resizes by shell and client, liveness.
SPECIFICATION Spec
CONSTANTS
  Windows = {w1}
  NoWindow = NoWindow
  Surfaces = {s1}
  NoSurface = NoSurface
  Sizes = {small, large}
  RootlessModes = {TRUE, FALSE}
  NeverClose = FALSE
  Software = TRUE
  PipeCapacity = 3
  MaxResizes = 3
PROPERTIES SizesSettle ComesToRest OneResizeBecomesWhole FrameExchangeSpec
