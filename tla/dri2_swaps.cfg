\* A top-level window and its child, rendered by two clients as they please.
SPECIFICATION Spec
CONSTANTS
  c1 = c1
  c2 = c2
  t = t
  k = k
  NoClient = NoClient
  Clients = {c1, c2}
  Tops = {t}
  Children = {k}
  TopOf <- ChildOfT
  Surfaceless = {}
  Rootless = TRUE
  FullSize = {}
  Targets = {0, 2}
CONSTRAINT SpoiledBound
INVARIANTS TypeOK PendingIsQueued QueuedOnSurface NoFatalError SleepersCounted
PROPERTIES SwapsComplete ClientsWake SwapExchangeSpec
