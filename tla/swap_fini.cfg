\* Shutting down the swap thread.
SPECIFICATION Spec
CONSTANTS
  Windows = {w1}
  NoWindow = NoWindow
  ListHead = ListHead
  PipeCapacity = 2
  MaxInputs = 0
CHECK_DEADLOCK FALSE
PROPERTIES ServerTerminates
