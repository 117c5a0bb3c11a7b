\* Windows painted and turned again, a pipe that fills: the list, the mutex, the wake-ups.
SPECIFICATION Spec
CONSTANTS
  Windows = {w1, w2}
  NoWindow = NoWindow
  ListHead = ListHead
  PipeCapacity = 2
  MaxInputs = 2
CHECK_DEADLOCK FALSE
INVARIANTS TypeOK ListKept MutexOwned NoLostSignal
PROPERTIES FramesSwapped MainGetsMutex
