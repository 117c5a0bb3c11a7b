\* Rotation and unmapping while a frame is being swapped.
SPECIFICATION Spec
CONSTANTS
  Windows = {w1}
  NoWindow = NoWindow
  ListHead = ListHead
  PipeCapacity = 2
  MaxInputs = 2
CHECK_DEADLOCK FALSE
INVARIANTS ImageOutlivesSwap
