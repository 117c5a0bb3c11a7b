\* A window painted again before its frame is swapped.
SPECIFICATION Spec
CONSTANTS
  Windows = {w1}
  NoWindow = NoWindow
  ListHead = ListHead
  PipeCapacity = 3
  MaxInputs = 2
CHECK_DEADLOCK FALSE
INVARIANTS ListIntact
