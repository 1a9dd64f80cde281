CONSTANTS
  MaxWaiting = 2
  MaxTime = 2
  MaxNodes = 2
  MaxEvents = 2
  BufLen = 3
  Capacity = 2
  MaxEntry = 4
  MaxLine = 1
  Columns = 4
  MaxCalls = 6
  MaxPieces = 3
SPECIFICATION Spec
INVARIANTS DatagramsTold CallbacksKept LinesKept TextsKept
CHECK_DEADLOCK FALSE
