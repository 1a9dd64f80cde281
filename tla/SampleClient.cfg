CONSTANTS
  IdleLimit = 1
  Lines = {"q", "1", "2", "y"}
  Fields = 1
  MaxLines = 3
SPECIFICATION Spec
INVARIANTS OrdersConfirmed NoCrashOnceConnected
PROPERTIES QuitEnds SilenceDetected
CHECK_DEADLOCK FALSE
