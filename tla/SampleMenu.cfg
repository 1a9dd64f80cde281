CONSTANTS
  IdleLimit = 2
  Lines = {"1", "10", "11", "2", "q"}
  Fields = 2
  MaxLines = 2
SPECIFICATION Spec
INVARIANTS MenuHonoured
CHECK_DEADLOCK FALSE
