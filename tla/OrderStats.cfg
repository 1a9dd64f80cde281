CONSTANTS
  NInstruments = 2
  NTypes = 2
  Tags = {0, 1, 2}
  Disclosed = 100
  OtherTypes = {"mt1_server_heartbeat"}
  MaxOrders = 2
  MaxAnswers = 2
SPECIFICATION Spec
INVARIANTS ResponsesAreAnswers
CHECK_DEADLOCK FALSE
