CONSTANTS
  IdleLimit = 2
  Interval = 1000
  Given = 1
  LowOps = 1
  MediumOps = 2
  HighOps = 20
  ToSend = {2}
  FirstTags = {0, 1}
  MaxTag = 3
  MaxBatch = 21
  MaxCommands = 2
  Threads = {t}
  Loops = 1
SPECIFICATION Spec
INVARIANTS OrdersAccounted LevelFollowsTimers LoadGoesOn
PROPERTIES SilenceDetected TestCompletes
CHECK_DEADLOCK FALSE
