CONSTANTS
  App = {a1, a2}
  Disk = disk
  NoThread = none
  Buffers = {1, 2, 3, 4, 5}
  Files = {f1}
  NoFile = nofile
  FirstFile = f1
  Scenarios <- AsyncScenarios
  Levels = {10, 11}
  LogLevels = {10}
  InfoLevel = 10
  WarningLevel = 11
  BufLines = 2
  MaxLines = 4
  IOFail = FALSE
SPECIFICATION FairSpec
INVARIANTS BufferOwnership NoMissedWakeup NothingDropped
PROPERTIES CallsReturn FifoSpec
