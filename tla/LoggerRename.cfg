CONSTANTS
  App = {a1}
  Disk = disk
  NoThread = none
  Buffers = {1, 2, 3, 4}
  Files = {f1, f2}
  NoFile = nofile
  FirstFile = f1
  Scenarios <- RenameScenarios
  Levels = {10, 11}
  LogLevels = {10}
  InfoLevel = 10
  WarningLevel = 11
  BufLines = 1
  MaxLines = 2
  IOFail = FALSE
SPECIFICATION Spec
INVARIANT RightFile
