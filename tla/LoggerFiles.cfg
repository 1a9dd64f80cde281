CONSTANTS
  App = {a1}
  Disk = disk
  NoThread = none
  Buffers = {1, 2, 3, 4}
  Files = {f1, f2}
  NoFile = nofile
  FirstFile = f1
  Scenarios <- FileScenarios
  Levels = {10, 11}
  LogLevels = {11}
  InfoLevel = 10
  WarningLevel = 11
  BufLines = 2
  MaxLines = 3
  IOFail = TRUE
SPECIFICATION Spec
INVARIANTS TypeOK OnceInOrder RightFileSync
PROPERTY NameStableWhileWriting
