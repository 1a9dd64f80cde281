CONSTANTS
  Client = client
  Server = server
  CConns = {a}
  SConns = {x}
  Fds = {3, 4, 5}
  NoFd = 9
  MaxLinks = 2
  Cap = 1
  MaxBytes = 2
  FcntlFails = {TRUE, FALSE}
SPECIFICATION Spec
INVARIANTS OneOwner NoDescriptorLeaks ModeMatchesFlag StreamIntact
CHECK_DEADLOCK FALSE
