CONSTANTS
  Client = client
  Server = server
  CConns = {a}
  SConns = {x}
  Fds = {3, 4, 5}
  NoFd = 9
  MaxLinks = 2
  Cap = 1
  MaxBytes = 2
  FcntlFails = {FALSE}
SPECIFICATION Spec
INVARIANT ConnectKeepsTrying
CHECK_DEADLOCK FALSE
