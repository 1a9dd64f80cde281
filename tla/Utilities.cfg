CONSTANTS
  MaxLen = 5
  MaxField = 2
  MaxAdded = 3
  Width = 2
  Size = 4
  Extra = 3
  HeaderLen = 3
  MaxLines = 5
  MaxCalls = 3
  MaxAdds = 4
  MaxOrders = 2
  MaxAnswers = 2
  MaxOdd = 2
  MaxRequests = 2
  MaxMembers = 2
  Section = 1
  Keys = {1, 2}
  FileLines <- SomeLines
  FirstYear = 2023
  Seconds <- SomeSeconds
  Usecs = {7, 999999}
  Offsets <- SomeOffsets
  DumpSize = 40
  MaxBytes = 9
  Widths = {0, 1, 2, 3, 9}
  Base = 4
  Hosts <- SomeHosts
  Ports <- SomePorts
  Known <- KnownHosts
  Services <- KnownServices
  Peers <- SomePeers
  Ephemeral = {8, 9}
  Million = 5
  DefaultRange = 2
  MaxRange = 4
  WrongRange = 3
  Times <- Micros
  Ranges <- Micros
  Members <- SomeMembers
  Counters = {0, 1, 2, 3, 4, 5, 6, 7, 8, 9, 10, 11, 12}
  Users = {1, 3}
  Now = 70000
  Menu = {"modify", "cancel", "leverage", "cancel_all", "working", "fills"}
  Usual <- One
  Words <- SomeWords
  NInstruments = 2
  NTypes = 2
  Tags = {0, 1, 2}
  Disclosed = 100
  OtherTypes = {"mt1_fill_notification"}
SPECIFICATION Spec
INVARIANTS ReadBack LinesHeaded ValuesInFileOrder TimesAreNow ReportAddsUp StatsAddUp
           AnswersKept ReplayExact PeersTold
CHECK_DEADLOCK FALSE
