SPECIFICATION Spec
CONSTANTS
  NumCores = 2
  a = a
  b = b
  Clients = {a, b}
  Lines = {1, 2, 3, 4}
  Sessions <- All
  MaxLen = 2
  BufSize = 5
  None = None
INVARIANTS
  ControlTypeOK
  StopsCleanly
  CommandsIntact
PROPERTIES
  RunsInOrder
  QuitEnds
  LinesRun
  HangupsClosed
CHECK_DEADLOCK FALSE
