SPECIFICATION Spec
CONSTANTS
  NumCores = 2
  a = a
  b = b
  Clients = {a, b}
  Lines = {1, 2, 3, 4}
  Sessions <- OnlyFaulty
  MaxLen = 2
  BufSize = 5
  None = None
INVARIANT TooLongNotRun
CHECK_DEADLOCK FALSE
