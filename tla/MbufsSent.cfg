SPECIFICATION Spec
CONSTANTS
  Bufs = {b1, b2}
  Slaves = {core1}
  Master = core0
  RxSize = 1
  TxSize = 1
  MaxBurst = 2
  Room = 4
  MaxCommands = 2
  Nothing = Nothing
PROPERTY SentAsBuilt
CHECK_DEADLOCK FALSE
