SPECIFICATION Spec
CONSTANTS
  HalfSpace = 4
  MaxWindow = 2
  LocalWindow = 2
  NumCores = 2
  Flows = {f1}
  Pads = {p0, p1}
  Steer <- SteerToTwo
  HashEntries = 1
  ConnIds = {c1, c2, c3}
  NoConn = NoConn
  Segments <- PoorSegments
  SendLens = {1}
SYMMETRY ConnSymmetry
INVARIANTS
  TableSound
  OnlyDeadOrphans
  DeafNeverEstablished
PROPERTIES
  RefinesLifecycle
CHECK_DEADLOCK FALSE
