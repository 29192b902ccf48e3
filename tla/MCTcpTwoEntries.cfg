SPECIFICATION Spec
CONSTANTS
  HalfSpace = 4
  MaxWindow = 2
  LocalWindow = 2
  NumCores = 1
  Flows = {f1}
  Pads = {p0, p1}
  Steer <- SteerToOne
  HashEntries = 2
  ConnIds = {c1, c2}
  NoConn = NoConn
  Segments <- RichSegments
  SendLens = {1}
INVARIANT OneEntryPerFlow
CHECK_DEADLOCK FALSE
