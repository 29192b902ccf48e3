SPECIFICATION Spec
CONSTANTS
  HalfSpace = 4
  MaxWindow = 2
  LocalWindow = 2
  NumCores = 1
  Flows = {f1}
  Pads = {p0}
  Steer <- SteerToOne
  HashEntries = 1
  ConnIds = {c1, c2}
  NoConn = NoConn
  Segments <- RichSegments
  SendLens = {1}
PROPERTY ClosedByFin
CHECK_DEADLOCK FALSE
