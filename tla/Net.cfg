SPECIFICATION NetSpec
CONSTANTS
  HalfSpace = 8
  MaxWindow = 4
  LocalWindow = 4
  NumCores = 1
  Flows = {f1}
  Pads = {p0}
  Steer <- SteerToOne
  HashEntries = 1
  ConnIds = {c1, c2}
  NoConn = NoConn
  Segments = {}
  SendLens = {1, 2}
  PeerISS = 14
  UserBytes = 2
  Scenarios <- AllScenarios
INVARIANTS
  NetTypeOK
  StreamPrefix
  AcksOnlySent
  
  AckedWasPrinted
PROPERTIES
  HandshakeCompletes
  DataAcked
  PeerCloseCompletes
  ConnectCompletes
  CloseCompletes
CHECK_DEADLOCK FALSE
