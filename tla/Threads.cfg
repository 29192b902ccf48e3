SPECIFICATION Spec
CONSTANTS
  NumCores = 2
  q1 = q1
  q2 = q2
  Keys = {q1, q2}
  Steer <- OneEach
  HashEntries = 1
  ConnIds = {c1, c2, c3}
  None = None
SYMMETRY Symmetry
INVARIANTS
  ThreadsTypeOK
  EntriesLive
  HeldIsLive
  NeverDeaf
  OnlyCloseIntervenes
PROPERTIES
  ImplementsOwnership
CHECK_DEADLOCK FALSE
