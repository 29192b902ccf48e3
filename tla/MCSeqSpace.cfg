SPECIFICATION Spec
CONSTANTS
  HalfSpace = 8
  MaxWindow = 5
INVARIANTS
  LtIsHalfCircle
  BetweenIsArc
  EmptyAcceptedInWindow
PROPERTY
  WrapInvariant
