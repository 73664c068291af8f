CONSTANTS
  j1 = j1
  j2 = j2
  j3 = j3
  u1 = u1
  u2 = u2
  p1 = p1
  p2 = p2
  p3 = p3
  None = None
SPECIFICATION MCSpec
INVARIANT LateBounded
INVARIANT PagesBounded
INVARIANT PunctualExhaustsFairly
PROPERTY EscalationImplemented
PROPERTY PunctualKeepsUp
PROPERTY EveryPageStops
