\* Two connections, at most one request each, one switch of the egress, Close.
SPECIFICATION FairSpec
CONSTANTS
  c1 = c1
  c2 = c2
  e1 = e1
  e2 = e2
  s1 = s1
  s2 = s2
  Conns = {c1, c2}
  MaxScreening = 1
  Strict = FALSE
  Kinds <- MCKinds
  PeekHello = TRUE
  Egresses = {e1, e2}
  FirstEgress = e1
  Shapes = {s1, s2}
  MaxHelloStacks = 1
  NativeTLS = TRUE
  PinnedHello = "none"
INVARIANT OwnWayOut
PROPERTIES
  CloseIsFinal
  CloseReturns
  AllIsFreed
\* The program stops once it is closed.
CHECK_DEADLOCK FALSE
