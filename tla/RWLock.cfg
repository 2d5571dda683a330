SPECIFICATION FairSpec
CONSTANTS
  a = a
  b = b
  s = s
  c = c
  d = d
  q1 = q1
  q2 = q2
  NoQuery = NoQuery
  Clients <- MCClients
  QueryOf <- MCQueryOf
  Outer <- MCOuter
  OneShot = {s, c}
  Timed = {d}
  Groups = {g1, g2, g3, g4, g5}
  End = End
INVARIANTS
  PhasesAreConsistent
  PhaseFair
PROPERTIES
  ImplementsReadersWriter
  RequestsAreServed
