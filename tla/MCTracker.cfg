CONSTANTS
  a = a
  b = b
  d = d
  k1 = k1
  NoConn = NoConn
  Keys = {k1}
  KeyOf <- KeyOfAll
  Servers = {a, b, d}
  Conns <- NineConns
  Owner <- ThreeEach
  MaxFaults = 2
  MaxPicks = 3
SPECIFICATION Spec
CHECK_DEADLOCK FALSE
INVARIANTS
  NoGhosts
  HeldMeansListedUnlessOverlap
  RoundRobin
PROPERTY Reregisters
