CONSTANTS
  a = a
  b = b
  d = d
  k1 = k1
  NoConn = NoConn
  Keys = {k1}
  KeyOf <- KeyOfAll
  Servers = {a}
  Conns <- TwoConns
  Owner <- BothOfOne
  MaxFaults = 1
  MaxPicks = 0
SPECIFICATION Spec
CHECK_DEADLOCK FALSE
INVARIANT HeldMeansListed
