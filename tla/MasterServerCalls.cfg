CONSTANTS
  h1 = h1
  h2 = h2
  lo = lo
  p1 = p1
  a = a
  b = b
  o1 = o1
  o2 = o2
  w1 = w1
  w2 = w2
  Hosts = {h1, h2}
  Loopback = lo
  Ports = {p1}
  Names = {a, b}
  Objs = {o1, o2}
  Workers = {w1, w2}
  Handlers = {"register_server", "perform_heartbeat"}
  TimeBetweenHeartbeats = 0
  Unset = Unset
  None = None
SPECIFICATION HSpec
SYMMETRY Interchangeable
INVARIANTS HTypeOK RegistersOnce HeartbeatReachesAll
PROPERTY ImplementsBrowser RemovesNamesake
CHECK_DEADLOCK FALSE
