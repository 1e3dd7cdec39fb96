CONSTANTS
  h1 = h1
  h2 = h2
  lo = lo
  p1 = p1
  a = a
  o1 = o1
  o2 = o2
  w1 = w1
  w2 = w2
  Hosts = {h1, h2}
  Loopback = lo
  Ports = {p1}
  Names = {a}
  Objs = {o1, o2}
  Workers = {w1, w2}
  Handlers = {"register_server", "unregister_server", "get_serverlist"}
  TimeBetweenHeartbeats = 0
  Unset = Unset
  None = None
SPECIFICATION HSpec
SYMMETRY Interchangeable
INVARIANTS SweeperSurvives ListingExact
CHECK_DEADLOCK FALSE
