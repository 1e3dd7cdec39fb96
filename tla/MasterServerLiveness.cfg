CONSTANTS
  h1 = h1
  h2 = h2
  p1 = p1
  a = a
  o1 = o1
  o2 = o2
  w1 = w1
  Hosts = {h1, h2}
  Loopback = h2
  Ports = {p1}
  Names = {a}
  Objs = {o1, o2}
  Workers = {w1}
  Handlers = {"register_server", "update_server", "perform_heartbeat", "unregister_server", "get_serverlist"}
  TimeBetweenHeartbeats = 1
  Unset = Unset
  None = None
SPECIFICATION FairSpec
PROPERTIES StaleEntriesLeave
CHECK_DEADLOCK FALSE
