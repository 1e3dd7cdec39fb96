CONSTANTS
  h1 = h1
  h2 = h2
  p1 = p1
  a = a
  w1 = w1
  Hosts = {h1, h2}
  Ports = {p1}
  Names = {a}
  Workers = {w1}
  Handlers = {"register_server", "update_server", "perform_heartbeat"}
  TimeBetweenHeartbeats = 1
  None = None
  MaxEntries = 2
  MaxInFlight = 1
SPECIFICATION LFairSpec
INVARIANT LTypeOK
PROPERTIES
  GhostsLeave
  SilentHostsFade
CHECK_DEADLOCK FALSE
