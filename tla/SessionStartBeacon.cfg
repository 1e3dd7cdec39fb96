CONSTANTS
  i1 = i1
  SessionNames = {"Game"}
  SettingsChoices <- LanAndOnline
  Ids = {i1}
  Calls = {"Create", "Start", "Update", "End", "Destroy"}
  Modes = {FALSE}
  FaultyServer = FALSE
  TimeBetweenHeartbeats = 3
  None = None
SPECIFICATION HSpec
SYMMETRY RequestSymmetry
INVARIANTS StartClosesBeacon
CHECK_DEADLOCK FALSE
