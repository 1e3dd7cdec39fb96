CONSTANTS
  i1 = i1
  i2 = i2
  SessionNames = {"Game", "Party"}
  SettingsChoices <- LanAndOnline
  Ids = {i1, i2}
  Calls = {"Create", "Start", "End", "Destroy"}
  Modes = {FALSE}
  FaultyServer = FALSE
  TimeBetweenHeartbeats = 3
  None = None
SPECIFICATION HSpec
SYMMETRY RequestSymmetry
PROPERTY StartedOnce
INVARIANTS CreateAnsweredOnce LastNotStuck BeaconInStep
CHECK_DEADLOCK FALSE
