CONSTANTS
  i1 = i1
  i2 = i2
  SessionNames = {"Game"}
  SettingsChoices <- AllKinds
  Ids = {i1, i2}
  Calls = {"Create", "Start", "Update", "End", "Destroy", "Join", "ChangeSpace", "ChangePlayer"}
  Modes = {TRUE, FALSE}
  FaultyServer = TRUE
  TimeBetweenHeartbeats = 3
  None = None
SPECIFICATION HSpec
SYMMETRY RequestSymmetry
PROPERTY StartedOnce
INVARIANTS HTypeOK CreateAnsweredOnce BeaconInStep
CHECK_DEADLOCK FALSE
