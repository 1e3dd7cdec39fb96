CONSTANTS
  i1 = i1
  SessionNames = {"Game"}
  SettingsChoices <- OnlineOnly
  Ids = {i1}
  Calls = {"Create", "Start", "Update", "End", "Destroy"}
  Modes = {FALSE}
  FaultyServer = FALSE
  TimeBetweenHeartbeats = 3
  None = None
SPECIFICATION HSpec
SYMMETRY RequestSymmetry
INVARIANTS InfoNotUsedAfterRemoval
CHECK_DEADLOCK FALSE
