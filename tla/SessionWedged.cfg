CONSTANTS
  i1 = i1
  i2 = i2
  n1 = n1
  n2 = n2
  Nodes = {n1, n2}
  Kinds = {"find"}
  GameSessionName = "Game"
  Steam = {FALSE}
  JoinChoices = {TRUE, FALSE}
  SessionNames = {"Game"}
  SettingsChoices = {}
  Ids = {i1, i2}
  Calls = {"Create", "Start", "Update", "End", "Destroy"}
  Modes = {FALSE}
  FaultyServer = FALSE
  TimeBetweenHeartbeats = 3
  None = None
SPECIFICATION NFairSpec
PROPERTY QueryCompletes
CHECK_DEADLOCK FALSE
