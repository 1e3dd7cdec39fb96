CONSTANTS
  i1 = i1
  i2 = i2
  n1 = n1
  n2 = n2
  n3 = n3
  Nodes = {n1, n2, n3}
  Kinds = {"create", "find", "end", "cancel", "update", "friend", "login", "logout", "friends"}
  GameSessionName = "Game"
  Steam = {TRUE, FALSE}
  JoinChoices = {FALSE}
  SessionNames = {"Game"}
  SettingsChoices = {}
  Ids = {i1, i2}
  Calls = {"Create", "Start", "Update", "End", "Destroy"}
  Modes = {FALSE}
  FaultyServer = TRUE
  TimeBetweenHeartbeats = 3
  None = None
SPECIFICATION NSpec
SYMMETRY Symmetry
INVARIANTS NTypeOK NodesReportOnce FindOwed RequestOwed NoneLeftWaiting SearchHoldsBeacon AnswerHasSearch
CHECK_DEADLOCK FALSE
