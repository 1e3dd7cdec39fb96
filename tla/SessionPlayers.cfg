CONSTANTS
  g1 = g1
  g2 = g2
  r1 = r1
  hostAndLogin = hostAndLogin
  gold = gold
  MaxLocalPlayers = 2
  Guids = {g1, g2}
  StableId = hostAndLogin
  Attributes = {gold}
  Players = {g1, hostAndLogin, r1}
  MaxSlots = 1
  None = None
SPECIFICATION PlayersSpec
INVARIANTS PlayersTypeOK MapsAgree AccountFound SlotsExact TalkersMatch
PROPERTIES PlayersIndependent
CHECK_DEADLOCK FALSE
