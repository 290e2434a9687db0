SPECIFICATION Spec
CONSTANTS
  c1 = c1
  c2 = c2
  d1 = d1
  d2 = d2
  Nobody = Nobody
  Clients <- MCClients
  Daemons <- MCDaemons
  MaxPlug = 2
  Kills = TRUE
  Ops = {"send", "noreset", "stop"}
INVARIANTS TypeOK OnePortHolder ServingIsReachable AnswersAreTrue
PROPERTIES NoSurpriseReset EveryCommandEnds UnpluggedDaemonExits
