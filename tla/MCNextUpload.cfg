SPECIFICATION Spec
CONSTANTS
  c1 = c1
  c2 = c2
  d1 = d1
  d2 = d2
  Nobody = Nobody
  Clients <- OneClient
  Daemons <- MCDaemons
  MaxPlug = 2
  Kills = FALSE
  Ops = {"send"}
PROPERTY NextUploadStartsDaemon
