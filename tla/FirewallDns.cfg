CONSTANTS
  Servers = {s1}
  NoServer = NoServer
  Hostnames = {}
  Nics = {TRUE}
  LanModes = {"block"}
  Calls = {"update", "reconcile", "block"}
  Faults = {}
  MaxFaults = 0
  Serial = TRUE
SPECIFICATION Spec
INVARIANTS
  BlockKeepsDns
