CONSTANTS
  Servers = {s1, s2}
  NoServer = NoServer
  Hostnames = {s2}
  Nics = {TRUE}
  LanModes = {"stealth", "block"}
  Calls = {"enable", "simple", "update", "disable", "stealth", "block", "reconcile", "teardown"}
  Faults = {"add", "policy", "activate", "release", "status"}
  MaxFaults = 1
  Serial = TRUE
  MaxTrouble = 1
INIT SystemInit
NEXT SystemNext
INVARIANTS
  SystemTypeOK
  LanSurvives
  OneLanMode
  
  NothingLeftUntold
  RecordOutlivesSudoers
PROPERTIES
  SealKept
