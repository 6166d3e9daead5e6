CONSTANTS
  Servers = {s1}
  NoServer = NoServer
  Hostnames = {s1}
  Nics = {TRUE}
  LanModes = {"allow"}
  Calls = {"simple", "update"}
  Faults = {}
  MaxFaults = 0
  Serial = TRUE
SPECIFICATION Spec
PROPERTIES
  SealAlwaysKept
