CONSTANTS
  Endpoints = {e1, e2}
  NoEndpoint = none
  Gateways = {g1, g2}
  NoGateway = offline
  ConfigServers = {a}
  NoServer = none
  ConfigUsers = {u1}
  Prefs = {p0, p1}
  DefaultPref = p0
  PingWindow = 4
  Latencies = {50, 200, 600}
  MaxAge = 8
  MaxDnsFails = 4
  Paths = {f1, f2}
  Providers = {pa, pb}
  NoProvider = none
  MaxLists = 2
  MaxFetches = 2
INIT MachineInit
NEXT MachineNext
SYMMETRY MachineSymmetry
INVARIANTS
  MachineTypeOK
  ConnectRepairs
  TeardownRestores
  FileFollowsDaemon
  SummaryIsHonest
  NoOrphanList
PROPERTIES
  RefinesHost
  DaemonKeepsPrefs
  RefinesRecent
  WorseNeverLooksBetter
  RefreshKeepsLists
CHECK_DEADLOCK FALSE
