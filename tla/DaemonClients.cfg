CONSTANTS
  Servers = {s1}
  NoServer = NoServer
  KsPrefs = {"true"}
  Clients = {c1}
  MaxRetries = 1
  BadTicks = 1
  QueueCap = 1
  OrphanSamples = 1
  AutoRecoverPrefs = {TRUE}
  AutoFailoverPrefs = {FALSE}
  Disruptions = {}
SPECIFICATION LifetimeSpec
INVARIANTS
  SwitchBackTarget
  HeardAgrees
PROPERTIES
  NoZombie
  ExitsWhenAsked
