CONSTANTS
  Servers = {s1}
  NoServer = NoServer
  KsPrefs = {"true"}
  Clients = {}
  MaxRetries = 1
  BadTicks = 2
  QueueCap = 1
  OrphanSamples = 1
  AutoRecoverPrefs = {TRUE, FALSE}
  AutoFailoverPrefs = {FALSE}
  Disruptions = {"sleep"}
SPECIFICATION FairSpec
PROPERTIES
  SettlesAfterSleep
  WakeReconnects
