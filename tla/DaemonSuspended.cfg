CONSTANTS
  Servers = {s1}
  NoServer = NoServer
  KsPrefs = {"true"}
  Clients = {}
  MaxRetries = 1
  BadTicks = 1
  QueueCap = 1
  OrphanSamples = 1
  AutoRecoverPrefs = {TRUE}
  AutoFailoverPrefs = {FALSE}
  Disruptions = {"sleep"}
SPECIFICATION Spec
PROPERTIES
  SuspendedStaysUnhealthy
