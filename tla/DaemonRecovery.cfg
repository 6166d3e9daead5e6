CONSTANTS
  Servers = {s1, s2}
  NoServer = NoServer
  KsPrefs = {"false", "never"}
  Clients = {}
  MaxRetries = 2
  BadTicks = 2
  QueueCap = 1
  OrphanSamples = 1
  AutoRecoverPrefs = {TRUE, FALSE}
  AutoFailoverPrefs = {TRUE, FALSE}
  Disruptions = {"crash", "sigterm", "removal", "killswitch"}
SPECIFICATION FairSpec
INVARIANTS
  TypeOK
  RetryBudget
  TunnelIsCurrent
PROPERTIES
  KillswitchHeld
  TunnelLossResolved
  ExitsWhenAsked
