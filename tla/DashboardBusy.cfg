CONSTANTS
  Toggles = {"killswitch"}
  Conns = {k1, k2}
  NoConn = none
  MaxOps = 1
  MaxTicks = 1
  MaxMail = 1
INIT DashboardInit
NEXT DashboardNext
INVARIANT BusyOnlyWhileApplying
CHECK_DEADLOCK FALSE
