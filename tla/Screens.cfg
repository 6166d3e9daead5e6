CONSTANTS
  Pids = {p1, p2}
  NoPid = none
  Stoppers = {s1}
  Toggles = {"killswitch"}
  Conns = {k1, k2}
  NoConn = none
  MaxOps = 1
  MaxTicks = 1
  MaxMail = 1
  MaxTodo = 2
  Buffer = 2
  MaxStream = 1
  MaxOthers = 2
  Servers = {a, b}
  NoServerItem = none
  Bad = {b}
  MaxResults = 2
SPECIFICATION ScreensSpec
INVARIANTS
  ScreensTypeOK
  OneDaemonWhenCalm
  ExitLeavesNothing
  OneReaderPerConnection
  PromptHasItsOp
  SuccessHasGround
  OneConnectPerBrowser
PROPERTIES
  StaleFilesNeverBlock
  DisplayConverges
  FlowEnds
CHECK_DEADLOCK FALSE
