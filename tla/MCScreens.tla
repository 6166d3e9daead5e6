----------------------------- MODULE MCScreens -----------------------------
(***************************************************************************)
(* One instance for what runs beside the daemon: the files that keep it    *)
(* single, the dashboard, an operation's progress view and the server      *)
(* browser, each in behaviours of its own, as in MCMachine.  None has a    *)
(* fair action enabled where it starts, so the fairness of one constrains  *)
(* no behaviour of another.                                                *)
(***************************************************************************)
EXTENDS DaemonLock, Dashboard, ConnectFlow, Browser

VARIABLE part    \* the component that moves

screensVars == <<part, lockVars, dashboardVars, flowVars, browserVars>>

ScreensInit ==
  /\ part \in {"lock", "dashboard", "flow", "browser"}
  /\ LockInit /\ DashboardInit /\ FlowInit /\ BrowserInit
  /\ part # "lock" => calm
  /\ part # "flow" => vpn = "none"

ScreensNext ==
  /\ UNCHANGED part
  /\ \/ /\ part = "lock" /\ LockNext
        /\ UNCHANGED <<dashboardVars, flowVars, browserVars>>
     \/ /\ part = "dashboard" /\ DashboardNext
        /\ UNCHANGED <<lockVars, flowVars, browserVars>>
     \/ /\ part = "flow" /\ FlowNext
        /\ UNCHANGED <<lockVars, dashboardVars, browserVars>>
     \/ /\ part = "browser" /\ BrowserNext
        /\ UNCHANGED <<lockVars, dashboardVars, flowVars>>

ScreensSpec ==
  ScreensInit /\ [][ScreensNext]_screensVars
    /\ LockFairness /\ DashboardFairness /\ FlowFairness

\* The type of the component that moves; the others are where they started.
ScreensTypeOK ==
  CASE part = "lock"      -> LockTypeOK
    [] part = "dashboard" -> DashboardTypeOK
    [] part = "flow"      -> FlowTypeOK
    [] part = "browser"   -> BrowserTypeOK
=============================================================================
