------------------------------ MODULE Dashboard ------------------------------
(***************************************************************************)
(* The TUI's dashboard and the layout that shows it (internal/ui).  Slow   *)
(* work - UFW reads and rebuilds, the daemon's socket, sudo - runs in      *)
(* commands of its own and comes back as a message, in any order.  The     *)
(* layout gives a message to the view it shows at that moment, the         *)
(* dashboard drops what comes while its password prompt is open.           *)
(***************************************************************************)
EXTENDS Naturals, FiniteSets

CONSTANTS Toggles,            \* the firewall switches, "lan" with three positions
          Conns, NoConn,      \* connections to the daemon
          MaxOps, MaxTicks,   \* bounds: rebuilds in flight, reconcile ticks pending,
          MaxMail             \* and messages on their way

ASSUME DashboardAssumption == NoConn \notin Conns /\ MaxOps \in Nat /\ MaxTicks \in Nat /\ MaxMail \in Nat

VARIABLES screen,    \* the dashboard is shown, below a sub-view, or gone
          dash,      \* its fields
          ufw,       \* the firewall's switches
          ops,       \* the rebuilds that run
          mail,      \* messages on their way to the layout
          readers,   \* how many commands wait for an event of each connection
          ticks,     \* reconcile ticks pending
          settled    \* nobody presses keys or changes the firewall any more

dashboardVars == <<screen, dash, ufw, ops, mail, readers, ticks, settled>>

Positions == 0 .. 2
Postures == [Toggles -> Positions]
Off == [t \in Toggles |-> 0]
NoOp == [toggle |-> "none", want |-> Off]

Message == [kind |-> "none", from |-> NoConn, op |-> NoOp,
            got |-> Off, res |-> "ok"]
Down == [Message EXCEPT !.kind = "down"]
Retry == [Message EXCEPT !.kind = "retry"]
Snapshot == [Message EXCEPT !.kind = "snapshot", !.got = ufw]

\* An event of the daemon tells the killswitch's position, a health report does not.
StatusOf(c) == [Message EXCEPT !.kind = "status", !.from = c, !.got = ufw]
HealthOf(c) == [Message EXCEPT !.kind = "health", !.from = c]

Room == Cardinality(mail) < MaxMail

Shown == screen = "dashboard"
Receptive == Shown /\ dash.prompt = "none"

\* Off -> On -> Off; Allow -> Stealth -> Block -> Allow.
Flipped(t, v) == IF t = "lan" THEN (v + 1) % 3 ELSE 1 - v

\* What connectToDaemon brings: a first status event, or no connection.
Unused(c) == dash.client # c /\ readers[c] = 0 /\ \A m \in mail : m.from # c
Dialled == {Down} \cup {StatusOf(c) : c \in {k \in Conns : Unused(k)}}

\* Reads do not overlap (a bound).
Read == IF \E m \in mail : m.kind = "snapshot" THEN {} ELSE {Snapshot}

FreshDash == [cache |-> ufw, busy |-> FALSE, prompt |-> "none", pending |-> NoOp, client |-> NoConn]

DashboardInit ==
  /\ screen = "elsewhere" /\ ufw = Off /\ ops = {} /\ mail = {}
  /\ dash = FreshDash /\ readers = [c \in Conns |-> 0] /\ ticks = 0 /\ settled = FALSE

-----------------------------------------------------------------------------
(* The user, through the layout. *)

\* NewDashboard and its Init: one more connection, one more reconcile tick.
ShowDashboard ==
  /\ Room /\ ~settled /\ screen # "below" /\ ticks < MaxTicks
  /\ screen' = "dashboard" /\ dash' = FreshDash /\ ticks' = ticks + 1
  /\ \E m \in Dialled : mail' = mail \cup {m}
  /\ UNCHANGED <<ufw, ops, readers, settled>>

ShowOther ==
  /\ ~settled /\ Shown /\ screen' = "elsewhere"
  /\ UNCHANGED <<dash, ufw, ops, mail, readers, ticks, settled>>

\* A test or the DNS providers, or from the navigation, prompt or not, the update.
OpenSubView ==
  /\ ~settled /\ Shown /\ screen' = "below"
  /\ UNCHANGED <<dash, ufw, ops, mail, readers, ticks, settled>>

\* The dashboard comes back as it was, and refreshes.
Back ==
  /\ ~settled /\ screen = "below" /\ screen' = "dashboard"
  /\ dash' = [dash EXCEPT !.cache = ufw]
  /\ UNCHANGED <<ufw, ops, mail, readers, ticks, settled>>

\* handleKillswitchToggle, handleLocalNetworkCycle, handleIPv6Toggle.
Toggle(t) ==
  /\ ~settled /\ Receptive /\ ~dash.busy /\ Cardinality(ops) < MaxOps
  /\ LET want == [dash.cache EXCEPT ![t] = Flipped(t, @)]
     IN  /\ dash' = [dash EXCEPT !.cache = want, !.busy = TRUE]
         /\ ops' = ops \cup {[toggle |-> t, want |-> want]}
  /\ UNCHANGED <<screen, ufw, mail, readers, ticks, settled>>

\* Mutant: the operation refused stays behind when its prompt is cancelled.
CancelKeepsOp ==
  /\ ~settled /\ Shown /\ dash.prompt = "asking"
  /\ dash' = [dash EXCEPT !.prompt = "none", !.cache = ufw]
  /\ UNCHANGED <<screen, ufw, ops, mail, readers, ticks, settled>>

CancelPrompt ==
  /\ ~settled /\ Shown /\ dash.prompt = "asking"
  /\ dash' = [dash EXCEPT !.prompt = "none", !.pending = NoOp, !.cache = ufw]
  /\ UNCHANGED <<screen, ufw, ops, mail, readers, ticks, settled>>

EnterPassword ==
  /\ Room /\ ~settled /\ Shown /\ dash.prompt = "asking"
  /\ dash' = [dash EXCEPT !.prompt = "checking"]
  /\ \E r \in {"ok", "refused"} : mail' = mail \cup {[Message EXCEPT !.kind = "auth", !.res = r]}
  /\ UNCHANGED <<screen, ufw, ops, readers, ticks, settled>>

-----------------------------------------------------------------------------
(* The commands, the daemon and the other programs. *)

\* Reconcile tears everything down and builds it up: when it fails half-way a
\* switch is off or as wanted; without sudo nothing happens.
OpRuns(o) ==
  /\ Room /\ o \in ops /\ ops' = ops \ {o}
  /\ \E r \in {"ok", "auth", "failed"} :
       /\ mail' = mail \cup {[Message EXCEPT !.kind = "result", !.op = o, !.res = r]}
       /\ CASE r = "ok" -> ufw' = o.want
            [] r = "auth" -> UNCHANGED ufw
            [] r = "failed" -> \E T \in SUBSET Toggles :
                                 ufw' = [t \in Toggles |-> IF t \in T THEN o.want[t] ELSE 0]
  /\ UNCHANGED <<screen, dash, readers, ticks, settled>>

ReaderReturns(c) ==
  /\ Room /\ readers[c] > 0 /\ readers' = [readers EXCEPT ![c] = @ - 1]
  /\ \E m \in {Down, HealthOf(c), StatusOf(c)} :
       mail' = mail \cup {m}
  /\ UNCHANGED <<screen, dash, ufw, ops, ticks, settled>>

\* The command line, the daemon or ufw itself.
ChangedOutside(t) ==
  /\ ~settled /\ ufw' = [ufw EXCEPT ![t] = Flipped(t, @)]
  /\ UNCHANGED <<screen, dash, ops, mail, readers, ticks, settled>>

Settle == ~settled /\ settled' = TRUE /\ UNCHANGED <<screen, dash, ufw, ops, mail, readers, ticks>>

-----------------------------------------------------------------------------
(* Messages reach the view that is shown. *)

\* Mutant: the footer keeps its tick to itself.
FooterOnly == UNCHANGED dashboardVars 

\* The footer's tick, each second whatever is shown: the dashboard reads again.
StatusUpdate ==
  /\ Receptive /\ mail' = mail \cup Read
  /\ UNCHANGED <<screen, dash, ufw, ops, readers, ticks, settled>>

\* The next tick is scheduled by the dashboard that gets this one, or not at all.
ReconcileTick ==
  /\ Room /\ ticks > 0
  /\ IF Receptive THEN mail' = mail \cup Read /\ UNCHANGED ticks
                  ELSE ticks' = ticks - 1 /\ UNCHANGED mail
  /\ UNCHANGED <<screen, dash, ufw, ops, readers, settled>>

Lost(m) ==
  /\ IF m.kind = "auth" THEN ~Shown \/ dash.prompt = "none" ELSE ~Receptive
  /\ mail' = mail \ {m} /\ UNCHANGED <<dash, ops, readers>>

AuthAnswered(m) ==
  /\ m.kind = "auth" /\ Shown /\ dash.prompt # "none" /\ mail' = mail \ {m}
  /\ IF m.res = "refused" THEN dash' = [dash EXCEPT !.prompt = "asking"] /\ UNCHANGED ops
     ELSE /\ ops' = ops \cup {dash.pending}
          /\ dash' = [dash EXCEPT !.prompt = "none", !.pending = NoOp, !.busy = TRUE]
  /\ UNCHANGED readers

GetsResult(m) ==
  /\ m.kind = "result" /\ mail' = mail \ {m}
  /\ dash' = IF m.res = "auth"
             THEN [dash EXCEPT !.busy = FALSE, !.prompt = "asking", !.pending = m.op]
             ELSE [dash EXCEPT !.busy = FALSE, !.cache = ufw]
  /\ UNCHANGED <<ops, readers>>

GetsSnapshot(m) ==
  /\ m.kind = "snapshot" /\ mail' = mail \ {m}
  /\ dash' = [dash EXCEPT !.cache = m.got] /\ UNCHANGED <<ops, readers>>

\* Status and disconnected events bring the killswitch's position, others nothing.
WithEvent(m) == {dash} \cup {[dash EXCEPT !.cache[t] = m.got[t]] : t \in Toggles \cap {"killswitch"}}

Listen(c) == readers' = IF c = NoConn THEN readers ELSE [readers EXCEPT ![c] = @ + 1]
Stale(m) == dash.client # NoConn /\ m.from # dash.client

GetsEvent(m) ==
  /\ m.kind = "status" /\ ~Stale(m) /\ mail' = mail \ {m}
  /\ \E d \in WithEvent(m) : dash' = [d EXCEPT !.client = m.from]
  /\ Listen(m.from) /\ UNCHANGED ops

\* Mutant: health of an earlier connection is taken too.
GetsAnyHealth(m) ==
  /\ m.kind = "health" /\ mail' = mail \ {m}
  /\ Listen(dash.client) /\ UNCHANGED <<dash, ops>>

GetsHealth(m) ==
  /\ m.kind = "health" /\ ~Stale(m) /\ mail' = mail \ {m}
  /\ Listen(dash.client) /\ UNCHANGED <<dash, ops>>

\* A message of an earlier connection only closes that one.
GetsStale(m) ==
  /\ m.from # NoConn /\ Stale(m)
  /\ mail' = mail \ {m} /\ UNCHANGED <<dash, ops, readers>>

\* Whichever connection failed: the present one is forgotten, a retry scheduled.
GetsDown(m) ==
  /\ m.kind = "down" /\ mail' = (mail \ {m}) \cup Read \cup {Retry}
  /\ dash' = [dash EXCEPT !.client = NoConn] /\ UNCHANGED <<ops, readers>>

GetsRetry(m) ==
  /\ m.kind = "retry" /\ \E d \in Dialled : mail' = (mail \ {m}) \cup {d}
  /\ UNCHANGED <<dash, ops, readers>>

Deliver(m) ==
  /\ m \in mail
  /\ \/ Lost(m) \/ AuthAnswered(m)
     \/ /\ Receptive
        /\ \/ GetsResult(m) \/ GetsSnapshot(m) \/ GetsEvent(m) \/ GetsHealth(m)
           \/ GetsStale(m) \/ GetsDown(m) \/ GetsRetry(m)
  /\ UNCHANGED <<screen, ufw, ticks, settled>>

DeliverSome(k, c) == \E m \in mail : m.kind = k /\ m.from = c /\ Deliver(m)
Kinds == {"result", "snapshot", "auth", "status", "health", "down", "retry"}

DashboardNext ==
  \/ ShowDashboard \/ ShowOther \/ OpenSubView \/ Back
  \/ CancelPrompt \/ EnterPassword \/ Settle
  \/ StatusUpdate \/ ReconcileTick
  \/ \E t \in Toggles : Toggle(t) \/ ChangedOutside(t)
  \/ \E o \in ops : OpRuns(o)
  \/ \E c \in Conns : ReaderReturns(c)
  \/ \E k \in Kinds, c \in Conns \cup {NoConn} : DeliverSome(k, c)

\* Commands end, the runtime delivers every message, the footer keeps ticking.
DashboardFairness ==
  /\ WF_dashboardVars(StatusUpdate)
  /\ WF_dashboardVars(\E o \in ops : OpRuns(o))
  /\ \A k \in Kinds, c \in Conns \cup {NoConn} : WF_dashboardVars(DeliverSome(k, c))

-----------------------------------------------------------------------------

DashboardTypeOK ==
  /\ screen \in {"dashboard", "below", "elsewhere"} /\ ufw \in Postures
  /\ dash \in [cache : Postures, busy : BOOLEAN, prompt : {"none", "asking", "checking"},
               pending : [toggle : Toggles, want : Postures] \cup {NoOp},
               client : Conns \cup {NoConn}]
  /\ ops \subseteq [toggle : Toggles, want : Postures]
  /\ \A m \in mail : m.kind \in Kinds /\ m.got \in Postures
  /\ readers \in [Conns -> 0 .. 2] /\ ticks \in 0 .. MaxTicks /\ settled \in BOOLEAN

\* The switches on display are in the end the firewall's and stay so, once
\* nothing changes any more and the dashboard is shown without a prompt -
\* whatever was lost, and whatever old reading arrived late, before.
DisplayConverges ==
  <>[](settled /\ Receptive) => <>[](dash.cache = ufw)

\* No two commands ever wait on one connection, however often dashboards are
\* replaced and connections given up: its buffered reader is not safe for two.
OneReaderPerConnection ==
  \A c \in Conns : readers[c] + Cardinality({m \in mail : m.from = c}) <= 1

\* The prompt is open exactly while an operation waits for its password.
PromptHasItsOp == (dash.prompt # "none") <=> (dash.pending # NoOp)

\* dashboard.go:76 "true while an async firewall op is in flight".
BusyOnlyWhileApplying ==
  Shown /\ dash.busy => ops # {} \/ \E m \in mail : m.kind = "result"

=============================================================================
