--------------------------- MODULE Screens_proofs ---------------------------
(***************************************************************************)
(* Theorems about the terminal interface: the server browser, the verdict  *)
(* of a connect, the dashboard's password prompt and daemon connections,   *)
(* for any number of servers, connections, switches and messages.          *)
(***************************************************************************)
EXTENDS MCScreens, DaemonLock_proofs, FiniteSetTheorems, SequenceTheorems

-----------------------------------------------------------------------------
(* The browser: a connect asked for and not yet shown holds the guard. *)

GuardInv == asked \in {0, 1} /\ (asked = 1 => connecting = TRUE)

\* A browser asks for one connect at most, whatever answers arrive late.
THEOREM OneConnectPerBrowserAlways == BrowserSpec => []OneConnectPerBrowser
<1>1. BrowserInit => GuardInv
      BY DEF BrowserInit, GuardInv
<1>2. GuardInv /\ [BrowserNext]_browserVars => GuardInv'
  <2> SUFFICES ASSUME GuardInv, [BrowserNext]_browserVars PROVE GuardInv'
      OBVIOUS
  <2> USE DEF GuardInv
  <2>1. ASSUME NEW s, Confirm \/ EnterOn(s) PROVE GuardInv'
        BY <2>1 DEF Confirm, EnterOn, MayAsk, AskConnect
  <2>2. ASSUME NEW found, OpenMine(found) \/ OpenDynamic PROVE GuardInv'
        BY <2>2 DEF OpenMine, OpenDynamic, FreshBrowser
  <2>3. CASE ShowProgress
        BY <2>3 DEF ShowProgress
  <2>4. CASE UNCHANGED <<connecting, asked>>
        BY <2>4
  <2>5. ASSUME NEW some, TakeLoad(some) \/ TakeLatencies(some) \/ Refilter(some)
        PROVE  UNCHANGED <<connecting, asked>>
        BY <2>5 DEF TakeLoad, TakeLatencies, Refilter
  <2>6. CASE TakeAuthNeeded \/ AskPassword \/ PasswordEnds \/ Decline \/ MeasureThenPropose \/ Measure
        BY <2>4, <2>6 DEF TakeAuthNeeded, AskPassword, PasswordEnds, Decline, MeasureThenPropose, Measure
  <2>7. ASSUME NEW s, TakeQuickest(s) \/ Propose(s) \/ ToggleFavorite(s)
        PROVE  UNCHANGED <<connecting, asked>>
        BY <2>7 DEF TakeQuickest, Propose, ToggleFavorite
  <2> QED BY <2>1, <2>2, <2>3, <2>4, <2>5, <2>6, <2>7 DEF BrowserNext, browserVars
<1>3. GuardInv => OneConnectPerBrowser
      BY DEF GuardInv, OneConnectPerBrowser
<1> QED BY <1>1, <1>2, <1>3, PTL DEF BrowserSpec

-----------------------------------------------------------------------------
(* The verdict of a connect: an error line for every bad end. *)

Shaped(f) ==
  /\ f = [at |-> f.at, kind |-> f.kind, read |-> f.read, lines |-> f.lines,
          held |-> f.held, lost |-> f.lost, refused |-> f.refused]
  /\ f.lost \in BOOLEAN

FlowShape == Shaped(flow) /\ view = [phase |-> view.phase, success |-> view.success]

\* The error is told, or its line did not fit.
Told(f) == "error" \in f.lines \/ f.lost

VerdictInv ==
  /\ FlowShape
  /\ flow.at = "force" => Disconnects
  /\ flow.at \in {"idle", "prompt"} => flow.read = {}
  /\ "failed" \in flow.read /\ ~Disconnects => Told(flow)
  /\ flow.at \in {"closed", "over"} /\ ~Disconnects =>
       Told(flow) \/ {"connected", "statusConnected"} \cap flow.read # {}
  /\ view.success => flow.at = "over" /\ "error" \notin flow.lines

\* A line written changes nothing but the lines, and an error's is told.
LEMMA WrittenTells ==
  ASSUME NEW f, NEW l, Shaped(f)
  PROVE  /\ Shaped(Written(f, l))
         /\ Written(f, l).at = f.at /\ Written(f, l).kind = f.kind /\ Written(f, l).read = f.read
         /\ Told(f) \/ l = "error" => Told(Written(f, l))
<1> DEFINE w == Written(f, l)
<1>1. CASE f.held < Buffer
      BY <1>1 DEF Written, Told, Shaped
<1>2. CASE ~(f.held < Buffer)
  <2> DEFINE gone == f.lost \/ l = "error"
  <2>1. w = [f EXCEPT !.lost = gone]
        BY <1>2, Zenon DEF Written
  <2>2. gone \in BOOLEAN
        BY Zenon
  <2>3. (f.lost \/ l = "error") => gone
        OBVIOUS
  <2> HIDE DEF gone, w
  <2>4. /\ w = [at |-> f.at, kind |-> f.kind, read |-> f.read, lines |-> f.lines,
                held |-> f.held, lost |-> gone, refused |-> f.refused]
        BY <2>1 DEF Shaped
  <2>5. w.lines = f.lines /\ w.lost = gone /\ w.at = f.at /\ w.kind = f.kind /\ w.read = f.read
        BY <2>4
  <2>6. Told(f) \/ l = "error" => Told(w)
        BY <2>3, <2>5, Zenon DEF Told
  <2>7. Shaped(w)
        BY <2>2, <2>4 DEF Shaped
  <2> QED BY <2>5, <2>6, <2>7 DEF w
<1> QED BY <1>1, <1>2

\* Going elsewhere changes only the place.
LEMMA GoingTells ==
  ASSUME Shaped(flow), NEW place
  PROVE  LET f == [flow EXCEPT !.at = place]
         IN  /\ Shaped(f) /\ f.at = place /\ f.kind = flow.kind /\ f.read = flow.read
             /\ (Told(flow) <=> Told(f))
<1> DEFINE f == [flow EXCEPT !.at = place]
<1>1. f = [at |-> place, kind |-> flow.kind, read |-> flow.read, lines |-> flow.lines,
           held |-> flow.held, lost |-> flow.lost, refused |-> flow.refused]
      BY DEF Shaped
<1> HIDE DEF f
<1>2. /\ f.at = place /\ f.kind = flow.kind /\ f.read = flow.read /\ f.lines = flow.lines
      /\ f.held = flow.held /\ f.lost = flow.lost /\ f.refused = flow.refused
      BY <1>1
<1>3. Told(flow) <=> Told(f)
      BY <1>2, Zenon DEF Told
<1> QED BY <1>1, <1>2, <1>3 DEF Shaped, f

\* So does reading, of the place and what was heard.
LEMMA ReadingTells ==
  ASSUME Shaped(flow), NEW place, NEW seen
  PROVE  LET f == [flow EXCEPT !.at = place, !.read = seen]
         IN  /\ Shaped(f) /\ f.at = place /\ f.kind = flow.kind /\ f.read = seen
             /\ (Told(flow) <=> Told(f))
<1> DEFINE f == [flow EXCEPT !.at = place, !.read = seen]
<1>1. f = [at |-> place, kind |-> flow.kind, read |-> seen, lines |-> flow.lines,
           held |-> flow.held, lost |-> flow.lost, refused |-> flow.refused]
  <2> DEFINE g == [flow EXCEPT !.at = place]
  <2>1. g = [at |-> place, kind |-> flow.kind, read |-> flow.read, lines |-> flow.lines,
             held |-> flow.held, lost |-> flow.lost, refused |-> flow.refused]
        BY DEF Shaped
  <2>2. f = [g EXCEPT !.read = seen]
        OBVIOUS
  <2> HIDE DEF f, g
  <2> QED BY <2>1, <2>2
<1> HIDE DEF f
<1>2. /\ f.at = place /\ f.kind = flow.kind /\ f.read = seen /\ f.lines = flow.lines
      /\ f.held = flow.held /\ f.lost = flow.lost /\ f.refused = flow.refused
      BY <1>1
<1>3. Told(flow) <=> Told(f)
      BY <1>2, Zenon DEF Told
<1> QED BY <1>1, <1>2, <1>3 DEF Shaped, f

\* An end reached by writing an error line.
LEMMA ErrorEnds ==
  ASSUME VerdictInv, NEW place, place # "over", place \notin {"idle", "prompt"},
         flow.at # "over", UNCHANGED view,
         NEW l, place = "force" => Disconnects,
         place = "closed" => l = "error" \/ Disconnects,
         flow' = Written([flow EXCEPT !.at = place], l)
  PROVE  VerdictInv'
<1> DEFINE f == [flow EXCEPT !.at = place]
<1>1. /\ Shaped(f) /\ f.at = place /\ f.kind = flow.kind /\ f.read = flow.read
      /\ (Told(flow) <=> Told(f))
      BY GoingTells DEF VerdictInv, FlowShape
<1>2. flow' = Written(f, l)
      OBVIOUS
<1> HIDE DEF f
<1>3. /\ Shaped(flow') /\ flow'.at = place /\ flow'.kind = flow.kind /\ flow'.read = flow.read
      /\ Told(f) \/ l = "error" => Told(flow')
      BY <1>1, <1>2, WrittenTells
<1>4. FlowShape'
      BY <1>3 DEF VerdictInv, FlowShape
<1>5. ~view'.success
      BY DEF VerdictInv
<1> QED BY <1>1, <1>3, <1>4, <1>5 DEF VerdictInv, Disconnects

\* Every step keeps a bad end told.
LEMMA VerdictNext == VerdictInv /\ [FlowNext]_flowVars => VerdictInv'
<1> SUFFICES ASSUME VerdictInv, [FlowNext]_flowVars PROVE VerdictInv'
    OBVIOUS
<1> USE DEF VerdictInv, FlowShape, Shaped, Goto, Only, Disconnects, Told
<1>1. CASE UNCHANGED <<flow, view>>
      BY <1>1
<1>2. CASE DaemonTakes \/ DaemonEnds \/ DaemonReports \/ DaemonGivesUp \/ DaemonExits \/ OtherClient
      BY <1>1, <1>2 DEF DaemonTakes, DaemonEnds, DaemonReports, DaemonGivesUp, DaemonExits, OtherClient
<1>3. ASSUME NEW kind \in {"connect", "disconnect"}, UserStarts(kind) PROVE VerdictInv'
      BY <1>3 DEF UserStarts
<1>4. CASE UserAnswers \/ UserLeaves
      BY <1>4 DEF UserAnswers, UserLeaves
<1>5. CASE Begin
  <2>1. CASE Goto("send") \/ (~Disconnects /\ Goto("spawn"))
        BY <1>5, <2>1 DEF Begin
  <2>2. CASE /\ ~Disconnects /\ flow' = Written([flow EXCEPT !.at = "closed"], "error")
        BY <1>5, <2>2, ErrorEnds DEF Begin
  <2>3. CASE /\ Disconnects /\ flow' = Written([flow EXCEPT !.at = "force"], "text")
        BY <1>5, <2>3, ErrorEnds DEF Begin
  <2> QED BY <1>5, <2>1, <2>2, <2>3 DEF Begin
<1>6. CASE Send
  <2>1. flow.at = "send" /\ UNCHANGED view
        BY <1>6 DEF Send
  <2>2. CASE Goto("listen") \/ flow' = [flow EXCEPT !.at = "listen", !.refused = TRUE]
                \/ flow' = [flow EXCEPT !.at = "erring"]
        BY <2>1, <2>2
  <2>3. CASE Disconnects /\ flow' = Written([flow EXCEPT !.at = "force"], "text")
        BY <2>1, <2>3, ErrorEnds
  <2> QED BY <1>6, <2>2, <2>3 DEF Send
<1>7. CASE Spawn \/ Attach
      BY <1>7 DEF Spawn, Attach
<1>8. CASE LosesDaemon
      BY <1>8 DEF LosesDaemon, Hears
<1>9. CASE Reads
  <2> DEFINE e == Head(stream)
             place == After(e)
             seen == flow.read \cup ({e} \cap Verdicts)
             f == [flow EXCEPT !.at = place, !.read = seen]
  <2>1. /\ flow' = Written(f, LineOf(e)) /\ UNCHANGED view
        /\ flow.at \in {"listen", "listenSpawned"}
        BY <1>9 DEF Reads, Hears
  <2>2. /\ Shaped(f) /\ f.at = place /\ f.kind = flow.kind /\ f.read = seen
        /\ (Told(flow) <=> Told(f))
    <3>1. Shaped(flow)
          BY Zenon
    <3> HIDE DEF e, place, seen, VerdictInv, FlowShape, Told, Shaped
    <3> QED BY <3>1, ReadingTells
  <2>3. /\ place \in {"closed", "erring", flow.at}
        /\ ~Disconnects /\ place = "closed" => e \in {"connected", "statusConnected"}
        /\ ~Disconnects /\ e = "failed" => LineOf(e) = "error"
        BY <2>1 DEF After, LineOf, Failures
  <2> HIDE DEF e, f, place, Told, Shaped
  <2>4. /\ FlowShape' /\ flow'.at = f.at /\ flow'.kind = f.kind /\ flow'.read = f.read
        /\ Told(f) \/ LineOf(e) = "error" => Told(flow')
        BY <2>1, <2>2, WrittenTells
  <2>5. ~view'.success
        BY <2>1
  <2>6. e \in {"connected", "statusConnected"} => {"connected", "statusConnected"} \cap flow'.read # {}
        BY <2>2, <2>4 DEF Verdicts
  <2> QED BY <2>1, <2>2, <2>3, <2>4, <2>5, <2>6 DEF Verdicts
<1>10. CASE Errs
       BY <1>10, ErrorEnds DEF Errs
<1>11. CASE ForceDown
  <2>1. PICK l \in {"error", "text"} : flow' = Written([flow EXCEPT !.at = "closed"], l)
        BY <1>11 DEF ForceDown
  <2>2. Disconnects /\ flow.at = "force" /\ UNCHANGED view
        BY <1>11 DEF ForceDown
  <2> QED BY <2>1, <2>2, ErrorEnds
<1>12. CASE Shows
       BY <1>12 DEF Shows
<1>13. CASE Done
       BY <1>13 DEF Done
<1> QED BY <1>1, <1>2, <1>3, <1>4, <1>5, <1>6, <1>7, <1>8, <1>9, <1>10, <1>11, <1>12, <1>13
        DEF FlowNext, flowVars

\* No connect is shown as successful that the daemon did not report, unless an
\* error's line was dropped because the channel to the view was full.
THEOREM SuccessHasGroundAlways == FlowInit /\ [][FlowNext]_flowVars => []SuccessHasGround
<1>1. FlowInit => VerdictInv
      BY DEF FlowInit, VerdictInv, FlowShape, Shaped, Told
<1>2. VerdictInv => SuccessHasGround
      BY DEF VerdictInv, SuccessHasGround, FlowShape, Shaped, Told
<1> QED BY <1>1, <1>2, VerdictNext, PTL

-----------------------------------------------------------------------------
(* The dashboard's prompt and connections. *)

DashShape ==
  dash = [cache |-> dash.cache, busy |-> dash.busy, prompt |-> dash.prompt,
          pending |-> dash.pending, client |-> dash.client]

\* A rebuild, and the result of one, is never the empty operation.
PromptInv ==
  /\ DashShape
  /\ dash.prompt # "none" <=> dash.pending # NoOp
  /\ NoOp \notin ops
  /\ \A m \in mail : m.kind = "result" => m.op # NoOp

\* A connection's reader and its messages: one at most of both.
ReaderInv ==
  /\ readers \in [Conns -> {0, 1}]
  /\ \A c \in Conns : readers[c] = 1 => \A m \in mail : m.from # c
  /\ \A m, n \in mail : m.from = n.from /\ m.from \in Conns => m = n

\* What commands bring is no result, and from a connection nobody else reads.
LEMMA ReadBrings == \A m \in Read : m.kind # "result" /\ m.from = NoConn
BY DEF Read, Snapshot, Message, NoOp, Off

\* A dial brings no result, and an event only from an unused connection.
LEMMA DialBrings ==
  \A m \in Dialled :
    /\ m.kind # "result"
    /\ m.from = NoConn \/ (m.from \in Conns /\ Unused(m.from))
BY DEF Dialled, Down, StatusOf, Message, NoOp, Off

\* An operation on a switch is not the empty one.
LEMMA PromptNext ==
  ASSUME "none" \notin Toggles, PromptInv, [DashboardNext]_dashboardVars
  PROVE  PromptInv'
<1> USE DEF PromptInv, DashShape
<1>1. CASE ShowDashboard
  <2>1. dash' = FreshDash /\ UNCHANGED ops
        BY <1>1 DEF ShowDashboard
  <2>2. \E m \in Dialled : mail' = mail \cup {m}
        BY <1>1 DEF ShowDashboard
  <2>3. DashShape' /\ (dash'.prompt # "none" <=> dash'.pending # NoOp)
        BY <2>1 DEF FreshDash
  <2> QED BY <2>1, <2>2, <2>3, DialBrings
<1>2. CASE ShowOther \/ OpenSubView \/ Settle \/ UNCHANGED dashboardVars
      BY <1>2 DEF ShowOther, OpenSubView, Settle, dashboardVars
<1>3. CASE Back \/ CancelPrompt
      BY <1>3 DEF Back, CancelPrompt
<1>4. CASE EnterPassword
  <2>1. dash' = [dash EXCEPT !.prompt = "checking"] /\ dash.prompt = "asking" /\ UNCHANGED ops
        BY <1>4 DEF EnterPassword
  <2>2. \E r \in {"ok", "refused"} : mail' = mail \cup {[Message EXCEPT !.kind = "auth", !.res = r]}
        BY <1>4 DEF EnterPassword
  <2>3. \A m \in mail' : m.kind = "result" => m.op # NoOp
        BY <2>2 DEF Message
  <2> QED BY <2>1, <2>3
<1>5. CASE StatusUpdate \/ ReconcileTick
  <2>1. UNCHANGED <<dash, ops>> /\ mail' \in {mail, mail \cup Read}
        BY <1>5 DEF StatusUpdate, ReconcileTick
  <2> QED BY <2>1, ReadBrings
<1>6. ASSUME NEW t \in Toggles, Toggle(t) PROVE PromptInv'
  <2> DEFINE want == [dash.cache EXCEPT ![t] = Flipped(t, @)]
  <2>1. /\ dash' = [dash EXCEPT !.cache = want, !.busy = TRUE]
        /\ ops' = ops \cup {[toggle |-> t, want |-> want]} /\ UNCHANGED mail
        BY <1>6 DEF Toggle
  <2>2. [toggle |-> t, want |-> want] # NoOp
        BY DEF NoOp
  <2> HIDE DEF want
  <2> QED BY <2>1, <2>2
<1>7. ASSUME NEW t \in Toggles, ChangedOutside(t) PROVE PromptInv'
      BY <1>7 DEF ChangedOutside
<1>8. ASSUME NEW o \in ops, OpRuns(o) PROVE PromptInv'
  <2>1. /\ UNCHANGED dash /\ ops' = ops \ {o}
        /\ \E r \in {"ok", "auth", "failed"} :
             mail' = mail \cup {[Message EXCEPT !.kind = "result", !.op = o, !.res = r]}
        BY <1>8 DEF OpRuns
  <2>2. \A m \in mail' : m.kind = "result" => m.op # NoOp
        BY <2>1 DEF Message
  <2> QED BY <2>1, <2>2
<1>9. ASSUME NEW c \in Conns, ReaderReturns(c) PROVE PromptInv'
  <2>1. /\ UNCHANGED <<dash, ops>>
        /\ \E m \in {Down, HealthOf(c), StatusOf(c)} : mail' = mail \cup {m}
        BY <1>9 DEF ReaderReturns
  <2>2. \A m \in {Down, HealthOf(c), StatusOf(c)} : m.kind # "result"
        BY DEF Down, HealthOf, StatusOf, Message
  <2> QED BY <2>1, <2>2
<1>10. ASSUME NEW m \in mail, Deliver(m) PROVE PromptInv'
  <2>1. CASE Lost(m) \/ GetsHealth(m) \/ GetsStale(m)
        BY <2>1 DEF Lost, GetsHealth, GetsStale
  <2>2. CASE AuthAnswered(m)
    <3>1. CASE m.res = "refused"
          BY <2>2, <3>1 DEF AuthAnswered
    <3>2. CASE m.res # "refused"
          BY <2>2, <3>2 DEF AuthAnswered
    <3> QED BY <3>1, <3>2
  <2>3. CASE GetsResult(m)
    <3>1. CASE m.res = "auth"
          BY <2>3, <3>1 DEF GetsResult
    <3>2. CASE m.res # "auth"
          BY <2>3, <3>2 DEF GetsResult
    <3> QED BY <3>1, <3>2
  <2>4. CASE GetsSnapshot(m)
        BY <2>4 DEF GetsSnapshot
  <2>5. CASE GetsEvent(m)
    <3>1. ASSUME NEW d \in WithEvent(m)
          PROVE  d = [cache |-> d.cache, busy |-> dash.busy, prompt |-> dash.prompt,
                      pending |-> dash.pending, client |-> dash.client]
      <4>1. CASE d = dash
            BY <4>1
      <4>2. CASE d # dash
        <5>1. PICK t \in Toggles : d = [dash EXCEPT !.cache[t] = m.got[t]]
              BY <3>1, <4>2 DEF WithEvent
        <5>2. PICK C : d = [dash EXCEPT !.cache = C]
              BY <5>1
        <5> QED BY <5>2
      <4> QED BY <4>1, <4>2
    <3>2. /\ UNCHANGED ops /\ mail' = mail \ {m}
          /\ \E d \in WithEvent(m) : dash' = [d EXCEPT !.client = m.from]
          BY <2>5 DEF GetsEvent
    <3> QED BY <3>1, <3>2
  <2>6. CASE GetsDown(m)
    <3>1. /\ dash' = [dash EXCEPT !.client = NoConn] /\ UNCHANGED ops
          /\ mail' = (mail \ {m}) \cup Read \cup {Retry} /\ Retry.kind = "retry"
          BY <2>6 DEF GetsDown, Retry, Message
    <3> QED BY <3>1, ReadBrings
  <2>7. CASE GetsRetry(m)
    <3>1. UNCHANGED <<dash, ops>> /\ \E d \in Dialled : mail' = (mail \ {m}) \cup {d}
          BY <2>7 DEF GetsRetry
    <3> QED BY <3>1, DialBrings
  <2> QED BY <1>10, <2>1, <2>2, <2>3, <2>4, <2>5, <2>6, <2>7 DEF Deliver
<1> QED BY <1>1, <1>2, <1>3, <1>4, <1>5, <1>6, <1>7, <1>8, <1>9, <1>10
        DEF DashboardNext, DeliverSome

\* The prompt is open exactly while an operation waits for its password.
THEOREM PromptHasItsOpAlways ==
  ASSUME "none" \notin Toggles
  PROVE  DashboardInit /\ [][DashboardNext]_dashboardVars => []PromptHasItsOp
<1>1. DashboardInit => PromptInv
      BY DEF DashboardInit, PromptInv, DashShape, FreshDash
<1>2. PromptInv /\ [DashboardNext]_dashboardVars => PromptInv'
      BY PromptNext
<1>3. PromptInv => PromptHasItsOp
      BY DEF PromptInv, PromptHasItsOp
<1> QED BY <1>1, <1>2, <1>3, PTL

\* What a view does with a connection's message leaves one reader or message.
LEMMA TakeKeepsOne ==
  ASSUME ReaderInv, NEW m \in mail, mail' = mail \ {m},
         \/ readers' = readers
         \/ m.from \in Conns /\ readers' = [readers EXCEPT ![m.from] = @ + 1]
  PROVE  ReaderInv'
<1>1. CASE readers' = readers
      BY <1>1 DEF ReaderInv
<1>2. CASE m.from \in Conns /\ readers' = [readers EXCEPT ![m.from] = @ + 1]
  <2>1. readers[m.from] = 0 /\ \A n \in mail' : n.from # m.from
        BY <1>2 DEF ReaderInv
  <2>2. /\ readers' \in [Conns -> {0, 1}]
        /\ \A c \in Conns : readers'[c] = 1 => c = m.from \/ readers[c] = 1
        BY <1>2, <2>1 DEF ReaderInv
  <2> QED BY <2>1, <2>2 DEF ReaderInv
<1> QED BY <1>1, <1>2

\* Neither do messages that come from no connection, or from an unused one.
LEMMA ArrivalKeepsOne ==
  ASSUME ReaderInv, UNCHANGED readers, NEW News, mail' \subseteq mail \cup News,
         \A n \in News : n.from \notin Conns \/ Unused(n.from),
         \A n, k \in News : n = k \/ n.from \notin Conns \/ k.from \notin Conns
  PROVE  ReaderInv'
<1>1. \A n \in News : n.from \in Conns => readers[n.from] = 0 /\ \A m \in mail : m.from # n.from
      BY DEF Unused
<1>2. \A c \in Conns : readers'[c] = 1 => \A m \in mail' : m.from # c
      BY <1>1 DEF ReaderInv
<1>3. \A m, n \in mail' : m.from = n.from /\ m.from \in Conns => m = n
      BY <1>1 DEF ReaderInv
<1> QED BY <1>2, <1>3 DEF ReaderInv

\* Every step keeps one reader or message of a connection.
LEMMA ReaderNext == ReaderInv /\ [DashboardNext]_dashboardVars => ReaderInv'
<1> SUFFICES ASSUME ReaderInv, [DashboardNext]_dashboardVars PROVE ReaderInv'
    OBVIOUS
<1>0. NoConn \notin Conns
      BY DashboardAssumption
<1>1. CASE UNCHANGED <<mail, readers>>
      BY <1>1 DEF ReaderInv
<1>2. ASSUME UNCHANGED readers, NEW d, d.from = NoConn \/ (d.from \in Conns /\ Unused(d.from)),
             mail' \subseteq mail \cup {d}
      PROVE  ReaderInv'
  <2> DEFINE News == {d}
  <2>1. /\ \A n \in News : n.from \notin Conns \/ Unused(n.from)
        /\ \A n, k \in News : n = k \/ n.from \notin Conns \/ k.from \notin Conns
        BY <1>0, <1>2
  <2>2. UNCHANGED readers /\ mail' \subseteq mail \cup News
        BY <1>2
  <2> HIDE DEF News
  <2> QED BY <2>1, <2>2, ArrivalKeepsOne
<1>3. ASSUME UNCHANGED readers, mail' \subseteq mail \cup Read \cup {Retry} PROVE ReaderInv'
  <2> DEFINE News == Read \cup {Retry}
  <2>1. \A n \in News : n.from \notin Conns
        BY <1>0, ReadBrings DEF Retry, Message
  <2>2. mail' \subseteq mail \cup News
        BY <1>3
  <2>3. UNCHANGED readers
        BY <1>3
  <2> HIDE DEF News
  <2>4. /\ \A n \in News : n.from \notin Conns \/ Unused(n.from)
        /\ \A n, k \in News : n = k \/ n.from \notin Conns \/ k.from \notin Conns
        BY <2>1
  <2> QED BY <2>2, <2>3, <2>4, ArrivalKeepsOne
<1>4. CASE ShowDashboard
      BY <1>2, <1>4, DialBrings DEF ShowDashboard
<1>5. CASE ShowOther \/ OpenSubView \/ Back \/ CancelPrompt \/ Settle \/ UNCHANGED dashboardVars
      BY <1>1, <1>5 DEF ShowOther, OpenSubView, Back, CancelPrompt, Settle, dashboardVars
<1>6. ASSUME NEW t \in Toggles, Toggle(t) \/ ChangedOutside(t) PROVE ReaderInv'
      BY <1>1, <1>6 DEF Toggle, ChangedOutside
<1>7. CASE EnterPassword
  <2>1. PICK r \in {"ok", "refused"} : mail' = mail \cup {[Message EXCEPT !.kind = "auth", !.res = r]}
        BY <1>7 DEF EnterPassword
  <2>2. [Message EXCEPT !.kind = "auth", !.res = r].from = NoConn
        BY DEF Message
  <2> QED BY <1>2, <1>7, <2>1, <2>2 DEF EnterPassword
<1>8. ASSUME NEW o \in ops, OpRuns(o) PROVE ReaderInv'
  <2>1. PICK r \in {"ok", "auth", "failed"} :
          mail' = mail \cup {[Message EXCEPT !.kind = "result", !.op = o, !.res = r]}
        BY <1>8 DEF OpRuns
  <2>2. [Message EXCEPT !.kind = "result", !.op = o, !.res = r].from = NoConn
        BY DEF Message
  <2> QED BY <1>2, <1>8, <2>1, <2>2 DEF OpRuns
<1>9. CASE StatusUpdate \/ ReconcileTick
      BY <1>3, <1>9 DEF StatusUpdate, ReconcileTick
<1>10. ASSUME NEW c \in Conns, ReaderReturns(c) PROVE ReaderInv'
  <2>1. PICK m \in {Down, HealthOf(c), StatusOf(c)} : mail' = mail \cup {m}
        BY <1>10 DEF ReaderReturns
  <2>2. m.from \in {c, NoConn}
        BY DEF Down, HealthOf, StatusOf, Message
  <2>3. readers[c] = 1 /\ \A n \in mail : n.from # c
        BY <1>10 DEF ReaderReturns, ReaderInv
  <2>4. /\ readers' \in [Conns -> {0, 1}] /\ readers'[c] = 0
        /\ \A d \in Conns \ {c} : readers'[d] = readers[d]
        BY <1>10, <2>3 DEF ReaderReturns, ReaderInv
  <2> QED BY <1>0, <2>1, <2>2, <2>3, <2>4 DEF ReaderInv
<1>11. ASSUME NEW m \in mail, Deliver(m) PROVE ReaderInv'
  <2>1. CASE Lost(m) \/ AuthAnswered(m) \/ GetsResult(m) \/ GetsSnapshot(m) \/ GetsStale(m)
        BY <2>1, TakeKeepsOne DEF Lost, AuthAnswered, GetsResult, GetsSnapshot, GetsStale
  <2>2. CASE GetsEvent(m)
    <3>1. mail' = mail \ {m} /\ Listen(m.from)
          BY <2>2 DEF GetsEvent
    <3>2. CASE m.from \in Conns
          BY <1>0, <3>1, <3>2, TakeKeepsOne DEF Listen
    <3>3. CASE m.from \notin Conns
          BY <3>1, <3>3, TakeKeepsOne DEF Listen, ReaderInv
    <3> QED BY <3>2, <3>3
  <2>3. CASE GetsHealth(m)
    <3>1. mail' = mail \ {m} /\ Listen(dash.client) /\ dash.client \in {NoConn, m.from}
          BY <2>3 DEF GetsHealth, Stale
    <3>2. CASE dash.client \in Conns
          BY <1>0, <3>1, <3>2, TakeKeepsOne DEF Listen
    <3>3. CASE dash.client \notin Conns
          BY <3>1, <3>3, TakeKeepsOne DEF Listen, ReaderInv
    <3> QED BY <3>2, <3>3
  <2>4. CASE GetsDown(m)
        BY <1>3, <2>4 DEF GetsDown
  <2>5. CASE GetsRetry(m)
        BY <1>2, <2>5, DialBrings DEF GetsRetry
  <2> QED BY <1>11, <2>1, <2>2, <2>3, <2>4, <2>5 DEF Deliver
<1> QED BY <1>4, <1>5, <1>6, <1>7, <1>8, <1>9, <1>10, <1>11 DEF DashboardNext, DeliverSome

\* No two commands ever wait on one connection, for any number of them.
THEOREM OneReaderPerConnectionAlways ==
  DashboardInit /\ [][DashboardNext]_dashboardVars => []OneReaderPerConnection
<1>1. DashboardInit => ReaderInv
      BY DEF DashboardInit, ReaderInv
<1>2. ReaderInv => OneReaderPerConnection
  <2> SUFFICES ASSUME ReaderInv, NEW c \in Conns
               PROVE  readers[c] + Cardinality({m \in mail : m.from = c}) <= 1
      BY DEF OneReaderPerConnection
  <2> DEFINE Its == {m \in mail : m.from = c}
  <2>1. CASE Its = {}
        BY <2>1, FS_EmptySet DEF ReaderInv
  <2>2. CASE Its # {}
    <3>1. PICK m : Its = {m}
      <4>1. PICK m \in mail : m.from = c
            BY <2>2
      <4>2. \A n \in mail : n.from = c => n = m
            BY <4>1 DEF ReaderInv
      <4>3. Its = {m}
            BY <4>1, <4>2
      <4> QED BY <4>3
    <3>2. Cardinality(Its) = 1
          BY <3>1, FS_Singleton
    <3>3. readers[c] = 0
          BY <3>1 DEF ReaderInv
    <3> QED BY <3>2, <3>3
  <2> QED BY <2>1, <2>2
<1> QED BY <1>1, <1>2, ReaderNext, PTL

-----------------------------------------------------------------------------
(* The types of the browser.                                               *)

BrowserShape ==
  /\ mode \in {"closed", "mine", "dynamic"} /\ phase \in Phases
  /\ rows \subseteq Servers /\ filtered \subseteq rows /\ timed \subseteq Servers /\ stars \subseteq Servers
  /\ pending \in Items /\ shown \in Items
  /\ measuring \in BOOLEAN /\ connecting \in BOOLEAN /\ asked \in Nat /\ results \subseteq Results

\* What a browser sends for is a result.
LEMMA ResultsHold ==
  /\ \A w \in {"load", "latency", "auth"} : Result(w, NoServerItem) \in Results
  /\ \A s \in Servers : Result("quickest", s) \in Results
BY DEF Result, Results

\* Every step of the browser keeps the types.
LEMMA BrowserShapeNext == ASSUME BrowserShape, [BrowserNext]_browserVars PROVE BrowserShape'
<1> USE DEF BrowserShape, Phases, Items
<1>1. ASSUME NEW found \in SUBSET Servers, OpenMine(found) PROVE BrowserShape'
      BY <1>1, Zenon DEF OpenMine, FreshBrowser
<1>2. ASSUME NEW found \in SUBSET Servers, TakeLoad(found \ Bad) PROVE BrowserShape'
  <2> DEFINE new == found \ Bad
  <2>1. results' \subseteq Results
        BY <1>2 DEF TakeLoad
  <2>2. rows' \subseteq Servers /\ filtered' \subseteq rows' /\ timed' \subseteq Servers
        BY <1>2 DEF TakeLoad, listVars
  <2>3. phase' \in Phases
        BY <1>2 DEF TakeLoad
  <2> QED BY <1>2, <2>1, <2>2, <2>3 DEF TakeLoad, promptVars
<1>3. CASE OpenDynamic
  <2>1. results' \subseteq Results /\ phase' \in Phases
        BY <1>3, ResultsHold DEF OpenDynamic, Sends
  <2>2. measuring' \in BOOLEAN /\ connecting' \in BOOLEAN
        BY <1>3, Zenon DEF OpenDynamic, FreshBrowser
  <2> QED BY <1>3, <2>1, <2>2 DEF OpenDynamic, FreshBrowser
<1>4. CASE ShowProgress
      BY <1>4 DEF ShowProgress, listVars, promptVars
<1>5. ASSUME NEW some \in SUBSET Servers, TakeLatencies(some) PROVE BrowserShape'
  <2>1. measuring' \in BOOLEAN
        BY <1>5, Zenon DEF TakeLatencies
  <2> QED BY <1>5, <2>1 DEF TakeLatencies
<1>6. ASSUME NEW some \in SUBSET Servers, Refilter(some) PROVE BrowserShape'
      BY <1>6 DEF Refilter
<1>7. CASE TakeAuthNeeded
  <2>1. measuring' \in BOOLEAN
        BY <1>7, Zenon DEF TakeAuthNeeded
  <2>2. phase' \in Phases /\ shown' \in Items
        BY <1>7 DEF TakeAuthNeeded
  <2> QED BY <1>7, <2>1, <2>2 DEF TakeAuthNeeded, listVars
<1>8. CASE AskPassword \/ PasswordEnds
      BY <1>8 DEF AskPassword, PasswordEnds, listVars, promptVars
<1>9. ASSUME NEW s \in Servers, Confirm \/ EnterOn(s) PROVE BrowserShape'
  <2>1. connecting' \in BOOLEAN
        BY <1>9, Zenon DEF Confirm, EnterOn, AskConnect
  <2> QED BY <1>9, <2>1 DEF Confirm, EnterOn, AskConnect, listVars, promptVars
<1>10. CASE Confirm
  <2>1. connecting' \in BOOLEAN
        BY <1>10, Zenon DEF Confirm, AskConnect
  <2> QED BY <1>10, <2>1 DEF Confirm, AskConnect, listVars
<1>11. CASE Decline
       BY <1>11 DEF Decline, listVars
<1>12. CASE MeasureThenPropose
  <2>1. results' \subseteq Results
        BY <1>12, ResultsHold DEF MeasureThenPropose, Sends
  <2> QED BY <1>12, <2>1 DEF MeasureThenPropose, listVars
<1>13. CASE Measure
  <2>1. results' \subseteq Results
        BY <1>13, ResultsHold DEF Measure, Sends
  <2>2. measuring' \in BOOLEAN
        BY <1>13, Zenon DEF Measure
  <2> QED BY <1>13, <2>1, <2>2 DEF Measure, listVars
<1>14. ASSUME NEW s \in Servers, TakeQuickest(s) \/ Propose(s) PROVE BrowserShape'
       BY <1>14 DEF TakeQuickest, Propose, listVars, promptVars
<1>15. ASSUME NEW s \in Servers, ToggleFavorite(s) PROVE BrowserShape'
       BY <1>15 DEF ToggleFavorite, listVars, promptVars
<1>16. CASE UNCHANGED browserVars
       BY <1>16 DEF browserVars
<1> HIDE DEF BrowserShape
<1> QED BY <1>1, <1>2, <1>3, <1>4, <1>5, <1>6, <1>7, <1>8, <1>9, <1>10, <1>11, <1>12, <1>13, <1>14, <1>15, <1>16,
           Zenon DEF BrowserNext

\* Rows, questions, measurements and results of the browser keep to their types.
THEOREM BrowserTypeCorrect == BrowserInit /\ [][BrowserNext]_browserVars => []BrowserTypeOK
<1>1. BrowserInit => BrowserShape
  <2> SUFFICES ASSUME BrowserInit PROVE BrowserShape
      OBVIOUS
  <2>1. measuring \in BOOLEAN /\ connecting \in BOOLEAN
        BY Zenon DEF BrowserInit
  <2> QED BY <2>1 DEF BrowserInit, BrowserShape, Phases, Items
<1>2. BrowserShape /\ [BrowserNext]_browserVars => BrowserShape'
      BY BrowserShapeNext
<1>3. BrowserShape => BrowserTypeOK
      BY DEF BrowserShape, BrowserTypeOK
<1> QED BY <1>1, <1>2, <1>3, PTL

-----------------------------------------------------------------------------
(* The types of an operation.  How many events can wait unread follows     *)
(* from what the commands still owed can bring: a step of the daemon that  *)
(* sends an event has a command less to serve, and reports wait for room.  *)

FlowPlaces == {"idle", "prompt", "begin", "send", "listen", "spawn", "attach", "listenSpawned",
               "force", "erring", "closed", "over"}
Unasked == {"idle", "prompt", "begin", "send", "spawn"}
Commands == {"connect", "switch", "disconnect"}
Events == {"progress", "danger", "connected", "disconnected", "error", "failed", "switchFailed",
           "status", "statusConnected"}

Working == IF vpn \in {"connecting", "switching"} THEN 1 ELSE 0
Asking == IF flow.at \in Unasked THEN 2 ELSE 0
Owed == 2 * Len(todo) + Working + 2 * (MaxOthers - others) + Asking

QueueShape ==
  /\ vpn \in VpnStates /\ todo \in Seq(Commands) /\ others \in 0 .. MaxOthers /\ stream \in Seq(Events)
  /\ Owed <= 2 * MaxOthers + 2
  /\ Len(stream) + Owed <= MaxStream + 2 * MaxOthers + 4
Flows == [at : FlowPlaces, kind : {"connect", "disconnect"}, read : SUBSET Verdicts,
          lines : SUBSET {"error", "text"}, held : 0 .. Buffer, lost : BOOLEAN, refused : BOOLEAN]
Views == [phase : {"none", "shown", "left", "done"}, success : BOOLEAN]

FlowTyped == QueueShape /\ flow \in Flows /\ view \in Views

\* A queue from which a command is taken.
LEMMA QueueTail ==
  ASSUME NEW S, NEW q \in Seq(S), q # <<>>
  PROVE  Head(q) \in S /\ Tail(q) \in Seq(S) /\ Len(Tail(q)) = Len(q) - 1 /\ Len(q) \in Nat \ {0}
OBVIOUS

\* What follows from a step that leaves the daemon's side of the bound alone.
LEMMA QueueKept ==
  ASSUME FlowTyped, UNCHANGED <<vpn, todo, others>>,
         stream' \in Seq(Events), Len(stream') <= Len(stream) \/ Len(stream') <= 2 \/ Len(stream') <= MaxStream,
         Asking' <= Asking, Asking' \in {0, 2}
  PROVE  QueueShape'
<1>1. Working' = Working /\ Working \in {0, 1} /\ Asking \in {0, 2}
      BY DEF Working, Asking
<1>2. Len(todo) \in Nat /\ Len(stream) \in Nat /\ Len(stream') \in Nat /\ others \in Int /\ MaxOthers \in Nat /\ MaxStream \in Nat
      BY FlowAssumption DEF FlowTyped, QueueShape
<1>3. Owed' <= Owed /\ Owed \in Int /\ Owed' \in Int
      BY <1>1, <1>2 DEF Owed
<1> QED BY <1>2, <1>3 DEF FlowTyped, QueueShape

\* A command less is owed than there are events more.
LEMMA Balance ==
  ASSUME NEW a \in Nat, NEW b \in Nat, NEW w \in {0, 1}, NEW o \in Int, NEW p, p = o - 2 + w, b + w <= a + 2,
         NEW m \in Int, NEW n \in Int, o <= m, a + o <= n
  PROVE  p <= m /\ b + p <= n
OBVIOUS

\* The daemon's commands and events.
LEMMA DaemonKeepsQueue ==
  ASSUME FlowTyped,
         DaemonTakes \/ DaemonEnds \/ DaemonReports \/ DaemonGivesUp \/ DaemonExits \/ OtherClient
  PROVE  QueueShape'
<1> USE DEF FlowTyped, QueueShape
<1>0. /\ MaxOthers \in Nat /\ MaxStream \in Nat /\ Len(stream) \in Nat /\ Len(todo) \in Nat
      /\ Working \in {0, 1} /\ Asking \in {0, 2}
      BY FlowAssumption DEF Working, Asking
<1>1. ASSUME NEW es \in Seq(Events), Broadcast(es)
      PROVE  stream' \in Seq(Events) /\ Len(stream') <= Len(stream) + Len(es) /\ Len(stream') \in Nat
      BY <1>1, <1>0 DEF Broadcast
<1>2. CASE DaemonTakes
  <2>1. /\ Head(todo) \in Commands /\ todo' = Tail(todo) /\ todo' \in Seq(Commands) /\ Len(todo') = Len(todo) - 1
        /\ UNCHANGED <<others, flow, view>> /\ Working = 0
        BY <1>2, QueueTail DEF DaemonTakes, Working
  <2>2. Asking' = Asking
        BY <2>1 DEF Asking
  <2>3. /\ vpn' \in VpnStates /\ stream' \in Seq(Events) /\ Len(stream') \in Nat
        /\ Len(stream') + Working' <= Len(stream) + 2 /\ Working' \in {0, 1}
    <3>1. CASE Head(todo) = "disconnect"
      <4>1. vpn' = "none" /\ \E es \in {<<"disconnected">>, <<"error", "disconnected">>} : Broadcast(es)
            BY <1>2, <3>1 DEF DaemonTakes
      <4>2. /\ <<"disconnected">> \in Seq(Events) /\ Len(<<"disconnected">>) = 1
            /\ <<"error", "disconnected">> \in Seq(Events) /\ Len(<<"error", "disconnected">>) = 2
        <5>1. "disconnected" \in Events /\ "error" \in Events
              BY DEF Events
        <5> QED BY <5>1
      <4>3. Working' = 0
            BY <4>1 DEF Working
      <4>4. stream' \in Seq(Events) /\ Len(stream') \in Nat /\ Len(stream') <= Len(stream) + 2
        <5>1. CASE Broadcast(<<"disconnected">>)
          <6> DEFINE es == <<"disconnected">>
          <6>1. es \in Seq(Events) /\ Len(es) = 1 /\ Broadcast(es)
                BY <4>2, <5>1
          <6> HIDE DEF es
          <6>2. stream' \in Seq(Events) /\ Len(stream') \in Nat /\ Len(stream') <= Len(stream) + 1
                BY <1>1, <6>1
          <6>3. \A a, b \in Nat : b <= a + 1 => b <= a + 2
                OBVIOUS
          <6> QED BY <1>0, <6>2, <6>3
        <5>2. CASE Broadcast(<<"error", "disconnected">>)
          <6> DEFINE es == <<"error", "disconnected">>
          <6>1. es \in Seq(Events) /\ Len(es) = 2 /\ Broadcast(es)
                BY <4>2, <5>2
          <6> HIDE DEF es
          <6> QED BY <1>0, <1>1, <6>1
        <5> QED BY <4>1, <5>1, <5>2
      <4> QED BY <1>0, <4>1, <4>3, <4>4 DEF VpnStates
    <3>2. CASE Head(todo) # "disconnect"
      <4>1. vpn' \in {"connecting", "switching"} /\ Broadcast(<<"progress">>)
            BY <1>2, <2>1, <3>2 DEF DaemonTakes, Commands
      <4>2. <<"progress">> \in Seq(Events) /\ Len(<<"progress">>) = 1
            BY DEF Events
      <4>3. Working' = 1
            BY <4>1 DEF Working
      <4>4. stream' \in Seq(Events) /\ Len(stream') \in Nat /\ Len(stream') <= Len(stream) + 1
            BY <1>0, <1>1, <4>1, <4>2
      <4> QED BY <1>0, <4>1, <4>3, <4>4 DEF VpnStates
    <3> QED BY <3>1, <3>2
  <2>4. Owed' = Owed - 2 + Working' /\ Owed \in Int
        BY <1>0, <2>1, <2>2, <2>3 DEF Owed
  <2> HIDE DEF FlowTyped, QueueShape
  <2>5. Owed <= 2 * MaxOthers + 2 /\ Len(stream) + Owed <= MaxStream + 2 * MaxOthers + 4
        BY DEF FlowTyped, QueueShape
  <2>6. /\ 2 * MaxOthers + 2 \in Int /\ MaxStream + 2 * MaxOthers + 4 \in Int /\ Owed \in Int
        /\ Len(stream) \in Nat /\ Len(stream') \in Nat /\ Working' \in {0, 1}
        BY <1>0, <2>3, <2>4
  <2>7. Owed' <= 2 * MaxOthers + 2 /\ Len(stream') + Owed' <= MaxStream + 2 * MaxOthers + 4
        BY <2>3, <2>4, <2>5, <2>6, Balance
  <2>8. others \in 0 .. MaxOthers
        BY DEF FlowTyped, QueueShape
  <2> QED BY <2>1, <2>3, <2>7, <2>8 DEF QueueShape
<1>3. CASE DaemonEnds
  <2>1. /\ UNCHANGED <<todo, others, flow, view>> /\ vpn' \in {"connected", "failed", "switchFailed"} /\ Working = 1
        /\ \E e \in Events : Broadcast(<<e>>)
        BY <1>3 DEF DaemonEnds, Working, Events
  <2>2. Asking' = Asking /\ Working' = 0
        BY <2>1 DEF Asking, Working
  <2>3. stream' \in Seq(Events) /\ Len(stream') \in Nat /\ Len(stream') <= Len(stream) + 1
    <3>1. \A e \in Events : <<e>> \in Seq(Events) /\ Len(<<e>>) = 1
          OBVIOUS
    <3> QED BY <1>1, <2>1, <3>1
  <2>4. Owed' = Owed - 1 /\ Owed \in Int
        BY <1>0, <2>1, <2>2 DEF Owed
  <2>5. vpn' \in VpnStates
        BY <2>1 DEF VpnStates
  <2> QED BY <1>0, <2>1, <2>3, <2>4, <2>5
<1>4. CASE DaemonReports \/ DaemonGivesUp
  <2>1. /\ UNCHANGED <<todo, others, flow, view>> /\ vpn' \in VpnStates /\ Working' <= Working /\ Working' \in {0, 1}
        /\ Len(stream) < MaxStream /\ \E e \in Events : Broadcast(<<e>>)
    <3>1. CASE DaemonReports
      <4>1. UNCHANGED <<vpn, todo, others, flow, view>> /\ Len(stream) < MaxStream
            BY <3>1 DEF DaemonReports
      <4>2. \E e \in Events : Broadcast(<<e>>)
            BY <3>1 DEF DaemonReports, Events
      <4>3. Working' = Working
            BY <4>1 DEF Working
      <4> QED BY <1>0, <4>1, <4>2, <4>3
    <3>2. CASE DaemonGivesUp
      <4>1. UNCHANGED <<todo, others, flow, view>> /\ Len(stream) < MaxStream /\ vpn' = "failed" /\ vpn = "connected"
            BY <3>2 DEF DaemonGivesUp
      <4>2. \E e \in Events : Broadcast(<<e>>)
            BY <3>2 DEF DaemonGivesUp, Events
      <4>3. Working' = 0 /\ Working = 0
            BY <4>1 DEF Working
      <4> QED BY <4>1, <4>2, <4>3 DEF VpnStates
    <3> QED BY <1>4, <3>1, <3>2
  <2>2. Asking' = Asking
        BY <2>1 DEF Asking
  <2>3. stream' \in Seq(Events) /\ Len(stream') \in Nat /\ Len(stream') <= MaxStream
    <3>1. \A e \in Events : <<e>> \in Seq(Events) /\ Len(<<e>>) = 1
          OBVIOUS
    <3>2. stream' \in Seq(Events) /\ Len(stream') \in Nat /\ Len(stream') <= Len(stream) + 1
          BY <1>1, <2>1, <3>1
    <3> QED BY <1>0, <2>1, <3>2
  <2>4. Owed' <= Owed /\ Owed' \in Int
        BY <1>0, <2>1, <2>2 DEF Owed
  <2> QED BY <1>0, <2>1, <2>3, <2>4 DEF Owed
<1>5. CASE DaemonExits
  <2>1. /\ UNCHANGED <<others, flow, stream, view>> /\ vpn' = "none" /\ todo' = <<>>
        BY <1>5 DEF DaemonExits
  <2>2. Asking' = Asking /\ Working' = 0 /\ Len(todo') = 0 /\ todo' \in Seq(Commands)
        BY <2>1 DEF Asking, Working
  <2>3. Owed' <= Owed /\ Owed' \in Int /\ Owed \in Int
        BY <1>0, <2>1, <2>2 DEF Owed
  <2> QED BY <1>0, <2>1, <2>2, <2>3 DEF VpnStates
<1>6. CASE OtherClient
  <2>1. /\ UNCHANGED <<vpn, flow, stream, view>> /\ others < MaxOthers /\ others' = others + 1
        /\ \E c \in Commands : todo' = Append(todo, c)
        BY <1>6 DEF OtherClient, Commands
  <2>2. Asking' = Asking /\ Working' = Working /\ Len(todo') = Len(todo) + 1 /\ todo' \in Seq(Commands)
        BY <2>1 DEF Asking, Working
  <2>3. Owed' = Owed /\ Owed \in Int
        BY <1>0, <2>1, <2>2 DEF Owed
  <2> QED BY <1>0, <2>1, <2>2, <2>3
<1> QED BY <1>2, <1>3, <1>4, <1>5, <1>6

\* What an attaching client is told.
LEMMA GreetingTyped ==
  /\ Greeting \in Seq(Events) /\ Len(Greeting) <= 2 /\ Len(Greeting) \in Nat
<1> DEFINE a == <<IF vpn = "connected" THEN "statusConnected" ELSE "status">>
           b == CASE vpn = "failed" -> <<"failed">>
                  [] vpn = "switchFailed" -> <<"switchFailed">>
                  [] OTHER -> <<>>
<1>1. a \in Seq(Events) /\ Len(a) = 1
      BY DEF Events
<1>2. b \in Seq(Events) /\ Len(b) <= 1 /\ Len(b) \in Nat
  <2>1. /\ <<"failed">> \in Seq(Events) /\ Len(<<"failed">>) = 1
        /\ <<"switchFailed">> \in Seq(Events) /\ Len(<<"switchFailed">>) = 1
        /\ <<>> \in Seq(Events) /\ Len(<<>>) = 0
        BY DEF Events
  <2>2. b \in {<<"failed">>, <<"switchFailed">>, <<>>}
        OBVIOUS
  <2> HIDE DEF b
  <2>3. CASE b = <<"failed">>
        BY <2>1, <2>3
  <2>4. CASE b = <<"switchFailed">>
        BY <2>1, <2>4
  <2>5. CASE b = <<>>
        BY <2>1, <2>5
  <2> QED BY <2>2, <2>3, <2>4, <2>5
<1>3. Greeting = a \o b
      BY DEF Greeting
<1> HIDE DEF a, b
<1>4. a \o b \in Seq(Events) /\ Len(a \o b) = Len(a) + Len(b)
      BY <1>1, <1>2, ConcatProperties
<1> QED BY <1>1, <1>2, <1>3, <1>4

\* A line is written within the capacity of the channel.
LEMMA WrittenTyped ==
  ASSUME NEW f \in Flows, NEW l \in {"error", "text"}
  PROVE  Written(f, l) \in Flows /\ Written(f, l).at = f.at
<1>0. Buffer \in Nat
      BY FlowAssumption
<1>1. CASE f.held < Buffer
  <2>1. Written(f, l) = [f EXCEPT !.lines = @ \cup {l}, !.held = @ + 1]
        BY <1>1, Zenon DEF Written
  <2>2. f.held + 1 \in 0 .. Buffer /\ f.lines \cup {l} \in SUBSET {"error", "text"}
        BY <1>0, <1>1 DEF Flows
  <2> QED BY <2>1, <2>2 DEF Flows
<1>2. CASE ~(f.held < Buffer)
  <2> DEFINE gone == f.lost \/ l = "error"
  <2>1. Written(f, l) = [f EXCEPT !.lost = gone]
        BY <1>2, Zenon DEF Written
  <2>2. gone \in BOOLEAN
        BY Zenon
  <2> HIDE DEF gone
  <2> QED BY <2>1, <2>2 DEF Flows
<1> QED BY <1>1, <1>2

\* A flow that goes elsewhere, and one that writes a line there.
LEMMA GoingTyped ==
  ASSUME flow \in Flows, NEW place \in FlowPlaces
  PROVE  LET f == [flow EXCEPT !.at = place]
         IN  /\ f \in Flows /\ f.at = place
             /\ \A l \in {"error", "text"} : Written(f, l) \in Flows /\ Written(f, l).at = place
<1> DEFINE f == [flow EXCEPT !.at = place]
<1>1. f \in Flows /\ f.at = place
      BY DEF Flows
<1> HIDE DEF f
<1>2. \A l \in {"error", "text"} : Written(f, l) \in Flows /\ Written(f, l).at = place
      BY <1>1, WrittenTyped
<1> QED BY <1>1, <1>2 DEF f

\* The operation's own steps.
LEMMA FlowKeepsTypes ==
  ASSUME FlowTyped, [FlowNext]_flowVars PROVE FlowTyped'
<1> USE DEF FlowTyped
<1>0. /\ MaxOthers \in Nat /\ MaxStream \in Nat /\ Len(stream) \in Nat /\ Len(todo) \in Nat
      /\ Working \in {0, 1} /\ Asking \in {0, 2} /\ stream \in Seq(Events) /\ todo \in Seq(Commands)
      BY FlowAssumption DEF Working, Asking, QueueShape
<1>1. ASSUME DaemonTakes \/ DaemonEnds \/ DaemonReports \/ DaemonGivesUp \/ DaemonExits \/ OtherClient
      PROVE  FlowTyped'
  <2>1. UNCHANGED <<flow, view>>
        BY <1>1 DEF DaemonTakes, DaemonEnds, DaemonReports, DaemonGivesUp, DaemonExits, OtherClient
  <2> QED BY <1>1, <2>1, DaemonKeepsQueue
<1>2. ASSUME NEW k \in {"connect", "disconnect"}, UserStarts(k) PROVE FlowTyped'
  <2>1. flow' \in Flows /\ Asking' = Asking
        BY <1>2 DEF UserStarts, Flows, FlowPlaces, Asking, Unasked
  <2>2. view' \in Views
        BY <1>2 DEF UserStarts, Views
  <2>3. QueueShape'
        BY <1>0, <1>2, <2>1, QueueKept DEF UserStarts, Only
  <2> QED BY <2>1, <2>2, <2>3
<1>3. ASSUME UserAnswers \/ UserLeaves PROVE FlowTyped'
  <2>1. flow' \in Flows /\ Asking' = Asking
        BY <1>3 DEF UserAnswers, UserLeaves, Only, Goto, Flows, FlowPlaces, Asking, Unasked
  <2>2. view' \in Views
        BY <1>3 DEF UserAnswers, UserLeaves, Only, Views
  <2>3. UNCHANGED <<vpn, todo, others, stream>>
        BY <1>3 DEF UserAnswers, UserLeaves, Only
  <2>4. QueueShape'
        BY <1>0, <2>1, <2>3, QueueKept
  <2> QED BY <2>1, <2>2, <2>4
<1>4. ASSUME Begin PROVE FlowTyped'
  <2>1. flow.at = "begin" /\ UNCHANGED <<vpn, todo, others, view>> /\ Asking = 2
        BY <1>4 DEF Begin, Only, Asking, Unasked
  <2>2. flow' \in Flows
    <3>1. {"send", "spawn", "closed", "force"} \subseteq FlowPlaces
          BY DEF FlowPlaces
    <3> QED BY <1>4, <3>1, GoingTyped DEF Begin, Goto
  <2>3. stream' \in Seq(Events) /\ Len(stream') <= 2
    <3>1. stream' = Greeting \/ stream' = <<>>
          BY <1>4 DEF Begin
    <3>2. stream' = <<>> => stream' \in Seq(Events) /\ Len(stream') = 0
          OBVIOUS
    <3>3. Greeting \in Seq(Events) /\ Len(Greeting) <= 2
          BY GreetingTyped
    <3>4. stream' = Greeting => stream' \in Seq(Events) /\ Len(stream') <= 2
          BY <3>3, Zenon
    <3>5. stream' = <<>> => Len(stream') <= 2
          BY <3>2
    <3> QED BY <3>1, <3>2, <3>4, <3>5
  <2>4. Asking' \in {0, 2}
        BY DEF Asking
  <2>5. QueueShape'
        BY <1>0, <2>1, <2>3, <2>4, QueueKept
  <2> QED BY <2>1, <2>2, <2>5
<1>5. ASSUME Send PROVE FlowTyped'
  <2>1. /\ UNCHANGED <<vpn, others, view>> /\ Asking = 2 /\ flow.at = "send"
        BY <1>5 DEF Send, Asking, Unasked
  <2>2. flow' \in Flows /\ flow'.at \in {"listen", "force", "erring"}
    <3>1. {"listen", "erring", "force"} \subseteq FlowPlaces
          BY DEF FlowPlaces
    <3>2. CASE Goto("listen") \/ flow' = [flow EXCEPT !.at = "erring"]
          BY <3>1, <3>2, GoingTyped DEF Goto
    <3>3. CASE flow' = Written([flow EXCEPT !.at = "force"], "text")
          BY <3>1, <3>3, GoingTyped
    <3>4. CASE flow' = [flow EXCEPT !.at = "listen", !.refused = TRUE]
          BY <3>1, <3>4 DEF Flows
    <3> QED BY <1>5, <3>2, <3>3, <3>4 DEF Send
  <2>3. Asking' = 0
        BY <2>2 DEF Asking, Unasked
  <2>4. Working' = Working
        BY <2>1 DEF Working
  <2>5. \/ \E c \in Commands : todo' = Append(todo, c) /\ stream' = stream
        \/ UNCHANGED todo /\ stream' = Append(stream, "error")
        \/ UNCHANGED <<todo, stream>>
        BY <1>5 DEF Send, Commands
  <2>6. /\ todo' \in Seq(Commands) /\ stream' \in Seq(Events)
        /\ Len(todo') \in Nat /\ Len(stream') \in Nat
        /\ Len(todo') - Len(todo) \in {0, 1}
        /\ Len(stream') <= Len(stream) + 1
    <3>1. CASE \E c \in Commands : todo' = Append(todo, c) /\ stream' = stream
          BY <1>0, <3>1
    <3>2. CASE UNCHANGED todo /\ stream' = Append(stream, "error")
      <4>1. "error" \in Events
            BY DEF Events
      <4> QED BY <1>0, <3>2, <4>1
    <3>3. CASE UNCHANGED <<todo, stream>>
          BY <1>0, <3>3
    <3> QED BY <2>5, <3>1, <3>2, <3>3
  <2>7. Len(todo') = Len(todo) \/ Len(stream') = Len(stream)
        BY <1>0, <2>5
  <2>8. QueueShape'
    <3>1. Owed' = Owed - 2 + 2 * (Len(todo') - Len(todo)) /\ Owed \in Int
          BY <1>0, <2>1, <2>3, <2>4, <2>6 DEF Owed, QueueShape
    <3>2. Owed' <= Owed /\ Len(stream') + Owed' <= Len(stream) + Owed /\ Owed' \in Int
          BY <1>0, <2>6, <2>7, <3>1
    <3> QED BY <1>0, <2>1, <2>6, <3>1, <3>2 DEF QueueShape
  <2> QED BY <2>1, <2>2, <2>8
<1>6. ASSUME Spawn PROVE FlowTyped'
  <2>1. UNCHANGED <<others, stream, view>> /\ flow.at = "spawn" /\ (Goto("attach") \/ Goto("erring"))
        BY <1>6 DEF Spawn
  <2>2. Asking = 2 /\ Asking' = 0 /\ flow' \in Flows
        BY <2>1 DEF Goto, Asking, Unasked, Flows, FlowPlaces
  <2>3. CASE UNCHANGED <<vpn, todo>>
        BY <1>0, <2>1, <2>2, <2>3, QueueKept
  <2>4. CASE vpn' = "idle" /\ todo' = <<"connect">>
    <3>1. Working' = 0 /\ Len(todo') = 1 /\ todo' \in Seq(Commands) /\ vpn' \in VpnStates
          BY <2>4 DEF Working, Commands, VpnStates
    <3>2. Owed' <= Owed /\ Owed' \in Int /\ Owed \in Int
          BY <1>0, <2>1, <2>2, <3>1 DEF Owed, QueueShape
    <3> QED BY <1>0, <2>1, <2>2, <3>1, <3>2 DEF QueueShape
  <2> QED BY <1>6, <2>1, <2>2, <2>3, <2>4 DEF Spawn
<1>7. ASSUME Attach PROVE FlowTyped'
  <2>1. flow.at = "attach" /\ UNCHANGED <<vpn, todo, others, view>> /\ (Goto("listenSpawned") \/ Goto("erring"))
        BY <1>7 DEF Attach, Only
  <2>2. flow' \in Flows /\ Asking' = 0 /\ Asking = 0
        BY <2>1 DEF Goto, Flows, FlowPlaces, Asking, Unasked
  <2>3. stream' \in Seq(Events) /\ (Len(stream') <= 2 \/ Len(stream') <= Len(stream))
        BY <1>0, <1>7, GreetingTyped DEF Attach
  <2>4. QueueShape'
        BY <1>0, <2>1, <2>2, <2>3, QueueKept
  <2> QED BY <2>1, <2>2, <2>4
<1>8. ASSUME LosesDaemon \/ Errs \/ ForceDown PROVE FlowTyped'
  <2>1. /\ flow.at \in {"listen", "listenSpawned", "erring", "force"}
        /\ UNCHANGED <<vpn, todo, others, view, stream>>
        BY <1>8 DEF LosesDaemon, Hears, Errs, ForceDown, Only
  <2>2. flow' \in Flows /\ flow'.at \in {"closed", "erring"}
    <3>1. {"closed", "erring"} \subseteq FlowPlaces
          BY DEF FlowPlaces
    <3> QED BY <1>8, <3>1, GoingTyped DEF LosesDaemon, Goto, Errs, ForceDown
  <2>3. Asking' = 0 /\ Asking = 0
        BY <2>1, <2>2 DEF Asking, Unasked
  <2>4. QueueShape'
        BY <1>0, <2>1, <2>3, QueueKept
  <2> QED BY <2>1, <2>2, <2>4
<1>9. ASSUME Reads PROVE FlowTyped'
  <2> DEFINE e == Head(stream)
             f == [flow EXCEPT !.at = After(e), !.read = @ \cup ({e} \cap Verdicts)]
  <2>1. /\ Tail(stream) \in Seq(Events) /\ Len(Tail(stream)) = Len(stream) - 1
        /\ stream' = Tail(stream) /\ UNCHANGED <<vpn, todo, others, view>>
        /\ flow.at \in {"listen", "listenSpawned"}
        BY <1>0, <1>9, QueueTail DEF Reads, Only, Hears
  <2>2. flow' = Written(f, LineOf(e)) /\ LineOf(e) \in {"error", "text"}
        BY <1>9 DEF Reads, LineOf
  <2>3. After(e) \in {flow.at, "closed", "erring"}
        BY DEF After
  <2>4. f \in Flows /\ f.at = After(e)
        BY <2>1, <2>3 DEF Flows, FlowPlaces
  <2> HIDE DEF e, f
  <2>5. flow' \in Flows /\ flow'.at \in {flow.at, "closed", "erring"}
        BY <2>2, <2>3, <2>4, WrittenTyped
  <2>6. Asking' = 0 /\ Asking = 0
        BY <2>1, <2>5 DEF Asking, Unasked
  <2>7. QueueShape'
        BY <1>0, <2>1, <2>6, QueueKept
  <2> QED BY <2>1, <2>5, <2>7
<1>10. ASSUME Shows \/ Done PROVE FlowTyped'
  <2>1. flow' \in Flows /\ Asking' = Asking
    <3>1. Buffer \in Nat
          BY FlowAssumption
    <3>2. CASE Shows
          BY <3>1, <3>2 DEF Shows, Flows, Asking
    <3>3. CASE Done
          BY <3>3 DEF Done, Goto, Flows, FlowPlaces, Asking, Unasked
    <3> QED BY <1>10, <3>2, <3>3
  <2>2. view' \in Views
    <3> DEFINE good == "error" \notin flow.lines /\ (Disconnects \/ flow.lines # {})
    <3>1. view' = view \/ view' = [phase |-> "done", success |-> good]
          BY <1>10 DEF Shows, Done, Only
    <3>2. good \in BOOLEAN
          BY Zenon
    <3> HIDE DEF good
    <3> QED BY <3>1, <3>2 DEF Views
  <2>3. QueueShape'
        BY <1>0, <1>10, <2>1, QueueKept DEF Shows, Done, Only
  <2> QED BY <2>1, <2>2, <2>3
<1>11. ASSUME UNCHANGED flowVars PROVE FlowTyped'
       BY <1>0, <1>11 DEF flowVars, QueueShape, Owed, Working, Asking
<1> HIDE DEF FlowTyped
<1> QED BY <1>1, <1>2, <1>3, <1>4, <1>5, <1>6, <1>7, <1>8, <1>9, <1>10, <1>11, Zenon DEF FlowNext

\* Queue, events, the place of the operation and its verdict keep to their
\* types, and no more events wait unread than the commands can have brought.
THEOREM FlowTypeCorrect == FlowInit /\ [][FlowNext]_flowVars => []FlowTypeOK
<1>1. FlowInit => FlowTyped
  <2> SUFFICES ASSUME FlowInit PROVE FlowTyped
      OBVIOUS
  <2>1. vpn \in VpnStates /\ todo \in Seq(Commands) /\ others = 0 /\ stream \in Seq(Events) /\ Len(todo) = 0 /\ Len(stream) = 0
        BY DEF FlowInit, VpnStates
  <2>2. Working = 0 /\ Asking = 2 /\ flow \in Flows
        BY FlowAssumption DEF FlowInit, Working, Asking, Unasked, Flows, FlowPlaces
  <2>3. view \in Views
    <3>1. view.phase = "none" /\ view.success \in BOOLEAN /\ view = [phase |-> view.phase, success |-> view.success]
          BY Zenon DEF FlowInit
    <3> QED BY <3>1 DEF Views
  <2>4. MaxOthers \in Nat /\ MaxStream \in Nat
        BY FlowAssumption
  <2> QED BY <2>1, <2>2, <2>3, <2>4 DEF FlowTyped, QueueShape, Owed
<1>2. FlowTyped => FlowTypeOK
  <2> SUFFICES ASSUME FlowTyped PROVE FlowTypeOK
      OBVIOUS
  <2>1. Owed >= 0 /\ Owed \in Int /\ Len(stream) \in Nat /\ MaxOthers \in Nat /\ MaxStream \in Nat
    <3>1. /\ MaxOthers \in Nat /\ MaxStream \in Nat /\ others \in 0 .. MaxOthers
          /\ Len(todo) \in Nat /\ Len(stream) \in Nat
          BY FlowAssumption DEF FlowTyped, QueueShape
    <3>2. Working \in {0, 1} /\ Asking \in {0, 2}
          BY DEF Working, Asking
    <3> QED BY <3>1, <3>2 DEF Owed
  <2>2. Len(stream) <= MaxStream + 2 * MaxOthers + 4
        BY <2>1 DEF FlowTyped, QueueShape
  <2> QED BY <2>2 DEF FlowTyped, QueueShape, FlowTypeOK, Flows, FlowPlaces, Views, Commands
<1>3. FlowTyped /\ [FlowNext]_flowVars => FlowTyped'
      BY FlowKeepsTypes
<1> QED BY <1>1, <1>2, <1>3, PTL

-----------------------------------------------------------------------------
(* The types of the dashboard.  Only the local network has a third         *)
(* position, and an open prompt has an operation to repeat.                *)

Settings == {u \in Postures : \A t \in Toggles : t # "lan" => u[t] \in {0, 1}}
Rebuilds == [toggle : Toggles, want : Settings]
Dashes == [cache : Settings, busy : BOOLEAN, prompt : {"none", "asking", "checking"},
           pending : Rebuilds \cup {NoOp}, client : Conns \cup {NoConn}]

Sound(m) ==
  /\ m.kind \in Kinds /\ m.got \in Settings /\ m.from \in Conns \cup {NoConn}
  /\ m.kind = "result" => m.op \in Rebuilds

DashTyped ==
  /\ screen \in {"dashboard", "below", "elsewhere"} /\ ufw \in Settings
  /\ dash \in Dashes /\ (dash.prompt # "none" => dash.pending \in Rebuilds)
  /\ ops \subseteq Rebuilds /\ \A m \in mail : Sound(m)
  /\ ticks \in 0 .. MaxTicks /\ settled \in BOOLEAN

\* Flipping a switch, and switching everything off.
LEMMA Flips ==
  ASSUME NEW u \in Settings, NEW t \in Toggles
  PROVE  [u EXCEPT ![t] = Flipped(t, @)] \in Settings
<1>1. u[t] \in {0, 1, 2} /\ (t # "lan" => u[t] \in {0, 1})
      BY DEF Settings, Postures, Positions
<1>2. Flipped(t, u[t]) \in {0, 1, 2} /\ (t # "lan" => Flipped(t, u[t]) \in {0, 1})
      BY <1>1 DEF Flipped
<1> QED BY <1>2 DEF Settings, Postures, Positions

\* With every switch off nothing is set.
LEMMA OffHolds == Off \in Settings
BY DEF Off, Settings, Postures, Positions

\* The messages the commands send.
LEMMA MessagesSound ==
  ASSUME ufw \in Settings
  PROVE  /\ Sound(Down) /\ Sound(Retry) /\ Sound(Snapshot)
         /\ \A c \in Conns : Sound(StatusOf(c)) /\ Sound(HealthOf(c))
         /\ \A r : Sound([Message EXCEPT !.kind = "auth", !.res = r])
         /\ \A r : \A o \in Rebuilds : Sound([Message EXCEPT !.kind = "result", !.op = o, !.res = r])
<1> USE OffHolds DEF Sound, Message, Kinds
<1>1. Sound(Down) /\ Sound(Retry) /\ Sound(Snapshot)
      BY DEF Down, Retry, Snapshot
<1>2. \A c \in Conns : Sound(StatusOf(c)) /\ Sound(HealthOf(c))
      BY DEF StatusOf, HealthOf
<1>3. \A r : Sound([Message EXCEPT !.kind = "auth", !.res = r])
      OBVIOUS
<1>4. \A r : \A o \in Rebuilds : Sound([Message EXCEPT !.kind = "result", !.op = o, !.res = r])
      OBVIOUS
<1> QED BY <1>1, <1>2, <1>3, <1>4

\* So are those of a dial or of a reading.
LEMMA AnswersSound ==
  ASSUME ufw \in Settings PROVE (\A m \in Dialled : Sound(m)) /\ (\A m \in Read : Sound(m))
BY MessagesSound DEF Dialled, Read

\* What the user and the commands do.
LEMMA ActionsTyped ==
  ASSUME DashTyped, [DashboardNext]_dashboardVars, \A m \in mail : ~Deliver(m) PROVE DashTyped'
<1> USE DEF DashTyped
<1>0. TRUE \in BOOLEAN /\ FALSE \in BOOLEAN
      OBVIOUS
<1>1. ASSUME ShowDashboard PROVE DashTyped'
  <2>1. FreshDash \in Dashes /\ FreshDash.prompt = "none"
    <3>1. PICK b \in BOOLEAN : FreshDash = [cache |-> ufw, busy |-> b, prompt |-> "none", pending |-> NoOp, client |-> NoConn]
          BY Zenon DEF FreshDash
    <3> QED BY <3>1 DEF Dashes
  <2>2. \A m \in mail' : Sound(m)
        BY <1>1, AnswersSound DEF ShowDashboard
  <2>3. ticks' \in 0 .. MaxTicks
        BY <1>1, DashboardAssumption DEF ShowDashboard
  <2> QED BY <1>1, <2>1, <2>2, <2>3 DEF ShowDashboard
<1>2. ASSUME ShowOther \/ OpenSubView \/ UNCHANGED dashboardVars PROVE DashTyped'
      BY <1>2 DEF ShowOther, OpenSubView, dashboardVars
<1>3. ASSUME Settle PROVE DashTyped'
  <2>1. settled' \in BOOLEAN
        BY <1>3, Zenon DEF Settle
  <2> QED BY <1>3, <2>1 DEF Settle
<1>4. ASSUME Back PROVE DashTyped'
      BY <1>4 DEF Back, Dashes
<1>5. ASSUME CancelPrompt PROVE DashTyped'
      BY <1>5 DEF CancelPrompt, Dashes
<1>6. ASSUME EnterPassword PROVE DashTyped'
  <2>1. \A m \in mail' : Sound(m)
        BY <1>6, MessagesSound DEF EnterPassword
  <2>2. dash' \in Dashes /\ dash'.pending \in Rebuilds
        BY <1>6 DEF EnterPassword, Dashes
  <2> QED BY <1>6, <2>1, <2>2 DEF EnterPassword
<1>7. ASSUME StatusUpdate PROVE DashTyped'
      BY <1>7, AnswersSound DEF StatusUpdate
<1>8. ASSUME ReconcileTick PROVE DashTyped'
  <2>1. ticks' \in 0 .. MaxTicks
        BY <1>8, DashboardAssumption DEF ReconcileTick
  <2> QED BY <1>8, <2>1, AnswersSound DEF ReconcileTick
<1>9. ASSUME NEW t \in Toggles, Toggle(t) PROVE DashTyped'
  <2> DEFINE want == [dash.cache EXCEPT ![t] = Flipped(t, @)]
             on == TRUE
  <2>1. /\ dash' = [dash EXCEPT !.cache = want, !.busy = on]
        /\ ops' = ops \cup {[toggle |-> t, want |-> want]} /\ UNCHANGED <<screen, ufw, mail, ticks, settled>>
        BY <1>9 DEF Toggle
  <2>2. want \in Settings /\ on \in BOOLEAN
        BY Flips DEF Dashes
  <2> HIDE DEF want, on
  <2>3. dash' \in Dashes /\ dash'.prompt = dash.prompt /\ dash'.pending = dash.pending
        BY <2>1, <2>2 DEF Dashes
  <2> QED BY <2>1, <2>2, <2>3 DEF Rebuilds
<1>10. ASSUME NEW t \in Toggles, ChangedOutside(t) PROVE DashTyped'
       BY <1>10, Flips DEF ChangedOutside
<1>11. ASSUME NEW o \in ops, OpRuns(o) PROVE DashTyped'
  <2>1. \A m \in mail' : Sound(m)
        BY <1>11, MessagesSound DEF OpRuns
  <2>2. ufw' \in Settings
    <3>1. o.want \in Settings
          BY DEF Rebuilds
    <3>2. ASSUME NEW T \in SUBSET Toggles, ufw' = [t \in Toggles |-> IF t \in T THEN o.want[t] ELSE 0]
          PROVE  ufw' \in Settings
          BY <3>1, <3>2 DEF Settings, Postures, Positions
    <3>3. PICK r \in {"ok", "auth", "failed"} :
            CASE r = "ok" -> ufw' = o.want
              [] r = "auth" -> UNCHANGED ufw
              [] r = "failed" -> \E T \in SUBSET Toggles : ufw' = [t \in Toggles |-> IF t \in T THEN o.want[t] ELSE 0]
          BY <1>11 DEF OpRuns
    <3>4. CASE r = "ok"
          BY <3>1, <3>3, <3>4
    <3>5. CASE r = "auth"
          BY <3>3, <3>5
    <3>6. CASE r = "failed"
          BY <3>2, <3>3, <3>6
    <3> QED BY <3>4, <3>5, <3>6
  <2> QED BY <1>11, <2>1, <2>2 DEF OpRuns
<1>12. ASSUME NEW c \in Conns, ReaderReturns(c) PROVE DashTyped'
       BY <1>12, MessagesSound DEF ReaderReturns
<1> HIDE DEF DashTyped
<1> QED BY <1>1, <1>2, <1>3, <1>4, <1>5, <1>6, <1>7, <1>8, <1>9, <1>10, <1>11, <1>12, Zenon
        DEF DashboardNext, DeliverSome

\* What a message changes.
LEMMA DeliveryTyped ==
  ASSUME DashTyped, NEW m \in mail, Deliver(m) PROVE DashTyped'
<1> USE DEF DashTyped
<1>0. Sound(m) /\ UNCHANGED <<screen, ufw, ticks, settled>>
      BY DEF Deliver
<1>1. ASSUME Lost(m) \/ GetsHealth(m) \/ GetsStale(m) PROVE DashTyped'
      BY <1>0, <1>1 DEF Lost, GetsHealth, GetsStale
<1>2. ASSUME AuthAnswered(m) PROVE DashTyped'
  <2>1. CASE m.res = "refused"
        BY <1>0, <1>2, <2>1 DEF AuthAnswered, Dashes
  <2>2. CASE m.res # "refused"
    <3> DEFINE on == TRUE
    <3>1. dash' = [dash EXCEPT !.prompt = "none", !.pending = NoOp, !.busy = on] /\ ops' = ops \cup {dash.pending}
          BY <1>2, <2>2 DEF AuthAnswered
    <3>2. on \in BOOLEAN
          OBVIOUS
    <3> HIDE DEF on
    <3>3. dash' \in Dashes /\ dash'.prompt = "none"
          BY <3>1, <3>2 DEF Dashes
    <3> QED BY <1>0, <1>2, <3>1, <3>3 DEF AuthAnswered
  <2> QED BY <2>1, <2>2
<1>3. ASSUME GetsResult(m) PROVE DashTyped'
  <2> DEFINE off == FALSE
  <2>1. off \in BOOLEAN
        OBVIOUS
  <2>2. CASE m.res = "auth"
    <3>1. dash' = [dash EXCEPT !.busy = off, !.prompt = "asking", !.pending = m.op]
          BY <1>3, <2>2 DEF GetsResult
    <3>2. m.op \in Rebuilds
          BY <1>0, <1>3 DEF GetsResult, Sound
    <3> HIDE DEF off
    <3>3. dash' \in Dashes /\ dash'.pending \in Rebuilds
          BY <2>1, <3>1, <3>2 DEF Dashes
    <3> QED BY <1>0, <1>3, <3>3 DEF GetsResult
  <2>3. CASE m.res # "auth"
    <3>1. dash' = [dash EXCEPT !.busy = off, !.cache = ufw]
          BY <1>3, <2>3 DEF GetsResult
    <3> HIDE DEF off
    <3>2. dash' \in Dashes /\ dash'.pending = dash.pending /\ dash'.prompt = dash.prompt
          BY <2>1, <3>1 DEF Dashes
    <3> QED BY <1>0, <1>3, <3>2 DEF GetsResult
  <2> QED BY <2>2, <2>3
<1>4. ASSUME GetsSnapshot(m) PROVE DashTyped'
  <2>1. dash' = [dash EXCEPT !.cache = m.got] /\ m.got \in Settings
        BY <1>0, <1>4 DEF GetsSnapshot, Sound
  <2>2. dash' \in Dashes /\ dash'.pending = dash.pending /\ dash'.prompt = dash.prompt
        BY <2>1 DEF Dashes
  <2> QED BY <1>0, <1>4, <2>2 DEF GetsSnapshot
<1>5. ASSUME GetsEvent(m) PROVE DashTyped'
  <2>1. PICK d \in WithEvent(m) : dash' = [d EXCEPT !.client = m.from]
        BY <1>5 DEF GetsEvent
  <2>2. d \in Dashes /\ d.pending = dash.pending /\ d.prompt = dash.prompt
    <3>1. CASE d = dash
          BY <3>1
    <3>2. ASSUME NEW t \in Toggles \cap {"killswitch"}, d = [dash EXCEPT !.cache[t] = m.got[t]]
          PROVE  d \in Dashes /\ d.pending = dash.pending /\ d.prompt = dash.prompt
      <4> DEFINE new == [dash.cache EXCEPT ![t] = m.got[t]]
      <4>1. new \in Settings
            BY <1>0, <3>2 DEF Sound, Dashes, Settings, Postures
      <4>2. d = [dash EXCEPT !.cache = new]
            BY <3>2
      <4> HIDE DEF new
      <4> QED BY <4>1, <4>2 DEF Dashes
    <3> QED BY <2>1, <3>1, <3>2 DEF WithEvent
  <2>3. m.from \in Conns \cup {NoConn}
        BY <1>0 DEF Sound
  <2>4. dash' \in Dashes /\ dash'.pending = dash.pending /\ dash'.prompt = dash.prompt
        BY <2>1, <2>2, <2>3 DEF Dashes
  <2> QED BY <1>0, <1>5, <2>4 DEF GetsEvent
<1>6. ASSUME GetsDown(m) PROVE DashTyped'
  <2>1. dash' \in Dashes /\ dash'.pending = dash.pending /\ dash'.prompt = dash.prompt
        BY <1>6 DEF GetsDown, Dashes
  <2>2. \A n \in mail' : Sound(n)
        BY <1>6, MessagesSound, AnswersSound DEF GetsDown
  <2> QED BY <1>0, <1>6, <2>1, <2>2 DEF GetsDown
<1>7. ASSUME GetsRetry(m) PROVE DashTyped'
      BY <1>0, <1>7, AnswersSound DEF GetsRetry
<1> HIDE DEF DashTyped
<1> QED BY <1>1, <1>2, <1>3, <1>4, <1>5, <1>6, <1>7, Zenon DEF Deliver

\* Switches, operations, messages, readers and ticks keep to their types.
THEOREM DashboardTypeCorrect ==
  DashboardInit /\ [][DashboardNext]_dashboardVars => []DashboardTypeOK
<1>1. DashboardInit => DashTyped /\ ReaderInv
  <2> SUFFICES ASSUME DashboardInit PROVE DashTyped /\ ReaderInv
      OBVIOUS
  <2>1. ReaderInv
        BY DEF DashboardInit, ReaderInv
  <2>2. settled \in BOOLEAN
        BY Zenon DEF DashboardInit
  <2>3. dash \in Dashes /\ dash.prompt = "none"
    <3>1. PICK b \in BOOLEAN : dash = [cache |-> Off, busy |-> b, prompt |-> "none", pending |-> NoOp, client |-> NoConn]
          BY Zenon DEF DashboardInit, FreshDash
    <3> QED BY <3>1, OffHolds DEF Dashes
  <2> QED BY <2>1, <2>2, <2>3, OffHolds, DashboardAssumption DEF DashboardInit, DashTyped
<1>2. DashTyped /\ [DashboardNext]_dashboardVars => DashTyped'
      BY ActionsTyped, DeliveryTyped
<1>3. DashTyped /\ ReaderInv => DashboardTypeOK
  <2>1. Settings \subseteq Postures /\ Rebuilds \subseteq [toggle : Toggles, want : Postures]
        BY DEF Settings, Rebuilds
  <2>2. DashTyped => dash \in [cache : Postures, busy : BOOLEAN, prompt : {"none", "asking", "checking"},
                               pending : [toggle : Toggles, want : Postures] \cup {NoOp},
                               client : Conns \cup {NoConn}]
        BY <2>1 DEF DashTyped, Dashes
  <2>3. ReaderInv => readers \in [Conns -> 0 .. 2]
        BY DEF ReaderInv
  <2> QED BY <2>1, <2>2, <2>3 DEF DashTyped, DashboardTypeOK, Sound
<1> QED BY <1>1, <1>2, <1>3, ReaderNext, PTL

-----------------------------------------------------------------------------
(* The screens together: what one of them does the others sleep through.   *)

\* A step is a step or a stutter of each component.
LEMMA ScreensStep ==
  ASSUME [ScreensNext]_screensVars
  PROVE  /\ [LockNext]_lockVars /\ [DashboardNext]_dashboardVars
         /\ [FlowNext]_flowVars /\ [BrowserNext]_browserVars
BY Zenon DEF ScreensNext, screensVars

PartKnown == part \in {"lock", "dashboard", "flow", "browser"}

\* The component that moves keeps to its types, whichever it is.
THEOREM ScreensTypeCorrect == ScreensSpec => []ScreensTypeOK
<1>1. ScreensInit => PartKnown /\ LockInit /\ DashboardInit /\ FlowInit /\ BrowserInit
      BY DEF ScreensInit, PartKnown
<1>2. PartKnown /\ [ScreensNext]_screensVars => PartKnown'
      BY Zenon DEF ScreensNext, screensVars, PartKnown
<1>3. PartKnown /\ LockTypeOK /\ DashboardTypeOK /\ FlowTypeOK /\ BrowserTypeOK => ScreensTypeOK
  <2> SUFFICES ASSUME PartKnown, LockTypeOK, DashboardTypeOK, FlowTypeOK, BrowserTypeOK PROVE ScreensTypeOK
      OBVIOUS
  <2>1. LockTypeOK = TRUE /\ DashboardTypeOK = TRUE /\ FlowTypeOK = TRUE /\ BrowserTypeOK = TRUE
        BY Zenon
  <2>2. (CASE part = "lock"      -> TRUE
           [] part = "dashboard" -> TRUE
           [] part = "flow"      -> TRUE
           [] part = "browser"   -> TRUE) = TRUE
        BY DEF PartKnown
  <2> QED BY <2>1, <2>2, Zenon DEF ScreensTypeOK
<1>4. [ScreensNext]_screensVars
      => /\ [LockNext]_lockVars /\ [DashboardNext]_dashboardVars
         /\ [FlowNext]_flowVars /\ [BrowserNext]_browserVars
      BY ScreensStep
<1> QED BY <1>1, <1>2, <1>3, <1>4, LockTypeCorrect, DashboardTypeCorrect, FlowTypeCorrect,
           BrowserTypeCorrect, PTL DEF ScreensSpec

=============================================================================
