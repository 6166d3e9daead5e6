----------------------------- MODULE ConnectFlow -----------------------------
(***************************************************************************)
(* One connect or disconnect asked for in the TUI (internal/ui/progress.go *)
(* and the client functions it calls): the password, the running daemon    *)
(* that is asked or the new one that is spawned, its events read one by    *)
(* one with a deadline, and the lines and the verdict the view shows.  The *)
(* daemon (module Daemon) is here what its socket shows of it.             *)
(***************************************************************************)
EXTENDS Naturals, Sequences

CONSTANTS MaxTodo,     \* capacity of the daemon's command queue
          Buffer,      \* progressUpdateBuffer, capacity of the channel of lines
          MaxStream,   \* bound: reports wait while so many events are unread
          MaxOthers    \* bound: commands of other clients

ASSUME FlowAssumption == {MaxTodo, MaxStream, MaxOthers} \subseteq Nat /\ Buffer \in Nat \ {0}

VARIABLES vpn,      \* the daemon's state, "none" without one
          todo,     \* its command queue
          others,   \* commands other clients have sent
          flow,     \* where the operation is, what it has read and written
          stream,   \* events it has still to read
          view      \* what the user sees of it

flowVars == <<vpn, todo, others, flow, stream, view>>

VpnStates == {"none", "idle", "connecting", "switching", "connected", "failed", "switchFailed"}
Attached == flow.at \in {"send", "listen", "listenSpawned"}
Disconnects == flow.kind = "disconnect"

\* Sent to nobody when the flow is not attached.
Broadcast(es) == stream' = IF Attached THEN stream \o es ELSE stream

FlowInit ==
  /\ vpn \in {"none", "connected", "failed"} /\ todo = <<>> /\ others = 0 /\ stream = <<>>
  /\ flow = [at |-> "idle", kind |-> "connect", read |-> {}, lines |-> {}, held |-> 0,
             lost |-> FALSE, refused |-> FALSE]
  /\ view = [phase |-> "none", success |-> FALSE]

-----------------------------------------------------------------------------
(* The daemon. *)

DaemonTakes ==
  /\ vpn \notin {"none", "connecting", "switching"} /\ todo # <<>>
  /\ todo' = Tail(todo)
  /\ CASE Head(todo) = "connect" -> vpn' = "connecting" /\ Broadcast(<<"progress">>)
       [] Head(todo) = "switch"  -> vpn' = "switching" /\ Broadcast(<<"progress">>)
       [] Head(todo) = "disconnect" ->
            \* It exits whether the teardown succeeds or not.
            /\ vpn' = "none"
            /\ \E es \in {<<"disconnected">>, <<"error", "disconnected">>} : Broadcast(es)
  /\ UNCHANGED <<others, flow, view>>

DaemonEnds ==
  /\ vpn \in {"connecting", "switching"}
  /\ \/ vpn' = "connected" /\ Broadcast(<<"connected">>)
     \/ vpn = "connecting" /\ vpn' = "failed" /\ Broadcast(<<"failed">>)
     \/ vpn = "switching" /\ vpn' = "switchFailed" /\ Broadcast(<<"switchFailed">>)
  /\ UNCHANGED <<todo, others, flow, view>>

\* Health reports while it is connected, stages of a connect.
DaemonReports ==
  /\ vpn \in {"connected", "connecting", "switching"} /\ Attached /\ Len(stream) < MaxStream
  /\ \E e \in {"progress"} \cup (IF vpn = "connected" THEN {} ELSE {"danger"}) : Broadcast(<<e>>)
  /\ UNCHANGED <<vpn, todo, others, flow, view>>

\* Recovery and failover are exhausted.
DaemonGivesUp ==
  /\ vpn = "connected" /\ vpn' = "failed" /\ Len(stream) < MaxStream /\ Broadcast(<<"failed">>)
  /\ UNCHANGED <<todo, others, flow, view>>

\* Crash, termination, or nobody left attached.
DaemonExits ==
  /\ vpn # "none" /\ vpn' = "none" /\ todo' = <<>> /\ UNCHANGED <<others, flow, stream, view>>

OtherClient ==
  /\ vpn # "none" /\ others < MaxOthers /\ others' = others + 1 /\ Len(todo) < MaxTodo
  /\ \E c \in {"switch", "disconnect"} : todo' = Append(todo, c)
  /\ UNCHANGED <<vpn, flow, stream, view>>

-----------------------------------------------------------------------------
(* The operation. *)

Goto(place) == flow' = [flow EXCEPT !.at = place]
Only(p) == UNCHANGED <<vpn, todo, others, p>>

\* A line sent to the view without waiting: a full channel drops it.  Whether a
\* line of an error was dropped is remembered for the properties.
Written(f, line) == IF f.held < Buffer THEN [f EXCEPT !.lines = @ \cup {line}, !.held = @ + 1]
                    ELSE [f EXCEPT !.lost = @ \/ line = "error"]

\* Init probes capabilities and cached credentials.
UserStarts(kind) ==
  /\ flow.at = "idle" /\ view.phase = "none"
  /\ \E a \in {"begin", "prompt"} : flow' = [flow EXCEPT !.at = a, !.kind = kind]
  /\ view' = [view EXCEPT !.phase = "shown"] /\ Only(stream)

\* With the password the binary's capabilities are set, or that error is shown;
\* a wrong one asks again, a cancelled prompt goes back.
UserAnswers ==
  /\ flow.at = "prompt" /\ Only(stream)
  /\ \/ \E es \in SUBSET {"error"} : flow' = [flow EXCEPT !.at = "begin", !.lines = es]
        /\ UNCHANGED view
     \/ UNCHANGED <<flow, view>>
     \/ Goto("idle") /\ view' = [view EXCEPT !.phase = "left"]

\* The operation goes on without its view.
UserLeaves ==
  /\ view.phase = "shown" /\ flow.at \notin {"prompt", "idle"}
  /\ view' = [view EXCEPT !.phase = "left"] /\ Only(flow) /\ UNCHANGED stream

\* On attaching, the daemon's status and the failure it last had.
Greeting == <<IF vpn = "connected" THEN "statusConnected" ELSE "status">>
            \o (CASE vpn = "failed" -> <<"failed">>
                  [] vpn = "switchFailed" -> <<"switchFailed">>
                  [] OTHER -> <<>>)

\* IsDaemonRunning and the dial.  Without a daemon that answers, a connect
\* spawns one and a disconnect cleans up by itself; a connect may not even know
\* the path of its own binary.
Begin ==
  /\ flow.at = "begin" /\ Only(view)
  /\ \/ vpn # "none" /\ Goto("send") /\ stream' = Greeting
     \/ ~Disconnects /\ Goto("spawn") /\ stream' = <<>>
     \/ ~Disconnects /\ flow' = Written([flow EXCEPT !.at = "closed"], "error") /\ stream' = <<>>
     \/ Disconnects /\ flow' = Written([flow EXCEPT !.at = "force"], "text") /\ stream' = <<>>

\* RequestSwitch and RequestDisconnect; a full queue is answered, a dead peer noticed.
Send ==
  /\ flow.at = "send"
  /\ \/ /\ vpn # "none" /\ Len(todo) < MaxTodo
        /\ todo' = Append(todo, IF Disconnects THEN "disconnect" ELSE "switch")
        /\ Goto("listen") /\ UNCHANGED stream
     \/ /\ vpn # "none" /\ Len(todo) = MaxTodo /\ UNCHANGED todo
        /\ flow' = [flow EXCEPT !.at = "listen", !.refused = TRUE] /\ stream' = Append(stream, "error")
     \/ /\ vpn = "none" /\ UNCHANGED <<todo, stream>>
        /\ flow' = IF Disconnects THEN Written([flow EXCEPT !.at = "force"], "text")
                   ELSE [flow EXCEPT !.at = "erring"]
  /\ UNCHANGED <<vpn, others, view>>

\* SpawnAndConnect: a new daemon, or none because another one has started.
Spawn ==
  /\ flow.at = "spawn"
  /\ \/ /\ Goto("attach")
        /\ IF vpn = "none" THEN vpn' = "idle" /\ todo' = <<"connect">> ELSE UNCHANGED <<vpn, todo>>
     \/ Goto("erring") /\ UNCHANGED <<vpn, todo>>
  /\ UNCHANGED <<others, stream, view>>

\* The socket is tried for a while.
Attach ==
  /\ flow.at = "attach" /\ Only(view)
  /\ \/ vpn # "none" /\ Goto("listenSpawned") /\ stream' = Greeting
     \/ Goto("erring") /\ UNCHANGED stream

Hears == flow.at \in {"listen", "listenSpawned"}

\* What a line tells; the report of a disconnect marks fewer events as errors.
LineOf(e) == IF e \in (IF Disconnects THEN {"error"} ELSE {"failed", "error", "danger"}) THEN "error" ELSE "text"
Failures == {"failed", "error", "disconnected"}
Verdicts == {"connected", "statusConnected", "failed"}

\* Mutant: a broken connection is not worth a line.
LosesQuietly ==
  /\ Hears /\ stream = <<>>
  /\ Goto("closed") /\ Only(view) /\ UNCHANGED stream

\* Mutant: an event is waited for without a deadline.
WaitsForEnd ==
  /\ Hears /\ stream = <<>> /\ vpn = "none"
  /\ Goto(IF Disconnects THEN "closed" ELSE "erring") /\ Only(view) /\ UNCHANGED stream

\* End of file or the deadline: an error, in a disconnect the expected end.
LosesDaemon ==
  /\ Hears /\ stream = <<>>
  /\ Goto(IF Disconnects THEN "closed" ELSE "erring") /\ Only(view) /\ UNCHANGED stream

\* Where an event leads.  A disconnect waits for its one event only; a spawned
\* daemon may have connected before the flow attached.
After(e) ==
  CASE Disconnects /\ e = "disconnected" -> "closed"
    [] ~Disconnects /\ e \in Failures -> "erring"
    [] ~Disconnects /\ e = "connected" -> "closed"
    [] flow.at = "listenSpawned" /\ e = "statusConnected" -> "closed"
    [] OTHER -> flow.at

Reads ==
  /\ Hears /\ stream # <<>>
  /\ LET e == Head(stream) IN
     flow' = Written([flow EXCEPT !.at = After(e), !.read = @ \cup ({e} \cap Verdicts)], LineOf(e))
  /\ stream' = Tail(stream) /\ Only(view)

\* The error a connect ends with is a line of its own, beside the event's.
Errs ==
  /\ flow.at = "erring" /\ Only(view) /\ UNCHANGED stream
  /\ flow' = Written([flow EXCEPT !.at = "closed"], "error")

\* ForceDisconnect in this process, beside a daemon that may still run.
ForceDown ==
  /\ flow.at = "force" /\ Only(view) /\ UNCHANGED stream
  /\ \E line \in {"error", "text"} : flow' = Written([flow EXCEPT !.at = "closed"], line)

\* The view takes a line from the channel, for as long as it is there.
Shows ==
  /\ view.phase = "shown" /\ flow.held > 0 /\ flow' = [flow EXCEPT !.held = @ - 1]
  /\ Only(view) /\ UNCHANGED stream

\* The channel is closed and empty: success is the absence of an error line, for
\* a connect among at least one line.
Done ==
  /\ flow.at = "closed" /\ Goto("over") /\ (view.phase = "shown" => flow.held = 0)
  /\ view' = IF view.phase # "shown" THEN view
             ELSE [phase |-> "done",
                   success |-> "error" \notin flow.lines /\ (Disconnects \/ flow.lines # {})]
  /\ Only(stream)

FlowSteps == Begin \/ Send \/ Spawn \/ Attach \/ LosesDaemon \/ Reads \/ Errs \/ ForceDown \/ Shows \/ Done

FlowNext ==
  \/ DaemonTakes \/ DaemonEnds \/ DaemonReports \/ DaemonGivesUp \/ DaemonExits \/ OtherClient
  \/ \E k \in {"connect", "disconnect"} : UserStarts(k)
  \/ UserAnswers \/ UserLeaves
  \/ Begin \/ Send \/ Spawn \/ Attach \/ LosesDaemon \/ Reads \/ Errs \/ ForceDown \/ Shows \/ Done

\* The operation's goroutine and the view run; every read has a deadline; a daemon that is
\* there takes its commands, and connects or fails (timeouts in Connect).
FlowFairness == WF_flowVars(FlowSteps) /\ WF_flowVars(DaemonTakes) /\ WF_flowVars(DaemonEnds)

-----------------------------------------------------------------------------

FlowTypeOK ==
  /\ vpn \in VpnStates /\ todo \in Seq({"connect", "switch", "disconnect"}) /\ others \in 0 .. MaxOthers
  /\ flow.at \in {"idle", "prompt", "begin", "send", "listen", "spawn", "attach", "listenSpawned",
                  "force", "erring", "closed", "over"}
  /\ flow.lines \subseteq {"error", "text"} /\ flow.held \in 0 .. Buffer
  /\ Len(stream) <= MaxStream + 2 * MaxOthers + 4
  /\ view \in [phase : {"none", "shown", "left", "done"}, success : BOOLEAN]

\* A connect is shown as successful only after the daemon said it is connected
\* since the flow attached: never for a daemon that refused, failed, fell
\* silent or died, in whatever order its events came.  The exception is an
\* error whose line found the view a whole buffer of lines behind: the code
\* drops that line, and without it the verdict may be a success.
SuccessHasGround ==
  view.success /\ ~Disconnects /\ ~flow.lost =>
    {"connected", "statusConnected"} \cap flow.read # {} /\ "failed" \notin flow.read

\* Every operation that got its password comes to its end, whatever the daemon
\* and the other clients do meanwhile.  One may not: a disconnect that the daemon
\* refused because its queue was full waits for an event that never comes, and
\* the daemon's health reports renew its deadline for as long as the tunnel is up.
FlowEnds ==
  flow.at = "begin" ~>
    (flow.at = "over" \/ [](Disconnects /\ flow.refused /\ vpn \in {"switching", "connected"}))

=============================================================================
