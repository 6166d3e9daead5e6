----------------------------- MODULE DaemonLock -----------------------------
(***************************************************************************)
(* How one connection daemon per user is arranged: the PID file and the    *)
(* socket of the configuration directory, the daemons that start, exit and *)
(* crash over them (Run, cleanup), and the two ways of stopping one        *)
(* (StopDaemon, stopConnectionDaemon).  Every file operation is a step.    *)
(***************************************************************************)
EXTENDS Naturals, FiniteSets

CONSTANTS Pids,      \* processes that may become the daemon, each started once
          NoPid,     \* no file, no process
          Stoppers   \* commands that stop a daemon

ASSUME PidsAssumption == NoPid \notin Pids

VARIABLES calm,      \* the user waits for a start or a stop to end before the next
          pidFile,   \* who created the PID file that is there
          written,   \* its content is there too: the creator's PID
          socket,    \* who bound the socket file that is there
          at,        \* where each process is in Run
          told,      \* serving processes with a SIGTERM or a disconnect request pending
          stopper    \* where each stopping command is, its kind and its PID

daemonLockFiles == <<pidFile, written, socket>>
lockVars == <<calm, daemonLockFiles, at, told, stopper>>

Starting == {"open", "inspect", "discard", "reopen", "write", "unbind", "bind", "chmod"}
Closing == {"closeListener", "removeSocket", "removePid"}
Gone == {"none", "refused", "exited", "killed"}
Alive == Starting \cup {"serving"} \cup Closing

Running(p) == p # NoPid /\ at[p] \in Alive

StartsRest == \A p \in Pids : at[p] \in Gone \cup {"serving"}
StopsRest == \A s \in Stoppers : stopper[s].at = "idle"

LockInit ==
  /\ calm \in BOOLEAN
  /\ pidFile = NoPid /\ written = FALSE /\ socket = NoPid
  /\ at = [p \in Pids |-> "none"] /\ told = {}
  /\ stopper = [s \in Stoppers |-> [at |-> "idle", kind |-> "stop", pid |-> NoPid]]

-----------------------------------------------------------------------------
(* Run.  A file is removed by its name, whoever created it meanwhile. *)

Goes(p, from, to) == at[p] = from /\ at' = [at EXCEPT ![p] = to]

RemovePidFile == pidFile' = NoPid /\ written' = FALSE /\ UNCHANGED socket
RemoveSocket == socket' = NoPid /\ UNCHANGED <<pidFile, written>>

\* SpawnDaemon starts the process, in a session of its own.
Launch(p) ==
  /\ calm => StartsRest /\ StopsRest
  /\ Goes(p, "none", "open") /\ UNCHANGED daemonLockFiles

\* Mutant: the PID file is opened whether it exists or not.
CreatePidAnyway(p, from, otherwise) ==
  Goes(p, from, "write") /\ pidFile' = p /\ written' = FALSE /\ UNCHANGED socket

\* O_CREATE|O_EXCL: succeeds only when there is no file, and leaves it empty.
CreatePid(p, from, otherwise) ==
  \/ /\ pidFile = NoPid /\ Goes(p, from, "write")
     /\ pidFile' = p /\ written' = FALSE /\ UNCHANGED socket
  \/ pidFile # NoPid /\ Goes(p, from, otherwise) /\ UNCHANGED daemonLockFiles

\* Mutant: any PID file counts as a live daemon's.
AnyFile == pidFile # NoPid

\* readPidFile answers 0 for an empty file, IsLazyvpnPid no for a dead process.
NamesLiveDaemon == pidFile # NoPid /\ written /\ Running(pidFile)

Inspect(p) ==
  /\ Goes(p, "inspect", IF NamesLiveDaemon THEN "refused" ELSE "discard")
  /\ UNCHANGED daemonLockFiles

Discard(p) == Goes(p, "discard", "reopen") /\ RemovePidFile

\* The write goes to the file that was opened, even if its name is gone by now.
WritePid(p) ==
  /\ Goes(p, "write", "unbind") /\ written' = (written \/ pidFile = p)
  /\ UNCHANGED <<pidFile, socket>>

\* The disk is full: the file is removed and Run returns.
WritePidFails(p) == Goes(p, "write", "refused") /\ RemovePidFile

Unbind(p) == Goes(p, "unbind", "bind") /\ RemoveSocket

\* net.Listen fails when another daemon has bound the name since.
Bind(p) ==
  /\ \/ socket = NoPid /\ Goes(p, "bind", "chmod") /\ socket' = p
     \/ socket # NoPid /\ Goes(p, "bind", "removeSocket") /\ UNCHANGED socket
  /\ UNCHANGED <<pidFile, written>>

\* Chmod fails when the name is gone.
Chmod(p) ==
  /\ Goes(p, "chmod", IF socket = NoPid THEN "closeListener" ELSE "serving")
  /\ UNCHANGED daemonLockFiles

\* The main loop ends: on SIGTERM, on a disconnect request, or by itself.
StopServing(p) == Goes(p, "serving", "closeListener") /\ UNCHANGED daemonLockFiles

\* cleanup: closing the listener unlinks the socket, as does what follows.
CloseListener(p) == Goes(p, "closeListener", "removeSocket") /\ RemoveSocket
RemoveSocketFile(p) == Goes(p, "removeSocket", "removePid") /\ RemoveSocket

\* Mutant: cleanup forgets the PID file.
LeavePidFile(p) == Goes(p, "removePid", "exited") /\ UNCHANGED daemonLockFiles

RemovePid(p) == Goes(p, "removePid", "exited") /\ RemovePidFile

\* SIGKILL or a power failure: the process dies where it is.
Die(p) ==
  /\ at[p] \in Alive /\ at' = [at EXCEPT ![p] = "killed"]
  /\ UNCHANGED daemonLockFiles

DaemonSteps(p) ==
  /\ \/ CreatePid(p, "open", "inspect") \/ Inspect(p)
     \/ Discard(p) \/ CreatePid(p, "reopen", "refused") \/ WritePid(p)
     \/ Unbind(p) \/ Bind(p) \/ Chmod(p)
     \/ CloseListener(p) \/ RemoveSocketFile(p) \/ RemovePid(p)
  /\ UNCHANGED <<calm, told, stopper>>

-----------------------------------------------------------------------------
(* StopDaemon (kind "stop") and stopConnectionDaemon (kind "disconnect"). *)

Moves(s, from, to) ==
  stopper[s].at = from /\ stopper' = [stopper EXCEPT ![s].at = to]

\* The PID file is read; without one, or with an empty one, that was all.
ReadPid(s, kind) ==
  /\ calm => StartsRest /\ StopsRest
  /\ stopper[s].at = "idle" /\ pidFile # NoPid /\ written
  /\ stopper' = [stopper EXCEPT ![s] =
       [at |-> IF kind = "stop" THEN "ask" ELSE "signal", kind |-> kind, pid |-> pidFile]]
  /\ UNCHANGED <<at, told, daemonLockFiles>>

Listening(p) == p # NoPid /\ at[p] \in {"chmod", "serving"}

\* The request goes to whoever listens on the socket; nobody may.
AskToDisconnect(s) ==
  /\ Moves(s, "ask", "signal")
  /\ told' = told \cup (IF Listening(socket) THEN {socket} ELSE {})
  /\ UNCHANGED <<at, daemonLockFiles>>

\* SIGTERM to the PID read at the start.  A daemon that serves selects on it;
\* before signal.Notify, and in cleanup after signal.Stop, it kills the process.
\* A daemon that has exited by now makes it an error: nothing is removed.
SendSigterm(s) ==
  LET pid == stopper[s].pid IN
  /\ Moves(s, "signal", IF Running(pid) THEN "wait" ELSE "idle")
  /\ told' = told \cup ({pid} \cap {p \in Pids : at[p] = "serving"})
  /\ at' = [p \in Pids |-> IF p = pid /\ at[p] \in Starting \cup Closing
                           THEN "killed" ELSE at[p]]
  /\ UNCHANGED daemonLockFiles

SeeExit(s) ==
  /\ ~Running(stopper[s].pid) /\ Moves(s, "wait", "unlinkPid")
  /\ UNCHANGED <<at, told, daemonLockFiles>>

\* Fifteen seconds are over: StopDaemon reports that the daemon did not exit.
StopTimesOut(s) ==
  /\ Running(stopper[s].pid) /\ stopper[s].kind = "stop" /\ Moves(s, "wait", "idle")
  /\ UNCHANGED <<at, told, daemonLockFiles>>

\* Ten seconds are over: stopConnectionDaemon kills it.
ForceKill(s) ==
  /\ Running(stopper[s].pid) /\ stopper[s].kind = "disconnect"
  /\ Moves(s, "wait", "unlinkPid")
  /\ at' = [at EXCEPT ![stopper[s].pid] = "killed"]
  /\ UNCHANGED <<told, daemonLockFiles>>

\* The PID file, then for StopDaemon the socket.
UnlinkPid(s) ==
  /\ Moves(s, "unlinkPid", IF stopper[s].kind = "stop" THEN "unlinkSocket" ELSE "idle")
  /\ RemovePidFile /\ UNCHANGED <<at, told>>

UnlinkSocket(s) ==
  Moves(s, "unlinkSocket", "idle") /\ RemoveSocket /\ UNCHANGED <<at, told>>

StopperSteps(s) ==
  /\ \/ AskToDisconnect(s) \/ SendSigterm(s) \/ SeeExit(s)
     \/ UnlinkPid(s) \/ UnlinkSocket(s)
  /\ UNCHANGED calm

-----------------------------------------------------------------------------
LockNext ==
  \/ \E p \in Pids : DaemonSteps(p)
  \/ \E p \in Pids : /\ Launch(p) \/ WritePidFails(p) \/ StopServing(p) \/ Die(p)
                     /\ UNCHANGED <<calm, told, stopper>>
  \/ \E s \in Stoppers : StopperSteps(s)
  \/ \E s \in Stoppers :
       /\ \/ \E kind \in {"stop", "disconnect"} : ReadPid(s, kind)
          \/ StopTimesOut(s) \/ ForceKill(s)
       /\ UNCHANGED calm

\* A started process runs on, a stopping command too, and a daemon told to go
\* (a signal its main loop selects on, a request in its queue) goes.
LockFairness ==
  /\ \A p \in Pids : WF_lockVars(DaemonSteps(p))
  /\ \A p \in Pids : WF_lockVars(/\ p \in told /\ StopServing(p)
                                 /\ UNCHANGED <<calm, told, stopper>>)
  /\ \A s \in Stoppers : WF_lockVars(StopperSteps(s))

LockTypeOK ==
  /\ calm \in BOOLEAN /\ written \in BOOLEAN
  /\ pidFile \in Pids \cup {NoPid} /\ socket \in Pids \cup {NoPid}
  /\ at \in [Pids -> Alive \cup Gone]
  /\ told \subseteq Pids
  /\ stopper \in [Stoppers -> [at : {"idle", "ask", "signal", "wait", "unlinkPid", "unlinkSocket"},
                               kind : {"stop", "disconnect"}, pid : Pids \cup {NoPid}]]

-----------------------------------------------------------------------------
(* Properties. *)

Holding == {p \in Pids : at[p] \in {"unbind", "bind", "chmod", "serving"} \cup Closing}

\* "Atomically create PID file to prevent two daemons from starting"
\* (connection.go:130): no two processes serve at once.
OneDaemon == Cardinality({p \in Pids : at[p] = "serving"}) <= 1

\* What does hold: as long as starts and stops do not overlap, at most one
\* process is past the PID file, whatever crashes in between left behind.
OneDaemonWhenCalm == calm => Cardinality(Holding) <= 1

\* A daemon that exits in order, on any path of Run, leaves neither its PID
\* file nor its socket behind, however its clean-up interleaves with others.
ExitLeavesNothing ==
  \A p \in Pids : at[p] = "exited" => pidFile # p /\ socket # p

\* What a crash leaves behind never keeps the next daemon from serving: alone,
\* undisturbed and with room on the disk, a started process gets there.
StaleFilesNeverBlock ==
  \A p \in Pids :
    (at[p] = "open" /\ \A q \in Pids \ {p} : ~Running(q))
      ~> \/ at[p] \in {"serving", "killed"} \/ ~StopsRest
         \/ \E q \in Pids \ {p} : Running(q)
         \/ at[p] = "refused" /\ pidFile = NoPid
=============================================================================
