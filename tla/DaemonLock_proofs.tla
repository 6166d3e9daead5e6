-------------------------- MODULE DaemonLock_proofs --------------------------
(***************************************************************************)
(* Theorems about the PID file and the socket, for any number of processes *)
(* and of commands that stop them.                                         *)
(***************************************************************************)
EXTENDS DaemonLock, FiniteSetTheorems, TLAPS

Past == {"unbind", "bind", "chmod", "serving"} \cup Closing

\* A process past the PID file is the one the file names; the one that has just
\* made the file has not written it yet.
FileInv ==
  /\ \A p \in Pids : at[p] \in Past => pidFile = p /\ written
  /\ \A p \in Pids : at[p] = "write" => pidFile = p

\* One process starts at a time, and one that discards a file is alone.
StartInv ==
  /\ \A p, q \in Pids : at[p] \in Starting /\ at[q] \in Starting => p = q
  /\ \A p, q \in Pids : at[p] \in {"discard", "reopen"} /\ at[q] \in Alive => p = q

\* While a daemon is being stopped nobody starts, there is no other one, and
\* there is none at all when the files are removed.
StopInv ==
  \A s \in Stoppers : stopper[s].at # "idle" =>
    /\ \A p \in Pids : at[p] \notin Starting
    /\ \A p \in Pids : at[p] \in Alive => p = stopper[s].pid
    /\ stopper[s].at \in {"unlinkPid", "unlinkSocket"} => \A p \in Pids : at[p] \notin Alive

CalmInv == calm => FileInv /\ StartInv /\ StopInv

ExitInv ==
  /\ \A p \in Pids : at[p] \in {"removePid", "exited"} => socket # p
  /\ \A p \in Pids : at[p] = "exited" => pidFile # p

\* Before anything is started the types hold.
LEMMA LockTypeInit == LockInit => LockTypeOK
<1> SUFFICES ASSUME LockInit PROVE LockTypeOK
    OBVIOUS
<1>1. calm \in BOOLEAN /\ written \in BOOLEAN
      BY Zenon DEF LockInit
<1>2. /\ pidFile \in Pids \cup {NoPid} /\ socket \in Pids \cup {NoPid}
      /\ at \in [Pids -> Alive \cup Gone] /\ told \subseteq Pids
      /\ stopper \in [Stoppers -> [at : {"idle", "ask", "signal", "wait", "unlinkPid", "unlinkSocket"},
                                   kind : {"stop", "disconnect"}, pid : Pids \cup {NoPid}]]
      BY DEF LockInit, Gone
<1> QED BY <1>1, <1>2 DEF LockTypeOK

\* Every step keeps the types.
LEMMA LockTypeNext == LockTypeOK /\ [LockNext]_lockVars => LockTypeOK'
<1> SUFFICES ASSUME LockTypeOK, [LockNext]_lockVars PROVE LockTypeOK'
    OBVIOUS
<1> USE DEF LockTypeOK, Alive, Starting, Closing, Gone, daemonLockFiles, Goes, RemovePidFile, RemoveSocket
<1>1. ASSUME NEW p \in Pids, DaemonSteps(p) PROVE LockTypeOK'
  <2>1. CASE CreatePid(p, "open", "inspect") \/ Inspect(p)
        BY <1>1, <2>1 DEF DaemonSteps, CreatePid, Inspect
  <2>2. CASE Discard(p) \/ CreatePid(p, "reopen", "refused")
        BY <1>1, <2>2 DEF DaemonSteps, Discard, CreatePid
  <2>3. CASE WritePid(p)
    <3>1. written' \in BOOLEAN
          BY <2>3, Zenon DEF WritePid
    <3> QED BY <1>1, <2>3, <3>1 DEF DaemonSteps, WritePid
  <2>4. CASE Unbind(p) \/ Bind(p) \/ Chmod(p)
        BY <1>1, <2>4 DEF DaemonSteps, Unbind, Bind, Chmod
  <2>5. CASE CloseListener(p) \/ RemoveSocketFile(p) \/ RemovePid(p)
        BY <1>1, <2>5 DEF DaemonSteps, CloseListener, RemoveSocketFile, RemovePid
  <2> QED BY <1>1, <2>1, <2>2, <2>3, <2>4, <2>5 DEF DaemonSteps
<1>2. ASSUME NEW p \in Pids, Launch(p) \/ WritePidFails(p) \/ StopServing(p) \/ Die(p),
             UNCHANGED <<calm, told, stopper>>
      PROVE  LockTypeOK'
      BY <1>2 DEF Launch, WritePidFails, StopServing, Die
<1>3. ASSUME NEW s \in Stoppers, StopperSteps(s) PROVE LockTypeOK'
  <2>1. CASE AskToDisconnect(s)
        BY <1>3, <2>1 DEF StopperSteps, AskToDisconnect, Moves, Listening
  <2>2. CASE SendSigterm(s)
    <3>1. at' \in [Pids -> Alive \cup Gone]
          BY <2>2 DEF SendSigterm
    <3>2. told' \subseteq Pids /\ UNCHANGED <<pidFile, written, socket>>
          BY <2>2 DEF SendSigterm
    <3>3. stopper' \in [Stoppers -> [at : {"idle", "ask", "signal", "wait", "unlinkPid", "unlinkSocket"},
                                    kind : {"stop", "disconnect"}, pid : Pids \cup {NoPid}]]
          BY <2>2 DEF SendSigterm, Moves
    <3> QED BY <1>3, <3>1, <3>2, <3>3 DEF StopperSteps
  <2>3. CASE SeeExit(s)
        BY <1>3, <2>3 DEF StopperSteps, SeeExit, Moves
  <2>4. CASE UnlinkPid(s)
    <3>1. \E to \in {"unlinkSocket", "idle"} : Moves(s, "unlinkPid", to)
          BY <2>4 DEF UnlinkPid
    <3>2. written' \in BOOLEAN
          BY <2>4, Zenon DEF UnlinkPid
    <3> QED BY <1>3, <2>4, <3>1, <3>2 DEF StopperSteps, UnlinkPid, Moves
  <2>5. CASE UnlinkSocket(s)
        BY <1>3, <2>5 DEF StopperSteps, UnlinkSocket, Moves
  <2> QED BY <1>3, <2>1, <2>2, <2>3, <2>4, <2>5 DEF StopperSteps
<1>4. ASSUME NEW s \in Stoppers, NEW kind \in {"stop", "disconnect"}, ReadPid(s, kind), UNCHANGED calm
      PROVE  LockTypeOK'
      BY <1>4 DEF ReadPid
<1>5. ASSUME NEW s \in Stoppers, StopTimesOut(s) \/ ForceKill(s), UNCHANGED calm PROVE LockTypeOK'
      BY <1>5 DEF StopTimesOut, ForceKill, Moves
<1>6. CASE UNCHANGED lockVars
      BY <1>6 DEF lockVars
<1> QED BY <1>1, <1>2, <1>3, <1>4, <1>5, <1>6 DEF LockNext

\* The state of the files and the processes is what the module says.
THEOREM LockTypeCorrect == LockInit /\ [][LockNext]_lockVars => []LockTypeOK
BY LockTypeInit, LockTypeNext, PTL

\* Every step keeps what exits have left.
LEMMA ExitInvNext == LockTypeOK /\ ExitInv /\ [LockNext]_lockVars => ExitInv'
<1> SUFFICES ASSUME LockTypeOK, ExitInv, [LockNext]_lockVars PROVE ExitInv'
    OBVIOUS
<1> USE PidsAssumption
    DEF LockTypeOK, ExitInv, Alive, Starting, Closing, daemonLockFiles, Goes, RemovePidFile, RemoveSocket
<1>1. ASSUME NEW p \in Pids, DaemonSteps(p) PROVE ExitInv'
  <2>1. CASE CreatePid(p, "open", "inspect") \/ Inspect(p)
        BY <2>1 DEF CreatePid, Inspect
  <2>2. CASE Discard(p) \/ CreatePid(p, "reopen", "refused") \/ WritePid(p)
        BY <2>2 DEF Discard, CreatePid, WritePid
  <2>3. CASE Unbind(p) \/ Bind(p) \/ Chmod(p)
        BY <2>3 DEF Unbind, Bind, Chmod
  <2>4. CASE CloseListener(p) \/ RemoveSocketFile(p) \/ RemovePid(p)
        BY <2>4 DEF CloseListener, RemoveSocketFile, RemovePid
  <2> QED BY <1>1, <2>1, <2>2, <2>3, <2>4 DEF DaemonSteps
<1>2. ASSUME NEW p \in Pids, Launch(p) \/ WritePidFails(p) \/ StopServing(p) \/ Die(p) PROVE ExitInv'
      BY <1>2 DEF Launch, WritePidFails, StopServing, Die
<1>3. ASSUME NEW s \in Stoppers, StopperSteps(s) PROVE ExitInv'
      BY <1>3 DEF StopperSteps, AskToDisconnect, SendSigterm, SeeExit, UnlinkPid, UnlinkSocket
<1>4. ASSUME NEW s \in Stoppers, NEW kind, ReadPid(s, kind) \/ StopTimesOut(s) \/ ForceKill(s) PROVE ExitInv'
      BY <1>4 DEF ReadPid, StopTimesOut, ForceKill
<1>5. CASE UNCHANGED lockVars
      BY <1>5 DEF lockVars
<1> QED BY <1>1, <1>2, <1>3, <1>4, <1>5 DEF LockNext

\* A daemon that exits in order leaves none of its files, calm or not.
THEOREM ExitLeavesNothingAlways == LockInit /\ [][LockNext]_lockVars => []ExitLeavesNothing
<1>1. LockInit => LockTypeOK /\ ExitInv
      BY LockTypeInit DEF LockInit, ExitInv
<1>2. LockTypeOK /\ ExitInv /\ [LockNext]_lockVars => (LockTypeOK /\ ExitInv)'
      BY LockTypeNext, ExitInvNext
<1>3. ExitInv => ExitLeavesNothing
      BY DEF ExitInv, ExitLeavesNothing
<1> QED BY <1>1, <1>2, <1>3, PTL

\* A starting process, and one that ends, in calm: by its own steps.
LEMMA DaemonStepsCalm ==
  ASSUME LockTypeOK, FileInv, StartInv, StopInv, NEW p \in Pids, DaemonSteps(p)
  PROVE  FileInv' /\ StartInv' /\ StopInv'
<1> USE PidsAssumption
    DEF LockTypeOK, Past, Alive, Starting, Closing, Gone, daemonLockFiles, Goes, RemovePidFile, RemoveSocket
<1>1. UNCHANGED stopper
      BY DEF DaemonSteps
<1>2. StopInv'
  <2>1. at[p] \in Alive
        BY DEF DaemonSteps, CreatePid, Inspect, Discard, WritePid, Unbind, Bind, Chmod,
               CloseListener, RemoveSocketFile, RemovePid
  <2>2. \A q \in Pids : q # p => at'[q] = at[q]
        BY DEF DaemonSteps, CreatePid, Inspect, Discard, WritePid, Unbind, Bind, Chmod,
               CloseListener, RemoveSocketFile, RemovePid
  <2>3. at'[p] \in Starting => at[p] \in Starting
        BY DEF DaemonSteps, CreatePid, Inspect, Discard, WritePid, Unbind, Bind, Chmod,
               CloseListener, RemoveSocketFile, RemovePid
  <2> QED BY <1>1, <2>1, <2>2, <2>3 DEF StopInv
<1>3. CASE CreatePid(p, "open", "inspect")
      BY <1>2, <1>3 DEF CreatePid, FileInv, StartInv
<1>4. CASE Inspect(p)
  <2>1. StartInv'
        BY <1>4 DEF Inspect, FileInv, StartInv, NamesLiveDaemon, Running
  <2> QED BY <1>2, <1>4, <2>1 DEF Inspect, FileInv
<1>5. CASE Discard(p)
      BY <1>2, <1>5 DEF Discard, FileInv, StartInv
<1>6. CASE CreatePid(p, "reopen", "refused")
      BY <1>2, <1>6 DEF CreatePid, FileInv, StartInv
<1>7. CASE WritePid(p)
  <2>1. pidFile = p /\ written' = TRUE
        BY <1>7 DEF WritePid, FileInv
  <2> QED BY <1>2, <1>7, <2>1 DEF WritePid, FileInv, StartInv
<1>8. CASE Unbind(p) \/ Bind(p) \/ Chmod(p)
      BY <1>2, <1>8 DEF Unbind, Bind, Chmod, FileInv, StartInv
<1>9. CASE CloseListener(p) \/ RemoveSocketFile(p)
      BY <1>2, <1>9 DEF CloseListener, RemoveSocketFile, FileInv, StartInv
<1>10. CASE RemovePid(p)
      BY <1>2, <1>10 DEF RemovePid, FileInv, StartInv
<1> QED BY <1>3, <1>4, <1>5, <1>6, <1>7, <1>8, <1>9, <1>10 DEF DaemonSteps

\* The commands that stop a daemon, in calm.
LEMMA StopperStepsCalm ==
  ASSUME LockTypeOK, FileInv, StartInv, StopInv, NEW s \in Stoppers,
         StopperSteps(s) \/ StopTimesOut(s) \/ ForceKill(s)
  PROVE  FileInv' /\ StartInv' /\ StopInv'
<1> USE PidsAssumption
    DEF LockTypeOK, Past, Alive, Starting, Closing, Gone, daemonLockFiles, RemovePidFile, RemoveSocket, Moves
<1>1. stopper[s].at # "idle"
      BY DEF StopperSteps, AskToDisconnect, SendSigterm, SeeExit, UnlinkPid, UnlinkSocket,
             StopTimesOut, ForceKill
<1>2. /\ \A q \in Pids : at[q] \in Alive => q = stopper[s].pid
      /\ stopper[s].at \in {"unlinkPid", "unlinkSocket"} => \A q \in Pids : at[q] \notin Alive
      BY <1>1 DEF StopInv
<1>3. CASE AskToDisconnect(s)
      BY <1>3 DEF AskToDisconnect, FileInv, StartInv, StopInv
<1>4. CASE SendSigterm(s)
  <2>1. /\ \A q \in Pids : at'[q] = at[q] \/ at'[q] = "killed"
        /\ UNCHANGED <<pidFile, written>>
        /\ \A t \in Stoppers : /\ stopper'[t].pid = stopper[t].pid
                               /\ stopper'[t].at # stopper[t].at =>
                                    stopper[t].at = "signal" /\ stopper'[t].at \in {"idle", "wait"}
        BY <1>4 DEF SendSigterm
  <2> QED BY <2>1 DEF FileInv, StartInv, StopInv
<1>5. CASE SeeExit(s)
  <2>1. \A q \in Pids : at[q] \notin Alive
        BY <1>2, <1>5 DEF SeeExit, Running
  <2> QED BY <1>5, <2>1 DEF SeeExit, FileInv, StartInv, StopInv
<1>6. CASE UnlinkPid(s)
      BY <1>2, <1>6 DEF UnlinkPid, FileInv, StartInv, StopInv
<1>7. CASE UnlinkSocket(s)
      BY <1>2, <1>7 DEF UnlinkSocket, FileInv, StartInv, StopInv
<1>8. CASE StopTimesOut(s)
      BY <1>8 DEF StopTimesOut, FileInv, StartInv, StopInv
<1>9. CASE ForceKill(s)
  <2>1. \A q \in Pids : at'[q] \notin Alive
        BY <1>2, <1>9 DEF ForceKill, Running
  <2> QED BY <1>9, <2>1 DEF ForceKill, FileInv, StartInv, StopInv
<1> QED BY <1>3, <1>4, <1>5, <1>6, <1>7, <1>8, <1>9 DEF StopperSteps

\* Every step keeps one starter, one stopper and the files that are theirs.
LEMMA CalmInvNext == LockTypeOK /\ CalmInv /\ [LockNext]_lockVars => CalmInv'
<1> SUFFICES ASSUME LockTypeOK, CalmInv, [LockNext]_lockVars, calm'
             PROVE  FileInv' /\ StartInv' /\ StopInv'
    BY DEF CalmInv
<1>1. calm
      BY DEF LockNext, DaemonSteps, StopperSteps, lockVars
<1>2. FileInv /\ StartInv /\ StopInv
      BY <1>1 DEF CalmInv
<1>3. ASSUME NEW p \in Pids, Launch(p), UNCHANGED <<calm, told, stopper>>
      PROVE  FileInv' /\ StartInv' /\ StopInv'
      BY <1>1, <1>2, <1>3
         DEF Launch, FileInv, StartInv, StopInv, StartsRest, StopsRest, LockTypeOK, Goes, daemonLockFiles,
             Past, Alive, Starting, Closing, Gone
<1>4. ASSUME NEW p \in Pids, WritePidFails(p) \/ StopServing(p) \/ Die(p), UNCHANGED <<calm, told, stopper>>
      PROVE  FileInv' /\ StartInv' /\ StopInv'
      BY <1>2, <1>4, PidsAssumption
         DEF WritePidFails, StopServing, Die, FileInv, StartInv, StopInv, LockTypeOK, Goes, daemonLockFiles,
             RemovePidFile, Past, Alive, Starting, Closing, Gone
<1>5. ASSUME NEW s \in Stoppers, NEW kind \in {"stop", "disconnect"}, ReadPid(s, kind)
      PROVE  FileInv' /\ StartInv' /\ StopInv'
      BY <1>1, <1>2, <1>5
         DEF ReadPid, FileInv, StartInv, StopInv, StartsRest, StopsRest, LockTypeOK, daemonLockFiles,
             Past, Alive, Starting, Closing, Gone
<1>6. CASE UNCHANGED lockVars
      BY <1>2, <1>6 DEF lockVars, daemonLockFiles, FileInv, StartInv, StopInv
<1> QED BY <1>2, <1>3, <1>4, <1>5, <1>6, DaemonStepsCalm, StopperStepsCalm DEF LockNext

\* Where starts and stops do not overlap, one process at most is past the PID
\* file, whatever crashes have left (property OneDaemonWhenCalm).
THEOREM OneDaemonWhenCalmAlways == LockInit /\ [][LockNext]_lockVars => []OneDaemonWhenCalm
<1>1. LockInit => LockTypeOK /\ CalmInv
      BY LockTypeInit DEF LockInit, CalmInv, FileInv, StartInv, StopInv, Past, Alive, Starting, Closing
<1>2. LockTypeOK /\ CalmInv /\ [LockNext]_lockVars => (LockTypeOK /\ CalmInv)'
      BY LockTypeNext, CalmInvNext
<1>3. LockTypeOK /\ CalmInv => OneDaemonWhenCalm
  <2> SUFFICES ASSUME CalmInv, calm PROVE Cardinality(Holding) <= 1
      BY DEF OneDaemonWhenCalm
  <2>1. Holding \subseteq {pidFile}
        BY DEF CalmInv, FileInv, Holding, Past
  <2>2. IsFiniteSet({pidFile}) /\ Cardinality({pidFile}) = 1
        BY FS_Singleton
  <2>3. Cardinality(Holding) <= Cardinality({pidFile})
        BY <2>1, <2>2, FS_Subset
  <2> QED BY <2>2, <2>3
<1> QED BY <1>1, <1>2, <1>3, PTL
=============================================================================
