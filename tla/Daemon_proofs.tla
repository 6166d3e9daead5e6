---------------------------- MODULE Daemon_proofs ----------------------------
(***************************************************************************)
(* Theorems about the connection daemon, for every set of servers and      *)
(* clients, every limit and every kind of disruption.                      *)
(***************************************************************************)
EXTENDS Daemon, TLAPS

\* The idle record of locals is a job.
LEMMA NoJobIsJob == NoJob \in Jobs
BY LimitsAssumption DEF NoJob, Jobs, Callers, Targets, PublicIPs

\* An orderly disconnect and a rebuild of the rules leave the killswitch in one
\* of its states.
LEMMA KsAfterIsKs ==
  HostTypeOK => KsAfterDisconnect \subseteq Killswitches /\ KsAfterRebuild \subseteq Killswitches
BY DEF HostTypeOK, KsAfterDisconnect, KsAfterRebuild, Killswitches

\* The initial states are well typed.
LEMMA TypeInit == Init => TypeOK
<1> SUFFICES ASSUME Init PROVE TypeOK
    OBVIOUS
<1>1. HostTypeOK
      BY DEF Init, HostInit, HostTypeOK, Links
<1>2. DaemonTypeOK
      BY LimitsAssumption DEF Init, DaemonTypeOK, States, Targets, HeavyFailLimit
<1>3. MainTypeOK
      BY NoJobIsJob DEF Init, MainTypeOK, MainPoints, SleeperPoints, Events
<1>4. FlagsTypeOK
      BY Zenon DEF Init, FlagsTypeOK
<1>5. ClientTypeOK
      BY LimitsAssumption DEF Init, ClientTypeOK, Presence, NoWatch
<1> QED BY <1>1, <1>2, <1>3, <1>4, <1>5 DEF TypeOK

\* Every step keeps the types.
LEMMA TypeNext == TypeOK /\ [Next]_vars => TypeOK'
<1> SUFFICES ASSUME TypeOK, [Next]_vars PROVE TypeOK'
    OBVIOUS
<1> USE NoJobIsJob, LimitsAssumption
    DEF TypeOK, HostTypeOK, DaemonTypeOK, MainTypeOK, FlagsTypeOK,
        ClientTypeOK, Links, States, Targets, HeavyFailLimit, MainPoints,
        Stages, Jobs, Callers, PublicIPs, SleeperPoints, Events, Presence,
        NoWatch, NoJob, hostVars, daemonVars, clientVars, Tell
<1>1. ASSUME NEW s \in Servers, Spawn(s) PROVE TypeOK'
  <2>1. HostTypeOK'
       BY <1>1 DEF Spawn
  <2>2. DaemonTypeOK'
       BY <1>1 DEF Spawn
  <2>3. MainTypeOK'
       BY <1>1 DEF Spawn
  <2>4. FlagsTypeOK'
       BY <1>1 DEF Spawn
  <2>5. ClientTypeOK'
       BY <1>1 DEF Spawn
  <2> QED BY <2>1, <2>2, <2>3, <2>4, <2>5
<1>2. CASE Crash
  <2>1. HostTypeOK'
       BY <1>2 DEF Crash, ProcessGone
  <2>2. DaemonTypeOK'
       BY <1>2 DEF Crash, ProcessGone
  <2>3. MainTypeOK'
       BY <1>2 DEF Crash, ProcessGone
  <2>4. FlagsTypeOK'
       BY <1>2 DEF Crash, ProcessGone
  <2>5. ClientTypeOK'
       BY <1>2 DEF Crash, ProcessGone
  <2> QED BY <2>1, <2>2, <2>3, <2>4, <2>5
<1>3. CASE DialStep
  <2>1. HostTypeOK'
    <3>1. link' \in Links /\ tunnel' \in Servers \cup {NoServer}
          BY <1>3 DEF DialStep, ConnectNotLoaded, ConnectUnparsed,
             ConnectNotCreated, ConnectUp, ClearTheWay, NoTunnel
    <3>2. ks' \in Killswitches
          BY <1>3, KsAfterIsKs DEF DialStep, ConnectNotLoaded, ConnectUnparsed,
             ConnectNotCreated, ConnectUp, ClearTheWay
    <3> QED BY <3>1, <3>2
  <2>2. DaemonTypeOK'
       BY <1>3 DEF DialStep, ConnectNotLoaded, VisibleIPs, ConnectUnparsed,
          ConnectNotCreated, ConnectUp, ClearTheWay, IsConnected, NoTunnel,
          KsAfterDisconnect
  <2>3. MainTypeOK'
    <3>1. job' \in Jobs
      <4>1. CASE job' = job
            BY <4>1
      <4>2. CASE \E ip \in VisibleIPs : job' = [job EXCEPT !.oldIP = ip]
            BY <4>2 DEF VisibleIPs
      <4> QED BY <1>3, <4>1, <4>2 DEF DialStep
    <3>2. main' \in MainPoints /\ sleeper' = sleeper /\ heard' = heard
          BY <1>3 DEF DialStep
    <3> QED BY <3>1, <3>2
  <2>4. FlagsTypeOK'
       BY <1>3 DEF DialStep, ConnectNotLoaded, VisibleIPs, ConnectUnparsed,
          ConnectNotCreated, ConnectUp, ClearTheWay, IsConnected, NoTunnel,
          KsAfterDisconnect
  <2>5. ClientTypeOK'
       BY <1>3 DEF DialStep, ConnectNotLoaded, VisibleIPs, ConnectUnparsed,
          ConnectNotCreated, ConnectUp, ClearTheWay, IsConnected, NoTunnel,
          KsAfterDisconnect
  <2> QED BY <2>1, <2>2, <2>3, <2>4, <2>5
<1>4. CASE VerifyStep
  <2>1. HostTypeOK'
    <3>1. link' \in Links /\ tunnel' \in Servers \cup {NoServer}
          BY <1>4 DEF VerifyStep, ConnectEnds, ConnectCleanup, NoTunnel
    <3>2. ks' \in Killswitches
          BY <1>4, KsAfterIsKs DEF VerifyStep, ConnectEnds, ConnectCleanup
    <3> QED BY <3>1, <3>2
  <2>2. DaemonTypeOK'
       BY <1>4 DEF VerifyStep
  <2>3. MainTypeOK'
       BY <1>4 DEF VerifyStep
  <2>4. FlagsTypeOK'
       BY <1>4 DEF VerifyStep
  <2>5. ClientTypeOK'
       BY <1>4 DEF VerifyStep
  <2> QED BY <2>1, <2>2, <2>3, <2>4, <2>5
<1>5. CASE ConnectSucceeds
      BY <1>5 DEF ConnectSucceeds, Restore
<1>6. CASE RecoverSucceeds
      BY <1>6 DEF RecoverSucceeds, Restore
<1>7. CASE FailoverSucceeds
      BY <1>7 DEF FailoverSucceeds, Restore
<1>8. CASE BackInService
      BY <1>8 DEF BackInService
<1>9. CASE ConnectFails
  <2>1. HostTypeOK'
       BY <1>9 DEF ConnectFails
  <2>2. DaemonTypeOK'
       BY <1>9 DEF ConnectFails
  <2>3. MainTypeOK'
       BY <1>9 DEF ConnectFails
  <2>4. FlagsTypeOK'
       BY <1>9 DEF ConnectFails
  <2>5. ClientTypeOK'
       BY <1>9 DEF ConnectFails
  <2> QED BY <2>1, <2>2, <2>3, <2>4, <2>5
<1>10. CASE RecoverFails
  <2>1. HostTypeOK'
       BY <1>10 DEF RecoverFails, Exhausted, LetTicksRetry, GiveUp
  <2>2. DaemonTypeOK'
       BY <1>10 DEF RecoverFails, Exhausted, LetTicksRetry, GiveUp
  <2>3. MainTypeOK'
    <3>1. CASE LetTicksRetry
          BY <1>10, <3>1 DEF RecoverFails, LetTicksRetry
    <3>2. CASE main' = "failover" /\ job' = NoJob /\ Tell("retrying")
          BY <1>10, <3>2 DEF RecoverFails
    <3>3. CASE GiveUp
          BY <1>10, <3>3 DEF RecoverFails, GiveUp
    <3> QED BY <1>10, <3>1, <3>2, <3>3 DEF RecoverFails
  <2>4. FlagsTypeOK'
       BY <1>10 DEF RecoverFails, Exhausted, LetTicksRetry, GiveUp
  <2>5. ClientTypeOK'
       BY <1>10 DEF RecoverFails, Exhausted, LetTicksRetry, GiveUp
  <2> QED BY <2>1, <2>2, <2>3, <2>4, <2>5
<1>11. ASSUME NEW s \in Servers, FailoverTries(s) PROVE TypeOK'
      BY <1>11 DEF FailoverTries, Dial
<1>12. CASE FailoverFails
      BY <1>12 DEF FailoverFails
<1>13. CASE FailoverExhausted
      BY <1>13 DEF FailoverExhausted, GiveUp
<1>14. CASE HandleConnect
  <2>1. HostTypeOK'
       BY <1>14 DEF HandleConnect, Receive, Dial
  <2>2. DaemonTypeOK'
       BY <1>14 DEF HandleConnect, Receive, Dial
  <2>3. MainTypeOK'
    <3>1. Head(queue) \in Commands
          BY <1>14 DEF HandleConnect, Receive
    <3>2. Head(queue).server \in Targets
          BY <3>1 DEF Commands
    <3> QED BY <1>14, <3>2 DEF HandleConnect, Receive, Dial
  <2>4. FlagsTypeOK'
       BY <1>14 DEF HandleConnect, Receive, Dial
  <2>5. ClientTypeOK'
       BY <1>14 DEF HandleConnect, Receive, Dial
  <2> QED BY <2>1, <2>2, <2>3, <2>4, <2>5
<1>15. CASE HandleSwitch
  <2>1. HostTypeOK'
       BY <1>15 DEF HandleSwitch, Receive, RememberPrevious
  <2>2. DaemonTypeOK'
       BY <1>15 DEF HandleSwitch, Receive, RememberPrevious
  <2>3. MainTypeOK'
    <3>1. Head(queue) \in Commands
          BY <1>15 DEF HandleSwitch, Receive
    <3>2. Head(queue).server \in Targets
          BY <3>1 DEF Commands
    <3> QED BY <1>15, <3>2 DEF HandleSwitch, Receive
  <2>4. FlagsTypeOK'
       BY <1>15 DEF HandleSwitch, Receive, RememberPrevious
  <2>5. ClientTypeOK'
       BY <1>15 DEF HandleSwitch, Receive, RememberPrevious
  <2> QED BY <2>1, <2>2, <2>3, <2>4, <2>5
<1>16. CASE HandleDisconnect
      BY <1>16 DEF HandleDisconnect, Receive
<1>17. CASE SwitchForced
      BY <1>17 DEF SwitchForced, ForceDisconnect, Dial, NoTunnel
<1>18. CASE DisconnectDone
  <2>1. HostTypeOK'
    <3>1. PICK reported \in BOOLEAN : Disconnect(reported)
          BY <1>18 DEF DisconnectDone
    <3>2. link' \in Links /\ tunnel' \in Servers \cup {NoServer}
          BY <3>1 DEF Disconnect, NoTunnel
    <3>3. ks' \in Killswitches
          BY <3>1, KsAfterIsKs DEF Disconnect
    <3> QED BY <3>2, <3>3
  <2>2. DaemonTypeOK'
       BY <1>18 DEF DisconnectDone, Disconnect, IsConnected, NoTunnel,
          KsAfterDisconnect
  <2>3. MainTypeOK'
       BY <1>18 DEF DisconnectDone, Disconnect, IsConnected, NoTunnel,
          KsAfterDisconnect
  <2>4. FlagsTypeOK'
       BY <1>18 DEF DisconnectDone, Disconnect, IsConnected, NoTunnel,
          KsAfterDisconnect
  <2>5. ClientTypeOK'
       BY <1>18 DEF DisconnectDone, Disconnect, IsConnected, NoTunnel,
          KsAfterDisconnect
  <2> QED BY <2>1, <2>2, <2>3, <2>4, <2>5
<1>19. CASE LightTick
      BY <1>19 DEF LightTick, IsConnected, Up
<1>20. CASE ResumesFromFailed
      BY <1>20 DEF ResumesFromFailed, Restore
<1>21. CASE StaysFailed
      BY <1>21 DEF StaysFailed
<1>22. CASE LightCheck
  <2>1. HostTypeOK'
       BY <1>22 DEF LightCheck
  <2>2. DaemonTypeOK'
       BY <1>22 DEF LightCheck, InterfaceExists, Lost
  <2>3. MainTypeOK'
       BY <1>22 DEF LightCheck, InterfaceExists, Lost
  <2>4. FlagsTypeOK'
       BY <1>22 DEF LightCheck
  <2>5. ClientTypeOK'
       BY <1>22 DEF LightCheck
  <2> QED BY <2>1, <2>2, <2>3, <2>4, <2>5
<1>23. CASE JudgeOk
  <2>1. HostTypeOK'
       BY <1>23 DEF JudgeOk
  <2>2. DaemonTypeOK'
       BY <1>23 DEF JudgeOk
  <2>3. MainTypeOK'
    <3>1. CASE Tell("healthy")
          BY <1>23, <3>1 DEF JudgeOk
    <3>2. CASE UNCHANGED heard
          BY <1>23, <3>2 DEF JudgeOk
    <3> QED BY <1>23, <3>1, <3>2 DEF JudgeOk
  <2>4. FlagsTypeOK'
       BY <1>23 DEF JudgeOk
  <2>5. ClientTypeOK'
       BY <1>23 DEF JudgeOk
  <2> QED BY <2>1, <2>2, <2>3, <2>4, <2>5
<1>24. CASE JudgeLow
  <2>1. HostTypeOK'
       BY <1>24 DEF JudgeLow
  <2>2. DaemonTypeOK'
       BY <1>24 DEF JudgeLow, UpTo, Lost
  <2>3. MainTypeOK'
    <3>1. heard' \in [event : Events, ks : BOOLEAN] /\ sleeper' \in SleeperPoints
          BY <1>24 DEF JudgeLow
    <3>2. CASE bad' >= BadTicks
          BY <1>24, <3>1, <3>2 DEF JudgeLow, Lost
    <3>3. CASE ~(bad' >= BadTicks)
          BY <1>24, <3>1, <3>3 DEF JudgeLow
    <3> QED BY <3>2, <3>3
  <2>4. FlagsTypeOK'
       BY <1>24 DEF JudgeLow
  <2>5. ClientTypeOK'
       BY <1>24 DEF JudgeLow
  <2> QED BY <2>1, <2>2, <2>3, <2>4, <2>5
<1>25. CASE HeavyTick
      BY <1>25 DEF HeavyTick, Up
<1>26. CASE HeavyAnswered
      BY <1>26 DEF HeavyAnswered
<1>27. CASE HeavyUnanswered
  <2>1. HostTypeOK'
       BY <1>27 DEF HeavyUnanswered
  <2>2. DaemonTypeOK'
       BY <1>27 DEF HeavyUnanswered, CountHeavyFail, Lost
  <2>3. MainTypeOK'
       BY <1>27 DEF HeavyUnanswered, CountHeavyFail, Lost
  <2>4. FlagsTypeOK'
       BY <1>27 DEF HeavyUnanswered
  <2>5. ClientTypeOK'
       BY <1>27 DEF HeavyUnanswered
  <2> QED BY <2>1, <2>2, <2>3, <2>4, <2>5
<1>28. CASE Recover
  <2>1. HostTypeOK'
       BY <1>28 DEF Recover, UpTo, Dial, GiveUp
  <2>2. DaemonTypeOK'
    <3>1. UpTo(MaxRetries + 1, retry + 1) \in 0 .. MaxRetries + 1
          BY DEF UpTo
    <3>2. CASE GiveUp /\ UNCHANGED <<retry, bad>>
          BY <1>28, <3>2 DEF Recover, GiveUp
    <3>3. CASE /\ state' = "retrying" /\ bad' = 0
               /\ retry' = UpTo(MaxRetries + 1, retry + 1)
          BY <1>28, <3>1, <3>3 DEF Recover
    <3> QED BY <1>28, <3>2, <3>3 DEF Recover
  <2>3. MainTypeOK'
    <3>1. CASE GiveUp
          BY <1>28, <3>1 DEF Recover, GiveUp
    <3>2. CASE /\ retry' = UpTo(MaxRetries + 1, retry + 1) /\ Tell("retrying")
               /\ Dial("recover", job.target, retry', {})
      <4>1. retry' \in 0 .. MaxRetries + 1 /\ job.target \in Targets
            BY <3>2 DEF UpTo
      <4> QED BY <1>28, <3>2, <4>1 DEF Recover, Dial
    <3> QED BY <1>28, <3>1, <3>2 DEF Recover
  <2>4. FlagsTypeOK'
       BY <1>28 DEF Recover, UpTo, Dial, GiveUp
  <2>5. ClientTypeOK'
       BY <1>28 DEF Recover, UpTo, Dial, GiveUp
  <2> QED BY <2>1, <2>2, <2>3, <2>4, <2>5
<1>29. CASE Terminate
  <2>1. HostTypeOK'
    <3>1. link' \in Links /\ tunnel' \in Servers \cup {NoServer}
          BY <1>29 DEF Terminate, FastTeardown, NoTunnel
    <3>2. ks' \in Killswitches
          BY <1>29, KsAfterIsKs DEF Terminate, FastTeardown
    <3> QED BY <3>1, <3>2
  <2>2. DaemonTypeOK'
       BY <1>29 DEF Terminate, FastTeardown, ProcessGone, Up, NoTunnel,
          KsAfterDisconnect
  <2>3. MainTypeOK'
    <3>1. KsUp' \in BOOLEAN
          BY DEF KsUp
    <3> QED BY <1>29, <3>1 DEF Terminate, ProcessGone
  <2>4. FlagsTypeOK'
       BY <1>29 DEF Terminate, FastTeardown, ProcessGone, Up, NoTunnel,
          KsAfterDisconnect
  <2>5. ClientTypeOK'
       BY <1>29 DEF Terminate, FastTeardown, ProcessGone, Up, NoTunnel,
          KsAfterDisconnect
  <2> QED BY <2>1, <2>2, <2>3, <2>4, <2>5
<1>30. CASE ObserveStop
  <2>1. HostTypeOK'
       BY <1>30 DEF ObserveStop, ProcessGone
  <2>2. DaemonTypeOK'
       BY <1>30 DEF ObserveStop, ProcessGone
  <2>3. MainTypeOK'
       BY <1>30 DEF ObserveStop, ProcessGone
  <2>4. FlagsTypeOK'
       BY <1>30 DEF ObserveStop, ProcessGone
  <2>5. ClientTypeOK'
       BY <1>30 DEF ObserveStop, ProcessGone
  <2> QED BY <2>1, <2>2, <2>3, <2>4, <2>5
<1>31. CASE SleepBegins
      BY <1>31 DEF SleepBegins, Up, MainUntouched
<1>32. CASE SleepClearsPeers
      BY <1>32 DEF SleepClearsPeers, InterfaceExists, MainUntouched
<1>33. CASE SleepMarks
      BY <1>33 DEF SleepMarks, MainUntouched
<1>34. CASE WakeBegins
      BY <1>34 DEF WakeBegins, Up, MainUntouched
<1>35. CASE WakeTearsDown
      BY <1>35 DEF WakeTearsDown, ForceDisconnect, MainUntouched, NoTunnel
<1>36. CASE WakePrimes
      BY <1>36 DEF WakePrimes, MainUntouched
<1>37. CASE WakeSettles
      BY <1>37 DEF WakeSettles, MainUntouched
<1>38. ASSUME NEW c \in Clients, Attach(c) PROVE TypeOK'
      BY <1>38 DEF Attach, Elsewhere
<1>39. ASSUME NEW c \in Clients, NEW cmd \in Commands, Send(c, cmd) PROVE TypeOK'
      BY <1>39 DEF Send, Elsewhere
<1>40. ASSUME NEW c \in Clients, Drop(c) PROVE TypeOK'
      BY <1>40 DEF Drop, Elsewhere
<1>41. ASSUME NEW c \in Clients, Detach(c) PROVE TypeOK'
      BY <1>41 DEF Detach, Attached, Elsewhere
<1>42. ASSUME NEW c \in Clients, LastGone(c) PROVE TypeOK'
      BY <1>42 DEF LastGone, NothingLeftToServe, Elsewhere, GivenUp
<1>43. CASE SigTerm
      BY <1>43 DEF SigTerm, Elsewhere
<1>44. CASE OrphanSample
  <2>1. HostTypeOK'
       BY <1>44 DEF OrphanSample, Attached, Elsewhere
  <2>2. DaemonTypeOK'
       BY <1>44 DEF OrphanSample, Attached, Elsewhere
  <2>3. MainTypeOK'
       BY <1>44 DEF OrphanSample, Attached, Elsewhere
  <2>4. FlagsTypeOK'
       BY <1>44 DEF OrphanSample, Attached, Elsewhere
  <2>5. ClientTypeOK'
       BY <1>44 DEF OrphanSample, Attached, Elsewhere
  <2> QED BY <2>1, <2>2, <2>3, <2>4, <2>5
<1>45. CASE OrphanExpires
      BY <1>45 DEF OrphanExpires, Elsewhere
<1>46. CASE Environment
  <2>1. HostTypeOK'
    <3>1. CASE UserKillswitch
          BY <3>1 DEF UserKillswitch, Killswitches
    <3>2. CASE ~UserKillswitch
          BY <1>46, <3>2 DEF Environment, StatusWavers, Killswitches, TunnelDies, HandshakeAges, TunnelRevives,
             LinkRemoved, ForceDisconnect, NoTunnel, ManualReconnect, InterfaceExists
    <3> QED BY <3>1, <3>2
  <2>2. DaemonTypeOK'
       BY <1>46 DEF Environment, TunnelDies, HandshakeAges, TunnelRevives,
          UserKillswitch, StatusWavers, LinkRemoved, ManualReconnect, InterfaceExists,
          ForceDisconnect, NoTunnel
  <2>3. MainTypeOK'
       BY <1>46 DEF Environment, TunnelDies, HandshakeAges, TunnelRevives,
          UserKillswitch, StatusWavers, LinkRemoved, ManualReconnect, InterfaceExists,
          ForceDisconnect, NoTunnel
  <2>4. FlagsTypeOK'
       BY <1>46 DEF Environment, TunnelDies, HandshakeAges, TunnelRevives,
          UserKillswitch, StatusWavers, LinkRemoved, ManualReconnect, InterfaceExists,
          ForceDisconnect, NoTunnel
  <2>5. ClientTypeOK'
       BY <1>46 DEF Environment, TunnelDies, HandshakeAges, TunnelRevives,
          UserKillswitch, StatusWavers, LinkRemoved, ManualReconnect, InterfaceExists,
          ForceDisconnect, NoTunnel
  <2> QED BY <2>1, <2>2, <2>3, <2>4, <2>5
<1>47. CASE UNCHANGED vars
      BY <1>47 DEF vars
<1> QED
      BY <1>1, <1>2, <1>3, <1>4, <1>5, <1>6, <1>7, <1>8, <1>9, <1>10, <1>11,
         <1>12, <1>13, <1>14, <1>15, <1>16, <1>17, <1>18, <1>19, <1>20,
         <1>21, <1>22, <1>23, <1>24, <1>25, <1>26, <1>27, <1>28, <1>29,
         <1>30, <1>31, <1>32, <1>33, <1>34, <1>35, <1>36, <1>37, <1>38,
         <1>39, <1>40, <1>41, <1>42, <1>43, <1>44, <1>45, <1>46, <1>47
      DEF Next, Handling, Selecting, SleepWake, ClientSide

\* Every variable of the daemon keeps to its type.
THEOREM TypeCorrect == Spec => []TypeOK
BY TypeInit, TypeNext, PTL DEF Spec

-----------------------------------------------------------------------------
(***************************************************************************)
(* The tunnel and the server reported.  While a dial is being verified the *)
(* interface is the target's; everywhere else it is the reported server's; *)
(* and a recovery dials the reported server.                               *)
(***************************************************************************)
Redialling == main = "recover" \/ (main \in Stages /\ job.caller = "recover")

TunnelInv ==
  /\ (main \in {"verify", "verified"} /\ InterfaceExists) => tunnel = job.target
  /\ (main \notin {"verify", "verified"} /\ InterfaceExists /\ cur # NoServer)
       => tunnel = cur
  /\ Redialling => job.target = cur

\* No daemon, no interface: nothing is reported wrongly.
LEMMA TunnelInit == Init => TunnelInv
BY DEF Init, HostInit, TunnelInv, InterfaceExists, Redialling, Stages

\* Without a tool that brings the interface up behind the daemon's back.
LEMMA TunnelNext ==
  ASSUME "manual" \notin Disruptions
  PROVE  TunnelInv /\ TypeOK /\ [Next]_vars => TunnelInv'
<1> SUFFICES ASSUME TunnelInv, TypeOK, [Next]_vars PROVE TunnelInv'
    OBVIOUS
<1> USE DEF TunnelInv, Redialling, hostVars, daemonVars, clientVars,
        InterfaceExists, NoTunnel, Stages, Tell
<1>1. ASSUME NEW s \in Servers, Spawn(s) PROVE TunnelInv'
      BY <1>1 DEF Spawn, NoJob
<1>2. CASE Crash
      BY <1>2 DEF Crash, ProcessGone, NoJob, NoWatch
<1>3. CASE DialStep
  <2>1. job'.target = job.target /\ job'.caller = job.caller
        BY <1>3 DEF DialStep, TypeOK, MainTypeOK, Jobs
  <2>2. cur' = cur /\ main = "dial"
        BY <1>3 DEF DialStep
  <2>3. CASE main' = "verify" /\ ConnectUp(job.target)
        BY <2>1, <2>2, <2>3 DEF ConnectUp, ClearTheWay
  <2>4. CASE main' = "refused" /\ (ConnectNotLoaded \/ ConnectUnparsed \/ ConnectNotCreated)
        BY <2>1, <2>2, <2>4 DEF ConnectNotLoaded, ConnectUnparsed, ConnectNotCreated,
           ClearTheWay
  <2> QED BY <1>3, <2>3, <2>4 DEF DialStep
<1>4. CASE VerifyStep
      BY <1>4 DEF VerifyStep, ConnectEnds, ConnectCleanup
<1>5. CASE ConnectSucceeds
      BY <1>5 DEF ConnectSucceeds, Restore
<1>6. CASE RecoverSucceeds
      BY <1>6 DEF RecoverSucceeds, Restore
<1>7. CASE FailoverSucceeds
      BY <1>7 DEF FailoverSucceeds, Restore
<1>8. CASE BackInService
      BY <1>8 DEF BackInService, NoJob
<1>9. CASE ConnectFails
      BY <1>9 DEF ConnectFails, NoJob, NoWatch
<1>10. CASE RecoverFails
      BY <1>10 DEF RecoverFails, Exhausted, LetTicksRetry, NoJob, GiveUp
<1>11. ASSUME NEW s \in Servers, FailoverTries(s) PROVE TunnelInv'
      BY <1>11 DEF FailoverTries, Dial
<1>12. CASE FailoverFails
      BY <1>12 DEF FailoverFails
<1>13. CASE FailoverExhausted
      BY <1>13 DEF FailoverExhausted, GiveUp, NoJob
<1>14. CASE HandleConnect
      BY <1>14 DEF HandleConnect, Receive, Dial
<1>15. CASE HandleSwitch
      BY <1>15 DEF HandleSwitch, Receive, NoJob, RememberPrevious
<1>16. CASE HandleDisconnect
      BY <1>16 DEF HandleDisconnect, Receive
<1>17. CASE SwitchForced
      BY <1>17 DEF SwitchForced, ForceDisconnect, Dial
<1>18. CASE DisconnectDone
      BY <1>18 DEF DisconnectDone, Disconnect, IsConnected, KsAfterDisconnect
<1>19. CASE LightTick
      BY <1>19 DEF LightTick, IsConnected, Up
<1>20. CASE ResumesFromFailed
      BY <1>20 DEF ResumesFromFailed, Restore
<1>21. CASE StaysFailed
      BY <1>21 DEF StaysFailed
<1>22. CASE LightCheck
      BY <1>22 DEF LightCheck, Lost, NoJob
<1>23. CASE JudgeOk
      BY <1>23 DEF JudgeOk
<1>24. CASE JudgeLow
      BY <1>24 DEF JudgeLow, UpTo, Lost, NoJob
<1>25. CASE HeavyTick
      BY <1>25 DEF HeavyTick, Up
<1>26. CASE HeavyAnswered
      BY <1>26 DEF HeavyAnswered
<1>27. CASE HeavyUnanswered
      BY <1>27 DEF HeavyUnanswered, CountHeavyFail, HeavyFailLimit, Lost, NoJob
<1>28. CASE Recover
  <2>1. CASE GiveUp
        BY <1>28, <2>1 DEF Recover, GiveUp, NoJob
  <2>2. CASE Dial("recover", job.target, retry', {})
        BY <1>28, <2>2 DEF Recover, Dial
  <2> QED BY <1>28, <2>1, <2>2 DEF Recover
<1>29. CASE Terminate
      BY <1>29 DEF Terminate, FastTeardown, ProcessGone, Up, KsAfterDisconnect, NoJob,
         NoWatch
<1>30. CASE ObserveStop
      BY <1>30 DEF ObserveStop, ProcessGone, NoJob, NoWatch
<1>31. CASE SleepBegins
      BY <1>31 DEF SleepBegins, Up, MainUntouched
<1>32. CASE SleepClearsPeers
      BY <1>32 DEF SleepClearsPeers, MainUntouched
<1>33. CASE SleepMarks
      BY <1>33 DEF SleepMarks, MainUntouched
<1>34. CASE WakeBegins
      BY <1>34 DEF WakeBegins, Up, MainUntouched
<1>35. CASE WakeTearsDown
      BY <1>35 DEF WakeTearsDown, ForceDisconnect, MainUntouched
<1>36. CASE WakePrimes
      BY <1>36 DEF WakePrimes, MainUntouched
<1>37. CASE WakeSettles
      BY <1>37 DEF WakeSettles, MainUntouched
<1>38. ASSUME NEW c \in Clients, Attach(c) PROVE TunnelInv'
      BY <1>38 DEF Attach, Elsewhere
<1>39. ASSUME NEW c \in Clients, NEW cmd \in Commands, Send(c, cmd) PROVE TunnelInv'
      BY <1>39 DEF Send, Elsewhere
<1>40. ASSUME NEW c \in Clients, Drop(c) PROVE TunnelInv'
      BY <1>40 DEF Drop, Elsewhere
<1>41. ASSUME NEW c \in Clients, Detach(c) PROVE TunnelInv'
      BY <1>41 DEF Detach, Attached, Elsewhere
<1>42. ASSUME NEW c \in Clients, LastGone(c) PROVE TunnelInv'
      BY <1>42 DEF LastGone, NothingLeftToServe, Elsewhere, GivenUp
<1>43. CASE SigTerm
      BY <1>43 DEF SigTerm, Elsewhere
<1>44. CASE OrphanSample
      BY <1>44 DEF OrphanSample, NoWatch, Attached, Elsewhere
<1>45. CASE OrphanExpires
      BY <1>45 DEF OrphanExpires, NoWatch, Elsewhere
<1>46. CASE Environment
      BY <1>46 DEF Environment, TunnelDies, HandshakeAges, TunnelRevives,
         UserKillswitch, StatusWavers, LinkRemoved, ManualReconnect, ForceDisconnect
<1>47. CASE UNCHANGED vars
      BY <1>47 DEF vars
<1> QED
      BY <1>1, <1>2, <1>3, <1>4, <1>5, <1>6, <1>7, <1>8, <1>9, <1>10, <1>11,
         <1>12, <1>13, <1>14, <1>15, <1>16, <1>17, <1>18, <1>19, <1>20,
         <1>21, <1>22, <1>23, <1>24, <1>25, <1>26, <1>27, <1>28, <1>29,
         <1>30, <1>31, <1>32, <1>33, <1>34, <1>35, <1>36, <1>37, <1>38,
         <1>39, <1>40, <1>41, <1>42, <1>43, <1>44, <1>45, <1>46, <1>47
      DEF Next, Handling, Selecting, SleepWake, ClientSide

\* The interface at rest is the reported server's.
THEOREM TunnelIsCurrentAlways ==
  ASSUME "manual" \notin Disruptions PROVE Spec => []TunnelIsCurrent
<1>1. TunnelInv => TunnelIsCurrent
      BY DEF TunnelInv, TunnelIsCurrent
<1> QED BY <1>1, TunnelInit, TunnelNext, TypeCorrect, PTL DEF Spec

-----------------------------------------------------------------------------
(***************************************************************************)
(* The switch that failed.  From doSwitch to its outcome the previous      *)
(* server is the reported one, and no dial is under way in SwitchFailed.   *)
(***************************************************************************)
Switching == main = "forcing" \/ (main \in Stages /\ job.caller = "switch")

SwitchInv ==
  /\ (state = "switch_failed" \/ Switching) => prev = cur
  /\ main \in Stages \cup {"failover", "restored", "checkFailed"}
       => state # "switch_failed"

\* No switch has failed yet.
LEMMA SwitchInit == Init => SwitchInv
BY DEF Init, SwitchInv, Switching, Stages

\* doSwitch sets prevServer before the state that offers it.
LEMMA SwitchNext == SwitchInv /\ TypeOK /\ [Next]_vars => SwitchInv'
<1> SUFFICES ASSUME SwitchInv, TypeOK, [Next]_vars PROVE SwitchInv'
    OBVIOUS
<1> USE DEF SwitchInv, Switching, hostVars, daemonVars, clientVars, Stages, Tell,
        Up, GivenUp
<1>1. ASSUME NEW s \in Servers, Spawn(s) PROVE SwitchInv'
      BY <1>1 DEF Spawn, NoJob
<1>2. CASE Crash
      BY <1>2 DEF Crash, ProcessGone, NoJob, NoWatch
<1>3. CASE DialStep
  <2>1. job'.caller = job.caller /\ job'.attempt = job.attempt
        BY <1>3 DEF DialStep, TypeOK, MainTypeOK, Jobs
  <2> QED BY <1>3, <2>1 DEF DialStep
<1>4. CASE VerifyStep
      BY <1>4 DEF VerifyStep
<1>5. CASE ConnectSucceeds
      BY <1>5 DEF ConnectSucceeds, Restore
<1>6. CASE RecoverSucceeds
      BY <1>6 DEF RecoverSucceeds, Restore
<1>7. CASE FailoverSucceeds
      BY <1>7 DEF FailoverSucceeds, Restore
<1>8. CASE BackInService
      BY <1>8 DEF BackInService, NoJob
<1>9. CASE ConnectFails
      BY <1>9 DEF ConnectFails, NoJob, NoWatch
<1>10. CASE RecoverFails
      BY <1>10 DEF RecoverFails, Exhausted, LetTicksRetry, NoJob, GiveUp
<1>11. ASSUME NEW s \in Servers, FailoverTries(s) PROVE SwitchInv'
      BY <1>11 DEF FailoverTries, Dial
<1>12. CASE FailoverFails
      BY <1>12 DEF FailoverFails
<1>13. CASE FailoverExhausted
      BY <1>13 DEF FailoverExhausted, GiveUp, NoJob
<1>14. CASE HandleConnect
      BY <1>14 DEF HandleConnect, Receive, Dial
<1>15. CASE HandleSwitch
      BY <1>15 DEF HandleSwitch, Receive, NoJob, RememberPrevious
<1>16. CASE HandleDisconnect
      BY <1>16 DEF HandleDisconnect, Receive
<1>17. CASE SwitchForced
      BY <1>17 DEF SwitchForced, Dial
<1>18. CASE DisconnectDone
      BY <1>18 DEF DisconnectDone
<1>19. CASE LightTick
      BY <1>19 DEF LightTick
<1>20. CASE ResumesFromFailed
      BY <1>20 DEF ResumesFromFailed, Restore
<1>21. CASE StaysFailed
      BY <1>21 DEF StaysFailed
<1>22. CASE LightCheck
      BY <1>22 DEF LightCheck, Lost, NoJob
<1>23. CASE JudgeOk
      BY <1>23 DEF JudgeOk
<1>24. CASE JudgeLow
      BY <1>24 DEF JudgeLow, UpTo, Lost, NoJob
<1>25. CASE HeavyTick
      BY <1>25 DEF HeavyTick
<1>26. CASE HeavyAnswered
      BY <1>26 DEF HeavyAnswered
<1>27. CASE HeavyUnanswered
      BY <1>27 DEF HeavyUnanswered, CountHeavyFail, HeavyFailLimit, Lost, NoJob
<1>28. CASE Recover
  <2>1. CASE GiveUp
        BY <1>28, <2>1 DEF Recover, GiveUp, NoJob
  <2>2. CASE state' = "retrying" /\ Dial("recover", job.target, retry', {})
        BY <1>28, <2>2 DEF Recover, Dial
  <2> QED BY <1>28, <2>1, <2>2 DEF Recover
<1>29. CASE Terminate
      BY <1>29 DEF Terminate, ProcessGone, NoJob, NoWatch
<1>30. CASE ObserveStop
      BY <1>30 DEF ObserveStop, ProcessGone, NoJob, NoWatch
<1>31. CASE SleepBegins
      BY <1>31 DEF SleepBegins, MainUntouched
<1>32. CASE SleepClearsPeers
      BY <1>32 DEF SleepClearsPeers, MainUntouched
<1>33. CASE SleepMarks
      BY <1>33 DEF SleepMarks, MainUntouched
<1>34. CASE WakeBegins
      BY <1>34 DEF WakeBegins, MainUntouched
<1>35. CASE WakeTearsDown
      BY <1>35 DEF WakeTearsDown, MainUntouched
<1>36. CASE WakePrimes
      BY <1>36 DEF WakePrimes, MainUntouched
<1>37. CASE WakeSettles
      BY <1>37 DEF WakeSettles, MainUntouched
<1>38. ASSUME NEW c \in Clients, Attach(c) PROVE SwitchInv'
      BY <1>38 DEF Attach, Elsewhere
<1>39. ASSUME NEW c \in Clients, NEW cmd \in Commands, Send(c, cmd) PROVE SwitchInv'
      BY <1>39 DEF Send, Elsewhere
<1>40. ASSUME NEW c \in Clients, Drop(c) PROVE SwitchInv'
      BY <1>40 DEF Drop, Elsewhere
<1>41. ASSUME NEW c \in Clients, Detach(c) PROVE SwitchInv'
      BY <1>41 DEF Detach, Elsewhere
<1>42. ASSUME NEW c \in Clients, LastGone(c) PROVE SwitchInv'
      BY <1>42 DEF LastGone, Elsewhere
<1>43. CASE SigTerm
      BY <1>43 DEF SigTerm, Elsewhere
<1>44. CASE OrphanSample
      BY <1>44 DEF OrphanSample, NoWatch, Elsewhere
<1>45. CASE OrphanExpires
      BY <1>45 DEF OrphanExpires, NoWatch, Elsewhere
<1>46. CASE Environment
      BY <1>46 DEF Environment
<1>47. CASE UNCHANGED vars
      BY <1>47 DEF vars
<1> QED
      BY <1>1, <1>2, <1>3, <1>4, <1>5, <1>6, <1>7, <1>8, <1>9, <1>10, <1>11,
         <1>12, <1>13, <1>14, <1>15, <1>16, <1>17, <1>18, <1>19, <1>20,
         <1>21, <1>22, <1>23, <1>24, <1>25, <1>26, <1>27, <1>28, <1>29,
         <1>30, <1>31, <1>32, <1>33, <1>34, <1>35, <1>36, <1>37, <1>38,
         <1>39, <1>40, <1>41, <1>42, <1>43, <1>44, <1>45, <1>46, <1>47
      DEF Next, Handling, Selecting, SleepWake, ClientSide

\* A failed switch leads back to the server the daemon was on.
THEOREM SwitchBackTargetAlways == Spec => []SwitchBackTarget
<1>1. SwitchInv => SwitchBackTarget
      BY DEF SwitchInv, SwitchBackTarget
<1> QED BY <1>1, SwitchInit, SwitchNext, TypeCorrect, PTL DEF Spec

-----------------------------------------------------------------------------
(***************************************************************************)
(* The retry budget.  A daemon that is up has an attempt left, whoever     *)
(* notices the loss; the attempt a recovery makes is the one it counted.   *)
(***************************************************************************)
BudgetInv ==
  /\ sleeper = "idle"
  /\ retry <= MaxRetries
  /\ state \in Up => retry < MaxRetries
  /\ main \in {"light", "judgeOk", "judgeLow", "heavy", "recover"} => state \in Up
  /\ main = "restored" => retry = 0
  /\ main \in Stages => state \in {"connecting", "retrying", "failover"}
  /\ main = "failover" => state = "failover"
  /\ (main \in Stages /\ job.caller = "recover") => job.attempt = retry
  /\ (main \in Stages /\ job.caller = "failover") => state = "failover"

\* No attempt has been made.
LEMMA BudgetInit == Init => BudgetInv
BY LimitsAssumption DEF Init, BudgetInv, Up, Stages

\* On a machine that does not suspend.
LEMMA BudgetNext ==
  ASSUME "sleep" \notin Disruptions
  PROVE  BudgetInv /\ TypeOK /\ [Next]_vars => BudgetInv'
<1> SUFFICES ASSUME BudgetInv, TypeOK, [Next]_vars PROVE BudgetInv'
    OBVIOUS
<1> USE LimitsAssumption
    DEF BudgetInv, hostVars, daemonVars, clientVars, Stages, Tell, Up, GivenUp
<1>1. ASSUME NEW s \in Servers, Spawn(s) PROVE BudgetInv'
      BY <1>1 DEF Spawn, NoJob
<1>2. CASE Crash
      BY <1>2 DEF Crash, ProcessGone, NoJob, NoWatch
<1>3. CASE DialStep
  <2>1. job'.caller = job.caller /\ job'.attempt = job.attempt
        BY <1>3 DEF DialStep, TypeOK, MainTypeOK, Jobs
  <2> QED BY <1>3, <2>1 DEF DialStep
<1>4. CASE VerifyStep
      BY <1>4 DEF VerifyStep
<1>5. CASE ConnectSucceeds
      BY <1>5 DEF ConnectSucceeds, Restore
<1>6. CASE RecoverSucceeds
      BY <1>6 DEF RecoverSucceeds, Restore
<1>7. CASE FailoverSucceeds
      BY <1>7 DEF FailoverSucceeds, Restore
<1>8. CASE BackInService
      BY <1>8 DEF BackInService, NoJob
<1>9. CASE ConnectFails
      BY <1>9 DEF ConnectFails, NoJob, NoWatch
<1>10. CASE RecoverFails
  <2>1. CASE ~Exhausted /\ LetTicksRetry
    <3>1. retry < MaxRetries
          BY <1>10, <2>1 DEF RecoverFails, Exhausted, TypeOK, DaemonTypeOK
    <3> QED BY <1>10, <2>1, <3>1 DEF RecoverFails, LetTicksRetry, NoJob
  <2>2. CASE state' = "failover" /\ main' = "failover" /\ job' = NoJob
        BY <1>10, <2>2 DEF RecoverFails
  <2>3. CASE GiveUp
        BY <1>10, <2>3 DEF RecoverFails, GiveUp
  <2> QED BY <1>10, <2>1, <2>2, <2>3 DEF RecoverFails
<1>11. ASSUME NEW s \in Servers, FailoverTries(s) PROVE BudgetInv'
      BY <1>11 DEF FailoverTries, Dial
<1>12. CASE FailoverFails
      BY <1>12 DEF FailoverFails
<1>13. CASE FailoverExhausted
      BY <1>13 DEF FailoverExhausted, GiveUp, NoJob
<1>14. CASE HandleConnect
      BY <1>14 DEF HandleConnect, Receive, Dial
<1>15. CASE HandleSwitch
      BY <1>15 DEF HandleSwitch, Receive, NoJob, RememberPrevious
<1>16. CASE HandleDisconnect
      BY <1>16 DEF HandleDisconnect, Receive
<1>17. CASE SwitchForced
      BY <1>17 DEF SwitchForced, Dial
<1>18. CASE DisconnectDone
      BY <1>18 DEF DisconnectDone
<1>19. CASE LightTick
      BY <1>19 DEF LightTick
<1>20. CASE ResumesFromFailed
      BY <1>20 DEF ResumesFromFailed, Restore
<1>21. CASE StaysFailed
      BY <1>21 DEF StaysFailed
<1>22. CASE LightCheck
      BY <1>22 DEF LightCheck, Lost, NoJob
<1>23. CASE JudgeOk
      BY <1>23 DEF JudgeOk
<1>24. CASE JudgeLow
      BY <1>24 DEF JudgeLow, UpTo, Lost, NoJob
<1>25. CASE HeavyTick
      BY <1>25 DEF HeavyTick
<1>26. CASE HeavyAnswered
      BY <1>26 DEF HeavyAnswered
<1>27. CASE HeavyUnanswered
      BY <1>27 DEF HeavyUnanswered, CountHeavyFail, HeavyFailLimit, Lost, NoJob
<1>28. CASE Recover
  <2>1. CASE GiveUp /\ UNCHANGED retry
        BY <1>28, <2>1 DEF Recover, GiveUp, NoJob
  <2>2. CASE /\ state' = "retrying" /\ retry' = UpTo(MaxRetries + 1, retry + 1)
             /\ Dial("recover", job.target, retry', {})
    <3>1. retry < MaxRetries
          BY <1>28 DEF Recover
    <3>2. retry' <= MaxRetries
          BY <2>2, <3>1 DEF UpTo, TypeOK, DaemonTypeOK
    <3> QED BY <1>28, <2>2, <3>2 DEF Recover, Dial
  <2> QED BY <1>28, <2>1, <2>2 DEF Recover
<1>29. CASE Terminate
      BY <1>29 DEF Terminate, ProcessGone, NoJob, NoWatch
<1>30. CASE ObserveStop
      BY <1>30 DEF ObserveStop, ProcessGone, NoJob, NoWatch
<1>31. CASE SleepBegins
      BY <1>31 DEF SleepBegins, MainUntouched
<1>32. CASE SleepClearsPeers
      BY <1>32 DEF SleepClearsPeers, MainUntouched
<1>33. CASE SleepMarks
      BY <1>33 DEF SleepMarks, MainUntouched
<1>34. CASE WakeBegins
      BY <1>34 DEF WakeBegins, MainUntouched
<1>35. CASE WakeTearsDown
      BY <1>35 DEF WakeTearsDown, MainUntouched
<1>36. CASE WakePrimes
      BY <1>36 DEF WakePrimes, MainUntouched
<1>37. CASE WakeSettles
      BY <1>37 DEF WakeSettles, MainUntouched
<1>38. ASSUME NEW c \in Clients, Attach(c) PROVE BudgetInv'
      BY <1>38 DEF Attach, Elsewhere
<1>39. ASSUME NEW c \in Clients, NEW cmd \in Commands, Send(c, cmd) PROVE BudgetInv'
      BY <1>39 DEF Send, Elsewhere
<1>40. ASSUME NEW c \in Clients, Drop(c) PROVE BudgetInv'
      BY <1>40 DEF Drop, Elsewhere
<1>41. ASSUME NEW c \in Clients, Detach(c) PROVE BudgetInv'
      BY <1>41 DEF Detach, Elsewhere
<1>42. ASSUME NEW c \in Clients, LastGone(c) PROVE BudgetInv'
      BY <1>42 DEF LastGone, Elsewhere
<1>43. CASE SigTerm
      BY <1>43 DEF SigTerm, Elsewhere
<1>44. CASE OrphanSample
      BY <1>44 DEF OrphanSample, NoWatch, Elsewhere
<1>45. CASE OrphanExpires
      BY <1>45 DEF OrphanExpires, NoWatch, Elsewhere
<1>46. CASE Environment
      BY <1>46 DEF Environment
<1>47. CASE UNCHANGED vars
      BY <1>47 DEF vars
<1> QED
      BY <1>1, <1>2, <1>3, <1>4, <1>5, <1>6, <1>7, <1>8, <1>9, <1>10, <1>11,
         <1>12, <1>13, <1>14, <1>15, <1>16, <1>17, <1>18, <1>19, <1>20,
         <1>21, <1>22, <1>23, <1>24, <1>25, <1>26, <1>27, <1>28, <1>29,
         <1>30, <1>31, <1>32, <1>33, <1>34, <1>35, <1>36, <1>37, <1>38,
         <1>39, <1>40, <1>41, <1>42, <1>43, <1>44, <1>45, <1>46, <1>47
      DEF Next, Handling, Selecting, SleepWake, ClientSide

\* The daemon never dials a lost server more than MaxRetries times.
THEOREM RetryBudgetAlways ==
  ASSUME "sleep" \notin Disruptions PROVE Spec => []RetryBudget
<1>1. BudgetInv => RetryBudget
      BY DEF BudgetInv, RetryBudget
<1> QED BY <1>1, BudgetInit, BudgetNext, TypeCorrect, PTL DEF Spec

-----------------------------------------------------------------------------
(***************************************************************************)
(* What clients were told.  The broadcasts agree with the state at every   *)
(* point between two handlers and inside the health handlers, and a        *)
(* recovery under way has been announced.                                  *)
(***************************************************************************)
Agrees ==
  /\ state \in GivenUp => heard.event = state
  /\ heard.event \in GivenUp => state = heard.event
  /\ heard.event \in {"connected", "reconnected", "healthy"} => state = "connected"

HeardInv ==
  /\ sleeper = "idle"
  /\ main \in {"light", "judgeOk", "judgeLow", "heavy", "recover"} => state \in Up
  /\ main = "disconnecting" => state = "disconnecting"
  /\ main \in {"loop", "checkFailed", "light", "judgeOk", "judgeLow", "heavy"} => Agrees
  /\ (main \in Stages /\ job.caller = "recover") => heard.event = "retrying"

\* Nothing has been broadcast.
LEMMA HeardInit == Init => HeardInv
BY DEF Init, HeardInv, Agrees, GivenUp, Stages

\* On a machine that does not suspend: a wake broadcasts nothing.
LEMMA HeardNext ==
  ASSUME "sleep" \notin Disruptions
  PROVE  HeardInv /\ TypeOK /\ [Next]_vars => HeardInv'
<1> SUFFICES ASSUME HeardInv, TypeOK, [Next]_vars PROVE HeardInv'
    OBVIOUS
<1> USE DEF HeardInv, Agrees, hostVars, daemonVars, clientVars, Stages, Tell, Up,
        GivenUp
<1>1. ASSUME NEW s \in Servers, Spawn(s) PROVE HeardInv'
      BY <1>1 DEF Spawn
<1>2. CASE Crash
      BY <1>2 DEF Crash, ProcessGone, NoWatch
<1>3. CASE DialStep
  <2>1. job'.caller = job.caller
        BY <1>3 DEF DialStep, TypeOK, MainTypeOK, Jobs
  <2> QED BY <1>3, <2>1 DEF DialStep
<1>4. CASE VerifyStep
      BY <1>4 DEF VerifyStep
<1>5. CASE ConnectSucceeds
      BY <1>5 DEF ConnectSucceeds, Restore
<1>6. CASE RecoverSucceeds
      BY <1>6 DEF RecoverSucceeds, Restore
<1>7. CASE FailoverSucceeds
      BY <1>7 DEF FailoverSucceeds, Restore
<1>8. CASE BackInService
      BY <1>8 DEF BackInService
<1>9. CASE ConnectFails
      BY <1>9 DEF ConnectFails, NoWatch
<1>10. CASE RecoverFails
  <2>1. CASE LetTicksRetry
        BY <1>10, <2>1 DEF RecoverFails, LetTicksRetry
  <2>2. CASE main' = "failover" /\ job' = NoJob
        BY <1>10, <2>2 DEF RecoverFails
  <2>3. CASE GiveUp
        BY <1>10, <2>3 DEF RecoverFails, GiveUp
  <2> QED BY <1>10, <2>1, <2>2, <2>3 DEF RecoverFails
<1>11. ASSUME NEW s \in Servers, FailoverTries(s) PROVE HeardInv'
      BY <1>11 DEF FailoverTries, Dial
<1>12. CASE FailoverFails
      BY <1>12 DEF FailoverFails
<1>13. CASE FailoverExhausted
      BY <1>13 DEF FailoverExhausted, GiveUp
<1>14. CASE HandleConnect
      BY <1>14 DEF HandleConnect, Receive, Dial
<1>15. CASE HandleSwitch
      BY <1>15 DEF HandleSwitch, Receive, RememberPrevious
<1>16. CASE HandleDisconnect
      BY <1>16 DEF HandleDisconnect, Receive
<1>17. CASE SwitchForced
      BY <1>17 DEF SwitchForced, Dial
<1>18. CASE DisconnectDone
      BY <1>18 DEF DisconnectDone
<1>19. CASE LightTick
      BY <1>19 DEF LightTick
<1>20. CASE ResumesFromFailed
      BY <1>20 DEF ResumesFromFailed, Restore
<1>21. CASE StaysFailed
      BY <1>21 DEF StaysFailed
<1>22. CASE LightCheck
      BY <1>22 DEF LightCheck, Lost
<1>23. CASE JudgeOk
      BY <1>23 DEF JudgeOk
<1>24. CASE JudgeLow
      BY <1>24 DEF JudgeLow, Lost
<1>25. CASE HeavyTick
      BY <1>25 DEF HeavyTick
<1>26. CASE HeavyAnswered
      BY <1>26 DEF HeavyAnswered
<1>27. CASE HeavyUnanswered
      BY <1>27 DEF HeavyUnanswered, CountHeavyFail, HeavyFailLimit, Lost
<1>28. CASE Recover
  <2>1. CASE GiveUp
        BY <1>28, <2>1 DEF Recover, GiveUp, NoJob
  <2>2. CASE Tell("retrying") /\ Dial("recover", job.target, retry', {})
        BY <1>28, <2>2 DEF Recover, Dial
  <2> QED BY <1>28, <2>1, <2>2 DEF Recover
<1>29. CASE Terminate
      BY <1>29 DEF Terminate, ProcessGone, NoWatch
<1>30. CASE ObserveStop
      BY <1>30 DEF ObserveStop, ProcessGone, NoWatch
<1>31. CASE SleepBegins
      BY <1>31 DEF SleepBegins, MainUntouched
<1>32. CASE SleepClearsPeers
      BY <1>32 DEF SleepClearsPeers, MainUntouched
<1>33. CASE SleepMarks
      BY <1>33 DEF SleepMarks, MainUntouched
<1>34. CASE WakeBegins
      BY <1>34 DEF WakeBegins, MainUntouched
<1>35. CASE WakeTearsDown
      BY <1>35 DEF WakeTearsDown, MainUntouched
<1>36. CASE WakePrimes
      BY <1>36 DEF WakePrimes, MainUntouched
<1>37. CASE WakeSettles
      BY <1>37 DEF WakeSettles, MainUntouched
<1>38. ASSUME NEW c \in Clients, Attach(c) PROVE HeardInv'
      BY <1>38 DEF Attach, Elsewhere
<1>39. ASSUME NEW c \in Clients, NEW cmd \in Commands, Send(c, cmd) PROVE HeardInv'
      BY <1>39 DEF Send, Elsewhere
<1>40. ASSUME NEW c \in Clients, Drop(c) PROVE HeardInv'
      BY <1>40 DEF Drop, Elsewhere
<1>41. ASSUME NEW c \in Clients, Detach(c) PROVE HeardInv'
      BY <1>41 DEF Detach, Elsewhere
<1>42. ASSUME NEW c \in Clients, LastGone(c) PROVE HeardInv'
      BY <1>42 DEF LastGone, Elsewhere
<1>43. CASE SigTerm
      BY <1>43 DEF SigTerm, Elsewhere
<1>44. CASE OrphanSample
      BY <1>44 DEF OrphanSample, NoWatch, Elsewhere
<1>45. CASE OrphanExpires
      BY <1>45 DEF OrphanExpires, NoWatch, Elsewhere
<1>46. CASE Environment
      BY <1>46 DEF Environment
<1>47. CASE UNCHANGED vars
      BY <1>47 DEF vars
<1> QED
      BY <1>1, <1>2, <1>3, <1>4, <1>5, <1>6, <1>7, <1>8, <1>9, <1>10, <1>11,
         <1>12, <1>13, <1>14, <1>15, <1>16, <1>17, <1>18, <1>19, <1>20,
         <1>21, <1>22, <1>23, <1>24, <1>25, <1>26, <1>27, <1>28, <1>29,
         <1>30, <1>31, <1>32, <1>33, <1>34, <1>35, <1>36, <1>37, <1>38,
         <1>39, <1>40, <1>41, <1>42, <1>43, <1>44, <1>45, <1>46, <1>47
      DEF Next, Handling, Selecting, SleepWake, ClientSide

\* A failure is known to clients exactly when there is one.
THEOREM HeardAgreesAlways ==
  ASSUME "sleep" \notin Disruptions PROVE Spec => []HeardAgrees
<1>1. HeardInv => HeardAgrees
      BY DEF HeardInv, Agrees, HeardAgrees
<1> QED BY <1>1, HeardInit, HeardNext, TypeCorrect, PTL DEF Spec

-----------------------------------------------------------------------------
(* The killswitch. *)

\* KillswitchAutoDisable other than "true": an orderly disconnect keeps it.
LEMMA KsAfterKeeps == "true" \notin KsPrefs => KsAfterDisconnect = {ks}
BY DEF KsAfterDisconnect

\* A firm killswitch outlives a rebuild that fails.
LEMMA KsFirmKeeps == ks = "firm" => KsAfterRebuild = {ks}
BY DEF KsAfterRebuild

\* Without automatic disabling no step but the user's lowers a firm killswitch.
LEMMA KillswitchNext ==
  [Next]_vars => ((ks = "firm" /\ "true" \notin KsPrefs /\ ~KsUp') => UserKillswitch)
<1> SUFFICES ASSUME [Next]_vars, ks = "firm", "true" \notin KsPrefs, ~KsUp'
             PROVE  UserKillswitch
    OBVIOUS
<1> USE KsAfterKeeps, KsFirmKeeps DEF hostVars, KsUp
<1>1. ASSUME NEW s \in Servers, Spawn(s) PROVE ks' = ks
      BY <1>1 DEF Spawn
<1>2. Crash => ks' = ks
      BY DEF Crash
<1>3. DialStep => ks' = ks
      BY DEF DialStep, ConnectNotLoaded, ConnectUnparsed, ConnectNotCreated,
         ConnectUp, ClearTheWay
<1>4. VerifyStep => ks' = ks
      BY DEF VerifyStep, ConnectEnds, ConnectCleanup
<1>5. ConnectSucceeds => ks' = ks
      BY DEF ConnectSucceeds, Restore
<1>6. RecoverSucceeds => ks' = ks
      BY DEF RecoverSucceeds, Restore
<1>7. FailoverSucceeds => ks' = ks
      BY DEF FailoverSucceeds, Restore
<1>8. BackInService => ks' = ks
      BY DEF BackInService
<1>9. ConnectFails => ks' = ks
      BY DEF ConnectFails
<1>10. RecoverFails => ks' = ks
      BY DEF RecoverFails, GiveUp
<1>11. ASSUME NEW s \in Servers, FailoverTries(s) PROVE ks' = ks
      BY <1>11 DEF FailoverTries
<1>12. FailoverFails => ks' = ks
      BY DEF FailoverFails
<1>13. FailoverExhausted => ks' = ks
      BY DEF FailoverExhausted, GiveUp
<1>14. HandleConnect => ks' = ks
      BY DEF HandleConnect
<1>15. HandleSwitch => ks' = ks
      BY DEF HandleSwitch
<1>16. HandleDisconnect => ks' = ks
      BY DEF HandleDisconnect
<1>17. SwitchForced => ks' = ks
      BY DEF SwitchForced, ForceDisconnect
<1>18. DisconnectDone => ks' = ks
      BY DEF DisconnectDone, Disconnect
<1>19. LightTick => ks' = ks
      BY DEF LightTick
<1>20. ResumesFromFailed => ks' = ks
      BY DEF ResumesFromFailed, Restore
<1>21. StaysFailed => ks' = ks
      BY DEF StaysFailed
<1>22. LightCheck => ks' = ks
      BY DEF LightCheck
<1>23. JudgeOk => ks' = ks
      BY DEF JudgeOk
<1>24. JudgeLow => ks' = ks
      BY DEF JudgeLow
<1>25. HeavyTick => ks' = ks
      BY DEF HeavyTick
<1>26. HeavyAnswered => ks' = ks
      BY DEF HeavyAnswered
<1>27. HeavyUnanswered => ks' = ks
      BY DEF HeavyUnanswered
<1>28. Recover => ks' = ks
      BY DEF Recover, GiveUp
<1>29. Terminate => ks' = ks
      BY DEF Terminate, FastTeardown
<1>30. ObserveStop => ks' = ks
      BY DEF ObserveStop
<1>31. SleepBegins => ks' = ks
      BY DEF SleepBegins
<1>32. SleepClearsPeers => ks' = ks
      BY DEF SleepClearsPeers
<1>33. SleepMarks => ks' = ks
      BY DEF SleepMarks
<1>34. WakeBegins => ks' = ks
      BY DEF WakeBegins
<1>35. WakeTearsDown => ks' = ks
      BY DEF WakeTearsDown, ForceDisconnect
<1>36. WakePrimes => ks' = ks
      BY DEF WakePrimes
<1>37. WakeSettles => ks' = ks
      BY DEF WakeSettles
<1>38. ASSUME NEW c \in Clients, Attach(c) PROVE ks' = ks
      BY <1>38 DEF Attach, Elsewhere
<1>39. ASSUME NEW c \in Clients, NEW cmd \in Commands, Send(c, cmd) PROVE ks' = ks
      BY <1>39 DEF Send, Elsewhere
<1>40. ASSUME NEW c \in Clients, Drop(c) PROVE ks' = ks
      BY <1>40 DEF Drop, Elsewhere
<1>41. ASSUME NEW c \in Clients, Detach(c) PROVE ks' = ks
      BY <1>41 DEF Detach, Elsewhere
<1>42. ASSUME NEW c \in Clients, LastGone(c) PROVE ks' = ks
      BY <1>42 DEF LastGone, Elsewhere
<1>43. SigTerm => ks' = ks
      BY DEF SigTerm, Elsewhere
<1>44. OrphanSample => ks' = ks
      BY DEF OrphanSample, Elsewhere
<1>45. OrphanExpires => ks' = ks
      BY DEF OrphanExpires, Elsewhere
<1>46. Environment => UserKillswitch
      BY DEF Environment, TunnelDies, HandshakeAges, TunnelRevives,
         UserKillswitch, StatusWavers, LinkRemoved, ManualReconnect, ForceDisconnect
<1>47. UNCHANGED vars => ks' = ks
      BY DEF vars
<1> QED
      BY <1>1, <1>2, <1>3, <1>4, <1>5, <1>6, <1>7, <1>8, <1>9, <1>10, <1>11,
         <1>12, <1>13, <1>14, <1>15, <1>16, <1>17, <1>18, <1>19, <1>20,
         <1>21, <1>22, <1>23, <1>24, <1>25, <1>26, <1>27, <1>28, <1>29,
         <1>30, <1>31, <1>32, <1>33, <1>34, <1>35, <1>36, <1>37, <1>38,
         <1>39, <1>40, <1>41, <1>42, <1>43, <1>44, <1>45, <1>46, <1>47
      DEF Next, Handling, Selecting, SleepWake, ClientSide

\* With auto-disable off or set to prompt the daemon never lowers a killswitch
\* whose rebuilds roll back to deny.
THEOREM KillswitchIsHeld == Spec => KillswitchHeld
BY KillswitchNext, PTL DEF Spec, KillswitchHeld
=============================================================================
