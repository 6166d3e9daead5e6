------------------------------- MODULE Daemon -------------------------------
(***************************************************************************)
(* The connection daemon (internal/daemon/connection.go): its main         *)
(* goroutine, the sleep/wake listener, the goroutines that serve clients,  *)
(* and the orphan watcher, over the machine of module Host.  A step of the *)
(* model is what one goroutine does between two points where another can   *)
(* see it: a critical section of stateMu or clientMu, or a call that takes *)
(* real time (a stage of Connect, a teardown, a probe).                    *)
(***************************************************************************)
EXTENDS Host, Naturals, Sequences

CONSTANTS Clients,            \* client connections
          MaxRetries,         \* cfg.MaxRetries
          BadTicks,           \* cfg.MaxHealthFails
          QueueCap,           \* capacity of commandCh
          OrphanSamples,      \* orphanEmptyRequired
          AutoRecoverPrefs,   \* values cfg.AutoRecover may hold when reloaded
          AutoFailoverPrefs,  \* values cfg.AutoFailover may hold when reloaded
          Disruptions         \* what happens around the daemon, of the kinds below

ASSUME LimitsAssumption ==
  /\ MaxRetries \in Nat \ {0} /\ BadTicks \in Nat \ {0}
  /\ QueueCap \in Nat \ {0} /\ OrphanSamples \in Nat \ {0}
ASSUME PrefsAssumption ==
  /\ AutoRecoverPrefs \subseteq BOOLEAN /\ AutoFailoverPrefs \subseteq BOOLEAN
  /\ AutoRecoverPrefs # {} /\ AutoFailoverPrefs # {}
ASSUME DisruptionsAssumption ==
  Disruptions \subseteq {"sleep", "crash", "sigterm", "killswitch", "removal", "manual"}

VARIABLES state,     \* d.state
          cur,       \* d.currentServer
          prev,      \* d.prevServer, offered to go back to after a failed switch
          retry,     \* d.retryCount
          bad,       \* d.consecutiveBadTicks
          heavy,     \* d.consecHeavyFails
          health,    \* "fresh" after health.reset, "sampled" once a probe is in
          main,      \* where the main goroutine is; "off" when there is no daemon
          job,       \* its locals: the Connect under way and who called it
          sleeper,   \* where the sleep/wake listener is
          conns,     \* the client connections
          queue,     \* commandCh
          sigterm,   \* a SIGTERM waits in sigCh
          stopped,   \* stopCh is closed
          orphan,    \* consecutive empty samples of exitIfOrphaned, or NoWatch
          visited,   \* it saw a client since it was started
          heard      \* the last state event broadcast, with its killswitch flag

daemonVars == <<state, cur, prev, retry, bad, heavy, health>>
clientVars == <<conns, queue, sigterm, stopped, orphan, visited>>
vars == <<hostVars, daemonVars, main, job, sleeper, clientVars, heard>>

NoWatch == OrphanSamples
HeavyFailLimit == 2

States == {"idle", "connecting", "connected", "unhealthy", "retrying",
           "failover", "failed", "switch_failed", "disconnecting"}
Events == {"none", "connecting", "connected", "healthy", "health_fail",
           "retrying", "reconnected", "failed", "switching", "switch_failed",
           "disconnecting", "disconnected"}
Stages == {"dial", "verify", "verified", "refused"}
Presence == {"away", "attached", "dropped", "lastGone"}
MainPoints == Stages \cup
  {"off", "loop", "restored", "forcing", "disconnecting", "checkFailed", "light",
   "judgeOk", "judgeLow", "heavy", "recover", "failover"}
SleeperPoints == {"idle", "clearing", "marking", "nic", "priming", "settling"}
Callers == {"none", "connect", "switch", "recover", "failover"}
Targets == Servers \cup {NoServer}
Commands == [type : {"connect", "switch"}, server : Servers]
            \cup [type : {"disconnect"}, server : {NoServer}]

NoJob == [caller |-> "none", target |-> NoServer, attempt |-> 0, tried |-> {},
          oldIP |-> "unknown"]

\* Counters the code leaves unbounded stop at a cap it cannot tell from anything
\* above: it only ever asks whether bad >= BadTicks and retry >= MaxRetries.
UpTo(cap, n) == IF n > cap THEN cap ELSE n

Tell(event) == heard' = [event |-> event, ks |-> FALSE]

Up == {"connected", "unhealthy"}
GivenUp == {"failed", "switch_failed"}
Attached == {c \in Clients : conns[c] = "attached"}

Init ==
  /\ HostInit
  /\ state = "idle" /\ cur = NoServer /\ prev = NoServer
  /\ retry = 0 /\ bad = 0 /\ heavy = 0 /\ health = "fresh"
  /\ main = "off" /\ job = NoJob /\ sleeper = "idle"
  /\ conns = [c \in Clients |-> "away"] /\ queue = <<>>
  /\ sigterm = FALSE /\ stopped = FALSE /\ orphan = NoWatch /\ visited = FALSE
  /\ heard = [event |-> "none", ks |-> FALSE]

-----------------------------------------------------------------------------
(* Start and end of the process. *)

\* RunWithConnect: a new daemon runs its initial connect before the main loop.
Spawn(s) ==
  /\ main = "off"
  /\ main' = "dial"
  /\ job' = [NoJob EXCEPT !.caller = "connect", !.target = s]
  /\ state' = "connecting"
  /\ Tell("connecting")
  /\ UNCHANGED <<hostVars, cur, prev, retry, bad, heavy, health, sleeper, clientVars>>

\* Run returns, or the process is killed: its memory and its connections go.
ProcessGone ==
  /\ main' = "off" /\ job' = NoJob /\ sleeper' = "idle"
  /\ state' = "idle" /\ cur' = NoServer /\ prev' = NoServer
  /\ retry' = 0 /\ bad' = 0 /\ heavy' = 0 /\ health' = "fresh"
  /\ conns' = [c \in Clients |-> "away"] /\ queue' = <<>>
  /\ sigterm' = FALSE /\ stopped' = FALSE /\ orphan' = NoWatch /\ visited' = FALSE

\* SIGKILL or a power failure, at any point.
Crash == "crash" \in Disruptions /\ main # "off" /\ ProcessGone /\ UNCHANGED <<hostVars, heard>>

\* Mutant: the daemon waits for its clients to leave.
ObserveStopAlone ==
  main = "loop" /\ stopped /\ Attached = {} /\ ProcessGone /\ UNCHANGED <<hostVars, heard>>

\* The main loop picks stopCh.
ObserveStop ==
  main = "loop" /\ stopped /\ ProcessGone /\ UNCHANGED <<hostVars, heard>>

\* Mutant: the signal is only handled while a tunnel is believed up.
FastTeardownOrNothing == state \in Up /\ NoTunnel /\ ks' \in KsAfterDisconnect

\* A tunnel the daemon believes up is forced down, and the killswitch follows
\* the preference ("true" may still fail in UFW).
FastTeardown ==
  \/ state \in Up /\ NoTunnel /\ ks' \in KsAfterDisconnect
  \/ state \notin Up /\ UNCHANGED hostVars

\* The main loop picks the signal.
Terminate ==
  /\ main = "loop" /\ sigterm
  /\ FastTeardown
  /\ heard' = [event |-> "disconnected", ks |-> KsUp']
  /\ ProcessGone

-----------------------------------------------------------------------------
(* Connect, called from doConnect, attemptRecovery and attemptFailover. *)

Dial(caller, s, attempt, tried) ==
  /\ main' = "dial"
  /\ job' = [caller |-> caller, target |-> s, attempt |-> attempt,
             tried |-> tried, oldIP |-> "unknown"]

\* Everything up to the new interface; the recovery of a daemon that never
\* connected dials the empty name, for which no configuration exists.
DialStep ==
  /\ main = "dial"
  /\ \/ main' = "refused" /\ job' = job /\ ConnectNotLoaded
     \/ /\ job.target # NoServer
        /\ \E ip \in VisibleIPs : job' = [job EXCEPT !.oldIP = ip]
        /\ \/ main' = "refused" /\ (ConnectUnparsed \/ ConnectNotCreated)
           \/ main' = "verify" /\ ConnectUp(job.target)
  /\ UNCHANGED <<daemonVars, sleeper, clientVars, heard>>

\* Connectivity and public IP are checked; any failure takes the tunnel down.
VerifyStep ==
  /\ main = "verify"
  /\ \/ main' = "verified" /\ VerifyPasses(job.oldIP) /\ ConnectEnds
     \/ main' = "refused" /\ ConnectCleanup
  /\ UNCHANGED <<daemonVars, job, sleeper, clientVars, heard>>

\* What every caller does with a tunnel that came up: the counters first, the
\* state in a second critical section.
Restore ==
  /\ main' = "restored"
  /\ bad' = 0 /\ retry' = 0 /\ health' = "fresh"
  /\ UNCHANGED <<hostVars, state, heavy, job, sleeper, clientVars, heard>>

ConnectSucceeds ==
  /\ main = "verified" /\ job.caller \in {"connect", "switch"}
  /\ cur' = job.target /\ prev' = NoServer
  /\ Restore

RecoverSucceeds ==
  /\ main = "verified" /\ job.caller = "recover"
  /\ Restore
  /\ UNCHANGED <<cur, prev>>

\* Mutant: the daemon goes on reporting the server it failed over from.
FailoverKeepsServer ==
  /\ main = "verified" /\ job.caller = "failover"
  /\ Restore
  /\ UNCHANGED <<cur, prev>>

FailoverSucceeds ==
  /\ main = "verified" /\ job.caller = "failover"
  /\ cur' = job.target
  /\ Restore
  /\ UNCHANGED prev

BackInService ==
  /\ main = "restored"
  /\ main' = "loop" /\ job' = NoJob
  /\ state' = "connected"
  /\ Tell(IF job.caller \in {"connect", "switch"} THEN "connected" ELSE "reconnected")
  /\ UNCHANGED <<hostVars, cur, prev, retry, bad, heavy, health, sleeper, clientVars>>

\* doConnect gives up and leaves an orphan watcher behind.  One watcher stands
\* for all: a second one is followed from its start, or the first goes on.
ConnectFails ==
  /\ main = "refused" /\ job.caller \in {"connect", "switch"}
  /\ main' = "loop" /\ job' = NoJob
  /\ state' = IF job.caller = "switch" THEN "switch_failed" ELSE "failed"
  /\ Tell(state')
  /\ orphan' \in {0} \cup ({orphan} \ {NoWatch})
  /\ visited' = FALSE
  /\ UNCHANGED <<hostVars, cur, prev, retry, bad, heavy, health, sleeper,
                 conns, queue, sigterm, stopped>>

\* Mutants: one attempt too many; no way back to the health ticks; a failure
\* that is not broadcast.
ExhaustedLate == job.attempt > MaxRetries
StayRetrying == main' = "loop" /\ job' = NoJob /\ UNCHANGED <<state, heard>>
GiveUpSilently ==
  main' = "loop" /\ job' = NoJob /\ state' = "failed" /\ UNCHANGED heard

Exhausted == job.attempt >= MaxRetries
LetTicksRetry == main' = "loop" /\ job' = NoJob /\ state' = "unhealthy" /\ UNCHANGED heard
GiveUp == main' = "loop" /\ job' = NoJob /\ state' = "failed" /\ Tell("failed")

\* attemptRecovery after a failed reconnect: let the health ticks try again,
\* fail over, or give up.
RecoverFails ==
  /\ main = "refused" /\ job.caller = "recover"
  /\ \/ ~Exhausted /\ LetTicksRetry
     \/ /\ Exhausted /\ TRUE \in AutoFailoverPrefs
        /\ state' = "failover" /\ main' = "failover" /\ job' = NoJob /\ Tell("retrying")
     \/ Exhausted /\ FALSE \in AutoFailoverPrefs /\ GiveUp
  /\ UNCHANGED <<hostVars, cur, prev, retry, bad, heavy, health, sleeper, clientVars>>

\* The failover loop: the next candidate, never the server that just failed.
FailoverTries(s) ==
  /\ main = "failover"
  /\ s \notin job.tried \cup {cur}
  /\ Dial("failover", s, 0, job.tried \cup {s})
  /\ UNCHANGED <<hostVars, daemonVars, sleeper, clientVars, heard>>

FailoverFails ==
  /\ main = "refused" /\ job.caller = "failover"
  /\ main' = "failover"
  /\ UNCHANGED <<hostVars, daemonVars, job, sleeper, clientVars, heard>>

FailoverExhausted ==
  /\ main = "failover"
  /\ Servers \subseteq job.tried \cup {cur}
  /\ GiveUp
  /\ UNCHANGED <<hostVars, cur, prev, retry, bad, heavy, health, sleeper, clientVars>>

-----------------------------------------------------------------------------
(* Commands, taken from commandCh by the main loop. *)

Receive(type) ==
  /\ main = "loop" /\ queue # <<>> /\ Head(queue).type = type
  /\ queue' = Tail(queue)
  /\ UNCHANGED <<conns, sigterm, stopped, orphan, visited>>

HandleConnect ==
  /\ Receive("connect")
  /\ Dial("connect", Head(queue).server, 0, {})
  /\ state' = "connecting" /\ Tell("connecting")
  /\ UNCHANGED <<hostVars, cur, prev, retry, bad, heavy, health, sleeper>>

\* Mutant: the server switched to is remembered instead.
RememberTarget == prev' = Head(queue).server

RememberPrevious == prev' = cur

\* doSwitch remembers where to go back to and, the state still what it was,
\* starts to take the old tunnel down.
HandleSwitch ==
  /\ Receive("switch")
  /\ main' = "forcing"
  /\ job' = [NoJob EXCEPT !.caller = "switch", !.target = Head(queue).server]
  /\ RememberPrevious /\ Tell("switching")
  /\ UNCHANGED <<hostVars, state, cur, retry, bad, heavy, health, sleeper>>

SwitchForced ==
  /\ main = "forcing"
  /\ ForceDisconnect
  /\ Dial("switch", job.target, 0, {})
  /\ state' = "connecting" /\ Tell("connecting")
  /\ UNCHANGED <<cur, prev, retry, bad, heavy, health, sleeper, clientVars>>

HandleDisconnect ==
  /\ Receive("disconnect")
  /\ main' = "disconnecting"
  /\ state' = "disconnecting" /\ Tell("disconnecting")
  /\ UNCHANGED <<hostVars, cur, prev, retry, bad, heavy, health, job, sleeper>>

\* doDisconnect runs the orderly teardown, reports, and stops the daemon.
DisconnectDone ==
  /\ main = "disconnecting"
  /\ \E reported \in BOOLEAN :
        /\ Disconnect(reported)
        /\ heard' = [event |-> "disconnected", ks |-> reported]
  /\ main' = "loop" /\ stopped' = TRUE
  /\ UNCHANGED <<daemonVars, job, sleeper, conns, queue, sigterm, orphan, visited>>

-----------------------------------------------------------------------------
(* Health ticks, taken from the tickers by the main loop. *)

\* lightHealthTick reads the state, and acts on what it read.
LightTick ==
  /\ main = "loop"
  /\ \/ state = "failed" /\ IsConnected /\ main' = "checkFailed"
     \/ state \in Up /\ main' = "light"
  /\ UNCHANGED <<hostVars, daemonVars, job, sleeper, clientVars, heard>>

\* A failed daemon whose interface answers again: believed once a public IP
\* other than the recorded baseline is seen.  With no tunnel left by then, the
\* provider's address can still pass, if it is not the one on record.
ResumesFromFailed ==
  /\ main = "checkFailed"
  /\ link = "flowing" \/ (link = "none" /\ ~KsUp)
  /\ Restore
  /\ UNCHANGED <<cur, prev>>

StaysFailed ==
  /\ main = "checkFailed"
  /\ main' = "loop"
  /\ UNCHANGED <<hostVars, daemonVars, job, sleeper, clientVars, heard>>

\* attemptRecovery is entered with the server read under the lock.
Lost ==
  /\ state' = "unhealthy"
  /\ main' = "recover" /\ job' = [NoJob EXCEPT !.target = cur]

\* The interface has disappeared, or a health score is computed from what the
\* tracker holds: the score of a tracker just reset is never low.
LightCheck ==
  /\ main = "light"
  /\ \/ ~InterfaceExists /\ bad' = BadTicks /\ Lost
     \/ /\ InterfaceExists
        /\ main' \in {"judgeOk"} \cup (IF health = "sampled" THEN {"judgeLow"} ELSE {})
        /\ UNCHANGED <<state, bad, job>>
  /\ UNCHANGED <<hostVars, cur, prev, retry, heavy, health, sleeper, clientVars, heard>>

\* Mutant: a good score also forgives unanswered probes.
JudgeOkForgivesHeavy ==
  /\ main = "judgeOk"
  /\ main' = "loop" /\ heavy' = 0
  /\ IF state = "unhealthy" \/ bad > 0
     THEN bad' = 0 /\ state' = "connected" /\ Tell("healthy")
     ELSE UNCHANGED <<bad, state, heard>>
  /\ UNCHANGED <<hostVars, cur, prev, retry, health, job, sleeper, clientVars>>

\* checkScoreBasedRecovery, score at or above the threshold.
JudgeOk ==
  /\ main = "judgeOk"
  /\ main' = "loop"
  /\ IF state = "unhealthy" \/ bad > 0
     THEN bad' = 0 /\ state' = "connected" /\ Tell("healthy")
     ELSE UNCHANGED <<bad, state, heard>>
  /\ UNCHANGED <<hostVars, cur, prev, retry, heavy, health, job, sleeper, clientVars>>

\* checkScoreBasedRecovery, score below the threshold.
JudgeLow ==
  /\ main = "judgeLow"
  /\ bad' = UpTo(BadTicks, bad + 1)
  /\ Tell("health_fail")
  /\ IF bad' >= BadTicks THEN Lost
     ELSE main' = "loop" /\ UNCHANGED <<state, job>>
  /\ UNCHANGED <<hostVars, cur, prev, retry, heavy, health, sleeper, clientVars>>

HeavyTick ==
  /\ main = "loop" /\ state \in Up
  /\ main' = "heavy"
  /\ UNCHANGED <<hostVars, daemonVars, job, sleeper, clientVars, heard>>

\* heavyHealthTick: ping and DNS probe.  Only a flowing tunnel can answer one.
HeavyAnswered ==
  /\ main = "heavy" /\ link = "flowing"
  /\ health' = "sampled" /\ heavy' = 0 /\ main' = "loop"
  /\ UNCHANGED <<hostVars, state, cur, prev, retry, bad, job, sleeper, clientVars, heard>>

\* Mutant: the counter is not reset when the tunnel is declared dead.
CountHeavyFailForEver ==
  /\ heavy' = heavy + 1
  /\ IF heavy' >= HeavyFailLimit THEN Lost
     ELSE main' = "loop" /\ UNCHANGED <<state, job>>

CountHeavyFail ==
  IF heavy + 1 >= HeavyFailLimit THEN heavy' = 0 /\ Lost
  ELSE heavy' = heavy + 1 /\ main' = "loop" /\ UNCHANGED <<state, job>>

HeavyUnanswered ==
  /\ main = "heavy"
  /\ health' = "sampled"
  /\ CountHeavyFail
  /\ UNCHANGED <<hostVars, cur, prev, retry, bad, sleeper, clientVars, heard>>

\* attemptRecovery reloads the configuration and dials, or gives up.
Recover ==
  /\ main = "recover"
  /\ \/ /\ TRUE \in AutoRecoverPrefs
        /\ state' = "retrying" /\ Tell("retrying")
        /\ retry' = UpTo(MaxRetries + 1, retry + 1) /\ bad' = 0
        /\ Dial("recover", job.target, retry', {})
     \/ FALSE \in AutoRecoverPrefs /\ GiveUp /\ UNCHANGED <<retry, bad>>
  /\ UNCHANGED <<hostVars, cur, prev, heavy, health, sleeper, clientVars>>

-----------------------------------------------------------------------------
(* The sleep/wake listener. *)

MainUntouched == UNCHANGED <<main, job, cur, prev, heavy, clientVars>>

\* prepareForSleep, first critical section.
SleepBegins ==
  /\ "sleep" \in Disruptions /\ main # "off" /\ sleeper = "idle" /\ state \in Up
  /\ sleeper' = "clearing" /\ health' = "fresh"
  /\ MainUntouched /\ UNCHANGED <<hostVars, state, retry, bad, heard>>

\* clearPeersFn, which may fail.
SleepClearsPeers ==
  /\ sleeper = "clearing"
  /\ sleeper' = "marking"
  /\ link' \in {link} \cup (IF InterfaceExists THEN {"cleared"} ELSE {})
  /\ MainUntouched /\ UNCHANGED <<tunnel, ks, state, retry, bad, health, heard>>

SleepMarks ==
  /\ sleeper = "marking"
  /\ sleeper' = "idle" /\ state' = "unhealthy" /\ Tell("health_fail")
  /\ MainUntouched /\ UNCHANGED <<hostVars, retry, bad, health>>

\* On wake the state decides, and is not looked at again.
WakeBegins ==
  /\ "sleep" \in Disruptions /\ main # "off" /\ sleeper = "idle"
  /\ state \in Up \cup {"failed"}
  /\ sleeper' = "nic"
  /\ MainUntouched /\ UNCHANGED <<hostVars, state, retry, bad, health, heard>>

\* Up to ten seconds for the network card, then the tunnel found is torn down;
\* a closed stopCh ends the listener while it waits.
WakeTearsDown ==
  /\ sleeper = "nic"
  /\ \/ sleeper' = "priming" /\ ForceDisconnect
     \/ stopped /\ sleeper' = "idle" /\ UNCHANGED hostVars
  /\ MainUntouched /\ UNCHANGED <<state, retry, bad, health, heard>>

WakePrimes ==
  /\ sleeper = "priming"
  /\ sleeper' = "settling" /\ retry' = 0 /\ bad' = BadTicks
  /\ MainUntouched /\ UNCHANGED <<hostVars, state, health, heard>>

\* Mutant: the state is left as the sleep found it.
WakeKeepsState ==
  /\ sleeper = "settling"
  /\ sleeper' = "idle"
  /\ MainUntouched /\ UNCHANGED <<hostVars, state, retry, bad, health, heard>>

WakeSettles ==
  /\ sleeper = "settling"
  /\ sleeper' = "idle" /\ state' = "unhealthy"
  /\ MainUntouched /\ UNCHANGED <<hostVars, retry, bad, health, heard>>

-----------------------------------------------------------------------------
(* Clients, signals, and the orphan watcher. *)

Elsewhere == UNCHANGED <<hostVars, daemonVars, main, job, sleeper, heard>>

Attach(c) ==
  /\ main # "off" /\ conns[c] = "away"
  /\ conns' = [conns EXCEPT ![c] = "attached"]
  /\ Elsewhere /\ UNCHANGED <<queue, sigterm, stopped, orphan, visited>>

\* handleClient queues a command; a full queue refuses it.
Send(c, cmd) ==
  /\ conns[c] \in {"attached", "dropped"} /\ Len(queue) < QueueCap
  /\ queue' = Append(queue, cmd)
  /\ Elsewhere /\ UNCHANGED <<conns, sigterm, stopped, orphan, visited>>

\* broadcastEvent takes a client it cannot write to off the map.
Drop(c) ==
  /\ conns[c] = "attached"
  /\ conns' = [conns EXCEPT ![c] = "dropped"]
  /\ Elsewhere /\ UNCHANGED <<queue, sigterm, stopped, orphan, visited>>

\* handleClient's exit takes the client off the map and counts who remains...
Detach(c) ==
  /\ conns[c] \in {"attached", "dropped"}
  /\ conns' = [conns EXCEPT ![c] = IF Attached \subseteq {c} THEN "lastGone" ELSE "away"]
  /\ Elsewhere /\ UNCHANGED <<queue, sigterm, stopped, orphan, visited>>

\* Mutant: a failed switch is not a terminal failure.
NothingLeftToServeOnce == state = "failed"

NothingLeftToServe == state \in GivenUp

\* ... and only then reads the state.
LastGone(c) ==
  /\ conns[c] = "lastGone"
  /\ conns' = [conns EXCEPT ![c] = "away"]
  /\ stopped' = (stopped \/ NothingLeftToServe)
  /\ Elsewhere /\ UNCHANGED <<queue, sigterm, orphan, visited>>

SigTerm ==
  /\ "sigterm" \in Disruptions /\ main # "off" /\ ~sigterm
  /\ sigterm' = TRUE
  /\ Elsewhere /\ UNCHANGED <<conns, queue, stopped, orphan, visited>>

\* exitIfOrphaned samples the client map; the last empty sample stops the daemon.
OrphanSample ==
  /\ orphan # NoWatch
  /\ IF Attached = {}
     THEN /\ orphan' = orphan + 1
          /\ stopped' = (stopped \/ orphan + 1 = OrphanSamples)
          /\ UNCHANGED visited
     ELSE orphan' = 0 /\ visited' = TRUE /\ UNCHANGED stopped
  /\ Elsewhere /\ UNCHANGED <<conns, queue, sigterm>>

\* The grace window ends; without a client in it the samples would have.
OrphanExpires ==
  /\ orphan # NoWatch /\ visited
  /\ orphan' = NoWatch
  /\ Elsewhere /\ UNCHANGED <<conns, queue, sigterm, stopped, visited>>

\* The machine moves on its own: the server goes away and comes back, the user
\* toggles the killswitch, another tool removes the interface or, when the
\* daemon has failed, brings it back up.
Environment ==
  /\ \/ TunnelDies \/ HandshakeAges \/ TunnelRevives
     \/ "killswitch" \in Disruptions /\ (UserKillswitch \/ StatusWavers)
     \/ "removal" \in Disruptions /\ LinkRemoved
     \/ /\ "manual" \in Disruptions /\ state = "failed"
        /\ \E s \in Servers : ManualReconnect(s)
  /\ UNCHANGED <<daemonVars, main, job, sleeper, clientVars, heard>>

-----------------------------------------------------------------------------

\* The main goroutine inside a handler.
Handling ==
  \/ DialStep \/ VerifyStep
  \/ ConnectSucceeds \/ RecoverSucceeds \/ FailoverSucceeds \/ BackInService
  \/ ConnectFails \/ RecoverFails \/ FailoverFails \/ FailoverExhausted
  \/ \E s \in Servers : FailoverTries(s)
  \/ SwitchForced \/ DisconnectDone
  \/ ResumesFromFailed \/ StaysFailed
  \/ LightCheck \/ JudgeOk \/ JudgeLow \/ HeavyAnswered \/ HeavyUnanswered
  \/ Recover

\* One case of the main loop's select.
Selecting ==
  \/ HandleConnect \/ HandleSwitch \/ HandleDisconnect
  \/ LightTick \/ HeavyTick \/ Terminate \/ ObserveStop

SleepWake ==
  \/ SleepBegins \/ SleepClearsPeers \/ SleepMarks
  \/ WakeBegins \/ WakeTearsDown \/ WakePrimes \/ WakeSettles

ClientSide ==
  \/ \E c \in Clients : Attach(c) \/ Drop(c) \/ Detach(c) \/ LastGone(c)
  \/ \E c \in Clients, cmd \in Commands : Send(c, cmd)
  \/ SigTerm \/ OrphanSample \/ OrphanExpires

Next ==
  \/ \E s \in Servers : Spawn(s)
  \/ Crash
  \/ Handling \/ Selecting \/ SleepWake \/ ClientSide \/ Environment

Spec == Init /\ [][Next]_vars

\* Handlers run to their end; a goroutine past its first step goes on; select
\* picks at random among its ready cases, so none is passed over for ever.
LifetimeFairness ==
  /\ WF_vars(Handling)
  /\ SF_vars(Terminate) /\ SF_vars(ObserveStop)
  /\ WF_vars(OrphanSample)
  /\ \A c \in Clients : WF_vars(LastGone(c)) /\ WF_vars(conns[c] = "dropped" /\ Detach(c))

Fairness ==
  /\ LifetimeFairness
  /\ SF_vars(HandleConnect \/ HandleSwitch \/ HandleDisconnect)
  /\ SF_vars(LightTick) /\ SF_vars(HeavyTick)
  /\ WF_vars(SleepClearsPeers \/ SleepMarks)
  /\ WF_vars(WakeTearsDown \/ WakePrimes \/ WakeSettles)

FairSpec == Spec /\ Fairness

-----------------------------------------------------------------------------
(* Safety. *)

Jobs == [caller : Callers, target : Targets, attempt : 0 .. MaxRetries + 1,
         tried : SUBSET Servers, oldIP : PublicIPs]

DaemonTypeOK ==
  /\ state \in States /\ cur \in Targets /\ prev \in Targets
  /\ retry \in 0 .. MaxRetries + 1 /\ bad \in 0 .. BadTicks
  /\ heavy \in 0 .. HeavyFailLimit - 1 /\ health \in {"fresh", "sampled"}

MainTypeOK ==
  /\ main \in MainPoints /\ job \in Jobs /\ sleeper \in SleeperPoints
  /\ heard \in [event : Events, ks : BOOLEAN]

FlagsTypeOK == sigterm \in BOOLEAN /\ stopped \in BOOLEAN /\ visited \in BOOLEAN

ClientTypeOK ==
  /\ conns \in [Clients -> Presence]
  /\ queue \in Seq(Commands) /\ Len(queue) <= QueueCap
  /\ orphan \in 0 .. OrphanSamples

\* Every variable stays in its type, the counters the code lets grow included.
TypeOK == HostTypeOK /\ DaemonTypeOK /\ MainTypeOK /\ FlagsTypeOK /\ ClientTypeOK

\* The daemon dials a lost server at most MaxRetries times between two
\* recoveries: a retry budget survives flaps of the health score (JudgeOk), the
\* interface check and the heavy ticks, which all lead to attemptRecovery.  It
\* does not survive a suspend that lands in the middle of one (SleepMarks).
RetryBudget == retry <= MaxRetries

\* Whenever the main loop is at rest over an interface, the server the daemon
\* reports (status replies, dashboards) and will dial on recovery is the one the
\* interface is configured for, whichever of connect, switch, recovery and
\* failover brought it there and whatever failed on the way.
TunnelIsCurrent ==
  (main = "loop" /\ InterfaceExists /\ cur # NoServer) => tunnel = cur

\* After a failed switch the server offered to go back to is the one the
\* daemon was on, also after a second switch in a row has failed.
SwitchBackTarget == state = "switch_failed" => prev = cur

\* With the main loop at rest, clients that followed the broadcasts know of a
\* failure exactly when there is one, and none believes in a tunnel the daemon
\* has given up on.  Suspends aside: WakeSettles tells nobody.
HeardAgrees ==
  main = "loop" =>
    /\ state \in GivenUp => heard.event = state
    /\ heard.event \in GivenUp => state = heard.event
    /\ heard.event \in {"connected", "reconnected", "healthy"} => state = "connected"

\* With auto-disable off or set to prompt no step of the daemon lowers a firm
\* killswitch, whatever fails in the connects, recoveries and failovers it goes
\* through: only the user's own toggle does.  A loose one, which a failing
\* rebuild can open, is the exception.
KillswitchHeld ==
  [][(ks = "firm" /\ "true" \notin KsPrefs /\ ~KsUp') => UserKillswitch]_vars

-----------------------------------------------------------------------------
(* Liveness, under FairSpec. *)

\* A tunnel lost in service is not lost quietly: traffic flows again, or the
\* daemon gives up and says so, or it is gone; provided that nobody keeps
\* removing the interface, which can pass for a recovery (VerifyPasses).
TunnelLossResolved ==
  <>[][~LinkRemoved]_vars =>
    ((state \in Up /\ link # "flowing")
       ~> (link = "flowing" \/ state \in GivenUp \/ main = "off"))

\* The same across suspends, once the machine stops going to sleep.
SettlesAfterSleep == <>[](sleeper = "idle") => TunnelLossResolved

\* A wake that finds the main loop at rest is followed by a reconnect attempt,
\* from whatever state the teardown has left the daemon in.
WakeReconnects ==
  (sleeper = "settling" /\ main = "loop")
    ~> (main = "recover" \/ link = "flowing" \/ main = "off")

\* A daemon whose connect failed does not outlive its clients: it exits when
\* nobody came, or when the last one leaves, in spite of short visits (status
\* bars) and of clients dropped by a broadcast.
Forsaken ==
  /\ state \in GivenUp /\ Attached = {}
  /\ (orphan # NoWatch /\ ~visited) \/ \E c \in Clients : conns[c] = "lastGone"

NoZombie == Forsaken ~> (main = "off" \/ Attached # {} \/ state \notin GivenUp)

\* A stop or a SIGTERM ends the daemon, whatever it is doing and however many
\* commands keep arriving.
ExitsWhenAsked == (stopped \/ sigterm) ~> main = "off"

-----------------------------------------------------------------------------
(* What comments and documents promise and the code does not keep. *)

\* prepareForSleep takes the daemon out of Connected until the machine wakes: a
\* tunnel whose peers were dropped is not reported connected again.
SuspendedStaysUnhealthy ==
  [][(link = "cleared" /\ state = "unhealthy") => state' # "connected"]_vars

\* The killswitch stays up when the VPN drops: no recovery or failover over a
\* tunnel that has stopped flowing lowers it.
KillswitchSurvivesDrop ==
  [][(main \in Stages /\ job.caller \in {"recover", "failover"} /\ main' # main
        /\ link # "flowing") => (KsUp => KsUp')]_vars

\* The daemon exits after a disconnect: having announced one, it starts nothing.
DisconnectIsLast ==
  [][(main = "loop" /\ stopped /\ heard.event = "disconnected")
       => main' \in {"loop", "off"}]_vars
=============================================================================
