---------------------------- MODULE Tunnel_proofs ----------------------------
(***************************************************************************)
(* Theorems about the commands of a tunnel, for every set of servers and   *)
(* networks: they implement the atomic steps module Host takes for them.   *)
(***************************************************************************)
EXTENDS Tunnel, SequenceTheorems, TLAPS

Commands == {"existing", "capture", "delete", "create", "configure", "raise", "dns",
             "pin", "split", "verify", "connected", "revertDns", "dropSplit",
             "dropOld", "dropTarget", "down", "refused", "failed"}

\* Only Connect makes an interface.
MainOnly == {"existing", "create", "configure", "raise"}

\* A configuration follows the creation of the interface, raising it the
\* configuration: neither is reached with a link that is up.
Ordered(s) ==
  \A i \in 1 .. Len(s) :
    /\ s[i] = "configure" => i = 1 \/ s[i - 1] = "create"
    /\ s[i] = "raise" => i = 1 \/ s[i - 1] = "configure"

Configures(s) == \E i \in 1 .. Len(s) : s[i] = "configure"
Harmless(s) == \A i \in 1 .. Len(s) : s[i] \notin MainOnly

StepInv ==
  /\ todo \in [Actors -> Seq(Commands)]
  /\ \A a \in Actors : Ordered(todo[a])
  /\ Harmless(todo["sleeper"])

DeviceInv ==
  /\ Does("main", "configure") => dev \in {"none", "bare"}
  /\ Does("main", "raise") => dev = "none" \/ (dev = "peered" /\ ep \in Endpoints)
  /\ Configures(todo["main"]) => job["main"].target \in Endpoints

TunnelInv == TunnelTypeOK /\ StepInv /\ DeviceInv

\* What the scripts are made of.
LEMMA ScriptsOrdered ==
  \A s \in {ConnectScript, TeardownScript, EarlyFailure, LateFailure} :
    s \in Seq(Commands) /\ Ordered(s)
<1>1. ConnectScript \in Seq(Commands) /\ Ordered(ConnectScript)
      BY DEF ConnectScript, Commands, Ordered
<1>2. TeardownScript \in Seq(Commands) /\ Ordered(TeardownScript)
      BY DEF TeardownScript, Commands, Ordered
<1>3. EarlyFailure \in Seq(Commands) /\ Ordered(EarlyFailure)
      BY DEF EarlyFailure, Commands, Ordered
<1>4. LateFailure \in Seq(Commands) /\ Ordered(LateFailure)
      BY DEF LateFailure, Commands, Ordered
<1> QED BY <1>1, <1>2, <1>3, <1>4

\* What is left of an ordered list is one, and begins with what its head allows.
LEMMA TailOrdered ==
  ASSUME NEW s \in Seq(Commands), s # <<>>, Ordered(s)
  PROVE  /\ Tail(s) \in Seq(Commands) /\ Ordered(Tail(s))
         /\ Tail(s) # <<>> => /\ Head(Tail(s)) = "configure" => Head(s) = "create"
                              /\ Head(Tail(s)) = "raise" => Head(s) = "configure"
<1>1. /\ Tail(s) \in Seq(Commands) /\ Len(Tail(s)) = Len(s) - 1 /\ Len(s) \in Nat
      /\ \A i \in 1 .. Len(Tail(s)) : Tail(s)[i] = s[i + 1]
      OBVIOUS
<1>2. Ordered(Tail(s))
      BY <1>1 DEF Ordered
<1>3. ASSUME Tail(s) # <<>>
      PROVE  /\ Head(Tail(s)) = "configure" => Head(s) = "create"
             /\ Head(Tail(s)) = "raise" => Head(s) = "configure"
  <2>1. Len(s) >= 2 /\ Head(s) = s[1] /\ Head(Tail(s)) = s[2]
        BY <1>3
  <2> QED BY <2>1 DEF Ordered
<1> QED BY <1>1, <1>2, <1>3

\* The sleep/wake goroutine makes no interface.
LEMMA HarmlessHead ==
  ASSUME NEW s \in Seq(Commands), s # <<>>, Harmless(s)
  PROVE  Head(s) \notin MainOnly
<1>1. Head(s) = s[1] /\ Len(s) >= 1
      OBVIOUS
<1> QED BY <1>1 DEF Harmless

\* A teardown may be put before an ordered list that begins with neither.
LEMMA TeardownFirst ==
  ASSUME NEW t \in Seq(Commands), Ordered(t),
         t # <<>> => Head(t) \notin {"configure", "raise"}
  PROVE  LET r == TeardownScript \o t IN
           /\ r \in Seq(Commands) /\ Ordered(r) /\ r # <<>> /\ Head(r) = "capture"
           /\ \A i \in 1 .. Len(r) : r[i] = "configure" => \E j \in 1 .. Len(t) : t[j] = "configure"
<1> DEFINE r == TeardownScript \o t
<1>1. /\ TeardownScript \in Seq(Commands) /\ Len(TeardownScript) = 6
      /\ TeardownScript[1] = "capture"
      /\ \A i \in 1 .. 6 : TeardownScript[i] \notin {"configure", "raise"}
      BY ScriptsOrdered DEF TeardownScript
<1>2. /\ r \in Seq(Commands) /\ Len(r) = 6 + Len(t) /\ Len(t) \in Nat
      /\ \A i \in 1 .. Len(r) : r[i] = IF i <= 6 THEN TeardownScript[i] ELSE t[i - 6]
  <2>1. /\ r \in Seq(Commands) /\ Len(r) = Len(TeardownScript) + Len(t)
        /\ \A i \in 1 .. Len(TeardownScript) + Len(t) :
             r[i] = IF i <= Len(TeardownScript) THEN TeardownScript[i] ELSE t[i - Len(TeardownScript)]
        BY <1>1, ConcatProperties, Zenon
  <2>2. Len(t) \in Nat
        OBVIOUS
  <2> HIDE DEF r
  <2> QED BY <1>1, <2>1, <2>2
<1> HIDE DEF r
<1>3. Ordered(r)
  <2> SUFFICES ASSUME NEW i \in 1 .. Len(r), r[i] \in {"configure", "raise"}
               PROVE  /\ r[i] = "configure" => i = 1 \/ r[i - 1] = "create"
                      /\ r[i] = "raise" => i = 1 \/ r[i - 1] = "configure"
      BY DEF Ordered
  <2>1. i > 6 /\ r[i] = t[i - 6] /\ i - 6 \in 1 .. Len(t)
        BY <1>1, <1>2
  <2>2. i # 7
    <3>1. Len(t) >= 1 /\ Head(t) = t[1] /\ t # <<>>
          BY <2>1
    <3> QED BY <2>1, <3>1
  <2>3. r[i - 1] = t[i - 7] /\ i - 7 \in 1 .. Len(t)
        BY <2>1, <2>2, <1>2
  <2> QED BY <2>1, <2>2, <2>3 DEF Ordered
<1>4. r # <<>> /\ Head(r) = "capture"
      BY <1>1, <1>2
<1>5. \A i \in 1 .. Len(r) : r[i] = "configure" => \E j \in 1 .. Len(t) : t[j] = "configure"
      BY <1>1, <1>2
<1> QED BY <1>2, <1>3, <1>4, <1>5 DEF r

\* A command other than Connect's three leaves the interface or removes it.
LEMMA OtherEffects ==
  ASSUME NEW a \in Actors, NEW failed \in BOOLEAN, Effect(a, failed),
         Head(todo[a]) \notin {"create", "configure", "raise"}
  PROVE  UNCHANGED <<dev, ep>> \/ NoDevice
BY Zenon DEF Effect, Does, Delete, AddSplit, Verify, DropPin, DropSplit, RevertDns,
             KeepDevice, machineVars

\* Resolvers and host routes leave the interface.
LEMMA ArrangesOnDevice ==
  ASSUME NEW a \in Actors, Arranges(a) PROVE UNCHANGED <<dev, ep>>
BY Zenon DEF Arranges, SetDns, Pin, KeepDevice, machineVars

\* What a step may leave a goroutine to do after the commands s.
Follows(n, s) ==
  /\ n \in Seq(Commands) /\ Ordered(n)
  /\ Configures(n) => Configures(s)
  /\ Harmless(s) => Harmless(n)
  /\ n # <<>> /\ Head(n) \in {"configure", "raise"} =>
       /\ n = Tail(s)
       /\ Head(n) = "configure" => Head(s) = "create"
       /\ Head(n) = "raise" => Head(s) = "configure"

\* The clean-up scripts configure nothing.
LEMMA CleanupFollows ==
  ASSUME NEW s PROVE \A n \in {EarlyFailure, LateFailure, TeardownScript} : Follows(n, s)
<1>1. \A n \in {EarlyFailure, LateFailure, TeardownScript} :
        /\ n # <<>> /\ Head(n) \in {"delete", "dropTarget", "capture"}
        /\ ~Configures(n) /\ Harmless(n)
      BY DEF EarlyFailure, LateFailure, TeardownScript, Configures, Harmless, MainOnly
<1> QED BY <1>1, ScriptsOrdered, Zenon DEF Follows

\* The next command follows.
LEMMA TailFollows ==
  ASSUME NEW s \in Seq(Commands), Ordered(s), s # <<>>
  PROVE  Follows(Tail(s), s)
<1>1. /\ Len(Tail(s)) = Len(s) - 1 /\ Len(s) \in Nat
      /\ \A i \in 1 .. Len(Tail(s)) : Tail(s)[i] = s[i + 1]
      OBVIOUS
<1>2. /\ Configures(Tail(s)) => Configures(s)
      /\ Harmless(s) => Harmless(Tail(s))
      BY <1>1 DEF Configures, Harmless
<1> QED BY <1>2, TailOrdered, Zenon DEF Follows

\* So does a teardown before the rest of a Connect.
LEMMA ExistingFollows ==
  ASSUME NEW s \in Seq(Commands), Ordered(s), s # <<>>, Head(s) = "existing"
  PROVE  /\ Follows(TeardownScript \o Tail(s), s)
         /\ Follows(<<>> \o Tail(s), s)
<1> DEFINE t == Tail(s)
           r == TeardownScript \o t
<1>1. /\ t \in Seq(Commands) /\ Ordered(t) /\ Follows(t, s)
      /\ t # <<>> => Head(t) \notin {"configure", "raise"}
      BY TailFollows, TailOrdered
<1>2. <<>> \o t = t
      BY <1>1, ConcatEmptySeq, Zenon
<1>3. /\ r \in Seq(Commands) /\ Ordered(r) /\ r # <<>> /\ Head(r) = "capture"
      /\ Configures(r) => Configures(t)
  <2> HIDE DEF t
  <2> QED BY <1>1, TeardownFirst, Zenon DEF Configures
<1>4. Configures(t) => Configures(s)
      BY <1>1 DEF Follows
<1>5. ~Harmless(s)
  <2>1. Len(s) >= 1 /\ Head(s) = s[1]
        OBVIOUS
  <2> QED BY <2>1 DEF Harmless, MainOnly
<1>6. Follows(r, s)
  <2> HIDE DEF r, t
  <2> QED BY <1>3, <1>4, <1>5, Zenon DEF Follows
<1> QED BY <1>1, <1>2, <1>6

\* A step of goroutine a leaves it what may follow, and the other what it had.
LEMMA StepFollows ==
  ASSUME StepInv, NEW a \in Actors, TunnelStep(a)
  PROVE  todo[a] # <<>> /\ Follows(todo'[a], todo[a]) /\ todo' = [todo EXCEPT ![a] = todo'[a]]
<1>1. todo \in [Actors -> Seq(Commands)] /\ Ordered(todo[a])
      BY DEF StepInv
<1>2. CASE Existing(a)
  <2>1. /\ todo[a] # <<>> /\ Head(todo[a]) = "existing"
        /\ \E r \in {TeardownScript \o Tail(todo[a]), <<>> \o Tail(todo[a])} :
             todo' = [todo EXCEPT ![a] = r]
        BY <1>2 DEF Existing, Does, Idle
  <2> QED BY <1>1, <2>1, ExistingFollows
<1>3. CASE Capture(a) \/ Arranges(a) \/ Returns(a)
  <2>1. todo[a] # <<>> /\ todo' = [todo EXCEPT ![a] = Tail(todo[a])]
        BY <1>3, Zenon DEF Capture, Arranges, Returns, Does, Idle
  <2> QED BY <1>1, <2>1, TailFollows
<1>4. ASSUME NEW failed \in BOOLEAN, Command(a, failed)
      PROVE  todo[a] # <<>> /\ Follows(todo'[a], todo[a]) /\ todo' = [todo EXCEPT ![a] = todo'[a]]
  <2>1. todo[a] # <<>>
        BY <1>4, Zenon DEF Command, Effect, Does, Idle
  <2>2. \E r \in {EarlyFailure, LateFailure, Tail(todo[a])} : todo' = [todo EXCEPT ![a] = r]
        BY <1>4, Zenon DEF Command
  <2> QED BY <1>1, <2>1, <2>2, TailFollows, CleanupFollows
<1> QED BY <1>2, <1>3, <1>4 DEF TunnelStep

\* A goroutine that begins an operation, which is not idle then.
LEMMA BeginsFollows ==
  ASSUME StepInv, NEW a \in Actors, NEW target, NEW script \in {ConnectScript, TeardownScript},
         script = ConnectScript => a = "main", Begins(a, target, script)
  PROVE  StepInv'
<1>1. script \in Seq(Commands) /\ Ordered(script)
      BY ScriptsOrdered
<1>2. Harmless(TeardownScript)
      BY DEF TeardownScript, Harmless, MainOnly
<1>3. todo' = [todo EXCEPT ![a] = script]
      BY DEF Begins
<1> QED BY <1>1, <1>2, <1>3 DEF StepInv, Actors

\* The order of commands is kept by every step.
LEMMA StepInvNext == StepInv /\ [TunnelNext]_tunnelVars => StepInv'
<1> SUFFICES ASSUME StepInv, [TunnelNext]_tunnelVars PROVE StepInv'
    OBVIOUS
<1>1. ASSUME NEW a \in Actors, TunnelStep(a) PROVE StepInv'
  <2>1. Follows(todo'[a], todo[a]) /\ todo' = [todo EXCEPT ![a] = todo'[a]]
        BY <1>1, StepFollows
  <2> QED BY <2>1 DEF StepInv, Follows, Actors
<1>2. ASSUME NEW e \in Endpoints, StartConnect(e) PROVE StepInv'
  <2>1. Begins("main", e, ConnectScript)
        BY <1>2 DEF StartConnect
  <2> QED BY <2>1, BeginsFollows DEF Actors
<1>3. CASE StartDisconnect
  <2>1. Begins("main", NoEndpoint, TeardownScript)
        BY <1>3 DEF StartDisconnect
  <2>2. TeardownScript # ConnectScript
        BY DEF TeardownScript, ConnectScript
  <2> QED BY <2>1, <2>2, BeginsFollows DEF Actors
<1>4. ASSUME NEW a \in Actors, StartForce(a) PROVE StepInv'
  <2>1. Begins(a, NoEndpoint, TeardownScript)
        BY <1>4 DEF StartForce
  <2>2. TeardownScript # ConnectScript
        BY DEF TeardownScript, ConnectScript
  <2> QED BY <2>1, <2>2, BeginsFollows
<1>5. ASSUME UNCHANGED todo PROVE StepInv'
      BY <1>5 DEF StepInv
<1>6. CASE TunnelCrash
  <2>1. todo' = [a \in Actors |-> <<>>]
        BY <1>6 DEF TunnelCrash
  <2> QED BY <2>1 DEF StepInv, Actors, Ordered, Harmless
<1> QED BY <1>1, <1>2, <1>3, <1>4, <1>5, <1>6
        DEF TunnelNext, Roam, TunnelAges, PeersCleared, tunnelVars

\* A command of the sleep/wake goroutine, or one of the main goroutine that
\* does not make an interface, leaves the interface or removes it.
LEMMA CommandOnDevice ==
  ASSUME StepInv, NEW a \in Actors, NEW failed \in BOOLEAN, Command(a, failed),
         a = "sleeper" \/ Head(todo[a]) \notin {"create", "configure", "raise"}
  PROVE  UNCHANGED <<dev, ep>> \/ NoDevice
<1>1. Effect(a, failed) /\ todo[a] # <<>>
      BY Zenon DEF Command, Effect, Does, Idle
<1>2. Head(todo[a]) \notin {"create", "configure", "raise"}
      BY <1>1, HarmlessHead DEF StepInv, MainOnly
<1> QED BY <1>1, <1>2, OtherEffects

\* Types.
LEMMA TunnelTypeInit == TunnelInit => TunnelTypeOK
<1> SUFFICES ASSUME TunnelInit PROVE TunnelTypeOK
    OBVIOUS
<1>1. job \in [Actors -> [target : Endpoints \cup {NoEndpoint},
                        old : Endpoints \cup {NoEndpoint}, clean : BOOLEAN, missed : SUBSET Unsaid]]
      BY Zenon DEF TunnelInit, NoTask
<1>2. linkDns \in BOOLEAN /\ demoted \in BOOLEAN
      BY Zenon DEF TunnelInit
<1>3. /\ dev \in Devs /\ ep \in Endpoints \cup {NoEndpoint} /\ split \subseteq Split
      /\ pins \in [Endpoints -> Gateways \cup {NoGateway}] /\ gw \in Gateways \cup {NoGateway}
      BY DEF TunnelInit, Devs
<1> QED BY <1>1, <1>2, <1>3 DEF TunnelTypeOK

\* What one command does to the machine keeps to its type, failed or not.
LEMMA EffectTypes ==
  ASSUME TunnelTypeOK, NEW a \in Actors, NEW failed \in BOOLEAN, Effect(a, failed)
  PROVE  /\ dev' \in Devs /\ ep' \in Endpoints \cup {NoEndpoint} /\ split' \subseteq Split
         /\ linkDns' \in BOOLEAN /\ demoted' \in BOOLEAN
         /\ pins' \in [Endpoints -> Gateways \cup {NoGateway}] /\ gw' \in Gateways \cup {NoGateway}
<1> USE DEF TunnelTypeOK, Devs, Split, KeepDevice, KeepNet, NoDevice, machineVars
<1>1. CASE Delete(failed)
      BY <1>1 DEF Delete
<1>2. CASE Create(failed) \/ Configure(job[a].target, failed) \/ RaiseLink(failed)
      BY <1>2 DEF Create, Configure, RaiseLink
<1>3. CASE RevertDns(failed)
      BY <1>3 DEF RevertDns
<1>4. CASE DropPin(job[a].old, failed) \/ DropPin(job[a].target, failed)
      BY <1>4 DEF DropPin
<1>5. CASE AddSplit(failed) \/ DropSplit
      BY <1>5 DEF AddSplit, DropSplit
<1>6. CASE Verify(failed) \/ UNCHANGED machineVars
      BY <1>6 DEF Verify
<1> QED BY <1>1, <1>2, <1>3, <1>4, <1>5, <1>6 DEF Effect

\* So do the resolvers and the host route, arranged or not.
LEMMA ArrangesTypes ==
  ASSUME TunnelTypeOK, NEW a \in Actors, Arranges(a)
  PROVE  TunnelTypeOK'
<1>1. PICK missed \in SUBSET Unsaid :
        /\ SetDns(missed) \/ Pin(job[a].target, missed)
        /\ job' = [job EXCEPT ![a].missed = IF job[a].clean THEN @ \cup missed ELSE @]
      BY DEF Arranges
<1>2. job' \in [Actors -> [target : Endpoints \cup {NoEndpoint},
                         old : Endpoints \cup {NoEndpoint}, clean : BOOLEAN, missed : SUBSET Unsaid]]
      BY <1>1 DEF TunnelTypeOK
<1>3. CASE SetDns(missed)
      BY <1>2, <1>3 DEF SetDns, TunnelTypeOK, machineVars
<1>4. CASE Pin(job[a].target, missed)
      BY <1>2, <1>4 DEF Pin, TunnelTypeOK, KeepDevice
<1> QED BY <1>1, <1>3, <1>4

\* So does every step of the actors.
LEMMA TunnelTypeNext == TunnelTypeOK /\ [TunnelNext]_tunnelVars => TunnelTypeOK'
<1> SUFFICES ASSUME TunnelTypeOK, [TunnelNext]_tunnelVars PROVE TunnelTypeOK'
    OBVIOUS
<1> USE DEF machineVars
<1>1. ASSUME NEW a \in Actors, NEW failed \in BOOLEAN, Command(a, failed) PROVE TunnelTypeOK'
  <2>1. job' \in [Actors -> [target : Endpoints \cup {NoEndpoint},
                           old : Endpoints \cup {NoEndpoint}, clean : BOOLEAN, missed : SUBSET Unsaid]]
    <3> DEFINE c == Head(todo[a])
               good == job[a].clean /\ (failed => c \in Early \cup Late)
               missed == IF failed THEN {} ELSE job[a].missed
    <3>1. good \in BOOLEAN /\ missed \in SUBSET Unsaid
          BY DEF TunnelTypeOK
    <3>2. job' = [job EXCEPT ![a].clean = good, ![a].missed = missed]
          BY <1>1, Zenon DEF Command
    <3> HIDE DEF good, missed
    <3> QED BY <3>1, <3>2 DEF TunnelTypeOK
  <2>2. Effect(a, failed)
        BY <1>1 DEF Command
  <2> QED BY <2>1, <2>2, EffectTypes DEF TunnelTypeOK
<1>2. ASSUME NEW a \in Actors, Existing(a) \/ Capture(a) \/ Returns(a) PROVE TunnelTypeOK'
  <2>1. job' \in [Actors -> [target : Endpoints \cup {NoEndpoint},
                           old : Endpoints \cup {NoEndpoint}, clean : BOOLEAN, missed : SUBSET Unsaid]]
    <3>1. CASE Existing(a)
          BY <3>1 DEF Existing, TunnelTypeOK
    <3>2. CASE Capture(a)
      <4> DEFINE old == IF HasPeer THEN ep ELSE NoEndpoint
                 good == job[a].clean /\ HasPeer
      <4>1. old \in Endpoints \cup {NoEndpoint} /\ good \in BOOLEAN
            BY DEF TunnelTypeOK
      <4>2. job' = [job EXCEPT ![a].old = old, ![a].clean = good]
            BY <3>2, Zenon DEF Capture
      <4> HIDE DEF old, good
      <4> QED BY <4>1, <4>2 DEF TunnelTypeOK
    <3>3. CASE Returns(a)
          BY <3>3 DEF Returns, TunnelTypeOK, NoTask
    <3> QED BY <1>2, <3>1, <3>2, <3>3
  <2>2. UNCHANGED machineVars
        BY <1>2 DEF Existing, Capture, Returns
  <2> QED BY <2>1, <2>2 DEF TunnelTypeOK
<1>3. ASSUME NEW a \in Actors, NEW e \in Endpoints \cup {NoEndpoint}, NEW script, Begins(a, e, script)
      PROVE  TunnelTypeOK'
  <2>1. job' \in [Actors -> [target : Endpoints \cup {NoEndpoint},
                           old : Endpoints \cup {NoEndpoint}, clean : BOOLEAN, missed : SUBSET Unsaid]]
        BY <1>3 DEF Begins, TunnelTypeOK, Idle, Actors, NoTask, Disturbed
  <2> QED BY <1>3, <2>1 DEF Begins, TunnelTypeOK
<1>4. ASSUME NEW g \in Gateways \cup {NoGateway}, Roam(g) PROVE TunnelTypeOK'
  <2>1. job' \in [Actors -> [target : Endpoints \cup {NoEndpoint},
                           old : Endpoints \cup {NoEndpoint}, clean : BOOLEAN, missed : SUBSET Unsaid]]
        BY <1>4 DEF Roam, Disturbs, Disturbed, TunnelTypeOK
  <2> QED BY <1>4, <2>1 DEF Roam, KeepDevice, TunnelTypeOK
<1>5. CASE TunnelAges \/ PeersCleared
  <2>1. dev' \in Devs /\ UNCHANGED <<ep, split, linkDns, demoted, pins, gw>>
        BY <1>5 DEF TunnelAges, PeersCleared, KeepNet, Devs
  <2>2. job' \in [Actors -> [target : Endpoints \cup {NoEndpoint},
                           old : Endpoints \cup {NoEndpoint}, clean : BOOLEAN, missed : SUBSET Unsaid]]
    <3>1. Disturbs
          BY <1>5, Zenon DEF TunnelAges, PeersCleared
    <3> QED BY <3>1 DEF Disturbs, Disturbed, TunnelTypeOK
  <2> QED BY <2>1, <2>2 DEF TunnelTypeOK
<1>6. CASE TunnelCrash
      BY <1>6, Zenon DEF TunnelCrash, TunnelTypeOK, NoTask
<1>7. CASE UNCHANGED tunnelVars
      BY <1>7 DEF tunnelVars, TunnelTypeOK
<1> QED BY <1>1, <1>2, <1>3, <1>4, <1>5, <1>6, <1>7, ArrangesTypes
        DEF TunnelNext, TunnelStep, StartConnect, StartDisconnect, StartForce, Actors

\* The main goroutine's own commands: an interface is new when it is configured,
\* and configured when it is raised.
LEMMA MainOnDevice ==
  ASSUME TunnelTypeOK, StepInv, DeviceInv, NEW failed \in BOOLEAN, Command("main", failed)
  PROVE  DeviceInv'
<1> DEFINE s == todo["main"]
           n == todo'["main"]
<1>1. /\ s # <<>> /\ Follows(n, s) /\ Effect("main", failed)
      /\ job'["main"].target = job["main"].target
  <2>1. TunnelStep("main") /\ Effect("main", failed)
        BY DEF TunnelStep, Command
  <2>2. job'["main"].target = job["main"].target
        BY DEF Command, TunnelTypeOK, Actors
  <2> QED BY <2>1, <2>2, StepFollows DEF Actors
<1>2. ASSUME Does("main", "configure")' PROVE dev' = "bare"
  <2>1. n # <<>> /\ Head(n) = "configure" /\ Head(s) = "create"
        BY <1>1, <1>2 DEF Does, Idle, Follows
  <2>2. ~failed
    <3>1. SUFFICES ASSUME failed PROVE FALSE
          OBVIOUS
    <3>2. n = EarlyFailure
          BY <2>1, <3>1 DEF Command, Early, Actors, StepInv
    <3> QED BY <2>1, <3>2 DEF EarlyFailure
  <2>3. Create(failed)
        BY <1>1, <2>1 DEF Effect, Does
  <2> QED BY <2>2, <2>3 DEF Create
<1>3. ASSUME Does("main", "raise")' PROVE dev' = "peered" /\ ep' \in Endpoints
  <2>1. n # <<>> /\ Head(n) = "raise" /\ Head(s) = "configure"
        BY <1>1, <1>3 DEF Does, Idle, Follows
  <2>2. ~failed
    <3>1. SUFFICES ASSUME failed PROVE FALSE
          OBVIOUS
    <3>2. n = EarlyFailure
          BY <2>1, <3>1 DEF Command, Early, Actors, StepInv
    <3> QED BY <2>1, <3>2 DEF EarlyFailure
  <2>3. Configure(job["main"].target, failed)
        BY <1>1, <2>1 DEF Effect, Does
  <2>4. Configures(s) /\ dev \in {"none", "bare"}
    <3>1. Len(s) >= 1 /\ s[1] = "configure"
          BY <1>1, <2>1 DEF StepInv, Actors
    <3> QED BY <1>1, <2>1, <3>1 DEF Configures, DeviceInv, Does, Idle
  <2> QED BY <2>2, <2>3, <2>4 DEF Configure, DeviceInv
<1>4. Configures(n) => job'["main"].target \in Endpoints
      BY <1>1 DEF Follows, DeviceInv
<1> QED BY <1>2, <1>3, <1>4 DEF DeviceInv

\* Every step keeps what the interface is when Connect gets to it.
LEMMA DeviceInvNext ==
  TunnelTypeOK /\ StepInv /\ DeviceInv /\ [TunnelNext]_tunnelVars => DeviceInv'
<1> SUFFICES ASSUME TunnelTypeOK, StepInv, DeviceInv, [TunnelNext]_tunnelVars PROVE DeviceInv'
    OBVIOUS
<1>1. ASSUME NEW failed \in BOOLEAN, Command("main", failed) PROVE DeviceInv'
      BY <1>1, MainOnDevice
<1>2. ASSUME NEW failed \in BOOLEAN, Command("sleeper", failed) PROVE DeviceInv'
  <2>1. UNCHANGED <<dev, ep>> \/ NoDevice
        BY <1>2, CommandOnDevice DEF Actors
  <2>2. todo'["main"] = todo["main"] /\ job'["main"] = job["main"]
        BY <1>2 DEF Command, TunnelTypeOK, StepInv, Actors
  <2> QED BY <2>1, <2>2 DEF DeviceInv, Does, Idle, NoDevice
<1>3. ASSUME NEW a \in Actors, Existing(a) \/ Capture(a) \/ Arranges(a) \/ Returns(a)
      PROVE  DeviceInv'
  <2>1. /\ UNCHANGED <<dev, ep>> /\ todo[a] # <<>> /\ Head(todo[a]) \notin {"create", "configure"}
        /\ job'["main"].target = job["main"].target \/ (a = "main" /\ todo'[a] = <<>>)
    <3>1. CASE Existing(a)
          BY <3>1 DEF Existing, Does, Idle, machineVars, TunnelTypeOK, Actors
    <3>2. CASE Capture(a)
      <4>1. job'["main"].target = job["main"].target
        <5> DEFINE old == IF HasPeer THEN ep ELSE NoEndpoint
                   good == job[a].clean /\ HasPeer
        <5>1. job' = [job EXCEPT ![a].old = old, ![a].clean = good]
              BY <3>2, Zenon DEF Capture
        <5> HIDE DEF old, good
        <5> QED BY <5>1 DEF TunnelTypeOK, Actors
      <4> QED BY <3>2, <4>1 DEF Capture, Does, Idle, machineVars
    <3>3. CASE Arranges(a)
      <4>1. UNCHANGED <<dev, ep>>
            BY <3>3, ArrangesOnDevice
      <4>2. todo[a] # <<>> /\ Head(todo[a]) \in {"dns", "pin"}
            BY <3>3, Zenon DEF Arranges, Does, Idle
      <4>3. job'["main"].target = job["main"].target
            BY <3>3 DEF Arranges, TunnelTypeOK, Actors
      <4> QED BY <4>1, <4>2, <4>3
    <3>4. CASE Returns(a)
      <4>1. /\ job'["main"].target = job["main"].target \/ (a = "main" /\ todo'[a] = <<>>)
            BY <3>4 DEF Returns, TunnelTypeOK, StepInv, Actors
      <4> QED BY <3>4, <4>1 DEF Returns, Does, Idle, machineVars
    <3> QED BY <1>3, <3>1, <3>2, <3>3, <3>4
  <2>2. Follows(todo'[a], todo[a]) /\ todo' = [todo EXCEPT ![a] = todo'[a]]
        BY <1>3, StepFollows DEF TunnelStep
  <2>3. CASE a = "main"
    <3>1. Configures(todo'[a]) => job'["main"].target = job["main"].target
          BY <2>1 DEF Configures
    <3> QED BY <2>1, <2>2, <2>3, <3>1 DEF DeviceInv, Follows, Does, Idle
  <2>4. CASE a = "sleeper"
    <3>1. todo'["main"] = todo["main"]
          BY <2>2, <2>4 DEF StepInv, Actors
    <3> QED BY <2>1, <2>4, <3>1 DEF DeviceInv, Does, Idle
  <2> QED BY <2>3, <2>4 DEF Actors
<1>4. ASSUME NEW e \in Endpoints, StartConnect(e) PROVE DeviceInv'
  <2>1. todo'["main"] = ConnectScript /\ job'["main"].target = e
        BY <1>4 DEF StartConnect, Begins, NoTask, StepInv, Actors
  <2>2. ConnectScript # <<>> /\ Head(ConnectScript) = "existing"
        BY DEF ConnectScript
  <2> QED BY <2>1, <2>2 DEF DeviceInv, Does, Idle
<1>5. ASSUME Begins("main", NoEndpoint, TeardownScript) PROVE DeviceInv'
  <2>1. todo'["main"] = TeardownScript
        BY <1>5 DEF Begins, StepInv, Actors
  <2>2. TeardownScript # <<>> /\ Head(TeardownScript) = "capture" /\ ~Configures(TeardownScript)
        BY DEF TeardownScript, Configures
  <2> QED BY <2>1, <2>2 DEF DeviceInv, Does, Idle
<1>6. ASSUME Begins("sleeper", NoEndpoint, TeardownScript) PROVE DeviceInv'
  <2>1. /\ todo'["main"] = todo["main"] /\ job'["main"].target = job["main"].target
        /\ UNCHANGED <<dev, ep>>
        BY <1>6 DEF Begins, StepInv, TunnelTypeOK, Actors, machineVars, Disturbed
  <2> QED BY <2>1 DEF DeviceInv, Does, Idle
<1>7. ASSUME NEW g \in Gateways \cup {NoGateway}, Roam(g) \/ TunnelAges \/ PeersCleared
      PROVE  DeviceInv'
  <2>1. /\ UNCHANGED todo /\ job'["main"].target = job["main"].target
        /\ UNCHANGED <<dev, ep>> \/ dev \in {"up", "stale"}
        BY <1>7 DEF Roam, TunnelAges, PeersCleared, Disturbs, Disturbed, KeepDevice, TunnelTypeOK, Actors
  <2> QED BY <2>1 DEF DeviceInv, Does, Idle
<1>8. CASE TunnelCrash
  <2>1. todo'["main"] = <<>>
        BY <1>8 DEF TunnelCrash, Actors
  <2> QED BY <2>1 DEF DeviceInv, Does, Idle, Configures
<1>9. CASE UNCHANGED tunnelVars
      BY <1>9 DEF tunnelVars, machineVars, DeviceInv, Does, Idle
<1> QED BY <1>1, <1>2, <1>3, <1>4, <1>5, <1>6, <1>7, <1>8, <1>9
        DEF TunnelNext, TunnelStep, StartDisconnect, StartForce, Actors

\* The invariant holds in every behaviour.
LEMMA TunnelInvariant == TunnelInit /\ [][TunnelNext]_tunnelVars => []TunnelInv
<1>1. TunnelInit => TunnelInv
  <2> SUFFICES ASSUME TunnelInit PROVE TunnelInv
      OBVIOUS
  <2>1. todo = [a \in Actors |-> <<>>]
        BY DEF TunnelInit
  <2>2. StepInv /\ DeviceInv
        BY <2>1 DEF StepInv, DeviceInv, Does, Idle, Actors, Ordered, Harmless, Configures
  <2> QED BY <2>2, TunnelTypeInit DEF TunnelInv
<1>2. TunnelInv /\ [TunnelNext]_tunnelVars => TunnelInv'
      BY TunnelTypeNext, StepInvNext, DeviceInvNext DEF TunnelInv
<1> QED BY <1>1, <1>2, PTL

\* The state of the machine is what the module says, whatever fails or crashes.
THEOREM TunnelTypeCorrect == TunnelInit /\ [][TunnelNext]_tunnelVars => []TunnelTypeOK
<1>1. TunnelInv => TunnelTypeOK
      BY DEF TunnelInv
<1> QED BY <1>1, TunnelInvariant, PTL

\* The commands and everything around them, crashes included, are to the
\* daemon's model its atomic steps (property RefinesHost).
LEMMA StepRefines ==
  ASSUME TunnelInv, [TunnelNext]_tunnelVars
  PROVE  [\/ \E e \in Endpoints : ~LinkUp /\ AsHost!ConnectUp(e)
          \/ AsHost!HandshakeAges \/ AsHost!LinkRemoved
          \/ dev' = "cleared" /\ UNCHANGED ep]_(AsHost!hostVars)
<1> USE DEF AsHost!hostVars, LinkUp
<1>1. ASSUME UNCHANGED <<dev, ep>> PROVE UNCHANGED AsHost!hostVars
      BY <1>1
<1>2. ASSUME NoDevice PROVE AsHost!LinkRemoved \/ UNCHANGED AsHost!hostVars
      BY <1>2 DEF NoDevice, AsHost!LinkRemoved, AsHost!InterfaceExists, AsHost!ForceDisconnect, AsHost!NoTunnel
<1>3. ASSUME NEW failed \in BOOLEAN, Command("main", failed), Head(todo["main"]) = "create"
      PROVE  UNCHANGED AsHost!hostVars
  <2>1. Create(failed)
        BY <1>3 DEF Command, Effect, Does
  <2> QED BY <2>1 DEF Create, KeepDevice
<1>4. ASSUME NEW failed \in BOOLEAN, Command("main", failed), Head(todo["main"]) = "configure"
      PROVE  UNCHANGED AsHost!hostVars
  <2>1. Configure(job["main"].target, failed) /\ Does("main", "configure")
        BY <1>4 DEF Command, Effect, Does
  <2> QED BY <2>1 DEF Configure, KeepDevice, TunnelInv, DeviceInv
<1>5. ASSUME NEW failed \in BOOLEAN, Command("main", failed), Head(todo["main"]) = "raise"
      PROVE  \/ UNCHANGED AsHost!hostVars
             \/ \E e \in Endpoints : ~LinkUp /\ AsHost!ConnectUp(e)
  <2>1. RaiseLink(failed) /\ Does("main", "raise")
        BY <1>5 DEF Command, Effect, Does
  <2>2. CASE UNCHANGED <<dev, ep>>
        BY <1>1, <2>2
  <2>3. CASE dev = "peered" /\ dev' = "up" /\ ep' = ep /\ ep \in Endpoints
    <3>1. ~LinkUp /\ AsHost!ConnectUp(ep)
          BY <2>3 DEF AsHost!ConnectUp, AsHost!ClearTheWay, AsHost!IsConnected,
                      AsHost!KsAfterRebuild
    <3> QED BY <2>3, <3>1
  <2> QED BY <2>1, <2>2, <2>3 DEF RaiseLink, KeepDevice, TunnelInv, DeviceInv
<1>6. ASSUME NEW a \in Actors, NEW failed \in BOOLEAN, Command(a, failed)
      PROVE  \/ UNCHANGED AsHost!hostVars \/ AsHost!LinkRemoved
             \/ \E e \in Endpoints : ~LinkUp /\ AsHost!ConnectUp(e)
  <2>1. CASE a = "main" /\ Head(todo[a]) \in {"create", "configure", "raise"}
        BY <1>6, <2>1, <1>3, <1>4, <1>5
  <2>2. CASE a = "sleeper" \/ Head(todo[a]) \notin {"create", "configure", "raise"}
    <3>1. UNCHANGED <<dev, ep>> \/ NoDevice
          BY <1>6, <2>2, CommandOnDevice DEF TunnelInv
    <3> QED BY <3>1, <1>1, <1>2
  <2> QED BY <2>1, <2>2 DEF Actors
<1>7. CASE TunnelAges
      BY <1>7 DEF TunnelAges, AsHost!HandshakeAges
<1>8. CASE PeersCleared
      BY <1>8 DEF PeersCleared
<1>9. ASSUME NEW a \in Actors, Existing(a) \/ Capture(a) \/ Arranges(a) \/ Returns(a)
      PROVE  UNCHANGED <<dev, ep>>
      BY <1>9, ArrangesOnDevice DEF Existing, Capture, Returns, machineVars
<1>10. ASSUME NEW a, NEW e, NEW script, Begins(a, e, script) PROVE UNCHANGED <<dev, ep>>
      BY <1>10 DEF Begins, machineVars
<1>11. ASSUME NEW g, Roam(g) PROVE UNCHANGED <<dev, ep>>
      BY <1>11 DEF Roam, KeepDevice
<1>12. CASE TunnelCrash \/ UNCHANGED tunnelVars
      BY <1>12, <1>1 DEF TunnelCrash, machineVars, tunnelVars
<1> QED BY <1>1, <1>6, <1>7, <1>8, <1>9, <1>10, <1>11, <1>12
        DEF TunnelNext, TunnelStep, StartConnect, StartDisconnect, StartForce

\* Connect and Disconnect, command by command, are steps of Host or change
\* nothing that Host shows (property RefinesHost).
THEOREM TunnelRefinesHost == TunnelInit /\ [][TunnelNext]_tunnelVars => RefinesHost
<1>1. TunnelInv /\ [TunnelNext]_tunnelVars =>
        [\/ \E e \in Endpoints : ~LinkUp /\ AsHost!ConnectUp(e)
         \/ AsHost!HandshakeAges \/ AsHost!LinkRemoved
         \/ dev' = "cleared" /\ UNCHANGED ep]_(AsHost!hostVars)
      BY StepRefines
<1> QED BY <1>1, TunnelInvariant, PTL DEF RefinesHost

-----------------------------------------------------------------------------
(* What a goroutine that nothing disturbs has done when it gets to a       *)
(* command.  The scripts share commands: what comes after one, or two,     *)
(* tells which of them it belongs to, and so what came before.             *)

Then(s, i) == IF i \in 1 .. Len(s) THEN s[i] ELSE "nothing"

\* b may come right before c when n comes right after.
Before(b, c, n) ==
  /\ b = "existing" => c = "delete"
  /\ c = "dns" => b = "raise"
  /\ c = "pin" => b = "dns"
  /\ c = "split" => b = "pin"
  /\ c = "verify" => b = "split"
  /\ c = "connected" => b = "verify"
  /\ c = "dropSplit" => n \in {"revertDns", "dropOld"}
  /\ c = "dropSplit" /\ n = "revertDns" => b = "dropTarget"
  /\ c = "revertDns" /\ n = "delete" => b = "dropSplit"
  /\ c = "delete" /\ n = "failed" => b = "revertDns"
  /\ c = "failed" => b = "delete"
  /\ c = "dropSplit" /\ n = "dropOld" => b = "revertDns"
  /\ c = "dropOld" => b = "dropSplit"
  /\ c = "delete" /\ n = "down" => b = "dropOld"
  /\ c = "down" => b = "delete"

Linked(s) == \A i \in 2 .. Len(s) : Before(s[i - 1], s[i], Then(s, i + 1))

Here(a) == Then(todo[a], 1)
Thereafter(a) == Then(todo[a], 2)

\* The peer is this Connect's, then the resolvers, then the host route, but for
\* what it missed.
Connecting(a) ==
  LET target == job[a].target
      missed == job[a].missed IN
  /\ Here(a) \in {"raise", "dns", "pin", "split", "verify", "connected"} =>
       ep = target /\ target \in Endpoints
  /\ Here(a) \in {"pin", "split", "verify", "connected"} =>
       /\ linkDns \/ "resolver" \in missed
       /\ gw # NoGateway => demoted \/ "demotion" \in missed
  /\ Here(a) \in {"split", "verify", "connected"} /\ gw # NoGateway =>
       /\ pins[target] = gw \/ "pin" \in missed
       /\ pins[target] \in {gw, NoGateway} \/ "unpin" \in missed
  /\ Here(a) = "connected" => dev = "up" /\ split = Split

\* A failed Connect drops its host route, its resolvers, its interface.
Unpinned(a) == \/ Here(a) = "dropSplit" /\ Thereafter(a) = "revertDns"
               \/ Here(a) = "revertDns" /\ Thereafter(a) = "delete"
               \/ Here(a) = "delete" /\ Thereafter(a) = "failed"
               \/ Here(a) = "failed"
CleaningUp(a) ==
  LET target == job[a].target IN
  /\ Unpinned(a) /\ target # NoEndpoint => pins[target] = NoGateway
  /\ (Here(a) = "delete" /\ Thereafter(a) = "failed") \/ Here(a) = "failed" =>
       (gw # NoGateway => ~demoted)
  /\ Here(a) = "failed" => dev = "none" /\ split = {}

\* A disconnect goes about it the other way round.
Reverted(a) == \/ Here(a) = "dropSplit" /\ Thereafter(a) = "dropOld"
               \/ Here(a) = "dropOld"
               \/ Here(a) = "delete" /\ Thereafter(a) = "down"
               \/ Here(a) = "down"
TearingDown(a) ==
  LET old == job[a].old IN
  /\ Reverted(a) => (gw # NoGateway => ~demoted)
  /\ (Here(a) = "delete" /\ Thereafter(a) = "down") \/ Here(a) = "down" =>
       (old # NoEndpoint => pins[old] = NoGateway)
  /\ Here(a) = "down" => dev = "none" /\ split = {}

Undisturbed(a) == ~Idle(a) /\ job[a].clean

AloneInv == \A a \in Actors : Undisturbed(a) => \A b \in Actors \ {a} : Idle(b)

ProgressInv ==
  /\ \A a \in Actors : Linked(todo[a])
  /\ AloneInv
  /\ \A a \in Actors : Undisturbed(a) => Connecting(a) /\ CleaningUp(a) /\ TearingDown(a)

\* The scripts are linked so.
LEMMA ScriptsLinked ==
  \A s \in {ConnectScript, TeardownScript, EarlyFailure, LateFailure} : Linked(s)
<1>1. Linked(ConnectScript)
      BY DEF ConnectScript, Linked, Before, Then
<1>2. Linked(TeardownScript)
      BY DEF TeardownScript, Linked, Before, Then
<1>3. Linked(EarlyFailure)
      BY DEF EarlyFailure, Linked, Before, Then
<1>4. Linked(LateFailure)
      BY DEF LateFailure, Linked, Before, Then
<1> QED BY <1>1, <1>2, <1>3, <1>4

\* What is left after one command is what came after it, and linked.
LEMMA TailLinked ==
  ASSUME NEW s \in Seq(Commands), s # <<>>, Linked(s)
  PROVE  /\ Linked(Tail(s))
         /\ Then(s, 1) = Head(s) /\ Head(s) \in Commands
         /\ Then(Tail(s), 1) = Then(s, 2) /\ Then(Tail(s), 2) = Then(s, 3)
         /\ Tail(s) # <<>> => Before(Then(s, 1), Then(s, 2), Then(s, 3)) /\ Then(s, 2) = s[2]
<1>1. /\ Tail(s) \in Seq(Commands) /\ Len(Tail(s)) = Len(s) - 1 /\ Len(s) \in Nat /\ Len(s) >= 1
      /\ \A i \in 1 .. Len(Tail(s)) : Tail(s)[i] = s[i + 1]
      /\ Head(s) = s[1] /\ s[1] \in Commands
      OBVIOUS
<1>2. \A i \in Nat \ {0} : Then(Tail(s), i) = Then(s, i + 1)
      BY <1>1 DEF Then
<1>3. Linked(Tail(s))
  <2> SUFFICES ASSUME NEW i \in 2 .. Len(Tail(s))
               PROVE  Before(Tail(s)[i - 1], Tail(s)[i], Then(Tail(s), i + 1))
      BY DEF Linked
  <2>1. /\ i + 1 \in 2 .. Len(s) /\ Tail(s)[i - 1] = s[i] /\ Tail(s)[i] = s[i + 1]
        /\ Then(Tail(s), i + 1) = Then(s, i + 2) /\ (i + 1) - 1 = i /\ (i + 1) + 1 = i + 2
        BY <1>1, <1>2
  <2>2. Before(s[(i + 1) - 1], s[i + 1], Then(s, (i + 1) + 1))
        BY <2>1 DEF Linked
  <2> QED BY <2>1, <2>2
<1>4. ASSUME Tail(s) # <<>>
      PROVE  Before(Then(s, 1), Then(s, 2), Then(s, 3)) /\ Then(s, 2) = s[2]
  <2>1. 2 \in 2 .. Len(s) /\ Then(s, 1) = s[1] /\ Then(s, 2) = s[2]
        BY <1>1, <1>4 DEF Then
  <2>2. Before(s[2 - 1], s[2], Then(s, 2 + 1))
        BY <2>1 DEF Linked
  <2> QED BY <2>1, <2>2
<1>5. Then(s, 1) = Head(s) /\ Head(s) \in Commands
      BY <1>1 DEF Then
<1>6. Then(Tail(s), 1) = Then(s, 2) /\ Then(Tail(s), 2) = Then(s, 3)
      BY <1>2
<1> QED BY <1>3, <1>4, <1>5, <1>6

\* So is a teardown before the rest of a Connect.
LEMMA TeardownLinked ==
  ASSUME NEW s \in Seq(Commands), s # <<>>, Linked(s), Head(s) = "existing"
  PROVE  /\ Linked(TeardownScript \o Tail(s))
         /\ Then(TeardownScript \o Tail(s), 1) = "capture"
<1> DEFINE t == Tail(s)
           r == TeardownScript \o t
<1>1. t \in Seq(Commands) /\ Linked(t) /\ Len(t) \in Nat
      BY TailLinked
<1>2. t # <<>> => Then(t, 1) = "delete" /\ Then(t, 2) \notin {"failed", "down"}
      BY TailLinked DEF Before
<1>3. /\ TeardownScript \in Seq(Commands) /\ Len(TeardownScript) = 6
      /\ TeardownScript[1] = "capture" /\ TeardownScript[2] = "revertDns"
      /\ TeardownScript[3] = "dropSplit" /\ TeardownScript[4] = "dropOld"
      /\ TeardownScript[5] = "delete" /\ TeardownScript[6] = "down"
      BY ScriptsOrdered DEF TeardownScript
<1>4. /\ Len(r) = 6 + Len(t)
      /\ \A i \in 1 .. Len(r) : r[i] = IF i <= 6 THEN TeardownScript[i] ELSE t[i - 6]
  <2>1. /\ r \in Seq(Commands) /\ Len(r) = Len(TeardownScript) + Len(t)
        /\ \A i \in 1 .. Len(TeardownScript) + Len(t) :
             r[i] = IF i <= Len(TeardownScript) THEN TeardownScript[i] ELSE t[i - Len(TeardownScript)]
    <3> HIDE DEF t
    <3> QED BY <1>1, <1>3, ConcatProperties, Zenon
  <2> HIDE DEF r, t
  <2> QED BY <1>1, <1>3, <2>1
<1> HIDE DEF r, t
<1>5. Linked(r)
  <2> SUFFICES ASSUME NEW i \in 2 .. Len(r) PROVE Before(r[i - 1], r[i], Then(r, i + 1))
      BY DEF Linked
  <2>1. CASE i <= 5
    <3>1. /\ r[1] = "capture" /\ r[2] = "revertDns" /\ r[3] = "dropSplit" /\ r[4] = "dropOld"
          /\ r[5] = "delete" /\ r[6] = "down" /\ Len(r) >= 6
          BY <1>1, <1>3, <1>4
    <3>2. Then(r, i + 1) = r[i + 1]
          BY <2>1, <3>1 DEF Then
    <3>3. CASE i = 2 \/ i = 3
          BY <3>1, <3>2, <3>3 DEF Before
    <3>4. CASE i = 4 \/ i = 5
          BY <3>1, <3>2, <3>4 DEF Before
    <3> QED BY <2>1, <3>3, <3>4
  <2>2. CASE i = 6
    <3>1. r[5] = "delete" /\ r[6] = "down"
          BY <1>1, <1>3, <1>4
    <3> QED BY <2>2, <3>1 DEF Before
  <2>3. CASE i = 7
    <3>1. t # <<>> /\ r[6] = "down" /\ r[7] = t[1] /\ Then(t, 1) = t[1]
          BY <1>1, <1>3, <1>4, <2>3 DEF Then
    <3>2. Then(r, 8) = Then(t, 2)
          BY <1>1, <1>4 DEF Then
    <3> QED BY <1>2, <2>3, <3>1, <3>2 DEF Before
  <2>4. CASE i >= 8
    <3>1. i - 6 \in 2 .. Len(t) /\ r[i] = t[i - 6] /\ r[i - 1] = t[(i - 6) - 1]
          BY <1>1, <1>4, <2>4
    <3>2. Then(r, i + 1) = Then(t, (i - 6) + 1)
          BY <1>1, <1>4, <2>4 DEF Then
    <3>3. Before(t[(i - 6) - 1], t[i - 6], Then(t, (i - 6) + 1))
          BY <1>1, <3>1 DEF Linked
    <3> QED BY <3>1, <3>2, <3>3
  <2> QED BY <1>1, <1>4, <2>1, <2>2, <2>3, <2>4
<1>6. Then(r, 1) = "capture"
      BY <1>1, <1>3, <1>4 DEF Then
<1> QED BY <1>5, <1>6 DEF r, t

\* A command that succeeds, undisturbed, leads to the next with what that one
\* may rely on.
LEMMA SuccessProgress ==
  ASSUME TunnelInv, ProgressInv, NEW a \in Actors, Command(a, FALSE), Undisturbed(a),
         todo'[a] = Tail(todo[a]), todo'[a] # <<>>,
         job'[a].target = job[a].target, job'[a].old = job[a].old,
         job'[a].missed = job[a].missed
  PROVE  Connecting(a)' /\ CleaningUp(a)' /\ TearingDown(a)'
<1> DEFINE h == Here(a)
           h1 == Here(a)'
           h2 == Thereafter(a)'
           target == job[a].target
           old == job[a].old
<1>1. /\ h = Head(todo[a]) /\ todo[a] # <<>> /\ Before(h, h1, h2)
      /\ h1 = "raise" => h = "configure"
  <2>1. todo[a] \in Seq(Commands) /\ todo[a] # <<>> /\ Linked(todo[a]) /\ Ordered(todo[a])
        BY DEF TunnelInv, StepInv, ProgressInv, Undisturbed, Idle
  <2>2. /\ h = Head(todo[a]) /\ Before(h, h1, h2)
        /\ h1 = Then(todo[a], 2) /\ Then(todo[a], 2) = todo[a][2]
        BY <2>1, TailLinked DEF Here, Thereafter
  <2>3. Head(Tail(todo[a])) = todo[a][2]
        BY <2>1
  <2> QED BY <2>1, <2>2, <2>3, TailOrdered
<1>2. Connecting(a) /\ CleaningUp(a) /\ TearingDown(a) /\ Effect(a, FALSE)
      BY DEF ProgressInv, Command
<1>3. /\ target \in Endpoints \cup {NoEndpoint} /\ old \in Endpoints \cup {NoEndpoint}
      /\ pins \in [Endpoints -> Gateways \cup {NoGateway}]
      BY DEF TunnelInv, TunnelTypeOK
<1>4. Connecting(a)'
  <2>1. CASE h1 = "raise"
    <3>1. Configure(target, FALSE) /\ h = "configure"
          BY <1>1, <1>2, <2>1 DEF Effect, Does
    <3>2. target \in Endpoints
      <4>1. Len(todo[a]) >= 1 /\ todo[a][1] = "configure"
            BY <1>1, <3>1 DEF TunnelInv, StepInv
      <4>2. a = "main"
            BY <4>1 DEF TunnelInv, StepInv, Harmless, MainOnly, Actors
      <4> QED BY <4>1, <4>2 DEF TunnelInv, DeviceInv, Configures
    <3> QED BY <2>1, <3>1, <3>2 DEF Connecting, Configure
  <2>2. CASE h1 = "dns"
    <3>1. RaiseLink(FALSE) /\ h = "raise"
          BY <1>1, <1>2, <2>2 DEF Effect, Does, Before
    <3> QED BY <2>2, <3>1, <1>2 DEF Connecting, RaiseLink
  <2>3. h1 \notin {"pin", "split"}
    <3>1. h \notin {"dns", "pin"}
          BY <1>1, <1>2, Zenon DEF Effect, Does
    <3> QED BY <1>1, <3>1 DEF Before
  <2>4. CASE h1 = "verify"
    <3>1. AddSplit(FALSE) /\ h = "split"
          BY <1>1, <1>2, <2>4 DEF Effect, Does, Before
    <3> QED BY <2>4, <3>1, <1>2 DEF Connecting, AddSplit, KeepNet
  <2>5. CASE h1 = "connected"
    <3>1. Verify(FALSE) /\ h = "verify"
          BY <1>1, <1>2, <2>5 DEF Effect, Does, Before
    <3> QED BY <2>5, <3>1, <1>2 DEF Connecting, Verify, machineVars
  <2> QED BY <2>1, <2>2, <2>3, <2>4, <2>5 DEF Connecting
<1>5. CleaningUp(a)'
  <2>1. CASE h1 = "dropSplit" /\ h2 = "revertDns"
    <3>1. DropPin(target, FALSE)
          BY <1>1, <1>2, <2>1 DEF Effect, Does, Before
    <3> QED BY <2>1, <3>1, <1>3 DEF CleaningUp, Unpinned, DropPin
  <2>2. CASE h1 = "revertDns" /\ h2 = "delete"
    <3>1. DropSplit /\ h = "dropSplit"
          BY <1>1, <1>2, <2>2 DEF Effect, Does, Before
    <3>2. Thereafter(a) = "revertDns"
          BY <2>2, TailLinked DEF TunnelInv, StepInv, ProgressInv, Undisturbed, Idle, Here, Thereafter
    <3> QED BY <2>2, <3>1, <3>2, <1>2 DEF CleaningUp, Unpinned, DropSplit, KeepNet
  <2>3. CASE h1 = "delete" /\ h2 = "failed"
    <3>1. RevertDns(FALSE) /\ h = "revertDns"
          BY <1>1, <1>2, <2>3 DEF Effect, Does, Before
    <3>2. Thereafter(a) = "delete"
          BY <2>3, TailLinked DEF TunnelInv, StepInv, ProgressInv, Undisturbed, Idle, Here, Thereafter
    <3> QED BY <2>3, <3>1, <3>2, <1>2 DEF CleaningUp, Unpinned, RevertDns
  <2>4. CASE h1 = "failed"
    <3>1. Delete(FALSE) /\ h = "delete"
          BY <1>1, <1>2, <2>4 DEF Effect, Does, Before
    <3>2. Thereafter(a) = "failed"
          BY <2>4, TailLinked DEF TunnelInv, StepInv, ProgressInv, Undisturbed, Idle, Here, Thereafter
    <3> QED BY <2>4, <3>1, <3>2, <1>2 DEF CleaningUp, Unpinned, Delete, NoDevice, KeepNet
  <2> QED BY <2>1, <2>2, <2>3, <2>4 DEF CleaningUp, Unpinned
<1>6. TearingDown(a)'
  <2>1. CASE h1 = "dropSplit" /\ h2 = "dropOld"
    <3>1. RevertDns(FALSE)
          BY <1>1, <1>2, <2>1 DEF Effect, Does, Before
    <3> QED BY <2>1, <3>1 DEF TearingDown, RevertDns
  <2>2. CASE h1 = "dropOld"
    <3>1. DropSplit /\ h = "dropSplit"
          BY <1>1, <1>2, <2>2 DEF Effect, Does, Before
    <3>2. Thereafter(a) = "dropOld"
          BY <2>2, TailLinked DEF TunnelInv, StepInv, ProgressInv, Undisturbed, Idle, Here, Thereafter
    <3> QED BY <2>2, <3>1, <3>2, <1>2 DEF TearingDown, Reverted, DropSplit, KeepNet
  <2>3. CASE h1 = "delete" /\ h2 = "down"
    <3>1. DropPin(old, FALSE) /\ h = "dropOld"
          BY <1>1, <1>2, <2>3 DEF Effect, Does, Before
    <3> QED BY <2>3, <3>1, <1>2, <1>3 DEF TearingDown, Reverted, DropPin
  <2>4. CASE h1 = "down"
    <3>1. Delete(FALSE) /\ h = "delete"
          BY <1>1, <1>2, <2>4 DEF Effect, Does, Before
    <3>2. Thereafter(a) = "down"
          BY <2>4, TailLinked DEF TunnelInv, StepInv, ProgressInv, Undisturbed, Idle, Here, Thereafter
    <3> QED BY <2>4, <3>1, <3>2, <1>2 DEF TearingDown, Reverted, Delete, NoDevice, KeepNet
  <2> QED BY <2>1, <2>2, <2>3, <2>4 DEF TearingDown, Reverted
<1> QED BY <1>4, <1>5, <1>6

\* At the beginning of a script, or after its end, nothing is claimed.
LEMMA NothingClaimed ==
  ASSUME NEW a \in Actors,
         \/ Here(a) \in {"capture", "existing", "dropTarget", "nothing"}
         \/ Here(a) = "delete" /\ Thereafter(a) \notin {"failed", "down"}
  PROVE  Connecting(a) /\ CleaningUp(a) /\ TearingDown(a)
BY DEF Connecting, CleaningUp, TearingDown, Unpinned, Reverted

\* The first commands of the scripts.
LEMMA ScriptsBegin ==
  /\ Then(ConnectScript, 1) = "existing" /\ Then(TeardownScript, 1) = "capture"
  /\ Then(LateFailure, 1) = "dropTarget"
  /\ Then(EarlyFailure, 1) = "delete" /\ Then(EarlyFailure, 2) = "refused"
BY DEF Then, ConnectScript, TeardownScript, LateFailure, EarlyFailure

\* A command, whether it fails or not.
LEMMA CommandProgress ==
  ASSUME TunnelInv, ProgressInv, NEW a \in Actors, NEW failed \in BOOLEAN, Command(a, failed),
         Undisturbed(a)'
  PROVE  Undisturbed(a) /\ Connecting(a)' /\ CleaningUp(a)' /\ TearingDown(a)'
<1>1. Effect(a, failed) /\ ~Idle(a)
      BY Zenon DEF Command, Effect, Does
<1>2. /\ job'[a].target = job[a].target /\ job'[a].old = job[a].old
      /\ job'[a].clean => job[a].clean /\ (failed => Head(todo[a]) \in Early \cup Late)
      BY DEF Command, TunnelInv, TunnelTypeOK
<1>3. Undisturbed(a) /\ (failed => Head(todo[a]) \in Early \cup Late)
      BY <1>1, <1>2 DEF Undisturbed
<1>4. CASE failed
  <2>1. todo'[a] \in {EarlyFailure, LateFailure}
        BY <1>3, <1>4 DEF Command, TunnelInv, StepInv
  <2>2. \/ Here(a)' = "dropTarget"
        \/ Here(a)' = "delete" /\ Thereafter(a)' \notin {"failed", "down"}
        BY <2>1, ScriptsBegin DEF Here, Thereafter
  <2> QED BY <2>2, <1>3 DEF Connecting, CleaningUp, TearingDown, Unpinned, Reverted
<1>5. CASE ~failed
  <2>1. failed = FALSE
        BY <1>5
  <2>2. Command(a, FALSE)
        BY <2>1
  <2>3. todo'[a] = Tail(todo[a]) /\ todo'[a] # <<>>
        BY <2>2 DEF Command, TunnelInv, StepInv, Undisturbed, Idle
  <2>4. job'[a].missed = job[a].missed
    <3> DEFINE good == job[a].clean /\ (FALSE => Head(todo[a]) \in Early \cup Late)
               missed == IF FALSE THEN {} ELSE job[a].missed
    <3>1. job' = [job EXCEPT ![a].clean = good, ![a].missed = missed]
          BY <2>2, Zenon DEF Command
    <3>2. missed = job[a].missed
          OBVIOUS
    <3> HIDE DEF good, missed
    <3> QED BY <3>1, <3>2 DEF TunnelInv, TunnelTypeOK
  <2> QED BY <1>2, <1>3, <2>2, <2>3, <2>4, SuccessProgress
<1> QED BY <1>4, <1>5

\* Resolvers and host route.
LEMMA ArrangesProgress ==
  ASSUME TunnelInv, ProgressInv, NEW a \in Actors, Arranges(a), Undisturbed(a)'
  PROVE  Undisturbed(a) /\ Connecting(a)' /\ CleaningUp(a)' /\ TearingDown(a)'
<1> DEFINE target == job[a].target
<1>1. PICK missed \in SUBSET Unsaid :
        /\ \/ Does(a, "dns") /\ SetDns(missed)
           \/ Does(a, "pin") /\ Pin(target, missed)
        /\ todo' = [todo EXCEPT ![a] = Tail(@)]
        /\ job' = [job EXCEPT ![a].missed = IF job[a].clean THEN @ \cup missed ELSE @]
      BY DEF Arranges
<1>2. /\ Undisturbed(a) /\ job'[a].target = target
      /\ job'[a].missed = job[a].missed \cup missed
      BY <1>1 DEF Undisturbed, Does, TunnelInv, TunnelTypeOK
<1>3. /\ Here(a) = Head(todo[a]) /\ Here(a) \in {"dns", "pin"}
      /\ Before(Here(a), Here(a)', Thereafter(a)')
      /\ Here(a)' # "raise"
  <2>1. todo[a] \in Seq(Commands) /\ todo[a] # <<>> /\ Linked(todo[a]) /\ Ordered(todo[a])
        BY <1>2 DEF TunnelInv, StepInv, ProgressInv, Undisturbed, Idle
  <2>2. todo'[a] = Tail(todo[a]) /\ todo'[a] # <<>>
        BY <1>1 DEF TunnelInv, StepInv, Undisturbed, Idle
  <2>3. Here(a) = Head(todo[a]) /\ Here(a) \in {"dns", "pin"}
        BY <1>1, <2>1, TailLinked DEF Here, Does
  <2>4. /\ Before(Here(a), Here(a)', Thereafter(a)')
        /\ Here(a)' = Head(Tail(todo[a]))
        BY <2>1, <2>2, TailLinked DEF Here, Thereafter
  <2> QED BY <2>1, <2>2, <2>3, <2>4, TailOrdered
<1>4. Connecting(a) /\ pins \in [Endpoints -> Gateways \cup {NoGateway}]
      BY <1>2 DEF ProgressInv, TunnelInv, TunnelTypeOK
<1>5. Connecting(a)'
  <2>1. CASE Here(a)' = "pin"
    <3>1. Here(a) = "dns" /\ SetDns(missed)
          BY <1>1, <1>3, <2>1 DEF Before, Does
    <3> QED BY <1>2, <1>4, <2>1, <3>1 DEF Connecting, SetDns, machineVars
  <2>2. CASE Here(a)' = "split"
    <3>1. Here(a) = "pin" /\ Pin(target, missed)
          BY <1>1, <1>3, <2>2 DEF Before, Does
    <3>2. target \in Endpoints /\ ep = target
          BY <1>4, <3>1 DEF Connecting
    <3>3. gw # NoGateway => /\ pins'[target] = gw \/ "pin" \in missed
                            /\ pins'[target] \in {gw, NoGateway} \/ "unpin" \in missed
          BY <1>4, <3>1, <3>2 DEF Pin
    <3> QED BY <1>2, <1>4, <2>2, <3>1, <3>2, <3>3 DEF Connecting, Pin, KeepDevice
  <2>3. CASE Here(a)' \notin {"pin", "split"}
    <3>1. Here(a)' \notin {"raise", "dns", "verify", "connected"}
          BY <1>3 DEF Before
    <3> QED BY <2>3, <3>1 DEF Connecting
  <2> QED BY <2>1, <2>2, <2>3
<1>6. /\ Here(a)' \notin {"failed", "down", "dropOld", "dropSplit"}
      /\ Here(a)' = "delete" => Thereafter(a)' \notin {"failed", "down"}
      /\ Here(a)' = "revertDns" => Thereafter(a)' # "delete"
      BY <1>3 DEF Before
<1> QED BY <1>2, <1>5, <1>6 DEF CleaningUp, TearingDown, Unpinned, Reverted

\* The beginning of a Connect that goes on, and the end of an operation.
LEMMA OtherProgress ==
  ASSUME TunnelInv, ProgressInv, NEW a \in Actors, Existing(a) \/ Capture(a) \/ Returns(a),
         Undisturbed(a)'
  PROVE  Undisturbed(a) /\ Connecting(a)' /\ CleaningUp(a)' /\ TearingDown(a)'
<1>1. todo[a] \in Seq(Commands) /\ todo[a] # <<>> /\ Linked(todo[a])
      BY DEF TunnelInv, StepInv, ProgressInv, Existing, Capture, Returns, Does, Idle
<1>2. CASE Existing(a)
  <2>1. job[a].clean /\ ~Idle(a)
        BY <1>1, <1>2 DEF Existing, Undisturbed, TunnelInv, TunnelTypeOK, Idle
  <2>2. \/ todo'[a] = TeardownScript \o Tail(todo[a])
        \/ todo'[a] = <<>> \o Tail(todo[a])
        BY <1>2 DEF Existing, TunnelInv, StepInv
  <2>3. Head(todo[a]) = "existing"
        BY <1>2 DEF Existing, Does
  <2>4. CASE todo'[a] = TeardownScript \o Tail(todo[a])
        BY <1>1, <2>1, <2>3, <2>4, TeardownLinked, NothingClaimed
           DEF Undisturbed, Here, Connecting, CleaningUp, TearingDown, Unpinned, Reverted
  <2>5. CASE todo'[a] = <<>> \o Tail(todo[a])
    <3>1. Tail(todo[a]) \in Seq(Commands)
          BY <1>1
    <3>2. todo'[a] = Tail(todo[a])
          BY <2>5, <3>1, ConcatEmptySeq, Zenon
    <3>3. /\ Tail(todo[a]) # <<>>
          /\ Here(a)' = "delete" /\ Thereafter(a)' \notin {"failed", "down"}
          BY <1>1, <2>3, <3>2, TailLinked DEF Here, Thereafter, Before, Undisturbed, Idle
    <3> QED BY <2>1, <3>3 DEF Undisturbed, Connecting, CleaningUp, TearingDown, Unpinned, Reverted
  <2> QED BY <2>2, <2>4, <2>5
<1>3. ASSUME Capture(a) \/ Returns(a)
      PROVE  /\ Before(Here(a), Here(a)', Thereafter(a)')
             /\ Here(a) \in {"capture", "connected", "down", "refused", "failed"}
             /\ Undisturbed(a)
  <2>1. todo'[a] = Tail(todo[a])
        BY <1>3 DEF Capture, Returns, TunnelInv, StepInv
  <2>2. job[a].clean
    <3>1. CASE Capture(a)
      <4> DEFINE old == IF HasPeer THEN ep ELSE NoEndpoint
                 good == job[a].clean /\ HasPeer
      <4>1. job' = [job EXCEPT ![a].old = old, ![a].clean = good]
            BY <3>1, Zenon DEF Capture
      <4>2. good
        <5> HIDE DEF old, good
        <5> QED BY <4>1 DEF TunnelInv, TunnelTypeOK, Undisturbed
      <4> QED BY <4>2
    <3>2. CASE Returns(a)
          BY <2>1, <3>2 DEF Returns, Undisturbed, TunnelInv, TunnelTypeOK, Idle
    <3> QED BY <1>3, <3>1, <3>2
  <2>3. Before(Here(a), Here(a)', Thereafter(a)') /\ Here(a) = Head(todo[a])
        BY <1>1, <2>1, TailLinked DEF Here, Thereafter, Undisturbed, Idle
  <2>4. Head(todo[a]) \in {"capture", "connected", "down", "refused", "failed"}
        BY <1>3 DEF Capture, Returns, Does
  <2> QED BY <1>1, <2>2, <2>3, <2>4 DEF Undisturbed, Idle
<1>4. CASE Capture(a) \/ Returns(a)
  <2>1. \/ Here(a)' \notin {"raise", "dns", "pin", "split", "verify", "connected", "dropSplit",
                            "dropOld", "delete", "failed", "down", "revertDns"}
        \/ Here(a)' = "delete" /\ Thereafter(a)' \notin {"failed", "down"}
        \/ Here(a)' = "revertDns" /\ Thereafter(a)' # "delete"
        \/ Here(a)' = "raise"
        BY <1>3, <1>4 DEF Before
  <2>2. Here(a)' # "raise"
    <3>1. todo'[a] = Tail(todo[a])
          BY <1>4 DEF Capture, Returns, TunnelInv, StepInv
    <3>2. /\ todo'[a] # <<>> /\ Here(a)' = Head(Tail(todo[a]))
          /\ Here(a) = Head(todo[a]) /\ Ordered(todo[a])
          BY <1>1, <3>1, TailLinked DEF Undisturbed, Idle, Here, TunnelInv, StepInv
    <3> QED BY <1>1, <1>3, <1>4, <3>1, <3>2, TailOrdered
  <2> QED BY <1>3, <1>4, <2>1, <2>2 DEF Connecting, CleaningUp, TearingDown, Unpinned, Reverted
<1> QED BY <1>2, <1>4

\* The order of commands, seen more closely, is kept by a step.
LEMMA LinkedStep ==
  ASSUME StepInv, NEW a \in Actors, TunnelStep(a), Linked(todo[a])
  PROVE  Linked(todo'[a])
<1>1. todo[a] \in Seq(Commands) /\ todo[a] # <<>> /\ todo \in [Actors -> Seq(Commands)]
      BY StepFollows DEF StepInv
<1>2. Linked(Tail(todo[a])) /\ Tail(todo[a]) \in Seq(Commands)
      BY <1>1, TailLinked
<1>3. CASE Existing(a)
  <2>1. /\ Head(todo[a]) = "existing"
        /\ \/ todo'[a] = TeardownScript \o Tail(todo[a])
           \/ todo'[a] = <<>> \o Tail(todo[a])
        BY <1>1, <1>3 DEF Existing, Does
  <2>2. <<>> \o Tail(todo[a]) = Tail(todo[a])
        BY <1>2, ConcatEmptySeq, Zenon
  <2> QED BY <1>1, <1>2, <2>1, <2>2, TeardownLinked
<1>4. CASE Capture(a) \/ Arranges(a) \/ Returns(a)
  <2>1. todo' = [todo EXCEPT ![a] = Tail(todo[a])]
        BY <1>4, Zenon DEF Capture, Arranges, Returns
  <2> QED BY <1>1, <1>2, <2>1
<1>5. ASSUME NEW failed \in BOOLEAN, Command(a, failed) PROVE Linked(todo'[a])
  <2>1. \E r \in {EarlyFailure, LateFailure, Tail(todo[a])} : todo' = [todo EXCEPT ![a] = r]
        BY <1>5, Zenon DEF Command
  <2> QED BY <1>1, <1>2, <2>1, ScriptsLinked
<1> QED BY <1>3, <1>4, <1>5 DEF TunnelStep

\* A step of one goroutine.
LEMMA StepProgress ==
  ASSUME TunnelInv, ProgressInv, NEW a \in Actors, TunnelStep(a)
  PROVE  ProgressInv'
<1>1. todo[a] # <<>> /\ todo' = [todo EXCEPT ![a] = todo'[a]] /\ todo \in [Actors -> Seq(Commands)]
      BY StepFollows DEF TunnelInv, StepInv
<1>2. \A b \in Actors \ {a} : todo'[b] = todo[b] /\ job'[b] = job[b]
  <2>1. \A b \in Actors \ {a} : todo'[b] = todo[b]
        BY <1>1
  <2>2. \A b \in Actors \ {a} : job'[b] = job[b]
        BY DEF TunnelStep, Existing, Capture, Arranges, Returns, Command, TunnelInv, TunnelTypeOK
  <2> QED BY <2>1, <2>2
<1>3. Linked(todo'[a])
      BY LinkedStep DEF TunnelInv, ProgressInv
<1>4. ASSUME Undisturbed(a)'
      PROVE  Undisturbed(a) /\ Connecting(a)' /\ CleaningUp(a)' /\ TearingDown(a)'
      BY <1>4, CommandProgress, ArrangesProgress, OtherProgress DEF TunnelStep
<1>5. \A b \in Actors \ {a} : ~Undisturbed(b)'
      BY <1>1, <1>2 DEF ProgressInv, AloneInv, Undisturbed, Idle
<1>6. AloneInv'
      BY <1>2, <1>4, <1>5 DEF ProgressInv, AloneInv, Undisturbed, Idle
<1>7. \A b \in Actors : Linked(todo'[b])
      BY <1>2, <1>3 DEF ProgressInv
<1>8. \A b \in Actors : Undisturbed(b)' => Connecting(b)' /\ CleaningUp(b)' /\ TearingDown(b)'
      BY <1>4, <1>5
<1> QED BY <1>6, <1>7, <1>8 DEF ProgressInv

\* The beginning of an operation.
LEMMA BeginsProgress ==
  ASSUME TunnelInv, ProgressInv, NEW a \in Actors, NEW target,
         NEW script \in {ConnectScript, TeardownScript}, Begins(a, target, script)
  PROVE  ProgressInv'
<1>1. /\ todo \in [Actors -> Seq(Commands)] /\ Idle(a)
      /\ todo' = [todo EXCEPT ![a] = script]
      /\ \A b \in Actors \ {a} : ~job'[b].clean
      /\ job'[a].clean = (\A c \in Actors : Idle(c))
      BY DEF Begins, TunnelInv, StepInv, TunnelTypeOK, NoTask, Disturbed
<1>2. Linked(script) /\ Then(script, 1) \in {"existing", "capture"}
      BY ScriptsLinked, ScriptsBegin
<1>3. \A b \in Actors : Linked(todo'[b])
      BY <1>1, <1>2 DEF ProgressInv
<1>4. AloneInv'
      BY <1>1 DEF AloneInv, Undisturbed, Idle
<1>5. Here(a)' \in {"existing", "capture"}
      BY <1>1, <1>2 DEF Here
<1>6. \A b \in Actors : Undisturbed(b)' => Connecting(b)' /\ CleaningUp(b)' /\ TearingDown(b)'
      BY <1>1, <1>5 DEF Undisturbed, Connecting, CleaningUp, TearingDown, Unpinned, Reverted
<1> QED BY <1>3, <1>4, <1>6 DEF ProgressInv

\* Every step keeps what an undisturbed goroutine may rely on.
LEMMA ProgressInvNext ==
  TunnelInv /\ ProgressInv /\ [TunnelNext]_tunnelVars => ProgressInv'
<1> SUFFICES ASSUME TunnelInv, ProgressInv, [TunnelNext]_tunnelVars PROVE ProgressInv'
    OBVIOUS
<1>1. ASSUME NEW a \in Actors, TunnelStep(a) PROVE ProgressInv'
      BY <1>1, StepProgress
<1>2. ASSUME NEW e \in Endpoints, StartConnect(e) PROVE ProgressInv'
      BY <1>2, BeginsProgress DEF StartConnect, Actors
<1>3. CASE StartDisconnect
      BY <1>3, BeginsProgress DEF StartDisconnect, Actors
<1>4. ASSUME NEW a \in Actors, StartForce(a) PROVE ProgressInv'
      BY <1>4, BeginsProgress DEF StartForce
<1>5. ASSUME Disturbs, UNCHANGED todo PROVE ProgressInv'
      BY <1>5 DEF Disturbs, Disturbed, ProgressInv, AloneInv, Undisturbed, TunnelInv, TunnelTypeOK
<1>6. CASE TunnelCrash
  <2>1. \A a \in Actors : todo'[a] = <<>>
        BY <1>6 DEF TunnelCrash
  <2> QED BY <2>1 DEF ProgressInv, AloneInv, Undisturbed, Idle, Linked
<1>7. CASE UNCHANGED tunnelVars
      BY <1>7 DEF tunnelVars, machineVars, ProgressInv, AloneInv, Undisturbed, Idle, Connecting,
                  CleaningUp, TearingDown, Unpinned, Reverted, Here, Thereafter
<1> QED BY <1>1, <1>2, <1>3, <1>4, <1>5, <1>6, <1>7
        DEF TunnelNext, Roam, TunnelAges, PeersCleared

\* It holds in every behaviour.
LEMMA ProgressInvariant ==
  TunnelInit /\ [][TunnelNext]_tunnelVars => [](TunnelInv /\ ProgressInv)
<1>1. TunnelInit => ProgressInv
  <2> SUFFICES ASSUME TunnelInit PROVE ProgressInv
      OBVIOUS
  <2>1. \A a \in Actors : todo[a] = <<>>
        BY DEF TunnelInit
  <2> QED BY <2>1 DEF ProgressInv, AloneInv, Undisturbed, Idle, Linked
<1>2. TunnelInv /\ ProgressInv /\ [TunnelNext]_tunnelVars => ProgressInv'
      BY ProgressInvNext
<1> QED BY <1>1, <1>2, TunnelInvariant, PTL

\* What a goroutine does now is the first of what it has to do.
LEMMA DoesHere == ASSUME StepInv, NEW a \in Actors, NEW c, Does(a, c) PROVE ~Idle(a) /\ Here(a) = c
<1>1. todo[a] \in Seq(Commands) /\ todo[a] # <<>> /\ Head(todo[a]) = c
      BY DEF StepInv, Does, Idle
<1>2. Len(todo[a]) \in Nat /\ Len(todo[a]) >= 1 /\ todo[a][1] = Head(todo[a])
      BY <1>1
<1> QED BY <1>1, <1>2 DEF Here, Then, Idle

\* A Connect that reports success undisturbed leaves a tunnel that is whole but
\* for what it passed over, whatever was there before (property ConnectRepairs).
THEOREM ConnectIsWhole == TunnelInit /\ [][TunnelNext]_tunnelVars => []ConnectRepairs
<1>1. TunnelInv /\ ProgressInv => ConnectRepairs
  <2> SUFFICES ASSUME TunnelInv, ProgressInv, Does("main", "connected"), job["main"].clean
               PROVE  LET missed == job["main"].missed IN
                      /\ dev = "up" /\ ep = job["main"].target /\ split = Split
                      /\ linkDns \/ "resolver" \in missed
                      /\ gw # NoGateway =>
                           /\ demoted \/ "demotion" \in missed
                           /\ pins[ep] = gw \/ "pin" \in missed
                           /\ pins[ep] \in {gw, NoGateway} \/ "unpin" \in missed
      BY DEF ConnectRepairs
  <2>1. Here("main") = "connected" /\ Connecting("main")
        BY DoesHere DEF TunnelInv, ProgressInv, Undisturbed, Actors
  <2> QED BY <2>1 DEF Connecting
<1> QED BY <1>1, ProgressInvariant, PTL

\* Whoever takes the tunnel down undisturbed restores the machine (property
\* TeardownRestores).
THEOREM TeardownIsClean == TunnelInit /\ [][TunnelNext]_tunnelVars => []TeardownRestores
<1>1. TunnelInv /\ ProgressInv => TeardownRestores
  <2> SUFFICES ASSUME TunnelInv, ProgressInv, NEW a \in Actors,
                      Does(a, "down") \/ Does(a, "failed"), job[a].clean
               PROVE  /\ dev = "none" /\ split = {}
                      /\ gw # NoGateway => ~demoted
                      /\ LET e == IF Does(a, "down") THEN job[a].old ELSE job[a].target IN
                         e # NoEndpoint => pins[e] = NoGateway
      BY DEF TeardownRestores
  <2>1. CASE Does(a, "down")
    <3>1. Here(a) = "down" /\ TearingDown(a)
          BY <2>1, DoesHere DEF TunnelInv, ProgressInv, Undisturbed
    <3> QED BY <2>1, <3>1 DEF TearingDown, Reverted
  <2>2. CASE ~Does(a, "down") /\ Does(a, "failed")
    <3>1. Here(a) = "failed" /\ CleaningUp(a)
          BY <2>2, DoesHere DEF TunnelInv, ProgressInv, Undisturbed
    <3> QED BY <2>2, <3>1 DEF CleaningUp, Unpinned
  <2> QED BY <2>1, <2>2
<1> QED BY <1>1, ProgressInvariant, PTL
=============================================================================
