------------------------------- MODULE Health -------------------------------
(***************************************************************************)
(* The health tracker (internal/daemon/health.go): what the daemon has     *)
(* observed of its tunnel, the pings in a circular buffer, and the score   *)
(* the dashboard shows and the unhealthy state is decided by.              *)
(***************************************************************************)
EXTENDS Integers, Sequences, FiniteSets

CONSTANTS PingWindow,   \* pingWindowSize, 20 in the source
          Latencies,    \* milliseconds a ping that is answered takes
          MaxAge,       \* bound: minutes since the last handshake
          MaxDnsFails   \* bound: DNS failures in a row

ASSUME HealthAssumption ==
  /\ PingWindow \in Nat \ {0} /\ Latencies \subseteq Nat \ {0}
  /\ MaxAge \in Nat /\ MaxDnsFails \in Nat

VARIABLES age,       \* minutes since the handshake, -1 before the first
          dnsFails, pingResults, pingIdx, pingCount

healthVars == <<age, dnsFails, pingResults, pingIdx, pingCount>>

NoHandshake == -1
Lost == 0   \* a ping without an answer, also what an unused slot holds
Pings == Latencies \cup {Lost}
Slots == 0 .. PingWindow - 1

HealthInit ==
  /\ age = NoHandshake /\ dnsFails = 0
  /\ pingResults = [i \in Slots |-> Lost] /\ pingIdx = 0 /\ pingCount = 0

RecordHandshake == age' = 0 /\ UNCHANGED <<dnsFails, pingResults, pingIdx, pingCount>>

HandshakeGrowsOld ==
  /\ age \in 0 .. MaxAge - 1 /\ age' = age + 1
  /\ UNCHANGED <<dnsFails, pingResults, pingIdx, pingCount>>

RecordDNS(ok) ==
  /\ dnsFails' = IF ok THEN 0 ELSE dnsFails + 1
  /\ dnsFails' <= MaxDnsFails
  /\ UNCHANGED <<age, pingResults, pingIdx, pingCount>>

\* Mutants: the index runs on past the buffer; the count stops one short of it.
RecordPingUnwrapped(ping) ==
  /\ pingResults' = [pingResults EXCEPT ![pingIdx] = ping]
  /\ pingIdx' = pingIdx + 1
  /\ pingCount' = IF pingCount < PingWindow THEN pingCount + 1 ELSE pingCount
  /\ UNCHANGED <<age, dnsFails>>

RecordPingShort(ping) ==
  /\ pingResults' = [pingResults EXCEPT ![pingIdx] = ping]
  /\ pingIdx' = (pingIdx + 1) % PingWindow
  /\ pingCount' = IF pingCount < PingWindow - 1 THEN pingCount + 1 ELSE pingCount
  /\ UNCHANGED <<age, dnsFails>>

RecordPing(ping) ==
  /\ pingResults' = [pingResults EXCEPT ![pingIdx] = ping]
  /\ pingIdx' = (pingIdx + 1) % PingWindow
  /\ pingCount' = IF pingCount < PingWindow THEN pingCount + 1 ELSE pingCount
  /\ UNCHANGED <<age, dnsFails>>

\* Each connection starts with nothing known.
ResetTracker ==
  /\ age' = NoHandshake /\ dnsFails' = 0
  /\ pingResults' = [i \in Slots |-> Lost] /\ pingIdx' = 0 /\ pingCount' = 0

HealthNext ==
  \/ RecordHandshake \/ HandshakeGrowsOld \/ ResetTracker
  \/ \E ok \in BOOLEAN : RecordDNS(ok)
  \/ \E ping \in Pings : RecordPing(ping)

-----------------------------------------------------------------------------
(* The scores; int(math.Round(a / b)) of numbers that are not negative. *)

Rounded(a, b) == (2 * a + b) \div (2 * b)

HandshakeScore ==
  CASE age < 3 -> 100 [] age > 7 -> 0 [] OTHER -> Rounded(100 * (7 - age), 4)

DnsScore == IF dnsFails > 3 THEN 0 ELSE 100 - dnsFails * 33

\* The slot written i pings before the last.
SlotBefore(i) == (pingIdx - 1 - i + PingWindow) % PingWindow

\* Mutant: the first answered slot, in the order of the array.
FirstLatency ==
  LET answered == {i \in 0 .. pingCount - 1 : pingResults[i] # Lost} IN
  IF answered = {} THEN 0 ELSE pingResults[CHOOSE i \in answered : \A j \in answered : i <= j]

LastLatencyMs ==
  LET answered == {i \in 0 .. pingCount - 1 : pingResults[SlotBefore(i)] # Lost} IN
  IF answered = {} THEN 0
  ELSE pingResults[SlotBefore(CHOOSE i \in answered : \A j \in answered : i <= j)]

LatencyScore ==
  LET ms == LastLatencyMs IN
  CASE ms <= 100 -> 100
    [] ms \in 101 .. 300 -> Rounded(100 * 200 - 50 * (ms - 100), 200)
    [] ms \in 301 .. 999 -> Rounded(50 * (1000 - ms), 700)
    [] OTHER -> 0

PacketLossScore ==
  LET successes == Cardinality({i \in 0 .. pingCount - 1 : pingResults[i] # Lost}) IN
  IF pingCount = 0 THEN 100 ELSE Rounded(100 * successes, pingCount)

Score == (HandshakeScore + DnsScore + LatencyScore + PacketLossScore) \div 4

Grade ==
  CASE Score >= 90 -> "Excellent" [] Score >= 80 -> "Good" [] Score >= 70 -> "Fair"
    [] Score >= 60 -> "Poor" [] OTHER -> "Bad"

HealthTypeOK ==
  /\ age \in NoHandshake .. MaxAge /\ dnsFails \in 0 .. MaxDnsFails
  /\ pingResults \in [Slots -> Pings] /\ pingIdx \in Slots /\ pingCount \in 0 .. PingWindow
  /\ Score \in 0 .. 100

-----------------------------------------------------------------------------
(* Properties. *)

RecentPings == [i \in 1 .. pingCount |-> pingResults[SlotBefore(pingCount - i)]]

Recent == INSTANCE RecentProbes WITH Window <- PingWindow, Probes <- Pings, recent <- RecentPings

\* The circular buffer is a sliding window: through every wrap-around and every
\* reset it holds the last pings in order, none twice and none too old.
RefinesRecent == Recent!RecentSpec

\* Things getting worse never look better: an unanswered ping, a DNS failure, a
\* handshake growing old never raise the score, however far the buffer has
\* wrapped.  The exception is the code's own: when the last answered ping leaves
\* the window there is no latency, which counts as a perfect one.
WorseNeverLooksBetter ==
  [][(\/ age >= 0 /\ age' > age
      \/ dnsFails' > dnsFails
      \/ age' = age /\ dnsFails' = dnsFails /\ RecordPing(Lost) /\ LastLatencyMs' # 0)
     => Score' <= Score]_healthVars
=============================================================================
