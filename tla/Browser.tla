------------------------------ MODULE Browser ------------------------------
(***************************************************************************)
(* The server browser of the terminal interface: My Servers (files and     *)
(* favourites, read at once) and the dynamic list (read by a command).     *)
(* Its keys, and the results of the commands it starts: a loaded list, the *)
(* measured latencies, the quickest server, a request for the password.    *)
(* A result lands on the browser shown when it arrives, also when another  *)
(* one asked for it; only the loads look at the mode.                      *)
(***************************************************************************)
EXTENDS Integers, FiniteSets

CONSTANTS Servers, NoServerItem,
          Bad,            \* rows whose configuration file does not parse
          MaxResults      \* bound: results of commands on their way

ASSUME BrowserAssumption ==
  Bad \subseteq Servers /\ NoServerItem \notin Servers /\ MaxResults \in Nat

VARIABLES
  mode,        \* "closed", "mine" or "dynamic"
  phase,       \* what takes the keys: see Phases
  rows,        \* the rows loaded
  filtered,    \* the rows that pass the search and the filters
  timed,       \* rows with a known latency
  stars,       \* Config.Favorites of the interface
  pending,     \* the server the confirmation is about
  shown,       \* the server the line under the list asks about
  measuring,   \* measuringPing
  connecting,  \* a connect was asked for: the guard against a second Enter
  asked,       \* how many connects this browser has asked for
  results      \* results of commands on their way

browserVars == <<mode, phase, rows, filtered, timed, stars, pending, shown,
                 measuring, connecting, asked, results>>
listVars == <<rows, filtered, timed>>
promptVars == <<pending, shown>>

Items == Servers \cup {NoServerItem}
Phases == {"loading", "failed", "none", "list", "needsAuth", "auth"}
Results == [what : {"load", "latency", "auth"}, server : {NoServerItem}]
             \cup [what : {"quickest"}, server : Servers]

BrowserTypeOK ==
  /\ mode \in {"closed", "mine", "dynamic"} /\ phase \in Phases
  /\ rows \subseteq Servers /\ filtered \subseteq rows /\ timed \subseteq Servers
  /\ stars \subseteq Servers
  /\ {pending, shown} \subseteq Items
  /\ {measuring, connecting} \subseteq BOOLEAN
  /\ asked \in Nat
  /\ results \subseteq Results

BrowserInit ==
  /\ mode = "closed" /\ phase = "none"
  /\ rows = {} /\ filtered = {} /\ timed = {} /\ stars = {}
  /\ pending = NoServerItem /\ shown = NoServerItem
  /\ measuring = FALSE /\ connecting = FALSE /\ asked = 0
  /\ results = {}

Result(what, server) == [what |-> what, server |-> server]

Sends(r) == Cardinality(results) < MaxResults /\ results' = results \cup {r}

-----------------------------------------------------------------------------
(* Opening a browser                                                        *)

FreshBrowser ==
  /\ timed' = {} /\ pending' = NoServerItem /\ shown' = NoServerItem
  /\ measuring' = FALSE /\ connecting' = FALSE /\ asked' = 0
  /\ UNCHANGED stars

\* My Servers: the rows are read before the view appears.
OpenMine(found) ==
  /\ mode' = "mine" /\ phase' = "list"
  /\ rows' = found /\ filtered' = found
  /\ FreshBrowser /\ UNCHANGED results

\* Mutant: the rows shown stay those of the browser before.
OpenDynamicStale ==
  /\ mode' = "dynamic"
  /\ rows' = {} /\ UNCHANGED filtered
  /\ \/ phase' = "loading" /\ Sends(Result("load", NoServerItem))
     \/ phase' = "none" /\ UNCHANGED results
  /\ FreshBrowser

\* The dynamic list is empty until its command returns, or stays empty when
\* no provider is configured.
OpenDynamic ==
  /\ mode' = "dynamic"
  /\ rows' = {} /\ filtered' = {}
  /\ \/ phase' = "loading" /\ Sends(Result("load", NoServerItem))
     \/ phase' = "none" /\ UNCHANGED results
  /\ FreshBrowser

\* The connect progress takes the browser's place.
ShowProgress ==
  /\ asked > 0
  /\ mode' = "closed" /\ asked' = asked - 1
  /\ UNCHANGED <<phase, listVars, stars, promptVars, measuring, connecting, results>>

-----------------------------------------------------------------------------
(* Results of commands                                                      *)

\* Update, BrowserLoadMsg and BrowserLoadMultiMsg: any dynamic browser takes
\* the list, My Servers does not.
TakeLoad(found) ==
  /\ Result("load", NoServerItem) \in results
  /\ results' = results \ {Result("load", NoServerItem)}
  /\ IF mode # "dynamic" THEN UNCHANGED <<phase, listVars>>
     ELSE \/ phase' = "list" /\ rows' = found /\ filtered' = found /\ timed' = {}
          \/ phase' = "failed" /\ UNCHANGED listVars
  /\ UNCHANGED <<mode, stars, promptVars, measuring, connecting, asked>>

\* Latencies by name; the line under the list says that it was sorted, also
\* when it was asking whether to connect.
TakeLatencies(got) ==
  /\ Result("latency", NoServerItem) \in results
  /\ results' = results \ {Result("latency", NoServerItem)}
  /\ IF mode = "closed" THEN UNCHANGED <<timed, shown, measuring>>
     ELSE timed' = timed \cup (got \cap rows) /\ shown' = NoServerItem /\ measuring' = FALSE
  /\ UNCHANGED <<mode, phase, rows, filtered, stars, pending, connecting, asked>>

\* The quickest server becomes the question if the list shown has it.
TakeQuickest(s) ==
  /\ Result("quickest", s) \in results
  /\ results' = results \ {Result("quickest", s)}
  /\ IF mode # "closed" /\ s \in filtered
       THEN pending' = s /\ shown' = s
       ELSE UNCHANGED promptVars
  /\ UNCHANGED <<mode, phase, listVars, stars, measuring, connecting, asked>>

\* Neither way of pinging is permitted.
TakeAuthNeeded ==
  /\ Result("auth", NoServerItem) \in results
  /\ results' = results \ {Result("auth", NoServerItem)}
  /\ IF mode = "closed" THEN UNCHANGED <<phase, shown, measuring>>
     ELSE /\ phase' = IF phase = "auth" THEN phase ELSE "needsAuth"
          /\ shown' = NoServerItem /\ measuring' = FALSE
  /\ UNCHANGED <<mode, listVars, stars, pending, connecting, asked>>

-----------------------------------------------------------------------------
(* Keys                                                                     *)

\* The password was asked for, given or refused; capabilities are set.
AskPassword ==
  /\ mode # "closed" /\ phase = "needsAuth" /\ phase' = "auth"
  /\ UNCHANGED <<mode, listVars, stars, promptVars, measuring, connecting, asked, results>>

PasswordEnds ==
  /\ mode # "closed" /\ phase \in {"needsAuth", "auth"}
  /\ phase' = "list" /\ shown' = NoServerItem
  /\ UNCHANGED <<mode, listVars, stars, pending, measuring, connecting, asked, results>>

TakesKeys == mode # "closed" /\ phase = "list"
AtList == TakesKeys /\ pending = NoServerItem

\* Mutant: the guard against a second Enter is only in the list.
AlwaysAsks == ~(connecting /\ pending = NoServerItem)

\* One connect per browser: Enter twice, or a late answer of a measurement
\* confirmed after Enter, is swallowed.
MayAsk == ~connecting

\* connectCmd: the view is to change to the progress of this connect.
AskConnect == connecting' = TRUE /\ asked' = asked + 1

Confirm ==
  /\ TakesKeys /\ pending # NoServerItem /\ MayAsk
  /\ pending' = NoServerItem /\ shown' = NoServerItem
  /\ AskConnect
  /\ UNCHANGED <<mode, phase, listVars, stars, measuring, results>>

\* Any other key, which is not looked at further.
Decline ==
  /\ TakesKeys /\ pending # NoServerItem
  /\ pending' = NoServerItem /\ shown' = NoServerItem
  /\ UNCHANGED <<mode, phase, listVars, stars, measuring, connecting, asked, results>>

EnterOn(s) ==
  /\ AtList /\ s \in filtered \ Bad /\ MayAsk
  /\ AskConnect
  /\ UNCHANGED <<mode, phase, listVars, stars, promptVars, measuring, results>>

\* The search, a feature filter or the provider filter: any part of the rows.
Refilter(part) ==
  /\ AtList /\ part \subseteq rows
  /\ filtered' = part
  /\ shown' \in {shown, NoServerItem}
  /\ UNCHANGED <<mode, phase, rows, timed, stars, pending, measuring, connecting, asked, results>>

\* "6", or "7" when latencies are known: a question about a valid row.
Propose(s) ==
  /\ AtList /\ s \in filtered \ Bad
  /\ pending' = s /\ shown' = s
  /\ UNCHANGED <<mode, phase, listVars, stars, measuring, connecting, asked, results>>

\* "7" without latencies: they are measured first, on rows copied now, and
\* as often as the key is pressed. Only a row that answered can be quickest;
\* when none does, the result is an empty measurement.
MeasureThenPropose ==
  /\ AtList /\ filtered # {} /\ (filtered \ Bad) \cap timed = {}
  /\ \/ \E s \in filtered \ Bad : Sends(Result("quickest", s))
     \/ Sends(Result("latency", NoServerItem))
     \/ Sends(Result("auth", NoServerItem))
  /\ shown' = NoServerItem
  /\ UNCHANGED <<mode, phase, listVars, stars, pending, measuring, connecting, asked>>

\* "8": one measurement of the rows shown at a time.
Measure ==
  /\ AtList /\ filtered # {} /\ ~measuring
  /\ measuring' = TRUE /\ shown' = NoServerItem
  /\ \/ Sends(Result("latency", NoServerItem))
     \/ Sends(Result("auth", NoServerItem))
  /\ UNCHANGED <<mode, phase, listVars, stars, pending, connecting, asked>>

\* "9": the star is in the configuration, and taken back from it when the
\* configuration cannot be saved.
ToggleFavorite(s) ==
  /\ AtList /\ s \in filtered \ Bad
  /\ stars' \in {stars, IF s \in stars THEN stars \ {s} ELSE stars \cup {s}}
  /\ UNCHANGED <<mode, phase, listVars, promptVars, measuring, connecting, asked, results>>

BrowserNext ==
  \/ \E found \in SUBSET Servers : OpenMine(found) \/ TakeLoad(found \ Bad)
  \/ OpenDynamic \/ ShowProgress
  \/ \E some \in SUBSET Servers : TakeLatencies(some) \/ Refilter(some)
  \/ TakeAuthNeeded \/ AskPassword \/ PasswordEnds
  \/ Confirm \/ Decline \/ MeasureThenPropose \/ Measure
  \/ \E s \in Servers : TakeQuickest(s) \/ EnterOn(s) \/ Propose(s) \/ ToggleFavorite(s)

BrowserSpec == BrowserInit /\ [][BrowserNext]_browserVars

-----------------------------------------------------------------------------
(* Properties                                                               *)

\* A browser asks for one connect at most, whatever answers of measurements
\* arrive between its Enter and the change of view: two would put two
\* progress views, and two clients, on two switches of the daemon.
OneConnectPerBrowser == asked <= 1
=============================================================================
