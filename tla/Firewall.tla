------------------------------ MODULE Firewall ------------------------------
(***************************************************************************)
(* The killswitch and the Local Network layer (internal/firewall): every   *)
(* operation as the sequence of ufw commands it runs, each of which may    *)
(* fail, over UFW's ordered, tagged, first-match rules.  The daemon calls  *)
(* it from Connect and Disconnect, the user from dashboard and command     *)
(* line.  IPv4 only; the six private ranges are one rule, the udp and tcp  *)
(* rules of a resolver are one, and UFW's own before.rules are left out.   *)
(***************************************************************************)
EXTENDS Naturals, SequencesExt

CONSTANTS Servers,    \* servers a tunnel can go to
          NoServer,
          Hostnames,  \* those whose configuration names the endpoint by hostname
          Nics,       \* whether a default route may be there when an operation looks
          LanModes,   \* Local Network modes the user picks
          Calls,      \* operations that are called
          Faults,     \* commands and queries that may fail
          MaxFaults,  \* how many do, in one behaviour
          Serial      \* no operation begins while another process runs one

ASSUME FirewallAssumption ==
  /\ NoServer \notin Servers /\ Hostnames \subseteq Servers
  /\ Nics \subseteq BOOLEAN /\ LanModes \subseteq {"allow", "stealth", "block"}
  /\ Faults \subseteq {"add", "delete", "policy", "activate", "release",
                      "show", "status", "verbose"}
  /\ MaxFaults \in Nat /\ Serial \in BOOLEAN

VARIABLES rules,    \* ufw's rules in order, each [match, verb, tag]
          policy,   \* default outgoing policy
          enabled,  \* ufw is active
          marker,   \* the file that records that lazyvpn activated it
          task,     \* per process: the operation it runs and the commands to come
          faults,   \* failures so far
          vpn,      \* the server the tunnel is up to
          last,     \* cfg.LastConnectedServer
          dial      \* the Connect under way

ufwVars == <<rules, policy, enabled, marker>>
linkVars == <<vpn, last, dial>>
vars == <<ufwVars, task, faults, linkVars>>

Processes == {"daemon", "user"}
Tags == {"ks", "lb", "st", "la", "v6"}
TagOf == [allow |-> "la", stealth |-> "st", block |-> "lb"]

-----------------------------------------------------------------------------
(* UFW, as internal/firewall relies on it.                                  *)

\* A rule's match; a resolver or endpoint is that of a server.
Plain(what) == [what |-> what, of |-> NoServer]
For(what, s) == [what |-> what, of |-> s]

Shared == {"loOut", "loIn", "gwOut", "gwIn", "gw32", "dhcpOut", "dhcpAny", "dhcpIn",
           "tunOut", "tunIn", "physOut", "physIn", "lanOut", "lanIn", "v6Out", "v6In"}
Matches == {Plain(w) : w \in Shared}
            \cup {For(w, s) : w \in {"dns", "ep", "epPhys"}, s \in Servers}

\* What a match covers of the traffic the properties are about: "wan" and "lan"
\* leave on the physical interface, a query to the resolver of s leaves on the
\* tunnel for a private address.
Covering(packet) ==
  CASE packet = Plain("wan") -> {Plain("physOut")}
    [] packet = Plain("lan") -> {Plain("physOut"), Plain("lanOut")}
    [] OTHER -> {Plain("tunOut"), Plain("lanOut"), packet}

Hits(packet) == {i \in DOMAIN rules : rules[i].match \in Covering(packet)}

\* First match wins, the default policy when nothing matches.
Accepted(packet) ==
  \/ Hits(packet) = {} /\ policy = "allow"
  \/ \E i \in Hits(packet) :
        rules[i].verb = "allow" /\ \A j \in Hits(packet) : i <= j

Passes(packet) == ~enabled \/ Accepted(packet)

Tagged(tag) == {rules[i] : i \in {j \in DOMAIN rules : rules[j].tag = tag}}
TagsPresent == {rules[i].tag : i \in DOMAIN rules}
At(match) == {i \in DOMAIN rules : rules[i].match = match}

\* Rules are told apart by their match alone: adding one again replaces verb and
\* tag where it stands.
AddRule(m, verb, tag) ==
  IF At(m) = {}
  THEN rules' = Append(rules, [match |-> m, verb |-> verb, tag |-> tag])
  ELSE rules' = [i \in DOMAIN rules |->
                   IF i \in At(m) THEN [match |-> m, verb |-> verb, tag |-> tag]
                                  ELSE rules[i]]

\* A deletion names match and verb.
Named(listed) ==
  {i \in DOMAIN rules : \E r \in listed : r.match = rules[i].match /\ r.verb = rules[i].verb}

\* IsActive: the default is only reported while ufw is active.
KillswitchOn == enabled /\ policy = "deny"

-----------------------------------------------------------------------------
(* Operations as sequences of commands.  A strict command that fails ends   *)
(* the operation through its rollback; the failure of any other is logged.  *)

Command(do, match, verb, tag, strict) ==
  [do |-> do, match |-> match, verb |-> verb, tag |-> tag, strict |-> strict]
Nothing == Plain("none")

Add(m, verb, tag, strict) == Command("add", m, verb, tag, strict)
Policy(verb, strict) == Command("policy", Nothing, verb, "", strict)
Clear(tag) == Command("clear", Nothing, "", tag, FALSE)
Activate(strict) == Command("activate", Nothing, "", "", strict)
Release == Command("release", Nothing, "", "", FALSE)
SavePolicy == Command("savePolicy", Nothing, "", "", FALSE)
StopUnlessDeny == Command("stopUnlessDeny", Nothing, "", "", FALSE)
Sweep == Command("delete", Nothing, "", "", FALSE)
Refuse == Command("refuse", Nothing, "", "", TRUE)
Reassert == Command("reassert", Nothing, "", "", FALSE)

When(cond, commands) == IF cond THEN commands ELSE <<>>

\* Allows first, the reject of the physical interface last.  The two builders
\* differ in what they do about a hostname and about failures.
KsRules(op, strict) ==
  LET K(m, verb) == Add(m, verb, "ks", strict)
      named == op.server # NoServer /\ op.up
      usable == named /\ op.server \notin Hostnames
  IN  <<K(Plain("loOut"), "allow"), K(Plain("loIn"), "allow")>>
   \o When(op.server # NoServer, <<K(For("dns", op.server), "allow")>>)
   \o When(usable, <<K(For("ep", op.server), "allow")>>)
   \o When(named /\ ~usable /\ strict, <<Refuse>>)
   \o When(op.nic,
        When(usable, <<K(For("epPhys", op.server), "allow")>>)
        \o <<K(Plain("gwOut"), "allow"), K(Plain("gwIn"), "allow"),
             K(Plain("dhcpOut"), "allow"), K(Plain("dhcpIn"), "allow")>>)
   \o <<K(Plain("tunOut"), "allow"), K(Plain("tunIn"), "allow")>>
   \o When(op.nic /\ op.up, <<K(Plain("physOut"), "reject")>>)

LanRules(op) ==
  LET L(m, verb) == Add(m, verb, TagOf[op.lan], TRUE)
      shut == When(op.nic, <<L(Plain("physIn"), "deny")>>)
  IN CASE op.lan = "allow" ->
            <<L(Plain("lanOut"), "allow")>> \o When(op.nic, <<L(Plain("lanIn"), "allow")>>)
       [] op.lan = "stealth" ->
            When(op.nic, <<L(Plain("dhcpIn"), "allow")>>)
            \o <<L(Plain("lanOut"), "allow")>> \o shut
       [] op.lan = "block" ->
            <<L(Plain("loOut"), "allow")>>
            \o When(op.nic, <<L(Plain("gw32"), "allow")>>)
            \o <<L(Plain("tunOut"), "allow")>>
            \o When(op.up /\ op.server \notin Hostnames \cup {NoServer},
                    <<L(For("ep", op.server), "allow")>>)
            \o When(op.server # NoServer, <<L(For("dns", op.server), "allow")>>)
            \o <<L(Plain("dhcpAny"), "allow"), L(Plain("lanOut"), "deny")>> \o shut

V6Rules == <<Add(Plain("v6Out"), "deny", "v6", FALSE), Add(Plain("v6In"), "deny", "v6", FALSE)>>

\* enableLocked and EnableSimple.
SealRules(op) ==
  <<SavePolicy, Clear("ks")>>
  \o (IF op.call = "simple"
      THEN <<Add(Plain("loOut"), "allow", "ks", TRUE), Add(Plain("loIn"), "allow", "ks", TRUE)>>
      ELSE KsRules(op, TRUE))
  \o <<Activate(TRUE), Policy("deny", TRUE)>>

\* Mutant: the killswitch before the Local Network layer.
RebuildKsFirst(op) ==
  <<Clear("ks"), Clear("lb"), Clear("st"), Clear("la"), Clear("v6"), Activate(TRUE)>>
  \o When(op.ks, KsRules(op, FALSE)) \o LanRules(op) \o When(op.v6, V6Rules)
  \o <<Policy(IF op.ks THEN "deny" ELSE "allow", TRUE)>>

\* reconcileLocked.
Rebuild(op) ==
  <<Clear("ks"), Clear("lb"), Clear("st"), Clear("la"), Clear("v6"), Activate(TRUE)>>
  \o LanRules(op) \o When(op.v6, V6Rules) \o When(op.ks, KsRules(op, FALSE))
  \o <<Policy(IF op.ks THEN "deny" ELSE "allow", TRUE)>>

\* EnableLANStealth and EnableLANBlock.
LanLayer(op) == <<Clear(TagOf[op.lan]), Activate(TRUE)>> \o LanRules(op)

\* Teardown's last step, and Disable's.
TearAll ==
  <<Policy("allow", FALSE), Clear("ks"), Clear("lb"), Clear("st"), Clear("la"),
    Clear("v6"), Release>>

Script(op) ==
  CASE op.call \in {"enable", "simple"} -> SealRules(op)
    [] op.call = "update" -> <<StopUnlessDeny>> \o SealRules(op)
    [] op.call = "disable" -> <<Clear("ks"), Policy("allow", TRUE), Release, Reassert>>
    [] op.call \in {"stealth", "block"} -> LanLayer(op)
    [] op.call = "reconcile" -> Rebuild(op)
    [] op.call = "blockV6" -> <<Activate(FALSE)>> \o V6Rules \o Rebuild(op)
    [] op.call = "allowV6" -> <<Clear("v6"), Release>> \o Rebuild(op)
    [] op.call = "teardown" -> TearAll

\* Mutants: the default is left open whatever it was; a policy that could not be
\* read is restored as it was read.
RollbackOpens(t) ==
  CASE t.op.call \in {"enable", "simple", "update"} ->
         <<Clear("ks"), Policy("allow", FALSE), Release>>
    [] t.op.call \in {"stealth", "block"} -> <<Clear(TagOf[t.op.lan]), Release>>
    [] OTHER -> <<>>
RollbackUnread(t) ==
  CASE t.op.call \in {"enable", "simple", "update"} ->
         <<Clear("ks"), Policy(t.prev, FALSE), Release>>
    [] t.op.call \in {"stealth", "block"} -> <<Clear(TagOf[t.op.lan]), Release>>
    [] OTHER -> <<>>

\* The deferred rollbacks.  A policy that could not be read is taken for open.
Rollback(t) ==
  CASE t.op.call \in {"enable", "simple", "update"} ->
         <<Clear("ks"), Policy(IF t.prev = "" THEN "allow" ELSE t.prev, FALSE), Release>>
    [] t.op.call \in {"stealth", "block"} -> <<Clear(TagOf[t.op.lan]), Release>>
    [] OTHER -> <<>>

NoOp == [call |-> "none", server |-> NoServer, up |-> FALSE, nic |-> FALSE,
         ks |-> FALSE, lan |-> "allow", v6 |-> FALSE]
Idle == [op |-> NoOp, todo |-> <<>>, prev |-> "", listed |-> {}]

Quiet(p) == task[p] = Idle
AllQuiet == \A p \in Processes : Quiet(p)

\* ufwMu keeps operations of one process apart, and nothing those of two.
Free(p) == IF Serial THEN AllQuiet ELSE Quiet(p)

Start(p, op) ==
  /\ op.call \in Calls
  /\ task' = [task EXCEPT ![p] = [Idle EXCEPT !.op = op, !.todo = Script(op)]]

-----------------------------------------------------------------------------
(* A process runs its next command.                                         *)

Next1(p) == Head(task[p].todo)
Doing(p, do) == task[p].todo # <<>> /\ Next1(p).do = do

Proceed(p, t, rest) ==
  task' = [task EXCEPT ![p] = IF rest = <<>> THEN Idle ELSE [t EXCEPT !.todo = rest]]
Done(p) == Proceed(p, task[p], Tail(task[p].todo))

Fail(kind) == kind \in Faults /\ faults < MaxFaults /\ faults' = faults + 1
Succeed == UNCHANGED faults

\* One listed rule less to delete.
Swept(p, r) ==
  LET left == task[p].listed \ {r} IN
    IF left = {} THEN Proceed(p, [task[p] EXCEPT !.listed = {}], Tail(task[p].todo))
    ELSE task' = [task EXCEPT ![p].listed = left]

AfterFailure(p) ==
  IF Next1(p).strict THEN Proceed(p, task[p], Rollback(task[p])) ELSE Done(p)

\* A command that changes UFW and does not succeed.
WriteFails(p) ==
  /\ task[p].todo # <<>> /\ Fail(Next1(p).do)
  /\ Doing(p, "activate") => ~enabled
  /\ Doing(p, "release") => marker
  /\ IF Doing(p, "delete") THEN \E r \in task[p].listed : Swept(p, r) ELSE AfterFailure(p)
  /\ UNCHANGED <<ufwVars, linkVars>>

DoAdd(p) ==
  /\ Doing(p, "add") /\ Succeed
  /\ AddRule(Next1(p).match, Next1(p).verb, Next1(p).tag)
  /\ Done(p)
  /\ UNCHANGED <<policy, enabled, marker, linkVars>>

\* The listed rules go in order; one that another process removed is skipped.
DoDelete(p) ==
  /\ Doing(p, "delete") /\ Succeed
  /\ LET there == Named(task[p].listed) IN
     \/ \E i \in there : /\ \A j \in there : i <= j
                        /\ rules' = RemoveAt(rules, i)
                        /\ \E r \in task[p].listed :
                              r.match = rules[i].match /\ Swept(p, r)
     \/ there = {} /\ UNCHANGED rules /\ \E r \in task[p].listed : Swept(p, r)
  /\ UNCHANGED <<policy, enabled, marker, linkVars>>

DoPolicy(p) ==
  /\ Doing(p, "policy") /\ Succeed
  /\ policy' = Next1(p).verb
  /\ Done(p)
  /\ UNCHANGED <<rules, enabled, marker, linkVars>>

\* deleteRulesByTag lists the rules once and deletes what it saw.
DoClear(p) ==
  /\ Doing(p, "clear")
  /\ \/ /\ Succeed
        /\ IF Tagged(Next1(p).tag) = {} THEN Done(p)
           ELSE task' = [task EXCEPT ![p].todo = <<Sweep>> \o Tail(@),
                                     ![p].listed = Tagged(Next1(p).tag)]
     \/ Fail("show") /\ Done(p)
  /\ UNCHANGED <<ufwVars, linkVars>>

\* ensureUFWEnabled.  A status that cannot be read counts as inactive, and a
\* marker that cannot be written is forgotten.
DoActivate(p) ==
  /\ Doing(p, "activate")
  /\ enabled' = TRUE
  /\ \/ Succeed /\ marker' = (marker \/ ~enabled)
     \/ Fail("status") /\ marker' = (marker \/ enabled)
  /\ Done(p)
  /\ UNCHANGED <<rules, policy, linkVars>>

\* maybeRestoreUFW, which looks for each tag in turn; a listing that fails
\* counts as none.
DoRelease(p) ==
  /\ Doing(p, "release")
  /\ \/ Succeed /\ marker /\ TagsPresent = {} /\ enabled' = FALSE /\ marker' = FALSE
     \/ Succeed /\ (~marker \/ TagsPresent # {}) /\ UNCHANGED <<enabled, marker>>
     \/ /\ Fail("show") /\ marker /\ \E tag \in Tags : TagsPresent = {tag}
        /\ enabled' = FALSE /\ marker' = FALSE
  /\ Done(p)
  /\ UNCHANGED <<rules, policy, linkVars>>

\* getDefaultOutgoingPolicy.
PolicyRead == IF enabled THEN policy ELSE ""

DoSavePolicy(p) ==
  /\ Doing(p, "savePolicy")
  /\ \/ Succeed /\ Proceed(p, [task[p] EXCEPT !.prev = PolicyRead], Tail(task[p].todo))
     \/ Fail("verbose") /\ Done(p)
  /\ UNCHANGED <<ufwVars, linkVars>>

\* Update leaves a killswitch that is off, or cannot be read, alone.
DoStopUnlessDeny(p) ==
  /\ Doing(p, "stopUnlessDeny")
  /\ \/ Succeed /\ Proceed(p, task[p], IF KillswitchOn THEN Tail(task[p].todo) ELSE <<>>)
     \/ Fail("verbose") /\ Proceed(p, task[p], <<>>)
  /\ UNCHANGED <<ufwVars, linkVars>>

\* enableLocked rejects an endpoint that is not an address.
DoRefuse(p) ==
  /\ Doing(p, "refuse") /\ Succeed
  /\ Proceed(p, task[p], Rollback(task[p]))
  /\ UNCHANGED <<ufwVars, linkVars>>

\* Mutant: Stealth comes back whether it was there or not.
ReassertAlways(p) ==
  /\ Doing(p, "reassert") /\ Succeed
  /\ LET op == [task[p].op EXCEPT !.call = "stealth", !.lan = "stealth"] IN
     IF op.nic
     THEN Proceed(p, [task[p] EXCEPT !.op = op], LanLayer(op))
     ELSE Done(p)
  /\ UNCHANGED <<ufwVars, linkVars>>

\* Disable re-asserts Stealth, whose DHCP rule the killswitch may have owned.
DoReassert(p) ==
  /\ Doing(p, "reassert") /\ Succeed
  /\ LET op == [task[p].op EXCEPT !.call = "stealth", !.lan = "stealth"] IN
     IF "st" \in TagsPresent /\ op.nic
     THEN Proceed(p, [task[p] EXCEPT !.op = op], LanLayer(op))
     ELSE Done(p)
  /\ UNCHANGED <<ufwVars, linkVars>>

Step(p) ==
  \/ WriteFails(p) \/ DoAdd(p) \/ DoDelete(p) \/ DoPolicy(p) \/ DoClear(p)
  \/ DoActivate(p) \/ DoRelease(p) \/ DoSavePolicy(p) \/ DoStopUnlessDeny(p)
  \/ DoRefuse(p) \/ DoReassert(p)

-----------------------------------------------------------------------------
(* The daemon: what Connect and Disconnect ask of the firewall.             *)

NoDial == [stage |-> "none", server |-> NoServer]

\* An operation looks at the default route when it runs.
Op(call, s, up) ==
  {[NoOp EXCEPT !.call = call, !.server = s, !.up = up, !.nic = n] : n \in Nics}

OnlyTask == UNCHANGED <<ufwVars, faults>>

\* Asked for if the killswitch is on, and skipped otherwise.
IfOn(p, ops) ==
  IF KillswitchOn THEN \E op \in ops : Start(p, op) ELSE UNCHANGED task

\* Connect: the firewall is updated for the new endpoint ...
ConnectBegins(s) ==
  /\ Free("daemon") /\ dial = NoDial
  /\ dial' = [stage |-> "prepare", server |-> s]
  /\ IfOn("daemon", Op("update", s, TRUE))
  /\ OnlyTask /\ UNCHANGED <<vpn, last>>

\* ... the old tunnel is taken down, orderly or by force ...
OldTunnelDown ==
  /\ Free("daemon") /\ dial.stage = "prepare" /\ vpn # NoServer
  /\ vpn' = NoServer
  /\ \/ UNCHANGED <<last, task>>
     \/ last' = NoServer /\ UNCHANGED task
     \/ last' = NoServer /\ KillswitchOn /\ \E op \in Op("disable", NoServer, FALSE) : Start("daemon", op)
  /\ OnlyTask /\ UNCHANGED dial

\* ... the new one is brought up and verified ...
TunnelUp ==
  /\ Free("daemon") /\ dial.stage = "prepare" /\ vpn = NoServer
  /\ vpn' = dial.server /\ dial' = [dial EXCEPT !.stage = "verify"]
  /\ OnlyTask /\ UNCHANGED <<task, last>>

\* ... and Block mode, if its rules are there, is laid again for it.
ConnectSucceeds ==
  /\ Free("daemon") /\ dial.stage = "verify"
  /\ dial' = NoDial /\ last' = dial.server
  /\ IF "lb" \in TagsPresent
     THEN \E op \in Op("block", vpn, TRUE) : Start("daemon", [op EXCEPT !.lan = "block"])
     ELSE UNCHANGED task
  /\ OnlyTask /\ UNCHANGED vpn

\* An error before there is an interface leaves the firewall as it is.
ConnectFailsEarly ==
  /\ Free("daemon") /\ dial.stage = "prepare"
  /\ dial' = NoDial
  /\ OnlyTask /\ UNCHANGED <<task, vpn, last>>

\* cleanupFailedConnection.
ConnectFailsLate ==
  /\ Free("daemon") /\ dial.stage = "verify"
  /\ dial' = NoDial /\ vpn' = NoServer
  /\ IfOn("daemon", Op("simple", NoServer, FALSE))
  /\ OnlyTask /\ UNCHANGED last

\* The tunnel is taken down, by the user (last forgotten, the killswitch as the
\* preference says) or by force.
TunnelDown ==
  /\ Free("daemon") /\ dial = NoDial /\ vpn # NoServer
  /\ vpn' = NoServer /\ last' \in {last, NoServer}
  /\ \/ UNCHANGED task
     \/ KillswitchOn /\ \E op \in Op("disable", NoServer, FALSE) : Start("daemon", op)
  /\ OnlyTask /\ UNCHANGED dial

Daemon ==
  \/ \E s \in Servers : ConnectBegins(s)
  \/ OldTunnelDown \/ TunnelUp \/ ConnectSucceeds \/ ConnectFailsEarly
  \/ ConnectFailsLate \/ TunnelDown

-----------------------------------------------------------------------------
(* The user: `lazyvpn killswitch`, the dashboard's toggles, first install,  *)
(* uninstall.                                                               *)

Commanded == Op(IF vpn # NoServer THEN "enable" ELSE "simple", last, vpn # NoServer)
              \cup Op("disable", NoServer, FALSE) \cup {[NoOp EXCEPT !.call = "teardown"]}

\* The dashboard hands over the whole posture it wants.
Toggled ==
  {[call |-> c, server |-> last, up |-> vpn # NoServer, nic |-> n, ks |-> k, lan |-> m,
    v6 |-> v] : c \in {"reconcile", "blockV6", "allowV6"}, n \in Nics, k \in BOOLEAN,
                m \in LanModes, v \in BOOLEAN}

Posture == {op \in Toggled : op.v6 = (op.call = "blockV6")
                               \/ (op.call = "reconcile" /\ "blockV6" \in Calls)}

Installed == IF rules = <<>>
             THEN {[NoOp EXCEPT !.call = "stealth", !.lan = "stealth", !.nic = TRUE]}
             ELSE {}

User ==
  /\ Free("user")
  /\ \E op \in Commanded \cup Posture \cup Installed : Start("user", op)
  /\ OnlyTask /\ UNCHANGED linkVars

-----------------------------------------------------------------------------

Init ==
  /\ rules = <<>> /\ policy = "allow" /\ enabled \in BOOLEAN /\ marker = FALSE
  /\ task = [p \in Processes |-> Idle] /\ faults = 0
  /\ vpn = NoServer /\ last = NoServer /\ dial = NoDial

Next == Daemon \/ User \/ \E p \in Processes : Step(p)

Spec == Init /\ [][Next]_vars
-----------------------------------------------------------------------------
(* Safety. *)

Operations ==
  [call : {"none", "enable", "simple", "update", "disable", "stealth", "block",
           "reconcile", "blockV6", "allowV6", "teardown"},
   server : Servers \cup {NoServer}, up : BOOLEAN, nic : BOOLEAN, ks : BOOLEAN,
   lan : {"allow", "stealth", "block"}, v6 : BOOLEAN]

Commands ==
  [do : {"add"}, match : Matches, verb : {"allow", "deny", "reject"}, tag : Tags,
   strict : BOOLEAN]
  \cup [do : {"policy"}, match : {Nothing}, verb : {"allow", "deny"}, tag : {""},
        strict : BOOLEAN]
  \cup [do : {"clear", "delete", "activate", "release", "savePolicy", "stopUnlessDeny",
              "refuse", "reassert"},
        match : {Nothing}, verb : {""}, tag : Tags \cup {""}, strict : BOOLEAN]

Rules == [match : Matches, verb : {"allow", "deny", "reject"}, tag : Tags]
Targets == Servers \cup {NoServer}

TaskTypeOK ==
  /\ task \in [Processes -> [op : Operations, todo : Seq(Commands),
                            prev : {"", "allow", "deny"}, listed : SUBSET Rules]]

FirewallTypeOK ==
  /\ TaskTypeOK
  /\ rules \in Seq(Rules) /\ policy \in {"allow", "deny"}
  /\ enabled \in BOOLEAN /\ marker \in BOOLEAN /\ faults \in 0 .. MaxFaults
  /\ vpn \in Targets /\ last \in Targets
  /\ dial \in [stage : {"none", "prepare", "verify"}, server : Targets]

\* With the killswitch on nothing leaves on the physical interface for the
\* internet, in the middle of a rebuild or of a rollback as well.
NoClearnet == KillswitchOn => ~Passes(Plain("wan"))

\* Operations that were asked to open the firewall.
Opening ==
  \E p \in Processes :
     \/ task[p].op.call \in {"disable", "teardown"}
     \/ task[p].op.call \in {"reconcile", "blockV6", "allowV6"} /\ ~task[p].op.ks

\* Where ufw was the user's own, an operation that was not asked to open the
\* killswitch does not open it, whichever of its commands fails.
SealKept ==
  [][(KillswitchOn /\ ~marker /\ Passes(Plain("wan"))') => Opening]_vars

\* Outside operations, a Local Network mode that admits the LAN wins over the
\* killswitch's reject, in whatever order the two were changed.
LanSurvives ==
  (AllQuiet /\ KillswitchOn /\ \E i \in At(Plain("lanOut")) : rules[i].verb = "allow")
    => Accepted(Plain("lan"))

\* Outside operations the rules of at most one Local Network mode are there: no
\* operation on the killswitch brings a mode back next to the one chosen since.
OneLanMode == AllQuiet => Cardinality(TagsPresent \cap {"la", "st", "lb"}) <= 1

\* The same without regard to who activated ufw.
SealAlwaysKept ==
  [][(KillswitchOn /\ Passes(Plain("wan"))') => Opening]_vars

\* Block mode keeps the resolver of the tunnel reachable, killswitch or not.
BlockKeepsDns ==
  (AllQuiet /\ vpn # NoServer /\ enabled
     /\ \E i \in At(Plain("lanOut")) : rules[i].verb = "deny")
    => Accepted(For("dns", vpn))
=============================================================================
