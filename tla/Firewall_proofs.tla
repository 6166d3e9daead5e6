--------------------------- MODULE Firewall_proofs ---------------------------
(***************************************************************************)
(* Theorems about the firewall, for every set of servers, hostnames, modes *)
(* and calls, every number of failures and any ruleset they can lead to.   *)
(***************************************************************************)
EXTENDS Firewall, FiniteSetTheorems, SequenceTheorems, TLAPS

\* Commands none of which admits traffic on the physical interface, where only the
\* killswitch has a rule, and those that leave the default policy alone.
SafeCommands ==
  {c \in Commands : c.do = "add" /\ c.match = Plain("physOut") => c.verb # "allow" /\ c.tag = "ks"}
RuleCommands == {c \in SafeCommands : c.do # "policy"}
SafeRules == {r \in Rules : r.match = Plain("physOut") => r.verb # "allow" /\ r.tag = "ks"}

\* A rule that is not an allow on the physical interface is a safe command.
LEMMA AddIsSafe ==
  ASSUME NEW m \in Matches, NEW verb \in {"allow", "deny", "reject"},
         NEW tag \in Tags, NEW strict \in BOOLEAN,
         m = Plain("physOut") => verb # "allow" /\ tag = "ks"
  PROVE  Add(m, verb, tag, strict) \in RuleCommands
BY DEF Add, Command, RuleCommands, SafeCommands, Commands

\* So is every other command.
LEMMA OthersAreSafe ==
  /\ \A strict \in BOOLEAN : Activate(strict) \in RuleCommands
  /\ \A tag \in Tags : Clear(tag) \in RuleCommands
  /\ {Release, SavePolicy, StopUnlessDeny, Sweep, Refuse, Reassert} \subseteq RuleCommands
  /\ \A verb \in {"allow", "deny"}, strict \in BOOLEAN : Policy(verb, strict) \in SafeCommands
<1> USE DEF Command, RuleCommands, SafeCommands, Commands
<1>1. \A strict \in BOOLEAN : Activate(strict) \in RuleCommands
      BY DEF Activate
<1>2. \A tag \in Tags : Clear(tag) \in RuleCommands
      BY DEF Clear
<1>3. Release \in RuleCommands /\ SavePolicy \in RuleCommands
      BY DEF Release, SavePolicy
<1>4. StopUnlessDeny \in RuleCommands /\ Sweep \in RuleCommands
      BY DEF StopUnlessDeny, Sweep
<1>5. Refuse \in RuleCommands /\ Reassert \in RuleCommands
      BY DEF Refuse, Reassert
<1>6. \A verb \in {"allow", "deny"}, strict \in BOOLEAN : Policy(verb, strict) \in SafeCommands
      BY DEF Policy
<1> HIDE DEF Command, RuleCommands, SafeCommands, Commands
<1> QED BY <1>1, <1>2, <1>3, <1>4, <1>5, <1>6

\* The matches the builders name.
LEMMA NamedMatches ==
  /\ \A w \in Shared : Plain(w) \in Matches
  /\ \A w \in {"dns", "ep", "epPhys"}, s \in Servers :
        For(w, s) \in Matches /\ For(w, s) # Plain("physOut")
  /\ \A w \in Shared \ {"physOut"} : Plain(w) # Plain("physOut")
<1>1. \A w \in Shared : Plain(w) \in Matches
      BY DEF Matches
<1>2. \A w \in {"dns", "ep", "epPhys"}, s \in Servers : For(w, s) \in Matches
      BY DEF Matches
<1>3. \A w \in {"dns", "ep", "epPhys"}, s \in Servers : For(w, s) # Plain("physOut")
      BY DEF Plain, For
<1>4. \A w \in Shared \ {"physOut"} : Plain(w) # Plain("physOut")
      BY DEF Plain
<1> QED BY <1>1, <1>2, <1>3, <1>4

\* Sequences of one and of two.
LEMMA FewIn ==
  ASSUME NEW S, NEW a \in S, NEW b \in S
  PROVE  <<a>> \in Seq(S) /\ <<a, b>> \in Seq(S)
OBVIOUS

\* A pair is one after the other.
LEMMA PairSplits ==
  ASSUME NEW S, NEW a \in S, NEW b \in S
  PROVE  <<a, b>> = <<a>> \o <<b>>
<1>1. <<a>> \in Seq(S) /\ <<b>> \in Seq(S) /\ <<a, b>> \in Seq(S)
      BY FewIn
<1>2. Len(<<a>>) = 1 /\ Len(<<b>>) = 1 /\ Len(<<a, b>>) = 2
      OBVIOUS
<1>3. <<a>>[1] = a /\ <<b>>[1] = b /\ <<a, b>>[1] = a /\ <<a, b>>[2] = b
      OBVIOUS
<1> DEFINE s == <<a>>
           t == <<b>>
           u == <<a, b>>
<1> HIDE DEF s, t, u
<1>4. s \o t \in Seq(S) /\ Len(s \o t) = 2 /\ (s \o t)[1] = a /\ (s \o t)[2] = b
      BY <1>1, <1>2, <1>3, ConcatProperties DEF s, t
<1>5. u = s \o t
      BY <1>1, <1>2, <1>3, <1>4, SeqEqual DEF u
<1> QED BY <1>5 DEF s, t, u

\* Commands behind a non-empty sequence leave its head.
LEMMA HeadStays ==
  ASSUME NEW S, NEW s \in Seq(S), NEW t \in Seq(S), Len(s) >= 2
  PROVE  (s \o t)[1] = s[1] /\ Len(s \o t) \in Nat /\ Len(s \o t) >= 2
<1>1. Len(s) \in Nat /\ Len(t) \in Nat
      BY LenProperties
<1>2. 1 \in 1 .. Len(s) + Len(t) /\ 1 <= Len(s)
      BY <1>1
<1> QED BY <1>1, <1>2, ConcatProperties

\* Commands that are there on a condition.
LEMMA WhenIn ==
  ASSUME NEW S, NEW c \in BOOLEAN, NEW s, c => s \in Seq(S)
  PROVE  When(c, s) \in Seq(S)
BY EmptySeq DEF When

\* The killswitch's rules are of any kind that its commands are of.
LEMMA KsRulesIn ==
  ASSUME NEW op \in Operations, NEW strict \in BOOLEAN, NEW Kind,
         \A w \in {"loOut", "loIn", "gwOut", "gwIn", "dhcpOut", "dhcpIn", "tunOut", "tunIn"} :
            Add(Plain(w), "allow", "ks", strict) \in Kind,
         \A w \in {"dns", "ep", "epPhys"}, s \in Servers :
            Add(For(w, s), "allow", "ks", strict) \in Kind,
         Add(Plain("physOut"), "reject", "ks", strict) \in Kind, Refuse \in Kind
  PROVE  KsRules(op, strict) \in Seq(Kind)
<1> DEFINE K(m, verb) == Add(m, verb, "ks", strict)
           named == op.server # NoServer /\ op.up
           usable == named /\ op.server \notin Hostnames
           A == <<K(Plain("loOut"), "allow"), K(Plain("loIn"), "allow")>>
           B == <<K(For("dns", op.server), "allow")>>
           C == <<K(For("ep", op.server), "allow")>>
           D == <<Refuse>>
           E == <<K(For("epPhys", op.server), "allow")>>
           F == <<K(Plain("gwOut"), "allow"), K(Plain("gwIn"), "allow"),
                  K(Plain("dhcpOut"), "allow"), K(Plain("dhcpIn"), "allow")>>
           G == <<K(Plain("tunOut"), "allow"), K(Plain("tunIn"), "allow")>>
           H == <<K(Plain("physOut"), "reject")>>
           S == Seq(Kind)
<1>1. op.server # NoServer => op.server \in Servers
      BY DEF Operations
<1>2. op.nic \in BOOLEAN /\ op.up \in BOOLEAN
      BY DEF Operations
<1>3. \A w \in {"loOut", "loIn", "gwOut", "gwIn", "dhcpOut", "dhcpIn", "tunOut", "tunIn"} :
         K(Plain(w), "allow") \in Kind
      OBVIOUS
<1>4. K(Plain("physOut"), "reject") \in Kind
      OBVIOUS
<1>5. ASSUME op.server # NoServer
      PROVE  \A w \in {"dns", "ep", "epPhys"} : K(For(w, op.server), "allow") \in Kind
      BY <1>1, <1>5
<1> HIDE DEF K
<1>6. A \in S /\ F \in S /\ G \in S /\ H \in S
      BY <1>3, <1>4
<1>7. op.server # NoServer => B \in S /\ C \in S /\ E \in S
      BY <1>5
<1>8. D \in S
      OBVIOUS
<1> HIDE DEF A, B, C, D, E, F, G, H
<1>9. When(op.server # NoServer, B) \in S
      BY <1>7, WhenIn
<1>10. When(usable, C) \in S /\ When(usable, E) \in S
       BY <1>2, <1>7, WhenIn
<1>11. When(named /\ ~usable /\ strict, D) \in S
       BY <1>2, <1>8, WhenIn
<1>12. When(op.nic, When(usable, E) \o F) \in S
       BY <1>2, <1>6, <1>10, WhenIn, ConcatProperties
<1>13. When(op.nic /\ op.up, H) \in S
       BY <1>2, <1>6, WhenIn
<1>14. KsRules(op, strict) =
         A \o When(op.server # NoServer, B) \o When(usable, C)
           \o When(named /\ ~usable /\ strict, D) \o When(op.nic, When(usable, E) \o F)
           \o G \o When(op.nic /\ op.up, H)
       BY DEF KsRules, K, A, B, C, D, E, F, G, H
<1> HIDE DEF usable, named
<1> QED BY <1>6, <1>9, <1>10, <1>11, <1>12, <1>13, <1>14, ConcatProperties

\* They are safe and leave the policy alone.
LEMMA KsRulesSafe ==
  ASSUME NEW op \in Operations, NEW strict \in BOOLEAN
  PROVE  KsRules(op, strict) \in Seq(RuleCommands)
<1>1. \A w \in Shared \ {"physOut"} : Add(Plain(w), "allow", "ks", strict) \in RuleCommands
      BY NamedMatches, AddIsSafe DEF Tags
<1>2. \A w \in {"dns", "ep", "epPhys"}, s \in Servers :
         Add(For(w, s), "allow", "ks", strict) \in RuleCommands
      BY NamedMatches, AddIsSafe DEF Tags
<1>3. Add(Plain("physOut"), "reject", "ks", strict) \in RuleCommands
      BY NamedMatches, AddIsSafe DEF Tags, Shared
<1> QED BY <1>1, <1>2, <1>3, OthersAreSafe, KsRulesIn DEF Shared

\* Every Local Network mode has its tag.
LEMMA ModeTags ==
  ASSUME NEW op \in Operations
  PROVE  TagOf[op.lan] \in Tags
BY DEF Operations, TagOf, Tags

\* So are the Local Network layer's, of which Block's alone do not admit the LAN.
LEMMA LanRulesIn ==
  ASSUME NEW op \in Operations, NEW Kind,
         \A w \in {"loOut", "gw32", "tunOut", "dhcpAny", "dhcpIn", "lanIn", "physIn"},
            verb \in {"allow", "deny"} : Add(Plain(w), verb, TagOf[op.lan], TRUE) \in Kind,
         \A w \in {"dns", "ep"}, s \in Servers :
            Add(For(w, s), "allow", TagOf[op.lan], TRUE) \in Kind,
         op.lan = "block" => Add(Plain("lanOut"), "deny", TagOf[op.lan], TRUE) \in Kind,
         op.lan # "block" => Add(Plain("lanOut"), "allow", TagOf[op.lan], TRUE) \in Kind
  PROVE  LanRules(op) \in Seq(Kind)
<1> DEFINE L(m, verb) == Add(m, verb, TagOf[op.lan], TRUE)
           shut == When(op.nic, <<L(Plain("physIn"), "deny")>>)
           S == Seq(Kind)
           plain == {"loOut", "gw32", "tunOut", "dhcpAny", "dhcpIn", "lanIn", "physIn"}
<1>1. op.nic \in BOOLEAN /\ op.up \in BOOLEAN
      BY DEF Operations
<1>2. /\ \A w \in plain, verb \in {"allow", "deny"} : L(Plain(w), verb) \in Kind
      /\ op.lan = "block" => L(Plain("lanOut"), "deny") \in Kind
      /\ op.lan # "block" => L(Plain("lanOut"), "allow") \in Kind
      OBVIOUS
<1>3. ASSUME op.server # NoServer
      PROVE  \A w \in {"dns", "ep"} : L(For(w, op.server), "allow") \in Kind
      BY <1>3 DEF Operations
<1> HIDE DEF L
<1>4. <<L(Plain("physIn"), "deny")>> \in S
      BY <1>2
<1>5. shut \in S
      BY <1>1, <1>4, WhenIn
<1> HIDE DEF shut
<1>6. CASE op.lan = "allow"
  <2> DEFINE A == <<L(Plain("lanOut"), "allow")>>
             B == <<L(Plain("lanIn"), "allow")>>
  <2>1. A \in S /\ B \in S
        BY <1>2, <1>6
  <2>2. LanRules(op) = A \o When(op.nic, B)
        BY <1>6 DEF LanRules, L
  <2> HIDE DEF A, B
  <2>3. When(op.nic, B) \in S
        BY <1>1, <2>1, WhenIn
  <2> QED BY <2>1, <2>2, <2>3, ConcatProperties
<1>7. CASE op.lan = "stealth"
  <2> DEFINE A == <<L(Plain("dhcpIn"), "allow")>>
             B == <<L(Plain("lanOut"), "allow")>>
  <2>1. A \in S /\ B \in S
        BY <1>2, <1>7
  <2>2. LanRules(op) = When(op.nic, A) \o B \o shut
        BY <1>7 DEF LanRules, L, shut
  <2> HIDE DEF A, B
  <2>3. When(op.nic, A) \in S
        BY <1>1, <2>1, WhenIn
  <2> QED BY <1>5, <2>1, <2>2, <2>3, ConcatProperties
<1>8. CASE op.lan = "block"
  <2> DEFINE A == <<L(Plain("loOut"), "allow")>>
             B == <<L(Plain("gw32"), "allow")>>
             C == <<L(Plain("tunOut"), "allow")>>
             D == <<L(For("ep", op.server), "allow")>>
             E == <<L(For("dns", op.server), "allow")>>
             F == <<L(Plain("dhcpAny"), "allow"), L(Plain("lanOut"), "deny")>>
             reached == op.up /\ op.server \notin Hostnames \cup {NoServer}
  <2>1. A \in S /\ B \in S /\ C \in S /\ F \in S
        BY <1>2, <1>8
  <2>2. op.server # NoServer => D \in S /\ E \in S
        BY <1>3
  <2>3. LanRules(op) = A \o When(op.nic, B) \o C \o When(reached, D)
                         \o When(op.server # NoServer, E) \o F \o shut
        BY <1>8 DEF LanRules, L, shut
  <2> HIDE DEF A, B, C, D, E, F
  <2>4. When(op.nic, B) \in S
        BY <1>1, <2>1, WhenIn
  <2>5. When(reached, D) \in S /\ When(op.server # NoServer, E) \in S
        BY <1>1, <2>2, WhenIn
  <2> HIDE DEF reached
  <2> QED BY <1>5, <2>1, <2>3, <2>4, <2>5, ConcatProperties
<1> QED BY <1>6, <1>7, <1>8 DEF Operations

\* They are safe as well.
LEMMA LanRulesSafe ==
  ASSUME NEW op \in Operations
  PROVE  LanRules(op) \in Seq(RuleCommands)
<1>1. TagOf[op.lan] \in Tags
      BY ModeTags
<1>2. \A w \in Shared \ {"physOut"}, verb \in {"allow", "deny"} :
         Add(Plain(w), verb, TagOf[op.lan], TRUE) \in RuleCommands
      BY <1>1, NamedMatches, AddIsSafe
<1>3. \A w \in {"dns", "ep"}, s \in Servers :
         Add(For(w, s), "allow", TagOf[op.lan], TRUE) \in RuleCommands
      BY <1>1, NamedMatches, AddIsSafe
<1> QED BY <1>2, <1>3, LanRulesIn DEF Shared

\* And the IPv6 rules.
LEMMA V6RulesSafe == V6Rules \in Seq(RuleCommands)
<1>1. Add(Plain("v6Out"), "deny", "v6", FALSE) \in RuleCommands
      BY NamedMatches, AddIsSafe DEF Tags, Shared
<1>2. Add(Plain("v6In"), "deny", "v6", FALSE) \in RuleCommands
      BY NamedMatches, AddIsSafe DEF Tags, Shared
<1> DEFINE a == Add(Plain("v6Out"), "deny", "v6", FALSE)
           b == Add(Plain("v6In"), "deny", "v6", FALSE)
<1>3. a \in RuleCommands /\ b \in RuleCommands
      BY <1>1, <1>2
<1>4. V6Rules = <<a, b>>
      BY Zenon DEF V6Rules
<1> HIDE DEF a, b
<1> QED BY <1>3, <1>4, FewIn

\* Of a sequence of commands: the policy is set by the last one only, if at all,
\* and to verb; it is only set to verb; it is not set.
SetsLast(s, verb) ==
  \A i \in 1 .. Len(s) : s[i].do = "policy" => i = Len(s) /\ s[i].verb = verb
SetsOnly(s, verb) == \A i \in 1 .. Len(s) : s[i].do = "policy" => s[i].verb = verb

\* Appending the policy to commands that leave it alone.
LEMMA PolicyLast ==
  ASSUME NEW s \in Seq(RuleCommands), NEW verb \in {"allow", "deny"}, NEW strict \in BOOLEAN,
         NEW t, t = s \o <<Policy(verb, strict)>>
  PROVE  t \in Seq(SafeCommands) /\ SetsLast(t, verb)
<1>1. s \in Seq(SafeCommands) /\ <<Policy(verb, strict)>> \in Seq(SafeCommands)
      BY OthersAreSafe, SeqMonotonic DEF RuleCommands
<1>2. t \in Seq(SafeCommands) /\ Len(t) = Len(s) + 1
      BY <1>1, ConcatProperties
<1>3. \A i \in 1 .. Len(s) : t[i] = s[i] /\ s[i].do # "policy"
      BY <1>1, ConcatProperties, ElementOfSeq DEF RuleCommands
<1>4. t[Len(t)] = Policy(verb, strict)
      BY <1>1, <1>2, ConcatProperties
<1>5. Policy(verb, strict).verb = verb
      BY DEF Policy, Command
<1> QED BY <1>1, <1>2, <1>3, <1>4, <1>5, LenProperties DEF SetsLast

\* enableLocked and EnableSimple read the policy first and set it last.
LEMMA SealRulesShape ==
  ASSUME NEW op \in Operations
  PROVE  /\ SealRules(op) \in Seq(SafeCommands) /\ SealRules(op) # <<>>
         /\ SealRules(op)[1] = SavePolicy
         /\ SetsLast(SealRules(op), "deny")
<1> DEFINE out == Add(Plain("loOut"), "allow", "ks", TRUE)
           in == Add(Plain("loIn"), "allow", "ks", TRUE)
           clear == Clear("ks")
           activate == Activate(TRUE)
           deny == Policy("deny", TRUE)
           A == <<SavePolicy, clear>>
           B == IF op.call = "simple" THEN <<out, in>> ELSE KsRules(op, TRUE)
<1>1. SealRules(op) = A \o B \o <<activate, deny>>
      BY DEF SealRules
<1>2. out \in RuleCommands /\ in \in RuleCommands
      BY NamedMatches, AddIsSafe DEF Tags, Shared
<1>3. KsRules(op, TRUE) \in Seq(RuleCommands)
      BY KsRulesSafe
<1>4. clear \in RuleCommands /\ SavePolicy \in RuleCommands
      BY OthersAreSafe DEF Tags
<1>5. activate \in RuleCommands
      BY OthersAreSafe
<1>6. deny \in SafeCommands
      BY OthersAreSafe
<1> HIDE DEF out, in, clear, activate, deny
<1>7. B \in Seq(RuleCommands)
      BY <1>2, <1>3, FewIn
<1>8. A \in Seq(RuleCommands) /\ A[1] = SavePolicy /\ Len(A) = 2
      BY <1>4, FewIn
<1>9. <<activate>> \in Seq(RuleCommands) /\ <<deny>> \in Seq(SafeCommands)
      BY <1>5, <1>6, FewIn
<1>10. <<activate, deny>> = <<activate>> \o <<deny>>
       BY <1>5, <1>6, PairSplits DEF RuleCommands
<1>11. \A s \in Seq(RuleCommands) : s \in Seq(SafeCommands)
       BY SeqMonotonic DEF RuleCommands
<1> HIDE DEF A, B
<1> DEFINE C == <<activate>>
           D == <<deny>>
           M == A \o B \o C
<1> HIDE DEF C, D
<1>12. C \in Seq(RuleCommands) /\ D \in Seq(SafeCommands) /\ SealRules(op) = (A \o B) \o (C \o D)
       BY <1>1, <1>9, <1>10 DEF C, D
<1>13. A \o B \in Seq(RuleCommands) /\ M \in Seq(RuleCommands)
       BY <1>7, <1>8, <1>12, ConcatProperties
<1>14. SealRules(op) = M \o D
  <2> DEFINE N == A \o B
  <2>1. N \in Seq(SafeCommands) /\ C \in Seq(SafeCommands)
        BY <1>11, <1>12, <1>13
  <2>2. SealRules(op) = N \o (C \o D) /\ M = N \o C
        BY <1>12
  <2> HIDE DEF N, M
  <2>3. (N \o C) \o D = N \o (C \o D)
        BY <1>12, <2>1, ConcatAssociative
  <2> QED BY <2>2, <2>3
<1>15. (A \o B)[1] = SavePolicy /\ Len(A \o B) >= 2
  <2>1. Len(A) >= 2
        BY <1>8
  <2>2. (A \o B)[1] = A[1] /\ Len(A \o B) >= 2
        BY <1>7, <1>8, <2>1, HeadStays
  <2> QED BY <1>8, <2>2
<1>16. M[1] = SavePolicy /\ Len(M) >= 2
       BY <1>12, <1>13, <1>15, HeadStays
<1> HIDE DEF M
<1>17. SealRules(op)[1] = SavePolicy /\ SealRules(op) # <<>>
  <2>1. Len(M \o D) >= 2 /\ (M \o D)[1] = M[1]
        BY <1>11, <1>12, <1>13, <1>16, HeadStays
  <2> QED BY <1>14, <1>16, <2>1, EmptySeq
<1>18. SealRules(op) \in Seq(SafeCommands) /\ SetsLast(SealRules(op), "deny")
       BY <1>13, <1>14, PolicyLast DEF D, deny
<1> QED BY <1>17, <1>18

\* reconcileLocked sets the policy last, to what it was asked for.
LEMMA RebuildShape ==
  ASSUME NEW op \in Operations
  PROVE  /\ Rebuild(op) \in Seq(SafeCommands)
         /\ SetsOnly(Rebuild(op), IF op.ks THEN "deny" ELSE "allow")
<1> DEFINE activate == Activate(TRUE)
           A == <<Clear("ks"), Clear("lb"), Clear("st"), Clear("la"), Clear("v6"), activate>>
           B == LanRules(op)
           C == When(op.v6, V6Rules)
           D == When(op.ks, KsRules(op, FALSE))
           verb == IF op.ks THEN "deny" ELSE "allow"
<1>1. A \in Seq(RuleCommands)
  <2>1. activate \in RuleCommands
        BY OthersAreSafe
  <2>2. \A tag \in Tags : Clear(tag) \in RuleCommands
        BY OthersAreSafe
  <2> HIDE DEF activate
  <2> QED BY <2>1, <2>2 DEF Tags
<1>2. B \in Seq(RuleCommands)
      BY LanRulesSafe
<1>3. C \in Seq(RuleCommands)
      BY V6RulesSafe, WhenIn DEF Operations
<1>4. D \in Seq(RuleCommands)
      BY KsRulesSafe, WhenIn DEF Operations
<1>5. Rebuild(op) = (A \o B \o C \o D) \o <<Policy(verb, TRUE)>>
      BY DEF Rebuild
<1>6. verb \in {"allow", "deny"}
      OBVIOUS
<1> HIDE DEF A, B, C, D, verb
<1>7. A \o B \o C \o D \in Seq(RuleCommands)
      BY <1>1, <1>2, <1>3, <1>4, ConcatProperties
<1>8. Rebuild(op) \in Seq(SafeCommands) /\ SetsLast(Rebuild(op), verb)
      BY <1>5, <1>6, <1>7, PolicyLast
<1> QED BY <1>8 DEF SetsLast, SetsOnly, verb

\* A Local Network layer leaves the policy alone.
LEMMA LanLayerShape ==
  ASSUME NEW op \in Operations
  PROVE  LanLayer(op) \in Seq(RuleCommands)
<1>1. TagOf[op.lan] \in Tags
      BY DEF Operations, TagOf, Tags
<1> DEFINE clear == Clear(TagOf[op.lan])
           activate == Activate(TRUE)
<1>2. clear \in RuleCommands /\ activate \in RuleCommands
      BY <1>1, OthersAreSafe
<1>3. LanLayer(op) = <<clear, activate>> \o LanRules(op)
      BY DEF LanLayer
<1> HIDE DEF clear, activate
<1>4. <<clear, activate>> \in Seq(RuleCommands)
      BY <1>2, FewIn
<1> QED BY <1>3, <1>4, LanRulesSafe, ConcatProperties

\* Commands before others that are known.
LEMMA Prefixed ==
  ASSUME NEW s \in Seq(RuleCommands), NEW t \in Seq(SafeCommands), NEW verb,
         SetsOnly(t, verb)
  PROVE  s \o t \in Seq(SafeCommands) /\ SetsOnly(s \o t, verb)
<1>1. s \in Seq(SafeCommands)
      BY SeqMonotonic DEF RuleCommands
<1>2. s \o t \in Seq(SafeCommands) /\ Len(s \o t) = Len(s) + Len(t)
      BY <1>1, ConcatProperties
<1>3. \A i \in 1 .. Len(s) : s[i].do # "policy"
      BY ElementOfSeq DEF RuleCommands
<1>4. Len(s) \in Nat /\ Len(t) \in Nat
      BY LenProperties
<1>5. ASSUME NEW i \in 1 .. Len(s) + Len(t), (s \o t)[i].do = "policy"
      PROVE  (s \o t)[i].verb = verb
  <2>1. CASE i <= Len(s)
        BY <1>1, <1>3, <1>4, <1>5, <2>1, ConcatProperties
  <2>2. CASE ~(i <= Len(s))
    <3>1. (s \o t)[i] = t[i - Len(s)] /\ i - Len(s) \in 1 .. Len(t)
          BY <1>1, <1>4, <2>2, ConcatProperties
    <3> QED BY <1>5, <3>1 DEF SetsOnly
  <2> QED BY <2>1, <2>2
<1> QED BY <1>2, <1>5 DEF SetsOnly

\* What each operation starts with.
LEMMA ScriptShape ==
  ASSUME NEW op \in Operations
  PROVE  /\ op.call \in {"enable", "simple"} => Script(op) = SealRules(op)
         /\ op.call = "update" =>
              /\ Script(op) \in Seq(SafeCommands) /\ Script(op) # <<>>
              /\ Script(op)[1] = StopUnlessDeny /\ Tail(Script(op)) = SealRules(op)
         /\ op.call \in {"reconcile", "blockV6", "allowV6"} =>
              /\ Script(op) \in Seq(SafeCommands)
              /\ SetsOnly(Script(op), IF op.ks THEN "deny" ELSE "allow")
         /\ op.call \in {"stealth", "block"} => Script(op) \in Seq(RuleCommands)
         /\ op.call \in {"disable", "teardown"} => Script(op) \in Seq(SafeCommands)
<1>1. ASSUME op.call \in {"enable", "simple"} PROVE Script(op) = SealRules(op)
      BY <1>1, Zenon DEF Script
<1>2. ASSUME op.call = "update"
      PROVE  /\ Script(op) \in Seq(SafeCommands) /\ Script(op) # <<>>
             /\ Script(op)[1] = StopUnlessDeny /\ Tail(Script(op)) = SealRules(op)
  <2> DEFINE s == SealRules(op)
             a == <<StopUnlessDeny>>
  <2>1. Script(op) = a \o s
        BY <1>2 DEF Script
  <2>2. StopUnlessDeny \in SafeCommands
        BY OthersAreSafe DEF RuleCommands
  <2>3. a \in Seq(SafeCommands) /\ Len(a) = 1 /\ a[1] = StopUnlessDeny
        BY <2>2, FewIn
  <2>4. s \in Seq(SafeCommands)
        BY SealRulesShape
  <2> HIDE DEF s, a
  <2>5. /\ a \o s \in Seq(SafeCommands) /\ Len(a \o s) = 1 + Len(s) /\ Len(s) \in Nat
        /\ \A i \in 1 .. 1 + Len(s) : (a \o s)[i] = IF i <= 1 THEN a[i] ELSE s[i - 1]
    <3>1. /\ a \o s \in Seq(SafeCommands) /\ Len(a \o s) = Len(a) + Len(s)
          /\ \A i \in 1 .. Len(a) + Len(s) :
                (a \o s)[i] = IF i <= Len(a) THEN a[i] ELSE s[i - Len(a)]
          BY <2>3, <2>4, ConcatProperties
    <3>2. Len(s) \in Nat
          BY <2>4, LenProperties
    <3> QED BY <2>3, <3>1, <3>2
  <2>6. a \o s # <<>> /\ (a \o s)[1] = StopUnlessDeny
        BY <2>3, <2>5
  <2> DEFINE u == a \o s
  <2>7. /\ u \in Seq(SafeCommands) /\ u # <<>> /\ Len(u) = 1 + Len(s) /\ Len(s) \in Nat
        /\ \A i \in 1 .. Len(s) : u[i + 1] = s[i]
        BY <2>5, <2>6
  <2> HIDE DEF u
  <2>8. Tail(u) \in Seq(SafeCommands) /\ Len(Tail(u)) = Len(s)
        /\ \A i \in 1 .. Len(s) : Tail(u)[i] = s[i]
        BY <2>7, HeadTailProperties
  <2>9. Tail(u) = s
        BY <2>4, <2>8, SeqEqual
  <2> QED BY <2>1, <2>5, <2>6, <2>9 DEF u, s
<1>3. ASSUME op.call \in {"reconcile", "blockV6", "allowV6"}
      PROVE  /\ Script(op) \in Seq(SafeCommands)
             /\ SetsOnly(Script(op), IF op.ks THEN "deny" ELSE "allow")
  <2> DEFINE r == Rebuild(op)
             verb == IF op.ks THEN "deny" ELSE "allow"
             open == Activate(FALSE)
             shut == Clear("v6")
  <2>1. r \in Seq(SafeCommands) /\ SetsOnly(r, verb)
        BY RebuildShape
  <2>2. open \in RuleCommands
        BY OthersAreSafe
  <2>3. shut \in RuleCommands /\ Release \in RuleCommands
        BY OthersAreSafe DEF Tags
  <2>4. op.call = "reconcile" => Script(op) = r
        BY Zenon DEF Script
  <2>5. op.call = "blockV6" => Script(op) = (<<open>> \o V6Rules) \o r
        BY DEF Script
  <2>6. op.call = "allowV6" => Script(op) = <<shut, Release>> \o r
        BY DEF Script
  <2> HIDE DEF r, verb, open, shut
  <2>7. <<open>> \in Seq(RuleCommands) /\ <<shut, Release>> \in Seq(RuleCommands)
        BY <2>2, <2>3, FewIn
  <2>8. <<open>> \o V6Rules \in Seq(RuleCommands)
        BY <2>7, V6RulesSafe, ConcatProperties
  <2>9. Script(op) \in Seq(SafeCommands) /\ SetsOnly(Script(op), verb)
        BY <1>3, <2>1, <2>4, <2>5, <2>6, <2>7, <2>8, Prefixed
  <2> QED BY <2>9 DEF verb
<1>4. ASSUME op.call \in {"stealth", "block"} PROVE Script(op) \in Seq(RuleCommands)
  <2>1. Script(op) = LanLayer(op)
        BY <1>4, Zenon DEF Script
  <2> QED BY <2>1, LanLayerShape
<1>5. ASSUME op.call \in {"disable", "teardown"} PROVE Script(op) \in Seq(SafeCommands)
  <2> DEFINE strict == Policy("allow", TRUE)
             lax == Policy("allow", FALSE)
  <2>1. op.call = "disable" => Script(op) = <<Clear("ks"), strict, Release, Reassert>>
        BY DEF Script
  <2>2. op.call = "teardown" =>
          Script(op) = <<lax, Clear("ks"), Clear("lb"), Clear("st"), Clear("la"),
                         Clear("v6"), Release>>
        BY DEF Script, TearAll
  <2>3. strict \in SafeCommands /\ lax \in SafeCommands
        BY OthersAreSafe
  <2>4. \A tag \in Tags : Clear(tag) \in SafeCommands
        BY OthersAreSafe DEF RuleCommands
  <2>5. Release \in SafeCommands /\ Reassert \in SafeCommands
        BY OthersAreSafe DEF RuleCommands
  <2> HIDE DEF strict, lax
  <2>6. <<Clear("ks"), strict, Release, Reassert>> \in Seq(SafeCommands)
        BY <2>3, <2>4, <2>5 DEF Tags
  <2>7. <<lax, Clear("ks"), Clear("lb"), Clear("st"), Clear("la"), Clear("v6"), Release>>
          \in Seq(SafeCommands)
        BY <2>3, <2>4, <2>5 DEF Tags
  <2> QED BY <1>5, <2>1, <2>2, <2>6, <2>7
<1> QED BY <1>1, <1>2, <1>3, <1>4, <1>5

\* Every script is safe.
LEMMA ScriptSafe ==
  ASSUME NEW op \in Operations, op.call # "none"
  PROVE  Script(op) \in Seq(SafeCommands)
<1>1. \A s \in Seq(RuleCommands) : s \in Seq(SafeCommands)
      BY SeqMonotonic DEF RuleCommands
<1>2. CASE op.call \in {"enable", "simple"}
      BY <1>2, ScriptShape, SealRulesShape
<1>3. CASE op.call = "update"
      BY <1>3, ScriptShape
<1>4. CASE op.call \in {"reconcile", "blockV6", "allowV6"}
      BY <1>4, ScriptShape
<1>5. CASE op.call \in {"disable", "teardown"}
      BY <1>5, ScriptShape
<1>6. CASE op.call \in {"stealth", "block"}
      BY <1>1, <1>6, ScriptShape
<1> QED BY <1>2, <1>3, <1>4, <1>5, <1>6 DEF Operations

-----------------------------------------------------------------------------
(* Type correctness, with every rule and every command to come a safe one.  *)

Tasks == [op : Operations, todo : Seq(SafeCommands), prev : {"", "allow", "deny"},
          listed : SUBSET Rules]

\* A rollback restores the policy that was read, or opens.
LEMMA RollbackSafe ==
  ASSUME NEW t \in Tasks
  PROVE  Rollback(t) \in Seq(SafeCommands)
<1> DEFINE verb == IF t.prev = "" THEN "allow" ELSE t.prev
           back == Policy(verb, FALSE)
           clear == Clear(TagOf[t.op.lan])
<1>1. back \in SafeCommands
  <2>1. verb \in {"allow", "deny"}
        BY DEF Tasks
  <2> QED BY <2>1, OthersAreSafe
<1>2. clear \in SafeCommands
  <2>1. t.op \in Operations
        BY DEF Tasks
  <2>2. TagOf[t.op.lan] \in Tags
        BY <2>1 DEF Operations, TagOf, Tags
  <2> QED BY <2>2, OthersAreSafe DEF RuleCommands
<1>3. Clear("ks") \in SafeCommands /\ Release \in SafeCommands
      BY OthersAreSafe DEF RuleCommands, Tags
<1>4. \/ Rollback(t) = <<Clear("ks"), back, Release>>
      \/ Rollback(t) = <<clear, Release>>
      \/ Rollback(t) = <<>>
      BY DEF Rollback
<1> DEFINE ks == Clear("ks")
<1>5. ks \in SafeCommands
      BY <1>3
<1> HIDE DEF back, clear, ks
<1>6. <<ks, back, Release>> \in Seq(SafeCommands)
      BY <1>1, <1>3, <1>5
<1>7. <<clear, Release>> \in Seq(SafeCommands)
      BY <1>2, <1>3, FewIn
<1> QED BY <1>4, <1>6, <1>7, EmptySeq DEF ks

TypeInv ==
  /\ task \in [Processes -> Tasks]
  /\ rules \in Seq(SafeRules) /\ policy \in {"allow", "deny"}
  /\ enabled \in BOOLEAN /\ marker \in BOOLEAN /\ faults \in 0 .. MaxFaults
  /\ vpn \in Targets /\ last \in Targets
  /\ dial \in [stage : {"none", "prepare", "verify"}, server : Targets]

\* The invariant implies the type invariant that the runs check.
LEMMA TypeInvTypes == TypeInv => FirewallTypeOK
<1> SUFFICES ASSUME TypeInv PROVE FirewallTypeOK
    OBVIOUS
<1>1. rules \in Seq(Rules)
      BY SeqMonotonic DEF TypeInv, SafeRules
<1>2. \A s \in Seq(SafeCommands) : s \in Seq(Commands)
      BY SeqMonotonic DEF SafeCommands
<1>3. TaskTypeOK
      BY <1>2 DEF TypeInv, Tasks, TaskTypeOK
<1> QED BY <1>1, <1>3 DEF TypeInv, FirewallTypeOK

\* A process that is done has the type of a task.
LEMMA IdleIsTask == Idle \in Tasks /\ NoOp \in Operations
<1>1. NoOp \in Operations
      BY DEF NoOp, Operations
<1> HIDE DEF NoOp
<1> QED BY <1>1, EmptySeq DEF Idle, Tasks

\* A process goes on with commands that are safe.
LEMMA ProceedTypes ==
  ASSUME TypeInv, NEW p \in Processes, NEW t \in Tasks, NEW rest \in Seq(SafeCommands),
         Proceed(p, t, rest)
  PROVE  task' \in [Processes -> Tasks]
BY IdleIsTask DEF Proceed, TypeInv, Tasks

\* An operation that starts is one of the firewall's.
LEMMA StartTypes ==
  ASSUME TypeInv, NEW p \in Processes, NEW op \in Operations, op.call # "none",
         Start(p, op)
  PROVE  task' \in [Processes -> Tasks]
<1> DEFINE t == [Idle EXCEPT !.op = op, !.todo = Script(op)]
<1>1. Script(op) \in Seq(SafeCommands)
      BY ScriptSafe
<1>2. t \in Tasks
      BY <1>1, IdleIsTask DEF Tasks
<1>3. task' = [task EXCEPT ![p] = t]
      BY DEF Start
<1> QED BY <1>2, <1>3 DEF TypeInv

\* What a process has before it.
LEMMA TodoTypes ==
  ASSUME TypeInv, NEW p \in Processes
  PROVE  /\ task[p] \in Tasks
         /\ task[p].todo # <<>> =>
              Next1(p) \in SafeCommands /\ Tail(task[p].todo) \in Seq(SafeCommands)
<1>1. task[p] \in Tasks
      BY DEF TypeInv
<1>2. task[p].todo \in Seq(SafeCommands)
      BY <1>1 DEF Tasks
<1> QED BY <1>1, <1>2, HeadTailProperties DEF Next1

\* So does going on with the next command.
LEMMA DoneTypes ==
  ASSUME TypeInv, NEW p \in Processes, task[p].todo # <<>>, Done(p)
  PROVE  task' \in [Processes -> Tasks]
BY TodoTypes, ProceedTypes DEF Done

\* So does deleting a listed rule.
LEMMA SweptTypes ==
  ASSUME TypeInv, NEW p \in Processes, NEW r, task[p].todo # <<>>, Swept(p, r)
  PROVE  task' \in [Processes -> Tasks]
<1> DEFINE left == task[p].listed \ {r}
           t == [task[p] EXCEPT !.listed = {}]
<1>1. task[p] \in Tasks /\ Tail(task[p].todo) \in Seq(SafeCommands)
      BY TodoTypes
<1>2. t \in Tasks /\ left \in SUBSET Rules
      BY <1>1 DEF Tasks
<1>3. CASE left = {}
  <2>1. Proceed(p, t, Tail(task[p].todo))
        BY <1>3 DEF Swept
  <2> QED BY <1>1, <1>2, <2>1, ProceedTypes
<1>4. CASE left # {}
  <2>1. task' = [task EXCEPT ![p].listed = left]
        BY <1>4 DEF Swept
  <2> QED BY <1>1, <1>2, <2>1 DEF TypeInv, Tasks
<1> QED BY <1>3, <1>4

\* Every command keeps the types, and admits nothing on the physical interface.
LEMMA TypeStep ==
  ASSUME TypeInv, NEW p \in Processes, Step(p)
  PROVE  TypeInv'
<1>1. UNCHANGED linkVars
      BY DEF Step, WriteFails, DoAdd, DoDelete, DoPolicy, DoClear, DoActivate, DoRelease,
             DoSavePolicy, DoStopUnlessDeny, DoRefuse, DoReassert
<1>2. /\ vpn' \in Targets /\ last' \in Targets
      /\ dial' \in [stage : {"none", "prepare", "verify"}, server : Targets]
      BY <1>1 DEF linkVars, TypeInv
<1>3. faults \in 0 .. MaxFaults /\ MaxFaults \in Nat
      BY FirewallAssumption DEF TypeInv
<1>4. \A kind : Fail(kind) => faults' \in 0 .. MaxFaults
      BY <1>3 DEF Fail
<1>5. Succeed => faults' \in 0 .. MaxFaults
      BY <1>3 DEF Succeed
<1>6. ASSUME ufwVars' = ufwVars
      PROVE  rules' \in Seq(SafeRules) /\ policy' \in {"allow", "deny"}
             /\ enabled' \in BOOLEAN /\ marker' \in BOOLEAN
      BY <1>6 DEF ufwVars, TypeInv
<1>7. task[p] \in Tasks
      BY TodoTypes
<1>8. task[p].todo # <<>> =>
         /\ Next1(p) \in SafeCommands /\ Tail(task[p].todo) \in Seq(SafeCommands)
         /\ Head(task[p].todo) = Next1(p)
      BY TodoTypes DEF Next1
<1>9. Rollback(task[p]) \in Seq(SafeCommands)
      BY <1>7, RollbackSafe
<1>10. CASE WriteFails(p)
  <2>1. faults' \in 0 .. MaxFaults /\ ufwVars' = ufwVars /\ task[p].todo # <<>>
        BY <1>4, <1>10 DEF WriteFails
  <2>2. CASE \E r \in task[p].listed : Swept(p, r)
        BY <1>2, <1>6, <2>1, <2>2, SweptTypes DEF TypeInv
  <2>3. CASE AfterFailure(p)
    <3>1. task' \in [Processes -> Tasks]
          BY <1>7, <1>9, <2>1, <2>3, ProceedTypes, DoneTypes DEF AfterFailure
    <3> QED BY <1>2, <1>6, <2>1, <3>1 DEF TypeInv
  <2> QED BY <1>10, <2>2, <2>3 DEF WriteFails
<1>11. CASE DoAdd(p)
  <2> DEFINE c == Next1(p)
             new == [match |-> c.match, verb |-> c.verb, tag |-> c.tag]
  <2>1. task[p].todo # <<>> /\ c.do = "add" /\ Done(p) /\ AddRule(c.match, c.verb, c.tag)
        BY <1>11 DEF DoAdd, Doing
  <2>2. c \in SafeCommands
        BY <1>8, <2>1
  <2>3. new \in SafeRules
        BY <2>1, <2>2 DEF SafeCommands, Commands, SafeRules, Rules
  <2>4. rules' \in Seq(SafeRules)
    <3>1. rules \in Seq(SafeRules)
          BY DEF TypeInv
    <3>2. CASE At(c.match) = {}
          BY <2>1, <2>3, <3>1, <3>2 DEF AddRule
    <3>3. CASE At(c.match) # {}
      <4>1. rules' = [i \in DOMAIN rules |-> IF i \in At(c.match) THEN new ELSE rules[i]]
            BY <2>1, <3>3 DEF AddRule
      <4>2. Len(rules) \in Nat /\ DOMAIN rules = 1 .. Len(rules)
            BY <3>1, LenProperties
      <4>3. \A i \in 1 .. Len(rules) : rules[i] \in SafeRules
            BY <3>1, ElementOfSeq
      <4> HIDE DEF new
      <4>4. rules' \in [1 .. Len(rules) -> SafeRules]
            BY <2>3, <4>1, <4>2, <4>3
      <4> QED BY <4>2, <4>4
    <3> QED BY <3>2, <3>3
  <2>5. task' \in [Processes -> Tasks]
        BY <2>1, DoneTypes
  <2>6. faults' \in 0 .. MaxFaults /\ UNCHANGED <<policy, enabled, marker>>
        BY <1>5, <1>11 DEF DoAdd
  <2> QED BY <1>2, <2>4, <2>5, <2>6 DEF TypeInv
<1>12. CASE DoDelete(p)
  <2>1. faults' \in 0 .. MaxFaults /\ UNCHANGED <<policy, enabled, marker>>
        BY <1>5, <1>12 DEF DoDelete
  <2>2. task[p].todo # <<>> /\ \E r \in task[p].listed : Swept(p, r)
        BY <1>12 DEF DoDelete, Doing
  <2>3. task' \in [Processes -> Tasks]
        BY <2>2, SweptTypes
  <2>4. rules' = rules \/ \E i \in DOMAIN rules : rules' = RemoveAt(rules, i)
        BY <1>12 DEF DoDelete, Named
  <2>5. rules' \in Seq(SafeRules)
    <3>1. rules \in Seq(SafeRules)
          BY DEF TypeInv
    <3>2. Len(rules) \in Nat /\ DOMAIN rules = 1 .. Len(rules)
          BY <3>1, LenProperties
    <3>3. \A j \in 1 .. Len(rules) : rules[j] \in SafeRules
          BY <3>1, ElementOfSeq
    <3>4. ASSUME NEW i \in DOMAIN rules PROVE RemoveAt(rules, i) \in Seq(SafeRules)
      <4>1. SubSeq(rules, 1, i - 1) \in Seq(SafeRules)
            BY <3>2, <3>3, SubSeqProperties
      <4>2. SubSeq(rules, i + 1, Len(rules)) \in Seq(SafeRules)
            BY <3>2, <3>3, SubSeqProperties
      <4> QED BY <4>1, <4>2, ConcatProperties DEF RemoveAt
    <3> QED BY <2>4, <3>1, <3>4
  <2> QED BY <1>2, <2>1, <2>3, <2>5 DEF TypeInv
<1>13. CASE DoPolicy(p)
  <2>1. task[p].todo # <<>> /\ Next1(p).do = "policy" /\ Done(p) /\ policy' = Next1(p).verb
        BY <1>13 DEF DoPolicy, Doing
  <2>2. policy' \in {"allow", "deny"}
        BY <1>8, <2>1 DEF SafeCommands, Commands
  <2>3. task' \in [Processes -> Tasks]
        BY <2>1, DoneTypes
  <2>4. faults' \in 0 .. MaxFaults /\ UNCHANGED <<rules, enabled, marker>>
        BY <1>5, <1>13 DEF DoPolicy
  <2> QED BY <1>2, <2>2, <2>3, <2>4 DEF TypeInv
<1>14. CASE DoClear(p)
  <2>1. faults' \in 0 .. MaxFaults /\ ufwVars' = ufwVars /\ task[p].todo # <<>>
        BY <1>4, <1>5, <1>14 DEF DoClear, Doing
  <2> DEFINE found == Tagged(Next1(p).tag)
             ahead == <<Sweep>> \o Tail(task[p].todo)
  <2>2. Done(p) \/ task' = [task EXCEPT ![p].todo = ahead, ![p].listed = found]
        BY <1>14 DEF DoClear
  <2>3. found \in SUBSET Rules
    <3>1. rules \in Seq(SafeRules)
          BY DEF TypeInv
    <3>2. \A i \in DOMAIN rules : rules[i] \in Rules
          BY <3>1, LenProperties, ElementOfSeq DEF SafeRules
    <3> QED BY <3>2 DEF Tagged
  <2>4. ahead \in Seq(SafeCommands)
    <3>1. <<Sweep>> \in Seq(SafeCommands)
          BY OthersAreSafe, FewIn DEF RuleCommands
    <3> QED BY <1>8, <2>1, <3>1, ConcatProperties
  <2> HIDE DEF found, ahead
  <2>5. ASSUME task' = [task EXCEPT ![p].todo = ahead, ![p].listed = found]
        PROVE  task' \in [Processes -> Tasks]
        BY <1>7, <2>3, <2>4, <2>5 DEF TypeInv, Tasks
  <2>6. task' \in [Processes -> Tasks]
        BY <2>1, <2>2, <2>5, DoneTypes
  <2> QED BY <1>2, <1>6, <2>1, <2>6 DEF TypeInv
<1>15. CASE DoActivate(p)
  <2>1. task[p].todo # <<>> /\ Done(p)
        BY <1>15 DEF DoActivate, Doing
  <2>2. enabled' \in BOOLEAN /\ marker' \in BOOLEAN /\ rules' = rules /\ policy' = policy
        BY <1>15 DEF DoActivate, TypeInv
  <2>3. faults' \in 0 .. MaxFaults
        BY <1>4, <1>5, <1>15 DEF DoActivate
  <2>4. task' \in [Processes -> Tasks]
        BY <2>1, DoneTypes
  <2> QED BY <1>2, <2>2, <2>3, <2>4 DEF TypeInv
<1>16. CASE DoRelease(p)
  <2>1. task[p].todo # <<>> /\ Done(p)
        BY <1>16 DEF DoRelease, Doing
  <2>2. enabled' \in BOOLEAN /\ marker' \in BOOLEAN /\ rules' = rules /\ policy' = policy
        BY <1>16 DEF DoRelease, TypeInv
  <2>3. faults' \in 0 .. MaxFaults
        BY <1>4, <1>5, <1>16 DEF DoRelease
  <2>4. task' \in [Processes -> Tasks]
        BY <2>1, DoneTypes
  <2> QED BY <1>2, <2>2, <2>3, <2>4 DEF TypeInv
<1>17. CASE DoSavePolicy(p)
  <2> DEFINE t == [task[p] EXCEPT !.prev = PolicyRead]
  <2>1. faults' \in 0 .. MaxFaults /\ ufwVars' = ufwVars /\ task[p].todo # <<>>
        BY <1>4, <1>5, <1>17 DEF DoSavePolicy, Doing
  <2>2. PolicyRead \in {"", "allow", "deny"}
        BY DEF PolicyRead, TypeInv
  <2>3. t \in Tasks
        BY <1>7, <2>2 DEF Tasks
  <2>4. Done(p) \/ Proceed(p, t, Tail(task[p].todo))
        BY <1>17 DEF DoSavePolicy
  <2> HIDE DEF t
  <2>5. task' \in [Processes -> Tasks]
        BY <1>8, <2>1, <2>3, <2>4, DoneTypes, ProceedTypes
  <2> QED BY <1>2, <1>6, <2>1, <2>5 DEF TypeInv
<1>18. CASE DoStopUnlessDeny(p)
  <2>1. faults' \in 0 .. MaxFaults /\ ufwVars' = ufwVars /\ task[p].todo # <<>>
        BY <1>4, <1>5, <1>18 DEF DoStopUnlessDeny, Doing
  <2>2. \/ Proceed(p, task[p], Tail(task[p].todo))
        \/ Proceed(p, task[p], <<>>)
        BY <1>18 DEF DoStopUnlessDeny
  <2>3. <<>> \in Seq(SafeCommands)
        BY EmptySeq
  <2>4. task' \in [Processes -> Tasks]
        BY <1>7, <1>8, <2>1, <2>2, <2>3, ProceedTypes
  <2> QED BY <1>2, <1>6, <2>1, <2>4 DEF TypeInv
<1>19. CASE DoRefuse(p)
  <2>1. faults' \in 0 .. MaxFaults /\ ufwVars' = ufwVars
        BY <1>5, <1>19 DEF DoRefuse
  <2>2. Proceed(p, task[p], Rollback(task[p]))
        BY <1>19 DEF DoRefuse
  <2>3. task' \in [Processes -> Tasks]
        BY <1>7, <1>9, <2>2, ProceedTypes
  <2> QED BY <1>2, <1>6, <2>1, <2>3 DEF TypeInv
<1>20. CASE DoReassert(p)
  <2> DEFINE op == [task[p].op EXCEPT !.call = "stealth", !.lan = "stealth"]
             t == [task[p] EXCEPT !.op = op]
  <2>1. faults' \in 0 .. MaxFaults /\ ufwVars' = ufwVars /\ task[p].todo # <<>>
        BY <1>5, <1>20 DEF DoReassert, Doing
  <2>2. op \in Operations
        BY <1>7 DEF Tasks, Operations
  <2>3. t \in Tasks
        BY <1>7, <2>2 DEF Tasks
  <2>4. Done(p) \/ Proceed(p, t, LanLayer(op))
        BY <1>20 DEF DoReassert
  <2>5. LanLayer(op) \in Seq(SafeCommands)
    <3>1. LanLayer(op) \in Seq(RuleCommands)
          BY <2>2, LanLayerShape
    <3> QED BY <3>1, SeqMonotonic DEF RuleCommands
  <2> HIDE DEF t, op
  <2>6. task' \in [Processes -> Tasks]
        BY <2>1, <2>3, <2>4, <2>5, DoneTypes, ProceedTypes
  <2> QED BY <1>2, <1>6, <2>1, <2>6 DEF TypeInv
<1> QED BY <1>10, <1>11, <1>12, <1>13, <1>14, <1>15, <1>16, <1>17, <1>18, <1>19, <1>20
        DEF Step

\* Operations of the daemon, and those of the user.
LEMMA OpTypes ==
  ASSUME NEW call \in {"enable", "simple", "update", "disable", "block"},
         NEW s \in Targets, NEW up \in BOOLEAN, NEW op \in Op(call, s, up)
  PROVE  op \in Operations /\ op.call = call
BY FirewallAssumption DEF Op, NoOp, Operations, Targets

\* What the user asks for is an operation of the firewall.
LEMMA UserOpTypes ==
  ASSUME TypeInv, NEW op \in Commanded \cup Posture \cup Installed
  PROVE  op \in Operations /\ op.call # "none"
<1>1. last \in Targets /\ NoServer \in Targets /\ (vpn # NoServer) \in BOOLEAN
      BY DEF TypeInv, Targets
<1>2. CASE op \in Commanded
  <2>1. CASE op \in Op("enable", last, TRUE) \cup Op("simple", last, FALSE)
                      \cup Op("disable", NoServer, FALSE)
        BY <1>1, <2>1, OpTypes
  <2>2. CASE op = [NoOp EXCEPT !.call = "teardown"]
        BY <2>2 DEF NoOp, Operations
  <2> QED BY <1>2, <2>1, <2>2 DEF Commanded
<1>3. CASE op \in Posture
  <2>1. op \in Toggled
        BY <1>3 DEF Posture
  <2>2. PICK c \in {"reconcile", "blockV6", "allowV6"}, n \in Nics, k \in BOOLEAN,
             m \in LanModes, v \in BOOLEAN :
           op = [call |-> c, server |-> last, up |-> vpn # NoServer, nic |-> n, ks |-> k,
                 lan |-> m, v6 |-> v]
        BY <2>1 DEF Toggled
  <2>3. n \in BOOLEAN /\ m \in {"allow", "stealth", "block"}
        BY FirewallAssumption
  <2>4. last \in Servers \cup {NoServer}
        BY <1>1 DEF Targets
  <2> DEFINE up == vpn # NoServer
  <2>5. up \in BOOLEAN /\ op = [call |-> c, server |-> last, up |-> up, nic |-> n, ks |-> k,
                                lan |-> m, v6 |-> v]
        BY <2>2
  <2> HIDE DEF up
  <2> QED BY <2>3, <2>4, <2>5 DEF Operations
<1>4. CASE op \in Installed
  <2>1. op = [NoOp EXCEPT !.call = "stealth", !.lan = "stealth", !.nic = TRUE]
        BY <1>4 DEF Installed
  <2> QED BY <2>1 DEF NoOp, Operations
<1> QED BY <1>2, <1>3, <1>4

\* The daemon starts at most one operation, and only when it may.
LEMMA DaemonStarts ==
  ASSUME TypeInv, Daemon
  PROVE  /\ Free("daemon") /\ OnlyTask
         /\ \/ UNCHANGED task
            \/ \E op \in Operations : op.call # "none" /\ Start("daemon", op)
<1>1. NoServer \in Targets /\ \A s \in Servers : s \in Targets
      BY DEF Targets
<1> DEFINE started ==
      \E op \in Operations : op.call # "none" /\ Start("daemon", op)
<1>2. UNCHANGED task \/ started
  <2>1. ASSUME NEW s \in Servers, ConnectBegins(s) PROVE UNCHANGED task \/ started
        BY <1>1, <2>1, OpTypes DEF ConnectBegins, IfOn
  <2>2. ASSUME OldTunnelDown PROVE UNCHANGED task \/ started
        BY <1>1, <2>2, OpTypes DEF OldTunnelDown
  <2>3. ASSUME ConnectSucceeds PROVE UNCHANGED task \/ started
    <3>1. vpn \in Targets
          BY DEF TypeInv
    <3>2. ASSUME NEW op \in Op("block", vpn, TRUE), Start("daemon", [op EXCEPT !.lan = "block"])
          PROVE  started
      <4> DEFINE o == [op EXCEPT !.lan = "block"]
      <4>1. op \in Operations /\ op.call = "block"
            BY <3>1, OpTypes
      <4>2. o \in Operations /\ o.call # "none"
            BY <4>1 DEF Operations
      <4>3. Start("daemon", o)
            BY <3>2
      <4> HIDE DEF o
      <4> QED BY <4>2, <4>3
    <3> QED BY <2>3, <3>2 DEF ConnectSucceeds
  <2>4. ASSUME ConnectFailsLate PROVE UNCHANGED task \/ started
        BY <1>1, <2>4, OpTypes DEF ConnectFailsLate, IfOn
  <2>5. ASSUME TunnelDown PROVE UNCHANGED task \/ started
        BY <1>1, <2>5, OpTypes DEF TunnelDown
  <2>6. ASSUME TunnelUp \/ ConnectFailsEarly PROVE UNCHANGED task
        BY <2>6 DEF TunnelUp, ConnectFailsEarly
  <2> HIDE DEF started
  <2> QED BY <2>1, <2>2, <2>3, <2>4, <2>5, <2>6 DEF Daemon
<1>3. Free("daemon") /\ OnlyTask
      BY DEF Daemon, ConnectBegins, OldTunnelDown, TunnelUp, ConnectSucceeds,
             ConnectFailsEarly, ConnectFailsLate, TunnelDown
<1> QED BY <1>2, <1>3

\* What the callers do keeps the types.
LEMMA TypeDaemon == TypeInv /\ Daemon => TypeInv'
<1> SUFFICES ASSUME TypeInv, Daemon PROVE TypeInv'
    OBVIOUS
<1>1. OnlyTask
      BY DaemonStarts
<1>2. /\ rules' \in Seq(SafeRules) /\ policy' \in {"allow", "deny"}
      /\ enabled' \in BOOLEAN /\ marker' \in BOOLEAN /\ faults' \in 0 .. MaxFaults
      BY <1>1 DEF OnlyTask, ufwVars, TypeInv
<1>3. NoServer \in Targets /\ \A s \in Servers : s \in Targets
      BY DEF Targets
<1>4. \/ UNCHANGED task
      \/ \E op \in Operations : op.call # "none" /\ Start("daemon", op)
      BY DaemonStarts
<1>5. task' \in [Processes -> Tasks]
  <2>1. "daemon" \in Processes
        BY DEF Processes
  <2>2. task \in [Processes -> Tasks]
        BY DEF TypeInv
  <2> QED BY <1>4, <2>1, <2>2, StartTypes
<1> DEFINE linked ==
      /\ vpn' \in Targets /\ last' \in Targets
      /\ dial' \in [stage : {"none", "prepare", "verify"}, server : Targets]
<1>6. linked
  <2> USE <1>3 DEF TypeInv
  <2>1. ASSUME NEW s \in Servers, ConnectBegins(s) PROVE linked
        BY <2>1 DEF ConnectBegins
  <2>2. ASSUME OldTunnelDown PROVE linked
        BY <2>2 DEF OldTunnelDown
  <2>3. ASSUME TunnelUp PROVE linked
        BY <2>3 DEF TunnelUp
  <2>4. ASSUME ConnectSucceeds PROVE linked
        BY <2>4 DEF ConnectSucceeds, NoDial
  <2>5. ASSUME ConnectFailsEarly PROVE linked
        BY <2>5 DEF ConnectFailsEarly, NoDial
  <2>6. ASSUME ConnectFailsLate PROVE linked
        BY <2>6 DEF ConnectFailsLate, NoDial
  <2>7. ASSUME TunnelDown PROVE linked
        BY <2>7 DEF TunnelDown
  <2> QED BY <2>1, <2>2, <2>3, <2>4, <2>5, <2>6, <2>7 DEF Daemon
<1> QED BY <1>2, <1>5, <1>6 DEF TypeInv

\* So does what the user does.
LEMMA TypeUser == TypeInv /\ User => TypeInv'
<1> SUFFICES ASSUME TypeInv, User PROVE TypeInv'
    OBVIOUS
<1>1. PICK op \in Commanded \cup Posture \cup Installed : Start("user", op)
      BY DEF User
<1>2. op \in Operations /\ op.call # "none"
      BY UserOpTypes
<1>3. task' \in [Processes -> Tasks]
      BY <1>1, <1>2, StartTypes DEF Processes
<1> QED BY <1>3 DEF User, OnlyTask, ufwVars, linkVars, TypeInv

\* The type invariant and the safety of rules and commands, inductively.
LEMMA TypeInvInductive ==
  /\ Init => TypeInv
  /\ TypeInv /\ [Next]_vars => TypeInv'
<1>1. Init => TypeInv
  <2> SUFFICES ASSUME Init PROVE TypeInv
      OBVIOUS
  <2>1. task \in [Processes -> Tasks]
        BY IdleIsTask DEF Init
  <2>2. rules \in Seq(SafeRules)
        BY EmptySeq DEF Init
  <2>3. faults \in 0 .. MaxFaults
        BY FirewallAssumption DEF Init
  <2> QED BY <2>1, <2>2, <2>3 DEF Init, TypeInv, NoDial, Targets
<1>2. TypeInv /\ UNCHANGED vars => TypeInv'
      BY DEF TypeInv, vars, ufwVars, linkVars
<1>3. TypeInv /\ [Next]_vars => TypeInv'
      BY <1>2, TypeDaemon, TypeUser, TypeStep DEF Next
<1> QED BY <1>1, <1>3

\* FirewallTypeOK is an invariant: in particular a rollback only restores a policy
\* that was read or is known (deferred rollbacks of enableLocked and EnableSimple).
THEOREM FirewallTypeCorrect == Spec => []FirewallTypeOK
<1>1. Spec => []TypeInv
      BY TypeInvInductive, PTL DEF Spec
<1> QED BY <1>1, TypeInvTypes, PTL

\* What reaches the internet on the physical interface.
LEMMA WanCovered == Covering(Plain("wan")) = {Plain("physOut")}
<1>1. Plain("wan") # Plain("lan")
      BY DEF Plain
<1> QED BY <1>1, Zenon DEF Covering

\* Safe rules do not admit it.
LEMMA ClearnetClosed == TypeInv => NoClearnet
<1> SUFFICES ASSUME TypeInv, KillswitchOn, Accepted(Plain("wan")) PROVE FALSE
    BY DEF NoClearnet, KillswitchOn, Passes
<1>1. Covering(Plain("wan")) = {Plain("physOut")}
      BY WanCovered
<1>2. PICK i \in DOMAIN rules : rules[i].match = Plain("physOut") /\ rules[i].verb = "allow"
      BY <1>1 DEF Accepted, Hits, KillswitchOn
<1>3. rules[i] \in SafeRules
      BY <1>2, LenProperties, ElementOfSeq DEF TypeInv
<1> QED BY <1>2, <1>3 DEF SafeRules

\* No sequence of operations, failures and interleavings of the two processes
\* leaves the physical interface open to the internet while the killswitch is on:
\* whatever rules have gone, none that is there admits it.
THEOREM NoClearnetAlways == Spec => []NoClearnet
<1>1. Spec => []TypeInv
      BY TypeInvInductive, PTL DEF Spec
<1> QED BY <1>1, ClearnetClosed, PTL

-----------------------------------------------------------------------------
(* The killswitch is not opened by an operation that was not asked to.      *)

Seals == {"enable", "simple", "update"}
Rebuilds == {"reconcile", "blockV6", "allowV6"}

\* While an enable or update runs: the policy that was read is that of a firewall
\* of the user's own, and it is not "allow" where the default is deny.
Saved(t, pol, en, mk) ==
  /\ en /\ ~mk => t.prev # ""
  /\ pol = "deny" => t.prev # "allow"

\* In a rollback: nothing is strict, and the policy goes back to what was read.
Undoing(t) ==
  \A i \in 1 .. Len(t.todo) :
     /\ t.todo[i].do \in {"clear", "delete", "policy", "release"}
     /\ ~t.todo[i].strict
     /\ t.todo[i].do = "policy" => t.todo[i].verb = IF t.prev = "" THEN "allow" ELSE t.prev

SealSound(t, pol, en, mk) ==
  \/ t.prev = "" /\ (t.todo = Script(t.op) \/ t.todo = SealRules(t.op))
  \/ Saved(t, pol, en, mk) /\ (SetsLast(t.todo, "deny") \/ Undoing(t))

\* What the commands to come may do to the policy, by operation.
Sound(t, pol, en, mk) ==
  /\ t.op.call \in Seals => SealSound(t, pol, en, mk)
  /\ t.op.call \in Rebuilds /\ t.op.ks => SetsOnly(t.todo, "deny")
  /\ t.op.call \in {"stealth", "block"} => t.todo \in Seq(RuleCommands)
  /\ t.op.call = "none" => t.todo = <<>>

OneAtATime == \A p, q \in Processes : p # q => Quiet(p) \/ Quiet(q)

SealInv ==
  /\ TypeInv /\ OneAtATime
  /\ \A p \in Processes : Sound(task[p], policy, enabled, marker)

\* A process that is done has no commands to come.
LEMMA IdleIsSound ==
  ASSUME NEW pol, NEW en, NEW mk
  PROVE  Sound(Idle, pol, en, mk)
BY DEF Sound, Idle, NoOp, Seals, Rebuilds

\* The commands to come after the first one, and after the first one was replaced
\* by the deletions it found.
LEMMA Advances ==
  ASSUME NEW s \in Seq(SafeCommands), s # <<>>
  PROVE  /\ Len(s) \in Nat \ {0} /\ Head(s) = s[1]
         /\ Len(Tail(s)) = Len(s) - 1
         /\ \A i \in 1 .. Len(s) - 1 : Tail(s)[i] = s[i + 1]
         /\ Len(<<Sweep>> \o Tail(s)) = Len(s)
         /\ (<<Sweep>> \o Tail(s))[1] = Sweep
         /\ \A i \in 2 .. Len(s) : (<<Sweep>> \o Tail(s))[i] = s[i]
<1> DEFINE w == <<Sweep>>
           r == Tail(s)
<1>1. Len(s) \in Nat \ {0} /\ Head(s) = s[1]
      BY EmptySeq
<1>2. r \in Seq(SafeCommands) /\ Len(r) = Len(s) - 1
      /\ \A i \in 1 .. Len(s) - 1 : r[i] = s[i + 1]
      BY HeadTailProperties
<1>3. w \in Seq(SafeCommands) /\ Len(w) = 1 /\ w[1] = Sweep
      BY OthersAreSafe, FewIn DEF RuleCommands
<1> HIDE DEF w, r
<1>4. /\ Len(w \o r) = Len(w) + Len(r)
      /\ \A i \in 1 .. Len(w) + Len(r) : (w \o r)[i] = IF i <= Len(w) THEN w[i] ELSE r[i - Len(w)]
  <2>1. w \in Seq(SafeCommands) /\ r \in Seq(SafeCommands)
        BY <1>2, <1>3
  <2> QED BY ONLY <2>1, ConcatProperties
<1>5. Len(w \o r) = Len(s) /\ (w \o r)[1] = Sweep
      BY <1>1, <1>2, <1>3, <1>4
<1>6. ASSUME NEW i \in 2 .. Len(s) PROVE (w \o r)[i] = s[i]
  <2>1. (w \o r)[i] = r[i - 1]
        BY <1>1, <1>2, <1>3, <1>4
  <2>2. i - 1 \in 1 .. Len(s) - 1 /\ (i - 1) + 1 = i
        BY <1>1
  <2>3. r[i - 1] = s[(i - 1) + 1]
        BY <1>2, <2>2
  <2> QED BY <2>1, <2>2, <2>3
<1> QED BY <1>1, <1>2, <1>5, <1>6 DEF w, r

\* What the commands to come do to the policy, the first one done.
LEMMA TailSets ==
  ASSUME NEW s \in Seq(SafeCommands), s # <<>>, NEW verb
  PROVE  /\ SetsLast(s, verb) => SetsLast(Tail(s), verb)
         /\ SetsOnly(s, verb) => SetsOnly(Tail(s), verb)
<1> DEFINE v == Tail(s)
<1>1. /\ Len(s) \in Nat \ {0} /\ Len(v) = Len(s) - 1
      /\ \A i \in 1 .. Len(s) - 1 : v[i] = s[i + 1]
      BY Advances
<1> HIDE DEF v
<1>2. ASSUME SetsLast(s, verb) PROVE SetsLast(v, verb)
      BY <1>1, <1>2 DEF SetsLast
<1>3. ASSUME SetsOnly(s, verb) PROVE SetsOnly(v, verb)
      BY <1>1, <1>3 DEF SetsOnly
<1> QED BY <1>2, <1>3 DEF v

\* One command less keeps what is known of those to come.
LEMMA RestSound ==
  ASSUME NEW t \in Tasks, t.todo # <<>>, NEW u \in Tasks, u.op = t.op, u.prev = t.prev,
         u.todo = t.todo \/ u.todo = Tail(t.todo) \/ u.todo = <<Sweep>> \o Tail(t.todo)
  PROVE  /\ \A verb : SetsLast(t.todo, verb) => SetsLast(u.todo, verb)
         /\ \A verb : SetsOnly(t.todo, verb) => SetsOnly(u.todo, verb)
         /\ Undoing(t) => Undoing(u)
         /\ t.todo \in Seq(RuleCommands) => u.todo \in Seq(RuleCommands)
<1> DEFINE s == t.todo
           v == u.todo
<1>1. s \in Seq(SafeCommands) /\ s # <<>>
      BY DEF Tasks
<1>2. Sweep.do = "delete" /\ ~Sweep.strict
      BY DEF Sweep, Command
<1> HIDE DEF s, v
<1>3. \/ v = s
      \/ Len(v) = Len(s) - 1 /\ \A i \in 1 .. Len(v) : v[i] = s[i + 1]
      \/ Len(v) = Len(s) /\ v[1] = Sweep /\ \A i \in 2 .. Len(s) : v[i] = s[i]
  <2>1. v = s \/ v = Tail(s) \/ v = <<Sweep>> \o Tail(s)
        BY DEF s, v
  <2> QED BY <1>1, <2>1, Advances
<1>4. Len(s) \in Nat \ {0}
      BY <1>1, Advances
<1>5. ASSUME NEW verb, SetsLast(s, verb) PROVE SetsLast(v, verb)
      BY <1>2, <1>3, <1>4, <1>5 DEF SetsLast
<1>6. ASSUME NEW verb, SetsOnly(s, verb) PROVE SetsOnly(v, verb)
      BY <1>2, <1>3, <1>4, <1>6 DEF SetsOnly
<1>7. ASSUME Undoing(t) PROVE Undoing(u)
  <2> DEFINE back == IF t.prev = "" THEN "allow" ELSE t.prev
             Fits(c) == /\ c.do \in {"clear", "delete", "policy", "release"}
                        /\ ~c.strict /\ (c.do = "policy" => c.verb = back)
  <2>1. \A i \in 1 .. Len(s) : Fits(s[i])
        BY <1>7 DEF Undoing, s
  <2>2. Fits(Sweep)
        BY <1>2
  <2> HIDE DEF Fits
  <2>3. \A i \in 1 .. Len(v) : Fits(v[i])
        BY <1>3, <1>4, <2>1, <2>2
  <2> QED BY <2>3 DEF Undoing, Fits, v
<1>8. ASSUME s \in Seq(RuleCommands) PROVE v \in Seq(RuleCommands)
  <2>1. Tail(s) \in Seq(RuleCommands)
        BY <1>1, <1>8, HeadTailProperties
  <2>2. <<Sweep>> \in Seq(RuleCommands)
        BY OthersAreSafe, FewIn
  <2>3. <<Sweep>> \o Tail(s) \in Seq(RuleCommands)
        BY <2>1, <2>2, ConcatProperties
  <2>4. v = s \/ v = Tail(s) \/ v = <<Sweep>> \o Tail(s)
        BY DEF s, v
  <2> QED BY <1>8, <2>1, <2>3, <2>4
<1> QED BY <1>5, <1>6, <1>7, <1>8 DEF s, v

\* The same with what is known of the state: if the first command was not about
\* the policy that is read, and the policy read stays good, all stays sound.
LEMMA RestStaysSound ==
  ASSUME NEW t \in Tasks, t.todo # <<>>, NEW u \in Tasks, u.op = t.op, u.prev = t.prev,
         u.todo = t.todo \/ u.todo = Tail(t.todo) \/ u.todo = <<Sweep>> \o Tail(t.todo),
         t.todo[1].do \notin {"savePolicy", "stopUnlessDeny"},
         NEW pol, NEW en, NEW mk, NEW polAfter, NEW enAfter, NEW mkAfter,
         Sound(t, pol, en, mk),
         Saved(t, pol, en, mk) /\ (SetsLast(t.todo, "deny") \/ Undoing(t))
            => Saved(t, polAfter, enAfter, mkAfter)
  PROVE  Sound(u, polAfter, enAfter, mkAfter)
<1>1. ASSUME t.op.call \in Seals PROVE SealSound(u, polAfter, enAfter, mkAfter)
  <2>1. t.op \in Operations
        BY DEF Tasks
  <2>2. SavePolicy.do = "savePolicy" /\ StopUnlessDeny.do = "stopUnlessDeny"
        BY DEF SavePolicy, StopUnlessDeny, Command
  <2>3. SealRules(t.op)[1] = SavePolicy
        BY <2>1, SealRulesShape
  <2>4. Script(t.op)[1] = SavePolicy \/ Script(t.op)[1] = StopUnlessDeny
        BY <1>1, <2>1, <2>3, ScriptShape DEF Seals
  <2>5. SealSound(t, pol, en, mk)
        BY <1>1 DEF Sound
  <2>6. Saved(t, pol, en, mk) /\ (SetsLast(t.todo, "deny") \/ Undoing(t))
        BY <2>2, <2>3, <2>4, <2>5 DEF SealSound
  <2>7. Saved(u, polAfter, enAfter, mkAfter)
        BY <2>6 DEF Saved
  <2>8. SetsLast(u.todo, "deny") \/ Undoing(u)
        BY <2>6, RestSound
  <2> QED BY <2>7, <2>8 DEF SealSound
<1>2. ASSUME t.op.call \in Rebuilds, t.op.ks PROVE SetsOnly(u.todo, "deny")
  <2>1. SetsOnly(t.todo, "deny")
        BY <1>2 DEF Sound
  <2> QED BY <2>1, RestSound
<1>3. ASSUME t.op.call \in {"stealth", "block"} PROVE u.todo \in Seq(RuleCommands)
  <2>1. t.todo \in Seq(RuleCommands)
        BY <1>3 DEF Sound
  <2> QED BY <2>1, RestSound
<1>4. t.op.call # "none"
      BY DEF Sound
<1> QED BY <1>1, <1>2, <1>3, <1>4 DEF Sound

\* After a failure the rollback is sound.
LEMMA RollbackSound ==
  ASSUME NEW t \in Tasks, t.todo # <<>>, t.todo[1].do \notin {"savePolicy", "stopUnlessDeny"},
         NEW u \in Tasks, u.op = t.op, u.prev = t.prev, u.todo = Rollback(t), u.todo # <<>>,
         NEW pol, NEW en, NEW mk, Sound(t, pol, en, mk)
  PROVE  Sound(u, pol, en, mk)
<1>1. t.op \in Operations /\ t.prev \in {"", "allow", "deny"}
      BY DEF Tasks
<1>2. ASSUME t.op.call \in Seals PROVE SealSound(u, pol, en, mk)
  <2>1. SavePolicy.do = "savePolicy" /\ StopUnlessDeny.do = "stopUnlessDeny"
        BY DEF SavePolicy, StopUnlessDeny, Command
  <2>2. SealRules(t.op)[1] = SavePolicy
        BY <1>1, SealRulesShape
  <2>3. Script(t.op)[1] = SavePolicy \/ Script(t.op)[1] = StopUnlessDeny
        BY <1>1, <1>2, <2>2, ScriptShape DEF Seals
  <2>4. Saved(t, pol, en, mk)
        BY <1>2, <2>1, <2>2, <2>3 DEF Sound, SealSound
  <2> DEFINE back == IF t.prev = "" THEN "allow" ELSE t.prev
             undo == Policy(back, FALSE)
             clear == Clear("ks")
  <2>5. u.todo = <<clear, undo, Release>>
        BY <1>2 DEF Rollback, Seals
  <2>6. clear.do = "clear" /\ ~clear.strict /\ Release.do = "release" /\ ~Release.strict
        BY DEF Clear, Release, Command
  <2>7. undo.do = "policy" /\ ~undo.strict /\ undo.verb = back
        BY DEF Policy, Command
  <2> HIDE DEF undo, clear
  <2>8. Undoing(u)
    <3>1. Len(u.todo) = 3 /\ u.todo[1] = clear /\ u.todo[2] = undo /\ u.todo[3] = Release
          BY <2>5
    <3>2. \A i \in 1 .. Len(u.todo) :
             u.todo[i] = clear \/ u.todo[i] = undo \/ u.todo[i] = Release
          BY <3>1
    <3>3. back = IF u.prev = "" THEN "allow" ELSE u.prev
          OBVIOUS
    <3> HIDE DEF back
    <3> QED BY <2>6, <2>7, <3>2, <3>3 DEF Undoing
  <2>9. Saved(u, pol, en, mk)
        BY <2>4 DEF Saved
  <2> QED BY <2>8, <2>9 DEF SealSound
<1>3. t.op.call \notin Rebuilds
      BY DEF Rollback, Rebuilds
<1>4. ASSUME t.op.call \in {"stealth", "block"} PROVE u.todo \in Seq(RuleCommands)
  <2> DEFINE clear == Clear(TagOf[t.op.lan])
  <2>1. u.todo = <<clear, Release>>
        BY <1>4 DEF Rollback
  <2>2. clear \in RuleCommands
    <3>1. TagOf[t.op.lan] \in Tags
          BY <1>1, ModeTags
    <3> QED BY <3>1, OthersAreSafe
  <2> HIDE DEF clear
  <2> QED BY <2>1, <2>2, OthersAreSafe, FewIn
<1>5. t.op.call # "none"
      BY DEF Sound
<1> QED BY <1>2, <1>3, <1>4, <1>5 DEF Sound

\* An operation that starts is sound.
LEMMA StartSound ==
  ASSUME NEW op \in Operations, op.call # "none", NEW t, t.op = op, t.todo = Script(op),
         t.prev = "", NEW pol, NEW en, NEW mk
  PROVE  Sound(t, pol, en, mk)
<1>1. ASSUME op.call \in Rebuilds, op.ks PROVE SetsOnly(t.todo, "deny")
      BY <1>1, ScriptShape DEF Rebuilds
<1>2. ASSUME op.call \in {"stealth", "block"} PROVE t.todo \in Seq(RuleCommands)
      BY <1>2, ScriptShape
<1> QED BY <1>1, <1>2 DEF Sound, SealSound

\* How a process can go on: with commands given to it, or with those it had.
Others(p) == \A q \in Processes : q # p => task'[q] = task[q]
Continues(p, t, rest) ==
  /\ Others(p)
  /\ \/ task'[p] = Idle
     \/ /\ rest # <<>> /\ task'[p].op = t.op /\ task'[p].prev = t.prev
        /\ task'[p].todo = rest
Advanced(p) ==
  /\ Others(p)
  /\ \/ task'[p] = Idle
     \/ /\ task'[p].op = task[p].op /\ task'[p].prev = task[p].prev
        /\ \/ task'[p].todo = task[p].todo
           \/ task'[p].todo = Tail(task[p].todo)
           \/ task'[p].todo = <<Sweep>> \o Tail(task[p].todo)

\* A process that proceeds is done or has the commands it was given.
LEMMA ProceedContinues ==
  ASSUME TypeInv, NEW p \in Processes, NEW t \in Tasks, NEW rest, Proceed(p, t, rest)
  PROVE  Continues(p, t, rest)
<1> DEFINE u == [t EXCEPT !.todo = rest]
<1>1. task \in [Processes -> Tasks]
      BY DEF TypeInv
<1>2. task' = [task EXCEPT ![p] = IF rest = <<>> THEN Idle ELSE u]
      BY DEF Proceed
<1>3. u.op = t.op /\ u.prev = t.prev /\ u.todo = rest
      BY DEF Tasks
<1> HIDE DEF u
<1> QED BY <1>1, <1>2, <1>3 DEF Continues, Others

\* The next command done is an advance.
LEMMA DoneAdvances ==
  ASSUME TypeInv, NEW p \in Processes, Done(p)
  PROVE  Advanced(p) /\ Continues(p, task[p], Tail(task[p].todo))
<1>1. task[p] \in Tasks
      BY DEF TypeInv
<1>2. Continues(p, task[p], Tail(task[p].todo))
      BY <1>1, ProceedContinues DEF Done
<1> QED BY <1>2 DEF Continues, Advanced

\* So is a listed rule deleted.
LEMMA SweptAdvances ==
  ASSUME TypeInv, NEW p \in Processes, NEW r, Swept(p, r)
  PROVE  Advanced(p)
<1> DEFINE left == task[p].listed \ {r}
           t == [task[p] EXCEPT !.listed = {}]
           u == [task[p] EXCEPT !.listed = left]
<1>1. task[p] \in Tasks /\ task \in [Processes -> Tasks]
      BY DEF TypeInv
<1>2. t \in Tasks /\ t.op = task[p].op /\ t.prev = task[p].prev
      BY <1>1 DEF Tasks
<1>3. u.op = task[p].op /\ u.prev = task[p].prev /\ u.todo = task[p].todo
      BY <1>1 DEF Tasks
<1>4. CASE left = {}
  <2>1. Proceed(p, t, Tail(task[p].todo))
        BY <1>4 DEF Swept
  <2>2. Continues(p, t, Tail(task[p].todo))
        BY <1>2, <2>1, ProceedContinues
  <2> QED BY <1>2, <2>2 DEF Continues, Advanced
<1>5. CASE left # {}
  <2>1. task' = [task EXCEPT ![p] = u]
        BY <1>5 DEF Swept
  <2>2. task'[p] = u /\ Others(p)
        BY <1>1, <2>1 DEF Others
  <2> QED BY <1>3, <2>2 DEF Advanced
<1> QED BY <1>4, <1>5

\* Where the read policy stays good, advancing stays sound.
LEMMA AdvancedSound ==
  ASSUME TypeInv, TypeInv', NEW p \in Processes, Advanced(p), task[p].todo # <<>>,
         Next1(p).do \notin {"savePolicy", "stopUnlessDeny"},
         Sound(task[p], policy, enabled, marker),
         Saved(task[p], policy, enabled, marker)
           /\ (SetsLast(task[p].todo, "deny") \/ Undoing(task[p]))
             => Saved(task[p], policy', enabled', marker')
  PROVE  Sound(task'[p], policy', enabled', marker')
<1>1. task[p] \in Tasks /\ task'[p] \in Tasks
      BY DEF TypeInv
<1>2. task[p].todo[1] = Next1(p)
      BY <1>1, Advances DEF Tasks, Next1
<1>3. CASE task'[p] = Idle
      BY <1>3, IdleIsSound
<1>4. CASE task'[p] # Idle
      BY <1>1, <1>2, <1>4, RestStaysSound DEF Advanced
<1> QED BY <1>3, <1>4

\* A failure stays sound, rolled back or not.
LEMMA FailureSound ==
  ASSUME TypeInv, TypeInv', NEW p \in Processes, task[p].todo # <<>>,
         Next1(p).do \notin {"savePolicy", "stopUnlessDeny"},
         Sound(task[p], policy, enabled, marker), ufwVars' = ufwVars,
         Proceed(p, task[p], Rollback(task[p]))
  PROVE  Sound(task'[p], policy', enabled', marker')
<1>1. task[p] \in Tasks /\ task'[p] \in Tasks
      BY DEF TypeInv
<1>2. task[p].todo[1] = Next1(p)
      BY <1>1, Advances DEF Tasks, Next1
<1>3. Continues(p, task[p], Rollback(task[p]))
      BY <1>1, ProceedContinues
<1>4. policy' = policy /\ enabled' = enabled /\ marker' = marker
      BY DEF ufwVars
<1>5. CASE task'[p] = Idle
      BY <1>5, IdleIsSound
<1>6. CASE task'[p] # Idle
  <2>1. /\ task'[p].op = task[p].op /\ task'[p].prev = task[p].prev
        /\ task'[p].todo = Rollback(task[p]) /\ task'[p].todo # <<>>
        BY <1>3, <1>6 DEF Continues
  <2>2. Sound(task'[p], policy, enabled, marker)
        BY <1>1, <1>2, <2>1, RollbackSound
  <2> QED BY <1>4, <2>2
<1> QED BY <1>5, <1>6

\* Neither the policy nor what ufw says of itself can fail to be read.
ReadsSucceed == "status" \notin Faults /\ "verbose" \notin Faults

\* Every command leaves its own process sound, and the others alone.
LEMMA SoundStep ==
  ASSUME ReadsSucceed, TypeInv, TypeInv', NEW p \in Processes,
         Sound(task[p], policy, enabled, marker), Step(p)
  PROVE  Sound(task'[p], policy', enabled', marker') /\ Others(p)
<1> DEFINE after == Sound(task'[p], policy', enabled', marker') /\ Others(p)
           good == Saved(task[p], policy, enabled, marker)
                     /\ (SetsLast(task[p].todo, "deny") \/ Undoing(task[p]))
           kept == Saved(task[p], policy', enabled', marker')
<1>1. task[p] \in Tasks /\ task'[p] \in Tasks
      BY DEF TypeInv
<1>2. ASSUME task[p].todo # <<>>
      PROVE  task[p].todo[1] = Next1(p) /\ task[p].todo \in Seq(SafeCommands)
             /\ Next1(p) \in SafeCommands /\ Len(task[p].todo) \in Nat \ {0}
             /\ 1 \in 1 .. Len(task[p].todo)
  <2>1. task[p].todo[1] = Next1(p) /\ Len(task[p].todo) \in Nat \ {0}
        BY <1>1, <1>2, Advances DEF Tasks, Next1
  <2>2. task[p].todo \in Seq(SafeCommands) /\ Next1(p) \in SafeCommands
        BY <1>1, <1>2, TodoTypes DEF Tasks
  <2>3. 1 \in 1 .. Len(task[p].todo)
        BY <2>1
  <2> QED BY <2>1, <2>2, <2>3
<1>3. \A kind : Fail(kind) => kind \notin {"savePolicy", "stopUnlessDeny", "status", "verbose"}
      BY FirewallAssumption DEF Fail, ReadsSucceed
<1>4. ASSUME ufwVars' = ufwVars, good PROVE kept
  <2>1. policy' = policy /\ enabled' = enabled /\ marker' = marker
        BY <1>4 DEF ufwVars
  <2>2. Saved(task[p], policy, enabled, marker)
        BY <1>4
  <2> QED BY <2>1, <2>2
<1>5. CASE WriteFails(p)
  <2>1. task[p].todo # <<>> /\ ufwVars' = ufwVars
        /\ Next1(p).do \notin {"savePolicy", "stopUnlessDeny"}
        BY <1>3, <1>5 DEF WriteFails
  <2>2. CASE \E r \in task[p].listed : Swept(p, r)
    <3>1. Advanced(p)
          BY <2>2, SweptAdvances
    <3> QED BY <1>4, <2>1, <3>1, AdvancedSound DEF Advanced
  <2>3. CASE AfterFailure(p)
    <3>1. CASE Next1(p).strict
      <4>1. Proceed(p, task[p], Rollback(task[p]))
            BY <2>3, <3>1 DEF AfterFailure
      <4>2. Sound(task'[p], policy', enabled', marker')
            BY <2>1, <3>1, <4>1, FailureSound
      <4>3. Continues(p, task[p], Rollback(task[p]))
            BY <1>1, <4>1, ProceedContinues
      <4> QED BY <4>2, <4>3 DEF Continues
    <3>2. CASE ~Next1(p).strict
      <4>1. Advanced(p)
            BY <2>3, <3>2, DoneAdvances DEF AfterFailure
      <4> QED BY <1>4, <2>1, <4>1, AdvancedSound DEF Advanced
    <3> QED BY <3>1, <3>2
  <2> QED BY <1>5, <2>2, <2>3 DEF WriteFails
<1>6. CASE DoAdd(p)
  <2>1. /\ task[p].todo # <<>> /\ Next1(p).do = "add" /\ Done(p)
        /\ UNCHANGED <<policy, enabled, marker>>
        BY <1>6 DEF DoAdd, Doing
  <2>2. good => kept
        BY <2>1 DEF Saved
  <2>3. Advanced(p)
        BY <2>1, DoneAdvances
  <2> QED BY <2>1, <2>2, <2>3, AdvancedSound DEF Advanced
<1>7. CASE DoDelete(p)
  <2>1. /\ task[p].todo # <<>> /\ Next1(p).do = "delete"
        /\ UNCHANGED <<policy, enabled, marker>>
        /\ \E r \in task[p].listed : Swept(p, r)
        BY <1>7 DEF DoDelete, Doing
  <2>2. good => kept
        BY <2>1 DEF Saved
  <2>3. Advanced(p)
        BY <2>1, SweptAdvances
  <2> QED BY <2>1, <2>2, <2>3, AdvancedSound DEF Advanced
<1>8. CASE DoPolicy(p)
  <2>1. /\ task[p].todo # <<>> /\ Next1(p).do = "policy" /\ Done(p)
        /\ policy' = Next1(p).verb /\ UNCHANGED <<enabled, marker>>
        BY <1>8 DEF DoPolicy, Doing
  <2>2. Advanced(p) /\ Continues(p, task[p], Tail(task[p].todo))
        BY <2>1, DoneAdvances
  <2>3. CASE task'[p] = Idle
        BY <2>2, <2>3, IdleIsSound DEF Advanced
  <2>4. CASE task'[p] # Idle
    <3>1. Tail(task[p].todo) # <<>>
          BY <2>2, <2>4 DEF Continues
    <3>2. 1 # Len(task[p].todo)
      <4>1. Len(Tail(task[p].todo)) = Len(task[p].todo) - 1
            /\ Tail(task[p].todo) \in Seq(SafeCommands)
            BY <1>2, <2>1, HeadTailProperties
      <4>2. Len(Tail(task[p].todo)) # 0
            BY <3>1, <4>1, EmptySeq
      <4> QED BY <4>1, <4>2
    <3>3. ~SetsLast(task[p].todo, "deny")
          BY <1>2, <2>1, <3>2 DEF SetsLast
    <3>4. ASSUME good PROVE kept
      <4>1. Undoing(task[p])
            BY <3>3, <3>4
      <4>2. Next1(p).verb = IF task[p].prev = "" THEN "allow" ELSE task[p].prev
            BY <1>2, <2>1, <4>1 DEF Undoing
      <4>3. policy' = "deny" => task[p].prev # "allow"
            BY <2>1, <4>2
      <4> QED BY <2>1, <3>4, <4>3 DEF Saved
    <3> QED BY <2>1, <2>2, <3>4, AdvancedSound DEF Advanced
  <2> QED BY <2>3, <2>4
<1>9. CASE DoClear(p)
  <2>1. task[p].todo # <<>> /\ Next1(p).do = "clear" /\ ufwVars' = ufwVars
        BY <1>9 DEF DoClear, Doing
  <2> DEFINE found == Tagged(Next1(p).tag)
             ahead == <<Sweep>> \o Tail(task[p].todo)
  <2>2. Done(p) \/ task' = [task EXCEPT ![p].todo = ahead, ![p].listed = found]
        BY <1>9 DEF DoClear
  <2> HIDE DEF found, ahead
  <2>3. ASSUME task' = [task EXCEPT ![p].todo = ahead, ![p].listed = found]
        PROVE  Advanced(p)
    <3>1. task'[p].op = task[p].op /\ task'[p].prev = task[p].prev /\ task'[p].todo = ahead
          BY <1>1, <2>3 DEF TypeInv, Tasks
    <3>2. Others(p)
          BY <2>3 DEF TypeInv, Others
    <3> QED BY <3>1, <3>2 DEF Advanced, ahead
  <2>4. Advanced(p)
        BY <2>2, <2>3, DoneAdvances
  <2> QED BY <1>4, <2>1, <2>4, AdvancedSound DEF Advanced
<1>10. CASE DoActivate(p)
  <2>1. /\ task[p].todo # <<>> /\ Next1(p).do = "activate" /\ Done(p) /\ policy' = policy
        /\ enabled' = TRUE /\ marker' = (marker \/ ~enabled)
        BY <1>3, <1>10 DEF DoActivate, Doing
  <2>2. good => kept
        BY <2>1 DEF Saved
  <2>3. Advanced(p)
        BY <2>1, DoneAdvances
  <2> QED BY <2>1, <2>2, <2>3, AdvancedSound DEF Advanced
<1>11. CASE DoRelease(p)
  <2>1. /\ task[p].todo # <<>> /\ Next1(p).do = "release" /\ Done(p) /\ policy' = policy
        /\ \/ enabled' = enabled /\ marker' = marker
           \/ enabled' = FALSE
        BY <1>11 DEF DoRelease, Doing
  <2>2. good => kept
        BY <2>1 DEF Saved
  <2>3. Advanced(p)
        BY <2>1, DoneAdvances
  <2> QED BY <2>1, <2>2, <2>3, AdvancedSound DEF Advanced
<1>12. CASE DoSavePolicy(p)
  <2> DEFINE t == [task[p] EXCEPT !.prev = PolicyRead]
             rest == Tail(task[p].todo)
  <2>1. /\ task[p].todo # <<>> /\ Next1(p).do = "savePolicy" /\ ufwVars' = ufwVars
        /\ Proceed(p, t, rest)
        BY <1>3, <1>12 DEF DoSavePolicy, Doing
  <2>2. PolicyRead \in {"", "allow", "deny"}
        BY DEF PolicyRead, TypeInv
  <2>3. t \in Tasks /\ t.op = task[p].op /\ t.prev = PolicyRead
        BY <1>1, <2>2 DEF Tasks
  <2>4. Continues(p, t, rest)
        BY <2>1, <2>3, ProceedContinues
  <2>5. Sound(task'[p], policy', enabled', marker')
    <3>1. CASE task'[p] = Idle
          BY <3>1, IdleIsSound
    <3>2. CASE task'[p] # Idle
      <4> DEFINE u == task'[p]
      <4>1. u.op = task[p].op /\ u.prev = PolicyRead /\ u.todo = rest
            BY <2>3, <2>4, <3>2 DEF Continues
      <4>2. policy' = policy /\ enabled' = enabled /\ marker' = marker
            BY <2>1 DEF ufwVars
      <4>3. Saved(u, policy', enabled', marker')
            BY <4>1, <4>2 DEF Saved, PolicyRead, TypeInv
      <4>4. ASSUME u.op.call \in Seals PROVE SealSound(u, policy', enabled', marker')
        <5>1. SealSound(task[p], policy, enabled, marker)
              BY <4>1, <4>4 DEF Sound
        <5>2. ~Undoing(task[p])
              BY <1>2, <2>1 DEF Undoing
        <5>3. task[p].op \in Operations
              BY <1>1 DEF Tasks
        <5>4. StopUnlessDeny.do = "stopUnlessDeny"
              BY DEF StopUnlessDeny, Command
        <5>5. task[p].todo = SealRules(task[p].op) \/ SetsLast(task[p].todo, "deny")
              BY <1>2, <2>1, <4>1, <4>4, <5>1, <5>2, <5>3, <5>4, ScriptShape
              DEF SealSound, Seals
        <5>6. SetsLast(task[p].todo, "deny")
              BY <5>3, <5>5, SealRulesShape
        <5>7. SetsLast(rest, "deny")
              BY <1>2, <2>1, <5>6, TailSets
        <5> QED BY <4>1, <4>3, <5>7 DEF SealSound
      <4>5. ASSUME u.op.call \in Rebuilds, u.op.ks PROVE SetsOnly(u.todo, "deny")
        <5>1. SetsOnly(task[p].todo, "deny")
              BY <4>1, <4>5 DEF Sound
        <5> QED BY <1>2, <2>1, <4>1, <5>1, TailSets
      <4>6. ASSUME u.op.call \in {"stealth", "block"} PROVE u.todo \in Seq(RuleCommands)
        <5>1. task[p].todo \in Seq(RuleCommands)
              BY <4>1, <4>6 DEF Sound
        <5> QED BY <2>1, <4>1, <5>1, HeadTailProperties
      <4>7. u.op.call # "none"
            BY <2>1, <4>1 DEF Sound
      <4> QED BY <4>4, <4>5, <4>6, <4>7 DEF Sound
    <3> QED BY <3>1, <3>2
  <2> QED BY <2>4, <2>5 DEF Continues
<1>13. CASE DoStopUnlessDeny(p)
  <2> DEFINE rest == Tail(task[p].todo)
  <2>1. /\ task[p].todo # <<>> /\ Next1(p).do = "stopUnlessDeny" /\ ufwVars' = ufwVars
        /\ Proceed(p, task[p], rest) \/ Proceed(p, task[p], <<>>)
        BY <1>13 DEF DoStopUnlessDeny, Doing
  <2>2. Continues(p, task[p], rest) \/ Continues(p, task[p], <<>>)
        BY <1>1, <2>1, ProceedContinues
  <2>3. Others(p)
        BY <2>2 DEF Continues
  <2>4. CASE task'[p] = Idle
        BY <2>3, <2>4, IdleIsSound
  <2>5. CASE task'[p] # Idle
    <3> DEFINE u == task'[p]
    <3>1. u.op = task[p].op /\ u.prev = task[p].prev /\ u.todo = rest
          BY <2>2, <2>5 DEF Continues
    <3>2. policy' = policy /\ enabled' = enabled /\ marker' = marker
          BY <2>1 DEF ufwVars
    <3>3. ASSUME u.op.call \in Seals PROVE SealSound(u, policy', enabled', marker')
      <4>1. SealSound(task[p], policy, enabled, marker)
            BY <3>1, <3>3 DEF Sound
      <4>2. ~Undoing(task[p])
            BY <1>2, <2>1 DEF Undoing
      <4>3. task[p].op \in Operations
            BY <1>1 DEF Tasks
      <4>4. SavePolicy.do = "savePolicy"
            BY DEF SavePolicy, Command
      <4>5. CASE task[p].prev = "" /\ task[p].todo \in {Script(task[p].op), SealRules(task[p].op)}
        <5>1. task[p].todo # SealRules(task[p].op)
              BY <1>2, <2>1, <4>3, <4>4, SealRulesShape
        <5>2. task[p].todo = Script(task[p].op) /\ task[p].op.call = "update"
              BY <3>1, <3>3, <4>3, <4>5, <5>1, ScriptShape DEF Seals
        <5>3. rest = SealRules(task[p].op)
              BY <4>3, <5>2, ScriptShape
        <5> QED BY <3>1, <4>5, <5>3 DEF SealSound
      <4>6. CASE Saved(task[p], policy, enabled, marker) /\ SetsLast(task[p].todo, "deny")
        <5>1. Saved(u, policy', enabled', marker')
              BY <3>1, <3>2, <4>6 DEF Saved
        <5>2. SetsLast(rest, "deny")
              BY <1>2, <2>1, <4>6, TailSets
        <5> QED BY <3>1, <5>1, <5>2 DEF SealSound
      <4> QED BY <4>1, <4>2, <4>5, <4>6 DEF SealSound
    <3>4. ASSUME u.op.call \in Rebuilds, u.op.ks PROVE SetsOnly(u.todo, "deny")
      <4>1. SetsOnly(task[p].todo, "deny")
            BY <3>1, <3>4 DEF Sound
      <4> QED BY <1>2, <2>1, <3>1, <4>1, TailSets
    <3>5. ASSUME u.op.call \in {"stealth", "block"} PROVE u.todo \in Seq(RuleCommands)
      <4>1. task[p].todo \in Seq(RuleCommands)
            BY <3>1, <3>5 DEF Sound
      <4> QED BY <2>1, <3>1, <4>1, HeadTailProperties
    <3>6. u.op.call # "none"
          BY <2>1, <3>1 DEF Sound
    <3>7. Sound(u, policy', enabled', marker')
          BY <3>3, <3>4, <3>5, <3>6 DEF Sound
    <3> QED BY <2>3, <3>7
  <2> QED BY <2>4, <2>5
<1>14. CASE DoRefuse(p)
  <2>1. /\ task[p].todo # <<>> /\ Next1(p).do = "refuse" /\ ufwVars' = ufwVars
        /\ Proceed(p, task[p], Rollback(task[p]))
        BY <1>14 DEF DoRefuse, Doing
  <2>2. Continues(p, task[p], Rollback(task[p]))
        BY <1>1, <2>1, ProceedContinues
  <2> QED BY <2>1, <2>2, FailureSound DEF Continues
<1>15. CASE DoReassert(p)
  <2> DEFINE op == [task[p].op EXCEPT !.call = "stealth", !.lan = "stealth"]
             t == [task[p] EXCEPT !.op = op]
  <2>1. /\ task[p].todo # <<>> /\ Next1(p).do = "reassert" /\ ufwVars' = ufwVars
        /\ Done(p) \/ Proceed(p, t, LanLayer(op))
        BY <1>15 DEF DoReassert, Doing
  <2>2. op \in Operations /\ op.call = "stealth"
        BY <1>1 DEF Tasks, Operations
  <2>3. t \in Tasks /\ t.op = op
        BY <1>1, <2>2 DEF Tasks
  <2>4. LanLayer(op) \in Seq(RuleCommands)
        BY <2>2, LanLayerShape
  <2>5. CASE Done(p)
    <3>1. Advanced(p)
          BY <2>5, DoneAdvances
    <3> QED BY <1>4, <2>1, <3>1, AdvancedSound DEF Advanced
  <2>6. CASE Proceed(p, t, LanLayer(op))
    <3> HIDE DEF op, t
    <3>1. Continues(p, t, LanLayer(op))
          BY <2>3, <2>6, ProceedContinues
    <3>2. CASE task'[p] = Idle
          BY <3>1, <3>2, IdleIsSound DEF Continues
    <3>3. CASE task'[p] # Idle
      <4>1. task'[p].op = op /\ task'[p].todo = LanLayer(op)
            BY <2>3, <3>1, <3>3 DEF Continues
      <4>2. Sound(task'[p], policy', enabled', marker')
            BY <2>2, <2>4, <4>1 DEF Sound, Seals, Rebuilds
      <4> QED BY <3>1, <4>2 DEF Continues
    <3> QED BY <3>2, <3>3
  <2> QED BY <2>1, <2>5, <2>6
<1> QED BY <1>5, <1>6, <1>7, <1>8, <1>9, <1>10, <1>11, <1>12, <1>13, <1>14, <1>15 DEF Step

\* An operation that starts leaves its process sound, and the others alone.
LEMMA StartedSound ==
  ASSUME TypeInv, NEW p \in Processes, NEW op \in Operations, op.call # "none", Start(p, op)
  PROVE  Sound(task'[p], policy', enabled', marker') /\ Others(p)
<1> DEFINE t == [Idle EXCEPT !.op = op, !.todo = Script(op)]
<1>1. t.op = op /\ t.todo = Script(op) /\ t.prev = ""
      BY DEF Idle
<1>2. task' = [task EXCEPT ![p] = t] /\ task \in [Processes -> Tasks]
      BY DEF Start, TypeInv
<1> HIDE DEF t
<1>3. task'[p] = t /\ Others(p)
      BY <1>2 DEF Others
<1>4. Sound(t, policy', enabled', marker')
      BY <1>1, StartSound
<1> QED BY <1>3, <1>4

\* Operations run one at a time, and the commands to come are sound.
LEMMA SealInvInductive ==
  ASSUME Serial = TRUE, ReadsSucceed
  PROVE  /\ Init => SealInv
         /\ SealInv /\ [Next]_vars => SealInv'
<1>1. Init => SealInv
  <2> SUFFICES ASSUME Init PROVE SealInv
      OBVIOUS
  <2>1. \A p \in Processes : task[p] = Idle
        BY DEF Init
  <2> QED BY <2>1, TypeInvInductive, IdleIsSound DEF SealInv, OneAtATime, Quiet
<1>2. ASSUME SealInv, Next PROVE SealInv'
  <2>1. TypeInv /\ TypeInv'
        BY <1>2, TypeInvInductive DEF SealInv
  <2> DEFINE one(p) == /\ \A q \in Processes : q # p => Quiet(q)
                       /\ Sound(task'[p], policy', enabled', marker') /\ Others(p)
             same == UNCHANGED <<task, ufwVars>>
  <2>2. same \/ \E p \in Processes : one(p)
    <3>1. CASE Daemon
      <4>1. "daemon" \in Processes /\ (Free("daemon") => AllQuiet)
            BY DEF Processes, Free
      <4>2. CASE UNCHANGED task
            BY <2>1, <3>1, <4>2, DaemonStarts DEF OnlyTask
      <4>3. CASE \E op \in Operations : op.call # "none" /\ Start("daemon", op)
            BY <2>1, <3>1, <4>1, <4>3, DaemonStarts, StartedSound DEF AllQuiet
      <4> QED BY <2>1, <3>1, <4>2, <4>3, DaemonStarts
    <3>2. CASE User
      <4>1. PICK op \in Commanded \cup Posture \cup Installed : Start("user", op)
            BY <3>2 DEF User
      <4>2. op \in Operations /\ op.call # "none"
            BY <2>1, UserOpTypes
      <4>3. AllQuiet /\ "user" \in Processes
            BY <3>2 DEF User, Free, Processes
      <4> QED BY <2>1, <4>1, <4>2, <4>3, StartedSound DEF AllQuiet
    <3>3. ASSUME NEW p \in Processes, Step(p) PROVE one(p)
      <4>1. task[p].todo # <<>>
            BY <3>3 DEF Step, WriteFails, DoAdd, DoDelete, DoPolicy, DoClear, DoActivate,
               DoRelease, DoSavePolicy, DoStopUnlessDeny, DoRefuse, DoReassert, Doing
      <4>2. ~Quiet(p)
        <5>1. Idle.todo = <<>>
              BY DEF Idle
        <5> QED BY <4>1, <5>1 DEF Quiet
      <4>3. \A q \in Processes : q # p => Quiet(q)
            BY <1>2, <4>2 DEF SealInv, OneAtATime
      <4>4. Sound(task[p], policy, enabled, marker)
            BY <1>2 DEF SealInv
      <4> QED BY <2>1, <3>3, <4>3, <4>4, SoundStep
    <3> QED BY <1>2, <3>1, <3>2, <3>3 DEF Next
  <2>3. ASSUME same PROVE SealInv'
    <3>1. task' = task /\ policy' = policy /\ enabled' = enabled /\ marker' = marker
          BY <2>3 DEF ufwVars
    <3> QED BY <1>2, <2>1, <3>1 DEF SealInv, OneAtATime, Quiet
  <2>4. ASSUME NEW p \in Processes, one(p) PROVE SealInv'
    <3>1. \A q \in Processes : q # p => task'[q] = Idle
          BY <2>4 DEF Others, Quiet
    <3>2. \A q \in Processes : Sound(task'[q], policy', enabled', marker')
          BY <2>4, <3>1, IdleIsSound
    <3>3. OneAtATime'
          BY <3>1 DEF OneAtATime, Quiet
    <3> QED BY <2>1, <3>2, <3>3 DEF SealInv
  <2> QED BY <2>2, <2>3, <2>4
<1>3. SealInv /\ UNCHANGED vars => SealInv'
  <2> SUFFICES ASSUME SealInv, UNCHANGED vars PROVE SealInv'
      OBVIOUS
  <2>1. TypeInv'
        BY TypeInvInductive DEF SealInv
  <2>2. task' = task /\ policy' = policy /\ enabled' = enabled /\ marker' = marker
        BY DEF vars, ufwVars
  <2> QED BY <2>1, <2>2 DEF SealInv, OneAtATime, Quiet
<1> QED BY <1>1, <1>2, <1>3

\* With the killswitch on over a ufw of the user's own, only setting the default
\* policy opens the physical interface.
LEMMA OnlyPolicyOpens ==
  ASSUME TypeInv, TypeInv', KillswitchOn, ~marker, Passes(Plain("wan"))',
         NEW p \in Processes, Step(p)
  PROVE  DoPolicy(p) /\ Next1(p).verb = "allow"
<1>1. enabled' = TRUE
  <2>1. enabled = TRUE
        BY DEF KillswitchOn, TypeInv
  <2>2. ASSUME DoRelease(p) PROVE enabled' = enabled
        BY <2>2 DEF DoRelease
  <2>3. ASSUME DoActivate(p) PROVE enabled' = TRUE
        BY <2>3 DEF DoActivate
  <2>4. ASSUME ~DoRelease(p), ~DoActivate(p) PROVE enabled' = enabled
        BY <2>4 DEF Step, WriteFails, DoAdd, DoDelete, DoPolicy, DoClear, DoSavePolicy,
           DoStopUnlessDeny, DoRefuse, DoReassert, ufwVars
  <2> QED BY <2>1, <2>2, <2>3, <2>4
<1>2. policy' = "allow"
  <2>1. SUFFICES ASSUME policy' # "allow" PROVE FALSE
        OBVIOUS
  <2>2. Covering(Plain("wan")) = {Plain("physOut")}
        BY WanCovered
  <2>3. PICK i \in DOMAIN rules' : rules'[i].match = Plain("physOut") /\ rules'[i].verb = "allow"
        BY <1>1, <2>1, <2>2 DEF Passes, Accepted, Hits
  <2>4. rules'[i] \in SafeRules
        BY <2>3, LenProperties, ElementOfSeq DEF TypeInv
  <2> QED BY <2>3, <2>4 DEF SafeRules
<1>3. DoPolicy(p)
  <2>1. policy' # policy
        BY <1>2 DEF KillswitchOn
  <2> QED BY <2>1 DEF Step, WriteFails, DoAdd, DoDelete, DoClear, DoActivate, DoRelease,
          DoSavePolicy, DoStopUnlessDeny, DoRefuse, DoReassert, ufwVars
<1> QED BY <1>2, <1>3 DEF DoPolicy

\* No command to come sets it, unless the operation was asked to.
LEMMA OpensIfAsked ==
  ASSUME TypeInv, KillswitchOn, ~marker, NEW p \in Processes,
         Sound(task[p], policy, enabled, marker), DoPolicy(p), Next1(p).verb = "allow"
  PROVE  Opening
<1> DEFINE t == task[p]
<1>1. t \in Tasks /\ t.todo # <<>> /\ t.todo[1].do = "policy" /\ t.todo[1].verb = "allow"
  <2>1. t \in Tasks
        BY DEF TypeInv
  <2>2. t.todo # <<>> /\ Next1(p).do = "policy"
        BY DEF DoPolicy, Doing
  <2>3. t.todo[1] = Next1(p)
        BY <2>1, <2>2, Advances DEF Tasks, Next1
  <2> QED BY <2>1, <2>2, <2>3
<1>2. t.op \in Operations /\ t.todo \in Seq(SafeCommands)
      BY <1>1 DEF Tasks
<1>3. 1 \in 1 .. Len(t.todo)
  <2>1. Len(t.todo) \in Nat \ {0}
        BY <1>1, <1>2, Advances
  <2> QED BY <2>1
<1>4. t.op.call \notin Seals
  <2> SUFFICES ASSUME t.op.call \in Seals PROVE FALSE
      OBVIOUS
  <2>1. SealSound(t, policy, enabled, marker)
        BY DEF Sound
  <2>2. SavePolicy.do = "savePolicy" /\ StopUnlessDeny.do = "stopUnlessDeny"
        BY DEF SavePolicy, StopUnlessDeny, Command
  <2>3. SealRules(t.op)[1] = SavePolicy
        BY <1>2, SealRulesShape
  <2>4. Script(t.op)[1] = SavePolicy \/ Script(t.op)[1] = StopUnlessDeny
        BY <1>2, <2>3, ScriptShape DEF Seals
  <2>5. Saved(t, policy, enabled, marker) /\ (SetsLast(t.todo, "deny") \/ Undoing(t))
        BY <1>1, <2>1, <2>2, <2>3, <2>4 DEF SealSound
  <2>6. t.prev # "" /\ t.prev # "allow"
        BY <2>5 DEF Saved, KillswitchOn
  <2>7. ~SetsLast(t.todo, "deny")
        BY <1>1, <1>3 DEF SetsLast
  <2>8. ~Undoing(t)
        BY <1>1, <1>3, <2>6 DEF Undoing
  <2> QED BY <2>5, <2>7, <2>8
<1>5. t.op.call \in Rebuilds => ~t.op.ks
  <2> SUFFICES ASSUME t.op.call \in Rebuilds, t.op.ks PROVE FALSE
      OBVIOUS
  <2>1. SetsOnly(t.todo, "deny")
        BY DEF Sound
  <2> QED BY <1>1, <1>3, <2>1 DEF SetsOnly
<1>6. t.op.call \notin {"stealth", "block"}
  <2> SUFFICES ASSUME t.op.call \in {"stealth", "block"} PROVE FALSE
      OBVIOUS
  <2>1. t.todo \in Seq(RuleCommands)
        BY DEF Sound
  <2>2. t.todo[1] \in RuleCommands
        BY <1>3, <2>1, ElementOfSeq
  <2> QED BY <1>1, <2>2 DEF RuleCommands
<1>7. t.op.call # "none"
      BY <1>1 DEF Sound
<1>8. t.op.call \in {"disable", "teardown"} \cup Rebuilds
      BY <1>2, <1>4, <1>6, <1>7 DEF Operations, Seals, Rebuilds
<1> HIDE DEF t
<1> QED BY <1>5, <1>8 DEF Opening, Rebuilds, t

\* While no two operations overlap and ufw can be read, an operation that was not
\* asked to open the killswitch does not open it on a ufw of the user's own,
\* whichever of its commands fail and however often (enableLocked, EnableSimple,
\* Update, reconcileLocked and their rollbacks).
THEOREM SealKeptAlways ==
  ASSUME Serial = TRUE, ReadsSucceed
  PROVE  Spec => SealKept
<1>1. Spec => []SealInv
      BY SealInvInductive, PTL DEF Spec
<1> DEFINE kept == (KillswitchOn /\ ~marker /\ Passes(Plain("wan"))') => Opening
<1>2. SealInv /\ SealInv' /\ [Next]_vars => [kept]_vars
  <2> SUFFICES ASSUME SealInv, SealInv', Next, KillswitchOn, ~marker, Passes(Plain("wan"))'
               PROVE  Opening
      BY DEF kept
  <2>1. TypeInv /\ TypeInv'
        BY DEF SealInv
  <2>2. ASSUME UNCHANGED ufwVars PROVE FALSE
    <3>1. Passes(Plain("wan")) /\ enabled = TRUE /\ policy = "deny"
          BY <2>2 DEF Passes, Accepted, Hits, ufwVars, KillswitchOn, TypeInv, SealInv
    <3>2. NoClearnet
          BY <2>1, ClearnetClosed
    <3> QED BY <3>1, <3>2 DEF NoClearnet, KillswitchOn
  <2>3. CASE Daemon
        BY <2>1, <2>2, <2>3, DaemonStarts DEF OnlyTask
  <2>4. CASE User
        BY <2>2, <2>4 DEF User, OnlyTask
  <2>5. ASSUME NEW p \in Processes, Step(p) PROVE Opening
    <3>1. Sound(task[p], policy, enabled, marker)
          BY DEF SealInv
    <3>2. DoPolicy(p) /\ Next1(p).verb = "allow"
          BY <2>1, <2>5, OnlyPolicyOpens
    <3> QED BY <2>1, <3>1, <3>2, OpensIfAsked
  <2> QED BY <2>3, <2>4, <2>5 DEF Next
<1> QED BY <1>1, <1>2, PTL DEF Spec, SealKept

-----------------------------------------------------------------------------
(* One Local Network mode, and its admission in front of the reject.        *)

Lan == {"la", "st", "lb"}

\* Commands that admit the LAN, or turn into others that do.
Admits(c) ==
  \/ c.do = "reassert"
  \/ c.do = "add" /\ c.match = Plain("lanOut") /\ c.verb = "allow"

\* The tags whose rules have to be gone when a command runs: those of the other
\* modes and, where the LAN is admitted, the killswitch's, among them the reject
\* that would keep its place in front.
Conflicts(c) ==
  (IF c.do = "add" /\ c.tag \in Lan THEN Lan \ {c.tag} ELSE {})
  \cup (IF Admits(c) THEN {"ks"} ELSE {})

\* The rules of tag are gone when the i-th command runs: there are none to start
\* with or an earlier command clears them, and no earlier one adds any.
Cleared(tag, i, s, gone) ==
  /\ tag \in gone \/ \E j \in 1 .. i - 1 : s[j].do = "clear" /\ s[j].tag = tag
  /\ \A j \in 1 .. i - 1 : s[j].do = "add" => s[j].tag # tag

Orderly(s, gone) ==
  \A i \in 1 .. Len(s) : \A tag \in Conflicts(s[i]) : Cleared(tag, i, s, gone)

\* No match has two rules, no two modes have rules, and a rule that admits the LAN
\* is in front of the one that rejects what leaves on the physical interface.
Distinct(rs) == \A i, j \in 1 .. Len(rs) : rs[i].match = rs[j].match => i = j
OneMode(rs) ==
  \A i, j \in 1 .. Len(rs) : rs[i].tag \in Lan /\ rs[j].tag \in Lan => rs[i].tag = rs[j].tag
AdmitFirst(rs) ==
  \A i, j \in 1 .. Len(rs) :
     rs[i].match = Plain("lanOut") /\ rs[i].verb = "allow" /\ rs[j].match = Plain("physOut")
       => i < j
Arranged(rs) == Distinct(rs) /\ OneMode(rs) /\ AdmitFirst(rs)

\* The tags of which there are no rules but those about to be deleted.
Gone(rs, listed) ==
  {tag \in Tags \cup {""} : \A i \in 1 .. Len(rs) : rs[i].tag = tag => rs[i] \in listed}

LanSound(t, rs) ==
  /\ Orderly(t.todo, Gone(rs, t.listed))
  /\ t.listed # {} => t.todo # <<>> /\ Head(t.todo).do = "delete"

LanInv ==
  /\ TypeInv /\ OneAtATime /\ Arranged(rules)
  /\ \A p \in Processes : LanSound(task[p], rules)

\* What the type invariant says of the rules one by one.
LEMMA RulesTyped ==
  ASSUME TypeInv
  PROVE  /\ Len(rules) \in Nat /\ DOMAIN rules = 1 .. Len(rules)
         /\ \A i \in 1 .. Len(rules) : rules[i] \in SafeRules
BY LenProperties, ElementOfSeq DEF TypeInv

\* A rule is added at the end, or takes the place of the one with its match.
LEMMA AddPlaces ==
  ASSUME TypeInv, Distinct(rules), NEW c, AddRule(c.match, c.verb, c.tag)
  PROVE  \E k \in 1 .. Len(rules') :
            /\ rules'[k] = [match |-> c.match, verb |-> c.verb, tag |-> c.tag]
            /\ \/ Len(rules') = Len(rules) /\ rules[k].match = c.match
               \/ Len(rules') = Len(rules) + 1 /\ k = Len(rules')
            /\ \A i \in 1 .. Len(rules') :
                  i # k => /\ i \in 1 .. Len(rules) /\ rules'[i] = rules[i]
                           /\ rules[i].match # c.match
<1> DEFINE n == Len(rules)
           new == [match |-> c.match, verb |-> c.verb, tag |-> c.tag]
           Fits(k) ==
             /\ rules'[k] = new
             /\ \/ Len(rules') = Len(rules) /\ rules[k].match = c.match
                \/ Len(rules') = Len(rules) + 1 /\ k = Len(rules')
             /\ \A i \in 1 .. Len(rules') :
                   i # k => /\ i \in 1 .. Len(rules) /\ rules'[i] = rules[i]
                            /\ rules[i].match # c.match
<1>1. n \in Nat /\ DOMAIN rules = 1 .. n
      BY RulesTyped
<1> SUFFICES \E k \in 1 .. Len(rules') : Fits(k)
    OBVIOUS
<1> HIDE DEF new, Fits
<1>2. CASE At(c.match) = {}
  <2>1. rules' = Append(rules, new)
        BY <1>2 DEF AddRule, new
  <2>2. \A i \in 1 .. n : rules[i].match # c.match
        BY <1>1, <1>2 DEF At
  <2>3. Len(rules') = n + 1 /\ rules'[n + 1] = new /\ \A i \in 1 .. n : rules'[i] = rules[i]
        BY <1>1, <2>1 DEF TypeInv
  <2> DEFINE k == n + 1
  <2>4. /\ k \in 1 .. Len(rules') /\ k = Len(rules')
        /\ \A i \in 1 .. Len(rules') : i # k => i \in 1 .. n
        BY <1>1, <2>3
  <2>5. rules'[k] = new
        BY <2>3
  <2> HIDE DEF k
  <2>6. \A i \in 1 .. Len(rules') :
           i # k => i \in 1 .. n /\ rules'[i] = rules[i] /\ rules[i].match # c.match
        BY <2>2, <2>3, <2>4
  <2>7. Len(rules') = Len(rules) + 1 /\ k = Len(rules')
        BY <2>3, <2>4
  <2>8. Fits(k)
        BY <2>5, <2>6, <2>7 DEF Fits, n
  <2> QED BY <2>4, <2>8
<1>3. CASE At(c.match) # {}
  <2>1. rules' = [i \in 1 .. n |-> IF i \in At(c.match) THEN new ELSE rules[i]]
        BY <1>1, <1>3 DEF AddRule, new
  <2>2. Len(rules') = n
        BY <1>1, <2>1
  <2>3. PICK k \in 1 .. n : rules[k].match = c.match
        BY <1>1, <1>3 DEF At
  <2>4. \A i \in 1 .. n : i # k => rules[i].match # c.match
        BY <2>3 DEF Distinct
  <2>5. rules'[k] = new /\ \A i \in 1 .. n : i # k => rules'[i] = rules[i]
        BY <1>1, <2>1, <2>3, <2>4 DEF At
  <2>6. Fits(k)
        BY <2>2, <2>3, <2>4, <2>5 DEF Fits
  <2> QED BY <2>2, <2>6
<1> QED BY <1>2, <1>3

\* A rule added when what conflicts with it is gone leaves the rules arranged, and
\* brings no rule of another tag.
LEMMA AddArranged ==
  ASSUME TypeInv, TypeInv', Arranged(rules), NEW c \in SafeCommands, c.do = "add",
         AddRule(c.match, c.verb, c.tag), \A tag \in Conflicts(c), i \in 1 .. Len(rules) : rules[i].tag # tag
  PROVE  /\ Arranged(rules')
         /\ \A i \in 1 .. Len(rules') :
               rules'[i].tag # c.tag => \E j \in 1 .. Len(rules) : rules'[i] = rules[j]
<1> DEFINE n == Len(rules)
           m == Len(rules')
           new == [match |-> c.match, verb |-> c.verb, tag |-> c.tag]
<1>1. PICK k \in 1 .. m :
        /\ rules'[k] = new
        /\ \/ m = n /\ rules[k].match = c.match
           \/ m = n + 1 /\ k = m
        /\ \A i \in 1 .. m : i # k => /\ i \in 1 .. n /\ rules'[i] = rules[i]
                                      /\ rules[i].match # c.match
      BY AddPlaces DEF Arranged
<1>2. /\ n \in Nat /\ DOMAIN rules = 1 .. n
      /\ \A i \in 1 .. n : rules[i] \in SafeRules
      BY RulesTyped
<1>3. m \in Nat /\ DOMAIN rules' = 1 .. m
      BY LenProperties DEF TypeInv
<1>4. \A tag \in Conflicts(c), i \in 1 .. n : rules[i].tag # tag
      OBVIOUS
<1>5. new.match = c.match /\ new.verb = c.verb /\ new.tag = c.tag
      OBVIOUS
<1> HIDE DEF new, n, m
<1>6. Distinct(rules')
      BY <1>1, <1>5 DEF Arranged, Distinct, n, m
<1>7. OneMode(rules')
  <2>1. c.tag \in Lan => \A i \in 1 .. n : rules[i].tag \in Lan => rules[i].tag = c.tag
        BY <1>4 DEF Conflicts
  <2> QED BY <1>1, <1>5, <2>1 DEF Arranged, OneMode, n, m
<1>8. AdmitFirst(rules')
  <2>1. Plain("lanOut") # Plain("physOut")
        BY DEF Plain
  <2>2. ASSUME c.match = Plain("lanOut"), c.verb = "allow"
        PROVE  \A i \in 1 .. n : rules[i].match # Plain("physOut")
    <3>1. "ks" \in Conflicts(c)
          BY <2>2 DEF Conflicts, Admits
    <3> QED BY <1>2, <1>4, <3>1 DEF SafeRules
  <2>3. ASSUME NEW i \in 1 .. m, NEW j \in 1 .. m, rules'[i].match = Plain("lanOut"),
               rules'[i].verb = "allow", rules'[j].match = Plain("physOut")
        PROVE  i < j
    <3>1. i # j
          BY <2>1, <2>3
    <3>2. i # k
          BY <1>1, <1>5, <2>2, <2>3, <3>1
    <3>3. i \in 1 .. n /\ rules[i].match = Plain("lanOut") /\ rules[i].verb = "allow"
          BY <1>1, <2>3, <3>2
    <3>4. CASE j # k
          BY <1>1, <2>3, <3>3, <3>4 DEF Arranged, AdmitFirst, n
    <3>5. CASE j = k /\ m = n
      <4>1. rules[k].match = Plain("physOut") /\ k \in 1 .. n
            BY <1>1, <1>2, <1>5, <2>3, <3>5
      <4> QED BY <3>3, <3>5, <4>1 DEF Arranged, AdmitFirst, n
    <3>6. CASE j = k /\ m # n
          BY <1>1, <1>2, <3>3, <3>6
    <3> QED BY <3>4, <3>5, <3>6
  <2> QED BY <2>3 DEF AdmitFirst, m
<1>9. ASSUME NEW i \in 1 .. m, rules'[i].tag # c.tag PROVE i \in 1 .. n /\ rules'[i] = rules[i]
      BY <1>1, <1>5, <1>9
<1> QED BY <1>6, <1>7, <1>8, <1>9 DEF Arranged, n, m

\* What is left when one is removed keeps its order.
LEMMA RemovedAt ==
  ASSUME NEW S, NEW s \in Seq(S), NEW i \in 1 .. Len(s)
  PROVE  /\ Len(RemoveAt(s, i)) = Len(s) - 1
         /\ \A k \in 1 .. Len(s) - 1 : RemoveAt(s, i)[k] = s[IF k < i THEN k ELSE k + 1]
<1> DEFINE a == SubSeq(s, 1, i - 1)
           b == SubSeq(s, i + 1, Len(s))
           n == Len(s)
<1>1. n \in Nat /\ i \in 1 .. n /\ \A k \in 1 .. n : s[k] \in S
      BY LenProperties, ElementOfSeq
<1>2. a \in Seq(S) /\ Len(a) = i - 1 /\ \A k \in 1 .. i - 1 : a[k] = s[k]
      BY <1>1, SubSeqProperties
<1>3. b \in Seq(S) /\ Len(b) = n - i /\ \A k \in 1 .. n - i : b[k] = s[i + k]
      BY <1>1, SubSeqProperties
<1>4. RemoveAt(s, i) = a \o b
      BY DEF RemoveAt
<1> HIDE DEF a, b, n
<1>5. /\ Len(a \o b) = Len(a) + Len(b)
      /\ \A k \in 1 .. Len(a) + Len(b) :
            (a \o b)[k] = IF k <= Len(a) THEN a[k] ELSE b[k - Len(a)]
  <2>1. a \in Seq(S) /\ b \in Seq(S)
        BY <1>2, <1>3
  <2> QED BY ONLY <2>1, ConcatProperties
<1>6. ASSUME NEW k \in 1 .. n - 1 PROVE (a \o b)[k] = s[IF k < i THEN k ELSE k + 1]
  <2> HIDE DEF a, b
  <2>1. (a \o b)[k] = IF k <= i - 1 THEN a[k] ELSE b[k - (i - 1)]
    <3>1. k \in 1 .. Len(a) + Len(b)
          BY <1>1, <1>2, <1>3
    <3> QED BY <1>2, <1>5, <3>1
  <2>2. CASE k < i
        BY <1>1, <1>2, <2>1, <2>2
  <2>3. CASE ~(k < i)
    <3>1. k - (i - 1) \in 1 .. n - i /\ i + (k - (i - 1)) = k + 1
          BY <1>1, <2>3
    <3>2. ~(k <= i - 1)
          BY <1>1, <2>3
    <3> QED BY <1>3, <2>1, <2>3, <3>1, <3>2
  <2> QED BY <2>2, <2>3
<1>7. Len(a \o b) = n - 1
      BY <1>1, <1>2, <1>3, <1>5
<1> QED BY <1>4, <1>6, <1>7 DEF n

\* A rule less leaves the others arranged, and is the only one to go.
LEMMA RemoveArranged ==
  ASSUME TypeInv, TypeInv', Arranged(rules), NEW i \in DOMAIN rules, rules' = RemoveAt(rules, i)
  PROVE  /\ Arranged(rules')
         /\ \A k \in 1 .. Len(rules') : \E l \in 1 .. Len(rules) : l # i /\ rules'[k] = rules[l]
<1> DEFINE n == Len(rules)
           From(k) == IF k < i THEN k ELSE k + 1
<1>1. n \in Nat /\ DOMAIN rules = 1 .. n /\ i \in 1 .. n /\ rules \in Seq(SafeRules)
      BY RulesTyped DEF TypeInv
<1>2. Len(rules') = n - 1 /\ \A k \in 1 .. n - 1 : rules'[k] = rules[From(k)]
      BY <1>1, RemovedAt
<1>3. DOMAIN rules' = 1 .. n - 1
      BY <1>2, LenProperties DEF TypeInv
<1>4. /\ \A k \in 1 .. n - 1 : From(k) \in 1 .. n /\ From(k) # i
      /\ \A k, l \in 1 .. n - 1 : (From(k) = From(l) => k = l) /\ (From(k) < From(l) => k < l)
      BY <1>1
<1> HIDE DEF n, From
<1>6. Distinct(rules')
      BY <1>2, <1>4 DEF Arranged, Distinct, n
<1>7. OneMode(rules')
  <2> SUFFICES ASSUME NEW k \in 1 .. n - 1, NEW l \in 1 .. n - 1,
                      rules'[k].tag \in Lan, rules'[l].tag \in Lan
               PROVE  rules'[k].tag = rules'[l].tag
      BY <1>2 DEF OneMode
  <2>1. rules'[k] = rules[From(k)] /\ rules'[l] = rules[From(l)]
        BY <1>2
  <2>2. From(k) \in 1 .. n /\ From(l) \in 1 .. n
        BY <1>4
  <2> QED BY <2>1, <2>2 DEF Arranged, OneMode, n
<1>8. AdmitFirst(rules')
  <2> SUFFICES ASSUME NEW k \in 1 .. n - 1, NEW l \in 1 .. n - 1,
                      rules'[k].match = Plain("lanOut"), rules'[k].verb = "allow",
                      rules'[l].match = Plain("physOut")
               PROVE  k < l
      BY <1>2 DEF AdmitFirst
  <2>1. From(k) < From(l)
        BY <1>2, <1>4 DEF Arranged, AdmitFirst, n
  <2> QED BY <1>4, <2>1
<1> QED BY <1>2, <1>4, <1>6, <1>7, <1>8 DEF Arranged, n

\* A command less: what it added is there, what it cleared is not.
LEMMA OrderlyTail ==
  ASSUME NEW s \in Seq(SafeCommands), s # <<>>, NEW gone, NEW after, Orderly(s, gone),
         \A tag \in gone : (s[1].do = "add" /\ s[1].tag = tag) \/ tag \in after,
         s[1].do = "clear" => s[1].tag \in after
  PROVE  Orderly(Tail(s), after)
<1> DEFINE r == Tail(s)
<1>1. /\ Len(s) \in Nat \ {0} /\ Len(r) = Len(s) - 1
      /\ \A i \in 1 .. Len(s) - 1 : r[i] = s[i + 1]
      BY Advances
<1> HIDE DEF r
<1>2. ASSUME NEW i \in 1 .. Len(r), NEW tag \in Conflicts(r[i])
      PROVE  Cleared(tag, i, r, after)
  <2>1. i + 1 \in 1 .. Len(s) /\ r[i] = s[i + 1] /\ 1 \in 1 .. (i + 1) - 1
        BY <1>1
  <2>2. Cleared(tag, i + 1, s, gone)
        BY <1>2, <2>1 DEF Orderly
  <2>3. \A j \in 1 .. i - 1 : r[j] = s[j + 1] /\ j + 1 \in 1 .. (i + 1) - 1
        BY <1>1
  <2>4. \A j \in 1 .. i - 1 : r[j].do = "add" => r[j].tag # tag
        BY <2>2, <2>3 DEF Cleared
  <2>5. CASE tag \in gone
        BY <2>1, <2>2, <2>4, <2>5 DEF Cleared
  <2>6. CASE tag \notin gone
    <3>1. PICK j \in 1 .. (i + 1) - 1 : s[j].do = "clear" /\ s[j].tag = tag
          BY <2>2, <2>6 DEF Cleared
    <3>2. CASE j = 1
          BY <2>4, <3>1, <3>2 DEF Cleared
    <3>3. CASE j # 1
      <4>1. j - 1 \in 1 .. i - 1 /\ (j - 1) + 1 = j
            BY <3>3
      <4>2. r[j - 1] = s[j]
            BY <2>3, <4>1
      <4> QED BY <2>4, <3>1, <4>1, <4>2 DEF Cleared
    <3> QED BY <3>2, <3>3
  <2> QED BY <2>5, <2>6
<1> QED BY <1>2 DEF Orderly, r

\* A tag whose deletion has begun is as good as gone.
LEMMA OrderlySweep ==
  ASSUME NEW s \in Seq(SafeCommands), s # <<>>, NEW gone, NEW after, Orderly(s, gone),
         gone \subseteq after, s[1].do = "clear", s[1].tag \in after
  PROVE  Orderly(<<Sweep>> \o Tail(s), after)
<1> DEFINE r == <<Sweep>> \o Tail(s)
<1>1. /\ Len(s) \in Nat \ {0} /\ Len(r) = Len(s) /\ r[1] = Sweep
      /\ \A i \in 2 .. Len(s) : r[i] = s[i]
      BY Advances
<1>2. Sweep.do = "delete" /\ Conflicts(Sweep) = {}
      BY DEF Sweep, Command, Conflicts, Admits
<1> HIDE DEF r
<1>3. ASSUME NEW i \in 1 .. Len(r), NEW tag \in Conflicts(r[i])
      PROVE  Cleared(tag, i, r, after)
  <2>1. i # 1
        BY <1>1, <1>2, <1>3
  <2>2. i \in 1 .. Len(s) /\ r[i] = s[i]
        BY <1>1, <2>1
  <2>3. Cleared(tag, i, s, gone)
        BY <1>3, <2>2 DEF Orderly
  <2>4. \A j \in 1 .. i - 1 : j # 1 => r[j] = s[j]
        BY <1>1
  <2>5. \A j \in 1 .. i - 1 : r[j].do = "add" => r[j].tag # tag
        BY <1>1, <1>2, <2>3, <2>4 DEF Cleared
  <2> QED BY <2>3, <2>4, <2>5 DEF Cleared
<1> QED BY <1>3 DEF Orderly, r

\* Commands that conflict with nothing are orderly wherever they run.
Harmless == {c \in SafeCommands : Conflicts(c) = {}}

\* So are sequences of them.
LEMMA HarmlessOrderly ==
  ASSUME NEW s \in Seq(Harmless), NEW gone
  PROVE  Orderly(s, gone)
BY ElementOfSeq DEF Harmless, Orderly

\* Commands that clear the way, and those of one mode that conflict with no tags
\* but those given.
Preludes == {c \in Harmless : c.do = "add" => c.tag = "v6"}
ModeCommands(mode, tags) ==
  {c \in SafeCommands : (c.do = "add" => c.tag = mode) /\ Conflicts(c) \subseteq tags}

\* A mode's commands are orderly behind others that clear what they conflict with.
LEMMA LayerOrderly ==
  ASSUME NEW a \in Seq(Preludes), NEW mode, NEW tags, mode \notin tags, "v6" \notin tags,
         NEW b \in Seq(ModeCommands(mode, tags)), NEW c \in Seq(Harmless), NEW gone,
         \A tag \in tags : tag \in gone
            \/ \E j \in 1 .. Len(a) : a[j].do = "clear" /\ a[j].tag = tag
  PROVE  a \o b \o c \in Seq(SafeCommands) /\ Orderly(a \o b \o c, gone)
<1> DEFINE S == SafeCommands
           u == a \o b
           s == u \o c
           k == Len(a)
           l == Len(b)
           m == Len(c)
<1>1. a \in Seq(S) /\ b \in Seq(S) /\ c \in Seq(S)
      BY SeqMonotonic DEF Preludes, ModeCommands, Harmless
<1>2. k \in Nat /\ l \in Nat /\ m \in Nat
      BY LenProperties
<1>3. u \in Seq(S) /\ Len(u) = k + l
      /\ \A i \in 1 .. k + l : u[i] = IF i <= k THEN a[i] ELSE b[i - k]
      BY <1>1, ConcatProperties
<1>4. s \in Seq(S) /\ Len(s) = Len(u) + m
      /\ \A i \in 1 .. Len(u) + m : s[i] = IF i <= Len(u) THEN u[i] ELSE c[i - Len(u)]
      BY <1>1, <1>3, ConcatProperties
<1>5. \A i \in 1 .. k : a[i] \in Preludes
      BY ElementOfSeq
<1>6. \A i \in 1 .. l : b[i] \in ModeCommands(mode, tags)
      BY ElementOfSeq
<1>7. \A i \in 1 .. m : c[i] \in Harmless
      BY ElementOfSeq
<1> HIDE DEF u, s, k, l, m
<1>8. \A i \in 1 .. k : s[i] = a[i] /\ s[i] \in Preludes
      BY <1>2, <1>3, <1>4, <1>5
<1>9. \A i \in k + 1 .. k + l : s[i] \in ModeCommands(mode, tags)
  <2> SUFFICES ASSUME NEW i \in k + 1 .. k + l PROVE s[i] \in ModeCommands(mode, tags)
      OBVIOUS
  <2>1. i \in 1 .. k + l /\ i \in 1 .. Len(u) + m /\ i <= Len(u) /\ ~(i <= k)
        /\ i - k \in 1 .. l
        BY <1>2, <1>3
  <2> QED BY <1>3, <1>4, <1>6, <2>1
<1>10. \A i \in k + l + 1 .. k + l + m : s[i] \in Harmless
  <2> SUFFICES ASSUME NEW i \in k + l + 1 .. k + l + m PROVE s[i] \in Harmless
      OBVIOUS
  <2>1. i \in 1 .. Len(u) + m /\ ~(i <= Len(u)) /\ i - Len(u) \in 1 .. m
        BY <1>2, <1>3
  <2> QED BY <1>4, <1>7, <2>1
<1>11. ASSUME NEW i \in 1 .. Len(s), NEW tag \in Conflicts(s[i])
       PROVE  Cleared(tag, i, s, gone)
  <2>1. Len(s) = k + l + m
        BY <1>3, <1>4
  <2>2. s[i] \notin Harmless
        BY <1>11 DEF Harmless
  <2>3. ~(i <= k)
        BY <1>8, <2>2 DEF Preludes
  <2>4. i \in k + 1 .. k + l
        BY <1>2, <1>10, <2>1, <2>2, <2>3
  <2>5. tag \in tags
        BY <1>9, <1>11, <2>4 DEF ModeCommands
  <2>6. ASSUME NEW j \in 1 .. i - 1, s[j].do = "add" PROVE s[j].tag # tag
    <3>1. CASE j <= k
          BY <1>2, <1>8, <2>5, <2>6, <3>1 DEF Preludes
    <3>2. CASE ~(j <= k)
      <4>1. j \in k + 1 .. k + l
            BY <1>2, <2>4, <3>2
      <4> QED BY <1>9, <2>5, <2>6, <4>1 DEF ModeCommands
    <3> QED BY <3>1, <3>2
  <2>7. tag \in gone \/ \E j \in 1 .. i - 1 : s[j].do = "clear" /\ s[j].tag = tag
    <3>1. CASE tag \in gone
          BY <3>1
    <3>2. CASE \E j \in 1 .. k : a[j].do = "clear" /\ a[j].tag = tag
      <4>1. PICK j \in 1 .. k : a[j].do = "clear" /\ a[j].tag = tag
            BY <3>2
      <4>2. j \in 1 .. i - 1
            BY <1>2, <2>4
      <4> QED BY <1>8, <4>1, <4>2
    <3> QED BY <2>5, <3>1, <3>2 DEF k
  <2> QED BY <2>6, <2>7 DEF Cleared
<1> QED BY <1>4, <1>11 DEF Orderly, s, u

\* What conflicts with nothing.
LEMMA HarmlessKinds ==
  /\ \A tag \in Tags : Clear(tag) \in Preludes
  /\ \A strict \in BOOLEAN : Activate(strict) \in Preludes
  /\ \A verb \in {"allow", "deny"}, strict \in BOOLEAN : Policy(verb, strict) \in Preludes
  /\ {Release, SavePolicy, StopUnlessDeny, Refuse} \subseteq Preludes
  /\ \A m \in Matches, verb \in {"allow", "deny", "reject"}, strict \in BOOLEAN :
        m \notin {Plain("lanOut"), Plain("physOut")} => Add(m, verb, "ks", strict) \in Harmless
  /\ \A strict \in BOOLEAN : Add(Plain("physOut"), "reject", "ks", strict) \in Harmless
  /\ \A w \in {"v6Out", "v6In"}, strict \in BOOLEAN :
        Add(Plain(w), "deny", "v6", strict) \in Preludes
<1>1. \A c \in SafeCommands : c.do \notin {"add", "reassert"} => c \in Preludes
      BY DEF Preludes, Harmless, Conflicts, Admits
<1>2. \A tag \in Tags : Clear(tag) \in SafeCommands /\ Clear(tag).do = "clear"
      BY OthersAreSafe DEF RuleCommands, Clear, Command
<1>3. \A strict \in BOOLEAN : Activate(strict) \in SafeCommands /\ Activate(strict).do = "activate"
      BY OthersAreSafe DEF RuleCommands, Activate, Command
<1>4. \A verb \in {"allow", "deny"}, strict \in BOOLEAN :
         Policy(verb, strict) \in SafeCommands /\ Policy(verb, strict).do = "policy"
      BY OthersAreSafe DEF Policy, Command
<1>5. {Release, SavePolicy, StopUnlessDeny, Refuse} \subseteq SafeCommands
      /\ \A c \in {Release, SavePolicy, StopUnlessDeny, Refuse} : c.do \notin {"add", "reassert"}
  <2>1. Release \in SafeCommands /\ SavePolicy \in SafeCommands /\ StopUnlessDeny \in SafeCommands
        /\ Refuse \in SafeCommands
        BY OthersAreSafe DEF RuleCommands
  <2>2. Release.do = "release" /\ SavePolicy.do = "savePolicy"
        /\ StopUnlessDeny.do = "stopUnlessDeny" /\ Refuse.do = "refuse"
        BY DEF Release, SavePolicy, StopUnlessDeny, Refuse, Command
  <2> QED BY <2>1, <2>2
<1>6. ASSUME NEW m \in Matches, NEW verb \in {"allow", "deny", "reject"}, NEW strict \in BOOLEAN,
             m \notin {Plain("lanOut"), Plain("physOut")}
      PROVE  Add(m, verb, "ks", strict) \in Harmless
  <2>1. Add(m, verb, "ks", strict) \in SafeCommands
        BY <1>6, AddIsSafe DEF Tags, RuleCommands
  <2>2. Conflicts(Add(m, verb, "ks", strict)) = {}
        BY <1>6 DEF Add, Command, Conflicts, Admits, Lan
  <2> QED BY <2>1, <2>2 DEF Harmless
<1>7. ASSUME NEW strict \in BOOLEAN
      PROVE  Add(Plain("physOut"), "reject", "ks", strict) \in Harmless
  <2>1. Add(Plain("physOut"), "reject", "ks", strict) \in SafeCommands
        BY NamedMatches, AddIsSafe DEF Tags, RuleCommands, Shared
  <2>2. Conflicts(Add(Plain("physOut"), "reject", "ks", strict)) = {}
        BY DEF Add, Command, Conflicts, Admits, Lan
  <2> QED BY <2>1, <2>2 DEF Harmless
<1>8. ASSUME NEW w \in {"v6Out", "v6In"}, NEW strict \in BOOLEAN
      PROVE  Add(Plain(w), "deny", "v6", strict) \in Preludes
  <2>1. Add(Plain(w), "deny", "v6", strict) \in SafeCommands
        BY NamedMatches, AddIsSafe DEF Tags, RuleCommands, Shared
  <2>2. Conflicts(Add(Plain(w), "deny", "v6", strict)) = {} /\ Add(Plain(w), "deny", "v6", strict).tag = "v6"
        BY DEF Add, Command, Conflicts, Admits, Lan
  <2> QED BY <2>1, <2>2 DEF Harmless, Preludes
<1> QED BY <1>1, <1>2, <1>3, <1>4, <1>5, <1>6, <1>7, <1>8

\* The killswitch's rules and those of IPv6 conflict with nothing.
LEMMA KsRulesHarmless ==
  ASSUME NEW op \in Operations, NEW strict \in BOOLEAN
  PROVE  KsRules(op, strict) \in Seq(Harmless) /\ V6Rules \in Seq(Preludes)
<1>1. \A w \in {"loOut", "loIn", "gwOut", "gwIn", "dhcpOut", "dhcpIn", "tunOut", "tunIn"} :
         /\ Plain(w) \in Matches
         /\ Plain(w) \notin {Plain("lanOut"), Plain("physOut")}
  <2>1. \A w \in {"loOut", "loIn", "gwOut", "gwIn", "dhcpOut", "dhcpIn", "tunOut", "tunIn"} :
           Plain(w) \in Matches
        BY NamedMatches DEF Shared
  <2>2. \A w \in {"loOut", "loIn", "gwOut", "gwIn", "dhcpOut", "dhcpIn", "tunOut", "tunIn"} :
           Plain(w) \notin {Plain("lanOut"), Plain("physOut")}
        BY DEF Plain
  <2> QED BY <2>1, <2>2
<1>2. \A w \in {"dns", "ep", "epPhys"}, s \in Servers :
         For(w, s) \in Matches /\ For(w, s) \notin {Plain("lanOut"), Plain("physOut")}
  <2>1. \A w \in {"dns", "ep", "epPhys"}, s \in Servers : For(w, s) \in Matches
        BY NamedMatches
  <2>2. \A w \in {"dns", "ep", "epPhys"}, s \in Servers :
           For(w, s) \notin {Plain("lanOut"), Plain("physOut")}
        BY DEF For, Plain
  <2> QED BY <2>1, <2>2
<1>3. \A w \in {"loOut", "loIn", "gwOut", "gwIn", "dhcpOut", "dhcpIn", "tunOut", "tunIn"} :
         Add(Plain(w), "allow", "ks", strict) \in Harmless
      BY <1>1, HarmlessKinds
<1>4. \A w \in {"dns", "ep", "epPhys"}, s \in Servers :
         Add(For(w, s), "allow", "ks", strict) \in Harmless
      BY <1>2, HarmlessKinds
<1>5. Add(Plain("physOut"), "reject", "ks", strict) \in Harmless /\ Refuse \in Harmless
      BY HarmlessKinds DEF Preludes
<1>6. KsRules(op, strict) \in Seq(Harmless)
      BY <1>3, <1>4, <1>5, KsRulesIn
<1>7. V6Rules \in Seq(Preludes)
  <2> DEFINE a == Add(Plain("v6Out"), "deny", "v6", FALSE)
             b == Add(Plain("v6In"), "deny", "v6", FALSE)
  <2>1. a \in Preludes /\ b \in Preludes
        BY HarmlessKinds
  <2>2. V6Rules = <<a, b>>
        BY Zenon DEF V6Rules
  <2> HIDE DEF a, b
  <2> QED BY <2>1, <2>2, FewIn
<1> QED BY <1>6, <1>7

\* A Local Network layer conflicts with the other modes and, unless it is Block,
\* with the killswitch.
LEMMA LanRulesMode ==
  ASSUME NEW op \in Operations, NEW tags, Lan \ {TagOf[op.lan]} \subseteq tags,
         op.lan # "block" => "ks" \in tags
  PROVE  LanRules(op) \in Seq(ModeCommands(TagOf[op.lan], tags))
<1> DEFINE mode == TagOf[op.lan]
<1>1. mode \in Tags /\ mode \in Lan
      BY DEF Operations, TagOf, Tags, Lan
<1>2. ASSUME NEW m \in Matches, NEW verb \in {"allow", "deny"}, m # Plain("physOut"),
             m = Plain("lanOut") /\ verb = "allow" => op.lan # "block"
      PROVE  Add(m, verb, mode, TRUE) \in ModeCommands(mode, tags)
  <2> DEFINE c == Add(m, verb, mode, TRUE)
  <2>1. c \in SafeCommands
        BY <1>1, <1>2, AddIsSafe DEF RuleCommands
  <2>2. c.do = "add" /\ c.tag = mode /\ c.match = m /\ c.verb = verb
        BY DEF Add, Command
  <2> HIDE DEF c, mode
  <2>3. Conflicts(c) \subseteq tags
        BY <1>1, <1>2, <2>2 DEF Conflicts, Admits, mode
  <2> QED BY <2>1, <2>2, <2>3 DEF ModeCommands, c
<1>3. \A w \in Shared \ {"physOut", "lanOut"} :
         /\ Plain(w) \in Matches
         /\ Plain(w) # Plain("physOut") /\ Plain(w) # Plain("lanOut")
  <2>1. \A w \in Shared : Plain(w) \in Matches
        BY NamedMatches
  <2>2. \A w \in Shared \ {"physOut", "lanOut"} :
           Plain(w) # Plain("physOut") /\ Plain(w) # Plain("lanOut")
        BY DEF Plain
  <2> QED BY <2>1, <2>2
<1>4. \A w \in {"dns", "ep"}, s \in Servers :
         For(w, s) \in Matches /\ For(w, s) # Plain("physOut") /\ For(w, s) # Plain("lanOut")
  <2>1. \A w \in {"dns", "ep"}, s \in Servers :
           For(w, s) \in Matches /\ For(w, s) # Plain("physOut")
        BY NamedMatches
  <2>2. \A w \in {"dns", "ep"}, s \in Servers : For(w, s) # Plain("lanOut")
        BY DEF For, Plain
  <2> QED BY <2>1, <2>2
<1>5. Plain("lanOut") \in Matches /\ Plain("lanOut") # Plain("physOut")
      BY NamedMatches DEF Shared
<1>6. \A w \in {"loOut", "gw32", "tunOut", "dhcpAny", "dhcpIn", "lanIn", "physIn"},
         verb \in {"allow", "deny"} : Add(Plain(w), verb, mode, TRUE) \in ModeCommands(mode, tags)
      BY <1>2, <1>3 DEF Shared
<1>7. \A w \in {"dns", "ep"}, s \in Servers :
         Add(For(w, s), "allow", mode, TRUE) \in ModeCommands(mode, tags)
      BY <1>2, <1>4
<1>8. /\ op.lan = "block" => Add(Plain("lanOut"), "deny", mode, TRUE) \in ModeCommands(mode, tags)
      /\ op.lan # "block" => Add(Plain("lanOut"), "allow", mode, TRUE) \in ModeCommands(mode, tags)
      BY <1>2, <1>5
<1> QED BY <1>6, <1>7, <1>8, LanRulesIn

\* The posture is rebuilt behind a prelude that clears everything.
LEMMA RebuildOrderly ==
  ASSUME NEW op \in Operations, NEW before \in Seq(Preludes), NEW gone
  PROVE  Orderly(before \o Rebuild(op), gone)
<1> DEFINE activate == Activate(TRUE)
           last1 == Policy(IF op.ks THEN "deny" ELSE "allow", TRUE)
           tags == (Lan \ {TagOf[op.lan]}) \cup {"ks"}
           S == SafeCommands
           A == <<Clear("ks"), Clear("lb"), Clear("st"), Clear("la"), Clear("v6"), activate>>
           B == LanRules(op)
           C == When(op.v6, V6Rules)
           D == When(op.ks, KsRules(op, FALSE))
           E == <<last1>>
<1>1. activate \in Preludes /\ \A tag \in Tags : Clear(tag) \in Preludes
      BY HarmlessKinds
<1>2. last1 \in Harmless
      BY HarmlessKinds DEF Preludes
<1>3. Rebuild(op) = A \o B \o C \o D \o E
      BY DEF Rebuild
<1> HIDE DEF activate, last1
<1>4. A \in Seq(Preludes)
      BY <1>1 DEF Tags
<1>5. \A tag \in tags : \E j \in 1 .. Len(A) : A[j].do = "clear" /\ A[j].tag = tag
  <2>1. \A tag \in Tags : Clear(tag).do = "clear" /\ Clear(tag).tag = tag
        BY DEF Clear, Command
  <2>2. Len(A) = 6 /\ A[1] = Clear("ks") /\ A[2] = Clear("lb") /\ A[3] = Clear("st")
        /\ A[4] = Clear("la")
        OBVIOUS
  <2>3. tags \subseteq {"ks", "lb", "st", "la"}
        BY DEF Lan
  <2> HIDE DEF A, tags
  <2>4. 1 \in 1 .. Len(A) /\ 2 \in 1 .. Len(A) /\ 3 \in 1 .. Len(A) /\ 4 \in 1 .. Len(A)
        BY <2>2
  <2> QED BY <2>1, <2>2, <2>3, <2>4 DEF Tags
<1>6. B \in Seq(ModeCommands(TagOf[op.lan], tags))
      BY LanRulesMode
<1>7. C \in Seq(Harmless)
  <2>1. V6Rules \in Seq(Harmless)
        BY KsRulesHarmless, SeqMonotonic DEF Preludes
  <2> QED BY <2>1, WhenIn DEF Operations
<1>8. D \in Seq(Harmless)
      BY KsRulesHarmless, WhenIn DEF Operations
<1>9. E \in Seq(Harmless)
      BY <1>2
<1>10. TagOf[op.lan] \notin tags /\ "v6" \notin tags
       BY DEF Operations, TagOf, Lan
<1> HIDE DEF A, B, C, D, E, tags
<1>11. before \o A \in Seq(Preludes) /\ (C \o D) \o E \in Seq(Harmless)
       BY <1>4, <1>7, <1>8, <1>9, ConcatProperties
<1>12. \A tag \in tags : \E j \in 1 .. Len(before \o A) :
          (before \o A)[j].do = "clear" /\ (before \o A)[j].tag = tag
  <2> SUFFICES ASSUME NEW tag \in tags
               PROVE  \E j \in 1 .. Len(before \o A) :
                         (before \o A)[j].do = "clear" /\ (before \o A)[j].tag = tag
      OBVIOUS
  <2>1. PICK j \in 1 .. Len(A) : A[j].do = "clear" /\ A[j].tag = tag
        BY <1>5
  <2>2. Len(A) \in Nat /\ Len(before) \in Nat
        BY <1>4, LenProperties
  <2>3. /\ Len(before \o A) = Len(before) + Len(A)
        /\ \A i \in 1 .. Len(before) + Len(A) :
              (before \o A)[i] = IF i <= Len(before) THEN before[i] ELSE A[i - Len(before)]
        BY <1>4, ConcatProperties
  <2> DEFINE k == Len(before) + j
  <2>4. k \in 1 .. Len(before) + Len(A) /\ ~(k <= Len(before)) /\ k - Len(before) = j
        BY <2>1, <2>2
  <2> HIDE DEF k
  <2>5. (before \o A)[k] = A[j] /\ k \in 1 .. Len(before \o A)
        BY <2>3, <2>4
  <2> QED BY <2>1, <2>5
<1>13. Orderly((before \o A) \o B \o ((C \o D) \o E), gone)
       BY <1>6, <1>10, <1>11, <1>12, LayerOrderly
<1>14. (before \o A) \o B \o ((C \o D) \o E) = before \o (A \o B \o C \o D \o E)
  <2>1. before \in Seq(S) /\ A \in Seq(S)
        BY <1>4, SeqMonotonic DEF Preludes, Harmless
  <2>2. B \in Seq(S)
        BY <1>6, SeqMonotonic DEF ModeCommands
  <2>3. C \in Seq(S) /\ D \in Seq(S) /\ E \in Seq(S)
        BY <1>7, <1>8, <1>9, SeqMonotonic DEF Harmless
  <2> HIDE DEF S
  <2> DEFINE X == C \o D
             Y == A \o B
             Z == X \o E
  <2>4. X \in Seq(S) /\ Y \in Seq(S)
        BY <2>1, <2>2, <2>3, ConcatProperties
  <2> HIDE DEF X, Y
  <2>5. Z \in Seq(S)
        BY <2>3, <2>4, ConcatProperties
  <2>6. (Y \o X) \o E = Y \o Z
        BY <2>3, <2>4, ConcatAssociative
  <2> HIDE DEF Z
  <2>7. (before \o Y) \o Z = before \o (Y \o Z)
        BY <2>1, <2>4, <2>5, ConcatAssociative
  <2>8. (before \o A) \o B = before \o Y
        BY <2>1, <2>2, ConcatAssociative DEF Y
  <2>9. (Y \o C) \o D = Y \o (C \o D)
        BY <2>3, <2>4, ConcatAssociative
  <2> QED BY <2>6, <2>7, <2>8, <2>9 DEF X, Y, Z
<1> QED BY <1>3, <1>13, <1>14

\* A layer on its own finds what it conflicts with gone.
LEMMA LanLayerOrderly ==
  ASSUME NEW op \in Operations, NEW gone, Lan \ {TagOf[op.lan]} \subseteq gone,
         op.lan # "block" => "ks" \in gone
  PROVE  Orderly(LanLayer(op), gone)
<1> DEFINE clear == Clear(TagOf[op.lan])
           activate == Activate(TRUE)
           tags == (Lan \ {TagOf[op.lan]}) \cup (IF op.lan # "block" THEN {"ks"} ELSE {})
           A == <<clear, activate>>
           B == LanRules(op)
<1>1. A \in Seq(Preludes)
  <2>1. clear \in Preludes /\ activate \in Preludes
        BY ModeTags, HarmlessKinds
  <2> HIDE DEF clear, activate
  <2> QED BY <2>1, FewIn
<1>2. B \in Seq(ModeCommands(TagOf[op.lan], tags))
      BY LanRulesMode
<1>3. TagOf[op.lan] \notin tags /\ "v6" \notin tags /\ tags \subseteq gone
      BY DEF Operations, TagOf, Lan
<1>4. LanLayer(op) = A \o B
      BY DEF LanLayer
<1>5. <<>> \in Seq(Harmless)
      BY EmptySeq
<1> HIDE DEF A, B, tags
<1>6. A \o B \o <<>> \in Seq(SafeCommands) /\ Orderly(A \o B \o <<>>, gone)
      BY <1>1, <1>2, <1>3, <1>5, LayerOrderly
<1>7. A \o B \o <<>> = A \o B
  <2>1. A \in Seq(SafeCommands)
        BY <1>1, SeqMonotonic DEF Preludes, Harmless
  <2>2. B \in Seq(SafeCommands)
        BY <1>2, SeqMonotonic DEF ModeCommands
  <2>3. A \o B \in Seq(SafeCommands)
        BY <2>1, <2>2, ConcatProperties
  <2> QED BY <2>3, ConcatEmptySeq
<1> QED BY <1>4, <1>6, <1>7

\* No operation on the killswitch alone adds what conflicts.
LEMMA SealRulesHarmless ==
  ASSUME NEW op \in Operations
  PROVE  SealRules(op) \in Seq(Harmless)
<1> DEFINE out == Add(Plain("loOut"), "allow", "ks", TRUE)
           in == Add(Plain("loIn"), "allow", "ks", TRUE)
           clear == Clear("ks")
           activate == Activate(TRUE)
           deny == Policy("deny", TRUE)
           B == IF op.call = "simple" THEN <<out, in>> ELSE KsRules(op, TRUE)
<1>1. SealRules(op) = <<SavePolicy, clear>> \o B \o <<activate, deny>>
      BY DEF SealRules
<1>2. SavePolicy \in Harmless /\ activate \in Harmless /\ deny \in Harmless
      BY HarmlessKinds DEF Preludes
<1>3. clear \in Harmless
      BY HarmlessKinds DEF Preludes, Tags
<1>4. out \in Harmless /\ in \in Harmless
  <2>1. Plain("loOut") \in Matches /\ Plain("loIn") \in Matches
        BY NamedMatches DEF Shared
  <2>2. /\ Plain("loOut") \notin {Plain("lanOut"), Plain("physOut")}
        /\ Plain("loIn") \notin {Plain("lanOut"), Plain("physOut")}
        BY DEF Plain
  <2> QED BY <2>1, <2>2, HarmlessKinds
<1>5. KsRules(op, TRUE) \in Seq(Harmless)
      BY KsRulesHarmless
<1> HIDE DEF out, in, clear, activate, deny
<1>6. B \in Seq(Harmless)
      BY <1>4, <1>5, FewIn
<1>7. <<SavePolicy, clear>> \in Seq(Harmless) /\ <<activate, deny>> \in Seq(Harmless)
      BY <1>2, <1>3, FewIn
<1> HIDE DEF B
<1> QED BY <1>1, <1>6, <1>7, ConcatProperties

\* No rollback adds anything.
LEMMA RollbackHarmless ==
  ASSUME NEW t \in Tasks
  PROVE  Rollback(t) \in Seq(Harmless)
<1> DEFINE verb == IF t.prev = "" THEN "allow" ELSE t.prev
           back == Policy(verb, FALSE)
           clear == Clear(TagOf[t.op.lan])
           ks == Clear("ks")
<1>1. back \in Harmless
  <2>1. verb \in {"allow", "deny"}
        BY DEF Tasks
  <2> QED BY <2>1, HarmlessKinds DEF Preludes
<1>2. clear \in Harmless
      BY ModeTags, HarmlessKinds DEF Preludes, Tasks
<1>3. ks \in Harmless /\ Release \in Harmless
      BY HarmlessKinds DEF Preludes, Tags
<1>4. Rollback(t) = <<ks, back, Release>> \/ Rollback(t) = <<clear, Release>> \/ Rollback(t) = <<>>
      BY DEF Rollback
<1> HIDE DEF back, clear, ks
<1>5. <<ks, back, Release>> \in Seq(Harmless)
      BY <1>1, <1>3
<1>6. <<clear, Release>> \in Seq(Harmless)
      BY <1>2, <1>3, FewIn
<1> QED BY <1>4, <1>5, <1>6, EmptySeq

\* Turning the killswitch off brings Stealth back once its rules are cleared.
LEMMA DisableOrderly ==
  ASSUME NEW gone
  PROVE  Orderly(<<Clear("ks"), Policy("allow", TRUE), Release, Reassert>>, gone)
<1> DEFINE clear == Clear("ks")
           open == Policy("allow", TRUE)
           s == <<clear, open, Release, Reassert>>
<1>1. clear.do = "clear" /\ clear.tag = "ks" /\ open.do = "policy" /\ Release.do = "release"
      /\ Reassert.do = "reassert"
      BY DEF Clear, Policy, Release, Reassert, Command
<1>2. Conflicts(clear) = {} /\ Conflicts(open) = {} /\ Conflicts(Release) = {}
      /\ Conflicts(Reassert) = {"ks"}
      BY <1>1 DEF Conflicts, Admits
<1> HIDE DEF clear, open
<1>3. Len(s) = 4 /\ s[1] = clear /\ s[2] = open /\ s[3] = Release /\ s[4] = Reassert
      OBVIOUS
<1> HIDE DEF s
<1>4. ASSUME NEW i \in 1 .. Len(s), NEW tag \in Conflicts(s[i]) PROVE Cleared(tag, i, s, gone)
  <2>1. i = 4 /\ tag = "ks"
        BY <1>2, <1>3, <1>4
  <2>2. 1 \in 1 .. i - 1
        BY <2>1
  <2>3. \A j \in 1 .. i - 1 : s[j].do # "add"
        BY <1>1, <1>3, <2>1
  <2> QED BY <1>1, <1>3, <2>1, <2>2, <2>3 DEF Cleared
<1> QED BY <1>4 DEF Orderly, s, clear, open

\* A tear-down adds nothing.
LEMMA TearAllHarmless == TearAll \in Seq(Harmless)
<1> DEFINE lax == Policy("allow", FALSE)
<1>1. lax \in Harmless /\ Release \in Harmless
      BY HarmlessKinds DEF Preludes
<1>2. \A tag \in Tags : Clear(tag) \in Harmless
      BY HarmlessKinds DEF Preludes
<1>3. TearAll = <<lax, Clear("ks"), Clear("lb"), Clear("st"), Clear("la"), Clear("v6"), Release>>
      BY DEF TearAll
<1> HIDE DEF lax
<1> QED BY <1>1, <1>2, <1>3 DEF Tags

\* Every operation is orderly where it may begin.
LEMMA ScriptOrderly ==
  ASSUME NEW op \in Operations, op.call # "none", NEW gone,
         op.call \in {"stealth", "block"} => op.lan = op.call /\ Lan \ {TagOf[op.lan]} \subseteq gone,
         op.call = "stealth" => "ks" \in gone
  PROVE  Orderly(Script(op), gone)
<1>1. CASE op.call \in {"enable", "simple"}
  <2>1. Script(op) = SealRules(op)
        BY <1>1, ScriptShape
  <2> QED BY <2>1, SealRulesHarmless, HarmlessOrderly
<1>2. CASE op.call = "update"
  <2>1. Script(op) = <<StopUnlessDeny>> \o SealRules(op)
        BY <1>2 DEF Script
  <2>2. <<StopUnlessDeny>> \in Seq(Harmless)
        BY HarmlessKinds, FewIn DEF Preludes
  <2>3. Script(op) \in Seq(Harmless)
        BY <2>1, <2>2, SealRulesHarmless, ConcatProperties
  <2> QED BY <2>3, HarmlessOrderly
<1>3. CASE op.call \in {"reconcile", "blockV6", "allowV6"}
  <2> DEFINE r == Rebuild(op)
             open == Activate(FALSE)
             shut == Clear("v6")
  <2>1. op.call = "reconcile" => Script(op) = r
        BY Zenon DEF Script
  <2>2. op.call = "blockV6" => Script(op) = (<<open>> \o V6Rules) \o r
        BY DEF Script
  <2>3. op.call = "allowV6" => Script(op) = <<shut, Release>> \o r
        BY DEF Script
  <2>4. open \in Preludes /\ Release \in Preludes
        BY HarmlessKinds
  <2>5. shut \in Preludes
        BY HarmlessKinds DEF Tags
  <2> HIDE DEF open, shut
  <2>6. <<open>> \in Seq(Preludes) /\ <<shut, Release>> \in Seq(Preludes) /\ <<>> \in Seq(Preludes)
        BY <2>4, <2>5, FewIn, EmptySeq
  <2>7. <<open>> \o V6Rules \in Seq(Preludes)
        BY <2>6, KsRulesHarmless, ConcatProperties
  <2>8. <<>> \o r = r
    <3>1. r \in Seq(SafeCommands)
          BY RebuildShape
    <3> HIDE DEF r
    <3> QED BY <3>1, ConcatEmptySeq
  <2>9. \A before \in Seq(Preludes) : Orderly(before \o r, gone)
        BY RebuildOrderly
  <2> HIDE DEF r
  <2>10. Orderly(<<>> \o r, gone) /\ Orderly((<<open>> \o V6Rules) \o r, gone)
         /\ Orderly(<<shut, Release>> \o r, gone)
         BY <2>6, <2>7, <2>9
  <2> QED BY <1>3, <2>1, <2>2, <2>3, <2>8, <2>10
<1>4. CASE op.call \in {"stealth", "block"}
  <2>1. Script(op) = LanLayer(op)
        BY <1>4, Zenon DEF Script
  <2> QED BY <1>4, <2>1, LanLayerOrderly
<1>5. CASE op.call = "disable"
  <2>1. Script(op) = <<Clear("ks"), Policy("allow", TRUE), Release, Reassert>>
        BY <1>5 DEF Script
  <2> QED BY <2>1, DisableOrderly
<1>6. CASE op.call = "teardown"
  <2>1. Script(op) = TearAll
        BY <1>6, Zenon DEF Script
  <2> QED BY <2>1, TearAllHarmless, HarmlessOrderly
<1> QED BY <1>1, <1>2, <1>3, <1>4, <1>5, <1>6 DEF Operations

\* What is gone stays enough when more is.
LEMMA OrderlyMore ==
  ASSUME NEW s, NEW gone, NEW after, gone \subseteq after, Orderly(s, gone)
  PROVE  Orderly(s, after)
BY DEF Orderly, Cleared

\* Nothing to come is orderly.
LEMMA EmptyOrderly ==
  ASSUME NEW gone
  PROVE  Orderly(<<>>, gone)
BY EmptySeq, HarmlessOrderly

\* How a process goes on when nothing is listed for deletion.
Goes(p, rest) ==
  /\ Others(p)
  /\ \/ task'[p] = Idle
     \/ task'[p].todo = rest /\ task'[p].listed = {}

\* A process that proceeds goes on.
LEMMA ProceedGoes ==
  ASSUME TypeInv, NEW p \in Processes, NEW t \in Tasks, t.listed = {}, NEW rest,
         Proceed(p, t, rest)
  PROVE  Goes(p, rest)
<1> DEFINE u == [t EXCEPT !.todo = rest]
<1>1. task \in [Processes -> Tasks]
      BY DEF TypeInv
<1>2. task' = [task EXCEPT ![p] = IF rest = <<>> THEN Idle ELSE u]
      BY DEF Proceed
<1>3. u.todo = rest /\ u.listed = {}
      BY DEF Tasks
<1> HIDE DEF u
<1> QED BY <1>1, <1>2, <1>3 DEF Goes, Others

\* It is sound if what it goes on with is orderly.
LEMMA GoesSound ==
  ASSUME NEW p \in Processes, NEW rest, Goes(p, rest), NEW after, Orderly(rest, after),
         after \subseteq Gone(rules', {})
  PROVE  LanSound(task'[p], rules')
<1>1. CASE task'[p] = Idle
  <2>1. task'[p].todo = <<>> /\ task'[p].listed = {}
    <3>1. Idle.todo = <<>> /\ Idle.listed = {}
          BY DEF Idle
    <3> QED BY <1>1, <3>1
  <2> QED BY <2>1, EmptyOrderly DEF LanSound
<1>2. CASE task'[p] # Idle
  <2>1. task'[p].todo = rest /\ task'[p].listed = {}
        BY <1>2 DEF Goes
  <2>2. Orderly(rest, Gone(rules', {}))
        BY OrderlyMore
  <2> QED BY <2>1, <2>2 DEF LanSound
<1> QED BY <1>1, <1>2

\* Rules are only listed while they are being deleted.
LEMMA NothingListed ==
  ASSUME LanInv, NEW p \in Processes, task[p].todo # <<>>
  PROVE  /\ task[p] \in Tasks /\ task[p].todo \in Seq(SafeCommands)
         /\ task[p].todo[1] = Next1(p) /\ Next1(p) \in SafeCommands
         /\ Next1(p).do # "delete" => task[p].listed = {} /\ Orderly(task[p].todo, Gone(rules, {}))
<1>1. task[p] \in Tasks
      BY DEF LanInv, TypeInv
<1>2. task[p].todo \in Seq(SafeCommands) /\ Next1(p) \in SafeCommands
      BY <1>1, TodoTypes DEF LanInv, Tasks
<1>3. task[p].todo[1] = Next1(p)
      BY <1>2, Advances DEF Next1
<1>4. LanSound(task[p], rules)
      BY DEF LanInv
<1>5. Next1(p).do # "delete" => task[p].listed = {}
      BY <1>4 DEF LanSound, Next1
<1> QED BY <1>1, <1>2, <1>3, <1>4, <1>5 DEF LanSound

\* A process is sound behind a command that deletes nothing.
LEMMA TailLanSound ==
  ASSUME LanInv, NEW p \in Processes, task[p].todo # <<>>, Next1(p).do # "delete",
         NEW t \in Tasks, t.listed = {}, Proceed(p, t, Tail(task[p].todo)),
         \A tag \in Gone(rules, {}) :
            (Next1(p).do = "add" /\ Next1(p).tag = tag) \/ tag \in Gone(rules', {}),
         Next1(p).do = "clear" => Next1(p).tag \in Gone(rules', {})
  PROVE  LanSound(task'[p], rules') /\ Others(p)
<1> DEFINE s == task[p].todo
           after == Gone(rules', {})
<1>1. s \in Seq(SafeCommands) /\ s # <<>> /\ s[1] = Next1(p) /\ Orderly(s, Gone(rules, {}))
      BY NothingListed
<1>2. Goes(p, Tail(s))
      BY ProceedGoes DEF LanInv
<1> HIDE DEF s, after
<1>3. Orderly(Tail(s), after)
  <2>1. \A tag \in Gone(rules, {}) : (s[1].do = "add" /\ s[1].tag = tag) \/ tag \in after
        BY <1>1 DEF after
  <2>2. s[1].do = "clear" => s[1].tag \in after
        BY <1>1 DEF after
  <2> QED BY <1>1, <2>1, <2>2, OrderlyTail
<1>4. LanSound(task'[p], rules')
      BY <1>2, <1>3, GoesSound DEF after
<1> QED BY <1>2, <1>4 DEF Goes

\* So is one behind a rollback.
LEMMA RollbackLanSound ==
  ASSUME LanInv, NEW p \in Processes, task[p].todo # <<>>, Next1(p).do # "delete",
         Proceed(p, task[p], Rollback(task[p]))
  PROVE  LanSound(task'[p], rules') /\ Others(p)
<1>1. task[p] \in Tasks /\ task[p].listed = {}
      BY NothingListed
<1>2. Goes(p, Rollback(task[p]))
      BY <1>1, ProceedGoes DEF LanInv
<1>3. Orderly(Rollback(task[p]), {})
      BY <1>1, RollbackHarmless, HarmlessOrderly
<1>4. LanSound(task'[p], rules')
      BY <1>2, <1>3, GoesSound
<1> QED BY <1>2, <1>4 DEF Goes

\* A listed rule less.
LEMMA SweptLanSound ==
  ASSUME LanInv, NEW p \in Processes, task[p].todo # <<>>, Next1(p).do = "delete",
         NEW r \in task[p].listed, Swept(p, r),
         Gone(rules, task[p].listed) \subseteq Gone(rules', task[p].listed \ {r})
  PROVE  LanSound(task'[p], rules') /\ Others(p)
<1> DEFINE left == task[p].listed \ {r}
           s == task[p].todo
           t == [task[p] EXCEPT !.listed = {}]
           u == [task[p] EXCEPT !.listed = left]
<1>1. /\ task[p] \in Tasks /\ s \in Seq(SafeCommands) /\ s # <<>> /\ s[1] = Next1(p)
      /\ task \in [Processes -> Tasks]
      BY NothingListed DEF LanInv, TypeInv
<1>2. t \in Tasks /\ t.listed = {}
      BY <1>1 DEF Tasks
<1>3. u.todo = s /\ u.listed = left
      BY <1>1 DEF Tasks
<1>4. Orderly(s, Gone(rules, task[p].listed))
      BY DEF LanInv, LanSound
<1>5. Gone(rules, task[p].listed) \subseteq Gone(rules', left)
      OBVIOUS
<1>6. CASE left = {}
  <2>1. Proceed(p, t, Tail(s))
        BY <1>6 DEF Swept
  <2> HIDE DEF s, t
  <2>2. Goes(p, Tail(s))
        BY <1>2, <2>1, ProceedGoes DEF LanInv
  <2>3. Orderly(Tail(s), Gone(rules, task[p].listed))
        BY <1>1, <1>4, OrderlyTail
  <2>4. Gone(rules, task[p].listed) \subseteq Gone(rules', {})
        BY <1>5, <1>6
  <2>5. LanSound(task'[p], rules')
        BY <2>2, <2>3, <2>4, GoesSound
  <2> QED BY <2>2, <2>5 DEF Goes
<1>7. CASE left # {}
  <2>1. task' = [task EXCEPT ![p] = u]
        BY <1>7 DEF Swept
  <2> HIDE DEF u, left
  <2>2. task'[p] = u /\ Others(p)
        BY <1>1, <2>1 DEF Others
  <2>3. Orderly(s, Gone(rules', left))
        BY <1>4, <1>5, OrderlyMore
  <2>4. Head(s).do = "delete"
        BY DEF Next1
  <2>5. LanSound(task'[p], rules')
        BY <1>1, <1>3, <2>2, <2>3, <2>4 DEF LanSound
  <2> QED BY <2>2, <2>5
<1> QED BY <1>6, <1>7

\* Neither a listing nor a deletion of rules can fail.
DeletionsSucceed == "show" \notin Faults /\ "delete" \notin Faults

\* Every command leaves the rules arranged, its own process sound and the others
\* alone.
LEMMA LanStep ==
  ASSUME DeletionsSucceed, LanInv, TypeInv', NEW p \in Processes, Step(p)
  PROVE  Arranged(rules') /\ LanSound(task'[p], rules') /\ Others(p)
<1> DEFINE good == Arranged(rules') /\ LanSound(task'[p], rules') /\ Others(p)
<1> SUFFICES good
    OBVIOUS
<1>1. TypeInv /\ Arranged(rules)
      BY DEF LanInv
<1>2. task[p].todo # <<>>
      BY DEF Step, WriteFails, DoAdd, DoDelete, DoPolicy, DoClear, DoActivate, DoRelease,
             DoSavePolicy, DoStopUnlessDeny, DoRefuse, DoReassert, Doing
<1>3. /\ task[p] \in Tasks /\ task[p].todo \in Seq(SafeCommands)
      /\ task[p].todo[1] = Next1(p) /\ Next1(p) \in SafeCommands
      /\ Next1(p).do # "delete" => task[p].listed = {} /\ Orderly(task[p].todo, Gone(rules, {}))
      BY <1>2, NothingListed
<1>4. ASSUME rules' = rules, Next1(p).do \notin {"delete", "clear"}, NEW t \in Tasks,
             t.listed = {}, Proceed(p, t, Tail(task[p].todo))
      PROVE  good
  <2>1. Arranged(rules')
        BY <1>1, <1>4
  <2>2. LanSound(task'[p], rules') /\ Others(p)
        BY <1>2, <1>4, <2>1, TailLanSound
  <2> QED BY <2>1, <2>2
<1>5. ASSUME rules' = rules, Next1(p).do \notin {"delete", "clear"}, Done(p)
      PROVE  good
      BY <1>3, <1>4, <1>5 DEF Done
<1>6. ASSUME rules' = rules, Next1(p).do # "delete", Proceed(p, task[p], Rollback(task[p]))
      PROVE  good
      BY <1>1, <1>2, <1>6, RollbackLanSound
<1>7. CASE WriteFails(p)
  <2>1. rules' = rules /\ Next1(p).do \in Faults
        BY <1>7 DEF WriteFails, Fail, ufwVars
  <2>2. Next1(p).do \notin {"delete", "clear"}
        BY <2>1, FirewallAssumption DEF DeletionsSucceed
  <2>3. AfterFailure(p)
        BY <1>7, <2>2 DEF WriteFails, Doing
  <2> HIDE DEF good
  <2> QED BY <1>5, <1>6, <2>1, <2>2, <2>3 DEF AfterFailure
<1>8. CASE DoAdd(p)
  <2> DEFINE c == Next1(p)
  <2>1. c.do = "add" /\ Done(p) /\ AddRule(c.match, c.verb, c.tag)
        BY <1>8 DEF DoAdd, Doing
  <2>2. ASSUME NEW tag \in Conflicts(c) PROVE \A i \in 1 .. Len(rules) : rules[i].tag # tag
    <3>1. Orderly(task[p].todo, Gone(rules, {})) /\ Len(task[p].todo) \in Nat \ {0}
          BY <1>2, <1>3, <2>1, Advances
    <3>2. Cleared(tag, 1, task[p].todo, Gone(rules, {}))
          BY <1>3, <2>2, <3>1 DEF Orderly
    <3>3. tag \in Gone(rules, {})
          BY <3>2 DEF Cleared
    <3> QED BY <3>3 DEF Gone
  <2>3. /\ Arranged(rules')
        /\ \A i \in 1 .. Len(rules') :
              rules'[i].tag # c.tag => \E j \in 1 .. Len(rules) : rules'[i] = rules[j]
        BY <1>1, <1>3, <2>1, <2>2, AddArranged
  <2>4. \A tag \in Gone(rules, {}) : c.tag = tag \/ tag \in Gone(rules', {})
        BY <2>3 DEF Gone
  <2>5. LanSound(task'[p], rules') /\ Others(p)
        BY <1>2, <1>3, <2>1, <2>4, TailLanSound DEF Done
  <2> QED BY <2>3, <2>5
<1>9. CASE DoDelete(p)
  <2> DEFINE listed == task[p].listed
  <2>1. Next1(p).do = "delete"
        BY <1>9 DEF DoDelete, Doing
  <2>2. ASSUME NEW i \in Named(listed), rules' = RemoveAt(rules, i), NEW r \in listed,
               r.match = rules[i].match, Swept(p, r)
        PROVE  good
    <3>1. i \in DOMAIN rules
          BY <2>2 DEF Named
    <3>2. /\ Arranged(rules')
          /\ \A k \in 1 .. Len(rules') : \E l \in 1 .. Len(rules) : l # i /\ rules'[k] = rules[l]
          BY <1>1, <2>2, <3>1, RemoveArranged
    <3>3. \A l \in 1 .. Len(rules) : rules[l] = r => l = i
      <4>1. DOMAIN rules = 1 .. Len(rules)
            BY <1>1, RulesTyped
      <4> QED BY <1>1, <2>2, <3>1, <4>1 DEF Arranged, Distinct
    <3>4. Gone(rules, listed) \subseteq Gone(rules', listed \ {r})
          BY <3>2, <3>3 DEF Gone
    <3>5. LanSound(task'[p], rules') /\ Others(p)
          BY <1>2, <2>1, <2>2, <3>4, SweptLanSound
    <3> QED BY <3>2, <3>5
  <2>3. ASSUME Named(listed) = {}, rules' = rules, NEW r \in listed, Swept(p, r)
        PROVE  good
    <3>1. \A i \in 1 .. Len(rules) : rules[i] \notin listed
      <4>1. DOMAIN rules = 1 .. Len(rules)
            BY <1>1, RulesTyped
      <4> QED BY <2>3, <4>1 DEF Named
    <3>2. Gone(rules, listed) \subseteq Gone(rules', listed \ {r})
          BY <2>3, <3>1 DEF Gone
    <3>3. LanSound(task'[p], rules') /\ Others(p)
          BY <1>2, <2>1, <2>3, <3>2, SweptLanSound
    <3> QED BY <1>1, <2>3, <3>3
  <2> HIDE DEF good
  <2> QED BY <1>9, <2>2, <2>3 DEF DoDelete
<1>10. CASE DoPolicy(p)
  <2>1. Next1(p).do = "policy" /\ Done(p) /\ rules' = rules
        BY <1>10 DEF DoPolicy, Doing
  <2> QED BY <1>5, <2>1
<1>11. CASE DoClear(p)
  <2> DEFINE tag1 == Next1(p).tag
             s == task[p].todo
             ahead == <<Sweep>> \o Tail(s)
             found == Tagged(tag1)
  <2>1. Next1(p).do = "clear" /\ rules' = rules
        BY <1>11 DEF DoClear, Doing, ufwVars
  <2>2. /\ found = {} => Done(p)
        /\ found # {} => task' = [task EXCEPT ![p].todo = ahead, ![p].listed = found]
        BY <1>11 DEF DoClear, Fail, DeletionsSucceed
  <2>3. Arranged(rules')
        BY <1>1, <2>1
  <2>4. CASE found = {}
    <3>1. tag1 \in Gone(rules', {})
      <4>1. tag1 \in Tags \cup {""}
            BY <1>3, <2>1 DEF SafeCommands, Commands
      <4>2. DOMAIN rules = 1 .. Len(rules)
            BY <1>1, RulesTyped
      <4>3. \A i \in 1 .. Len(rules) : rules[i].tag # tag1
            BY <2>4, <4>2 DEF Tagged
      <4> HIDE DEF tag1
      <4> QED BY <2>1, <4>1, <4>3 DEF Gone
    <3>2. LanSound(task'[p], rules') /\ Others(p)
          BY <1>2, <1>3, <2>1, <2>2, <2>3, <2>4, <3>1, TailLanSound DEF Done
    <3> QED BY <2>3, <3>2
  <2>5. CASE found # {}
    <3>1. task'[p].todo = ahead /\ task'[p].listed = found /\ Others(p)
      <4>1. task' = [task EXCEPT ![p].todo = ahead, ![p].listed = found]
            BY <2>2, <2>5
      <4> HIDE DEF ahead, found
      <4>2. task'[p].todo = ahead /\ task'[p].listed = found
            BY <1>1, <1>3, <4>1 DEF TypeInv, Tasks
      <4>3. Others(p)
            BY <1>1, <4>1 DEF TypeInv, Others
      <4> QED BY <4>2, <4>3
    <3>2. Gone(rules', found) = Gone(rules, found)
          BY <2>1
    <3>3. Gone(rules, {}) \subseteq Gone(rules, found)
          BY DEF Gone
    <3>4. tag1 \in Gone(rules, found)
      <4>1. tag1 \in Tags \cup {""}
            BY <1>3, <2>1 DEF SafeCommands, Commands
      <4>2. DOMAIN rules = 1 .. Len(rules)
            BY <1>1, RulesTyped
      <4> QED BY <4>1, <4>2 DEF Gone, Tagged
    <3>5. s \in Seq(SafeCommands) /\ s # <<>> /\ s[1].do = "clear" /\ s[1].tag = tag1
          /\ Orderly(s, Gone(rules, {}))
          BY <1>2, <1>3, <2>1
    <3> HIDE DEF s, found, tag1
    <3>6. Orderly(ahead, Gone(rules, found))
          BY <3>3, <3>4, <3>5, OrderlySweep
    <3>7. ahead # <<>> /\ Head(ahead).do = "delete"
      <4>1. Len(ahead) = Len(s) /\ Len(s) \in Nat \ {0} /\ ahead[1] = Sweep
            BY <3>5, Advances
      <4>2. ahead \in Seq(SafeCommands)
            BY <3>5, OthersAreSafe, FewIn, HeadTailProperties, ConcatProperties DEF RuleCommands
      <4>3. Sweep.do = "delete"
            BY DEF Sweep, Command
      <4> HIDE DEF ahead
      <4> QED BY <4>1, <4>2, <4>3, EmptySeq
    <3>8. Orderly(ahead, Gone(rules', found))
          BY <3>2, <3>6
    <3> HIDE DEF ahead
    <3>9. LanSound(task'[p], rules')
      <4> DEFINE t == task'[p]
      <4>1. t.todo = ahead /\ t.listed = found
            BY <3>1
      <4> HIDE DEF t
      <4>2. Orderly(t.todo, Gone(rules', found))
            BY <3>8, <4>1
      <4>3. t.todo # <<>> /\ Head(t.todo).do = "delete"
            BY <3>7, <4>1
      <4> QED BY <4>1, <4>2, <4>3 DEF t, LanSound
    <3> QED BY <2>3, <3>1, <3>9
  <2> QED BY <2>4, <2>5
<1>12. CASE DoActivate(p)
  <2>1. Next1(p).do = "activate" /\ Done(p) /\ rules' = rules
        BY <1>12 DEF DoActivate, Doing
  <2> QED BY <1>5, <2>1
<1>13. CASE DoRelease(p)
  <2>1. Next1(p).do = "release" /\ Done(p) /\ rules' = rules
        BY <1>13 DEF DoRelease, Doing
  <2> QED BY <1>5, <2>1
<1>14. CASE DoSavePolicy(p)
  <2> DEFINE t == [task[p] EXCEPT !.prev = PolicyRead]
  <2>1. Next1(p).do = "savePolicy" /\ rules' = rules
        BY <1>14 DEF DoSavePolicy, Doing, ufwVars
  <2>2. t \in Tasks /\ t.listed = task[p].listed
    <3>1. PolicyRead \in {"", "allow", "deny"}
          BY <1>1 DEF PolicyRead, TypeInv
    <3> QED BY <1>3, <3>1 DEF Tasks
  <2>3. t.listed = {}
        BY <1>3, <2>1, <2>2
  <2>4. Done(p) \/ Proceed(p, t, Tail(task[p].todo))
        BY <1>14 DEF DoSavePolicy
  <2> HIDE DEF t, good
  <2> QED BY <1>4, <1>5, <2>1, <2>2, <2>3, <2>4
<1>15. CASE DoStopUnlessDeny(p)
  <2>1. Next1(p).do = "stopUnlessDeny" /\ rules' = rules
        BY <1>15 DEF DoStopUnlessDeny, Doing, ufwVars
  <2>2. Proceed(p, task[p], Tail(task[p].todo)) \/ Proceed(p, task[p], <<>>)
        BY <1>15 DEF DoStopUnlessDeny
  <2>3. ASSUME Proceed(p, task[p], <<>>) PROVE good
    <3>1. Goes(p, <<>>)
          BY <1>1, <1>3, <2>1, <2>3, ProceedGoes
    <3>2. Orderly(<<>>, {})
          BY EmptyOrderly
    <3>3. LanSound(task'[p], rules')
          BY <3>1, <3>2, GoesSound
    <3> QED BY <1>1, <2>1, <3>1, <3>3 DEF Goes
  <2> HIDE DEF good
  <2> QED BY <1>3, <1>4, <2>1, <2>2, <2>3
<1>16. CASE DoRefuse(p)
  <2>1. Next1(p).do = "refuse" /\ Proceed(p, task[p], Rollback(task[p])) /\ rules' = rules
        BY <1>16 DEF DoRefuse, Doing, ufwVars
  <2> QED BY <1>6, <2>1
<1>17. CASE DoReassert(p)
  <2> DEFINE op == [task[p].op EXCEPT !.call = "stealth", !.lan = "stealth"]
             t == [task[p] EXCEPT !.op = op]
  <2>1. Next1(p).do = "reassert" /\ rules' = rules
        BY <1>17 DEF DoReassert, Doing, ufwVars
  <2>2. op \in Operations /\ op.lan = "stealth"
        BY <1>3 DEF Tasks, Operations
  <2>3. t \in Tasks /\ t.listed = task[p].listed
        BY <1>3, <2>2 DEF Tasks
  <2>4. Done(p) \/ ("st" \in TagsPresent /\ Proceed(p, t, LanLayer(op)))
        BY <1>17 DEF DoReassert
  <2> HIDE DEF op, t
  <2>5. ASSUME "st" \in TagsPresent, Proceed(p, t, LanLayer(op)) PROVE good
    <3>1. "ks" \in Gone(rules, {})
      <4>1. Orderly(task[p].todo, Gone(rules, {})) /\ Len(task[p].todo) \in Nat \ {0}
            BY <1>2, <1>3, <2>1, Advances
      <4>2. "ks" \in Conflicts(task[p].todo[1])
            BY <1>3, <2>1 DEF Conflicts, Admits
      <4>3. Cleared("ks", 1, task[p].todo, Gone(rules, {}))
            BY <4>1, <4>2 DEF Orderly
      <4> QED BY <4>3 DEF Cleared
    <3>2. Lan \ {"st"} \subseteq Gone(rules, {})
      <4>1. DOMAIN rules = 1 .. Len(rules)
            BY <1>1, RulesTyped
      <4>2. PICK k \in DOMAIN rules : rules[k].tag = "st"
            BY <2>5 DEF TagsPresent
      <4>3. \A tag \in Lan \ {"st"}, i \in DOMAIN rules : rules[i].tag # tag
            BY <1>1, <4>1, <4>2 DEF Arranged, OneMode, Lan
      <4> QED BY <4>1, <4>3 DEF Gone, Lan, Tags
    <3>3. TagOf[op.lan] = "st" /\ op.lan # "block"
          BY <2>2 DEF TagOf
    <3>4. Orderly(LanLayer(op), Gone(rules, {}))
          BY <2>2, <3>1, <3>2, <3>3, LanLayerOrderly
    <3>5. Goes(p, LanLayer(op))
          BY <1>1, <1>3, <2>1, <2>3, <2>5, ProceedGoes
    <3>6. Arranged(rules') /\ Gone(rules, {}) \subseteq Gone(rules', {})
          BY <1>1, <2>1
    <3>7. LanSound(task'[p], rules')
          BY <3>4, <3>5, <3>6, GoesSound
    <3> QED BY <3>5, <3>6, <3>7 DEF Goes
  <2> HIDE DEF good
  <2> QED BY <1>5, <2>1, <2>4, <2>5
<1> QED BY <1>7, <1>8, <1>9, <1>10, <1>11, <1>12, <1>13, <1>14, <1>15, <1>16, <1>17 DEF Step

\* Where an operation may begin: Block once its rules are there, Stealth where
\* there are no rules at all.
Admissible(op) ==
  /\ op \in Operations /\ op.call # "none"
  /\ op.call = "block" => op.lan = "block" /\ "lb" \in TagsPresent
  /\ op.call = "stealth" => op.lan = "stealth" /\ rules = <<>>

\* What the daemon starts may begin.
LEMMA DaemonAdmissible ==
  ASSUME TypeInv, Daemon
  PROVE  UNCHANGED task \/ \E op \in Operations : Admissible(op) /\ Start("daemon", op)
<1>1. NoServer \in Targets /\ vpn \in Targets /\ \A s \in Servers : s \in Targets
      BY DEF Targets, TypeInv
<1> DEFINE started == \E op \in Operations : Admissible(op) /\ Start("daemon", op)
<1>2. ASSUME NEW call \in {"simple", "update", "disable"}, NEW s \in Targets,
             NEW up \in BOOLEAN, NEW op \in Op(call, s, up), Start("daemon", op)
      PROVE  started
      BY <1>2, OpTypes DEF Admissible
<1>3. ASSUME NEW s \in Servers, ConnectBegins(s) PROVE UNCHANGED task \/ started
  <2> HIDE DEF started
  <2> QED BY <1>1, <1>2, <1>3 DEF ConnectBegins, IfOn
<1>4. ASSUME OldTunnelDown PROVE UNCHANGED task \/ started
  <2> HIDE DEF started
  <2> QED BY <1>1, <1>2, <1>4 DEF OldTunnelDown
<1>5. ASSUME ConnectSucceeds PROVE UNCHANGED task \/ started
  <2> SUFFICES ASSUME "lb" \in TagsPresent, NEW op \in Op("block", vpn, TRUE),
                      Start("daemon", [op EXCEPT !.lan = "block"])
               PROVE  started
      BY <1>5 DEF ConnectSucceeds
  <2> DEFINE o == [op EXCEPT !.lan = "block"]
  <2>1. op \in Operations /\ op.call = "block"
        BY <1>1, OpTypes
  <2>2. o \in Operations /\ o.call = "block" /\ o.lan = "block"
        BY <2>1 DEF Operations
  <2>3. Start("daemon", o)
        OBVIOUS
  <2> HIDE DEF o
  <2> QED BY <2>2, <2>3 DEF Admissible
<1>6. ASSUME ConnectFailsLate PROVE UNCHANGED task \/ started
  <2> HIDE DEF started
  <2> QED BY <1>1, <1>2, <1>6 DEF ConnectFailsLate, IfOn
<1>7. ASSUME TunnelDown PROVE UNCHANGED task \/ started
  <2> HIDE DEF started
  <2> QED BY <1>1, <1>2, <1>7 DEF TunnelDown
<1>8. ASSUME TunnelUp \/ ConnectFailsEarly PROVE UNCHANGED task
      BY <1>8 DEF TunnelUp, ConnectFailsEarly
<1> HIDE DEF started
<1> QED BY <1>3, <1>4, <1>5, <1>6, <1>7, <1>8 DEF Daemon, started

\* So is what the user does.
LEMMA UserAdmissible ==
  ASSUME TypeInv, NEW op \in Commanded \cup Posture \cup Installed
  PROVE  Admissible(op)
<1>1. op \in Operations /\ op.call # "none"
      BY UserOpTypes
<1>2. CASE op \in Commanded
  <2>1. op.call \in {"enable", "simple", "disable", "teardown"}
        BY <1>2 DEF Commanded, Op, NoOp
  <2> QED BY <1>1, <2>1 DEF Admissible
<1>3. CASE op \in Posture
  <2>1. op.call \in {"reconcile", "blockV6", "allowV6"}
        BY <1>3 DEF Posture, Toggled
  <2> QED BY <1>1, <2>1 DEF Admissible
<1>4. CASE op \in Installed
  <2>1. op.call = "stealth" /\ op.lan = "stealth" /\ rules = <<>>
        BY <1>4 DEF Installed, NoOp
  <2> QED BY <1>1, <2>1 DEF Admissible
<1> QED BY <1>2, <1>3, <1>4

\* An operation that may begin is orderly.
LEMMA StartedLanSound ==
  ASSUME LanInv, NEW p \in Processes, NEW op, Admissible(op), Start(p, op), rules' = rules
  PROVE  LanSound(task'[p], rules') /\ Others(p)
<1> DEFINE t == [Idle EXCEPT !.op = op, !.todo = Script(op)]
<1>1. t.todo = Script(op) /\ t.listed = {}
      BY DEF Idle
<1>2. task' = [task EXCEPT ![p] = t] /\ task \in [Processes -> Tasks]
      BY DEF Start, LanInv, TypeInv
<1> HIDE DEF t
<1>3. Goes(p, Script(op))
      BY <1>1, <1>2 DEF Goes, Others
<1>4. DOMAIN rules = 1 .. Len(rules)
      BY RulesTyped DEF LanInv
<1>5. ASSUME op.call = "block" PROVE Lan \ {TagOf[op.lan]} \subseteq Gone(rules, {})
  <2>1. PICK k \in DOMAIN rules : rules[k].tag = "lb"
        BY <1>5 DEF Admissible, TagsPresent
  <2>2. \A tag \in Lan \ {"lb"}, i \in DOMAIN rules : rules[i].tag # tag
        BY <1>4, <2>1 DEF LanInv, Arranged, OneMode, Lan
  <2>3. TagOf[op.lan] = "lb"
        BY <1>5 DEF Admissible, TagOf
  <2> QED BY <1>4, <2>2, <2>3 DEF Gone, Lan, Tags
<1>6. ASSUME op.call = "stealth" PROVE Tags \subseteq Gone(rules, {})
  <2>1. DOMAIN rules = {}
        BY <1>6 DEF Admissible
  <2> QED BY <1>4, <2>1 DEF Gone
<1>7. op.call = "stealth" => "ks" \in Gone(rules, {}) /\ Lan \ {TagOf[op.lan]} \subseteq Gone(rules, {})
      BY <1>6 DEF Lan, Tags
<1>8. Orderly(Script(op), Gone(rules, {}))
      BY <1>5, <1>7, ScriptOrderly DEF Admissible
<1>9. LanSound(task'[p], rules')
      BY <1>3, <1>8, GoesSound
<1> QED BY <1>3, <1>9 DEF Goes

\* The rules stay arranged and the commands to come orderly.
LEMMA LanInvInductive ==
  ASSUME Serial = TRUE, DeletionsSucceed
  PROVE  /\ Init => LanInv
         /\ LanInv /\ [Next]_vars => LanInv'
<1>1. LanSound(Idle, rules)
      BY EmptyOrderly DEF LanSound, Idle
<1>2. Init => LanInv
  <2> SUFFICES ASSUME Init PROVE LanInv
      OBVIOUS
  <2>1. \A p \in Processes : task[p] = Idle
        BY DEF Init
  <2>2. Len(rules) = 0
        BY EmptySeq DEF Init
  <2>3. Arranged(rules)
        BY <2>2 DEF Arranged, Distinct, OneMode, AdmitFirst
  <2> QED BY <1>1, <2>1, <2>3, TypeInvInductive DEF LanInv, OneAtATime, Quiet
<1>3. ASSUME LanInv, Next PROVE LanInv'
  <2>1. TypeInv /\ TypeInv' /\ Arranged(rules)
        BY <1>3, TypeInvInductive DEF LanInv
  <2> DEFINE one(p) == /\ \A q \in Processes : q # p => Quiet(q)
                       /\ Arranged(rules') /\ LanSound(task'[p], rules') /\ Others(p)
             same == UNCHANGED <<task, rules>>
  <2>2. same \/ \E p \in Processes : one(p)
    <3>1. CASE Daemon
      <4>1. rules' = rules /\ AllQuiet /\ "daemon" \in Processes
            BY <2>1, <3>1, DaemonStarts DEF Processes, Free, OnlyTask, ufwVars
      <4>2. CASE UNCHANGED task
            BY <4>1, <4>2
      <4>3. CASE \E op \in Operations : Admissible(op) /\ Start("daemon", op)
        <5>1. LanSound(task'["daemon"], rules') /\ Others("daemon")
              BY <1>3, <4>1, <4>3, StartedLanSound
        <5>2. one("daemon")
              BY <2>1, <4>1, <5>1 DEF AllQuiet
        <5> QED BY <4>1, <5>2
      <4> QED BY <2>1, <3>1, <4>2, <4>3, DaemonAdmissible
    <3>2. CASE User
      <4>1. PICK op \in Commanded \cup Posture \cup Installed : Start("user", op)
            BY <3>2 DEF User
      <4>2. rules' = rules /\ AllQuiet /\ "user" \in Processes
            BY <3>2 DEF User, Free, Processes, OnlyTask, ufwVars
      <4>3. LanSound(task'["user"], rules') /\ Others("user")
            BY <1>3, <2>1, <4>1, <4>2, UserAdmissible, StartedLanSound
      <4>4. one("user")
            BY <2>1, <4>2, <4>3 DEF AllQuiet
      <4> QED BY <4>2, <4>4
    <3>3. ASSUME NEW p \in Processes, Step(p) PROVE one(p)
      <4>1. task[p].todo # <<>>
            BY <3>3 DEF Step, WriteFails, DoAdd, DoDelete, DoPolicy, DoClear, DoActivate,
               DoRelease, DoSavePolicy, DoStopUnlessDeny, DoRefuse, DoReassert, Doing
      <4>2. ~Quiet(p)
        <5>1. Idle.todo = <<>>
              BY DEF Idle
        <5> QED BY <4>1, <5>1 DEF Quiet
      <4>3. \A q \in Processes : q # p => Quiet(q)
            BY <1>3, <4>2 DEF LanInv, OneAtATime
      <4> QED BY <1>3, <2>1, <3>3, <4>3, LanStep
    <3> HIDE DEF one, same
    <3> QED BY <1>3, <3>1, <3>2, <3>3 DEF Next
  <2>3. ASSUME same PROVE LanInv'
        BY <1>3, <2>1, <2>3 DEF LanInv, OneAtATime, Quiet, LanSound, Gone
  <2>4. ASSUME NEW p \in Processes, one(p) PROVE LanInv'
    <3>1. \A q \in Processes : q # p => task'[q] = Idle
          BY <2>4 DEF Others, Quiet
    <3>2. LanSound(Idle, rules')
          BY EmptyOrderly DEF LanSound, Idle
    <3>3. ASSUME NEW q \in Processes PROVE LanSound(task'[q], rules')
      <4>1. CASE q = p
            BY <2>4, <4>1
      <4>2. CASE q # p
            BY <3>1, <3>2, <4>2 DEF LanSound
      <4> QED BY <4>1, <4>2
    <3>4. OneAtATime'
          BY <3>1 DEF OneAtATime, Quiet
    <3> QED BY <2>1, <2>4, <3>3, <3>4 DEF LanInv
  <2> QED BY <2>2, <2>3, <2>4
<1>4. LanInv /\ UNCHANGED vars => LanInv'
  <2> SUFFICES ASSUME LanInv, UNCHANGED vars PROVE LanInv'
      OBVIOUS
  <2>1. TypeInv' /\ task' = task /\ rules' = rules
        BY TypeInvInductive DEF LanInv, vars, ufwVars
  <2> QED BY <2>1 DEF LanInv, OneAtATime, Quiet, LanSound, Gone
<1> QED BY <1>2, <1>3, <1>4

\* While no two operations overlap and rules can be listed and deleted, no
\* sequence of enables, disables, updates, toggles and their failures leaves the
\* rules of two Local Network modes (reconcileLocked, reapplyStealthAfterDisable).
THEOREM OneLanModeAlways ==
  ASSUME Serial = TRUE, DeletionsSucceed
  PROVE  Spec => []OneLanMode
<1>1. Spec => []LanInv
      BY LanInvInductive, PTL DEF Spec
<1>2. LanInv => OneLanMode
  <2> SUFFICES ASSUME LanInv PROVE Cardinality(TagsPresent \cap {"la", "st", "lb"}) <= 1
      BY DEF OneLanMode
  <2> DEFINE modes == TagsPresent \cap {"la", "st", "lb"}
  <2>1. \A x, y \in modes : x = y
        BY RulesTyped DEF LanInv, Arranged, OneMode, Lan, TagsPresent
  <2>2. CASE modes = {}
        BY <2>2, FS_EmptySet
  <2>3. CASE modes # {}
    <3>1. PICK x : modes = {x}
          BY <2>1, <2>3
    <3> HIDE DEF modes
    <3>2. Cardinality({x}) = 1
          BY FS_Singleton
    <3> QED BY <3>1, <3>2 DEF modes
  <2> QED BY <2>2, <2>3
<1> QED BY <1>1, <1>2, PTL

\* Nor does it leave the reject in front of the rule of a mode that admits the LAN:
\* what leaves for the LAN meets that rule first (Reconcile lays the Local Network
\* layer before the killswitch, Disable clears the killswitch before it brings
\* Stealth back).
THEOREM LanSurvivesAlways ==
  ASSUME Serial = TRUE, DeletionsSucceed
  PROVE  Spec => []LanSurvives
<1>1. Spec => []LanInv
      BY LanInvInductive, PTL DEF Spec
<1>2. LanInv => LanSurvives
  <2> SUFFICES ASSUME LanInv, NEW i \in At(Plain("lanOut")), rules[i].verb = "allow"
               PROVE  Accepted(Plain("lan"))
      BY DEF LanSurvives
  <2>1. DOMAIN rules = 1 .. Len(rules) /\ Len(rules) \in Nat
        BY RulesTyped DEF LanInv
  <2>2. Covering(Plain("lan")) = {Plain("physOut"), Plain("lanOut")}
    <3>1. Plain("wan") # Plain("lan")
          BY DEF Plain
    <3> QED BY <3>1, Zenon DEF Covering
  <2>3. i \in 1 .. Len(rules) /\ rules[i].match = Plain("lanOut") /\ i \in Hits(Plain("lan"))
        BY <2>1, <2>2 DEF At, Hits
  <2>4. ASSUME NEW j \in Hits(Plain("lan")) PROVE i <= j
    <3>1. j \in 1 .. Len(rules)
          /\ (rules[j].match = Plain("physOut") \/ rules[j].match = Plain("lanOut"))
          BY <2>1, <2>2 DEF Hits
    <3>2. CASE rules[j].match = Plain("physOut")
          BY <2>1, <2>3, <3>1, <3>2 DEF LanInv, Arranged, AdmitFirst
    <3>3. CASE rules[j].match = Plain("lanOut")
          BY <2>1, <2>3, <3>1, <3>3 DEF LanInv, Arranged, Distinct
    <3> QED BY <3>1, <3>2, <3>3
  <2> QED BY <2>3, <2>4 DEF Accepted
<1> QED BY <1>1, <1>2, PTL

=============================================================================
