--------------------------- MODULE Machine_proofs ---------------------------
(***************************************************************************)
(* Theorems about the life of an installation, the deletion of files and   *)
(* the health score, each in behaviours of its own, and about the types of *)
(* the components that module MCMachine puts together.                     *)
(***************************************************************************)
EXTENDS MCMachine, Lifecycle, Tunnel_proofs, ConfigStore_proofs, Catalog_proofs,
        FiniteSetTheorems, SequenceTheorems, WellFoundedInduction

(* Installing, updating, uninstalling: module Lifecycle.  An invariant for *)
(* what config.json records, and one for an uninstall that is alone.       *)

\* What config.json says, if it can be read, or has said and lost.
OnRecord == Loaded \cup past.lost

\* The steps of the uninstaller that come before its present one.
Over(a) == \E i \in 1 .. script.step - 1 : UninstallSteps[i] = a

ScriptStates == [doing : {"nothing", "install", "uninstall"}, step : 1 .. 21,
                 knows : SUBSET Recordable, keepKeys : BOOLEAN]
PastStates == [uninstalled : BOOLEAN, told : SUBSET Artifacts, alone : BOOLEAN,
               recorded : SUBSET Recordable, lost : SUBSET Recordable]

LifecycleShape ==
  /\ there \subseteq Artifacts /\ records \in (SUBSET Recordable) \cup {Broken}
  /\ agent \in {"none", "serving", "leaving"} /\ held \in SUBSET Recordable
  /\ tui \in [open : BOOLEAN, knows : SUBSET Recordable]
  /\ script \in ScriptStates /\ past \in PastStates
  /\ trouble \in 0 .. MaxTrouble
  /\ script.doing = "install" => script.step <= 16

\* An installation writes what was on record again; an uninstall knows of it,
\* and takes config.json away after the rest.
RecordInv ==
  /\ script.doing = "install" => past.recorded \subseteq OnRecord
  /\ script.doing = "install" /\ script.step > 2 =>
       past.recorded \subseteq script.knows \cup past.lost /\ "configDir" \in there
  /\ script.doing = "uninstall" =>
       /\ past.recorded \subseteq script.knows \cup past.lost
       /\ \A a \in Recordable : Over(a) => a \notin (there \cap past.recorded) \ (past.told \cup past.lost)
  /\ there \cap past.recorded \subseteq past.told \cup OnRecord

\* What a step of the uninstaller is there to remove.
Removes(item) ==
  CASE item = "binary" -> {"binary", "capabilities"}
    [] item = "config" -> {"config", "runtime"}
    [] OTHER -> {item} \cap Artifacts

Accounted(a) ==
  a \notin there
  \/ a \in past.told \cup Unheeded \cup (Recordable \ (past.recorded \ past.lost))

\* An uninstall that is alone has accounted for what its steps remove, as far as
\* it has come, and from the step on that stops the daemon there is none.
SweepInv ==
  /\ past.uninstalled => script.doing = "nothing"
  /\ "binary" \in past.told => "capabilities" \in past.told
  /\ past.alone /\ Removing => ~tui.open
  /\ past.alone /\ past.uninstalled => agent = "none" /\ \A a \in Artifacts : Accounted(a)
  /\ past.alone /\ script.doing = "uninstall" =>
       /\ Over("daemon") => agent = "none"
       /\ \A item \in Artifacts : Over(item) => \A a \in Removes(item) : Accounted(a)

\* How long the scripts are, and where their steps come.
LEMMA Lengths == Len(InstallSteps) = 16 /\ Len(UninstallSteps) = 21
BY DEF InstallSteps, UninstallSteps

\* Where the steps of the installer that matter come.
LEMMA InstallOrder ==
  \A i \in 1 .. 16 :
    /\ InstallSteps[i] = "binary" => i = 1
    /\ InstallSteps[i] = "configDir" => i = 2
    /\ InstallSteps[i] = "sudoers" => i = 5
    /\ InstallSteps[i] \notin {"binary", "configDir"} => i > 2
BY DEF InstallSteps

\* The steps of the uninstaller.
LEMMA UninstallOrder ==
  /\ UninstallSteps[1] = "tunnel" /\ UninstallSteps[2] = "ask" /\ UninstallSteps[3] = "rules"
  /\ UninstallSteps[4] = "ipv6" /\ UninstallSteps[5] = "daemon" /\ UninstallSteps[6] = "menu"
  /\ UninstallSteps[7] = "bindings" /\ UninstallSteps[8] = "waybar" /\ UninstallSteps[9] = "path"
  /\ UninstallSteps[10] = "autostart" /\ UninstallSteps[11] = "launcher"
  /\ UninstallSteps[12] = "log" /\ UninstallSteps[13] = "sudoers" /\ UninstallSteps[14] = "share"
  /\ UninstallSteps[15] = "clone" /\ UninstallSteps[16] = "binary" /\ UninstallSteps[17] = "config"
  /\ UninstallSteps[18] = "providers" /\ UninstallSteps[19] = "cache"
  /\ UninstallSteps[20] = "wireguard" /\ UninstallSteps[21] = "configDir"
BY DEF UninstallSteps

\* Where config.json and the directory come.
LEMMA UninstallPlaces ==
  \A i \in 1 .. 21 : /\ UninstallSteps[i] = "config" => i = 17
                     /\ UninstallSteps[i] = "configDir" => i = 21
BY DEF UninstallSteps

\* A file that is broken says nothing.
LEMMA BrokenIsNone == Broken \notin SUBSET Recordable
BY DEF Broken, Recordable

\* What is read is what can be recorded.
LEMMA LoadedTypes == LifecycleShape => Loaded \in SUBSET Recordable
BY DEF LifecycleShape, Loaded

\* No script.
LEMMA NoScriptFields ==
  NoScript.doing = "nothing" /\ NoScript.step = 1 /\ NoScript \in ScriptStates
BY DEF NoScript, ScriptStates

\* The steps the uninstaller has behind it.
LEMMA OverAt ==
  ASSUME NEW i \in 1 .. 21, NEW n \in 1 .. 21, script.step = n, i < n
  PROVE  Over(UninstallSteps[i])
BY DEF Over

\* A script goes on to its next step, or is over.
LEMMA FollowingOf ==
  ASSUME NEW s \in ScriptStates, s.doing # "nothing", s.doing = "install" => s.step <= 16
  PROVE  /\ Following(s) \in ScriptStates
         /\ Following(s).doing = "install" => Following(s).step <= 16
         /\ \/ Following(s) = NoScript /\ s.step = Len(StepsOf(s.doing))
            \/ /\ Following(s).doing = s.doing /\ Following(s).step = s.step + 1
               /\ Following(s).knows = s.knows /\ Following(s).keepKeys = s.keepKeys
               /\ s.step < Len(StepsOf(s.doing))
<1>1. Len(StepsOf(s.doing)) = IF s.doing = "install" THEN 16 ELSE 21
      BY Lengths DEF StepsOf
<1>2. NoScript \in ScriptStates /\ NoScript.doing = "nothing"
      BY DEF NoScript, ScriptStates
<1>3. CASE s.step = Len(StepsOf(s.doing))
      BY <1>2, <1>3 DEF Following
<1>4. CASE s.step # Len(StepsOf(s.doing))
  <2>1. Following(s) = [s EXCEPT !.step = s.step + 1]
        BY <1>4 DEF Following
  <2>2. s.step \in 1 .. 21 /\ s.step < Len(StepsOf(s.doing)) /\ s.step + 1 \in 1 .. 21
        BY <1>1, <1>4 DEF ScriptStates
  <2> QED BY <1>1, <2>1, <2>2 DEF ScriptStates
<1> QED BY <1>3, <1>4

\* Where the installer is.
LEMMA InstallAt ==
  ASSUME LifecycleShape, NEW name, AtStep("install", name)
  PROVE  script.doing = "install" /\ script.step \in 1 .. 16 /\ InstallSteps[script.step] = name
BY DEF LifecycleShape, ScriptStates, AtStep, StepsOf
\* Where the uninstaller is.
LEMMA UninstallAt ==
  ASSUME LifecycleShape, NEW name, AtStep("uninstall", name)
  PROVE  script.doing = "uninstall" /\ script.step \in 1 .. 21 /\ UninstallSteps[script.step] = name
BY DEF LifecycleShape, ScriptStates, AtStep, StepsOf

\* The script under way does.
LEMMA FollowingFields ==
  ASSUME LifecycleShape, script.doing # "nothing"
  PROVE  /\ Following(script) \in ScriptStates
         /\ Following(script).doing = "install" => Following(script).step <= 16
         /\ \/ Following(script) = NoScript /\ script.step = Len(StepsOf(script.doing))
            \/ /\ Following(script).doing = script.doing /\ Following(script).step = script.step + 1
               /\ Following(script).knows = script.knows
               /\ Following(script).keepKeys = script.keepKeys
               /\ script.step < Len(StepsOf(script.doing))
BY FollowingOf DEF LifecycleShape

\* An installer that is not at its last step goes on.
LEMMA InstallContinues ==
  ASSUME LifecycleShape, script.doing = "install", script.step < 16
  PROVE  /\ Following(script) \in ScriptStates /\ Following(script).doing = "install"
         /\ Following(script).knows = script.knows /\ Following(script).step <= 16
<1>1. script \in ScriptStates /\ script.step \in 1 .. 21 /\ script.step # 16
      BY DEF LifecycleShape, ScriptStates
<1>2. Len(StepsOf("install")) = 16
      BY Lengths DEF StepsOf
<1>3. Following(script) = [script EXCEPT !.step = script.step + 1]
      BY <1>1, <1>2 DEF Following
<1> QED BY <1>1, <1>3 DEF ScriptStates

\* A step of the uninstaller that removes one thing keeps to the types.
LEMMA DropsTypes ==
  ASSUME LifecycleShape, NEW a \in Artifacts, Drops(a) PROVE LifecycleShape'
<1>1. script.doing # "nothing" /\ script' = Following(script)
      BY DEF Drops, AtStep, GoOn
<1>2. there' \subseteq Artifacts /\ past' \in PastStates
      BY DEF Drops, LifecycleShape, PastStates
<1>3. trouble' \in 0 .. MaxTrouble
      BY TroubleAssumption DEF Drops, LifecycleShape, Trouble
<1> QED BY <1>1, <1>2, <1>3, FollowingFields DEF Drops, LifecycleShape

\* One that leaves a thing there does, too.
LEMMA LeavesTypes ==
  ASSUME LifecycleShape, NEW a, Leaves(a) PROVE LifecycleShape'
<1>1. script.doing # "nothing" /\ script' = Following(script)
      BY DEF Leaves, AtStep, GoOn
<1>2. trouble' \in 0 .. MaxTrouble
      BY TroubleAssumption DEF Leaves, LifecycleShape, Trouble
<1> QED BY <1>1, <1>2, FollowingFields DEF Leaves, LifecycleShape

\* So does one of the installer.
LEMMA MostlyTypes ==
  ASSUME LifecycleShape, NEW item, NEW usual \in SUBSET Artifacts, NEW other \in SUBSET Artifacts,
         Mostly(item, usual, other)
  PROVE  LifecycleShape'
<1>1. script.doing # "nothing" /\ script' = Following(script)
      BY DEF Mostly, AtStep, GoOn
<1>2. trouble' \in 0 .. MaxTrouble
      BY TroubleAssumption DEF Mostly, LifecycleShape, Trouble
<1> QED BY <1>1, <1>2, FollowingFields DEF Mostly, LifecycleShape

\* The installer and the updater.
LEMMA InstallTypes ==
  ASSUME LifecycleShape,
         \/ InstallStarts \/ Interrupted \/ InstallBinary \/ InstallConfigDir \/ InstallConfig
         \/ InstallName \/ InstallSudoers \/ RecordSudoers \/ InstallCapabilities \/ InstallIPv6
         \/ InstallStealth \/ InstallBindings \/ InstallWaybar \/ InstallLauncher \/ InstallPath
         \/ InstallAutostart \/ InstallMenu \/ InstallRemovesSource \/ Update
  PROVE  LifecycleShape'
<1> USE DEF LifecycleShape
<1>t. Trouble \/ UNCHANGED trouble => trouble' \in 0 .. MaxTrouble
      BY TroubleAssumption DEF Trouble
<1>f. script.doing # "nothing" =>
        /\ Following(script) \in ScriptStates
        /\ Following(script).doing = "install" => Following(script).step <= 16
      BY FollowingFields
<1>n. /\ NoScript \in ScriptStates /\ NoScript.doing = "nothing" /\ NoScript.step = 1
      /\ NoPast \in PastStates
      BY DEF NoScript, NoPast, ScriptStates, PastStates
<1>1. CASE InstallStarts
  <2>1. script' \in ScriptStates /\ script'.step = 1
        BY <1>1, <1>n DEF InstallStarts, ScriptStates
  <2> DEFINE lost == past.lost \ Loaded
  <2>a. past' = [NoPast EXCEPT !.recorded = StillRecorded, !.lost = lost]
        BY <1>1, Zenon DEF InstallStarts
  <2>b. StillRecorded \in SUBSET Recordable /\ lost \in SUBSET Recordable
        BY DEF StillRecorded, PastStates
  <2> HIDE DEF lost
  <2>2. past' \in PastStates
        BY <2>a, <2>b, <1>n DEF PastStates
  <2> QED BY <1>1, <1>t, <2>1, <2>2 DEF InstallStarts, Beside
<1>2. CASE Interrupted
      BY <1>2, <1>t, <1>n DEF Interrupted
<1>3. CASE InstallBinary
      BY <1>3, <1>t, <1>f, <1>n DEF InstallBinary, AtStep, GoOn, Artifacts
<1>4. CASE InstallConfigDir
  <2>1. script.doing # "nothing" /\ "configDir" \in Artifacts
        BY <1>4 DEF InstallConfigDir, AtStep, Artifacts
  <2>2. PICK k \in SUBSET Recordable : script' = [Following(script) EXCEPT !.knows = k]
    <3>1. ({"clone"} \cap there) \cup Loaded \in SUBSET Recordable
          BY LoadedTypes DEF Recordable
    <3> QED BY <1>4, <3>1, Zenon DEF InstallConfigDir
  <2>3. script' \in ScriptStates /\ script'.doing = Following(script).doing
        /\ script'.step = Following(script).step
        BY <2>1, <2>2, <1>f DEF ScriptStates
  <2> QED BY <1>4, <1>t, <1>f, <2>1, <2>3 DEF InstallConfigDir
<1>5. ASSUME NEW k \in SUBSET Recordable, SaveWith(k)
      PROVE  there' \subseteq Artifacts /\ records' \in (SUBSET Recordable) \cup {Broken}
      BY <1>5 DEF SaveWith, Artifacts
<1>6. CASE InstallConfig
  <2>1. script.doing # "nothing" /\ script.knows \in SUBSET Recordable
        BY <1>6 DEF InstallConfig, AtStep, ScriptStates
  <2>2. past' \in PastStates
        BY <1>6, <2>1 DEF InstallConfig, PastStates
  <2>3. there' \subseteq Artifacts /\ records' \in (SUBSET Recordable) \cup {Broken}
        BY <1>6, <2>1, <1>5 DEF InstallConfig
  <2> QED BY <1>6, <2>1, <2>2, <2>3, <1>t, <1>f, <1>n DEF InstallConfig, GoOn
<1>7. CASE InstallName
  <2>1. script.doing # "nothing" /\ script.knows \in SUBSET Recordable
        BY <1>7 DEF InstallName, AtStep, ScriptStates
  <2>2. there' \subseteq Artifacts /\ records' \in (SUBSET Recordable) \cup {Broken}
        BY <1>7, <2>1, <1>5 DEF InstallName
  <2> QED BY <1>7, <2>1, <2>2, <1>t, <1>f DEF InstallName, GoOn
<1>8. CASE InstallSudoers
  <2>1. script.doing # "nothing" /\ "sudoers" \in Artifacts /\ "sudoers" \in Recordable
        BY <1>8 DEF InstallSudoers, AtStep, Artifacts, Recordable
  <2>2. script' \in ScriptStates /\ (script'.doing = "install" => script'.step <= 16)
    <3>1. CASE script' = [Following(script) EXCEPT !.knows = @ \cup {"sudoers"}]
          BY <2>1, <3>1, <1>f DEF ScriptStates
    <3>2. CASE script' = Following(Following(script))
      <4>1. script.doing = "install" /\ script.step = 5
            BY <1>8, InstallAt, InstallOrder DEF InstallSudoers
      <4>2. Following(script).doing = "install"
            BY <4>1, InstallContinues
      <4> QED BY <1>f, <2>1, <3>2, <4>2, FollowingOf
    <3> QED BY <1>8, <3>1, <3>2 DEF InstallSudoers
  <2> QED BY <1>8, <2>1, <2>2, <1>t DEF InstallSudoers
<1>9. CASE RecordSudoers
  <2>1. script.doing # "nothing" /\ script.knows \in SUBSET Recordable
        BY <1>9 DEF RecordSudoers, AtStep, ScriptStates
  <2>2. past' \in PastStates
        BY <1>9, <2>1 DEF RecordSudoers, PastStates
  <2>3. there' \subseteq Artifacts /\ records' \in (SUBSET Recordable) \cup {Broken}
        BY <1>9, <2>1, <1>5 DEF RecordSudoers
  <2> QED BY <1>9, <2>1, <2>2, <2>3, <1>t, <1>f DEF RecordSudoers, GoOn
<1>10. ASSUME NEW a \in Artifacts, Puts(a) PROVE LifecycleShape'
      BY <1>10, MostlyTypes DEF Puts
<1>11. CASE InstallAutostart \/ InstallMenu \/ InstallRemovesSource
  <2>1. \A a \in Artifacts : there \cup {a} \in SUBSET Artifacts /\ there \ {a} \in SUBSET Artifacts
        OBVIOUS
  <2>2. "autostart" \in Artifacts /\ "menu" \in Artifacts /\ "clone" \in Artifacts
        BY DEF Artifacts
  <2> QED BY <1>11, <2>1, <2>2, MostlyTypes DEF InstallAutostart, InstallMenu, InstallRemovesSource
<1>12. CASE Update
      BY <1>12, <1>t DEF Update, Artifacts
<1> QED
  <2>1. {"capabilities", "ipv6", "rules", "bindings", "waybar", "launcher", "path"} \subseteq Artifacts
        BY DEF Artifacts
  <2> HIDE DEF LifecycleShape
  <2> QED BY <1>1, <1>2, <1>3, <1>4, <1>6, <1>7, <1>8, <1>9, <1>10, <1>11, <1>12, <2>1
          DEF InstallCapabilities, InstallIPv6, InstallStealth, InstallBindings, InstallWaybar,
              InstallLauncher, InstallPath

\* The uninstaller.
LEMMA UninstallTypes ==
  ASSUME LifecycleShape,
         \/ UninstallStarts \/ TerminateDaemon \/ KillDaemon \/ UninstallDisconnects \/ AskForKeys
         \/ UninstallRules \/ UninstallIPv6 \/ StopDaemon \/ UninstallMenu \/ UninstallBindings
         \/ UninstallWaybar \/ UninstallPath \/ UninstallAutostart \/ UninstallLauncher
         \/ UninstallLog \/ UninstallSudoers \/ UninstallShare \/ UninstallClone \/ UninstallBinary
         \/ UninstallConfig \/ UninstallProviders \/ UninstallCache \/ UninstallKeys \/ UninstallEnds
  PROVE  LifecycleShape'
<1>t. /\ trouble \in 0 .. MaxTrouble
      /\ Trouble \/ UNCHANGED trouble => trouble' \in 0 .. MaxTrouble
      BY TroubleAssumption DEF Trouble, LifecycleShape
<1>f. script.doing # "nothing" =>
        /\ Following(script) \in ScriptStates
        /\ Following(script).doing = "install" => Following(script).step <= 16
      BY FollowingFields
<1>n. /\ NoScript \in ScriptStates /\ NoScript.doing = "nothing" /\ NoScript.step = 1
      /\ NoPast \in PastStates
      BY DEF NoScript, NoPast, ScriptStates, PastStates
<1>0. \A a \in Artifacts : Drops(a) \/ Leaves(a) => LifecycleShape'
      BY DropsTypes, LeavesTypes
<1> USE DEF LifecycleShape
<1>1. CASE UninstallStarts
  <2> DEFINE known == Loaded
             open == tui.open
             lost == past.lost \ Loaded
  <2>1. script' = [NoScript EXCEPT !.doing = "uninstall", !.knows = known]
        BY <1>1, Zenon DEF UninstallStarts
  <2>2. known \in SUBSET Recordable /\ StillRecorded \in SUBSET Recordable
        /\ lost \in SUBSET Recordable
        BY LoadedTypes DEF StillRecorded, PastStates
  <2>b. (~open) \in BOOLEAN
        OBVIOUS
  <2>3. past' = [NoPast EXCEPT !.alone = ~open, !.recorded = StillRecorded, !.lost = lost]
        BY <1>1, Zenon DEF UninstallStarts
  <2> HIDE DEF known, open, lost
  <2>4. script' \in ScriptStates /\ script'.doing = "uninstall"
        BY <2>1, <2>2, <1>n DEF ScriptStates
  <2>5. past' \in PastStates
        BY <2>2, <2>b, <2>3, <1>n DEF PastStates
  <2> QED BY <1>1, <1>t, <2>4, <2>5 DEF UninstallStarts, Beside
<1>2. CASE TerminateDaemon \/ KillDaemon
      BY <1>2, <1>t DEF TerminateDaemon, KillDaemon
<1>3. CASE AskForKeys
  <2>1. script.doing # "nothing"
        BY <1>3 DEF AskForKeys, AtStep
  <2>2. PICK keep \in BOOLEAN : script' = [Following(script) EXCEPT !.keepKeys = keep]
        BY <1>3 DEF AskForKeys
  <2>3. script' \in ScriptStates /\ (script'.doing = "install" => script'.step <= 16)
        BY <2>1, <2>2, <1>f DEF ScriptStates
  <2> QED BY <1>3, <1>t, <2>3 DEF AskForKeys
<1>4. CASE StopDaemon
  <2> DEFINE alone == past.alone /\ agent = "none"
  <2>1. past' = [past EXCEPT !.alone = alone]
        BY <1>4, Zenon DEF StopDaemon
  <2>2. alone \in BOOLEAN
        BY DEF PastStates
  <2> HIDE DEF alone
  <2>3. past' \in PastStates
        BY <2>1, <2>2 DEF PastStates
  <2> QED BY <1>4, <1>t, <1>f, <2>3 DEF StopDaemon, AtStep, GoOn
<1>5. CASE UninstallLauncher
  <2>1. CASE Leaves("launcher")
        BY <2>1, LeavesTypes
  <2>2. CASE ~Leaves("launcher")
        BY <1>5, <2>2, <1>t, <1>f DEF UninstallLauncher, AtStep, GoOn
  <2> QED BY <2>1, <2>2
<1>6. ASSUME NEW a, Unrecorded(a) PROVE LifecycleShape'
      BY <1>6, <1>t, <1>f DEF Unrecorded, AtStep, GoOn
<1>7. CASE UninstallBinary
  <2>0. {"binary", "capabilities"} \subseteq Artifacts
        BY DEF Artifacts
  <2>1. past' \in PastStates
        BY <1>7, <2>0 DEF UninstallBinary, PastStates
  <2> QED BY <1>7, <2>1, <1>t, <1>f DEF UninstallBinary, AtStep, GoOn
<1>8. CASE UninstallConfig
  <2>1. past' \in PastStates
        BY <1>8 DEF UninstallConfig, PastStates
  <2>2. there' \subseteq Artifacts /\ trouble' \in 0 .. MaxTrouble
        BY <1>8, <1>t DEF UninstallConfig
  <2> QED BY <1>8, <2>1, <2>2, <1>f DEF UninstallConfig, AtStep, GoOn
<1>9. CASE UninstallKeys
  <2>1. CASE ~script.keepKeys /\ Drops("wireguard")
        BY <2>1, <1>0 DEF Artifacts
  <2>2. CASE ~(~script.keepKeys /\ Drops("wireguard"))
    <3>0. {"wireguard", "configDir"} \subseteq Artifacts
          BY DEF Artifacts
    <3>1. past' \in PastStates
          BY <1>9, <2>2, <3>0 DEF UninstallKeys, PastStates
    <3> QED BY <1>9, <2>2, <3>1, <1>t, <1>f DEF UninstallKeys, AtStep, GoOn
  <2> QED BY <2>1, <2>2
<1>10. CASE UninstallEnds
  <2> DEFINE told == IF past.told \cap InConfigDir = {} THEN past.told ELSE past.told \cup {"configDir"}
  <2>1. past' = [past EXCEPT !.uninstalled = TRUE, !.told = told]
        BY <1>10, Zenon DEF UninstallEnds
  <2>2. told \in SUBSET Artifacts
        BY DEF PastStates, Artifacts
  <2> HIDE DEF told
  <2>3. past' \in PastStates
        BY <2>1, <2>2 DEF PastStates
  <2>4. there' \subseteq Artifacts
        BY <1>10 DEF UninstallEnds
  <2> QED BY <1>10, <2>3, <2>4, <1>t, <1>f DEF UninstallEnds, AtStep, GoOn
<1> QED
  <2>1. {"tunnel", "rules", "ipv6", "menu", "bindings", "waybar", "path", "autostart", "log",
         "sudoers", "share", "clone", "providers", "cache"} \subseteq Artifacts
        BY DEF Artifacts
  <2> HIDE DEF LifecycleShape
  <2> QED BY <1>0, <1>1, <1>2, <1>3, <1>4, <1>5, <1>6, <1>7, <1>8, <1>9, <1>10, <2>1
          DEF UninstallDisconnects, UninstallRules, UninstallIPv6, UninstallMenu, UninstallBindings,
              UninstallWaybar, UninstallPath, UninstallAutostart, UninstallLog, UninstallSudoers,
              UninstallShare, UninstallClone, UninstallProviders, UninstallCache

\* The daemon and the TUI.
LEMMA MeanwhileTypes ==
  ASSUME LifecycleShape,
         \/ DaemonStarts \/ DaemonPatches \/ DaemonReloads \/ DaemonRebuilds \/ DaemonLeaves
         \/ ConfigBreaks \/ OpenTUI \/ TUIReloads \/ CloseTUI \/ TUISaves \/ TUIAdds
  PROVE  LifecycleShape'
<1> USE DEF LifecycleShape
<1>0. Loaded \in SUBSET Recordable
      BY LoadedTypes
<1>t. /\ trouble \in 0 .. MaxTrouble
      /\ Trouble \/ UNCHANGED trouble => trouble' \in 0 .. MaxTrouble
      BY TroubleAssumption DEF Trouble
<1>1. ASSUME past' = [past EXCEPT !.alone = @ /\ ~Removing] PROVE past' \in PastStates
  <2> DEFINE alone == past.alone /\ ~Removing
  <2>1. past' = [past EXCEPT !.alone = alone] /\ alone \in BOOLEAN
        BY <1>1, Zenon DEF PastStates
  <2> HIDE DEF alone
  <2> QED BY <2>1 DEF PastStates
<1>2. CASE DaemonStarts
  <2>1. there' \subseteq Artifacts
        BY <1>2 DEF DaemonStarts, Artifacts
  <2>2. trouble' \in 0 .. MaxTrouble
        BY <1>2, <1>t, Zenon DEF DaemonStarts, Beside
  <2>3. past' \in PastStates
        BY <1>1, <1>2, Zenon DEF DaemonStarts
  <2> QED BY <1>0, <1>2, <2>1, <2>2, <2>3 DEF DaemonStarts
<1>3. CASE DaemonRebuilds
  <2>1. past' \in PastStates
        BY <1>3 DEF DaemonRebuilds, PastStates
  <2> QED BY <1>3, <2>1 DEF DaemonRebuilds, Artifacts
<1>p. ASSUME NEW without, FilePatched(without)
      PROVE  there' \subseteq Artifacts /\ records' \in (SUBSET Recordable) \cup {Broken}
      BY <1>0, <1>p DEF FilePatched, Artifacts
<1>4. CASE DaemonLeaves
  <2>1. there' \subseteq Artifacts /\ records' \in (SUBSET Recordable) \cup {Broken}
        BY <1>4, <1>p DEF DaemonLeaves
  <2> QED BY <1>4, <2>1 DEF DaemonLeaves
<1>9. CASE DaemonPatches
  <2>1. there' \subseteq Artifacts /\ records' \in (SUBSET Recordable) \cup {Broken}
        BY <1>9, <1>p DEF DaemonPatches
  <2> QED BY <1>9, <2>1 DEF DaemonPatches
<1>10. CASE DaemonReloads
      BY <1>0, <1>10 DEF DaemonReloads
<1>11. CASE ConfigBreaks
  <2>1. past' \in PastStates
        BY <1>11 DEF ConfigBreaks, PastStates
  <2> QED BY <1>11, <1>t, <2>1 DEF ConfigBreaks
<1>12. CASE TUIReloads
      BY <1>0, <1>12 DEF TUIReloads
<1>5. CASE OpenTUI
  <2>1. past' \in PastStates
        BY <1>1, <1>5, Zenon DEF OpenTUI
  <2>2. tui' \in [open : BOOLEAN, knows : SUBSET Recordable]
        BY <1>0, <1>5 DEF OpenTUI
  <2>3. trouble' \in 0 .. MaxTrouble
        BY <1>5, <1>t, Zenon DEF OpenTUI, Beside
  <2> QED BY <1>5, <2>1, <2>2, <2>3 DEF OpenTUI
<1>6. CASE CloseTUI
      BY <1>6 DEF CloseTUI
<1>7. CASE TUISaves
  <2>1. past' \in PastStates
        BY <1>7 DEF TUISaves, PastStates
  <2>2. there' \subseteq Artifacts /\ records' \in (SUBSET Recordable) \cup {Broken}
        BY <1>7 DEF TUISaves, SaveWith, Artifacts
  <2> QED BY <1>7, <2>1, <2>2 DEF TUISaves
<1>8. CASE TUIAdds
      BY <1>8 DEF TUIAdds, Artifacts
<1> QED BY <1>2, <1>3, <1>4, <1>5, <1>6, <1>7, <1>8, <1>9, <1>10, <1>11, <1>12

\* Every step keeps to the types.
LEMMA LifecycleShapeNext == LifecycleShape /\ [LifecycleNext]_lifecycleVars => LifecycleShape'
<1>1. ASSUME LifecycleShape, UNCHANGED lifecycleVars PROVE LifecycleShape'
      BY <1>1 DEF LifecycleShape, lifecycleVars
<1> QED BY <1>1, InstallTypes, UninstallTypes, MeanwhileTypes, Zenon DEF LifecycleNext

\* They hold where it starts.
LEMMA LifecycleShapeInit == LifecycleInit => LifecycleShape
<1> SUFFICES ASSUME LifecycleInit PROVE LifecycleShape
    OBVIOUS
<1>1. script \in ScriptStates /\ script.doing = "nothing" /\ past \in PastStates
      BY DEF LifecycleInit, NoScript, NoPast, ScriptStates, PastStates
<1>2. tui \in [open : BOOLEAN, knows : SUBSET Recordable]
      BY Zenon DEF LifecycleInit
<1>3. trouble \in 0 .. MaxTrouble
      BY TroubleAssumption DEF LifecycleInit
<1> QED BY <1>1, <1>2, <1>3 DEF LifecycleInit, LifecycleShape, Artifacts

\* The installation is always what the module says it can be.
THEOREM LifecycleTypeCorrect == LifecycleInit /\ [][LifecycleNext]_lifecycleVars => []LifecycleTypeOK
<1>1. LifecycleShape => LifecycleTypeOK
      BY Lengths DEF LifecycleShape, LifecycleTypeOK, ScriptStates, PastStates
<1> QED BY <1>1, LifecycleShapeInit, LifecycleShapeNext, PTL

\* Whatever the uninstaller leaves to be removed, one of its steps removes, and
\* all but the directory one before its last.
LEMMA StepsCover ==
  \A a \in Artifacts :
    \E i \in 1 .. 21 : /\ UninstallSteps[i] \in Artifacts /\ a \in Removes(UninstallSteps[i])
                       /\ a # "configDir" => i <= 20
<1> DEFINE Covers(i, a) == /\ UninstallSteps[i] \in Artifacts /\ a \in Removes(UninstallSteps[i])
                           /\ a # "configDir" => i <= 20
<1>1. /\ Covers(1, "tunnel") /\ Covers(3, "rules") /\ Covers(4, "ipv6") /\ Covers(6, "menu")
      /\ Covers(7, "bindings") /\ Covers(8, "waybar") /\ Covers(9, "path") /\ Covers(10, "autostart")
      /\ Covers(11, "launcher") /\ Covers(12, "log")
      BY UninstallOrder DEF Artifacts, Removes
<1>2. /\ Covers(13, "sudoers") /\ Covers(14, "share") /\ Covers(15, "clone") /\ Covers(18, "providers")
      /\ Covers(19, "cache") /\ Covers(20, "wireguard") /\ Covers(21, "configDir")
      BY UninstallOrder DEF Artifacts, Removes
<1>3. /\ Covers(16, "binary") /\ Covers(16, "capabilities") /\ Covers(17, "config")
      /\ Covers(17, "runtime")
      BY UninstallOrder DEF Artifacts, Removes
<1> HIDE DEF Covers
<1>4. ASSUME NEW a \in Artifacts PROVE \E i \in 1 .. 21 : Covers(i, a)
      BY <1>1, <1>2, <1>3 DEF Artifacts
<1> QED BY <1>4 DEF Covers

\* Accounted for once, accounted for while nothing is put back or forgotten.
LEMMA AccountedStays ==
  ASSUME NEW a \in Artifacts, Accounted(a), there' \subseteq there, past.told \subseteq past'.told,
         past'.recorded = past.recorded, past'.lost = past.lost
  PROVE  Accounted(a)'
BY DEF Accounted

\* What is read does not change while the file does not.
LEMMA LoadedKept ==
  ASSUME records' = records, "config" \in there => "config" \in there'
  PROVE  Loaded \subseteq Loaded'
BY DEF Loaded

\* The installer keeps the invariants when it writes what was on record.
LEMMA InstallKeeps ==
  ASSUME LifecycleShape, RecordInv, SweepInv, script.doing = "install",
         script'.doing \in {"install", "nothing"},
         past'.uninstalled = past.uninstalled, past'.told = past.told,
         past'.recorded \subseteq OnRecord',
         script'.doing = "install" /\ script'.step > 2 =>
           past'.recorded \subseteq script'.knows \cup past'.lost /\ "configDir" \in there'
  PROVE  RecordInv' /\ SweepInv'
<1>1. past'.uninstalled = FALSE /\ ~Removing'
      BY DEF SweepInv, Removing, LifecycleShape, PastStates
<1> QED BY <1>1 DEF RecordInv, SweepInv

\* The uninstaller keeps them with a step b that accounts for what it removes.
LEMMA UninstallKeeps ==
  ASSUME LifecycleShape, RecordInv, SweepInv, NEW b, AtStep("uninstall", b),
         \/ script' = NoScript /\ script.step = 21
         \/ /\ script'.doing = "uninstall" /\ script'.step = script.step + 1
            /\ script'.knows = script.knows /\ script.step < 21,
         there' \subseteq there, records' = records, tui' = tui,
         past.told \subseteq past'.told, past'.recorded = past.recorded,
         past'.lost = past.lost, past'.alone => past.alone,
         b # "configDir" => past'.uninstalled = past.uninstalled,
         "binary" \in past'.told => "capabilities" \in past'.told,
         agent' = agent \/ b = "daemon", b = "daemon" /\ past'.alone => agent' = "none",
         "config" \in there /\ b # "config" => "config" \in there',
         past.alone => \A a \in Removes(b) : Accounted(a)',
         b \in Recordable =>
           b \notin (there' \cap past'.recorded) \ (past'.told \cup past'.lost)
  PROVE  RecordInv' /\ SweepInv'
<1>1. /\ script.doing = "uninstall" /\ script.step \in 1 .. 21 /\ UninstallSteps[script.step] = b
      /\ past.uninstalled = FALSE
      BY UninstallAt DEF SweepInv, LifecycleShape, PastStates
<1>2. ASSUME script'.doing = "uninstall" PROVE \A x : Over(x)' <=> Over(x) \/ x = b
  <2>1. script'.step = script.step + 1
        BY <1>2, NoScriptFields
  <2> QED BY <1>1, <2>1 DEF Over
<1>3. script'.doing \in {"nothing", "uninstall"} /\ (script'.doing = "nothing" <=> script.step = 21)
      BY <1>1, NoScriptFields
<1>4. script.step = 21 <=> b = "configDir"
      BY <1>1, UninstallOrder, UninstallPlaces
<1>5. there' \cap past'.recorded \subseteq past'.told \cup OnRecord'
  <2> SUFFICES ASSUME NEW x \in there' \cap past'.recorded, x \notin past'.told,
                      x \notin past'.lost
               PROVE  x \in OnRecord'
      BY DEF OnRecord
  <2>1. x \in there \cap past.recorded /\ x \notin past.told \cup past.lost /\ x \in OnRecord
        BY DEF RecordInv
  <2>2. "config" \in there /\ records # Broken /\ x \in records /\ x \in Recordable
        BY <2>1 DEF OnRecord, Loaded, LifecycleShape
  <2>3. b # "config"
    <3>1. SUFFICES ASSUME script.step = 17 PROVE FALSE
          BY <1>1, UninstallPlaces
    <3>2. Over("sudoers") /\ Over("clone")
      <4>1. Over(UninstallSteps[13]) /\ Over(UninstallSteps[15])
            BY <3>1, OverAt
      <4> QED BY <4>1, UninstallOrder
    <3> QED BY <1>1, <2>1, <2>2, <3>2 DEF RecordInv, Recordable
  <2> QED BY <2>1, <2>2, <2>3 DEF OnRecord, Loaded
<1>6. RecordInv'
  <2>1. script'.doing = "uninstall" =>
          /\ past'.recorded \subseteq script'.knows \cup past'.lost
          /\ \A a \in Recordable :
               Over(a)' => a \notin (there' \cap past'.recorded) \ (past'.told \cup past'.lost)
        BY <1>1, <1>2, NoScriptFields DEF RecordInv
  <2> QED BY <1>3, <1>5, <2>1 DEF RecordInv
<1>7. script'.doing = "uninstall" /\ past'.alone =>
        /\ Over("daemon")' => agent' = "none"
        /\ \A item \in Artifacts : Over(item)' => \A a \in Removes(item) : Accounted(a)'
  <2> SUFFICES ASSUME script'.doing = "uninstall", past'.alone
               PROVE  /\ Over("daemon")' => agent' = "none"
                      /\ \A item \in Artifacts : Over(item)' => \A a \in Removes(item) : Accounted(a)'
      OBVIOUS
  <2>1. Over("daemon")' => agent' = "none"
        BY <1>1, <1>2 DEF SweepInv
  <2>2. ASSUME NEW item \in Artifacts, Over(item)', NEW a \in Removes(item) PROVE Accounted(a)'
    <3>1. CASE item = b
          BY <2>2, <3>1
    <3>2. CASE item # b
      <4>1. Over(item) /\ Accounted(a)
            BY <1>1, <1>2, <2>2, <3>2 DEF SweepInv
      <4>2. a \in Artifacts
            BY <2>2 DEF Removes, Artifacts
      <4> QED BY <4>1, <4>2, AccountedStays
    <3> QED BY <3>1, <3>2
  <2> QED BY <2>1, <2>2
<1>8. past'.alone /\ past'.uninstalled => agent' = "none" /\ \A a \in Artifacts : Accounted(a)'
  <2> SUFFICES ASSUME past'.alone, past'.uninstalled
               PROVE  agent' = "none" /\ \A a \in Artifacts : Accounted(a)'
      OBVIOUS
  <2>1. script.step = 21 /\ b = "configDir"
        BY <1>1, <1>4
  <2>2. agent = "none" /\ agent' = agent
    <3>1. Over(UninstallSteps[5])
          BY <2>1, OverAt
    <3> QED BY <1>1, <2>1, <3>1, UninstallOrder DEF SweepInv
  <2>3. ASSUME NEW a \in Artifacts PROVE Accounted(a)'
    <3>1. PICK i \in 1 .. 21 : /\ UninstallSteps[i] \in Artifacts /\ a \in Removes(UninstallSteps[i])
                               /\ a # "configDir" => i <= 20
          BY StepsCover
    <3>2. CASE i = 21
          BY <1>1, <2>1, <3>1, <3>2
    <3>3. CASE i <= 20
      <4>1. Over(UninstallSteps[i])
            BY <2>1, <3>3, OverAt
      <4>2. Accounted(a)
            BY <1>1, <3>1, <4>1 DEF SweepInv
      <4> QED BY <4>2, AccountedStays
    <3>4. i = 21 \/ i <= 20
          OBVIOUS
    <3> QED BY <3>2, <3>3, <3>4
  <2> QED BY <2>2, <2>3
<1>9. past'.uninstalled => script'.doing = "nothing"
      BY <1>1, <1>3, <1>4
<1>10. past'.alone /\ Removing' => ~tui'.open
      BY <1>1 DEF SweepInv, Removing
<1>11. SweepInv'
      BY <1>7, <1>8, <1>9, <1>10 DEF SweepInv
<1> QED BY <1>6, <1>11

\* The steps of the installer.
LEMMA InstallSteady ==
  ASSUME LifecycleShape, RecordInv, SweepInv,
         \/ InstallBinary \/ InstallConfigDir \/ InstallConfig
         \/ InstallName \/ InstallSudoers \/ RecordSudoers \/ InstallCapabilities \/ InstallIPv6
         \/ InstallStealth \/ InstallBindings \/ InstallWaybar \/ InstallLauncher \/ InstallPath
         \/ InstallAutostart \/ InstallMenu \/ InstallRemovesSource
  PROVE  RecordInv' /\ SweepInv'
<1>0. /\ past \in PastStates /\ script \in ScriptStates /\ script.step \in 1 .. 21
      /\ script.knows \subseteq Recordable
      BY DEF LifecycleShape, ScriptStates
<1>1. ASSUME script.doing = "install", script' = Following(script)
      PROVE  /\ script'.doing \in {"install", "nothing"}
             /\ script'.doing = "install" => script'.step = script.step + 1 /\ script'.knows = script.knows
      BY <1>1, FollowingFields, NoScriptFields
<1>2. ASSUME NEW item, item # "binary", item # "configDir", NEW usual, NEW other,
             Mostly(item, usual, other),
             \A x \in {usual, other} : {"config", "configDir"} \cap there \subseteq x
      PROVE  RecordInv' /\ SweepInv'
  <2>1. script.doing = "install" /\ script.step > 2 /\ script' = Following(script)
        BY <1>2, InstallAt, InstallOrder DEF Mostly, GoOn
  <2>2. past' = past /\ records' = records /\ {"config", "configDir"} \cap there \subseteq there'
        BY <1>2 DEF Mostly
  <2>3. past.recorded \subseteq OnRecord /\ past.recorded \subseteq script.knows \cup past.lost
        /\ "configDir" \in there
        BY <2>1 DEF RecordInv
  <2>4. past'.recorded \subseteq OnRecord'
        BY <2>2, <2>3, LoadedKept DEF OnRecord
  <2> QED BY <1>1, <2>1, <2>2, <2>3, <2>4, InstallKeeps
<1>3. CASE InstallBinary
  <2>1. script.doing = "install" /\ script.step = 1
        BY <1>3, InstallAt, InstallOrder DEF InstallBinary
  <2>2. past' = past /\ records' = records /\ ("config" \in there => "config" \in there')
        BY <1>3 DEF InstallBinary
  <2>3. past'.recorded \subseteq OnRecord'
        BY <2>1, <2>2, LoadedKept DEF OnRecord, RecordInv
  <2>4. /\ script'.doing \in {"install", "nothing"}
        /\ script'.doing = "install" => script'.step \in 1 .. 2
        BY <1>1, <1>3, <2>1, NoScriptFields DEF InstallBinary, GoOn
  <2> QED BY <2>1, <2>2, <2>3, <2>4, InstallKeeps
<1>4. CASE InstallConfigDir
  <2> DEFINE known == ({"clone"} \cap there) \cup Loaded
  <2>1. script.doing = "install"
        BY <1>4, InstallAt DEF InstallConfigDir
  <2>2. past' = past /\ records' = records /\ there' = there \cup {"configDir"}
        BY <1>4 DEF InstallConfigDir
  <2>3. script' = [Following(script) EXCEPT !.knows = known]
        BY <1>4, Zenon DEF InstallConfigDir
  <2>4. OnRecord \subseteq known \cup past.lost
        BY DEF OnRecord
  <2> HIDE DEF known
  <2>5. script'.doing = Following(script).doing /\ script'.knows = known
        BY <2>1, <2>3, FollowingFields DEF ScriptStates
  <2>6. script'.doing \in {"install", "nothing"}
        BY <2>1, <2>5, FollowingFields, NoScriptFields
  <2>7. past.recorded \subseteq OnRecord
        BY <2>1 DEF RecordInv
  <2>8. past'.recorded \subseteq OnRecord'
        BY <2>2, <2>7, LoadedKept DEF OnRecord
  <2> QED BY <2>1, <2>2, <2>4, <2>5, <2>6, <2>7, <2>8, InstallKeeps
<1>5. ASSUME script.doing = "install", script.step > 2, SaveWith(script.knows)
      PROVE  Loaded' = script.knows /\ "configDir" \in there'
      BY <1>0, <1>5, BrokenIsNone DEF SaveWith, Loaded, RecordInv
<1>6. CASE InstallConfig \/ RecordSudoers
  <2>1. script.doing = "install" /\ script.step > 2
        BY <1>6, InstallAt, InstallOrder DEF InstallConfig, RecordSudoers
  <2>2. past.recorded \subseteq OnRecord /\ past.recorded \subseteq script.knows \cup past.lost
        /\ "configDir" \in there
        BY <2>1 DEF RecordInv
  <2>3. CASE SaveWith(script.knows) /\ past' = [past EXCEPT !.recorded = @ \cup script.knows] /\ GoOn
    <3>1. /\ past'.recorded = past.recorded \cup script.knows /\ past'.lost = past.lost
          /\ past'.uninstalled = past.uninstalled /\ past'.told = past.told
          BY <1>0, <2>2, <2>3 DEF PastStates
    <3>2. Loaded' = script.knows /\ "configDir" \in there'
          BY <1>5, <2>1, <2>3
    <3>3. past'.recorded \subseteq OnRecord'
          BY <2>2, <3>1, <3>2 DEF OnRecord
    <3> QED BY <1>1, <2>1, <2>2, <2>3, <3>1, <3>2, <3>3, InstallKeeps DEF GoOn
  <2>4. CASE /\ UNCHANGED <<there, records, past>>
             /\ GoOn \/ script' = NoScript
    <3>1. past'.recorded \subseteq OnRecord'
          BY <2>2, <2>4, LoadedKept DEF OnRecord
    <3>2. /\ script'.doing \in {"install", "nothing"}
          /\ script'.doing = "install" => script'.knows = script.knows
          BY <1>1, <2>1, <2>4, NoScriptFields DEF GoOn
    <3> QED BY <2>1, <2>2, <2>4, <3>1, <3>2, InstallKeeps
  <2> QED BY <1>6, <2>3, <2>4 DEF InstallConfig, RecordSudoers
<1>7. CASE InstallName
  <2>1. script.doing = "install" /\ script.step > 2 /\ GoOn /\ past' = past
        BY <1>7, InstallAt, InstallOrder DEF InstallName
  <2>2. past.recorded \subseteq OnRecord /\ past.recorded \subseteq script.knows \cup past.lost
        /\ "configDir" \in there
        BY <2>1 DEF RecordInv
  <2>3. past'.recorded \subseteq OnRecord' /\ "configDir" \in there'
    <3>1. CASE SaveWith(script.knows)
          BY <1>5, <2>1, <2>2, <3>1 DEF OnRecord
    <3>2. CASE UNCHANGED <<there, records>>
          BY <2>1, <2>2, <3>2, LoadedKept DEF OnRecord
    <3> QED BY <1>7, <3>1, <3>2 DEF InstallName
  <2> QED BY <1>1, <2>1, <2>2, <2>3, InstallKeeps DEF GoOn
<1>8. CASE InstallSudoers
  <2>1. script.doing = "install" /\ script.step = 5
        BY <1>8, InstallAt, InstallOrder DEF InstallSudoers
  <2>2. /\ past' = past /\ records' = records /\ there \subseteq there'
        BY <1>8 DEF InstallSudoers
  <2>3. past.recorded \subseteq OnRecord /\ past.recorded \subseteq script.knows \cup past.lost
        /\ "configDir" \in there
        BY <2>1 DEF RecordInv
  <2>4. past'.recorded \subseteq OnRecord'
    <3>1. "config" \in there' <=> "config" \in there
          BY <1>8 DEF InstallSudoers
    <3> QED BY <2>2, <2>3, <3>1, LoadedKept DEF OnRecord
  <2>5. /\ Following(script) \in ScriptStates /\ Following(script).doing = "install"
        /\ Following(script).knows = script.knows /\ Following(script).step <= 16
        BY <2>1, InstallContinues
  <2>6. /\ script'.doing \in {"install", "nothing"}
        /\ script'.doing = "install" => script.knows \subseteq script'.knows
    <3>1. CASE script' = [Following(script) EXCEPT !.knows = @ \cup {"sudoers"}]
          BY <2>5, <3>1 DEF ScriptStates
    <3>2. CASE script' = Following(Following(script))
          BY <2>5, <3>2, FollowingOf, NoScriptFields
    <3> QED BY <1>8, <3>1, <3>2 DEF InstallSudoers
  <2> QED BY <2>1, <2>2, <2>3, <2>4, <2>6, InstallKeeps
<1>9. ASSUME NEW a, a \notin {"binary", "configDir"}, Puts(a) PROVE RecordInv' /\ SweepInv'
      BY <1>2, <1>9 DEF Puts
<1>10. CASE InstallAutostart \/ InstallMenu \/ InstallRemovesSource
      BY <1>2, <1>10 DEF InstallAutostart, InstallMenu, InstallRemovesSource
<1> QED BY <1>3, <1>4, <1>6, <1>7, <1>8, <1>9, <1>10
        DEF InstallCapabilities, InstallIPv6, InstallStealth, InstallBindings, InstallWaybar,
            InstallLauncher, InstallPath

\* The uninstaller goes on, or is at its end.
LEMMA UninstallFollows ==
  ASSUME LifecycleShape, script.doing = "uninstall", script' = Following(script)
  PROVE  \/ script' = NoScript /\ script.step = 21
         \/ /\ script'.doing = "uninstall" /\ script'.step = script.step + 1
            /\ script'.knows = script.knows /\ script.step < 21
<1>1. Len(StepsOf("uninstall")) = 21
      BY Lengths DEF StepsOf
<1> QED BY <1>1, FollowingFields

\* A step that removes one thing, or tells that it could not.
LEMMA DropsKeeps ==
  ASSUME LifecycleShape, RecordInv, SweepInv, NEW a,
         a \notin {"daemon", "binary", "config", "configDir"}, Drops(a)
  PROVE  RecordInv' /\ SweepInv'
<1>1. script.doing = "uninstall" /\ script' = Following(script) /\ AtStep("uninstall", a)
      BY DEF Drops, AtStep, GoOn
<1>2. /\ there' \subseteq there /\ past.told \subseteq past'.told /\ past'.recorded = past.recorded
      /\ past'.alone = past.alone /\ past'.uninstalled = past.uninstalled
      /\ past'.lost = past.lost
      /\ a \notin there' \/ a \in past'.told
      /\ "binary" \in past'.told <=> "binary" \in past.told
      /\ "config" \in there => "config" \in there'
      BY DEF Drops, LifecycleShape, PastStates
<1>3. "binary" \in past'.told => "capabilities" \in past'.told
      BY <1>2 DEF SweepInv
<1>4. \A x \in Removes(a) : Accounted(x)'
      BY <1>2 DEF Removes, Accounted
<1> QED BY <1>1, <1>2, <1>3, <1>4, UninstallFollows, UninstallKeeps DEF Drops

\* A step that leaves what may be left without a word.
LEMMA LeavesKeeps ==
  ASSUME LifecycleShape, RecordInv, SweepInv, NEW a \in Unheeded \ {"configDir"}, Leaves(a)
  PROVE  RecordInv' /\ SweepInv'
<1>1. /\ script.doing = "uninstall" /\ script' = Following(script) /\ AtStep("uninstall", a)
      /\ UNCHANGED <<there, records, agent, tui, past>>
      BY DEF Leaves, AtStep, GoOn
<1>2. /\ \A x \in Removes(a) : Accounted(x)'
      /\ a \notin {"daemon", "configDir", "config"} /\ a \notin Recordable
      BY DEF Removes, Accounted, Unheeded, Recordable
<1>3. "binary" \in past.told => "capabilities" \in past.told
      BY DEF SweepInv
<1> QED BY <1>1, <1>2, <1>3, UninstallFollows, UninstallKeeps

\* The steps of the uninstaller.
LEMMA UninstallSteady ==
  ASSUME LifecycleShape, RecordInv, SweepInv,
         \/ UninstallDisconnects \/ AskForKeys
         \/ UninstallRules \/ UninstallIPv6 \/ StopDaemon \/ UninstallMenu \/ UninstallBindings
         \/ UninstallWaybar \/ UninstallPath \/ UninstallAutostart \/ UninstallLauncher
         \/ UninstallLog \/ UninstallSudoers \/ UninstallShare \/ UninstallClone \/ UninstallBinary
         \/ UninstallConfig \/ UninstallProviders \/ UninstallCache \/ UninstallKeys \/ UninstallEnds
  PROVE  RecordInv' /\ SweepInv'
<1>0. /\ past \in PastStates /\ script \in ScriptStates
      /\ "binary" \in past.told => "capabilities" \in past.told
      BY DEF LifecycleShape, SweepInv
<1>1. CASE AskForKeys
  <2>1. AtStep("uninstall", "ask") /\ script.doing = "uninstall"
        BY <1>1 DEF AskForKeys, AtStep
  <2>2. PICK keep \in BOOLEAN : script' = [Following(script) EXCEPT !.keepKeys = keep]
        BY <1>1 DEF AskForKeys
  <2>3. Following(script).doing = "uninstall" /\ Following(script).step = script.step + 1
        /\ Following(script).knows = script.knows /\ script.step < 21 /\ Following(script) \in ScriptStates
    <3>1. script.step \in 1 .. 21 /\ UninstallSteps[script.step] = "ask"
          BY <2>1, UninstallAt
    <3>2. script.step # 21
          BY <3>1, UninstallOrder
    <3>3. Len(StepsOf("uninstall")) = 21
          BY Lengths DEF StepsOf
    <3>4. Following(script) = [script EXCEPT !.step = script.step + 1]
          BY <2>1, <3>2, <3>3 DEF Following
    <3> QED BY <1>0, <2>1, <3>1, <3>2, <3>4 DEF ScriptStates
  <2>4. /\ script'.doing = "uninstall" /\ script'.step = script.step + 1
        /\ script'.knows = script.knows /\ script.step < 21
        BY <2>2, <2>3 DEF ScriptStates
  <2>5. Removes("ask") = {} /\ "ask" \notin Recordable
        BY DEF Removes, Artifacts, Recordable
  <2>6. UNCHANGED <<there, records, agent, tui, past, trouble>>
        BY <1>1 DEF AskForKeys
  <2> QED BY <1>0, <2>1, <2>4, <2>5, <2>6, UninstallKeeps
<1>2. CASE StopDaemon
  <2> DEFINE alone == past.alone /\ agent = "none"
  <2>1. /\ AtStep("uninstall", "daemon") /\ script.doing = "uninstall" /\ script' = Following(script)
        /\ UNCHANGED <<there, records, tui>>
        /\ agent' = IF agent = "serving" THEN "leaving" ELSE agent
        BY <1>2 DEF StopDaemon, AtStep, GoOn
  <2>2. past' = [past EXCEPT !.alone = alone]
        BY <1>2, Zenon DEF StopDaemon
  <2>3. past'.alone = alone /\ past'.told = past.told /\ past'.recorded = past.recorded
        /\ past'.uninstalled = past.uninstalled /\ past'.lost = past.lost
    <3> HIDE DEF alone
    <3> QED BY <1>0, <2>2 DEF PastStates
  <2>4. past'.alone => past.alone /\ agent' = "none"
        BY <2>1, <2>3
  <2>5. Removes("daemon") = {} /\ "daemon" \notin Recordable
        BY DEF Removes, Artifacts, Recordable
  <2> HIDE DEF alone
  <2> QED BY <1>0, <2>1, <2>3, <2>4, <2>5, UninstallFollows, UninstallKeeps
<1>3. CASE UninstallLauncher /\ ~Leaves("launcher")
  <2>1. /\ AtStep("uninstall", "launcher") /\ script.doing = "uninstall" /\ script' = Following(script)
        /\ there' \subseteq there /\ ("config" \in there => "config" \in there')
        /\ UNCHANGED <<records, agent, tui, past>>
        BY <1>3 DEF UninstallLauncher, AtStep, GoOn
  <2>2. Removes("launcher") = {"launcher"} /\ "launcher" \notin Recordable /\ Accounted("launcher")'
        BY DEF Removes, Artifacts, Recordable, Accounted, Unheeded
  <2> QED BY <1>0, <2>1, <2>2, UninstallFollows, UninstallKeeps
<1>4. ASSUME NEW a \in Recordable, Unrecorded(a) PROVE RecordInv' /\ SweepInv'
  <2>1. /\ AtStep("uninstall", a) /\ script.doing = "uninstall" /\ script' = Following(script)
        /\ a \notin script.knows /\ UNCHANGED <<there, records, agent, tui, past>>
        BY <1>4 DEF Unrecorded, AtStep, GoOn
  <2>2. a \notin past.recorded \ past.lost
        BY <2>1 DEF RecordInv
  <2>3. Removes(a) = {a} /\ Accounted(a)' /\ a \notin {"daemon", "configDir", "config"}
        BY <1>4, <2>1, <2>2 DEF Removes, Artifacts, Recordable, Accounted
  <2> QED BY <1>0, <2>1, <2>2, <2>3, UninstallFollows, UninstallKeeps
<1>5. CASE UninstallBinary
  <2>1. /\ AtStep("uninstall", "binary") /\ script.doing = "uninstall" /\ script' = Following(script)
        /\ there' \subseteq there /\ ("config" \in there => "config" \in there')
        /\ UNCHANGED <<records, agent, tui>>
        BY <1>5 DEF UninstallBinary, AtStep, GoOn
  <2>2. /\ past.told \subseteq past'.told /\ past'.recorded = past.recorded
        /\ past'.alone = past.alone /\ past'.uninstalled = past.uninstalled
        /\ past'.lost = past.lost
        /\ "binary" \in past'.told => "capabilities" \in past'.told
        BY <1>0, <1>5 DEF UninstallBinary, PastStates
  <2>3. \A x \in {"binary", "capabilities"} : x \notin there' \/ x \in past'.told
        BY <1>0, <1>5 DEF UninstallBinary, PastStates
  <2>4. \A x \in Removes("binary") : Accounted(x)'
        BY <2>3 DEF Removes, Accounted
  <2>5. "binary" \notin Recordable
        BY DEF Recordable
  <2> QED BY <2>1, <2>2, <2>4, <2>5, UninstallFollows, UninstallKeeps
<1>6. CASE UninstallConfig
  <2>1. /\ AtStep("uninstall", "config") /\ script.doing = "uninstall" /\ script' = Following(script)
        /\ there' \subseteq there /\ UNCHANGED <<records, agent, tui>>
        BY <1>6 DEF UninstallConfig, AtStep, GoOn
  <2>2. /\ past.told \subseteq past'.told /\ past'.recorded = past.recorded
        /\ past'.alone = past.alone /\ past'.uninstalled = past.uninstalled
        /\ past'.lost = past.lost
        /\ "binary" \in past'.told => "capabilities" \in past'.told
        BY <1>0, <1>6 DEF UninstallConfig, PastStates
  <2>3. \A x \in {"config", "runtime"} : x \notin there' \/ x \in past'.told
        BY <1>0, <1>6 DEF UninstallConfig, PastStates
  <2>4. \A x \in Removes("config") : Accounted(x)'
        BY <2>3 DEF Removes, Accounted
  <2>5. "config" \notin Recordable
        BY DEF Recordable
  <2> QED BY <2>1, <2>2, <2>4, <2>5, UninstallFollows, UninstallKeeps
<1>7. CASE UninstallKeys
  <2>1. CASE Drops("wireguard")
        BY <2>1, DropsKeeps
  <2>2. CASE ~Drops("wireguard")
    <3>1. /\ AtStep("uninstall", "wireguard") /\ script.doing = "uninstall" /\ script' = Following(script)
          /\ UNCHANGED <<there, records, agent, tui>>
          /\ past' = [past EXCEPT !.told = @ \cup {"wireguard", "configDir"}]
          BY <1>7, <2>2 DEF UninstallKeys, AtStep, GoOn
    <3>2. /\ past.told \subseteq past'.told /\ past'.recorded = past.recorded
          /\ past'.alone = past.alone /\ past'.uninstalled = past.uninstalled
          /\ past'.lost = past.lost
          /\ "binary" \in past'.told => "capabilities" \in past'.told
          /\ "wireguard" \in past'.told
          BY <1>0, <3>1 DEF PastStates
    <3>3. \A x \in Removes("wireguard") : Accounted(x)'
          BY <3>2 DEF Removes, Accounted
    <3>4. "wireguard" \notin Recordable
          BY DEF Recordable
    <3> QED BY <3>1, <3>2, <3>3, <3>4, UninstallFollows, UninstallKeeps
  <2> QED BY <2>1, <2>2
<1>8. CASE UninstallEnds
  <2> DEFINE told == IF past.told \cap InConfigDir = {} THEN past.told ELSE past.told \cup {"configDir"}
  <2>1. /\ AtStep("uninstall", "configDir") /\ script.doing = "uninstall" /\ script' = Following(script)
        /\ there' \subseteq there /\ ("config" \in there => "config" \in there')
        /\ UNCHANGED <<records, agent, tui>>
        /\ script.step = 21
    <3>1. AtStep("uninstall", "configDir") /\ script.step = 21
          BY <1>8, UninstallAt, UninstallPlaces DEF UninstallEnds
    <3> QED BY <1>8, <3>1 DEF UninstallEnds, AtStep, GoOn
  <2>2. past' = [past EXCEPT !.uninstalled = TRUE, !.told = told]
        BY <1>8, Zenon DEF UninstallEnds
  <2>3. past.told \subseteq told /\ ("binary" \in told => "capabilities" \in told)
        BY <1>0
  <2> HIDE DEF told
  <2>5. /\ past'.told = told /\ past'.recorded = past.recorded /\ past'.alone = past.alone
        /\ past'.lost = past.lost
        BY <1>0, <2>2 DEF PastStates
  <2>6. \A x \in Removes("configDir") : Accounted(x)'
        BY DEF Removes, Accounted, Unheeded
  <2>7. "configDir" \notin Recordable
        BY DEF Recordable
  <2> QED BY <2>1, <2>3, <2>5, <2>6, <2>7, UninstallFollows, UninstallKeeps
<1>9. ASSUME NEW a, a \notin {"daemon", "binary", "config", "configDir"}, Drops(a)
      PROVE  RecordInv' /\ SweepInv'
      BY <1>9, DropsKeeps
<1>10. "sudoers" \in Recordable /\ "clone" \in Recordable
      BY DEF Recordable
<1>11. ASSUME NEW a \in {"rules", "menu", "bindings", "waybar", "path", "share", "launcher"},
              Leaves(a)
       PROVE  RecordInv' /\ SweepInv'
       BY <1>11, LeavesKeeps DEF Unheeded
<1> QED BY <1>1, <1>2, <1>3, <1>4, <1>5, <1>6, <1>7, <1>8, <1>9, <1>10, <1>11
        DEF UninstallDisconnects, UninstallRules, UninstallIPv6, UninstallMenu, UninstallBindings,
            UninstallWaybar, UninstallPath, UninstallAutostart, UninstallLog, UninstallSudoers,
            UninstallShare, UninstallClone, UninstallProviders, UninstallCache

\* A script starts over what earlier ones left, and may be interrupted anywhere.
LEMMA StartsAndEnds ==
  ASSUME LifecycleShape, RecordInv, SweepInv, InstallStarts \/ UninstallStarts \/ Interrupted
  PROVE  RecordInv' /\ SweepInv'
<1>0. /\ past \in PastStates /\ NoPast \in PastStates /\ StillRecorded \subseteq OnRecord
      /\ NoPast.uninstalled = FALSE /\ NoPast.told = {}
      BY DEF LifecycleShape, PastStates, NoPast, StillRecorded, RecordInv, OnRecord
<1>l. past'.lost = past.lost \ Loaded /\ Loaded' = Loaded => OnRecord' = OnRecord
      BY DEF OnRecord
<1>s. UNCHANGED <<there, records>> => Loaded' = Loaded
      BY DEF Loaded
<1>1. CASE InstallStarts
  <2>1. script'.doing = "install" /\ script'.step = 1
        BY <1>1, NoScriptFields DEF InstallStarts, ScriptStates
  <2> DEFINE lost == past.lost \ Loaded
  <2>a. past' = [NoPast EXCEPT !.recorded = StillRecorded, !.lost = lost]
        BY <1>1, Zenon DEF InstallStarts
  <2>b. lost = past.lost \ Loaded
        OBVIOUS
  <2> HIDE DEF lost
  <2>2. past'.recorded = StillRecorded /\ past'.uninstalled = FALSE /\ past'.told = {}
        /\ past'.lost = lost
        BY <1>0, <2>a DEF PastStates
  <2>3. OnRecord' = OnRecord
        BY <1>1, <1>l, <1>s, <2>b, <2>2 DEF InstallStarts
  <2>4. ~Removing'
        BY <2>1, <2>2 DEF Removing
  <2> QED BY <1>0, <2>1, <2>2, <2>3, <2>4 DEF RecordInv, SweepInv
<1>2. CASE UninstallStarts
  <2> DEFINE known == Loaded
             open == tui.open
             lost == past.lost \ Loaded
  <2>1. script' = [NoScript EXCEPT !.doing = "uninstall", !.knows = known]
        BY <1>2, Zenon DEF UninstallStarts
  <2>2. past' = [NoPast EXCEPT !.alone = ~open, !.recorded = StillRecorded, !.lost = lost]
        BY <1>2, Zenon DEF UninstallStarts
  <2>3. UNCHANGED <<there, records, agent, tui>> /\ open = tui.open
        BY <1>2 DEF UninstallStarts
  <2>a. known = Loaded /\ lost = past.lost \ Loaded
        OBVIOUS
  <2>4. (~open) \in BOOLEAN
        OBVIOUS
  <2> HIDE DEF known, open, lost
  <2>5. script'.doing = "uninstall" /\ script'.step = 1 /\ script'.knows = known
        BY <2>1, NoScriptFields DEF ScriptStates
  <2>6. /\ past'.recorded = StillRecorded /\ past'.uninstalled = FALSE /\ past'.told = {}
        /\ past'.alone = ~open /\ past'.lost = lost
        BY <1>0, <2>2, <2>4 DEF PastStates
  <2>7. OnRecord' = OnRecord /\ OnRecord \subseteq known \cup lost
        BY <1>l, <1>s, <2>3, <2>6, <2>a DEF OnRecord
  <2>8. \A x : ~Over(x)'
        BY <2>5 DEF Over
  <2>9. RecordInv'
        BY <1>0, <2>3, <2>5, <2>6, <2>7, <2>8 DEF RecordInv
  <2>10. SweepInv'
        BY <2>3, <2>5, <2>6, <2>8 DEF SweepInv
  <2> QED BY <2>9, <2>10
<1>3. CASE Interrupted
  <2>1. script'.doing = "nothing" /\ UNCHANGED <<there, records, agent, tui, past>>
        BY <1>3, NoScriptFields DEF Interrupted
  <2>2. past.uninstalled = FALSE
        BY <1>0, <1>3 DEF Interrupted, SweepInv, PastStates
  <2>3. OnRecord' = OnRecord /\ ~Removing'
        BY <1>s, <2>1, <2>2 DEF OnRecord, Removing
  <2> QED BY <2>1, <2>2, <2>3 DEF RecordInv, SweepInv
<1> QED BY <1>1, <1>2, <1>3

\* What is no record, no config.json and no configuration directory may come
\* beside a script, unless an uninstall that is alone has accounted for it.
LEMMA BesideKeeps ==
  ASSUME LifecycleShape, RecordInv, SweepInv, script' = script,
         past'.told = past.told, past'.uninstalled = past.uninstalled,
         past'.recorded = past.recorded, past.lost \subseteq past'.lost,
         past'.alone => past.alone,
         "configDir" \in there => "configDir" \in there',
         there' \cap Recordable \subseteq there, past'.recorded \cap OnRecord \subseteq OnRecord',
         past'.alone /\ Removing =>
           /\ ~tui'.open
           /\ agent = "none" => agent' = "none"
           /\ \A a \in there' \ there : ~Accounted(a) \/ Accounted(a)'
  PROVE  RecordInv' /\ SweepInv'
<1>1. \A x : Over(x)' <=> Over(x)
      BY DEF Over
<1>2. RecordInv'
  <2>1. past'.recorded \subseteq Recordable
        BY DEF LifecycleShape, PastStates
  <2> QED BY <1>1, <2>1 DEF RecordInv
<1>3. Removing' <=> Removing
      BY DEF Removing
<1>4. ASSUME past'.alone, Removing, NEW a \in Artifacts, Accounted(a) PROVE Accounted(a)'
      BY <1>4 DEF Accounted
<1>5. past'.alone /\ past'.uninstalled => agent' = "none" /\ \A a \in Artifacts : Accounted(a)'
      BY <1>4 DEF SweepInv, Removing
<1>6. ASSUME past'.alone, script'.doing = "uninstall"
      PROVE  /\ Over("daemon")' => agent' = "none"
             /\ \A item \in Artifacts : Over(item)' => \A a \in Removes(item) : Accounted(a)'
  <2>1. past.alone /\ Removing /\ script.doing = "uninstall"
        BY <1>6 DEF Removing
  <2>2. ASSUME NEW item \in Artifacts, Over(item)', NEW a \in Removes(item) PROVE Accounted(a)'
    <3>1. a \in Artifacts /\ Accounted(a)
          BY <1>1, <2>1, <2>2 DEF SweepInv, Removes, Artifacts
    <3> QED BY <1>4, <1>6, <2>1, <3>1
  <2> QED BY <1>1, <1>6, <2>1, <2>2 DEF SweepInv
<1>7. SweepInv'
      BY <1>3, <1>5, <1>6 DEF SweepInv
<1> QED BY <1>2, <1>7

\* The updater, the daemon and the TUI beside the scripts.
LEMMA MeanwhileSteady ==
  ASSUME LifecycleShape, RecordInv, SweepInv,
         \/ Update \/ TerminateDaemon \/ KillDaemon
         \/ DaemonStarts \/ DaemonPatches \/ DaemonReloads \/ DaemonRebuilds \/ DaemonLeaves
         \/ ConfigBreaks \/ OpenTUI \/ TUIReloads \/ CloseTUI \/ TUISaves \/ TUIAdds
  PROVE  RecordInv' /\ SweepInv'
<1>0. past \in PastStates
      BY DEF LifecycleShape
<1>s. /\ records' = records /\ ("config" \in there' <=> "config" \in there) => Loaded' = Loaded
      /\ Loaded' = Loaded /\ past'.lost = past.lost => OnRecord' = OnRecord
      BY DEF Loaded, OnRecord
<1>l. Loaded \in SUBSET Recordable /\ Loaded # Broken
      BY LoadedTypes, BrokenIsNone
<1>1. CASE Update
  <2>1. /\ script.doing = "nothing" /\ "binary" \in there
        /\ there' \subseteq there \cup {"capabilities"} /\ there \ {"capabilities"} \subseteq there'
        /\ UNCHANGED <<records, agent, tui, script, past>>
        BY <1>1 DEF Update
  <2>2. past.alone /\ Removing => "capabilities" \in past.told /\ ~tui.open
    <3>1. past.alone /\ Removing => Accounted("binary")
          BY <2>1 DEF SweepInv, Removing, Artifacts
    <3> QED BY <2>1, <3>1 DEF SweepInv, Accounted, Recordable, Unheeded
  <2>3. OnRecord' = OnRecord /\ there' \cap Recordable \subseteq there
        BY <1>s, <2>1 DEF Recordable
  <2>4. "capabilities" \in past.told => \A a \in there' \ there : Accounted(a)'
        BY <2>1 DEF Accounted
  <2> QED BY <2>1, <2>2, <2>3, <2>4, BesideKeeps
<1>2. CASE TerminateDaemon \/ KillDaemon
  <2>1. /\ UNCHANGED <<there, records, tui, script, past>> /\ agent # "none"
        BY <1>2 DEF TerminateDaemon, KillDaemon
  <2>2. OnRecord' = OnRecord
        BY <1>s, <2>1
  <2>3. past.alone /\ Removing => ~tui.open
        BY DEF SweepInv
  <2> QED BY <2>1, <2>2, <2>3, BesideKeeps
<1>3. ASSUME past' = [past EXCEPT !.alone = @ /\ ~Removing]
      PROVE  /\ past'.told = past.told /\ past'.uninstalled = past.uninstalled
             /\ past'.recorded = past.recorded /\ (past'.alone <=> past.alone /\ ~Removing)
             /\ past'.lost = past.lost
  <2> DEFINE alone == past.alone /\ ~Removing
  <2>1. past' = [past EXCEPT !.alone = alone] /\ (alone <=> past.alone /\ ~Removing)
        BY <1>3, Zenon
  <2> HIDE DEF alone
  <2> QED BY <1>0, <2>1 DEF PastStates
<1>4. CASE DaemonStarts
  <2>1. /\ UNCHANGED <<tui, script>> /\ "configDir" \in there'
        /\ there' \cap Recordable \subseteq there
        BY <1>4 DEF DaemonStarts, Recordable
  <2>2. Loaded' = Loaded
        BY <1>4, <1>l DEF DaemonStarts, Loaded
  <2>3. /\ past'.told = past.told /\ past'.uninstalled = past.uninstalled
        /\ past'.recorded = past.recorded /\ (past'.alone <=> past.alone /\ ~Removing)
        /\ past'.lost = past.lost
        BY <1>3, <1>4, Zenon DEF DaemonStarts
  <2> QED BY <1>s, <2>1, <2>2, <2>3, BesideKeeps
<1>5. CASE DaemonRebuilds
  <2>1. /\ UNCHANGED <<records, agent, tui, script>> /\ there' = there \cup {"rules"}
        BY <1>5 DEF DaemonRebuilds
  <2>2. /\ past'.told = past.told /\ past'.uninstalled = past.uninstalled
        /\ past'.recorded = past.recorded /\ past'.alone = FALSE /\ past'.lost = past.lost
        BY <1>0, <1>5 DEF DaemonRebuilds, PastStates
  <2>3. OnRecord' = OnRecord /\ there' \cap Recordable \subseteq there
        BY <1>s, <2>1, <2>2 DEF Recordable
  <2> QED BY <2>1, <2>2, <2>3, BesideKeeps
<1>6. CASE DaemonLeaves \/ DaemonPatches
  <2>0. PICK without \in {{}, {"tunnel", "runtime"}} : FilePatched(without)
        BY <1>6 DEF DaemonLeaves, DaemonPatches
  <2>1. /\ UNCHANGED <<tui, script, past>> /\ agent # "none" /\ agent' \in {agent, "none"}
        /\ there' \subseteq there \cup {"config"} /\ there \ {"tunnel", "runtime"} \subseteq there'
        BY <1>6, <2>0 DEF DaemonLeaves, DaemonPatches, FilePatched
  <2>2. there' \cap Recordable \subseteq there
        BY <2>1 DEF Recordable
  <2>3. past.alone /\ Removing => script.doing = "uninstall" /\ ~Over("daemon") /\ ~tui.open
        BY <2>1 DEF SweepInv, Removing
  <2>4. OnRecord \subseteq OnRecord'
    <3>1. Loaded \subseteq Loaded'
      <4>1. SUFFICES ASSUME "config" \in there, records # Broken PROVE Loaded \subseteq Loaded'
            BY DEF Loaded
      <4>2. "config" \in there' /\ records' = Loaded
            BY <2>0, <2>1, <4>1 DEF FilePatched, Unreadable
      <4> QED BY <1>l, <4>2 DEF Loaded
    <3> QED BY <2>1, <3>1 DEF OnRecord
  <2>5. ASSUME past.alone, script.doing = "uninstall", ~Over("daemon")
        PROVE  \A x \in Artifacts : Over(x) => "config" \notin Removes(x)
    <3>1. script.step \in 1 .. 21
          BY DEF LifecycleShape, ScriptStates
    <3>2. script.step <= 5
      <4>1. SUFFICES ASSUME 5 < script.step PROVE FALSE
            BY <3>1
      <4>2. Over(UninstallSteps[5])
            BY <3>1, <4>1, OverAt
      <4> QED BY <2>5, <4>2, UninstallOrder
    <3>3. ~Over("config")
          BY <3>1, <3>2, UninstallPlaces DEF Over
    <3> QED BY <3>3 DEF Removes
  <2>6. \A x : Over(x)' <=> Over(x)
        BY <2>1 DEF Over
  <2>7. RecordInv'
    <3>1. there' \cap past'.recorded \subseteq there \cap past.recorded
          BY <2>1, <2>2 DEF LifecycleShape, PastStates
    <3>2. "configDir" \in there => "configDir" \in there'
          BY <2>1
    <3>3. script' = script /\ past' = past
          BY <2>1
    <3> QED BY <2>4, <2>6, <3>1, <3>2, <3>3 DEF RecordInv
  <2>8. SweepInv'
    <3>1. ASSUME NEW a \in Artifacts, a # "config", Accounted(a) PROVE Accounted(a)'
          BY <2>1, <3>1 DEF Accounted
    <3>2. ASSUME past.alone, script.doing = "uninstall", NEW item \in Artifacts, Over(item),
                 NEW a \in Removes(item)
          PROVE  Accounted(a)'
      <4>1. a \in Artifacts /\ a # "config" /\ Accounted(a)
            BY <2>3, <2>5, <3>2 DEF SweepInv, Removing, Removes, Artifacts
      <4> QED BY <3>1, <4>1
    <3>3. ~(past.alone /\ past.uninstalled)
          BY <2>1 DEF SweepInv
    <3>4. Removing' <=> Removing
          BY <2>1 DEF Removing
    <3> QED BY <2>1, <2>6, <3>2, <3>3, <3>4 DEF SweepInv
  <2> QED BY <2>7, <2>8
<1>7. CASE OpenTUI
  <2>1. UNCHANGED <<there, records, agent, script>>
        BY <1>7 DEF OpenTUI
  <2>2. Loaded' = Loaded
        BY <1>s, <2>1
  <2>3. /\ past'.told = past.told /\ past'.uninstalled = past.uninstalled
        /\ past'.recorded = past.recorded /\ (past'.alone <=> past.alone /\ ~Removing)
        /\ past'.lost = past.lost
        BY <1>3, <1>7, Zenon DEF OpenTUI
  <2> QED BY <1>s, <2>1, <2>2, <2>3, BesideKeeps
<1>8. CASE CloseTUI
  <2>1. UNCHANGED <<there, records, agent, script, past>> /\ ~tui'.open
        BY <1>8 DEF CloseTUI
  <2>2. OnRecord' = OnRecord
        BY <1>s, <2>1
  <2> QED BY <2>1, <2>2, BesideKeeps
<1>9. tui.open => ~(past.alone /\ Removing)
      BY DEF SweepInv
<1>10. CASE TUISaves
  <2>1. /\ UNCHANGED <<agent, tui, script>> /\ there \subseteq there'
        /\ there' \subseteq there \cup {"config"} /\ tui.open
        BY <1>10 DEF TUISaves, SaveWith
  <2>2. /\ past'.told = past.told /\ past'.uninstalled = past.uninstalled
        /\ past'.alone = past.alone /\ past'.recorded = past.recorded
        /\ past'.lost = past.lost \cup (past.recorded \ tui.knows)
        BY <1>0, <1>10 DEF TUISaves, PastStates
  <2>3. past.recorded \cap OnRecord \subseteq OnRecord' /\ there' \cap Recordable \subseteq there
    <3>1. CASE UNCHANGED <<there, records>>
          BY <1>s, <2>2, <3>1 DEF OnRecord
    <3>2. CASE there' = there \cup {"config"} /\ records' = tui.knows
      <4>1. tui.knows \in SUBSET Recordable
            BY DEF LifecycleShape
      <4>2. Loaded' = tui.knows
            BY <3>2, <4>1, BrokenIsNone DEF Loaded
      <4> QED BY <2>2, <3>2, <4>2 DEF OnRecord, Recordable
    <3> QED BY <1>10, <3>1, <3>2 DEF TUISaves, SaveWith
  <2> QED BY <1>9, <2>1, <2>2, <2>3, BesideKeeps
<1>12. CASE DaemonReloads \/ TUIReloads
  <2>1. /\ UNCHANGED <<there, records, agent, script, past>> /\ (tui' = tui \/ tui.open)
        BY <1>12 DEF DaemonReloads, TUIReloads
  <2>2. OnRecord' = OnRecord
        BY <1>s, <2>1
  <2>3. past.alone /\ Removing => ~tui'.open
        BY <1>9, <2>1
  <2> QED BY <2>1, <2>2, <2>3, BesideKeeps
<1>13. CASE ConfigBreaks
  <2>1. /\ UNCHANGED <<there, agent, tui, script>>
        /\ past'.told = past.told /\ past'.uninstalled = past.uninstalled
        /\ past'.alone = past.alone /\ past'.recorded = past.recorded
        /\ past'.lost = past.lost \cup past.recorded
        BY <1>0, <1>13 DEF ConfigBreaks, PastStates
  <2>2. past.recorded \subseteq OnRecord'
        BY <2>1 DEF OnRecord
  <2> QED BY <1>9, <2>1, <2>2, BesideKeeps
<1>11. CASE TUIAdds
  <2>1. /\ UNCHANGED <<records, agent, tui, script, past>> /\ tui.open
        /\ there' = there \cup {"providers", "cache", "wireguard", "autostart"}
        BY <1>11 DEF TUIAdds
  <2>2. OnRecord' = OnRecord /\ there' \cap Recordable \subseteq there
        BY <1>s, <2>1 DEF Recordable
  <2> QED BY <1>9, <2>1, <2>2, BesideKeeps
<1> QED BY <1>1, <1>2, <1>4, <1>5, <1>6, <1>7, <1>8, <1>10, <1>11, <1>12, <1>13

\* Every step keeps both.
LEMMA LifecycleSteady ==
  LifecycleShape /\ RecordInv /\ SweepInv /\ [LifecycleNext]_lifecycleVars => RecordInv' /\ SweepInv'
<1>1. ASSUME LifecycleShape, RecordInv, SweepInv, UNCHANGED lifecycleVars
      PROVE  RecordInv' /\ SweepInv'
  <2>1. OnRecord' = OnRecord
        BY <1>1 DEF OnRecord, Loaded, lifecycleVars
  <2>2. past.alone /\ Removing => ~tui.open
        BY <1>1 DEF SweepInv
  <2> QED BY <1>1, <2>1, <2>2, BesideKeeps DEF lifecycleVars
<1> QED BY <1>1, StartsAndEnds, InstallSteady, UninstallSteady, MeanwhileSteady, Zenon DEF LifecycleNext

\* Both hold before anything is installed, where nothing is on record.
LEMMA LifecycleStart == LifecycleInit => RecordInv /\ SweepInv
<1> SUFFICES ASSUME LifecycleInit PROVE RecordInv /\ SweepInv
    OBVIOUS
<1>1. /\ script.doing = "nothing" /\ ~past.uninstalled /\ past.told = {} /\ past.recorded = {}
      BY NoScriptFields DEF LifecycleInit, NoPast
<1> QED BY <1>1 DEF RecordInv, SweepInv, Removing

\* What config.json tells of the installation, and what an uninstall that is
\* alone leaves, in every behaviour.
LEMMA LifecycleInvariant ==
  LifecycleInit /\ [][LifecycleNext]_lifecycleVars => [](LifecycleShape /\ RecordInv /\ SweepInv)
BY LifecycleShapeInit, LifecycleShapeNext, LifecycleStart, LifecycleSteady, PTL

\* Once an uninstall that was alone is over there is no config.json, unless the
\* user was told it could not be removed: the daemon, which writes it, has been
\* waited for, and nothing starts another.
THEOREM ConfigRemainsGone ==
  LifecycleInit /\ [][LifecycleNext]_lifecycleVars => []ConfigStaysGone
<1>1. LifecycleShape /\ SweepInv => ConfigStaysGone
      BY DEF SweepInv, ConfigStaysGone, Accounted, Artifacts, Recordable, Unheeded
<1> QED BY <1>1, LifecycleInvariant, PTL

\* What is left after such an uninstall is what the user was told of, what the
\* uninstaller may leave without a word (Unheeded), and what config.json never
\* recorded, or recorded and lost.
THEOREM LeavesAreTold ==
  LifecycleInit /\ [][LifecycleNext]_lifecycleVars => []NothingLeftUntold
<1>1. LifecycleShape /\ SweepInv => NothingLeftUntold
      BY DEF LifecycleShape, SweepInv, NothingLeftUntold, Accounted
<1> QED BY <1>1, LifecycleInvariant, PTL

\* Wherever the scripts are interrupted, the sudoers file that config.json told
\* of is on record as long as it is there, unless a TUI saved an older copy over
\* the record or the file broke.
THEOREM SudoersStaysOnRecord ==
  LifecycleInit /\ [][LifecycleNext]_lifecycleVars => []RecordOutlivesSudoers
<1>1. RecordInv => RecordOutlivesSudoers
      BY DEF RecordInv, RecordOutlivesSudoers, OnRecord
<1> QED BY <1>1, LifecycleInvariant, PTL

-----------------------------------------------------------------------------
(* Deleting files: module Deletion.  A try that succeeded, or found nothing, *)
(* tells what is there of its file, and all tries together leave no file out. *)

DeletionTries == [path : Paths, tool : {"shred", "rm"}, outcome : {"deleted", "notPresent", "failed"}]

DeletionShape ==
  /\ disk \in [Paths -> DiskStates]
  /\ primary \in {"shred", "rm"} /\ journals \in BOOLEAN /\ journald \in {"running", "stopped"}
  /\ step \in {"start", "attempt", "menu", "summary", "refused"}
  /\ attempt \in [tool : {"shred", "rm"}, left : SUBSET Paths, first : BOOLEAN]
  /\ events \in Seq(DeletionTries)
  /\ offered \subseteq {"retry", "rmFallback", "skip"} /\ skipped \subseteq Paths

\* Of a file that has been tried one try is the latest.
HasLatest(p) == \E i \in EventsOf(p) : \A j \in EventsOf(p) : j <= i

TriesInv ==
  /\ step \in {"start", "refused"} => events = <<>> /\ skipped = {}
  /\ \A i \in DOMAIN events :
       /\ events[i].outcome = "deleted" => disk[events[i].path] = Destroyed(events[i].tool)
       /\ events[i].outcome = "notPresent" => Gone(events[i].path)
  /\ \A p \in Paths : EventsOf(p) # {} => HasLatest(p)
  /\ step = "attempt" => \A p \in Paths \ attempt.left : EventsOf(p) # {}
  /\ step \in {"menu", "summary"} => \A p \in Paths : EventsOf(p) # {}
  /\ step = "summary" => UnresolvedFailures = {}

\* A file has got one more try.
LEMMA OneMoreTry ==
  ASSUME events \in Seq(DeletionTries), NEW try \in DeletionTries, events' = Append(events, try),
         NEW p
  PROVE  EventsOf(p)' = IF try.path = p THEN EventsOf(p) \cup {Len(events) + 1} ELSE EventsOf(p)
<1>1. /\ Len(events) \in Nat /\ DOMAIN events = 1 .. Len(events)
      /\ DOMAIN events' = 1 .. Len(events) + 1
      /\ \A i \in 1 .. Len(events) : events'[i] = events[i]
      /\ events'[Len(events) + 1] = try
      OBVIOUS
<1> QED BY <1>1 DEF EventsOf

\* Every step keeps to the types.
LEMMA DeletionShapeNext == DeletionShape /\ [DeletionNext]_deletionVars => DeletionShape'
<1> SUFFICES ASSUME DeletionShape, [DeletionNext]_deletionVars PROVE DeletionShape'
    OBVIOUS
<1> USE DEF DeletionShape, DiskStates
<1>1. ASSUME NEW tool \in {"shred", "rm"}, NEW isJournals \in BOOLEAN, NEW found \in SUBSET Paths,
             StartDeletion(tool, isJournals, found)
      PROVE  DeletionShape'
      BY <1>1 DEF StartDeletion
<1>2. ASSUME NEW p \in Paths, NEW outcome \in {"deleted", "notPresent", "failed"},
             Attempts(p, outcome)
      PROVE  DeletionShape'
  <2>1. [path |-> p, tool |-> attempt.tool, outcome |-> outcome] \in DeletionTries
        BY DEF DeletionTries
  <2>2. events' \in Seq(DeletionTries)
        BY <1>2, <2>1 DEF Attempts
  <2>3. disk' \in [Paths -> DiskStates]
        BY <1>2 DEF Attempts, Destroyed
  <2> QED BY <1>2, <2>2, <2>3 DEF Attempts
<1>3. CASE RoundEnds
      BY <1>3 DEF RoundEnds
<1>4. CASE NothingPending \/ SkipRest
      BY <1>4 DEF NothingPending, SkipRest, UnresolvedFailures
<1>5. ASSUME NEW tool \in {"shred", "rm"}, NEW option, Retries(tool, option) PROVE DeletionShape'
      BY <1>5 DEF Retries, UnresolvedFailures
<1>6. CASE Retry \/ FallBackToRm
      BY <1>5, <1>6 DEF Retry, FallBackToRm
<1>7. CASE NextStep
      BY <1>7 DEF NextStep
<1>8. CASE UNCHANGED deletionVars
      BY <1>8 DEF deletionVars
<1> QED BY <1>1, <1>2, <1>3, <1>4, <1>6, <1>7, <1>8 DEF DeletionNext

\* A round of tries, one try after the other.
LEMMA AttemptKeepsTries ==
  ASSUME DeletionShape, TriesInv, NEW p \in Paths,
         NEW outcome \in {"deleted", "notPresent", "failed"}, Attempts(p, outcome)
  PROVE  TriesInv'
<1> DEFINE try == [path |-> p, tool |-> attempt.tool, outcome |-> outcome]
<1>1. /\ try \in DeletionTries /\ try.path = p /\ try.tool = attempt.tool /\ try.outcome = outcome
      /\ events \in Seq(DeletionTries)
      BY DEF DeletionTries, DeletionShape
<1>2. events' = Append(events, try)
      BY DEF Attempts
<1> HIDE DEF try
<1>3. /\ Len(events) \in Nat /\ DOMAIN events = 1 .. Len(events)
      /\ DOMAIN events' = 1 .. Len(events) + 1
      /\ \A i \in 1 .. Len(events) : events'[i] = events[i] /\ events[i].path \in Paths
      /\ events'[Len(events) + 1] = try
  <2>1. /\ Len(events) \in Nat /\ DOMAIN events = 1 .. Len(events)
        /\ DOMAIN events' = 1 .. Len(events) + 1
        /\ \A i \in 1 .. Len(events) : events'[i] = events[i] /\ events[i] \in DeletionTries
        /\ events'[Len(events) + 1] = try
        BY <1>1, <1>2
  <2> QED BY <2>1 DEF DeletionTries
<1>4. \A q : EventsOf(q)' = IF p = q THEN EventsOf(q) \cup {Len(events) + 1} ELSE EventsOf(q)
      BY <1>1, <1>2, OneMoreTry
<1>5. \A q \in Paths : EventsOf(q) \subseteq 1 .. Len(events)
      BY <1>3 DEF EventsOf
<1>6. /\ step' = "attempt" /\ step = "attempt" /\ attempt'.left = attempt.left \ {p}
      /\ skipped' = skipped
      BY DEF Attempts, DeletionShape
<1>7. \A q \in Paths : Gone(q) => disk'[q] = disk[q] /\ Gone(q)'
      BY DEF Attempts, Gone, DeletionShape
<1>8. /\ outcome = "deleted" => disk'[p] = Destroyed(attempt.tool)
      /\ outcome = "notPresent" => Gone(p)'
      BY DEF Attempts, Gone, DeletionShape
<1>9. \A i \in DOMAIN events' :
        /\ events'[i].outcome = "deleted" => disk'[events'[i].path] = Destroyed(events'[i].tool)
        /\ events'[i].outcome = "notPresent" => disk'[events'[i].path] # "present"
  <2>1. ASSUME NEW i \in 1 .. Len(events)
        PROVE  /\ events[i].outcome = "deleted" => disk'[events[i].path] = Destroyed(events[i].tool)
               /\ events[i].outcome = "notPresent" => disk'[events[i].path] # "present"
    <3>1. /\ events[i].outcome = "deleted" => disk[events[i].path] = Destroyed(events[i].tool)
          /\ events[i].outcome = "notPresent" => Gone(events[i].path)
          BY <1>3 DEF TriesInv
    <3>2. events[i].outcome = "deleted" => Gone(events[i].path)
          BY <3>1 DEF Gone, Destroyed
    <3> QED BY <1>3, <1>7, <3>1, <3>2 DEF Gone
  <2>2. ASSUME NEW i \in 1 .. Len(events) + 1
        PROVE  /\ events'[i].outcome = "deleted" => disk'[events'[i].path] = Destroyed(events'[i].tool)
               /\ events'[i].outcome = "notPresent" => disk'[events'[i].path] # "present"
    <3>1. CASE i \in 1 .. Len(events)
          BY <1>3, <2>1, <3>1
    <3>2. CASE i = Len(events) + 1
      <4>1. /\ events'[i].outcome = outcome /\ events'[i].path = p /\ events'[i].tool = attempt.tool
            BY <1>1, <1>3, <3>2
      <4> QED BY <1>8, <4>1 DEF Gone
    <3> QED BY <1>3, <3>1, <3>2
  <2> QED BY <1>3, <2>2, Zenon
<1>10. ASSUME NEW q \in Paths, EventsOf(q)' # {} PROVE HasLatest(q)'
  <2>1. CASE p = q
    <3>1. EventsOf(q)' = EventsOf(q) \cup {Len(events) + 1} /\ EventsOf(q) \subseteq 1 .. Len(events)
          BY <1>4, <1>5, <2>1
    <3>2. Len(events) + 1 \in EventsOf(q)' /\ \A j \in EventsOf(q)' : j <= Len(events) + 1
          BY <1>3, <3>1
    <3> QED BY <3>2 DEF HasLatest
  <2>2. CASE p # q
    <3>1. EventsOf(q)' = EventsOf(q) /\ HasLatest(q)
          BY <1>4, <1>10, <2>2 DEF TriesInv
    <3> QED BY <3>1 DEF HasLatest
  <2> QED BY <2>1, <2>2
<1>11. \A q \in Paths \ attempt'.left : EventsOf(q)' # {}
      BY <1>4, <1>6 DEF TriesInv
<1>12. \A q \in Paths : EventsOf(q)' # {} => HasLatest(q)'
      BY <1>10
<1>13. step' \notin {"start", "refused", "menu", "summary"} /\ step' # "summary"
      BY <1>6
<1> QED BY <1>6, <1>9, <1>11, <1>12, <1>13, Zenon DEF TriesInv, Gone

\* The steps that try no file.
LEMMA TriesStay ==
  ASSUME DeletionShape, TriesInv,
         UNCHANGED <<disk, events>>,
         step' \in {"start", "refused"} => step' = step /\ skipped' = skipped,
         step' = "attempt" => \A p \in Paths \ attempt'.left : EventsOf(p) # {},
         step' \in {"menu", "summary"} => \A p \in Paths : EventsOf(p) # {},
         step' = "summary" => UnresolvedFailures' = {}
  PROVE  TriesInv'
<1>1. \A p : EventsOf(p)' = EventsOf(p)
      BY DEF EventsOf
<1>2. \A p : HasLatest(p)' <=> HasLatest(p)
      BY <1>1 DEF HasLatest
<1>3. \A p : Gone(p)' <=> Gone(p)
      BY DEF Gone
<1> QED BY <1>1, <1>2, <1>3 DEF TriesInv

\* Every step keeps what the tries tell.
LEMMA TriesInvNext == DeletionShape /\ TriesInv /\ [DeletionNext]_deletionVars => TriesInv'
<1> SUFFICES ASSUME DeletionShape, TriesInv, [DeletionNext]_deletionVars PROVE TriesInv'
    OBVIOUS
<1>1. ASSUME NEW tool \in {"shred", "rm"}, NEW isJournals \in BOOLEAN, NEW found \in SUBSET Paths,
             StartDeletion(tool, isJournals, found)
      PROVE  TriesInv'
  <2>1. events' = <<>> /\ skipped' = {} /\ step' \in {"attempt", "refused"} /\ attempt'.left = Paths
        BY <1>1 DEF StartDeletion, TriesInv
  <2>2. \A p : EventsOf(p)' = {}
        BY <2>1 DEF EventsOf
  <2> QED BY <2>1, <2>2 DEF TriesInv
<1>2. ASSUME NEW p \in Paths, NEW outcome \in {"deleted", "notPresent", "failed"},
             Attempts(p, outcome)
      PROVE  TriesInv'
      BY <1>2, AttemptKeepsTries
<1>3. CASE RoundEnds
      BY <1>3, TriesStay DEF RoundEnds, TriesInv
<1>4. CASE NothingPending
  <2>1. UnresolvedFailures' = UnresolvedFailures
        BY <1>4 DEF NothingPending, UnresolvedFailures, LatestOutcome, EventsOf
  <2> QED BY <1>4, <2>1, TriesStay DEF NothingPending, TriesInv
<1>5. CASE SkipRest
  <2>1. UnresolvedFailures' = {}
    <3>1. \A p : EventsOf(p)' = EventsOf(p) /\ LatestOutcome(p)' = LatestOutcome(p)
          BY <1>5 DEF SkipRest, EventsOf, LatestOutcome
    <3> QED BY <1>5, <3>1 DEF SkipRest, UnresolvedFailures
  <2> QED BY <1>5, <2>1, TriesStay DEF SkipRest, TriesInv
<1>6. ASSUME NEW tool, NEW option, Retries(tool, option) PROVE TriesInv'
      BY <1>6, TriesStay DEF Retries, TriesInv
<1>7. CASE NextStep
  <2>1. events' = <<>> /\ skipped' = {} /\ step' = "start"
        BY <1>7 DEF NextStep
  <2>2. \A p : EventsOf(p)' = {}
        BY <2>1 DEF EventsOf
  <2> QED BY <2>1, <2>2 DEF TriesInv
<1>8. CASE UNCHANGED deletionVars
  <2>1. UnresolvedFailures' = UnresolvedFailures
        BY <1>8 DEF UnresolvedFailures, LatestOutcome, EventsOf, deletionVars
  <2> QED BY <1>8, <2>1, TriesStay DEF TriesInv, deletionVars
<1> QED BY <1>1, <1>2, <1>3, <1>4, <1>5, <1>6, <1>7, <1>8 DEF DeletionNext, Retry, FallBackToRm

\* Both hold before the first step of the uninstaller.
LEMMA DeletionStart == DeletionInit => DeletionShape /\ TriesInv
<1> SUFFICES ASSUME DeletionInit PROVE DeletionShape /\ TriesInv
    OBVIOUS
<1>1. DeletionShape
  <2>1. events \in Seq(DeletionTries)
        BY DEF DeletionInit
  <2>2. journals \in BOOLEAN /\ attempt \in [tool : {"shred", "rm"}, left : SUBSET Paths, first : BOOLEAN]
    <3>1. attempt = [tool |-> "shred", left |-> {}, first |-> TRUE] /\ journals = FALSE
          BY Zenon DEF DeletionInit
    <3> QED BY <3>1
  <2> QED BY <2>1, <2>2 DEF DeletionInit, DeletionShape, DiskStates
<1>2. \A p : EventsOf(p) = {}
      BY DEF DeletionInit, EventsOf
<1> QED BY <1>1, <1>2 DEF DeletionInit, TriesInv

\* The deletion of files is always what the module says it can be.
THEOREM DeletionTypeCorrect == DeletionInit /\ [][DeletionNext]_deletionVars => []DeletionTypeOK
<1>1. DeletionShape => DeletionTypeOK
      BY DEF DeletionShape, DeletionTypeOK
<1>2. DeletionInit => DeletionShape
      BY DeletionStart
<1> QED BY <1>1, <1>2, DeletionShapeNext, PTL

\* A file that is still there when nothing is pending was skipped.
LEMMA StillThereIsSkipped ==
  ASSUME DeletionShape, TriesInv, step = "summary", NEW p \in Paths, ~Gone(p)
  PROVE  p \in skipped
<1> DEFINE latest == CHOOSE i \in EventsOf(p) : \A j \in EventsOf(p) : j <= i
<1>1. EventsOf(p) # {} /\ \E i \in EventsOf(p) : \A j \in EventsOf(p) : j <= i
      BY DEF TriesInv, HasLatest
<1>2. latest \in EventsOf(p)
      BY <1>1
<1>3. LatestOutcome(p) = events[latest].outcome
      BY DEF LatestOutcome
<1> HIDE DEF latest
<1>4. latest \in DOMAIN events /\ events[latest].path = p /\ events[latest] \in DeletionTries
      BY <1>2 DEF EventsOf, DeletionShape
<1>5. events[latest].outcome = "failed"
  <2>1. events[latest].outcome \in {"deleted", "notPresent", "failed"}
        BY <1>4 DEF DeletionTries
  <2>2. events[latest].outcome = "deleted" => Gone(p)
        BY <1>4 DEF TriesInv, Gone, Destroyed
  <2>3. events[latest].outcome = "notPresent" => Gone(p)
        BY <1>4 DEF TriesInv
  <2> QED BY <2>1, <2>2, <2>3
<1> QED BY <1>1, <1>3, <1>5 DEF TriesInv, UnresolvedFailures

\* What the summary says of a file that a tool deleted is what the tool did.
LEMMA DeletedMeansDestroyed ==
  ASSUME TriesInv, NEW p, NEW tool, DeletedWith(p, {tool})
  PROVE  disk[p] = Destroyed(tool)
BY DEF DeletedWith, EventsOf, TriesInv

\* However often and with whatever the files of a step were tried: what is still
\* there is listed as skipped, what is listed as shredded was overwritten, and a
\* file the fallback unlinked is listed as that.
THEOREM SummaryTellsTheTruth ==
  DeletionInit /\ [][DeletionNext]_deletionVars => []SummaryIsHonest
<1>1. ASSUME DeletionShape, TriesInv, step = "summary", NEW p \in Paths
      PROVE  /\ ~Gone(p) => Kind(p) = "skipped"
             /\ Kind(p) = "primary" => disk[p] = Destroyed(primary)
             /\ Kind(p) = "fallback" => disk[p] = "unlinked" /\ primary = "shred"
  <2>1. ~Gone(p) => Kind(p) = "skipped"
        BY <1>1, StillThereIsSkipped DEF Kind
  <2>2. Kind(p) = "primary" => DeletedWith(p, {primary})
        BY DEF Kind
  <2>3. Kind(p) = "fallback" => DeletedWith(p, {"rm"}) /\ ~DeletedWith(p, {primary})
        BY DEF Kind
  <2>4. DeletedWith(p, {primary}) => disk[p] = Destroyed(primary)
        BY <1>1, DeletedMeansDestroyed
  <2>5. DeletedWith(p, {"rm"}) => disk[p] = Destroyed("rm")
        BY <1>1, DeletedMeansDestroyed
  <2>6. primary \in {"shred", "rm"}
        BY <1>1 DEF DeletionShape
  <2> QED BY <2>1, <2>2, <2>3, <2>4, <2>5, <2>6 DEF Destroyed
<1>2. DeletionShape /\ TriesInv => SummaryIsHonest
      BY <1>1 DEF SummaryIsHonest
<1> QED BY <1>2, DeletionStart, DeletionShapeNext, TriesInvNext, PTL

-----------------------------------------------------------------------------
(* The health tracker: module Health, for every size of the ping window.     *)

\* Until the buffer has wrapped around, the next slot is the one after the last.
HealthShape ==
  /\ age \in NoHandshake .. MaxAge /\ dnsFails \in 0 .. MaxDnsFails
  /\ pingResults \in [Slots -> Pings] /\ pingIdx \in Slots /\ pingCount \in 0 .. PingWindow
  /\ pingCount < PingWindow => pingIdx = pingCount

\* The remainder of what is less than twice the divisor.
LEMMA Wraps ==
  ASSUME NEW n \in Nat \ {0}, NEW x \in 0 .. 2 * n - 1
  PROVE  x % n = IF x < n THEN x ELSE x - n
OBVIOUS

\* The quotient of natural numbers.
LEMMA Quotient ==
  ASSUME NEW a \in Nat, NEW b \in Nat \ {0}
  PROVE  a \div b \in Nat /\ b * (a \div b) <= a /\ a < b * (a \div b) + b
OBVIOUS

\* Multiples of a positive number are in the order of their factors.
LEMMA Multiples ==
  ASSUME NEW b \in Nat \ {0}, NEW q \in Nat, NEW r \in Nat, q < r
  PROVE  b * q + b <= b * r
<1>1. PICK d \in Nat : r = q + 1 + d
  <2>1. r - q - 1 \in Nat /\ r = q + 1 + (r - q - 1)
        OBVIOUS
  <2> QED BY <2>1
<1>2. b * r = b * q + b + b * d /\ b * d \in Nat
      BY <1>1
<1> QED BY <1>2

\* What is less than a multiple of the divisor has a quotient less than it.
LEMMA QuotientUpTo ==
  ASSUME NEW a \in Nat, NEW b \in Nat \ {0}, NEW c \in Nat, a < b * c + b
  PROVE  a \div b \in 0 .. c
<1> DEFINE q == a \div b
<1>1. q \in Nat /\ b * q <= a
      BY Quotient
<1> HIDE DEF q
<1>2. ~ c < q
  <2>1. c < q => b * c + b <= b * q
        BY <1>1, Multiples
  <2>2. b * c \in Nat /\ b * q \in Nat
        BY <1>1
  <2> QED BY <1>1, <2>1, <2>2
<1> QED BY <1>1, <1>2 DEF q

\* A smaller number has no larger quotient.
LEMMA QuotientGrows ==
  ASSUME NEW a \in Nat, NEW c \in Nat, NEW b \in Nat \ {0}, a <= c
  PROVE  a \div b <= c \div b
<1>1. c \div b \in Nat /\ c < b * (c \div b) + b
      BY Quotient
<1>2. a < b * (c \div b) + b
  <2>1. b * (c \div b) \in Nat
        BY <1>1
  <2> QED BY <1>1, <2>1
<1> QED BY <1>1, <1>2, QuotientUpTo

\* A set of natural numbers has a least one.
LEMMA LeastOf ==
  ASSUME NEW A, A \subseteq Nat, A # {}
  PROVE  /\ (CHOOSE i \in A : \A j \in A : i <= j) \in A
         /\ \A j \in A : (CHOOSE i \in A : \A k \in A : i <= k) <= j
<1> DEFINE less == {pair \in Nat \X Nat : pair[1] < pair[2]}
<1>1. IsWellFoundedOn(less, Nat)
      BY NatLessThanWellFounded, Zenon DEF OpToRel
<1>2. \A x, y \in A : <<y, x>> \in less <=> y < x
      OBVIOUS
<1> HIDE DEF less
<1>3. \E x \in A : \A y \in A : <<y, x>> \notin less
      BY <1>1, WFMin, Zenon
<1>4. \A x, y \in A : ~ y < x => x <= y
      OBVIOUS
<1>5. \E i \in A : \A j \in A : i <= j
      BY <1>2, <1>3, <1>4
<1> QED BY <1>5

\* The slots, counted back from the one that is written next.
LEMMA SlotTypes ==
  ASSUME HealthShape, NEW i \in 0 .. PingWindow - 1
  PROVE  /\ SlotBefore(i) \in Slots
         /\ SlotBefore(i) = IF i < pingIdx THEN pingIdx - 1 - i ELSE pingIdx - 1 - i + PingWindow
<1> DEFINE x == pingIdx - 1 - i + PingWindow
<1>1. /\ PingWindow \in Nat \ {0} /\ pingIdx \in 0 .. PingWindow - 1
      BY HealthAssumption DEF HealthShape, Slots
<1>2. x \in 0 .. 2 * PingWindow - 1
      BY <1>1
<1>3. SlotBefore(i) = x % PingWindow
      BY DEF SlotBefore
<1>4. x % PingWindow = IF x < PingWindow THEN x ELSE x - PingWindow
      BY <1>1, <1>2, Wraps
<1> QED BY <1>1, <1>3, <1>4 DEF Slots

\* One more ping.
LEMMA PingWritten ==
  ASSUME HealthShape, NEW ping \in Pings, RecordPing(ping)
  PROVE  /\ pingIdx' = (IF pingIdx = PingWindow - 1 THEN 0 ELSE pingIdx + 1) /\ pingIdx' \in Slots
         /\ pingCount' = (IF pingCount < PingWindow THEN pingCount + 1 ELSE PingWindow)
         /\ pingResults' = [pingResults EXCEPT ![pingIdx] = ping]
         /\ pingResults' \in [Slots -> Pings]
<1>1. /\ PingWindow \in Nat \ {0} /\ pingIdx \in 0 .. PingWindow - 1
      /\ pingCount \in 0 .. PingWindow /\ pingResults \in [Slots -> Pings]
      BY HealthAssumption DEF HealthShape, Slots
<1>2. ASSUME NEW x \in 0 .. 2 * PingWindow - 1
      PROVE  x % PingWindow = IF x < PingWindow THEN x ELSE x - PingWindow
      BY <1>1, Wraps
<1>3. (pingIdx + 1) % PingWindow =
        IF pingIdx + 1 < PingWindow THEN pingIdx + 1 ELSE pingIdx + 1 - PingWindow
      BY <1>1, <1>2
<1> QED BY <1>1, <1>3 DEF RecordPing, Slots

\* Every step keeps to the types.
LEMMA HealthShapeNext == HealthShape /\ [HealthNext]_healthVars => HealthShape'
<1> SUFFICES ASSUME HealthShape, [HealthNext]_healthVars PROVE HealthShape'
    OBVIOUS
<1>0. PingWindow \in Nat \ {0} /\ MaxAge \in Nat /\ MaxDnsFails \in Nat
      BY HealthAssumption
<1>1. CASE RecordHandshake \/ HandshakeGrowsOld
      BY <1>0, <1>1 DEF HealthShape, RecordHandshake, HandshakeGrowsOld, NoHandshake
<1>2. ASSUME NEW ok \in BOOLEAN, RecordDNS(ok) PROVE HealthShape'
      BY <1>0, <1>2 DEF HealthShape, RecordDNS
<1>3. ASSUME NEW ping \in Pings, RecordPing(ping) PROVE HealthShape'
  <2>1. age' = age /\ dnsFails' = dnsFails
        BY <1>3 DEF RecordPing
  <2>2. pingCount' \in 0 .. PingWindow /\ (pingCount' < PingWindow => pingIdx' = pingCount')
        BY <1>0, <1>3, PingWritten DEF HealthShape, Slots
  <2> QED BY <1>3, <2>1, <2>2, PingWritten DEF HealthShape
<1>4. CASE ResetTracker
      BY <1>0, <1>4 DEF HealthShape, ResetTracker, NoHandshake, Slots, Pings, Lost
<1>5. CASE UNCHANGED healthVars
      BY <1>5 DEF HealthShape, healthVars
<1> QED BY <1>1, <1>2, <1>3, <1>4, <1>5 DEF HealthNext

\* They hold when nothing is known.
LEMMA HealthShapeInit == HealthInit => HealthShape
BY HealthAssumption DEF HealthInit, HealthShape, NoHandshake, Slots, Pings, Lost

\* Each slot is one further back after a ping, which takes the place of the oldest.
LEMMA SlotShift ==
  ASSUME HealthShape, NEW ping \in Pings, RecordPing(ping)
  PROVE  /\ SlotBefore(0)' = pingIdx
         /\ \A i \in 0 .. PingWindow - 2 :
              SlotBefore(i + 1)' = SlotBefore(i) /\ SlotBefore(i) # pingIdx
<1>1. /\ PingWindow \in Nat \ {0} /\ pingIdx \in 0 .. PingWindow - 1
      /\ pingIdx' = (IF pingIdx = PingWindow - 1 THEN 0 ELSE pingIdx + 1)
      BY HealthAssumption, PingWritten DEF HealthShape, Slots
<1>2. ASSUME NEW i \in 0 .. PingWindow - 1
      PROVE  SlotBefore(i)' = IF i < pingIdx' THEN pingIdx' - 1 - i ELSE pingIdx' - 1 - i + PingWindow
  <2> DEFINE x == pingIdx' - 1 - i + PingWindow
  <2>1. x \in 0 .. 2 * PingWindow - 1
        BY <1>1
  <2>2. SlotBefore(i)' = x % PingWindow
        BY DEF SlotBefore
  <2>3. x % PingWindow = IF x < PingWindow THEN x ELSE x - PingWindow
        BY <1>1, <2>1, Wraps
  <2> QED BY <1>1, <2>2, <2>3
<1>3. SlotBefore(0)' = pingIdx
      BY <1>1, <1>2
<1>4. ASSUME NEW i \in 0 .. PingWindow - 2
      PROVE  SlotBefore(i + 1)' = SlotBefore(i) /\ SlotBefore(i) # pingIdx
  <2>1. i \in 0 .. PingWindow - 1 /\ i + 1 \in 0 .. PingWindow - 1
        BY <1>1
  <2>2. SlotBefore(i) = IF i < pingIdx THEN pingIdx - 1 - i ELSE pingIdx - 1 - i + PingWindow
        BY <2>1, SlotTypes
  <2>3. SlotBefore(i + 1)' =
          IF i + 1 < pingIdx' THEN pingIdx' - 1 - (i + 1) ELSE pingIdx' - 1 - (i + 1) + PingWindow
        BY <1>2, <2>1
  <2> QED BY <1>1, <2>1, <2>2, <2>3
<1> QED BY <1>3, <1>4

\* The slot that is i pings back from slot idx.
SlotBack(idx, i) == (idx - 1 - i + PingWindow) % PingWindow

\* The ping that is i pings back is one further back after one more ping.
LEMMA PingShift ==
  ASSUME HealthShape, NEW ping \in Pings, RecordPing(ping)
  PROVE  /\ pingResults'[SlotBack(pingIdx', 0)] = ping
         /\ \A i \in 0 .. PingWindow - 2 :
              pingResults'[SlotBack(pingIdx', i + 1)] = pingResults[SlotBefore(i)]
<1>1. PingWindow \in Nat \ {0} /\ pingIdx \in Slots /\ pingResults \in [Slots -> Pings]
      BY HealthAssumption DEF HealthShape
<1>2. pingResults' = [pingResults EXCEPT ![pingIdx] = ping]
      BY PingWritten
<1>3. pingResults'[SlotBack(pingIdx', 0)] = ping
  <2>1. SlotBack(pingIdx', 0) = pingIdx
        BY SlotShift DEF SlotBefore, SlotBack
  <2> QED BY <1>1, <1>2, <2>1
<1>4. ASSUME NEW i \in 0 .. PingWindow - 2
      PROVE  pingResults'[SlotBack(pingIdx', i + 1)] = pingResults[SlotBefore(i)]
  <2>1. SlotBack(pingIdx', i + 1) = SlotBefore(i) /\ SlotBefore(i) # pingIdx
        BY SlotShift DEF SlotBefore, SlotBack
  <2>2. i \in 0 .. PingWindow - 1
        BY <1>1
  <2>3. SlotBefore(i) \in Slots
        BY <2>2, SlotTypes
  <2> QED BY <1>1, <1>2, <2>1, <2>3
<1> QED BY <1>3, <1>4

\* The recent pings are a sequence.
LEMMA RecentTypes ==
  ASSUME HealthShape
  PROVE  /\ RecentPings \in Seq(Pings) /\ Len(RecentPings) = pingCount
         /\ DOMAIN RecentPings = 1 .. pingCount
         /\ \A i \in 1 .. pingCount : RecentPings[i] = pingResults[SlotBefore(pingCount - i)]
<1>1. /\ PingWindow \in Nat \ {0} /\ pingCount \in 0 .. PingWindow
      /\ pingResults \in [Slots -> Pings]
      BY HealthAssumption DEF HealthShape
<1>2. ASSUME NEW i \in 1 .. pingCount PROVE pingResults[SlotBefore(pingCount - i)] \in Pings
  <2>1. pingCount - i \in 0 .. PingWindow - 1
        BY <1>1
  <2>2. SlotBefore(pingCount - i) \in Slots
        BY <2>1, SlotTypes
  <2> QED BY <1>1, <2>2
<1> QED BY <1>1, <1>2 DEF RecentPings

\* What a sequence becomes with one more ping.
LEMMA IsAppended ==
  ASSUME NEW s \in Seq(Pings), NEW ping \in Pings, NEW t \in Seq(Pings),
         Len(t) = Len(s) + 1, \A i \in 1 .. Len(s) : t[i] = s[i], t[Len(s) + 1] = ping
  PROVE  t = Append(s, ping)
<1>1. /\ Append(s, ping) \in Seq(Pings) /\ Len(Append(s, ping)) = Len(s) + 1
      /\ \A i \in 1 .. Len(s) : Append(s, ping)[i] = s[i]
      /\ Append(s, ping)[Len(s) + 1] = ping
      BY AppendProperties
<1>2. Len(s) \in Nat
      OBVIOUS
<1>3. \A i \in 1 .. Len(t) : t[i] = Append(s, ping)[i]
      BY <1>1, <1>2
<1> QED BY <1>1, <1>3, SeqEqual

\* One more ping is one more recent ping, the oldest of a full window goes.
LEMMA PingIsRecorded ==
  ASSUME HealthShape, HealthShape', NEW ping \in Pings, RecordPing(ping)
  PROVE  Recent!Record(ping)
<1>1. /\ PingWindow \in Nat \ {0} /\ pingCount \in 0 .. PingWindow
      /\ pingCount' = IF pingCount < PingWindow THEN pingCount + 1 ELSE PingWindow
      BY HealthAssumption, PingWritten DEF HealthShape
<1>2. /\ RecentPings \in Seq(Pings) /\ Len(RecentPings) = pingCount
      /\ DOMAIN RecentPings = 1 .. pingCount
      /\ \A i \in 1 .. pingCount : RecentPings[i] = pingResults[SlotBefore(pingCount - i)]
      BY RecentTypes
<1>3. RecentPings' = [i \in 1 .. pingCount' |-> pingResults'[SlotBack(pingIdx', pingCount' - i)]]
      BY DEF RecentPings, SlotBefore, SlotBack
<1>0. /\ pingResults'[SlotBack(pingIdx', 0)] = ping
      /\ \A i \in 0 .. PingWindow - 2 :
           pingResults'[SlotBack(pingIdx', i + 1)] = pingResults[SlotBefore(i)]
      BY PingShift
<1>4. ASSUME NEW i \in 1 .. pingCount'
      PROVE  RecentPings'[i] = IF i = pingCount' THEN ping
                               ELSE pingResults[SlotBefore(pingCount' - i - 1)]
  <2>1. CASE i = pingCount'
        BY <1>0, <1>1, <1>3, <2>1
  <2>2. CASE i # pingCount'
    <3>1. pingCount' - i - 1 \in 0 .. PingWindow - 2 /\ pingCount' - i = (pingCount' - i - 1) + 1
          BY <1>1, <2>2
    <3>2. pingResults'[SlotBack(pingIdx', (pingCount' - i - 1) + 1)] =
            pingResults[SlotBefore(pingCount' - i - 1)]
          BY <1>0, <3>1
    <3> QED BY <1>3, <2>2, <3>1, <3>2
  <2> QED BY <2>1, <2>2
<1>5. RecentPings' \in Seq(Pings) /\ Len(RecentPings') = pingCount'
  <2>1. ASSUME NEW i \in 1 .. pingCount' PROVE RecentPings'[i] \in Pings
    <3>1. CASE i = pingCount'
          BY <1>4, <3>1
    <3>2. CASE i # pingCount'
      <4>1. pingCount' - i - 1 \in 0 .. PingWindow - 1
            BY <1>1, <3>2
      <4>2. pingResults[SlotBefore(pingCount' - i - 1)] \in Pings
            BY <4>1, SlotTypes DEF HealthShape
      <4> QED BY <1>4, <3>2, <4>2
    <3> QED BY <3>1, <3>2
  <2>2. pingCount' \in Nat
        BY <1>1
  <2> QED BY <1>3, <2>1, <2>2
<1>6. CASE pingCount < PingWindow
  <2>1. pingCount' = pingCount + 1
        BY <1>1, <1>6
  <2>2. ASSUME NEW i \in 1 .. pingCount PROVE RecentPings'[i] = RecentPings[i]
    <3>1. pingCount' - i - 1 = pingCount - i /\ i \in 1 .. pingCount' /\ i # pingCount'
          BY <1>1, <2>1
    <3> QED BY <1>2, <1>4, <3>1
  <2>3. RecentPings'[pingCount + 1] = ping
        BY <1>1, <1>4, <2>1
  <2>4. RecentPings' = Append(RecentPings, ping)
        BY <1>2, <1>5, <2>1, <2>2, <2>3, IsAppended
  <2> QED BY <1>2, <1>6, <2>4 DEF Recent!Record
<1>7. CASE pingCount = PingWindow
  <2> DEFINE rest == Tail(RecentPings)
  <2>1. /\ rest \in Seq(Pings) /\ Len(rest) = PingWindow - 1
        /\ \A i \in 1 .. PingWindow - 1 : rest[i] = RecentPings[i + 1]
        BY <1>1, <1>2, <1>7
  <2> HIDE DEF rest
  <2>2. pingCount' = PingWindow
        BY <1>1, <1>7
  <2>3. ASSUME NEW i \in 1 .. PingWindow - 1 PROVE RecentPings'[i] = rest[i]
    <3>1. /\ pingCount' - i - 1 = pingCount - (i + 1) /\ i \in 1 .. pingCount' /\ i # pingCount'
          /\ i + 1 \in 1 .. pingCount
          BY <1>1, <1>7, <2>2
    <3> QED BY <1>2, <1>4, <2>1, <3>1
  <2>4. RecentPings'[PingWindow] = ping
        BY <1>1, <1>4, <2>2
  <2>5. RecentPings' = Append(rest, ping)
    <3>1. Len(rest) + 1 = PingWindow
          BY <1>1, <2>1
    <3> QED BY <1>5, <2>1, <2>2, <2>3, <2>4, <3>1, IsAppended
  <2> QED BY <1>1, <1>2, <1>7, <2>5 DEF Recent!Record, rest
<1> QED BY <1>1, <1>6, <1>7

\* The circular buffer is a sliding window over the last pings, in their order.
THEOREM TrackerRefinesRecent == HealthInit /\ [][HealthNext]_healthVars => RefinesRecent
<1>1. HealthInit => Recent!RecentInit
      BY DEF HealthInit, Recent!RecentInit, RecentPings
<1>2. ASSUME HealthShape, HealthShape', [HealthNext]_healthVars
      PROVE  [Recent!Forget \/ \E r \in Pings : Recent!Record(r)]_RecentPings
  <2>1. CASE UNCHANGED <<pingResults, pingIdx, pingCount>>
    <3>1. RecentPings' = RecentPings
          BY <2>1 DEF RecentPings, SlotBefore
    <3> QED BY <3>1
  <2>2. CASE ResetTracker
        BY <2>2 DEF ResetTracker, RecentPings, Recent!Forget
  <2>3. ASSUME NEW ping \in Pings, RecordPing(ping) PROVE Recent!Record(ping)
        BY <1>2, <2>3, PingIsRecorded
  <2> QED BY <1>2, <2>1, <2>2, <2>3
          DEF HealthNext, healthVars, RecordHandshake, HandshakeGrowsOld, RecordDNS
<1> QED BY <1>1, <1>2, HealthShapeInit, HealthShapeNext, PTL DEF RefinesRecent, Recent!RecentSpec

\* The pings back that were answered, of a window that ends before slot idx.
AnsweredOf(results, idx, count) == {i \in 0 .. count - 1 : results[SlotBack(idx, i)] # Lost}
Answered == AnsweredOf(pingResults, pingIdx, pingCount)
Newest(answered) == CHOOSE i \in answered : \A j \in answered : i <= j

\* The last latency is that of the newest ping that was answered.
LEMMA LatencyIs ==
  /\ LastLatencyMs = IF Answered = {} THEN 0 ELSE pingResults[SlotBefore(Newest(Answered))]
  /\ LastLatencyMs' = IF Answered' = {} THEN 0
                      ELSE pingResults'[SlotBack(pingIdx', Newest(Answered'))]
BY Zenon DEF LastLatencyMs, Answered, AnsweredOf, Newest, SlotBefore, SlotBack

\* Which is in the window.
LEMMA NewestIs ==
  ASSUME NEW answered, answered \subseteq Nat, answered # {}
  PROVE  Newest(answered) \in answered /\ \A j \in answered : Newest(answered) <= j
BY LeastOf DEF Newest

\* It is a number of milliseconds.
LEMMA LatencyTypes == ASSUME HealthShape PROVE LastLatencyMs \in Nat
<1>1. /\ PingWindow \in Nat \ {0} /\ Pings \subseteq Nat /\ pingCount \in 0 .. PingWindow
      /\ pingResults \in [Slots -> Pings]
      BY HealthAssumption DEF HealthShape, Pings, Lost
<1>2. Answered \subseteq 0 .. pingCount - 1 /\ Answered \subseteq Nat
      BY <1>1 DEF Answered, AnsweredOf
<1>3. CASE Answered = {}
      BY <1>3, LatencyIs
<1>4. CASE Answered # {}
  <2> DEFINE n == Newest(Answered)
  <2>1. n \in Answered
        BY <1>2, <1>4, NewestIs
  <2>2. LastLatencyMs = pingResults[SlotBefore(n)]
        BY <1>4, LatencyIs
  <2> HIDE DEF n
  <2>3. n \in 0 .. PingWindow - 1
        BY <1>1, <1>2, <2>1
  <2>4. SlotBefore(n) \in Slots
        BY <2>3, SlotTypes
  <2> QED BY <1>1, <2>2, <2>4
<1> QED BY <1>3, <1>4

\* One more ping without an answer: the newest answer is the same, or none is left.
LEMMA LostKeepsLatency ==
  ASSUME HealthShape, RecordPing(Lost), LastLatencyMs' # 0
  PROVE  LastLatencyMs' = LastLatencyMs
<1>0. Lost \in Pings
      BY DEF Pings
<1>1. /\ PingWindow \in Nat \ {0} /\ pingCount \in 0 .. PingWindow
      /\ pingCount' = IF pingCount < PingWindow THEN pingCount + 1 ELSE PingWindow
      BY <1>0, HealthAssumption, PingWritten DEF HealthShape
<1>2. /\ pingResults'[SlotBack(pingIdx', 0)] = Lost
      /\ \A i \in 0 .. PingWindow - 2 :
           pingResults'[SlotBack(pingIdx', i + 1)] = pingResults[SlotBack(pingIdx, i)]
      BY <1>0, PingShift DEF SlotBefore, SlotBack
<1>3. /\ Answered = {i \in 0 .. pingCount - 1 : pingResults[SlotBack(pingIdx, i)] # Lost}
      /\ Answered' = {i \in 0 .. pingCount' - 1 : pingResults'[SlotBack(pingIdx', i)] # Lost}
      BY DEF Answered, AnsweredOf
<1>4. Answered \subseteq Nat /\ Answered' \subseteq Nat
      BY <1>1, <1>3
<1>5. ASSUME NEW i \in Answered' PROVE i - 1 \in Answered /\ i - 1 \in 0 .. PingWindow - 2
  <2>1. i \in 0 .. pingCount' - 1 /\ pingResults'[SlotBack(pingIdx', i)] # Lost
        BY <1>3
  <2>2. i # 0
        BY <1>2, <2>1
  <2>3. i - 1 \in 0 .. pingCount - 1 /\ i - 1 \in 0 .. PingWindow - 2 /\ i = (i - 1) + 1
        BY <1>1, <2>1, <2>2
  <2>4. pingResults'[SlotBack(pingIdx', (i - 1) + 1)] = pingResults[SlotBack(pingIdx, i - 1)]
        BY <1>2, <2>3
  <2> QED BY <1>3, <2>1, <2>3, <2>4
<1>6. ASSUME NEW i \in Answered, i + 1 <= pingCount' - 1 PROVE i + 1 \in Answered'
  <2>1. i \in 0 .. pingCount - 1 /\ pingResults[SlotBack(pingIdx, i)] # Lost
        BY <1>3
  <2>2. i \in 0 .. PingWindow - 2 /\ i + 1 \in 0 .. pingCount' - 1
        BY <1>1, <1>6, <2>1
  <2>3. pingResults'[SlotBack(pingIdx', i + 1)] = pingResults[SlotBack(pingIdx, i)]
        BY <1>2, <2>2
  <2> QED BY <1>3, <2>1, <2>2, <2>3
<1>7. Answered' # {}
      BY LatencyIs
<1> DEFINE m == Newest(Answered)
           n == Newest(Answered')
<1>8. n \in Answered' /\ \A j \in Answered' : n <= j
      BY <1>4, <1>7, NewestIs
<1>9. n - 1 \in Answered /\ n - 1 \in 0 .. PingWindow - 2
      BY <1>5, <1>8
<1>10. m \in Answered /\ \A j \in Answered : m <= j
      BY <1>4, <1>9, NewestIs
<1>11. /\ LastLatencyMs = pingResults[SlotBack(pingIdx, m)]
       /\ LastLatencyMs' = pingResults'[SlotBack(pingIdx', n)]
      BY <1>7, <1>9, LatencyIs DEF SlotBefore, SlotBack
<1> HIDE DEF m, n
<1>12. m = n - 1
  <2>1. m <= n - 1 /\ m \in Nat /\ n \in Nat /\ n <= pingCount' - 1
        BY <1>1, <1>3, <1>4, <1>8, <1>9, <1>10
  <2>2. m + 1 <= pingCount' - 1
        BY <1>1, <2>1
  <2>3. n <= m + 1
        BY <1>6, <1>8, <1>10, <2>2
  <2> QED BY <2>1, <2>3
<1>13. n = m + 1
      BY <1>4, <1>8, <1>12
<1> QED BY <1>2, <1>9, <1>11, <1>12, <1>13

\* The pings of the window that were answered.
Successes(results, count) == Cardinality({i \in 0 .. count - 1 : results[i] # Lost})
LossScore(successes, count) == IF count = 0 THEN 100 ELSE Rounded(100 * successes, count)

\* They are no more than there are pings.
LEMMA SuccessesTypes ==
  ASSUME NEW results, NEW count \in Nat
  PROVE  /\ IsFiniteSet({i \in 0 .. count - 1 : results[i] # Lost})
         /\ Successes(results, count) \in 0 .. count
<1> DEFINE answered == {i \in 0 .. count - 1 : results[i] # Lost}
<1>1. IsFiniteSet(0 .. count - 1) /\ Cardinality(0 .. count - 1) = count
  <2>1. 0 \in Int /\ count - 1 \in Int
        OBVIOUS
  <2>2. /\ IsFiniteSet(0 .. count - 1)
        /\ Cardinality(0 .. count - 1) = IF 0 > count - 1 THEN 0 ELSE (count - 1) - 0 + 1
        BY <2>1, FS_Interval
  <2> QED BY <2>2
<1>2. answered \in SUBSET (0 .. count - 1)
      OBVIOUS
<1> HIDE DEF answered
<1>3. IsFiniteSet(answered) /\ Cardinality(answered) <= Cardinality(0 .. count - 1)
      BY <1>1, <1>2, FS_Subset
<1>4. Cardinality(answered) \in Nat
      BY <1>3, FS_CardinalityType
<1>5. Successes(results, count) = Cardinality(answered)
      BY DEF Successes, answered
<1> QED BY <1>1, <1>3, <1>4, <1>5 DEF answered

\* The share of pings that were answered, in percent.
LEMMA LossScoreTypes ==
  ASSUME NEW count \in Nat, NEW successes \in 0 .. count
  PROVE  LossScore(successes, count) \in 0 .. 100
<1>1. CASE count = 0
      BY <1>1 DEF LossScore
<1>2. CASE count # 0
  <2> DEFINE a == 2 * (100 * successes) + count
             b == 2 * count
  <2>1. a \in Nat /\ b \in Nat \ {0} /\ a < b * 100 + b
        BY <1>2
  <2>2. LossScore(successes, count) = a \div b
        BY <1>2 DEF LossScore, Rounded
  <2> HIDE DEF a, b
  <2>3. a \div b \in 0 .. 100
        BY <2>1, QuotientUpTo
  <2> QED BY <2>2, <2>3
<1> QED BY <1>1, <1>2

\* It is no more with as many pings and fewer answers ...
LEMMA LossScoreGrows ==
  ASSUME NEW count \in Nat, NEW fewer \in 0 .. count, NEW successes \in 0 .. count, fewer <= successes
  PROVE  LossScore(fewer, count) <= LossScore(successes, count)
<1>1. CASE count = 0
      BY <1>1 DEF LossScore
<1>2. CASE count # 0
  <2> DEFINE a == 2 * (100 * fewer) + count
             c == 2 * (100 * successes) + count
             b == 2 * count
  <2>1. a \in Nat /\ c \in Nat /\ b \in Nat \ {0} /\ a <= c
        BY <1>2
  <2>2. LossScore(fewer, count) = a \div b /\ LossScore(successes, count) = c \div b
        BY <1>2 DEF LossScore, Rounded
  <2> HIDE DEF a, b, c
  <2> QED BY <2>1, <2>2, QuotientGrows
<1> QED BY <1>1, <1>2

\* ... and with as many answers and one more ping.
LEMMA LossScoreFalls ==
  ASSUME NEW count \in Nat, NEW successes \in 0 .. count
  PROVE  LossScore(successes, count + 1) <= LossScore(successes, count)
<1>1. CASE count = 0
  <2>1. LossScore(successes, count + 1) \in 0 .. 100
        BY LossScoreTypes
  <2> QED BY <1>1, <2>1 DEF LossScore
<1>2. CASE count # 0
  <2> DEFINE a == 2 * (100 * successes) + (count + 1)
             b == 2 * (count + 1)
             q == a \div b
             c == 2 * (100 * successes) + count
             d == 2 * count
  <2>1. a \in Nat /\ b \in Nat \ {0} /\ c \in Nat /\ d \in Nat \ {0} /\ a = c + 1 /\ b = d + 2
        BY <1>2
  <2>2. LossScore(successes, count + 1) = q /\ LossScore(successes, count) = c \div d
        BY <1>2 DEF LossScore, Rounded
  <2>3. q \in Nat /\ b * q <= a
        BY <2>1, Quotient
  <2>4. c \div d \in Nat /\ c < d * (c \div d) + d
        BY <2>1, Quotient
  <2> HIDE DEF a, b, c, d, q
  <2>5. SUFFICES ASSUME c \div d < q PROVE FALSE
        BY <2>2, <2>3, <2>4
  <2>6. d * (c \div d) + d <= d * q /\ d * q \in Nat /\ d * (c \div d) \in Nat
        BY <2>1, <2>3, <2>4, <2>5, Multiples
  <2>7. b * q = d * q + 2 * q
        BY <2>1, <2>3
  <2>8. q >= 1
        BY <2>3, <2>4, <2>5
  <2> QED BY <2>1, <2>3, <2>4, <2>6, <2>7, <2>8
<1> QED BY <1>1, <1>2

\* The score of the pings.
LEMMA PacketLossIs ==
  /\ PacketLossScore = LossScore(Successes(pingResults, pingCount), pingCount)
  /\ PacketLossScore' = LossScore(Successes(pingResults', pingCount'), pingCount')
BY DEF PacketLossScore, LossScore, Successes

\* One more ping without an answer does not raise it.
LEMMA LostKeepsLoss ==
  ASSUME HealthShape, RecordPing(Lost)
  PROVE  PacketLossScore' <= PacketLossScore
<1>0. Lost \in Pings
      BY DEF Pings
<1>1. /\ PingWindow \in Nat \ {0} /\ pingCount \in 0 .. PingWindow /\ pingIdx \in 0 .. PingWindow - 1
      /\ pingCount < PingWindow => pingIdx = pingCount
      /\ pingResults \in [0 .. PingWindow - 1 -> Pings]
      /\ pingCount' = (IF pingCount < PingWindow THEN pingCount + 1 ELSE PingWindow)
      /\ pingResults' = [pingResults EXCEPT ![pingIdx] = Lost]
      BY <1>0, HealthAssumption, PingWritten DEF HealthShape, Slots
<1> DEFINE before == {i \in 0 .. pingCount - 1 : pingResults[i] # Lost}
           after  == {i \in 0 .. pingCount' - 1 : pingResults'[i] # Lost}
<1>2. /\ Successes(pingResults, pingCount) = Cardinality(before)
      /\ Successes(pingResults', pingCount') = Cardinality(after)
      BY DEF Successes
<1>3. /\ IsFiniteSet(before) /\ Cardinality(before) \in 0 .. pingCount
      /\ Cardinality(after) \in 0 .. pingCount' /\ pingCount \in Nat /\ pingCount' \in Nat
  <2>1. pingCount \in Nat /\ pingCount' \in Nat
        BY <1>1
  <2> QED BY <1>2, <2>1, SuccessesTypes
<1>4. CASE pingCount < PingWindow
  <2>1. after = before
        BY <1>1, <1>4
  <2>2. pingCount' = pingCount + 1
        BY <1>1, <1>4
  <2> HIDE DEF before, after
  <2> QED BY <1>2, <1>3, <2>1, <2>2, LossScoreFalls, PacketLossIs
<1>5. CASE pingCount = PingWindow
  <2>1. after \in SUBSET before
        BY <1>1, <1>5
  <2>2. pingCount' = pingCount
        BY <1>1, <1>5
  <2> HIDE DEF before, after
  <2>3. Cardinality(after) <= Cardinality(before)
        BY <1>3, <2>1, FS_Subset
  <2> QED BY <1>2, <1>3, <2>2, <2>3, LossScoreGrows, PacketLossIs
<1> QED BY <1>1, <1>4, <1>5

\* The four scores are percentages.
Percentages ==
  /\ HandshakeScore \in 0 .. 100 /\ DnsScore \in 0 .. 100
  /\ LatencyScore \in 0 .. 100 /\ PacketLossScore \in 0 .. 100

\* In every state.
LEMMA ScoreTypes == ASSUME HealthShape PROVE Percentages
<1>1. HandshakeScore \in 0 .. 100
  <2>1. age \in Int
        BY HealthAssumption DEF HealthShape, NoHandshake
  <2>2. CASE age < 3 \/ age > 7
        BY <2>1, <2>2 DEF HandshakeScore
  <2>3. CASE ~(age < 3 \/ age > 7)
    <3>1. age \in 3 .. 7 /\ HandshakeScore = (2 * (100 * (7 - age)) + 4) \div (2 * 4)
          BY <2>1, <2>3 DEF HandshakeScore, Rounded
    <3> QED BY <3>1
  <2> QED BY <2>2, <2>3
<1>2. DnsScore \in 0 .. 100
      BY HealthAssumption DEF HealthShape, DnsScore
<1>3. LatencyScore \in 0 .. 100
  <2> DEFINE ms == LastLatencyMs
  <2>1. ms \in Nat
        BY LatencyTypes
  <2>2. LatencyScore =
          CASE ms <= 100 -> 100
            [] ms \in 101 .. 300 -> (2 * (100 * 200 - 50 * (ms - 100)) + 200) \div (2 * 200)
            [] ms \in 301 .. 999 -> (2 * (50 * (1000 - ms)) + 700) \div (2 * 700)
            [] OTHER -> 0
        BY Zenon DEF LatencyScore, Rounded
  <2> HIDE DEF ms
  <2>3. CASE ms <= 100 \/ ms > 999
        BY <2>1, <2>2, <2>3
  <2>4. CASE ms \in 101 .. 300
    <3>1. LatencyScore = (2 * (100 * 200 - 50 * (ms - 100)) + 200) \div (2 * 200)
      <4>1. ~(ms <= 100) /\ ms \notin 301 .. 999
            BY <2>4
      <4>2. 100 * 200 = 20000
            OBVIOUS
      <4> QED BY <2>1, <2>2, <2>4, <4>1, <4>2, SMTT(30)
    <3> QED BY <2>4, <3>1
  <2>5. CASE ms \in 301 .. 999
    <3>1. LatencyScore = (2 * (50 * (1000 - ms)) + 700) \div (2 * 700)
          BY <2>2, <2>5
    <3> QED BY <2>5, <3>1
  <2> QED BY <2>1, <2>3, <2>4, <2>5
<1>4. PacketLossScore \in 0 .. 100
  <2>1. pingCount \in Nat
        BY HealthAssumption DEF HealthShape
  <2>2. Successes(pingResults, pingCount) \in 0 .. pingCount
        BY <2>1, SuccessesTypes
  <2> QED BY <2>1, <2>2, LossScoreTypes, PacketLossIs
<1> QED BY <1>1, <1>2, <1>3, <1>4 DEF Percentages

\* The health tracker is always what the module says it can be.
THEOREM HealthTypeCorrect == HealthInit /\ [][HealthNext]_healthVars => []HealthTypeOK
<1>1. ASSUME HealthShape PROVE HealthTypeOK
  <2>1. Percentages
        BY <1>1, ScoreTypes
  <2>2. Score \in 0 .. 100
        BY <2>1 DEF Score, Percentages
  <2> QED BY <1>1, <2>2 DEF HealthShape, HealthTypeOK
<1> QED BY <1>1, HealthShapeInit, HealthShapeNext, PTL

\* Four scores none of which has risen.
LEMMA ScoreFalls ==
  ASSUME HealthShape, Percentages',
         HandshakeScore' <= HandshakeScore, DnsScore' <= DnsScore,
         LatencyScore' <= LatencyScore, PacketLossScore' <= PacketLossScore
  PROVE  Score' <= Score
<1> DEFINE a == HandshakeScore' + DnsScore' + LatencyScore' + PacketLossScore'
           b == HandshakeScore + DnsScore + LatencyScore + PacketLossScore
<1>0. Percentages
      BY ScoreTypes
<1>1. a \in Nat /\ b \in Nat /\ a <= b
  <2> DEFINE h == HandshakeScore'
             d == DnsScore'
             l == LatencyScore'
             p == PacketLossScore'
  <2>1. h \in 0 .. 100 /\ d \in 0 .. 100 /\ l \in 0 .. 100 /\ p \in 0 .. 100
        BY DEF Percentages
  <2>2. h <= HandshakeScore /\ d <= DnsScore /\ l <= LatencyScore /\ p <= PacketLossScore
        OBVIOUS
  <2>3. a = h + d + l + p
        OBVIOUS
  <2> HIDE DEF h, d, l, p, a
  <2> QED BY <1>0, <2>1, <2>2, <2>3 DEF Percentages
<1>2. Score' = a \div 4 /\ Score = b \div 4
      BY DEF Score
<1> HIDE DEF a, b
<1> QED BY <1>1, <1>2, QuotientGrows

\* Pings, DNS and handshake have no say in each other's scores.
LEMMA ScoresApart ==
  /\ age' = age => HandshakeScore' = HandshakeScore
  /\ dnsFails' = dnsFails => DnsScore' = DnsScore
  /\ UNCHANGED <<pingResults, pingIdx, pingCount>> =>
       LatencyScore' = LatencyScore /\ PacketLossScore' = PacketLossScore
<1>1. age' = age => HandshakeScore' = HandshakeScore
      BY DEF HandshakeScore
<1>2. dnsFails' = dnsFails => DnsScore' = DnsScore
      BY DEF DnsScore
<1>3. ASSUME UNCHANGED <<pingResults, pingIdx, pingCount>>
      PROVE  LatencyScore' = LatencyScore /\ PacketLossScore' = PacketLossScore
  <2>1. LastLatencyMs' = LastLatencyMs
    <3>1. Answered' = Answered
          BY <1>3 DEF Answered
    <3>2. \A i : SlotBefore(i) = SlotBack(pingIdx', i)
          BY <1>3 DEF SlotBefore, SlotBack
    <3> QED BY <1>3, <3>1, <3>2, LatencyIs
  <2>2. LatencyScore' = LatencyScore
        BY <2>1, Zenon DEF LatencyScore
  <2>3. PacketLossScore' = PacketLossScore
        BY <1>3, PacketLossIs
  <2> QED BY <2>2, <2>3
<1> QED BY <1>1, <1>2, <1>3

\* A handshake grown older, a DNS failure, or a ping without an answer as long as
\* there is an earlier answer in the window never raise the score, whatever the
\* size of the window and however often it has wrapped around.
THEOREM WorseIsWorse == HealthInit /\ [][HealthNext]_healthVars => WorseNeverLooksBetter
<1> DEFINE Worse == \/ age >= 0 /\ age' > age
                    \/ dnsFails' > dnsFails
                    \/ age' = age /\ dnsFails' = dnsFails /\ RecordPing(Lost) /\ LastLatencyMs' # 0
<1>1. ASSUME HealthShape, [HealthNext]_healthVars, Worse, Percentages' PROVE Score' <= Score
  <2>0. /\ HandshakeScore \in 0 .. 100 /\ DnsScore \in 0 .. 100
        /\ LatencyScore \in 0 .. 100 /\ PacketLossScore \in 0 .. 100
        BY <1>1, ScoreTypes DEF Percentages
  <2>p. /\ HandshakeScore' \in 0 .. 100 /\ DnsScore' \in 0 .. 100
        /\ LatencyScore' \in 0 .. 100 /\ PacketLossScore' \in 0 .. 100
        BY <1>1 DEF Percentages
  <2>1. CASE RecordPing(Lost) /\ LastLatencyMs' # 0
    <3>1. HandshakeScore' = HandshakeScore /\ DnsScore' = DnsScore
          BY <2>1, ScoresApart DEF RecordPing
    <3>2. LatencyScore' = LatencyScore
      <4>1. LastLatencyMs' = LastLatencyMs
            BY <1>1, <2>1, LostKeepsLatency
      <4> QED BY <4>1, Zenon DEF LatencyScore
    <3>3. PacketLossScore' <= PacketLossScore
          BY <1>1, <2>1, LostKeepsLoss
    <3> QED BY <1>1, <2>0, <3>1, <3>2, <3>3, ScoreFalls
  <2>2. CASE HandshakeGrowsOld
    <3>1. DnsScore' = DnsScore /\ LatencyScore' = LatencyScore /\ PacketLossScore' = PacketLossScore
          BY <2>2, ScoresApart DEF HandshakeGrowsOld
    <3>2. age \in Nat /\ age' = age + 1
          BY <2>2 DEF HandshakeGrowsOld
    <3>3. HandshakeScore' <= HandshakeScore
      <4>1. HandshakeScore = CASE age < 3 -> 100 [] age > 7 -> 0
                               [] OTHER -> (2 * (100 * (7 - age)) + 4) \div (2 * 4)
            BY Zenon DEF HandshakeScore, Rounded
      <4>2. HandshakeScore' = CASE age' < 3 -> 100 [] age' > 7 -> 0
                                [] OTHER -> (2 * (100 * (7 - age')) + 4) \div (2 * 4)
            BY Zenon DEF HandshakeScore, Rounded
      <4>3. CASE age < 3
            BY <2>p, <3>2, <4>1, <4>3
      <4>4. CASE age' > 7
            BY <2>0, <3>2, <4>2, <4>4
      <4>5. CASE age \in 3 .. 6
            BY <3>2, <4>1, <4>2, <4>5
      <4> QED BY <3>2, <4>3, <4>4, <4>5
    <3> QED BY <1>1, <2>0, <3>1, <3>3, ScoreFalls
  <2>3. ASSUME NEW ok \in BOOLEAN, RecordDNS(ok), dnsFails' > dnsFails PROVE Score' <= Score
    <3>1. /\ HandshakeScore' = HandshakeScore /\ LatencyScore' = LatencyScore
          /\ PacketLossScore' = PacketLossScore
          BY <2>3, ScoresApart DEF RecordDNS
    <3>2. dnsFails \in Nat /\ dnsFails' = dnsFails + 1
          BY <1>1, <2>3, HealthAssumption DEF RecordDNS, HealthShape
    <3>3. DnsScore' <= DnsScore
          BY <3>2 DEF DnsScore
    <3> QED BY <1>1, <2>0, <3>1, <3>3, ScoreFalls
  <2>4. /\ RecordHandshake => ~(age >= 0 /\ age' > age) /\ dnsFails' = dnsFails
        /\ ResetTracker => ~(age >= 0 /\ age' > age) /\ ~(dnsFails' > dnsFails)
        /\ UNCHANGED healthVars => age' = age /\ dnsFails' = dnsFails
        /\ \A ok \in BOOLEAN : RecordDNS(ok) => age' = age
        /\ \A ping \in Pings : RecordPing(ping) => age' = age /\ dnsFails' = dnsFails
        BY <1>1, HealthAssumption DEF HealthShape, NoHandshake, RecordHandshake, ResetTracker,
           RecordDNS, RecordPing, healthVars
  <2>5. age \in Int /\ dnsFails \in Int
        BY <1>1, HealthAssumption DEF HealthShape, NoHandshake
  <2>6. CASE age >= 0 /\ age' > age
        BY <1>1, <2>2, <2>4, <2>5, <2>6 DEF HealthNext
  <2>7. CASE dnsFails' > dnsFails
        BY <1>1, <2>2, <2>3, <2>4, <2>5, <2>7 DEF HealthNext, HandshakeGrowsOld
  <2> QED BY <1>1, <2>1, <2>6, <2>7
<1>2. HealthShape => Percentages
      BY ScoreTypes
<1>3. HealthShape /\ [HealthNext]_healthVars /\ Percentages' => [Worse => Score' <= Score]_healthVars
      BY <1>1
<1> QED BY <1>2, <1>3, HealthShapeInit, HealthShapeNext, PTL DEF WorseNeverLooksBetter

-----------------------------------------------------------------------------
(* The components together: a behaviour of the machine is one of every     *)
(* component, since what one of them does the others sleep through.        *)

machineState == <<part, tunnelVars, configVars, healthVars, deletionVars, catalogVars>>

\* A step of the machine is a step or a stutter of each component.
LEMMA ComponentsStep ==
  ASSUME [MachineNext]_machineState
  PROVE  /\ [TunnelNext]_tunnelVars /\ [ConfigNext]_configVars /\ [HealthNext]_healthVars
         /\ [DeletionNext]_deletionVars /\ [CatalogNext]_catalogVars
BY Zenon DEF MachineNext, machineState

\* The component that moves keeps to its types, whichever it is, for every
\* value of the constants of all five.
THEOREM MachineTypeCorrect == MachineInit /\ [][MachineNext]_machineState => []MachineTypeOK
<1>1. MachineInit => /\ TunnelInit /\ ConfigInit /\ HealthInit
                     /\ DeletionInit /\ CatalogInit
      BY DEF MachineInit
<1> DEFINE parts == {"tunnel", "config", "health", "deletion", "catalog"}
           PartKnown == part \in parts
<1>2. MachineInit => PartKnown
      BY DEF MachineInit
<1>3. PartKnown /\ [MachineNext]_machineState => PartKnown'
      BY Zenon DEF MachineNext, machineState
<1>4. ASSUME PartKnown, TunnelTypeOK, ConfigTypeOK, HealthTypeOK, DeletionTypeOK, CatalogTypeOK
      PROVE  MachineTypeOK
  <2>1. /\ TunnelTypeOK = TRUE /\ ConfigTypeOK = TRUE /\ HealthTypeOK = TRUE
        /\ DeletionTypeOK = TRUE /\ CatalogTypeOK = TRUE
        BY <1>4, Zenon
  <2>2. (CASE part = "tunnel"    -> TRUE
           [] part = "config"    -> TRUE
           [] part = "health"    -> TRUE
           [] part = "deletion"  -> TRUE
           [] part = "catalog"   -> TRUE) = TRUE
        BY <1>4
  <2> QED BY <2>1, <2>2, Zenon DEF MachineTypeOK
<1> HIDE DEF PartKnown
<1>5. [MachineNext]_machineState
      => /\ [TunnelNext]_tunnelVars /\ [ConfigNext]_configVars /\ [HealthNext]_healthVars
         /\ [DeletionNext]_deletionVars /\ [CatalogNext]_catalogVars
      BY ComponentsStep
<1> QED BY <1>1, <1>2, <1>3, <1>4, <1>5, TunnelTypeCorrect, ConfigTypeCorrect, HealthTypeCorrect,
           DeletionTypeCorrect, CatalogTypeCorrect, PTL

=============================================================================
