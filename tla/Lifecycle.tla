----------------------------- MODULE Lifecycle -----------------------------
(***************************************************************************)
(* Installing, updating and uninstalling lazyvpn (cmd/lazyvpn/main.go,     *)
(* internal/update).  Both scripts go step by step, ask, carry on after    *)
(* most failures and can be interrupted between any two steps; meanwhile   *)
(* a daemon may run, and a TUI with a copy of config.json of its own.      *)
(***************************************************************************)
EXTENDS Naturals, Sequences

CONSTANT MaxTrouble   \* bound: how often a step is declined, fails or is interrupted, or
                      \* a TUI or a new daemon comes beside a script, in all

ASSUME TroubleAssumption == MaxTrouble \in Nat

VARIABLES there,     \* what of lazyvpn is on the system
          records,   \* what config.json says of the installation, or Broken
          agent,     \* the connection daemon: "none", "serving" or "leaving"
          held,      \* what the daemon's copy of config.json says
          tui,       \* the TUI, and what its copy of config.json says
          script,    \* the script that runs, its step and its copy of config.json
          past,      \* what has become of the installation
          trouble

lifecycleVars == <<there, records, agent, held, tui, script, past, trouble>>

InstallSteps ==
  <<"binary", "configDir", "config", "name", "sudoers", "record", "capabilities", "ipv6",
    "rules", "autostart", "bindings", "menu", "waybar", "launcher", "path", "clone">>

\* Mutant: config.json goes before the rest.
ConfigEarly ==
  <<"tunnel", "ask", "rules", "ipv6", "daemon", "config", "menu", "bindings", "waybar", "path",
    "autostart", "launcher", "log", "sudoers", "share", "clone", "binary",
    "providers", "cache", "wireguard", "configDir">>

UninstallSteps ==
  <<"tunnel", "ask", "rules", "ipv6", "daemon", "menu", "bindings", "waybar", "path",
    "autostart", "launcher", "log", "sudoers", "share", "clone", "binary",
    "config", "providers", "cache", "wireguard", "configDir">>

Artifacts ==
  {"binary", "capabilities", "configDir", "config", "sudoers", "ipv6", "rules", "autostart",
   "bindings", "menu", "waybar", "launcher", "path", "clone", "log", "share",
   "providers", "cache", "wireguard", "runtime", "tunnel"}

\* SudoersInstalled and InstallSourceDir.
Recordable == {"sudoers", "clone"}

\* A config.json that cannot be read: cut short, edited by hand, too large.
Broken == {"broken"}

NoScript == [doing |-> "nothing", step |-> 1, knows |-> {}, keepKeys |-> FALSE]

\* told: what the uninstaller said it leaves; alone: no TUI was open and no
\* daemon started or rebuilt the firewall beside it, none ran without a PID file.
\* recorded: what an installer noted in config.json; lost: what of it a TUI has
\* since saved over with a copy that did not know, or a file that broke.
NoPast == [uninstalled |-> FALSE, told |-> {}, alone |-> TRUE, recorded |-> {}, lost |-> {}]

\* The clone is there, an Omarchy menu an earlier release has changed, and the
\* directory an earlier release was installed in.
LifecycleInit ==
  /\ there = {"clone", "menu", "share"} /\ records = {} /\ agent = "none" /\ held = {}
  /\ tui = [open |-> FALSE, knows |-> {}] /\ script = NoScript /\ past = NoPast /\ trouble = 0

Trouble == trouble < MaxTrouble /\ trouble' = trouble + 1

StepsOf(what) == IF what = "install" THEN InstallSteps ELSE UninstallSteps
AtStep(what, step) == script.doing = what /\ StepsOf(what)[script.step] = step
Following(s) == IF s.step = Len(StepsOf(s.doing)) THEN NoScript ELSE [s EXCEPT !.step = @ + 1]
GoOn == script' = Following(script)

\* config.Load: the defaults where there is no file, and where it is broken with
\* an error besides.
Unreadable == "config" \in there /\ records = Broken
Loaded == IF "config" \in there /\ records # Broken THEN records ELSE {}

\* What a script writes over config.json, while its directory is there.
SaveWith(what) ==
  IF "configDir" \in there
  THEN there' = there \cup {"config"} /\ records' = what
  ELSE UNCHANGED <<there, records>>

Beside(something) == IF something THEN Trouble ELSE UNCHANGED trouble
Removing == script.doing = "uninstall" \/ past.uninstalled
StillRecorded == (past.recorded \ past.told) \cap there

-----------------------------------------------------------------------------
(* lazyvpn install *)

\* Over what an earlier installation left, or anew.
InstallStarts ==
  /\ script.doing = "nothing" /\ script' = [NoScript EXCEPT !.doing = "install"]
  /\ past' = [NoPast EXCEPT !.recorded = StillRecorded, !.lost = past.lost \ Loaded]
  /\ Beside(tui.open) /\ UNCHANGED <<there, records, agent, held, tui>>

\* Ctrl-C, a closed terminal or a power cut.
Interrupted ==
  /\ script.doing # "nothing" /\ Trouble /\ script' = NoScript
  /\ UNCHANGED <<there, records, agent, held, tui, past>>

\* A step does what it mostly does, or the user answers otherwise, it fails with
\* a warning or does not apply here.
Mostly(step, usual, other) ==
  /\ AtStep("install", step) /\ GoOn
  /\ \/ there' = usual /\ UNCHANGED trouble
     \/ there' = other /\ usual # other /\ Trouble
  /\ UNCHANGED <<records, agent, held, tui, past>>

Puts(a) == Mostly(a, there \cup {a}, there)

\* A new file replaces the binary, and has no capabilities; without it, nothing goes on.
InstallBinary ==
  /\ AtStep("install", "binary")
  /\ \/ there' = (there \ {"capabilities"}) \cup {"binary"} /\ GoOn /\ UNCHANGED trouble
     \/ Trouble /\ script' = NoScript /\ UNCHANGED there
  /\ UNCHANGED <<records, agent, held, tui, past>>

\* config.json is read, a broken one replaced by the defaults with a warning, and
\* the clone we are started from noted.
InstallConfigDir ==
  /\ AtStep("install", "configDir") /\ there' = there \cup {"configDir"}
  /\ script' = [Following(script) EXCEPT
                  !.knows = ({"clone"} \cap there) \cup Loaded]
  /\ UNCHANGED <<records, agent, held, tui, past, trouble>>

\* The installation ends when there can be no config.json.
InstallConfig ==
  /\ AtStep("install", "config")
  /\ \/ SaveWith(script.knows) /\ GoOn /\ UNCHANGED trouble
        /\ past' = [past EXCEPT !.recorded = @ \cup script.knows]
     \/ /\ Trouble /\ UNCHANGED <<there, records, past>>
        /\ IF "config" \in there THEN GoOn ELSE script' = NoScript
  /\ UNCHANGED <<agent, held, tui>>

\* A new name is saved with all the rest, the default is not.
InstallName ==
  /\ AtStep("install", "name") /\ GoOn
  /\ SaveWith(script.knows) \/ UNCHANGED <<there, records>>
  /\ UNCHANGED <<agent, held, tui, past, trouble>>

\* The sudoers file is written first and noted in config.json after it.
InstallSudoers ==
  /\ AtStep("install", "sudoers")
  /\ \/ there' = there \cup {"sudoers"} /\ UNCHANGED trouble
        /\ script' = [Following(script) EXCEPT !.knows = @ \cup {"sudoers"}]
     \/ Trouble /\ script' = Following(Following(script)) /\ UNCHANGED there
  /\ UNCHANGED <<records, agent, held, tui, past>>
RecordSudoers ==
  /\ AtStep("install", "record") /\ GoOn
  /\ \/ SaveWith(script.knows) /\ UNCHANGED trouble
        /\ past' = [past EXCEPT !.recorded = @ \cup script.knows]
     \/ Trouble /\ UNCHANGED <<there, records, past>>
  /\ UNCHANGED <<agent, held, tui>>

InstallCapabilities == Puts("capabilities")
InstallIPv6 == Puts("ipv6")
InstallStealth == Puts("rules")
InstallBindings == Puts("bindings")
InstallWaybar == Puts("waybar")
InstallLauncher == Puts("launcher")
InstallPath == Puts("path")

\* Only when the setting is on.
InstallAutostart == Mostly("autostart", there, there \cup {"autostart"})

\* What an earlier release did to the menu is undone, when it kept a backup.
InstallMenu == Mostly("menu", there \ {"menu"}, there)

\* At the end the clone may go.
InstallRemovesSource == Mostly("clone", there, there \ {"clone"})

\* lazyvpn update: capabilities are set anew, a failure to is not reported.
Update ==
  /\ "binary" \in there /\ script.doing = "nothing"
  /\ \/ there' = there \cup {"capabilities"} /\ UNCHANGED trouble
     \/ there' = there \ {"capabilities"} /\ Trouble
  /\ UNCHANGED <<records, agent, held, tui, script, past>>

-----------------------------------------------------------------------------
(* lazyvpn uninstall *)

\* From the command line, or by the TUI as it ends.  That config.json could not be
\* read is not looked at.
UninstallStarts ==
  /\ script.doing = "nothing"
  /\ script' = [NoScript EXCEPT !.doing = "uninstall",
                                !.knows = Loaded]
  /\ past' = [NoPast EXCEPT !.alone = ~tui.open, !.recorded = StillRecorded,
                            !.lost = past.lost \ Loaded]
  /\ Beside(tui.open) /\ UNCHANGED <<there, records, agent, held, tui>>

\* A is there no more, or the user wants to keep it or skips it, which the
\* summary tells, or a warning tells that it could not be removed.
Drops(a) ==
  /\ AtStep("uninstall", a) /\ GoOn
  /\ \/ there' = there \ {a} /\ UNCHANGED <<past, trouble>>
     \/ /\ a \in there /\ Trouble /\ UNCHANGED there
        /\ past' = [past EXCEPT !.told = @ \cup {a}]
  /\ UNCHANGED <<records, agent, held, tui>>

\* A stays and nobody hears of it.
Leaves(a) ==
  /\ AtStep("uninstall", a) /\ GoOn /\ a \in there /\ Trouble
  /\ UNCHANGED <<there, records, agent, held, tui, past>>

\* A daemon that has a PID file gets a SIGTERM, and ten seconds.
TerminateDaemon ==
  /\ \/ AtStep("uninstall", "daemon") \/ AtStep("uninstall", "tunnel")
  /\ "runtime" \in there /\ agent = "serving" /\ agent' = "leaving"
  /\ UNCHANGED <<there, records, held, tui, script, past, trouble>>
KillDaemon ==
  /\ \/ AtStep("uninstall", "daemon") \/ AtStep("uninstall", "tunnel")
  /\ "runtime" \in there /\ agent = "leaving" /\ Trouble /\ agent' = "none" /\ held' = {}
  /\ UNCHANGED <<there, records, tui, script, past>>
DaemonStopped == "runtime" \notin there \/ agent = "none"

\* Disconnect stops the daemon first.
UninstallDisconnects == DaemonStopped /\ Drops("tunnel")

\* Whether to delete the .conf files is asked early and done late.
AskForKeys ==
  /\ AtStep("uninstall", "ask")
  /\ \E keep \in IF "wireguard" \in there THEN BOOLEAN ELSE {FALSE} :
       script' = [Following(script) EXCEPT !.keepKeys = keep]
  /\ UNCHANGED <<there, records, agent, held, tui, past, trouble>>

\* Teardown only logs that rules were not deleted or UFW not turned off.
UninstallRules == Drops("rules") \/ Leaves("rules")
UninstallIPv6 == Drops("ipv6")

\* Mutant: the daemon is signalled and left to itself.
SignalDaemonOnly ==
  /\ AtStep("uninstall", "daemon") /\ GoOn
  /\ agent' = IF agent = "serving" THEN "leaving" ELSE agent
  /\ UNCHANGED <<there, records, held, tui, past, trouble>>

\* Without a PID file pkill looks for a daemon, which then has two seconds.
StopDaemon ==
  /\ AtStep("uninstall", "daemon") /\ DaemonStopped /\ GoOn
  /\ agent' = IF agent = "serving" THEN "leaving" ELSE agent
  /\ past' = [past EXCEPT !.alone = @ /\ agent = "none"]
  /\ UNCHANGED <<there, records, held, tui, trouble>>

UninstallAutostart == Drops("autostart")
UninstallLog == Drops("log")

\* Files of the user's own that cannot be read are passed over.
UninstallMenu == Drops("menu") \/ Leaves("menu")
UninstallBindings == Drops("bindings") \/ Leaves("bindings")
UninstallWaybar == Drops("waybar") \/ Leaves("waybar")
UninstallPath == Drops("path") \/ Leaves("path")

\* A directory without files is neither asked about nor removed.
UninstallShare == Drops("share") \/ Leaves("share")

\* Whether that succeeds is not looked at.
UninstallLauncher ==
  \/ /\ AtStep("uninstall", "launcher") /\ GoOn /\ there' = there \ {"launcher"}
     /\ UNCHANGED <<records, agent, held, tui, past, trouble>>
  \/ Leaves("launcher")

Unrecorded(a) ==
  /\ AtStep("uninstall", a) /\ a \notin script.knows /\ GoOn
  /\ UNCHANGED <<there, records, agent, held, tui, past, trouble>>
UninstallSudoers ==
  \/ Unrecorded("sudoers")
  \/ "sudoers" \in script.knows /\ Drops("sudoers")
UninstallClone ==
  \/ Unrecorded("clone")   \* which it says
  \/ "clone" \in script.knows /\ Drops("clone")

UninstallBinary ==
  /\ AtStep("uninstall", "binary") /\ GoOn
  /\ \/ there' = there \ {"binary", "capabilities"} /\ UNCHANGED <<past, trouble>>
     \/ /\ "binary" \in there /\ Trouble /\ UNCHANGED there
        /\ past' = [past EXCEPT !.told = @ \cup {"binary", "capabilities"}]
  /\ UNCHANGED <<records, agent, held, tui>>

\* Mutant: the daemon's files are left.
ConfigOnly == Drops("config")

\* config.json, and the files of a daemon that had to be killed.
UninstallConfig ==
  /\ AtStep("uninstall", "config") /\ GoOn
  /\ \/ there' = there \ {"config", "runtime"} /\ UNCHANGED <<past, trouble>>
     \/ \E a \in there \cap {"config", "runtime"} :
          /\ Trouble /\ there' = (there \ {"config", "runtime"}) \cup {a}
          /\ past' = [past EXCEPT !.told = @ \cup {a}]
  /\ UNCHANGED <<records, agent, held, tui>>

UninstallProviders == Drops("providers")
UninstallCache == Drops("cache")
UninstallKeys ==
  \/ ~script.keepKeys /\ Drops("wireguard")
  \/ /\ script.keepKeys /\ AtStep("uninstall", "wireguard") /\ GoOn
     /\ past' = [past EXCEPT !.told = @ \cup {"wireguard", "configDir"}]
     /\ UNCHANGED <<there, records, agent, held, tui, trouble>>

InConfigDir == {"config", "runtime", "log", "providers", "cache", "wireguard"}

\* The directory goes when it is empty, and nothing is said when it does not.
UninstallEnds ==
  /\ AtStep("uninstall", "configDir") /\ GoOn
  /\ \/ /\ there' = IF there \cap InConfigDir = {} THEN there \ {"configDir"} ELSE there
        /\ UNCHANGED trouble
     \/ "configDir" \in there /\ Trouble /\ UNCHANGED there
  /\ past' = [past EXCEPT !.uninstalled = TRUE,
                !.told = IF @ \cap InConfigDir = {} THEN @ ELSE @ \cup {"configDir"}]
  /\ UNCHANGED <<records, agent, held, tui>>

-----------------------------------------------------------------------------
(* The daemon and the TUI meanwhile. *)

\* Spawned by the TUI, the command line or at login, but not over a config.json it
\* cannot read; its PID file may be lost.
DaemonStarts ==
  /\ agent = "none" /\ {"binary", "configDir"} \subseteq there /\ ~Unreadable
  /\ agent' = "serving" /\ held' = Loaded /\ records' = Loaded
  /\ \/ there' = there \cup {"runtime", "tunnel", "config", "log"}
        /\ Beside(script.doing # "nothing")
     \/ there' = (there \ {"runtime"}) \cup {"tunnel", "config", "log"} /\ Trouble
  /\ past' = [past EXCEPT !.alone = @ /\ ~Removing]
  /\ UNCHANGED <<tui, script>>

\* SaveConnectionState patches config.json, a missing one from the defaults, and
\* replaces one it cannot read by its own copy.
FilePatched(without) ==
  /\ there' = (there \ without) \cup IF "configDir" \in there THEN {"config"} ELSE {}
  /\ records' = IF Unreadable THEN held ELSE Loaded

\* It does so after each connect, and reads the file anew before each recovery.
DaemonPatches ==
  /\ agent = "serving" /\ FilePatched({})
  /\ UNCHANGED <<agent, held, tui, script, past, trouble>>
DaemonReloads ==
  /\ agent = "serving" /\ ~Unreadable /\ held' = Loaded
  /\ UNCHANGED <<there, records, agent, tui, script, past, trouble>>

\* A connect that had read the killswitch's rules rebuilds them.
DaemonRebuilds ==
  /\ agent = "serving" /\ "rules" \notin there /\ AtStep("uninstall", "ipv6")
  /\ there' = there \cup {"rules"} /\ past' = [past EXCEPT !.alone = FALSE]
  /\ UNCHANGED <<records, agent, held, tui, script, trouble>>

\* ForceDisconnect does so as its last act; of its own accord too, when nobody
\* needs it any more.
DaemonLeaves ==
  /\ agent # "none" /\ agent' = "none" /\ held' = {}
  /\ FilePatched({"tunnel", "runtime"})
  /\ UNCHANGED <<tui, script, past, trouble>>

\* config.json breaks, and with it goes what was on record.
ConfigBreaks ==
  /\ "config" \in there /\ records # Broken /\ Trouble /\ records' = Broken
  /\ past' = [past EXCEPT !.lost = @ \cup past.recorded]
  /\ UNCHANGED <<there, agent, held, tui, script>>

\* The TUI goes by the defaults where it cannot read config.json, and reads it
\* again every second.
OpenTUI ==
  /\ ~tui.open /\ "binary" \in there /\ tui' = [open |-> TRUE, knows |-> Loaded]
  /\ past' = [past EXCEPT !.alone = @ /\ ~Removing]
  /\ Beside(script.doing # "nothing") /\ UNCHANGED <<there, records, agent, held, script>>
TUIReloads ==
  /\ tui.open /\ ~Unreadable /\ tui' = [tui EXCEPT !.knows = Loaded]
  /\ UNCHANGED <<there, records, agent, held, script, past, trouble>>

CloseTUI ==
  /\ tui.open /\ tui' = [open |-> FALSE, knows |-> {}]
  /\ UNCHANGED <<there, records, agent, held, script, past, trouble>>

\* The whole copy is saved; what it did not know of is on record no more.
TUISaves ==
  /\ tui.open /\ SaveWith(tui.knows)
  /\ past' = [past EXCEPT !.lost = @ \cup (past.recorded \ tui.knows)]
  /\ UNCHANGED <<agent, held, tui, script, trouble>>

\* A provider is set up, a server added, the autostart enabled.
TUIAdds ==
  /\ tui.open /\ script.doing = "nothing" /\ "configDir" \in there
  /\ there' = there \cup {"providers", "cache", "wireguard", "autostart"}
  /\ UNCHANGED <<records, agent, held, tui, script, past, trouble>>

LifecycleNext ==
  \/ InstallStarts \/ Interrupted \/ InstallBinary \/ InstallConfigDir \/ InstallConfig
  \/ InstallName \/ InstallSudoers \/ RecordSudoers \/ InstallCapabilities \/ InstallIPv6
  \/ InstallStealth \/ InstallBindings \/ InstallWaybar \/ InstallLauncher \/ InstallPath
  \/ InstallAutostart \/ InstallMenu \/ InstallRemovesSource \/ Update
  \/ UninstallStarts \/ TerminateDaemon \/ KillDaemon \/ UninstallDisconnects \/ AskForKeys
  \/ UninstallRules \/ UninstallIPv6 \/ StopDaemon \/ UninstallMenu \/ UninstallBindings
  \/ UninstallWaybar \/ UninstallPath \/ UninstallAutostart \/ UninstallLauncher
  \/ UninstallLog \/ UninstallSudoers \/ UninstallShare \/ UninstallClone \/ UninstallBinary
  \/ UninstallConfig \/ UninstallProviders \/ UninstallCache \/ UninstallKeys \/ UninstallEnds
  \/ DaemonStarts \/ DaemonPatches \/ DaemonReloads \/ DaemonRebuilds \/ DaemonLeaves
  \/ ConfigBreaks \/ OpenTUI \/ TUIReloads \/ CloseTUI \/ TUISaves \/ TUIAdds

-----------------------------------------------------------------------------

LifecycleTypeOK ==
  /\ there \subseteq Artifacts /\ records \in (SUBSET Recordable) \cup {Broken}
  /\ agent \in {"none", "serving", "leaving"} /\ held \subseteq Recordable
  /\ tui \in [open : BOOLEAN, knows : SUBSET Recordable]
  /\ script.doing \in {"nothing", "install", "uninstall"}
  /\ script.step \in 1 .. Len(UninstallSteps) /\ script.knows \subseteq Recordable
  /\ past.told \subseteq Artifacts /\ trouble \in 0 .. MaxTrouble

\* Nothing writes config.json again once an uninstall that was alone is over
\* (the daemon is waited for "which races Step 9's config.json delete").
ConfigStaysGone ==
  past.uninstalled /\ past.alone => "config" \notin there \/ "config" \in past.told

\* What the uninstaller may leave without a word: a tunnel the user keeps, its
\* firewall rules, entries in the user's own files, and empty directories.
Unheeded == {"tunnel", "rules", "menu", "bindings", "waybar", "path", "launcher",
             "share", "configDir"}

\* Of the rest - privileges, credentials, keys, the daemon's files, the binary -
\* nothing is left after such an uninstall that the user was not told of, but for
\* what config.json never recorded, or recorded and lost.
NothingLeftUntold ==
  past.uninstalled /\ past.alone =>
    there \subseteq past.told \cup Unheeded \cup (Recordable \ (past.recorded \ past.lost))

\* The sudoers file config.json told of is never forgotten while it is there,
\* wherever scripts are interrupted: the next uninstall finds it - unless a TUI
\* saved a copy older than the record over it, or the file broke (past.lost).
RecordOutlivesSudoers ==
  "sudoers" \in there \cap past.recorded =>
    "sudoers" \in past.told \cup past.lost \cup Loaded
=============================================================================
