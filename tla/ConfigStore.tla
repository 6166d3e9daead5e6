---------------------------- MODULE ConfigStore ----------------------------
(***************************************************************************)
(* config.json (internal/config) and the copies of it that processes keep: *)
(* one in the daemon, shared by its main and its sleep/wake goroutine, and *)
(* one in every program with a user (the TUI, the command line).  The      *)
(* daemon owns the connection fields and patches only these into the file; *)
(* the others save their whole copy.  No lock spans two processes.         *)
(***************************************************************************)
EXTENDS Naturals

CONSTANTS ConfigServers, NoServer,   \* values of LastConnectedServer
          ConfigUsers,               \* processes that save their whole copy
          Prefs, DefaultPref         \* a preference

ASSUME ConfigAssumption ==
  /\ NoServer \notin ConfigServers /\ "daemon" \notin ConfigUsers
  /\ DefaultPref \in Prefs

VARIABLES cfgFile,   \* the file
          cfgMem,    \* each process's copy
          saver,     \* each daemon goroutine inside SaveConnectionState or Reload
          truth,     \* the connection the daemon last had or gave up
          foul       \* where others have put connection fields of their own

configVars == <<cfgFile, cfgMem, saver, truth, foul>>

Goroutines == {"main", "sleeper"}
Copies == {"daemon"} \cup ConfigUsers

\* server: LastConnectedServer and what it offers; session: ConnectedSince and
\* the session's addresses; pref: everything the user sets.
Fields == [server : ConfigServers \cup {NoServer}, session : BOOLEAN, pref : Prefs]

Defaults == [server |-> NoServer, session |-> FALSE, pref |-> DefaultPref]

\* A missing or an empty file means the defaults, a broken one an error; a
\* value that makes no sense is replaced.
Files == [form : {"missing", "bad", "json", "json with junk"}, holds : Fields]
Missing == [form |-> "missing", holds |-> Defaults]
Readable == cfgFile.form # "bad"
Load == IF cfgFile.form = "json with junk"
        THEN [cfgFile.holds EXCEPT !.pref = DefaultPref] ELSE cfgFile.holds

Written(c) == cfgFile' = [form |-> "json", holds |-> c]

\* Where a goroutine is, whether SetLastServerFeatures comes next, what it read
\* of the file (in a save: the preferences), whether that has changed since,
\* and whether it was in doubt (a save: unreadable; Reload: spoiled, or being saved).
NoSave == [at |-> "idle", features |-> FALSE, disk |-> Defaults, changed |-> FALSE, doubt |-> FALSE]
FileChanges == saver' = [g \in Goroutines |->
              [saver[g] EXCEPT !.changed = @ \/ saver[g].at = "patch"]]

ConfigInit ==
  /\ cfgFile = Missing /\ cfgMem = [p \in Copies |-> Defaults]
  /\ saver = [g \in Goroutines |-> NoSave]
  /\ truth = [server |-> NoServer, session |-> FALSE] /\ foul = {}

\* The daemon's mutex.
MuFree == \A g \in Goroutines : saver[g].at # "patch"

-----------------------------------------------------------------------------
(* The daemon. *)

SetConnection(g, server, session) ==
  /\ MuFree
  /\ cfgMem' = [cfgMem EXCEPT !["daemon"] =
                  [@ EXCEPT !.server = server, !.session = session]]
  /\ UNCHANGED cfgFile

Saves(g, features) ==
  saver' = [h \in Goroutines |->
              IF h = g THEN [NoSave EXCEPT !.at = "save", !.features = features]
              ELSE [saver[h] EXCEPT !.changed = saver[h].at = "reload"]]

\* The connection is verified.  When it was asked for (doConnect) rather than
\* recovered, SetLastServerFeatures follows, with a save of its own.
RecordConnectSuccess(s, features) ==
  /\ saver["main"].at = "idle" /\ SetConnection("main", s, TRUE) /\ Saves("main", features)
  /\ truth' = [server |-> s, session |-> TRUE] /\ foul' = foul \ {"daemon"}
SetLastServerFeatures ==
  /\ saver["main"].at = "features" /\ MuFree /\ Saves("main", FALSE)
  /\ UNCHANGED <<cfgFile, cfgMem, truth, foul>>

\* Mutant: every disconnect forgets the server.
ClearAlways(g, clearLastServer) ==
  /\ saver[g].at = "idle" /\ SetConnection(g, NoServer, FALSE) /\ Saves(g, FALSE)
  /\ truth' = [server |-> IF clearLastServer THEN NoServer ELSE truth.server, session |-> FALSE]
  /\ UNCHANGED foul

\* A disconnect the user asked for also clears the server; ForceDisconnect, on
\* suspend, in recovery and at the end of the daemon, keeps it.
ClearConnectionState(g, clearLastServer) ==
  LET c == cfgMem["daemon"]
      Kept(value) == IF clearLastServer THEN NoServer ELSE value IN
  /\ saver[g].at = "idle" /\ SetConnection(g, Kept(c.server), FALSE) /\ Saves(g, FALSE)
  /\ truth' = [server |-> Kept(truth.server), session |-> FALSE]
  /\ foul' = IF clearLastServer THEN foul \ {"daemon"} ELSE foul

\* SaveConnectionState takes the mutex again, and reads the file.
SaveLoads(g) ==
  /\ saver[g].at = "save" /\ MuFree
  /\ saver' = [saver EXCEPT ![g] =
       [@ EXCEPT !.at = "patch", !.doubt = ~Readable,
          !.disk.pref = (IF Readable THEN Load ELSE cfgMem["daemon"]).pref]]
  /\ UNCHANGED <<cfgFile, cfgMem, truth, foul>>

\* Mutant: the daemon writes its whole copy.
WholeCopy(disk) == cfgMem["daemon"]

\* The fields the daemon owns, over what the file said.
Patched(disk) ==
  LET c == cfgMem["daemon"] IN
  [disk EXCEPT !.server = c.server, !.session = c.session]

EndSave(g) ==
  saver' = [saver EXCEPT ![g] =
              IF saver[g].features THEN [NoSave EXCEPT !.at = "features"] ELSE NoSave]

\* A new file is renamed over the old one.
SaveRenames(g) ==
  /\ saver[g].at = "patch" /\ EndSave(g)
  /\ Written(Patched(saver[g].disk))
  /\ foul' = IF "daemon" \in foul THEN foul \cup {"file"} ELSE foul \ {"file"}
  /\ UNCHANGED <<cfgMem, truth>>

\* Any error before the rename removes the new file; callers only log it.
SaveFails(g) ==
  /\ saver[g].at = "patch" /\ EndSave(g)
  /\ foul' = foul \cup {"file"} /\ UNCHANGED <<cfgFile, cfgMem, truth>>

\* Reload (recovery) and ReloadUserPrefs (before a disconnect) read first and
\* lock then, and change nothing when the file is broken.
ReloadLoads(kind) ==
  /\ saver["main"].at = "idle" /\ Readable
  /\ saver' = [saver EXCEPT !["main"] = [NoSave EXCEPT !.at = kind, !.disk = Load,
                                              !.doubt = "file" \in foul \/ saver["sleeper"].at # "idle"]]
  /\ UNCHANGED <<cfgFile, cfgMem, truth, foul>>

ReloadSwaps ==
  LET job == saver["main"] IN
  /\ job.at \in {"reload", "prefs"} /\ MuFree /\ EndSave("main")
  /\ cfgMem' = [cfgMem EXCEPT !["daemon"] =
                  IF job.at = "reload" THEN job.disk ELSE [@ EXCEPT !.pref = job.disk.pref]]
  /\ foul' = IF job.at = "reload" /\ (job.doubt \/ job.changed) THEN foul \cup {"daemon"} ELSE foul
  /\ UNCHANGED <<cfgFile, truth>>

\* The daemon dies anywhere, and a new one loads the file.
DaemonRestarts ==
  /\ Readable
  /\ saver' = [g \in Goroutines |-> NoSave]
  /\ cfgMem' = [cfgMem EXCEPT !["daemon"] = Load]
  /\ truth' = [server |-> Load.server, session |-> Load.session] /\ foul' = {}
  /\ UNCHANGED cfgFile

-----------------------------------------------------------------------------
(* The others. *)

\* At the start, every second (StatusFooter), and when a view is restored.
UserReloads(u) ==
  /\ Readable /\ cfgMem' = [cfgMem EXCEPT ![u] = Load]
  /\ UNCHANGED <<cfgFile, saver, truth, foul>>

\* A STATUS event of the daemon names its server (Dashboard.applyDaemonEvent).
UserIsTold(u) ==
  /\ truth.server # NoServer
  /\ cfgMem' = [cfgMem EXCEPT ![u].server = truth.server]
  /\ UNCHANGED <<cfgFile, saver, truth, foul>>

\* A preference is changed and everything saved.  When saving fails the change
\* is taken back: nothing has happened.
UserSaves(u, p) ==
  LET c == [cfgMem[u] EXCEPT !.pref = p] IN
  /\ p # cfgMem[u].pref
  /\ cfgMem' = [cfgMem EXCEPT ![u] = c] /\ Written(c)
  /\ foul' = IF c.server = truth.server /\ c.session = truth.session THEN foul
             ELSE foul \cup {"file"}
  /\ FileChanges /\ UNCHANGED truth

\* The file is edited by hand, or damaged.
FileEdited ==
  /\ \E damage \in {"bad", "json with junk"} : cfgFile' = [cfgFile EXCEPT !.form = damage]
  /\ FileChanges /\ foul' = foul \cup {"file"} /\ UNCHANGED <<cfgMem, truth>>

ConfigNext ==
  \/ \E s \in ConfigServers, features \in BOOLEAN : RecordConnectSuccess(s, features)
  \/ SetLastServerFeatures
  \/ ClearConnectionState("main", TRUE)
  \/ \E g \in Goroutines :
       ClearConnectionState(g, FALSE) \/ SaveLoads(g) \/ SaveRenames(g) \/ SaveFails(g)
  \/ ReloadLoads("reload") \/ ReloadLoads("prefs") \/ ReloadSwaps
  \/ DaemonRestarts
  \/ \E u \in ConfigUsers : UserReloads(u) \/ UserIsTold(u)
  \/ \E u \in ConfigUsers, p \in Prefs : UserSaves(u, p)
  \/ FileEdited

ConfigTypeOK ==
  /\ cfgFile \in Files
  /\ cfgMem \in [Copies -> Fields]
  /\ \A g \in Goroutines : /\ saver[g].at \in {"idle", "save", "patch", "features", "reload", "prefs"}
                           /\ saver[g].disk \in Fields
                           /\ {saver[g].features, saver[g].changed, saver[g].doubt} \subseteq BOOLEAN
  /\ truth \in [server : ConfigServers \cup {NoServer}, session : BOOLEAN]
  /\ foul \subseteq {"file", "daemon"}

-----------------------------------------------------------------------------
(* Properties. *)

\* "User-preference fields on disk are preserved verbatim" (config.go:562):
\* the daemon's save keeps every preference it finds, edits made since it
\* loaded its own copy included, unless another save fell between its reading
\* the file and its renaming the new one, or the file was broken.
DaemonKeepsPrefs ==
  [][\A g \in Goroutines :
       (/\ saver[g].at = "patch" /\ saver'[g].at = "idle"
        /\ ~saver[g].changed /\ ~saver[g].doubt /\ saver'[g] # saver[g])
       => Load.pref = Load'.pref]_configVars

\* Whenever no save is under way, the file names the server the daemon last
\* connected to (the one a boot in mode last_used goes to) and tells whether
\* the session is over, whichever way main and sleep/wake goroutine ended it:
\* until another process saves its own copy, a save fails or dies with its daemon
\* (the next one goes by the file), the file is edited by hand, or a Reload that
\* overlaps a save brings the old fields back.
FileFollowsDaemon ==
  (\A g \in Goroutines : saver[g].at \notin {"save", "patch"}) /\ "file" \notin foul
    => Load.server = truth.server /\ Load.session = truth.session
=============================================================================
