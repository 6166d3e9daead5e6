------------------------- MODULE ConfigStore_proofs -------------------------
(***************************************************************************)
(* A save of the daemon keeps the preferences it finds on disk, and leaves *)
(* its connection there, for all servers, preferences and numbers of other *)
(* programs that save.                                                     *)
(***************************************************************************)
EXTENDS ConfigStore, TLAPS

FieldsShape(c) == c = [server |-> c.server, session |-> c.session, pref |-> c.pref]

SaverShape ==
  /\ saver = [g \in Goroutines |-> saver[g]]
  /\ \A g \in Goroutines :
       /\ saver[g] = [at |-> saver[g].at, features |-> saver[g].features, disk |-> saver[g].disk,
                      changed |-> saver[g].changed, doubt |-> saver[g].doubt]
       /\ FieldsShape(saver[g].disk)

\* The fields a record of the file or of a copy consists of.
RecordsShape ==
  /\ FieldsShape(cfgFile.holds)
  /\ cfgFile = [form |-> cfgFile.form, holds |-> cfgFile.holds]
  /\ cfgMem = [p \in Copies |-> cfgMem[p]]
  /\ \A p \in Copies : FieldsShape(cfgMem[p])

\* One goroutine at most has read the file and not yet written it, and what it
\* read is still what the file says unless it knows better.
PatchInv ==
  /\ \A g, h \in Goroutines : saver[g].at = "patch" /\ saver[h].at = "patch" => g = h
  /\ \A g \in Goroutines :
       saver[g].at = "patch" => saver[g].changed \/ saver[g].doubt \/ saver[g].disk.pref = Load.pref

ConfigInv == SaverShape /\ RecordsShape /\ PatchInv

\* What the file says once it is read has the fields of a record.
LEMMA LoadShape == RecordsShape => FieldsShape(Load)
BY DEF RecordsShape, Load, FieldsShape

\* The daemon's patch touches the connection fields and nothing else.
LEMMA PatchedKeeps ==
  ASSUME NEW d, FieldsShape(d)
  PROVE  FieldsShape(Patched(d)) /\ Patched(d).pref = d.pref
<1>1. PICK s, o : Patched(d) = [d EXCEPT !.server = s, !.session = o]
      BY Zenon DEF Patched
<1>2. PICK s1, o1, p1 : d = [server |-> s1, session |-> o1, pref |-> p1]
      BY DEF FieldsShape
<1> QED BY <1>1, <1>2 DEF FieldsShape

\* An idle goroutine's record has the fields of one.
LEMMA NoSaveShape ==
  /\ NoSave = [at |-> NoSave.at, features |-> NoSave.features, disk |-> NoSave.disk,
               changed |-> NoSave.changed, doubt |-> NoSave.doubt]
  /\ NoSave.at = "idle" /\ FieldsShape(NoSave.disk)
<1>1. PICK b : NoSave = [at |-> "idle", features |-> b, disk |-> Defaults, changed |-> b, doubt |-> b]
      BY Zenon DEF NoSave
<1>2. FieldsShape(Defaults)
  <2>1. PICK o : Defaults = [server |-> NoServer, session |-> o, pref |-> DefaultPref]
        BY Zenon DEF Defaults
  <2> QED BY <2>1 DEF FieldsShape
<1> QED BY <1>1, <1>2

\* What reading the file changes in a goroutine's record.
LEMMA RecordUpdate ==
  ASSUME NEW r, NEW d, NEW b,
         r = [at |-> r.at, features |-> r.features, disk |-> r.disk,
              changed |-> r.changed, doubt |-> r.doubt]
  PROVE  [r EXCEPT !.at = "patch", !.doubt = b, !.disk = d]
         = [at |-> "patch", features |-> r.features, disk |-> d, changed |-> r.changed, doubt |-> b]
<1> DEFINE S == [at : {"patch"}, features : {r.features}, disk : {d}, changed : {r.changed}, doubt : {b}]
<1>1. [r EXCEPT !.at = "patch", !.doubt = b, !.disk = d] \in S
      OBVIOUS
<1>2. \A q \in S : q = [at |-> "patch", features |-> r.features, disk |-> d,
                        changed |-> r.changed, doubt |-> b]
      OBVIOUS
<1> HIDE DEF S
<1> QED BY <1>1, <1>2

\* The file and the copies are only replaced by whole records.
LEMMA RecordsNext ==
  ASSUME ConfigInv, [ConfigNext]_configVars PROVE RecordsShape'
<1> USE DEF ConfigInv
<1>0. "daemon" \in Copies /\ ConfigUsers \subseteq Copies /\ "main" \in Goroutines
      BY DEF Copies, Goroutines
<1>1. CASE UNCHANGED <<cfgFile, cfgMem>>
      BY <1>1 DEF RecordsShape
<1>2. ASSUME NEW g \in Goroutines, NEW s, NEW o, SetConnection(g, s, o) PROVE RecordsShape'
      BY <1>0, <1>2 DEF SetConnection, RecordsShape, FieldsShape
<1>3. ASSUME NEW c, FieldsShape(c), Written(c), UNCHANGED cfgMem PROVE RecordsShape'
      BY <1>3 DEF Written, RecordsShape, FieldsShape
<1>4. ASSUME NEW g \in Goroutines, SaveRenames(g) PROVE RecordsShape'
  <2>1. FieldsShape(Patched(saver[g].disk))
        BY PatchedKeeps DEF SaverShape
  <2> QED BY <1>3, <1>4, <2>1 DEF SaveRenames
<1>5. CASE ReloadSwaps
  <2>1. PICK c : FieldsShape(c) /\ cfgMem' = [cfgMem EXCEPT !["daemon"] = c] /\ UNCHANGED cfgFile
    <3>1. CASE saver["main"].at = "reload"
          BY <1>0, <1>5, <3>1 DEF ReloadSwaps, SaverShape
    <3>2. CASE saver["main"].at # "reload"
      <4>1. FieldsShape([cfgMem["daemon"] EXCEPT !.pref = saver["main"].disk.pref])
            BY <1>0 DEF RecordsShape, FieldsShape
      <4> QED BY <1>5, <3>2, <4>1 DEF ReloadSwaps
    <3> QED BY <3>1, <3>2
  <2> QED BY <2>1 DEF RecordsShape
<1>6. CASE DaemonRestarts
      BY <1>6, LoadShape DEF DaemonRestarts, RecordsShape
<1>7. ASSUME NEW u \in ConfigUsers, UserReloads(u) PROVE RecordsShape'
      BY <1>7, LoadShape DEF UserReloads, RecordsShape
<1>8. ASSUME NEW u \in ConfigUsers, UserIsTold(u) PROVE RecordsShape'
      BY <1>0, <1>8 DEF UserIsTold, RecordsShape, FieldsShape
<1>9. ASSUME NEW u \in ConfigUsers, NEW p \in Prefs, UserSaves(u, p) PROVE RecordsShape'
  <2>1. FieldsShape([cfgMem[u] EXCEPT !.pref = p])
        BY <1>0 DEF RecordsShape, FieldsShape
  <2> DEFINE c == [cfgMem[u] EXCEPT !.pref = p]
  <2>2. cfgMem' = [cfgMem EXCEPT ![u] = c] /\ cfgFile' = [form |-> "json", holds |-> c]
        BY <1>9 DEF UserSaves, Written
  <2> HIDE DEF c
  <2> QED BY <2>1, <2>2 DEF RecordsShape, c
<1>10. CASE FileEdited
      BY <1>10 DEF FileEdited, RecordsShape
<1>11. ASSUME NEW g \in Goroutines, NEW l, ClearConnectionState(g, l) PROVE RecordsShape'
      BY <1>2, <1>11 DEF ClearConnectionState
<1>12. ASSUME NEW s, NEW l, RecordConnectSuccess(s, l) PROVE RecordsShape'
      BY <1>0, <1>2, <1>12 DEF RecordConnectSuccess
<1>13. ASSUME NEW g, NEW k, SetLastServerFeatures \/ SaveLoads(g) \/ SaveFails(g) \/ ReloadLoads(k)
                            \/ UNCHANGED configVars
       PROVE  UNCHANGED <<cfgFile, cfgMem>>
      BY <1>13 DEF SetLastServerFeatures, SaveLoads, SaveFails, ReloadLoads, configVars
<1> QED BY <1>0, <1>1, <1>4, <1>5, <1>6, <1>7, <1>8, <1>9, <1>10, <1>11, <1>12, <1>13 DEF ConfigNext

\* A goroutine that begins to save, or is done, is not between read and rename.
LEMMA SaverNext ==
  ASSUME ConfigInv, RecordsShape', [ConfigNext]_configVars PROVE SaverShape' /\ PatchInv'
<1> USE DEF ConfigInv
<1>0. "main" \in Goroutines /\ "sleeper" \in Goroutines
      BY DEF Goroutines
<1>1. CASE UNCHANGED <<cfgFile, saver>>
      BY <1>1 DEF SaverShape, PatchInv, Load
<1>2. ASSUME NEW g \in Goroutines, NEW f, Saves(g, f), MuFree PROVE SaverShape' /\ PatchInv'
  <2>1. saver'[g] = [NoSave EXCEPT !.at = "save", !.features = f]
        BY <1>2 DEF Saves
  <2>2. \A h \in Goroutines \ {g} : saver'[h] = [saver[h] EXCEPT !.changed = saver[h].at = "reload"]
        BY <1>2 DEF Saves
  <2>3. \A h \in Goroutines \ {g} :
          /\ saver'[h].at = saver[h].at /\ saver'[h].disk = saver[h].disk
          /\ saver'[h] = [at |-> saver'[h].at, features |-> saver'[h].features, disk |-> saver'[h].disk,
                          changed |-> saver'[h].changed, doubt |-> saver'[h].doubt]
    <3> SUFFICES ASSUME NEW h \in Goroutines \ {g}
                 PROVE /\ saver'[h].at = saver[h].at /\ saver'[h].disk = saver[h].disk
          /\ saver'[h] = [at |-> saver'[h].at, features |-> saver'[h].features, disk |-> saver'[h].disk,
                          changed |-> saver'[h].changed, doubt |-> saver'[h].doubt]
        OBVIOUS
    <3>1. PICK b : saver'[h] = [saver[h] EXCEPT !.changed = b]
          BY <2>2, Zenon
    <3> QED BY <3>1 DEF SaverShape
  <2>4. \A h \in Goroutines : saver'[h].at # "patch"
        BY <1>2, <2>1, <2>3 DEF MuFree, NoSave
  <2>5. saver' = [h \in Goroutines |-> saver'[h]]
    <3>1. PICK S : saver' = [h \in Goroutines |-> S[h]]
      <4> DEFINE S == [h \in Goroutines |->
              IF h = g THEN [NoSave EXCEPT !.at = "save", !.features = f]
              ELSE [saver[h] EXCEPT !.changed = saver[h].at = "reload"]]
      <4>1. saver' = S
            BY <1>2 DEF Saves
      <4>2. S = [h \in Goroutines |-> S[h]]
            BY Zenon
      <4> HIDE DEF S
      <4> QED BY <4>1, <4>2
    <3> QED BY <3>1
  <2>6. /\ saver'[g] = [at |-> saver'[g].at, features |-> saver'[g].features, disk |-> saver'[g].disk,
                        changed |-> saver'[g].changed, doubt |-> saver'[g].doubt]
        /\ FieldsShape(saver'[g].disk)
        BY <2>1, NoSaveShape
  <2> QED BY <2>3, <2>4, <2>5, <2>6 DEF SaverShape, PatchInv, FieldsShape
<1>3. ASSUME NEW g \in Goroutines, EndSave(g),
             saver[g].at = "patch" \/ UNCHANGED cfgFile
      PROVE  SaverShape' /\ PatchInv'
  <2>1. saver'[g].at \in {"idle", "features"}
        BY <1>3 DEF EndSave, NoSave, SaverShape
  <2>2. SaverShape' /\ \A h \in Goroutines \ {g} : saver'[h] = saver[h]
        BY <1>3 DEF EndSave, NoSave, Defaults, FieldsShape, SaverShape
  <2> QED BY <1>3, <2>1, <2>2 DEF PatchInv, Load
<1>4. ASSUME NEW g \in Goroutines, SaveLoads(g) PROVE SaverShape' /\ PatchInv'
  <2> DEFINE pref == (IF Readable THEN Load ELSE cfgMem["daemon"]).pref
  <2>1. saver' = [saver EXCEPT ![g] = [@ EXCEPT !.at = "patch", !.doubt = ~Readable, !.disk.pref = pref]]
        BY <1>4 DEF SaveLoads
  <2>2. PICK b : /\ saver' = [saver EXCEPT ![g] = [@ EXCEPT !.at = "patch", !.doubt = b, !.disk.pref = pref]]
                 /\ b <=> ~Readable
        BY <2>1, Zenon
  <2>3. Readable => pref = Load.pref
        OBVIOUS
  <2> HIDE DEF pref
  <2> DEFINE d == [saver[g].disk EXCEPT !.pref = pref]
  <2>4. FieldsShape(d) /\ d.pref = pref
    <3>1. PICK s1, o1, p1 : saver[g].disk = [server |-> s1, session |-> o1, pref |-> p1]
      <4>1. FieldsShape(saver[g].disk)
            BY DEF SaverShape
      <4> QED BY <4>1, Zenon DEF FieldsShape
    <3> QED BY <3>1 DEF FieldsShape
  <2>5. saver' = [saver EXCEPT ![g] = [saver[g] EXCEPT !.at = "patch", !.doubt = b, !.disk = d]]
        BY <2>2 DEF SaverShape
  <2> HIDE DEF d
  <2>6. [saver[g] EXCEPT !.at = "patch", !.doubt = b, !.disk = d]
          = [at |-> "patch", features |-> saver[g].features, disk |-> d,
             changed |-> saver[g].changed, doubt |-> b]
    <3>1. saver[g] = [at |-> saver[g].at, features |-> saver[g].features, disk |-> saver[g].disk,
                      changed |-> saver[g].changed, doubt |-> saver[g].doubt]
          BY DEF SaverShape
    <3> QED BY <3>1, RecordUpdate, Zenon
  <2>7. /\ saver' = [h \in Goroutines |-> saver'[h]]
         /\ saver'[g] = [at |-> "patch", features |-> saver[g].features, disk |-> d,
                         changed |-> saver[g].changed, doubt |-> b]
         /\ \A h \in Goroutines \ {g} : saver'[h] = saver[h]
        BY <2>5, <2>6 DEF SaverShape
  <2>8. SaverShape' /\ \A h \in Goroutines \ {g} : saver'[h] = saver[h]
        BY <2>4, <2>7 DEF SaverShape
  <2>9. saver'[g].at = "patch" /\ saver'[g].doubt = b /\ saver'[g].disk.pref = pref
        BY <2>4, <2>7
  <2>10. UNCHANGED cfgFile /\ \A h \in Goroutines : saver[h].at # "patch"
        BY <1>4 DEF SaveLoads, MuFree
  <2> QED BY <2>2, <2>3, <2>8, <2>9, <2>10 DEF PatchInv, Load
<1>5. CASE FileChanges
  <2>1. \A g \in Goroutines : \E b : saver'[g] = [saver[g] EXCEPT !.changed = b]
                                    /\ (saver[g].at = "patch" => b)
        BY <1>5, Zenon DEF FileChanges
  <2>2. \A g \in Goroutines :
          /\ saver'[g].at = saver[g].at /\ saver'[g].disk = saver[g].disk
          /\ saver[g].at = "patch" => saver'[g].changed
          /\ saver'[g] = [at |-> saver'[g].at, features |-> saver'[g].features, disk |-> saver'[g].disk,
                          changed |-> saver'[g].changed, doubt |-> saver'[g].doubt]
        BY <2>1 DEF SaverShape
  <2>3. saver' = [g \in Goroutines |-> saver'[g]]
    <3> DEFINE S == [g \in Goroutines |-> [saver[g] EXCEPT !.changed = @ \/ saver[g].at = "patch"]]
    <3>1. saver' = S
          BY <1>5 DEF FileChanges
    <3>2. S = [h \in Goroutines |-> S[h]]
          BY Zenon
    <3> HIDE DEF S
    <3> QED BY <3>1, <3>2
  <2> QED BY <2>2, <2>3 DEF SaverShape, PatchInv, FieldsShape
<1>6. ASSUME NEW k \in {"reload", "prefs"}, ReloadLoads(k) PROVE SaverShape' /\ PatchInv'
  <2> DEFINE b == "file" \in foul \/ saver["sleeper"].at # "idle"
  <2>1. saver' = [saver EXCEPT !["main"] = [NoSave EXCEPT !.at = k, !.disk = Load, !.doubt = b]]
        BY <1>6 DEF ReloadLoads
  <2> HIDE DEF b
  <2>2. FieldsShape(Load) /\ UNCHANGED cfgFile
        BY <1>6, LoadShape DEF ReloadLoads
  <2>3. saver'["main"].at = k /\ \A h \in Goroutines \ {"main"} : saver'[h] = saver[h]
        BY <1>0, <2>1 DEF NoSave, SaverShape
  <2>4. SaverShape'
        BY <1>0, <2>1, <2>2 DEF SaverShape, NoSave
  <2> QED BY <2>2, <2>3, <2>4 DEF PatchInv, Load
<1>7. CASE DaemonRestarts
  <2>1. \A g \in Goroutines : saver'[g] = NoSave
        BY <1>7 DEF DaemonRestarts
  <2>2. SaverShape' /\ \A g \in Goroutines : saver'[g].at # "patch"
        BY <1>7, <2>1 DEF DaemonRestarts, SaverShape, NoSave, Defaults, FieldsShape
  <2> QED BY <2>2 DEF PatchInv
<1>8. ASSUME NEW g \in Goroutines, SaveRenames(g) \/ SaveFails(g) PROVE SaverShape' /\ PatchInv'
      BY <1>3, <1>8 DEF SaveRenames, SaveFails
<1>9. CASE ReloadSwaps
      BY <1>0, <1>3, <1>9 DEF ReloadSwaps
<1>10. ASSUME NEW g \in Goroutines, NEW l, ClearConnectionState(g, l) PROVE SaverShape' /\ PatchInv'
      BY <1>2, <1>10 DEF ClearConnectionState, SetConnection
<1>11. ASSUME NEW s, NEW l, RecordConnectSuccess(s, l) PROVE SaverShape' /\ PatchInv'
      BY <1>0, <1>2, <1>11 DEF RecordConnectSuccess, SetConnection
<1>12. CASE SetLastServerFeatures
      BY <1>0, <1>2, <1>12 DEF SetLastServerFeatures
<1>13. ASSUME NEW u, NEW p, UserReloads(u) \/ UserIsTold(u) PROVE SaverShape' /\ PatchInv'
      BY <1>1, <1>13 DEF UserReloads, UserIsTold
<1>14. ASSUME NEW u, NEW p, UserSaves(u, p) \/ FileEdited PROVE SaverShape' /\ PatchInv'
      BY <1>5, <1>14 DEF UserSaves, FileEdited
<1>15. CASE UNCHANGED configVars
      BY <1>1, <1>15 DEF configVars
<1> QED BY <1>0, <1>4, <1>6, <1>7, <1>8, <1>9, <1>10, <1>11, <1>12, <1>13, <1>14, <1>15 DEF ConfigNext

\* A save ends with the preferences that were in the file.
LEMMA SaveKeeps ==
  ASSUME ConfigInv, [ConfigNext]_configVars, NEW g \in Goroutines,
         saver[g].at = "patch", saver'[g].at = "idle", ~saver[g].changed, ~saver[g].doubt
  PROVE  Load.pref = Load'.pref
<1> USE DEF ConfigInv
<1>1. CASE UNCHANGED cfgFile
      BY <1>1 DEF Load
<1>2. ASSUME NEW h \in Goroutines, SaveRenames(h) PROVE Load.pref = Load'.pref
  <2>1. h = g
        BY <1>2 DEF SaveRenames, PatchInv
  <2>2. cfgFile' = [form |-> "json", holds |-> Patched(saver[g].disk)]
        BY <1>2, <2>1 DEF SaveRenames, Written
  <2>3. Load'.pref = saver[g].disk.pref
        BY <2>2, PatchedKeeps DEF Load, SaverShape
  <2> QED BY <2>3 DEF PatchInv
<1>3. CASE FileChanges
  <2>1. \E b : saver'[g] = [saver[g] EXCEPT !.changed = b]
        BY <1>3, Zenon DEF FileChanges
  <2> QED BY <2>1 DEF SaverShape
<1>4. ASSUME NEW u, NEW p, UserSaves(u, p) \/ FileEdited PROVE Load.pref = Load'.pref
      BY <1>3, <1>4 DEF UserSaves, FileEdited
<1>5. ASSUME NEW h, NEW k, NEW s, NEW l,
             \/ RecordConnectSuccess(s, l) \/ SetLastServerFeatures \/ ClearConnectionState(h, l)
             \/ SaveLoads(h) \/ SaveFails(h) \/ ReloadLoads(k) \/ ReloadSwaps \/ DaemonRestarts
             \/ UserReloads(h) \/ UserIsTold(h) \/ UNCHANGED configVars
      PROVE  UNCHANGED cfgFile
      BY <1>5 DEF RecordConnectSuccess, SetLastServerFeatures, ClearConnectionState, SetConnection, SaveLoads,
                  SaveFails, ReloadLoads, ReloadSwaps, DaemonRestarts, UserReloads, UserIsTold, configVars
<1> QED BY <1>1, <1>2, <1>4, <1>5 DEF ConfigNext

\* The invariant holds when nothing has been written.
LEMMA ConfigStarts == ConfigInit => ConfigInv
<1> SUFFICES ASSUME ConfigInit PROVE ConfigInv
    OBVIOUS
<1>1. RecordsShape
      BY DEF ConfigInit, RecordsShape, FieldsShape, Missing, Defaults
<1>2. SaverShape /\ \A g \in Goroutines : saver[g].at = "idle"
      BY DEF ConfigInit, SaverShape, NoSave, FieldsShape, Defaults
<1> QED BY <1>1, <1>2 DEF ConfigInv, PatchInv

\* The daemon never overwrites a preference somebody else has saved, unless
\* the other save fell between its own read and rename.
THEOREM DaemonKeepsPrefsAlways == ConfigInit /\ [][ConfigNext]_configVars => DaemonKeepsPrefs
<1>1. ConfigInit => ConfigInv
      BY ConfigStarts
<1>2. ConfigInv /\ [ConfigNext]_configVars => ConfigInv'
      BY RecordsNext, SaverNext DEF ConfigInv
<1>3. ConfigInv /\ [ConfigNext]_configVars
      => [\A g \in Goroutines :
            (/\ saver[g].at = "patch" /\ saver'[g].at = "idle"
             /\ ~saver[g].changed /\ ~saver[g].doubt /\ saver'[g] # saver[g])
            => Load.pref = Load'.pref]_configVars
      BY SaveKeeps
<1> QED BY <1>1, <1>2, <1>3, PTL DEF DaemonKeepsPrefs

-----------------------------------------------------------------------------
(* The connection in the file. *)

Names(c) == c.server = truth.server /\ c.session = truth.session

\* Unless others put fields of theirs there, the daemon's copy and what a
\* Reload of it read name the connection; the file does when nobody saves.
FollowInv ==
  /\ truth = [server |-> truth.server, session |-> truth.session]
  /\ "daemon" \notin foul => Names(cfgMem["daemon"])
  /\ /\ saver["main"].at = "reload"
     /\ ~saver["main"].doubt /\ ~saver["main"].changed
     => Names(saver["main"].disk)
  /\ FileFollowsDaemon

FollowingInv == ConfigInv /\ FollowInv

\* A patched record has the daemon's connection.
LEMMA PatchedNames ==
  ASSUME NEW d, FieldsShape(d)
  PROVE  /\ Patched(d).server = cfgMem["daemon"].server
         /\ Patched(d).session = cfgMem["daemon"].session
<1>1. PICK s, o : /\ Patched(d) = [d EXCEPT !.server = s, !.session = o]
                  /\ s = cfgMem["daemon"].server /\ o = cfgMem["daemon"].session
      BY Zenon DEF Patched
<1>2. PICK s1, o1, p1 : d = [server |-> s1, session |-> o1, pref |-> p1]
      BY Zenon DEF FieldsShape
<1> QED BY <1>1, <1>2

\* A goroutine that sets the connection is about to save it, and a Reload
\* under way knows that it has changed.
LEMMA SettingFollows ==
  ASSUME FollowingInv, NEW g \in Goroutines, NEW f, NEW s, NEW o,
         SetConnection(g, s, o), Saves(g, f), saver[g].at = "idle",
         "daemon" \notin foul' => truth' = [server |-> s, session |-> o],
         truth' = [server |-> truth'.server, session |-> truth'.session]
  PROVE  FollowInv'
<1> USE DEF FollowingInv, ConfigInv
<1>1. saver'[g].at = "save"
      BY DEF Saves, NoSave
<1>2. cfgMem'["daemon"].server = s /\ cfgMem'["daemon"].session = o
  <2>1. PICK s1, o1, p1 : cfgMem["daemon"] = [server |-> s1, session |-> o1, pref |-> p1]
    <3>1. FieldsShape(cfgMem["daemon"])
          BY DEF RecordsShape, Copies
    <3> QED BY <3>1, Zenon DEF FieldsShape
  <2>2. cfgMem'["daemon"] = [cfgMem["daemon"] EXCEPT !.server = s, !.session = o]
        BY DEF SetConnection, RecordsShape, Copies
  <2> QED BY <2>1, <2>2
<1>3. ASSUME saver'["main"].at = "reload" PROVE saver'["main"].changed
  <2>1. g # "main"
        BY <1>1, <1>3
  <2>2. saver'["main"] = [saver["main"] EXCEPT !.changed = saver["main"].at = "reload"]
        BY <2>1 DEF Saves, Goroutines
  <2>3. PICK b : saver'["main"] = [saver["main"] EXCEPT !.changed = b] /\ (b <=> saver["main"].at = "reload")
        BY <2>2, Zenon
  <2>4. saver'["main"].at = saver["main"].at /\ saver'["main"].changed = b
        BY <2>3 DEF SaverShape, Goroutines
  <2> QED BY <1>3, <2>3, <2>4
<1>4. "daemon" \notin foul' => cfgMem'["daemon"].server = truth'.server /\ cfgMem'["daemon"].session = truth'.session
      BY <1>2
<1>5. FileFollowsDaemon'
      BY <1>1 DEF FileFollowsDaemon
<1> QED BY <1>3, <1>4, <1>5 DEF FollowInv, Names

\* Whatever leaves file, connection and daemon's copy alone leaves FollowInv,
\* if it starts or ends no save but through the daemon's own steps.
LEMMA StillFollows ==
  ASSUME FollowInv, UNCHANGED <<cfgFile, truth, foul>>, cfgMem'["daemon"] = cfgMem["daemon"],
         saver'["main"].at = "reload" => UNCHANGED saver["main"],
         \/ \A g \in Goroutines : saver[g].at \in {"save", "patch"} => saver'[g].at \in {"save", "patch"}
         \/ \E g \in Goroutines : saver'[g].at \in {"save", "patch"}
  PROVE  FollowInv'
BY DEF FollowInv, FileFollowsDaemon, Names, Load

\* Others' saves change no goroutine's place and no record it has read.
LEMMA ChangesKeep ==
  ASSUME SaverShape, FileChanges
  PROVE  \A g \in Goroutines :
           /\ saver'[g].at = saver[g].at /\ saver'[g].disk = saver[g].disk
           /\ saver'[g].doubt = saver[g].doubt
           /\ ~saver'[g].changed => ~saver[g].changed
<1> SUFFICES ASSUME NEW g \in Goroutines
             PROVE  /\ saver'[g].at = saver[g].at /\ saver'[g].disk = saver[g].disk
                    /\ saver'[g].doubt = saver[g].doubt
                    /\ ~saver'[g].changed => ~saver[g].changed
    OBVIOUS
<1>1. PICK b : saver'[g] = [saver[g] EXCEPT !.changed = b] /\ (~b => ~saver[g].changed)
      BY Zenon DEF FileChanges
<1> QED BY <1>1 DEF SaverShape

\* Every step keeps the connection where it has to be.
LEMMA FollowNext == ASSUME FollowingInv, ConfigInv', [ConfigNext]_configVars PROVE FollowInv'
<1> USE DEF FollowingInv, ConfigInv
<1>0. /\ "main" \in Goroutines /\ "sleeper" \in Goroutines /\ Goroutines = {"main", "sleeper"}
      /\ "daemon" \in Copies /\ ConfigUsers \subseteq Copies /\ "daemon" \notin ConfigUsers
      BY ConfigAssumption DEF Goroutines, Copies
<1>1. ASSUME NEW s, NEW f, RecordConnectSuccess(s, f) PROVE FollowInv'
  <2>1. PICK o : SetConnection("main", s, o) /\ truth' = [server |-> s, session |-> o]
        BY <1>1, Zenon DEF RecordConnectSuccess
  <2>2. truth' = [server |-> truth'.server, session |-> truth'.session]
        BY <2>1
  <2>3. Saves("main", f) /\ saver["main"].at = "idle"
        BY <1>1 DEF RecordConnectSuccess
  <2> QED BY <1>0, <2>1, <2>2, <2>3, SettingFollows
<1>2. ASSUME NEW g \in Goroutines, NEW l, ClearConnectionState(g, l) PROVE FollowInv'
  <2> DEFINE s == IF l THEN NoServer ELSE cfgMem["daemon"].server
             t == IF l THEN NoServer ELSE truth.server
  <2>1. PICK o : SetConnection(g, s, o) /\ truth' = [server |-> t, session |-> o]
        BY <1>2, Zenon DEF ClearConnectionState
  <2>2. "daemon" \notin foul' => s = t
        BY <1>2 DEF ClearConnectionState, FollowInv, Names
  <2>3. Saves(g, FALSE) /\ saver[g].at = "idle"
        BY <1>2 DEF ClearConnectionState
  <2> HIDE DEF s, t
  <2>4. truth' = [server |-> truth'.server, session |-> truth'.session]
        BY <2>1
  <2>5. "daemon" \notin foul' => truth' = [server |-> s, session |-> o]
        BY <2>1, <2>2
  <2> QED BY <2>1, <2>3, <2>4, <2>5, SettingFollows
<1>3. CASE SetLastServerFeatures
  <2>1. saver'["main"].at = "save"
        BY <1>0, <1>3 DEF SetLastServerFeatures, Saves, NoSave
  <2> QED BY <1>0, <1>3, <2>1, StillFollows DEF SetLastServerFeatures
<1>4. ASSUME NEW g \in Goroutines, SaveLoads(g) PROVE FollowInv'
  <2>1. saver'[g].at = "patch" /\ \A h \in Goroutines \ {g} : saver'[h] = saver[h]
    <3> DEFINE pref == (IF Readable THEN Load ELSE cfgMem["daemon"]).pref
    <3>1. PICK b : saver' = [saver EXCEPT ![g] = [@ EXCEPT !.at = "patch", !.doubt = b, !.disk.pref = pref]]
          BY <1>4, Zenon DEF SaveLoads
    <3> HIDE DEF pref
    <3>2. PICK d : saver' = [saver EXCEPT ![g] = [saver[g] EXCEPT !.at = "patch", !.doubt = b, !.disk = d]]
          BY <3>1 DEF SaverShape
    <3>3. [saver[g] EXCEPT !.at = "patch", !.doubt = b, !.disk = d].at = "patch"
          BY RecordUpdate DEF SaverShape
    <3> QED BY <3>2, <3>3 DEF SaverShape
  <2>2. saver'["main"].at = "reload" => UNCHANGED saver["main"]
        BY <1>0, <2>1
  <2> QED BY <1>4, <2>1, <2>2, StillFollows DEF SaveLoads
<1>5. ASSUME NEW g \in Goroutines, EndSave(g)
      PROVE  /\ saver'[g].at \in {"idle", "features"}
             /\ \A h \in Goroutines \ {g} : saver'[h] = saver[h]
      BY <1>5 DEF EndSave, NoSave, SaverShape
<1>6. ASSUME NEW g \in Goroutines, SaveRenames(g) PROVE FollowInv'
  <2>1. /\ saver'[g].at \in {"idle", "features"}
        /\ saver'["main"].at = "reload" => UNCHANGED saver["main"]
        BY <1>0, <1>5, <1>6 DEF SaveRenames
  <2> DEFINE c == Patched(saver[g].disk)
  <2>2. /\ c.server = cfgMem["daemon"].server /\ c.session = cfgMem["daemon"].session
        BY PatchedNames DEF SaverShape
  <2>3. cfgFile' = [form |-> "json", holds |-> c]
        BY <1>6 DEF SaveRenames, Written
  <2> HIDE DEF c
  <2>4. Load'.server = cfgMem["daemon"].server /\ Load'.session = cfgMem["daemon"].session
        BY <2>2, <2>3 DEF Load
  <2>5. /\ UNCHANGED <<cfgMem, truth>> /\ ("daemon" \in foul' <=> "daemon" \in foul)
        /\ "daemon" \in foul => "file" \in foul'
        BY <1>6 DEF SaveRenames
  <2> QED BY <2>1, <2>4, <2>5 DEF FollowInv, FileFollowsDaemon, Names
<1>7. ASSUME NEW g \in Goroutines, SaveFails(g) PROVE FollowInv'
  <2>1. saver'["main"].at = "reload" => UNCHANGED saver["main"]
        BY <1>0, <1>5, <1>7 DEF SaveFails
  <2>2. /\ UNCHANGED <<cfgMem, truth>> /\ ("daemon" \in foul' <=> "daemon" \in foul)
        /\ "file" \in foul'
        BY <1>7 DEF SaveFails
  <2> QED BY <2>1, <2>2 DEF FollowInv, FileFollowsDaemon, Names
<1>8. ASSUME NEW k \in {"reload", "prefs"}, ReloadLoads(k) PROVE FollowInv'
  <2>1. PICK b : /\ saver' = [saver EXCEPT !["main"] = [NoSave EXCEPT !.at = k, !.disk = Load, !.doubt = b]]
                 /\ b <=> ("file" \in foul \/ saver["sleeper"].at # "idle")
        BY <1>8, Zenon DEF ReloadLoads
  <2>2. /\ saver'["main"].at = k /\ saver'["main"].disk = Load /\ saver'["main"].doubt = b
        /\ \A h \in Goroutines \ {"main"} : saver'[h] = saver[h]
        BY <1>0, <2>1, NoSaveShape DEF SaverShape
  <2>3. UNCHANGED <<cfgFile, cfgMem, truth, foul>> /\ saver["main"].at = "idle"
        BY <1>8 DEF ReloadLoads
  <2>4. ~b => Names(Load)
        BY <1>0, <2>1, <2>3 DEF FollowInv, FileFollowsDaemon, Names
  <2>5. FileFollowsDaemon'
        BY <1>0, <2>2, <2>3 DEF FollowInv, FileFollowsDaemon, Load
  <2> QED BY <2>2, <2>3, <2>4, <2>5 DEF FollowInv, Names
<1>9. CASE ReloadSwaps
  <2>1. /\ saver'["main"].at \in {"idle", "features"} /\ saver["main"].at \notin {"save", "patch"}
        /\ \A h \in Goroutines \ {"main"} : saver'[h] = saver[h]
        BY <1>0, <1>5, <1>9 DEF ReloadSwaps
  <2>2. UNCHANGED <<cfgFile, truth>> /\ ("file" \in foul' <=> "file" \in foul)
        BY <1>9 DEF ReloadSwaps
  <2>3. "daemon" \notin foul' => Names(cfgMem'["daemon"])
    <3> SUFFICES ASSUME "daemon" \notin foul' PROVE Names(cfgMem'["daemon"])
        OBVIOUS
    <3>0. "daemon" \notin foul
          BY <1>9 DEF ReloadSwaps
    <3>1. CASE saver["main"].at = "reload"
      <4>1. cfgMem'["daemon"] = saver["main"].disk
            BY <1>0, <1>9, <3>1 DEF ReloadSwaps, RecordsShape
      <4>2. ~saver["main"].doubt /\ ~saver["main"].changed
            BY <1>9, <3>1 DEF ReloadSwaps
      <4> QED BY <3>1, <4>1, <4>2 DEF FollowInv
    <3>2. CASE saver["main"].at # "reload"
      <4>1. cfgMem'["daemon"] = [cfgMem["daemon"] EXCEPT !.pref = saver["main"].disk.pref]
            BY <1>0, <1>9, <3>2 DEF ReloadSwaps, RecordsShape
      <4>2. cfgMem'["daemon"].server = cfgMem["daemon"].server /\ cfgMem'["daemon"].session = cfgMem["daemon"].session
            BY <1>0, <4>1 DEF RecordsShape, FieldsShape
      <4> QED BY <3>0, <4>2 DEF FollowInv, Names
    <3> QED BY <3>1, <3>2
  <2>4. FileFollowsDaemon'
        BY <2>1, <2>2 DEF FollowInv, FileFollowsDaemon, Load
  <2> QED BY <2>1, <2>2, <2>3, <2>4 DEF FollowInv, Names
<1>10. CASE DaemonRestarts
  <2>1. PICK L : L = Load
        OBVIOUS
  <2>2. /\ truth' = [server |-> L.server, session |-> L.session] /\ cfgMem'["daemon"] = L /\ Load' = L
        /\ saver'["main"] = NoSave
        BY <1>0, <1>10, <2>1 DEF DaemonRestarts, RecordsShape, Load
  <2> QED BY <2>2, NoSaveShape DEF FollowInv, FileFollowsDaemon, Names
<1>11. ASSUME NEW u \in ConfigUsers, UserReloads(u) \/ UserIsTold(u) PROVE FollowInv'
  <2>1. cfgMem'["daemon"] = cfgMem["daemon"] /\ UNCHANGED <<cfgFile, saver, truth, foul>>
        BY <1>0, <1>11 DEF UserReloads, UserIsTold, RecordsShape
  <2> QED BY <2>1, StillFollows
<1>12. ASSUME FileChanges, cfgMem'["daemon"] = cfgMem["daemon"], UNCHANGED truth,
              "daemon" \in foul' <=> "daemon" \in foul,
              \/ "file" \in foul'
              \/ Names(Load)' \/ UNCHANGED <<cfgFile, foul>>
       PROVE  FollowInv'
  <2>1. FileFollowsDaemon'
        BY <1>12, ChangesKeep DEF FollowInv, FileFollowsDaemon, Names, Load
  <2> QED BY <1>0, <1>12, <2>1, ChangesKeep DEF FollowInv, Names
<1>13. ASSUME NEW u \in ConfigUsers, NEW p, UserSaves(u, p) PROVE FollowInv'
  <2> DEFINE c == [cfgMem[u] EXCEPT !.pref = p]
  <2>1. /\ cfgMem' = [cfgMem EXCEPT ![u] = c] /\ cfgFile' = [form |-> "json", holds |-> c]
        /\ FileChanges /\ UNCHANGED truth
        /\ \/ UNCHANGED foul /\ c.server = truth.server /\ c.session = truth.session
           \/ foul' = foul \cup {"file"}
        BY <1>13 DEF UserSaves, Written
  <2> HIDE DEF c
  <2>2. cfgMem'["daemon"] = cfgMem["daemon"] /\ Load' = c
        BY <1>0, <2>1 DEF RecordsShape, Load
  <2>3. "file" \in foul' \/ Names(Load)'
        BY <2>1, <2>2 DEF Names
  <2> QED BY <1>12, <2>1, <2>2, <2>3
<1>14. CASE FileEdited
      BY <1>12, <1>14 DEF FileEdited
<1>15. CASE UNCHANGED configVars
      BY <1>15, StillFollows DEF configVars
<1> QED BY <1>0, <1>1, <1>2, <1>3, <1>4, <1>6, <1>7, <1>8, <1>9, <1>10, <1>11, <1>13, <1>14, <1>15 DEF ConfigNext

\* With no save under way the file names the daemon's connection, unless
\* somebody else has put fields of theirs there.
THEOREM FileFollowsDaemonAlways == ConfigInit /\ [][ConfigNext]_configVars => []FileFollowsDaemon
<1>1. ConfigInit => FollowingInv
  <2> SUFFICES ASSUME ConfigInit PROVE FollowingInv
      OBVIOUS
  <2>1. PICK b : Defaults = [server |-> NoServer, session |-> b, pref |-> DefaultPref]
                 /\ truth = [server |-> NoServer, session |-> b]
        BY Zenon DEF ConfigInit, Defaults
  <2>2. Load = Defaults /\ cfgMem["daemon"] = Defaults /\ saver["main"] = NoSave
        BY DEF ConfigInit, Load, Missing, Copies, Goroutines
  <2>3. FollowInv
        BY <2>1, <2>2, NoSaveShape DEF FollowInv, FileFollowsDaemon, Names
  <2> QED BY <2>3, ConfigStarts DEF FollowingInv
<1>2. FollowingInv /\ [ConfigNext]_configVars => FollowingInv'
      BY RecordsNext, SaverNext, FollowNext DEF FollowingInv, ConfigInv
<1>3. FollowingInv => FileFollowsDaemon
      BY DEF FollowingInv, FollowInv
<1> QED BY <1>1, <1>2, <1>3, PTL

(* The types.  A goroutine's record is typed as a whole, so that a step    *)
(* that changes some of its fields can be followed.                        *)

Places == {"idle", "save", "patch", "features", "reload", "prefs"}
Savers == [at : Places, features : BOOLEAN, disk : Fields, changed : BOOLEAN, doubt : BOOLEAN]

ConfigShape ==
  /\ cfgFile \in Files /\ cfgMem \in [Copies -> Fields]
  /\ saver \in [Goroutines -> Savers]
  /\ truth \in [server : ConfigServers \cup {NoServer}, session : BOOLEAN]
  /\ foul \subseteq {"file", "daemon"}

\* Reading the file gives a record of fields.
LEMMA LoadTyped == ConfigShape => Load \in Fields
BY ConfigAssumption DEF ConfigShape, Load, Files, Fields

\* A goroutine that begins to save, to reload or to do nothing.
LEMMA FreshTyped ==
  ASSUME NEW k \in Places, NEW d \in Fields, NEW b \in BOOLEAN
  PROVE  /\ NoSave \in Savers /\ [NoSave EXCEPT !.at = k] \in Savers
         /\ [NoSave EXCEPT !.at = k, !.features = b] \in Savers
         /\ [NoSave EXCEPT !.at = k, !.disk = d, !.doubt = b] \in Savers
<1> DEFINE off == FALSE
<1>1. NoSave = [at |-> "idle", features |-> off, disk |-> Defaults, changed |-> off, doubt |-> off]
      BY DEF NoSave
<1>2. off \in BOOLEAN /\ Defaults \in Fields
      BY ConfigAssumption DEF Defaults, Fields
<1> HIDE DEF off
<1>3. NoSave \in Savers
      BY <1>1, <1>2 DEF Savers, Places
<1> QED BY <1>3 DEF Savers

\* What a step may change of a goroutine's record.
LEMMA SaverUpdate ==
  ASSUME NEW r \in Savers, NEW b \in BOOLEAN, NEW q \in Prefs
  PROVE  /\ [r EXCEPT !.changed = b] \in Savers
         /\ [r EXCEPT !.at = "patch", !.doubt = b, !.disk.pref = q] \in Savers
<1>1. [r EXCEPT !.changed = b] \in Savers
      BY DEF Savers
<1>2. [r.disk EXCEPT !.pref = q] \in Fields
      BY DEF Savers, Fields
<1>3. [r EXCEPT !.at = "patch", !.doubt = b, !.disk = [r.disk EXCEPT !.pref = q]] \in Savers
      BY <1>2 DEF Savers, Places
<1>4. [r EXCEPT !.at = "patch", !.doubt = b, !.disk.pref = q]
      = [r EXCEPT !.at = "patch", !.doubt = b, !.disk = [r.disk EXCEPT !.pref = q]]
      BY DEF Savers
<1> QED BY <1>1, <1>3, <1>4

\* The goroutines' records keep their type.
LEMMA SaverStaysTyped ==
  ASSUME ConfigShape, [ConfigNext]_configVars PROVE saver' \in [Goroutines -> Savers]
<1> USE DEF ConfigShape
<1>0. "main" \in Goroutines /\ "daemon" \in Copies
      BY DEF Goroutines, Copies
<1>1. ASSUME NEW g \in Goroutines, NEW f \in BOOLEAN, Saves(g, f) PROVE saver' \in [Goroutines -> Savers]
  <2> DEFINE S == [h \in Goroutines |-> IF h = g THEN [NoSave EXCEPT !.at = "save", !.features = f]
                                        ELSE [saver[h] EXCEPT !.changed = saver[h].at = "reload"]]
  <2>1. saver' = S
        BY <1>1 DEF Saves
  <2>2. \A h \in Goroutines : S[h] \in Savers
    <3> SUFFICES ASSUME NEW h \in Goroutines PROVE S[h] \in Savers
        OBVIOUS
    <3>1. CASE h = g
      <4>1. [NoSave EXCEPT !.at = "save", !.features = f] \in Savers
        <5>1. "save" \in Places /\ Defaults \in Fields
              BY ConfigAssumption DEF Places, Defaults, Fields
        <5> QED BY <5>1, FreshTyped
      <4> QED BY <3>1, <4>1
    <3>2. CASE h # g
      <4> DEFINE b == saver[h].at = "reload"
      <4>1. b \in BOOLEAN
            BY Zenon
      <4>2. S[h] = [saver[h] EXCEPT !.changed = b]
            BY <3>2, Zenon
      <4> HIDE DEF b, S
      <4>3. saver[h] \in Savers
            OBVIOUS
      <4>4. \E q : q \in Prefs
            BY ConfigAssumption
      <4>5. [saver[h] EXCEPT !.changed = b] \in Savers
            BY <4>1, <4>3, <4>4, SaverUpdate, Zenon
      <4> QED BY <4>2, <4>5, Zenon
    <3> QED BY <3>1, <3>2
  <2>3. S \in [Goroutines -> Savers]
        BY <2>2, Zenon
  <2> QED BY <2>1, <2>3, Zenon
<1>2. ASSUME NEW g \in Goroutines, EndSave(g) PROVE saver' \in [Goroutines -> Savers]
  <2>1. /\ NoSave \in Savers /\ [NoSave EXCEPT !.at = "features"] \in Savers
    <3>1. "features" \in Places /\ Defaults \in Fields /\ TRUE \in BOOLEAN
          BY ConfigAssumption DEF Places, Defaults, Fields
    <3> QED BY <3>1, FreshTyped
  <2> QED BY <1>2, <2>1 DEF EndSave
<1>3. ASSUME NEW g \in Goroutines, SaveLoads(g) PROVE saver' \in [Goroutines -> Savers]
  <2> DEFINE q == (IF Readable THEN Load ELSE cfgMem["daemon"]).pref
             b == ~Readable
  <2>1. saver' = [saver EXCEPT ![g] = [@ EXCEPT !.at = "patch", !.doubt = b, !.disk.pref = q]]
        BY <1>3 DEF SaveLoads
  <2>2. q \in Prefs
        BY <1>0, LoadTyped DEF Fields
  <2>3. b \in BOOLEAN
        BY Zenon
  <2> HIDE DEF q, b
  <2>4. saver[g] \in Savers
        OBVIOUS
  <2>5. [saver[g] EXCEPT !.at = "patch", !.doubt = b, !.disk.pref = q] \in Savers
        BY <2>2, <2>3, <2>4, SaverUpdate, Zenon
  <2> DEFINE r == [saver[g] EXCEPT !.at = "patch", !.doubt = b, !.disk.pref = q]
  <2>6. saver' = [saver EXCEPT ![g] = r]
        BY <2>1, Zenon
  <2> HIDE DEF r
  <2> QED BY <2>5, <2>6 DEF r
<1>4. CASE FileChanges
  <2> DEFINE S == [g \in Goroutines |-> [saver[g] EXCEPT !.changed = @ \/ saver[g].at = "patch"]]
  <2>1. saver' = S
        BY <1>4 DEF FileChanges
  <2>2. \A h \in Goroutines : S[h] \in Savers
    <3> SUFFICES ASSUME NEW h \in Goroutines PROVE S[h] \in Savers
        OBVIOUS
    <3> DEFINE b == saver[h].changed \/ saver[h].at = "patch"
    <3>1. b \in BOOLEAN
          BY Zenon
    <3>2. S[h] = [saver[h] EXCEPT !.changed = b]
          BY Zenon
    <3> HIDE DEF b, S
    <3>3. saver[h] \in Savers
          OBVIOUS
    <3>4. \E q : q \in Prefs
          BY ConfigAssumption
    <3>5. [saver[h] EXCEPT !.changed = b] \in Savers
          BY <3>1, <3>3, <3>4, SaverUpdate, Zenon
    <3> QED BY <3>2, <3>5, Zenon
  <2>3. S \in [Goroutines -> Savers]
        BY <2>2, Zenon
  <2> QED BY <2>1, <2>3, Zenon
<1>5. ASSUME NEW k \in {"reload", "prefs"}, ReloadLoads(k) PROVE saver' \in [Goroutines -> Savers]
  <2> DEFINE b == "file" \in foul \/ saver["sleeper"].at # "idle"
  <2>1. saver' = [saver EXCEPT !["main"] = [NoSave EXCEPT !.at = k, !.disk = Load, !.doubt = b]]
        BY <1>5 DEF ReloadLoads
  <2>2. b \in BOOLEAN
        BY Zenon
  <2> HIDE DEF b
  <2>3. Load \in Fields /\ k \in Places
        BY LoadTyped DEF Places
  <2>4. [NoSave EXCEPT !.at = k, !.disk = Load, !.doubt = b] \in Savers
        BY <2>2, <2>3, FreshTyped, Zenon
  <2> QED BY <1>0, <2>1, <2>4
<1>6. CASE DaemonRestarts
  <2>1. NoSave \in Savers
    <3>1. "save" \in Places /\ Defaults \in Fields /\ TRUE \in BOOLEAN
          BY ConfigAssumption DEF Places, Defaults, Fields
    <3> QED BY <3>1, FreshTyped
  <2> QED BY <1>6, <2>1 DEF DaemonRestarts
<1>7. ASSUME NEW g \in Goroutines, NEW l \in BOOLEAN, NEW s,
             \/ ClearConnectionState(g, l) \/ SaveRenames(g) \/ SaveFails(g)
             \/ RecordConnectSuccess(s, l) \/ SetLastServerFeatures \/ ReloadSwaps
      PROVE  saver' \in [Goroutines -> Savers]
  <2>1. \E h \in Goroutines, f \in BOOLEAN : Saves(h, f) \/ EndSave(h)
        BY <1>0, <1>7 DEF ClearConnectionState, SaveRenames, SaveFails, RecordConnectSuccess,
                          SetLastServerFeatures, ReloadSwaps
  <2> QED BY <1>1, <1>2, <2>1, Zenon
<1>8. ASSUME NEW u, NEW q, UserReloads(u) \/ UserIsTold(u) \/ UNCHANGED configVars
      PROVE  saver' \in [Goroutines -> Savers]
      BY <1>8 DEF UserReloads, UserIsTold, configVars
<1>9. ASSUME NEW u, NEW q, UserSaves(u, q) \/ FileEdited PROVE saver' \in [Goroutines -> Savers]
      BY <1>4, <1>9 DEF UserSaves, FileEdited
<1>10. TRUE \in BOOLEAN /\ FALSE \in BOOLEAN /\ "reload" \in {"reload", "prefs"}
       /\ "prefs" \in {"reload", "prefs"}
       OBVIOUS
<1>11. CASE UNCHANGED configVars
       BY <1>8, <1>11, Zenon
<1>12. CASE ConfigNext
       BY <1>0, <1>3, <1>5, <1>6, <1>7, <1>8, <1>9, <1>10, <1>12, Zenon DEF ConfigNext
<1> QED BY <1>11, <1>12

\* The file and the copies are written from records of fields only.
LEMMA RecordsStayTyped ==
  ASSUME ConfigShape, [ConfigNext]_configVars
  PROVE  cfgFile' \in Files /\ cfgMem' \in [Copies -> Fields]
<1> USE DEF ConfigShape
<1>0. "daemon" \in Copies /\ ConfigUsers \subseteq Copies /\ "main" \in Goroutines
      BY DEF Copies, Goroutines
<1> DEFINE Kept == cfgFile' \in Files /\ cfgMem' \in [Copies -> Fields]
<1>1. ASSUME UNCHANGED <<cfgFile, cfgMem>> PROVE Kept
      BY <1>1
<1>2. ASSUME NEW g, NEW s \in ConfigServers \cup {NoServer}, NEW o \in BOOLEAN, SetConnection(g, s, o)
      PROVE  Kept
  <2>1. [cfgMem["daemon"] EXCEPT !.server = s, !.session = o] \in Fields
        BY <1>0 DEF Fields
  <2> QED BY <1>0, <1>2, <2>1 DEF SetConnection
<1>3. ASSUME NEW c \in Fields, Written(c) PROVE cfgFile' \in Files
      BY <1>3 DEF Written, Files
<1>4. ASSUME NEW g \in Goroutines, SaveRenames(g) PROVE Kept
  <2>1. Patched(saver[g].disk) \in Fields
        BY <1>0 DEF Patched, Savers, Fields
  <2> QED BY <1>3, <1>4, <2>1 DEF SaveRenames
<1>5. ASSUME ReloadSwaps PROVE Kept
  <2>1. saver["main"].disk \in Fields
        BY <1>0 DEF Savers
  <2>2. [cfgMem["daemon"] EXCEPT !.pref = saver["main"].disk.pref] \in Fields
        BY <1>0, <2>1 DEF Fields
  <2> QED BY <1>0, <1>5, <2>1, <2>2 DEF ReloadSwaps
<1>6. ASSUME NEW u \in ConfigUsers, UserReloads(u) PROVE Kept
      BY <1>0, <1>6, LoadTyped DEF UserReloads
<1>7. ASSUME DaemonRestarts PROVE Kept
      BY <1>0, <1>7, LoadTyped DEF DaemonRestarts
<1>8. ASSUME NEW u \in ConfigUsers, UserIsTold(u) PROVE Kept
  <2>1. [cfgMem[u] EXCEPT !.server = truth.server] \in Fields
        BY <1>0 DEF Fields
  <2> QED BY <1>0, <1>8, <2>1 DEF UserIsTold
<1>9. ASSUME NEW u \in ConfigUsers, NEW q \in Prefs, UserSaves(u, q) PROVE Kept
  <2>1. [cfgMem[u] EXCEPT !.pref = q] \in Fields
        BY <1>0 DEF Fields
  <2> QED BY <1>0, <1>3, <1>9, <2>1 DEF UserSaves
<1>10. ASSUME FileEdited PROVE Kept
       BY <1>10 DEF FileEdited, Files
<1>11. ASSUME NEW g \in Goroutines, NEW l \in BOOLEAN, ClearConnectionState(g, l) PROVE Kept
  <2> DEFINE off == FALSE
             value == IF l THEN NoServer ELSE cfgMem["daemon"].server
  <2>1. SetConnection(g, value, off)
        BY <1>11 DEF ClearConnectionState
  <2>2. value \in ConfigServers \cup {NoServer} /\ off \in BOOLEAN
        BY <1>0 DEF Fields
  <2> HIDE DEF off, value, Kept
  <2> QED BY <1>2, <2>1, <2>2
<1>12. ASSUME NEW s \in ConfigServers, NEW l, RecordConnectSuccess(s, l) PROVE Kept
       BY <1>2, <1>12 DEF RecordConnectSuccess
<1>13. ASSUME NEW g, NEW k, SetLastServerFeatures \/ SaveLoads(g) \/ SaveFails(g) \/ ReloadLoads(k)
                            \/ UNCHANGED configVars
       PROVE  Kept
       BY <1>1, <1>13 DEF SetLastServerFeatures, SaveLoads, SaveFails, ReloadLoads, configVars
<1>14. TRUE \in BOOLEAN /\ FALSE \in BOOLEAN
       OBVIOUS
<1> HIDE DEF Kept
<1>15. ASSUME UNCHANGED configVars PROVE Kept
       BY <1>13, <1>15, Zenon
<1>16. ASSUME ConfigNext PROVE Kept
       BY <1>0, <1>4, <1>5, <1>6, <1>7, <1>8, <1>9, <1>10, <1>11, <1>12, <1>13, <1>14, <1>16, Zenon
       DEF ConfigNext
<1>17. Kept
       BY <1>15, <1>16
<1> QED BY <1>17 DEF Kept

\* Every variable keeps its type.
LEMMA ConfigShapeNext == ASSUME ConfigShape, [ConfigNext]_configVars PROVE ConfigShape'
<1> USE DEF ConfigShape
<1>0. ConfigServers \cup {NoServer} # {} /\ "main" \in Goroutines /\ "daemon" \in Copies
      BY DEF Goroutines, Copies
<1> DEFINE Truths == [server : ConfigServers \cup {NoServer}, session : BOOLEAN]
<1>1. truth' \in Truths
  <2>1. ASSUME NEW s \in ConfigServers, NEW l, RecordConnectSuccess(s, l) PROVE truth' \in Truths
        BY <2>1 DEF RecordConnectSuccess
  <2>2. ASSUME NEW g, NEW l \in BOOLEAN, ClearConnectionState(g, l) PROVE truth' \in Truths
        BY <2>2 DEF ClearConnectionState
  <2>3. ASSUME DaemonRestarts PROVE truth' \in Truths
        BY <2>3, LoadTyped DEF DaemonRestarts, Fields
  <2>4. ASSUME NEW g, NEW k, \/ SetLastServerFeatures \/ SaveLoads(g) \/ SaveRenames(g) \/ SaveFails(g)
                             \/ ReloadLoads(k) \/ ReloadSwaps \/ UserReloads(g) \/ UserIsTold(g)
                             \/ UserSaves(g, k) \/ FileEdited \/ UNCHANGED configVars
        PROVE  truth' \in Truths
        BY <2>4 DEF SetLastServerFeatures, SaveLoads, SaveRenames, SaveFails, ReloadLoads, ReloadSwaps,
                    UserReloads, UserIsTold, UserSaves, FileEdited, configVars
  <2>5. TRUE \in BOOLEAN /\ FALSE \in BOOLEAN
        OBVIOUS
  <2> HIDE DEF Truths
  <2> QED BY <2>1, <2>2, <2>3, <2>4, <2>5, Zenon DEF ConfigNext
<1>2. foul' \subseteq {"file", "daemon"}
  <2> USE DEF ConfigNext
  <2>1. ASSUME NEW g, NEW s, NEW l, RecordConnectSuccess(s, l) \/ ClearConnectionState(g, l) \/ DaemonRestarts
        PROVE  foul' \subseteq {"file", "daemon"}
        BY <2>1 DEF RecordConnectSuccess, ClearConnectionState, DaemonRestarts
  <2>2. ASSUME NEW g, NEW k, \/ SaveRenames(g) \/ SaveFails(g) \/ ReloadSwaps \/ UserSaves(g, k) \/ FileEdited
        PROVE  foul' \subseteq {"file", "daemon"}
        BY <2>2 DEF SaveRenames, SaveFails, ReloadSwaps, UserSaves, FileEdited
  <2>3. ASSUME NEW g, NEW k, \/ SetLastServerFeatures \/ SaveLoads(g) \/ ReloadLoads(k)
                             \/ UserReloads(g) \/ UserIsTold(g) \/ UNCHANGED configVars
        PROVE  foul' \subseteq {"file", "daemon"}
        BY <2>3 DEF SetLastServerFeatures, SaveLoads, ReloadLoads, UserReloads, UserIsTold, configVars
  <2> QED BY <2>1, <2>2, <2>3, Zenon
<1> QED BY <1>1, <1>2, SaverStaysTyped, RecordsStayTyped

\* The file, the copies, the goroutines that save and what the daemon last had
\* keep to their types, for any number of other programs.
THEOREM ConfigTypeCorrect == ConfigInit /\ [][ConfigNext]_configVars => []ConfigTypeOK
<1>1. ConfigInit => ConfigShape
  <2> SUFFICES ASSUME ConfigInit PROVE ConfigShape
      OBVIOUS
  <2>1. Defaults \in Fields
        BY ConfigAssumption DEF Defaults, Fields
  <2>2. Missing \in Files
        BY <2>1 DEF Missing, Files
  <2>3. NoSave \in Savers
    <3>1. "save" \in Places /\ TRUE \in BOOLEAN
          BY DEF Places
    <3> QED BY <2>1, <3>1, FreshTyped
  <2>4. truth \in [server : ConfigServers \cup {NoServer}, session : BOOLEAN]
        BY DEF ConfigInit
  <2> QED BY <2>1, <2>2, <2>3, <2>4 DEF ConfigInit, ConfigShape
<1>2. ConfigShape /\ [ConfigNext]_configVars => ConfigShape'
      BY ConfigShapeNext
<1>3. ConfigShape => ConfigTypeOK
      BY DEF ConfigShape, ConfigTypeOK, Savers, Places
<1> QED BY <1>1, <1>2, <1>3, PTL

=============================================================================
