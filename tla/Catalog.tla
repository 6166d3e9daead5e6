------------------------------ MODULE Catalog ------------------------------
(***************************************************************************)
(* The providers and their server lists: the files                         *)
(* providers/<name>.json (credentials), cache/servers_raw.json (every      *)
(* provider's list as downloaded) and cache/<name>_servers.json (one       *)
(* provider's usable servers), the setup wizard, the refresh of the        *)
(* settings view and the removal of providers.                             *)
(*                                                                         *)
(* The commands of the views run in goroutines of their own: a wizard's    *)
(* fetch, a refresh and a removal can all be under way at once, and each   *)
(* result lands on whatever view is shown when it arrives.                 *)
(***************************************************************************)
EXTENDS Integers

CONSTANTS Providers, NoProvider,
          MaxLists,     \* bound: editions of the lists published upstream
          MaxFetches    \* bound: credentials saved and refreshes started

ASSUME CatalogAssumption == NoProvider \notin Providers /\ {MaxLists, MaxFetches} \subseteq Nat \ {0}

VARIABLES
  creds,       \* providers whose credentials file exists
  raw,         \* edition of each provider's list in servers_raw.json, 0: none
  lists,       \* edition in each provider's own cache file, 0: no file
  edition,     \* edition the upstream repository serves
  wizard,      \* the view: "away", "removing", or the wizard's step
  chosen,      \* the provider the wizard was confirmed for
  fetch,       \* the fetch of the wizard and that of the settings view
  doomed,      \* providers the running removal has yet to delete
  erasing,     \* the one being deleted, its credentials gone
  stage,       \* what its deletion does next: "own", "look" or "raw"
  fetches,     \* how many credentials were saved and refreshes started
  excused,     \* providers a fetch was working for when they were deleted
  kept         \* providers whose own list could not be deleted, which the
               \* message "Removed n provider(s)" does not count

catalogVars == <<creds, raw, lists, edition, wizard, chosen, fetch,
                 doomed, erasing, stage, fetches, excused, kept>>

Fetches == {"setup", "refresh"}
Editions == 0..MaxLists
WizardSteps == {"away", "removing", "file", "overwrite", "saving", "complete", "error"}

NoLists == [p \in Providers |-> 0]
\* current: it knows what servers_raw.json holds - it could read the file when it
\* started and nobody has changed the file since.
IdleFetch == [at |-> "idle", seed |-> NoLists, todo |-> {}, current |-> TRUE]

CatalogTypeOK ==
  /\ creds \subseteq Providers
  /\ doomed \subseteq Providers /\ excused \subseteq Providers /\ kept \subseteq Providers
  /\ raw \in [Providers -> Editions] /\ lists \in [Providers -> Editions]
  /\ edition \in 1..MaxLists /\ fetches \in 0..MaxFetches
  /\ wizard \in WizardSteps
  /\ {chosen, erasing} \subseteq Providers \cup {NoProvider}
  /\ stage \in {"own", "look", "raw"} /\ (erasing = NoProvider => stage = "own")
  /\ fetch \in [Fetches -> [at : {"idle", "fetching", "listing", "filtering"},
                            seed : [Providers -> Editions],
                            todo : SUBSET (Providers \cup {NoProvider}),
                            current : BOOLEAN]]

CatalogInit ==
  /\ creds = {} /\ raw = NoLists /\ lists = NoLists
  /\ edition = 1 /\ wizard = "away" /\ chosen = NoProvider
  /\ fetch = [f \in Fetches |-> IdleFetch]
  /\ doomed = {} /\ erasing = NoProvider /\ stage = "own"
  /\ excused = {} /\ kept = {} /\ fetches = 0

filesOfServers == <<raw, lists>>
removalVars == <<doomed, erasing, stage>>
started == <<fetches, excused, kept>>

-----------------------------------------------------------------------------
(* The fetch (FetchServers, FilterProviderServers)                          *)

\* Mutant: the overlay starts from an empty map.
FreshSeed == NoLists

\* What the overlay starts from: the lists already cached, so that one
\* provider's failed download keeps the list it had.
SeedLists == raw

\* A file that is too large, or cannot be read or parsed, yields an empty map.
StartsFetch(f, todo) ==
  /\ fetch[f].at = "idle" /\ fetches < MaxFetches
  /\ fetches' = fetches + 1
  /\ \E readable \in BOOLEAN :
       fetch' = [fetch EXCEPT ![f] =
                   [at |-> "fetching", seed |-> IF readable THEN SeedLists ELSE NoLists,
                    todo |-> todo, current |-> readable]]

\* A fetch that ended badly: the wizard shows its error if it is the view.
FetchFails(f) ==
  /\ fetch' = [fetch EXCEPT ![f] = IdleFetch]
  /\ wizard' = IF f = "setup" /\ wizard \notin {"away", "removing"} THEN "error" ELSE wizard

\* No later write of servers_raw.json by this fetch knows of this change.
Overtaken(others) ==
  [f \in Fetches |-> IF f \in others THEN [fetch[f] EXCEPT !.current = FALSE] ELSE fetch[f]]

\* Every mapped provider is tried; those that answered replace their list,
\* the others keep the seed's, and the whole file is replaced in one rename.
WriteRaw(f, got) ==
  /\ fetch[f].at = "fetching" /\ got # {}
  /\ raw' = [p \in Providers |-> IF p \in got THEN edition ELSE fetch[f].seed[p]]
  /\ fetch' = [Overtaken(Fetches \ {f}) EXCEPT
                 ![f].at = IF f = "setup" THEN "filtering" ELSE "listing"]
  /\ UNCHANGED <<creds, lists, edition, wizard, chosen, removalVars, started>>

\* Nothing could be fetched: an existing file is good enough, otherwise the
\* first error is returned. Creating or renaming the file may fail as well.
FetchNothing(f) ==
  /\ fetch[f].at = "fetching"
  /\ \/ /\ raw # NoLists
        /\ fetch' = [fetch EXCEPT ![f].at = IF f = "setup" THEN "filtering" ELSE "listing"]
        /\ UNCHANGED wizard
     \/ FetchFails(f)
  /\ UNCHANGED <<creds, filesOfServers, edition, chosen, removalVars, started>>

\* The refresh filters for the providers configured when it got that far.
ListConfigured ==
  /\ fetch["refresh"].at = "listing"
  /\ fetch' = [fetch EXCEPT !["refresh"].at = "filtering", !["refresh"].todo = creds]
  /\ UNCHANGED <<creds, filesOfServers, edition, wizard, chosen, removalVars, started>>

\* A provider whose list is missing is an error; the refresh goes on to the
\* next one, the wizard shows it.
FilterOne(f, p) ==
  /\ fetch[f].at = "filtering" /\ p \in fetch[f].todo
  /\ \/ /\ p \in Providers /\ raw[p] # 0
        /\ lists' = [lists EXCEPT ![p] = raw[p]]
        /\ fetch' = [fetch EXCEPT ![f].todo = @ \ {p}]
        /\ UNCHANGED wizard
     \/ /\ UNCHANGED lists
        /\ IF f = "setup"
             THEN FetchFails(f)
             ELSE fetch' = [fetch EXCEPT ![f].todo = @ \ {p}] /\ UNCHANGED wizard
  /\ UNCHANGED <<creds, raw, edition, chosen, removalVars, started>>

FetchEnds(f) ==
  /\ fetch[f].at = "filtering" /\ fetch[f].todo = {}
  /\ fetch' = [fetch EXCEPT ![f] = IdleFetch]
  /\ UNCHANGED <<creds, filesOfServers, edition, wizard, chosen, removalVars, started>>

\* The settings row "Refresh server lists" (bound: one fetch of each kind at
\* a time; the row would start another).
RefreshServers ==
  /\ wizard = "away"
  /\ StartsFetch("refresh", {})
  /\ UNCHANGED <<creds, filesOfServers, edition, wizard, chosen, removalVars, excused, kept>>

-----------------------------------------------------------------------------
(* The setup wizard                                                         *)

OpenSetup ==
  /\ wizard = "away"
  /\ wizard' = "file" /\ chosen' = NoProvider
  /\ UNCHANGED <<creds, filesOfServers, edition, fetch, removalVars, started>>

\* The provider is detected from the file or picked; one that is configured
\* asks before it is overwritten.
ChooseFile(p) ==
  /\ wizard = "file"
  /\ chosen' = p
  /\ wizard' = IF p \in creds THEN "overwrite" ELSE "saving"
  /\ UNCHANGED <<creds, filesOfServers, edition, fetch, removalVars, started>>

AnswerOverwrite ==
  /\ wizard = "overwrite"
  /\ wizard' \in {"saving", "file"}
  /\ UNCHANGED <<creds, filesOfServers, edition, chosen, fetch, removalVars, started>>

\* The saved file stays when the fetch that follows it fails.
SaveCredentials ==
  /\ wizard = "saving"
  /\ \/ /\ creds' = creds \cup {chosen}
        /\ excused' = excused \ {chosen} /\ kept' = kept \ {chosen}
        /\ wizard' = "complete"
        /\ StartsFetch("setup", {chosen})
     \/ wizard' = "error" /\ UNCHANGED <<creds, started, fetch>>
  /\ UNCHANGED <<filesOfServers, edition, chosen, removalVars>>

\* Back from any step, or another view selected in the navigation pane while
\* the wizard's fetch is still running. A save under way ends by itself; its
\* result finds no wizard and starts no fetch.
LeaveView ==
  /\ wizard # "away"
  /\ wizard' = "away" /\ chosen' = NoProvider
  /\ \/ UNCHANGED <<creds, started>>
     \/ /\ wizard = "saving" /\ fetches < MaxFetches
        /\ creds' = creds \cup {chosen}
        /\ fetches' = fetches + 1
        /\ excused' = excused \ {chosen} /\ kept' = kept \ {chosen}
  /\ UNCHANGED <<filesOfServers, edition, fetch, removalVars>>

-----------------------------------------------------------------------------
(* Removal (RemoveProvider, DeleteProvider)                                  *)

\* The provider of the connected server, at most one, is skipped.
RemoveProviders(ps) ==
  /\ wizard = "away" /\ ps # {} /\ ps \subseteq creds /\ doomed = {} /\ erasing = NoProvider
  /\ wizard' = "removing" /\ doomed' = ps
  /\ UNCHANGED <<creds, filesOfServers, edition, chosen, fetch, erasing, stage, started>>

\* The credentials file goes first, overwritten if the filesystem allows it.
RemoveConf(p) ==
  /\ p \in doomed /\ erasing = NoProvider
  /\ creds' = creds \ {p} /\ doomed' = doomed \ {p} /\ erasing' = p
  /\ excused' = IF \E f \in Fetches : p \in fetch[f].todo THEN excused \cup {p} ELSE excused
  /\ UNCHANGED <<filesOfServers, edition, wizard, chosen, fetch, stage, fetches, kept>>

\* A file that cannot be deleted ends the removal of this provider.
RemoveConfFails(p) ==
  /\ p \in doomed /\ erasing = NoProvider
  /\ doomed' = doomed \ {p}
  /\ UNCHANGED <<creds, filesOfServers, edition, wizard, chosen, fetch, erasing, stage, started>>

\* Mutant: the deletion stops at the credentials.
KeptLists(p) == lists

ErasedLists(p) == [lists EXCEPT ![p] = 0]

\* Then the provider's own list; if it cannot be deleted the deletion ends with an
\* error, which nobody is shown.
RemoveLists ==
  /\ erasing # NoProvider /\ stage = "own"
  /\ \/ lists' = ErasedLists(erasing) /\ stage' = "look" /\ UNCHANGED <<erasing, kept>>
     \/ erasing' = NoProvider /\ kept' = kept \cup {erasing} /\ UNCHANGED <<lists, stage>>
  /\ UNCHANGED <<creds, raw, edition, wizard, chosen, fetch, doomed, fetches, excused>>

\* Then it looks whether any provider is left (it may fail to), and with none goes
\* on to the raw lists.
LookForOthers ==
  /\ erasing # NoProvider /\ stage = "look"
  /\ \/ creds = {} /\ stage' = "raw" /\ UNCHANGED erasing
     \/ stage' = "own" /\ erasing' = NoProvider
  /\ UNCHANGED <<creds, filesOfServers, edition, wizard, chosen, fetch, doomed, started>>

\* The wizard may have saved a provider since.
RemoveRawLists ==
  /\ erasing # NoProvider /\ stage = "raw" /\ stage' = "own" /\ erasing' = NoProvider
  /\ \/ raw' = NoLists /\ fetch' = Overtaken(Fetches)
     \/ UNCHANGED <<raw, fetch>>
  /\ UNCHANGED <<creds, lists, edition, wizard, chosen, doomed, started>>

-----------------------------------------------------------------------------
(* The user and the world                                                   *)

Publish ==
  /\ edition < MaxLists
  /\ edition' = edition + 1
  /\ UNCHANGED <<creds, filesOfServers, wizard, chosen, fetch, removalVars, started>>

CatalogNext ==
  \/ \E f \in Fetches :
       \/ \E got \in SUBSET Providers : WriteRaw(f, got)
       \/ FetchNothing(f) \/ FetchEnds(f)
       \/ \E p \in Providers \cup {NoProvider} : FilterOne(f, p)
  \/ ListConfigured \/ RefreshServers
  \/ OpenSetup \/ AnswerOverwrite \/ SaveCredentials \/ LeaveView
  \/ \E p \in Providers : ChooseFile(p) \/ RemoveConf(p) \/ RemoveConfFails(p)
  \/ \E ps \in SUBSET Providers : RemoveProviders(ps)
  \/ RemoveLists \/ LookForOthers \/ RemoveRawLists \/ Publish

CatalogSpec == CatalogInit /\ [][CatalogNext]_catalogVars

-----------------------------------------------------------------------------
(* Properties                                                               *)

\* A provider's list in servers_raw.json is never lost or set back to an
\* earlier edition, though downloads fail one by one, unless a deletion that had
\* found no provider left removes the file, or the fetch that writes does not know
\* what the file holds: it could not read it when it started, or another writer has
\* replaced or removed it since (two fetches do lose each other's lists: neither
\* looks at the file again before its rename).
RefreshKeepsLists ==
  [][\A p \in Providers : raw'[p] < raw[p] =>
       \/ stage = "raw" /\ raw' = NoLists
       \/ \E f \in Fetches :
            fetch[f].at = "fetching" /\ fetch'[f].at # "fetching" /\ ~fetch[f].current]_catalogVars

\* A provider that was counted as removed leaves no list of servers behind,
\* except when its deletion overlapped a fetch that was already working for it.
NoOrphanList ==
  \A p \in Providers : lists[p] # 0 => p \in creds \cup excused \cup kept \cup {erasing}

=============================================================================
