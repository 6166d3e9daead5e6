--------------------------- MODULE Catalog_proofs ---------------------------
(***************************************************************************)
(* What deletions and fetches of server lists leave behind, for any number *)
(* of providers, editions and fetches.                                     *)
(***************************************************************************)
EXTENDS Catalog, TLAPS

JobShape(j) == j = [at |-> j.at, seed |-> j.seed, todo |-> j.todo, current |-> j.current]

FetchShape ==
  /\ fetch = [f \in Fetches |-> fetch[f]]
  /\ \A f \in Fetches : JobShape(fetch[f])

-----------------------------------------------------------------------------
(* Deletion *)

\* A provider a fetch still has to filter is configured, or was deleted under it;
\* one that is being deleted has no list any more once that step is done.
OrphanInv ==
  /\ FetchShape
  /\ lists = [p \in Providers |-> lists[p]]
  /\ \A f \in Fetches, p \in Providers : p \in fetch[f].todo => p \in creds \cup excused
  /\ erasing = NoProvider => stage = "own"
  /\ \A p \in Providers :
       lists[p] # 0 => p \in creds \cup excused \cup kept \/ (p = erasing /\ stage = "own")

\* An idle fetch has nothing to do.
LEMMA IdleShape == JobShape(IdleFetch) /\ IdleFetch.at = "idle" /\ IdleFetch.todo = {}
<1>1. PICK b : IdleFetch = [at |-> "idle", seed |-> NoLists, todo |-> {}, current |-> b]
      BY Zenon DEF IdleFetch
<1> QED BY <1>1 DEF JobShape

\* Only the field "current" of the others is touched.
LEMMA OvertakenShape ==
  ASSUME FetchShape, NEW others
  PROVE  /\ Overtaken(others) = [f \in Fetches |-> Overtaken(others)[f]]
         /\ \A f \in Fetches :
              LET j == Overtaken(others)[f] IN
              /\ JobShape(j) /\ j.at = fetch[f].at /\ j.seed = fetch[f].seed /\ j.todo = fetch[f].todo
              /\ f \in others => j.current = FALSE
              /\ f \notin others => j = fetch[f]
<1> DEFINE O == Overtaken(others)
<1>1. O = [f \in Fetches |-> O[f]]
      BY Zenon DEF Overtaken
<1>2. ASSUME NEW f \in Fetches, f \notin others PROVE O[f] = fetch[f]
      BY <1>2 DEF Overtaken
<1>3. ASSUME NEW f \in Fetches, f \in others
      PROVE  /\ JobShape(O[f]) /\ O[f].at = fetch[f].at /\ O[f].seed = fetch[f].seed
             /\ O[f].todo = fetch[f].todo /\ O[f].current = FALSE
  <2>1. PICK b : O[f] = [fetch[f] EXCEPT !.current = b] /\ b = FALSE
        BY <1>3, Zenon DEF Overtaken
  <2>2. JobShape(fetch[f])
        BY DEF FetchShape
  <2> QED BY <2>1, <2>2 DEF JobShape
<1> HIDE DEF O
<1>4. \A f \in Fetches : JobShape(fetch[f])
      BY DEF FetchShape
<1> QED BY <1>1, <1>2, <1>3, <1>4 DEF O

\* A started fetch joins the others, which stay as they are.
LEMMA StartNext ==
  ASSUME FetchShape, NEW f \in Fetches, NEW T, StartsFetch(f, T)
  PROVE  /\ FetchShape' /\ fetch'[f].todo = T /\ fetch'[f].at = "fetching"
         /\ \/ fetch'[f].seed = SeedLists
            \/ fetch'[f].seed = NoLists /\ fetch'[f].current = FALSE
         /\ \A h \in Fetches \ {f} : fetch'[h] = fetch[h]
<1>1. PICK r \in BOOLEAN :
        fetch' = [fetch EXCEPT ![f] = [at |-> "fetching", seed |-> IF r THEN SeedLists ELSE NoLists,
                                       todo |-> T, current |-> r]]
      BY Zenon DEF StartsFetch
<1>2. PICK S, b : /\ fetch' = [fetch EXCEPT ![f] = [at |-> "fetching", seed |-> S, todo |-> T,
                                                     current |-> b]]
                  /\ S = SeedLists \/ (S = NoLists /\ b = FALSE)
  <2>1. CASE r
        BY <1>1, <2>1, Zenon
  <2>2. CASE ~r
    <3>1. r = FALSE
          BY <2>2
    <3> QED BY <1>1, <2>2, <3>1, Zenon
  <2> QED BY <2>1, <2>2
<1> DEFINE j == [at |-> "fetching", seed |-> S, todo |-> T, current |-> b]
<1>3. /\ JobShape(j) /\ j.at = "fetching" /\ j.seed = S /\ j.todo = T /\ j.current = b
      BY DEF JobShape
<1>4. fetch' = [fetch EXCEPT ![f] = j]
      BY <1>2
<1> HIDE DEF j
<1> QED BY <1>2, <1>3, <1>4 DEF FetchShape

\* A fetch that fails or ends is idle, the others stay as they are.
LEMMA IdleNext ==
  ASSUME FetchShape, NEW f \in Fetches, fetch' = [fetch EXCEPT ![f] = IdleFetch]
  PROVE  /\ FetchShape' /\ fetch'[f] = IdleFetch
         /\ \A h \in Fetches \ {f} : fetch'[h] = fetch[h]
BY IdleShape DEF FetchShape

\* A fetch that goes on changes its place only.
LEMMA GoesOn ==
  ASSUME FetchShape, NEW f \in Fetches, NEW a, fetch' = [fetch EXCEPT ![f].at = a]
  PROVE  /\ FetchShape' /\ fetch'[f].at = a /\ fetch'[f].todo = fetch[f].todo
         /\ \A h \in Fetches \ {f} : fetch'[h] = fetch[h]
<1>1. JobShape(fetch[f])
      BY DEF FetchShape
<1> QED BY <1>1 DEF FetchShape, JobShape

\* One that has filtered a list has less to do.
LEMMA DoesLess ==
  ASSUME FetchShape, NEW f \in Fetches, NEW T, fetch' = [fetch EXCEPT ![f].todo = T]
  PROVE  /\ FetchShape' /\ fetch'[f].todo = T
         /\ \A h \in Fetches : /\ fetch'[h].at = fetch[h].at /\ fetch'[h].seed = fetch[h].seed
                               /\ fetch'[h].current = fetch[h].current
         /\ \A h \in Fetches \ {f} : fetch'[h] = fetch[h]
<1>1. JobShape(fetch[f])
      BY DEF FetchShape
<1> QED BY <1>1 DEF FetchShape, JobShape

\* The refresh, once it has its lists, filters for some providers.
LEMMA Lists ==
  ASSUME FetchShape, NEW f \in Fetches, NEW T,
         fetch' = [fetch EXCEPT ![f].at = "filtering", ![f].todo = T]
  PROVE  /\ FetchShape' /\ fetch'[f].at = "filtering" /\ fetch'[f].todo = T
         /\ \A h \in Fetches \ {f} : fetch'[h] = fetch[h]
<1>1. JobShape(fetch[f])
      BY DEF FetchShape
<1> QED BY <1>1 DEF FetchShape, JobShape

\* The raw file is written by one fetch, which then filters.
LEMMA WriteShape ==
  ASSUME FetchShape, NEW f \in Fetches, NEW got, WriteRaw(f, got)
  PROVE  /\ FetchShape'
         /\ \A h \in Fetches : fetch'[h].todo = fetch[h].todo
         /\ fetch'[f].at # "fetching"
         /\ \A h \in Fetches \ {f} : fetch'[h].at = fetch[h].at /\ fetch'[h].current = FALSE
<1> DEFINE O == Overtaken(Fetches \ {f})
           a == IF f = "setup" THEN "filtering" ELSE "listing"
<1>1. /\ O = [h \in Fetches |-> O[h]]
      /\ \A h \in Fetches : /\ JobShape(O[h]) /\ O[h].at = fetch[h].at /\ O[h].todo = fetch[h].todo
                            /\ h # f => O[h].current = FALSE
      BY OvertakenShape
<1>2. fetch' = [O EXCEPT ![f].at = a]
      BY DEF WriteRaw
<1>3. a # "fetching"
      OBVIOUS
<1> HIDE DEF O, a
<1>4. /\ fetch' = [h \in Fetches |-> fetch'[h]]
      /\ fetch'[f] = [O[f] EXCEPT !.at = a]
      /\ \A h \in Fetches \ {f} : fetch'[h] = O[h]
      BY <1>1, <1>2
<1>5. JobShape(fetch'[f]) /\ fetch'[f].at = a /\ fetch'[f].todo = O[f].todo
      BY <1>1, <1>4 DEF JobShape
<1>6. FetchShape'
      BY <1>1, <1>4, <1>5 DEF FetchShape
<1> QED BY <1>1, <1>3, <1>4, <1>5, <1>6

\* No step leaves a list without its provider.
LEMMA OrphanNext == OrphanInv /\ [CatalogNext]_catalogVars => OrphanInv'
<1> SUFFICES ASSUME OrphanInv, [CatalogNext]_catalogVars PROVE OrphanInv'
    OBVIOUS
<1>0. NoProvider \notin Providers /\ "refresh" \in Fetches /\ "setup" \in Fetches
      BY CatalogAssumption DEF Fetches
<1> USE DEF OrphanInv, removalVars, filesOfServers, started
<1>1. CASE UNCHANGED <<fetch, lists, creds, excused, kept, erasing, stage>>
      BY <1>1 DEF FetchShape, JobShape
<1>2. ASSUME NEW f \in Fetches, NEW got, WriteRaw(f, got) PROVE OrphanInv'
  <2>1. FetchShape' /\ \A h \in Fetches : fetch'[h].todo = fetch[h].todo
        BY <1>2, WriteShape
  <2> QED BY <1>2, <2>1 DEF WriteRaw
<1>3. ASSUME NEW f \in Fetches, fetch' = [fetch EXCEPT ![f] = IdleFetch],
             UNCHANGED <<lists, creds, excused, kept, erasing, stage>>
      PROVE  OrphanInv'
  <2>1. FetchShape' /\ \A h \in Fetches : fetch'[h].todo \in {{}, fetch[h].todo}
        BY <1>3, IdleNext, IdleShape
  <2> QED BY <1>3, <2>1
<1>4. ASSUME NEW f \in Fetches, FetchNothing(f) PROVE OrphanInv'
  <2>1. CASE FetchFails(f)
        BY <1>3, <1>4, <2>1 DEF FetchNothing, FetchFails
  <2>2. CASE ~FetchFails(f)
    <3> DEFINE a == IF f = "setup" THEN "filtering" ELSE "listing"
    <3>1. fetch' = [fetch EXCEPT ![f].at = a]
          BY <1>4, <2>2 DEF FetchNothing
    <3> HIDE DEF a
    <3>2. FetchShape' /\ \A h \in Fetches : fetch'[h].todo = fetch[h].todo
          BY <3>1, GoesOn
    <3> QED BY <1>4, <3>2 DEF FetchNothing
  <2> QED BY <2>1, <2>2
<1>5. ASSUME NEW f \in Fetches, FetchEnds(f) PROVE OrphanInv'
      BY <1>3, <1>5 DEF FetchEnds
<1>6. ASSUME NEW f \in Fetches, NEW p, FilterOne(f, p) PROVE OrphanInv'
  <2>1. CASE fetch' = [fetch EXCEPT ![f].todo = @ \ {p}]
    <3> DEFINE T == fetch[f].todo \ {p}
    <3>0. fetch' = [fetch EXCEPT ![f].todo = T] /\ T \subseteq fetch[f].todo
          BY <2>1
    <3> HIDE DEF T
    <3>1. /\ FetchShape'
          /\ \A h \in Fetches : fetch'[h].todo \subseteq fetch[h].todo
          BY <3>0, DoesLess
    <3>2. \/ UNCHANGED lists
          \/ p \in Providers /\ lists' = [lists EXCEPT ![p] = raw[p]]
          BY <1>6 DEF FilterOne
    <3>3. UNCHANGED <<creds, excused, kept, erasing, stage>> /\ p \in fetch[f].todo
          BY <1>6 DEF FilterOne
    <3>4. lists' = [q \in Providers |-> lists'[q]] /\ \A q \in Providers : lists'[q] = lists[q] \/ q = p
          BY <3>2
    <3> QED BY <3>1, <3>3, <3>4
  <2>2. CASE FetchFails(f) /\ UNCHANGED lists
        BY <1>3, <1>6, <2>2 DEF FilterOne, FetchFails
  <2> QED BY <1>6, <2>1, <2>2 DEF FilterOne
<1>7. CASE ListConfigured
  <2>1. /\ FetchShape' /\ fetch'["refresh"].todo = creds
        /\ \A h \in Fetches \ {"refresh"} : fetch'[h] = fetch[h]
        BY <1>0, <1>7, Lists DEF ListConfigured
  <2> QED BY <1>7, <2>1 DEF ListConfigured
<1>8. CASE RefreshServers
  <2>1. /\ FetchShape' /\ fetch'["refresh"].todo = {}
        /\ \A h \in Fetches \ {"refresh"} : fetch'[h] = fetch[h]
        BY <1>0, <1>8, StartNext DEF RefreshServers
  <2> QED BY <1>8, <2>1 DEF RefreshServers
<1>9. CASE SaveCredentials
  <2>1. CASE /\ creds' = creds \cup {chosen}
             /\ excused' = excused \ {chosen} /\ kept' = kept \ {chosen}
             /\ StartsFetch("setup", {chosen})
    <3>1. /\ FetchShape' /\ fetch'["setup"].todo = {chosen}
          /\ \A h \in Fetches \ {"setup"} : fetch'[h] = fetch[h]
          BY <1>0, <2>1, StartNext
    <3>2. /\ creds \cup excused \subseteq creds' \cup excused' /\ chosen \in creds'
          /\ kept \subseteq creds' \cup kept'
          BY <2>1
    <3>3. UNCHANGED <<lists, erasing, stage>>
          BY <1>9 DEF SaveCredentials
    <3> QED BY <3>1, <3>2, <3>3
  <2>2. CASE UNCHANGED <<creds, started, fetch>>
        BY <1>1, <1>9, <2>2 DEF SaveCredentials
  <2> QED BY <1>9, <2>1, <2>2 DEF SaveCredentials
<1>10. CASE LeaveView
  <2>1. /\ creds \cup excused \subseteq creds' \cup excused' /\ kept \subseteq creds' \cup kept'
        /\ UNCHANGED <<fetch, lists, erasing, stage>>
        BY <1>10 DEF LeaveView
  <2>2. FetchShape'
        BY <2>1 DEF FetchShape, JobShape
  <2> QED BY <2>1, <2>2
<1>11. ASSUME NEW p \in Providers, RemoveConf(p) PROVE OrphanInv'
  <2>1. /\ UNCHANGED <<fetch, lists>> /\ creds' = creds \ {p} /\ erasing' = p /\ erasing = NoProvider
        /\ excused \subseteq excused' /\ kept' = kept /\ stage' = stage
        /\ \A f \in Fetches : p \in fetch[f].todo => p \in excused'
        BY <1>11 DEF RemoveConf
  <2>2. FetchShape'
        BY <2>1 DEF FetchShape, JobShape
  <2> QED BY <1>0, <2>1, <2>2
<1>12. CASE RemoveLists
  <2>0. UNCHANGED <<fetch, creds, excused>> /\ FetchShape'
        BY <1>12 DEF RemoveLists, FetchShape, JobShape
  <2>1. CASE lists' = [lists EXCEPT ![erasing] = 0] /\ UNCHANGED <<erasing, kept>>
             /\ stage' = "look" /\ erasing # NoProvider
    <3>1. lists' = [q \in Providers |-> lists'[q]]
          /\ \A q \in Providers : lists'[q] = IF q = erasing THEN 0 ELSE lists[q]
          BY <2>1
    <3> QED BY <2>0, <2>1, <3>1
  <2>2. CASE /\ kept' = kept \cup {erasing} /\ UNCHANGED <<lists, stage>>
             /\ erasing' = NoProvider /\ stage = "own"
        BY <2>0, <2>2
  <2> QED BY <1>12, <2>1, <2>2 DEF RemoveLists, ErasedLists
<1>15. CASE LookForOthers \/ RemoveRawLists
  <2>0. /\ UNCHANGED <<lists, creds, excused, kept>>
        /\ stage # "own" /\ (stage' = "own" \/ (erasing' = erasing /\ erasing # NoProvider))
        BY <1>15 DEF LookForOthers, RemoveRawLists
  <2>1. FetchShape' /\ \A h \in Fetches : fetch'[h].todo = fetch[h].todo
    <3>1. CASE fetch' = Overtaken(Fetches)
          BY <3>1, OvertakenShape DEF FetchShape
    <3>2. CASE UNCHANGED fetch
          BY <3>2 DEF FetchShape, JobShape
    <3> QED BY <1>15, <3>1, <3>2 DEF LookForOthers, RemoveRawLists
  <2> QED BY <1>0, <2>0, <2>1
<1>13. CASE OpenSetup \/ AnswerOverwrite \/ Publish \/ UNCHANGED catalogVars
      BY <1>1, <1>13 DEF OpenSetup, AnswerOverwrite, Publish, catalogVars
<1>14. ASSUME NEW p, NEW ps, ChooseFile(p) \/ RemoveConfFails(p) \/ RemoveProviders(ps) PROVE OrphanInv'
      BY <1>1, <1>14 DEF ChooseFile, RemoveConfFails, RemoveProviders
<1> QED BY <1>2, <1>4, <1>5, <1>6, <1>7, <1>8, <1>9, <1>10, <1>11, <1>12, <1>13, <1>14, <1>15 DEF CatalogNext

\* A provider counted as removed leaves no list behind, unless its deletion
\* overlapped a fetch that was already working for it.
THEOREM NoOrphanListAlways == CatalogSpec => []NoOrphanList
<1>1. CatalogInit => OrphanInv
  <2> SUFFICES ASSUME CatalogInit PROVE OrphanInv
      OBVIOUS
  <2>1. fetch = [f \in Fetches |-> IdleFetch] /\ lists = [p \in Providers |-> 0]
        BY DEF CatalogInit, NoLists
  <2>2. FetchShape
        BY <2>1, IdleShape DEF FetchShape
  <2>3. \A f \in Fetches : fetch[f].todo = {}
        BY <2>1, IdleShape
  <2>4. erasing = NoProvider /\ stage = "own" /\ \A p \in Providers : lists[p] = 0
        BY <2>1 DEF CatalogInit
  <2> QED BY <2>1, <2>2, <2>3, <2>4 DEF OrphanInv
<1>2. OrphanInv => NoOrphanList
      BY DEF OrphanInv, NoOrphanList
<1> QED BY <1>1, <1>2, OrphanNext, PTL DEF CatalogSpec

-----------------------------------------------------------------------------
(* Refresh *)

\* A fetch nobody overtook holds the lists that are in the raw file.
SeedInv ==
  /\ FetchShape
  /\ edition \in Nat
  /\ raw \in [Providers -> Nat] /\ \A p \in Providers : raw[p] <= edition
  /\ \A f \in Fetches : fetch[f].at = "fetching" /\ fetch[f].current # FALSE => fetch[f].seed = raw
  /\ \A f \in Fetches : fetch[f].at = "fetching" =>
       fetch[f].seed \in [Providers -> Nat] /\ \A p \in Providers : fetch[f].seed[p] <= edition

\* A fetch that does not touch the file keeps its seed or is no longer fetching.
LEMMA SeedKept ==
  ASSUME SeedInv, FetchShape', UNCHANGED raw, edition' \in Nat, edition <= edition',
         \A f \in Fetches :
           \/ fetch'[f].at # "fetching"
           \/ fetch'[f].at = "fetching" /\ fetch'[f].seed = raw
           \/ fetch'[f].at = "fetching" /\ fetch'[f].seed = NoLists /\ fetch'[f].current = FALSE
           \/ fetch'[f].at = fetch[f].at /\ fetch'[f].seed = fetch[f].seed
                /\ fetch'[f].current = fetch[f].current
  PROVE  SeedInv'
<1>1. /\ edition \in Nat /\ raw' \in [Providers -> Nat]
      /\ \A p \in Providers : raw'[p] <= edition'
      BY DEF SeedInv
<1>2. ASSUME NEW f \in Fetches, fetch'[f].at = "fetching"
      PROVE  /\ fetch'[f].current # FALSE => fetch'[f].seed = raw'
             /\ fetch'[f].seed \in [Providers -> Nat]
             /\ \A p \in Providers : fetch'[f].seed[p] <= edition'
  <2>1. CASE fetch'[f].seed = raw
        BY <1>1, <2>1
  <2>2. CASE fetch'[f].at = fetch[f].at /\ fetch'[f].seed = fetch[f].seed
                /\ fetch'[f].current = fetch[f].current
    <3>1. /\ fetch'[f].current # FALSE => fetch'[f].seed = raw'
          /\ fetch'[f].seed \in [Providers -> Nat]
          /\ \A p \in Providers : fetch'[f].seed[p] <= edition
          BY <1>2, <2>2 DEF SeedInv
    <3>2. \A p \in Providers : fetch'[f].seed[p] \in Nat
          BY <3>1
    <3>3. \A p \in Providers : fetch'[f].seed[p] <= edition'
          BY <1>1, <3>1, <3>2
    <3> QED BY <3>1, <3>3
  <2>3. CASE fetch'[f].seed = NoLists /\ fetch'[f].current = FALSE
    <3>1. NoLists \in [Providers -> Nat] /\ \A p \in Providers : NoLists[p] = 0
          BY DEF NoLists
    <3>2. \A p \in Providers : NoLists[p] <= edition'
          BY <1>1, <3>1, edition' \in Nat
    <3> QED BY <2>3, <3>1, <3>2
  <2> QED BY <1>2, <2>1, <2>2, <2>3
<1> QED BY <1>1, <1>2 DEF SeedInv

\* The raw file's lists never go back, and every step keeps the seeds.
LEMMA SeedNext ==
  ASSUME SeedInv, [CatalogNext]_catalogVars
  PROVE  /\ SeedInv'
         /\ \A p \in Providers : raw'[p] < raw[p] =>
              \/ stage = "raw" /\ raw' = NoLists
              \/ \E f \in Fetches : fetch[f].at = "fetching" /\ fetch'[f].at # "fetching" /\ ~fetch[f].current
<1> DEFINE Kept == \A p \in Providers : raw'[p] < raw[p] =>
              \/ stage = "raw" /\ raw' = NoLists
              \/ \E f \in Fetches : fetch[f].at = "fetching" /\ fetch'[f].at # "fetching" /\ ~fetch[f].current
<1> SUFFICES SeedInv' /\ Kept
    OBVIOUS
<1>0. /\ "refresh" \in Fetches /\ "setup" \in Fetches
      /\ FetchShape /\ edition \in Nat /\ edition <= edition /\ raw \in [Providers -> Nat]
      BY DEF Fetches, SeedInv
<1>k. UNCHANGED raw => Kept
      BY <1>0
<1> HIDE DEF Kept
<1> USE DEF removalVars, filesOfServers, started
<1>1. ASSUME UNCHANGED <<raw, fetch>>, edition' \in Nat, edition <= edition' PROVE SeedInv' /\ Kept
  <2>1. FetchShape'
        BY <1>0, <1>1 DEF FetchShape, JobShape
  <2> QED BY <1>1, <1>k, <2>1, SeedKept
<1>2. ASSUME NEW f \in Fetches, NEW got \in SUBSET Providers, WriteRaw(f, got) PROVE SeedInv' /\ Kept
  <2>1. /\ FetchShape' /\ fetch'[f].at # "fetching"
        /\ \A h \in Fetches \ {f} : fetch'[h].at = fetch[h].at /\ fetch'[h].current = FALSE
        BY <1>0, <1>2, WriteShape
  <2>2. \A h \in Fetches : fetch'[h].seed = fetch[h].seed
    <3> DEFINE O == Overtaken(Fetches \ {f})
               a == IF f = "setup" THEN "filtering" ELSE "listing"
    <3>1. /\ O = [h \in Fetches |-> O[h]]
          /\ \A h \in Fetches : JobShape(O[h]) /\ O[h].seed = fetch[h].seed
          BY <1>0, OvertakenShape
    <3>2. fetch' = [O EXCEPT ![f].at = a]
          BY <1>2 DEF WriteRaw
    <3> HIDE DEF O, a
    <3> QED BY <3>1, <3>2 DEF JobShape
  <2>3. /\ UNCHANGED edition /\ fetch[f].at = "fetching"
        /\ raw' = [p \in Providers |-> IF p \in got THEN edition ELSE fetch[f].seed[p]]
        BY <1>2 DEF WriteRaw
  <2>4. raw' \in [Providers -> Nat] /\ \A p \in Providers : raw'[p] <= edition
        BY <1>0, <2>3 DEF SeedInv
  <2>5. SeedInv'
        BY <2>1, <2>2, <2>3, <2>4 DEF SeedInv
  <2>6. Kept
    <3>1. CASE fetch[f].current = FALSE
          BY <2>1, <2>3, <3>1 DEF Kept
    <3>2. CASE fetch[f].current # FALSE
      <4>1. fetch[f].seed = raw /\ \A p \in Providers : raw[p] <= edition
            BY <2>3, <3>2 DEF SeedInv
      <4>2. \A p \in Providers : ~(raw'[p] < raw[p])
            BY <1>0, <2>3, <4>1
      <4> QED BY <4>2 DEF Kept
    <3> QED BY <3>1, <3>2
  <2> QED BY <2>5, <2>6
<1>3. ASSUME NEW f \in Fetches, fetch' = [fetch EXCEPT ![f] = IdleFetch], UNCHANGED <<raw, edition>>
      PROVE  SeedInv' /\ Kept
  <2>1. FetchShape' /\ \A h \in Fetches : fetch'[h].at # "fetching" \/ fetch'[h] = fetch[h]
        BY <1>0, <1>3, IdleNext, IdleShape
  <2> QED BY <1>0, <1>3, <1>k, <2>1, SeedKept
<1>4. ASSUME NEW f \in Fetches, FetchNothing(f) PROVE SeedInv' /\ Kept
  <2>1. CASE FetchFails(f)
        BY <1>3, <1>4, <2>1 DEF FetchNothing, FetchFails
  <2>2. CASE ~FetchFails(f)
    <3> DEFINE a == IF f = "setup" THEN "filtering" ELSE "listing"
    <3>1. fetch' = [fetch EXCEPT ![f].at = a] /\ UNCHANGED <<raw, edition>> /\ a # "fetching"
          BY <1>4, <2>2 DEF FetchNothing
    <3> HIDE DEF a
    <3>2. FetchShape' /\ \A h \in Fetches : fetch'[h].at # "fetching" \/ fetch'[h] = fetch[h]
          BY <1>0, <3>1, GoesOn
    <3> QED BY <1>0, <1>k, <3>1, <3>2, SeedKept
  <2> QED BY <2>1, <2>2
<1>5. ASSUME NEW f \in Fetches, FetchEnds(f) PROVE SeedInv' /\ Kept
      BY <1>3, <1>5 DEF FetchEnds
<1>6. ASSUME NEW f \in Fetches, NEW p, FilterOne(f, p) PROVE SeedInv' /\ Kept
  <2>0. UNCHANGED <<raw, edition>>
        BY <1>6 DEF FilterOne
  <2>1. CASE fetch' = [fetch EXCEPT ![f].todo = @ \ {p}]
    <3> DEFINE T == fetch[f].todo \ {p}
    <3>0. fetch' = [fetch EXCEPT ![f].todo = T]
          BY <2>1
    <3> HIDE DEF T
    <3>1. /\ FetchShape'
          /\ \A h \in Fetches : /\ fetch'[h].at = fetch[h].at /\ fetch'[h].seed = fetch[h].seed
                                /\ fetch'[h].current = fetch[h].current
          BY <1>0, <3>0, DoesLess
    <3> QED BY <1>0, <1>k, <2>0, <3>1, SeedKept
  <2>2. CASE FetchFails(f)
        BY <1>3, <2>0, <2>2 DEF FetchFails
  <2> QED BY <1>6, <2>1, <2>2 DEF FilterOne
<1>7. CASE ListConfigured
  <2>1. /\ FetchShape' /\ fetch'["refresh"].at = "filtering"
        /\ \A h \in Fetches \ {"refresh"} : fetch'[h] = fetch[h]
        BY <1>0, <1>7, Lists DEF ListConfigured
  <2>2. UNCHANGED <<raw, edition>>
        BY <1>7 DEF ListConfigured
  <2> QED BY <1>0, <1>k, <2>1, <2>2, SeedKept
<1>8. ASSUME NEW f \in Fetches, NEW T, StartsFetch(f, T), UNCHANGED <<raw, edition>> PROVE SeedInv' /\ Kept
  <2>1. /\ FetchShape' /\ fetch'[f].at = "fetching"
        /\ fetch'[f].seed = raw \/ (fetch'[f].seed = NoLists /\ fetch'[f].current = FALSE)
        /\ \A h \in Fetches \ {f} : fetch'[h] = fetch[h]
        BY <1>0, <1>8, StartNext DEF SeedLists
  <2> QED BY <1>0, <1>8, <1>k, <2>1, SeedKept
<1>9. CASE SaveCredentials
  <2>1. UNCHANGED <<raw, edition>> /\ (StartsFetch("setup", {chosen}) \/ UNCHANGED fetch)
        BY <1>9 DEF SaveCredentials
  <2> QED BY <1>0, <1>1, <1>8, <2>1
<1>10. CASE RefreshServers
      BY <1>0, <1>8, <1>10 DEF RefreshServers
<1>11. CASE RemoveRawLists
  <2>1. CASE raw' = NoLists /\ fetch' = Overtaken(Fetches)
    <3>1. /\ raw' = [p \in Providers |-> 0] /\ raw' = NoLists /\ fetch' = Overtaken(Fetches)
          /\ UNCHANGED edition /\ stage = "raw"
          BY <1>11, <2>1 DEF RemoveRawLists, NoLists
    <3>2. /\ FetchShape'
          /\ \A h \in Fetches : /\ fetch'[h].at = fetch[h].at /\ fetch'[h].seed = fetch[h].seed
                                /\ fetch'[h].current = FALSE
          BY <1>0, <3>1, OvertakenShape DEF FetchShape
    <3>3. SeedInv'
      <4>1. raw' \in [Providers -> Nat] /\ \A p \in Providers : raw'[p] <= edition
            BY <1>0, <3>1
      <4> QED BY <3>1, <3>2, <4>1 DEF SeedInv
    <3> QED BY <2>1, <3>1, <3>3 DEF Kept
  <2>2. CASE UNCHANGED <<raw, fetch>>
        BY <1>0, <1>1, <1>11, <2>2 DEF RemoveRawLists
  <2> QED BY <1>11, <2>1, <2>2 DEF RemoveRawLists
<1>12. CASE Publish
  <2>1. UNCHANGED <<raw, fetch>> /\ edition' = edition + 1
        BY <1>12 DEF Publish
  <2> QED BY <1>0, <1>1, <2>1
<1>13. CASE OpenSetup \/ AnswerOverwrite \/ LeaveView \/ RemoveLists \/ LookForOthers
            \/ UNCHANGED catalogVars
      BY <1>0, <1>1, <1>13 DEF OpenSetup, AnswerOverwrite, LeaveView, RemoveLists, LookForOthers, catalogVars
<1>14. ASSUME NEW p, NEW ps, ChooseFile(p) \/ RemoveConf(p) \/ RemoveConfFails(p) \/ RemoveProviders(ps)
       PROVE SeedInv' /\ Kept
      BY <1>0, <1>1, <1>14 DEF ChooseFile, RemoveConf, RemoveConfFails, RemoveProviders
<1> QED BY <1>2, <1>4, <1>5, <1>6, <1>7, <1>9, <1>10, <1>11, <1>12, <1>13, <1>14 DEF CatalogNext

\* A list already downloaded is never lost or set back, unless a deletion that
\* found no provider left removes it, or the fetch that writes could not read the
\* file or was overtaken by another or by such a deletion.
THEOREM RefreshKeepsListsAlways == CatalogSpec => RefreshKeepsLists
<1>1. CatalogInit => SeedInv
  <2> SUFFICES ASSUME CatalogInit PROVE SeedInv
      OBVIOUS
  <2>1. fetch = [f \in Fetches |-> IdleFetch] /\ raw = [p \in Providers |-> 0] /\ edition = 1
        BY DEF CatalogInit, NoLists
  <2>2. FetchShape
        BY <2>1, IdleShape DEF FetchShape
  <2>3. \A f \in Fetches : fetch[f].at # "fetching"
        BY <2>1, IdleShape
  <2>4. raw \in [Providers -> Nat] /\ \A p \in Providers : raw[p] <= edition
        BY <2>1
  <2> QED BY <2>1, <2>2, <2>3, <2>4 DEF SeedInv
<1>2. SeedInv /\ [CatalogNext]_catalogVars => SeedInv'
      BY SeedNext
<1>3. SeedInv /\ [CatalogNext]_catalogVars
      => [\A p \in Providers : raw'[p] < raw[p] =>
            \/ stage = "raw" /\ raw' = NoLists
            \/ \E f \in Fetches : fetch[f].at = "fetching" /\ fetch'[f].at # "fetching" /\ ~fetch[f].current
         ]_catalogVars
      BY SeedNext
<1> QED BY <1>1, <1>2, <1>3, PTL DEF CatalogSpec, RefreshKeepsLists

-----------------------------------------------------------------------------
(* The types *)

Jobs == [at : {"idle", "fetching", "listing", "filtering"}, seed : [Providers -> Editions],
         todo : SUBSET (Providers \cup {NoProvider}), current : BOOLEAN]

Belongings ==
  /\ creds \subseteq Providers /\ doomed \subseteq Providers /\ excused \subseteq Providers
  /\ kept \subseteq Providers /\ stage \in {"own", "look", "raw"}
  /\ erasing = NoProvider => stage = "own"
  /\ chosen \in Providers \cup {NoProvider} /\ erasing \in Providers \cup {NoProvider}
FileTypes == raw \in [Providers -> Editions] /\ lists \in [Providers -> Editions] /\ edition \in 1..MaxLists
Counts == wizard \in WizardSteps /\ fetches \in 0..MaxFetches

\* A wizard that is about to save knows the provider.
CatalogShape ==
  /\ Belongings /\ FileTypes /\ Counts /\ fetch \in [Fetches -> Jobs]
  /\ wizard \in {"overwrite", "saving"} => chosen \in Providers

\* Every edition is one, and so is none.
LEMMA EditionsHold == NoLists \in [Providers -> Editions] /\ 1..MaxLists \subseteq Editions /\ 1 \in 1..MaxLists
BY CatalogAssumption DEF NoLists, Editions

\* A fetch that is idle, and one that starts.
LEMMA JobsHold ==
  ASSUME NEW S \in [Providers -> Editions], NEW T \in SUBSET (Providers \cup {NoProvider}),
         NEW b \in BOOLEAN
  PROVE  IdleFetch \in Jobs /\ [at |-> "fetching", seed |-> S, todo |-> T, current |-> b] \in Jobs
<1>1. PICK c : c \in BOOLEAN /\ c = TRUE
      BY Zenon
<1>2. IdleFetch = [at |-> "idle", seed |-> NoLists, todo |-> {}, current |-> c]
      BY <1>1, Zenon DEF IdleFetch
<1>4. [at |-> "fetching", seed |-> S, todo |-> T, current |-> b] \in Jobs
      BY DEF Jobs
<1>5. [at |-> "idle", seed |-> NoLists, todo |-> {}, current |-> c] \in Jobs
      BY <1>1, EditionsHold DEF Jobs
<1> QED BY <1>2, <1>4, <1>5, Zenon

\* A writer that overtakes the others leaves them fetches.
LEMMA OvertakenTyped ==
  ASSUME fetch \in [Fetches -> Jobs], NEW others
  PROVE  Overtaken(others) \in [Fetches -> Jobs]
<1>1. PICK b : b \in BOOLEAN /\ b = FALSE
      BY Zenon
<1>2. Overtaken(others) = [f \in Fetches |-> IF f \in others THEN [fetch[f] EXCEPT !.current = b] ELSE fetch[f]]
      BY <1>1, Zenon DEF Overtaken
<1>3. \A f \in Fetches : [fetch[f] EXCEPT !.current = b] \in Jobs
      BY <1>1 DEF Jobs
<1> QED BY <1>2, <1>3

\* Every step of a fetch leaves fetches.
LEMMA FetchStaysTyped ==
  ASSUME CatalogShape, [CatalogNext]_catalogVars PROVE fetch' \in [Fetches -> Jobs]
<1> USE DEF CatalogShape
<1> DEFINE Kept == fetch' \in [Fetches -> Jobs]
<1>0. "setup" \in Fetches /\ "refresh" \in Fetches
      BY DEF Fetches
<1>1. ASSUME UNCHANGED fetch PROVE Kept
      BY <1>1
<1>2. ASSUME NEW f \in Fetches, NEW T \in SUBSET (Providers \cup {NoProvider}), StartsFetch(f, T) PROVE Kept
  <2>1. PICK r \in BOOLEAN :
          fetch' = [fetch EXCEPT ![f] = [at |-> "fetching", seed |-> IF r THEN raw ELSE NoLists,
                                         todo |-> T, current |-> r]]
        BY <1>2, Zenon DEF StartsFetch, SeedLists
  <2> DEFINE S == IF r THEN raw ELSE NoLists
             j == [at |-> "fetching", seed |-> S, todo |-> T, current |-> r]
  <2>2. fetch' = [fetch EXCEPT ![f] = j]
        BY <2>1
  <2>3. S \in [Providers -> Editions]
        BY EditionsHold DEF FileTypes
  <2> HIDE DEF S
  <2>4. j \in Jobs
        BY <2>3, JobsHold
  <2> HIDE DEF j
  <2> QED BY <2>2, <2>4
<1>3. ASSUME NEW f \in Fetches, fetch' = [fetch EXCEPT ![f] = IdleFetch] PROVE Kept
  <2>1. IdleFetch \in Jobs
    <3>1. {} \in SUBSET (Providers \cup {NoProvider})
          OBVIOUS
    <3> QED BY <3>1, EditionsHold, JobsHold
  <2> QED BY <1>3, <2>1
<1>4. ASSUME NEW f \in Fetches, NEW a \in {"filtering", "listing"}, fetch' = [fetch EXCEPT ![f].at = a] PROVE Kept
      BY <1>4 DEF Jobs
<1>5. ASSUME NEW f \in Fetches, NEW T \in SUBSET (Providers \cup {NoProvider}), fetch' = [fetch EXCEPT ![f].todo = T]
      PROVE  Kept
      BY <1>5 DEF Jobs
<1>6. ASSUME NEW f \in Fetches, NEW got, WriteRaw(f, got) PROVE Kept
  <2> DEFINE O == Overtaken(Fetches \ {f})
             a == IF f = "setup" THEN "filtering" ELSE "listing"
  <2>1. fetch' = [O EXCEPT ![f].at = a]
        BY <1>6 DEF WriteRaw
  <2>2. O \in [Fetches -> Jobs] /\ a \in {"filtering", "listing"}
        BY OvertakenTyped
  <2> HIDE DEF O, a
  <2> QED BY <2>1, <2>2 DEF Jobs
<1>7. ASSUME NEW f \in Fetches, FetchNothing(f) PROVE Kept
      BY <1>3, <1>4, <1>7 DEF FetchNothing, FetchFails
<1>8. ASSUME NEW f \in Fetches, NEW q, FilterOne(f, q) PROVE Kept
  <2>1. fetch[f].todo \ {q} \in SUBSET (Providers \cup {NoProvider})
        BY DEF Jobs
  <2>2. fetch' = [fetch EXCEPT ![f].todo = fetch[f].todo \ {q}] \/ fetch' = [fetch EXCEPT ![f] = IdleFetch]
        BY <1>8 DEF FilterOne, FetchFails
  <2> HIDE DEF Kept
  <2> QED BY <1>3, <1>5, <2>1, <2>2
<1>9. ASSUME NEW f \in Fetches, FetchEnds(f) PROVE Kept
      BY <1>3, <1>9 DEF FetchEnds
<1>10. ASSUME ListConfigured PROVE Kept
  <2>1. creds \in SUBSET (Providers \cup {NoProvider})
        BY DEF Belongings
  <2>2. fetch' = [fetch EXCEPT !["refresh"].at = "filtering", !["refresh"].todo = creds]
        BY <1>10 DEF ListConfigured
  <2> QED BY <1>0, <2>1, <2>2 DEF Jobs
<1>11. ASSUME RefreshServers PROVE Kept
  <2>1. StartsFetch("refresh", {}) /\ {} \in SUBSET (Providers \cup {NoProvider})
        BY <1>11 DEF RefreshServers
  <2> HIDE DEF Kept
  <2> QED BY <1>0, <1>2, <2>1
<1>12. ASSUME SaveCredentials PROVE Kept
       BY <1>0, <1>1, <1>2, <1>12 DEF SaveCredentials, Belongings
<1>13. ASSUME RemoveLists \/ LookForOthers \/ RemoveRawLists PROVE Kept
  <2>1. Overtaken(Fetches) \in [Fetches -> Jobs]
        BY OvertakenTyped
  <2>2. fetch' = fetch \/ fetch' = Overtaken(Fetches)
        BY <1>13 DEF RemoveLists, LookForOthers, RemoveRawLists
  <2> HIDE DEF Kept
  <2>3. fetch' = Overtaken(Fetches) => Kept
        BY <2>1 DEF Kept
  <2> QED BY <1>1, <2>2, <2>3
<1>14. ASSUME NEW q, \/ OpenSetup \/ AnswerOverwrite \/ LeaveView \/ ChooseFile(q) \/ RemoveConf(q)
                     \/ RemoveConfFails(q) \/ RemoveProviders(q) \/ Publish \/ UNCHANGED catalogVars
       PROVE  Kept
       BY <1>1, <1>14 DEF OpenSetup, AnswerOverwrite, LeaveView, ChooseFile, RemoveConf, RemoveConfFails,
                          RemoveProviders, Publish, catalogVars
<1> HIDE DEF Kept
<1>15. Kept
       BY <1>6, <1>7, <1>8, <1>9, <1>10, <1>11, <1>12, <1>13, <1>14, Zenon DEF CatalogNext
<1> QED BY <1>15 DEF Kept

\* So do the files.
LEMMA FilesStayTyped ==
  ASSUME CatalogShape, [CatalogNext]_catalogVars PROVE FileTypes'
<1> USE DEF CatalogShape, FileTypes
<1>1. ASSUME UNCHANGED <<raw, lists, edition>> PROVE FileTypes'
      BY <1>1
<1>2. ASSUME NEW f \in Fetches, NEW got, WriteRaw(f, got) PROVE FileTypes'
      BY <1>2, EditionsHold DEF WriteRaw, Jobs
<1>3. ASSUME NEW f \in Fetches, NEW q, FilterOne(f, q) PROVE FileTypes'
      BY <1>3 DEF FilterOne
<1>4. ASSUME RemoveLists \/ LookForOthers \/ RemoveRawLists PROVE FileTypes'
  <2>1. 0 \in Editions
        BY CatalogAssumption DEF Editions
  <2> QED BY <1>4, <2>1, EditionsHold
          DEF RemoveLists, ErasedLists, LookForOthers, RemoveRawLists, filesOfServers
<1>5. ASSUME Publish PROVE FileTypes'
      BY <1>5, CatalogAssumption DEF Publish, filesOfServers
<1>6. ASSUME NEW f, NEW q,
             \/ FetchNothing(f) \/ FetchEnds(f) \/ ListConfigured \/ RefreshServers \/ OpenSetup \/ AnswerOverwrite
             \/ SaveCredentials \/ LeaveView \/ ChooseFile(q) \/ RemoveConf(q)
             \/ RemoveConfFails(q) \/ RemoveProviders(q) \/ UNCHANGED catalogVars
      PROVE  FileTypes'
      BY <1>1, <1>6 DEF FetchNothing, FetchEnds, ListConfigured, RefreshServers, OpenSetup, AnswerOverwrite,
                        SaveCredentials, LeaveView, ChooseFile, RemoveConf, RemoveConfFails, RemoveProviders,
                        catalogVars, filesOfServers
<1> HIDE DEF FileTypes
<1> QED BY <1>2, <1>3, <1>4, <1>5, <1>6, Zenon DEF CatalogNext

\* So do the providers, and a wizard only saves what it was confirmed for.
LEMMA BelongingsStayTyped ==
  ASSUME CatalogShape, [CatalogNext]_catalogVars
  PROVE  Belongings' /\ (wizard' \in {"overwrite", "saving"} => chosen' \in Providers)
<1> USE DEF CatalogShape, Belongings
<1> DEFINE Kept == Belongings' /\ (wizard' \in {"overwrite", "saving"} => chosen' \in Providers)
<1>1. ASSUME NEW f, NEW q, NEW got, \/ WriteRaw(f, got) \/ FetchEnds(f) \/ ListConfigured \/ RefreshServers
                                    \/ Publish \/ UNCHANGED catalogVars
      PROVE  Kept
      BY <1>1 DEF WriteRaw, FetchEnds, ListConfigured, RefreshServers, Publish, catalogVars, removalVars, started
<1>2. ASSUME NEW f, NEW q, FetchNothing(f) \/ FilterOne(f, q) PROVE Kept
      BY <1>2 DEF FetchNothing, FilterOne, FetchFails, removalVars, started
<1>3. ASSUME OpenSetup \/ AnswerOverwrite \/ LeaveView PROVE Kept
      BY <1>3 DEF OpenSetup, AnswerOverwrite, LeaveView, removalVars, started
<1>4. ASSUME SaveCredentials PROVE Kept
      BY <1>4 DEF SaveCredentials, removalVars, started
<1>5. ASSUME NEW q \in Providers, ChooseFile(q) \/ RemoveConf(q) \/ RemoveConfFails(q) PROVE Kept
      BY <1>5 DEF ChooseFile, RemoveConf, RemoveConfFails, removalVars, started
<1>6. ASSUME NEW ps \in SUBSET Providers, RemoveProviders(ps) PROVE Kept
      BY <1>6 DEF RemoveProviders, started
<1>7. ASSUME RemoveLists \/ LookForOthers \/ RemoveRawLists PROVE Kept
      BY <1>7 DEF RemoveLists, LookForOthers, RemoveRawLists, started
<1> HIDE DEF Kept
<1>8. Kept
      BY <1>1, <1>2, <1>3, <1>4, <1>5, <1>6, <1>7, Zenon DEF CatalogNext
<1> QED BY <1>8 DEF Kept

\* So do the view and the count of fetches.
LEMMA CountsStayTyped ==
  ASSUME CatalogShape, [CatalogNext]_catalogVars PROVE Counts'
<1> USE DEF CatalogShape, Counts, WizardSteps
<1>1. ASSUME NEW f, NEW q, NEW got, \/ WriteRaw(f, got) \/ FetchEnds(f) \/ ListConfigured
                                    \/ Publish \/ RemoveLists \/ LookForOthers \/ RemoveRawLists
                                    \/ UNCHANGED catalogVars
      PROVE  Counts'
      BY <1>1 DEF WriteRaw, FetchEnds, ListConfigured, Publish, RemoveLists, LookForOthers, RemoveRawLists,
                  catalogVars, started
<1>2. ASSUME NEW f, NEW q, FetchNothing(f) \/ FilterOne(f, q) PROVE Counts'
      BY <1>2 DEF FetchNothing, FilterOne, FetchFails, started
<1>3. ASSUME RefreshServers \/ SaveCredentials \/ LeaveView PROVE Counts'
  <2>1. wizard' \in WizardSteps
        BY <1>3 DEF RefreshServers, SaveCredentials, LeaveView
  <2>2. fetches' = fetches \/ (fetches < MaxFetches /\ fetches' = fetches + 1)
        BY <1>3 DEF RefreshServers, SaveCredentials, LeaveView, StartsFetch, started
  <2> QED BY <2>1, <2>2, CatalogAssumption
<1>4. ASSUME OpenSetup \/ AnswerOverwrite PROVE Counts'
      BY <1>4 DEF OpenSetup, AnswerOverwrite, started
<1>5. ASSUME NEW q, ChooseFile(q) \/ RemoveConf(q) \/ RemoveConfFails(q) \/ RemoveProviders(q) PROVE Counts'
      BY <1>5 DEF ChooseFile, RemoveConf, RemoveConfFails, RemoveProviders, started
<1> HIDE DEF Counts
<1> QED BY <1>1, <1>2, <1>3, <1>4, <1>5, Zenon DEF CatalogNext

\* Files, providers, wizard and fetches keep to their types, for any number of
\* providers, editions and fetches.
THEOREM CatalogTypeCorrect == CatalogInit /\ [][CatalogNext]_catalogVars => []CatalogTypeOK
<1>1. CatalogInit => CatalogShape
  <2> SUFFICES ASSUME CatalogInit PROVE CatalogShape
      OBVIOUS
  <2>1. IdleFetch \in Jobs
    <3>1. {} \in SUBSET (Providers \cup {NoProvider})
          OBVIOUS
    <3> QED BY <3>1, EditionsHold, JobsHold
  <2>2. 0 \in 0..MaxFetches
        BY CatalogAssumption
  <2> QED BY <2>1, <2>2, EditionsHold DEF CatalogInit, CatalogShape, Belongings, FileTypes, Counts, WizardSteps
<1>2. CatalogShape /\ [CatalogNext]_catalogVars => CatalogShape'
      BY FetchStaysTyped, FilesStayTyped, BelongingsStayTyped, CountsStayTyped DEF CatalogShape
<1>3. CatalogShape => CatalogTypeOK
      BY DEF CatalogShape, CatalogTypeOK, Jobs, Belongings, FileTypes, Counts
<1> QED BY <1>1, <1>2, <1>3, PTL

=============================================================================
