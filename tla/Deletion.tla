------------------------------ MODULE Deletion ------------------------------
(***************************************************************************)
(* One deletion step of the uninstaller (internal/security/delete.go and   *)
(* journal.go, cmd/lazyvpn/delete_ui.go): each file is tried once with the *)
(* tool the file system calls for, the failures go through a menu of ways  *)
(* out, each offered once, and the summary tells what became of each file. *)
(* When the files are systemd's journals, journald is stopped for it.      *)
(***************************************************************************)
EXTENDS Naturals, Sequences

CONSTANT Paths

VARIABLES disk,       \* what is there of each file
          primary,    \* the tool for this file system: "shred", or "rm" on CoW
          journals,   \* the files are journals
          journald,   \* "running" or "stopped"
          step,       \* where the step is
          attempt,    \* the tool of the round under way, and the files it has left
          events,     \* DeleteResult.Events
          offered,    \* the options left in the menu
          skipped     \* what handleFailures answers

deletionVars == <<disk, primary, journals, journald, step, attempt, events, offered, skipped>>

\* "wiped": overwritten and unlinked; "unlinked": the content may still be there.
DiskStates == {"present", "absent", "wiped", "unlinked"}

DeletionInit ==
  /\ disk = [p \in Paths |-> "present"]
  /\ primary = "shred" /\ journals = FALSE /\ journald = "running"
  /\ step = "start" /\ attempt = [tool |-> "shred", left |-> {}, first |-> TRUE]
  /\ events = <<>> /\ offered = {} /\ skipped = {}

\* CleanJournalLogs stops journald first; when that fails nothing is deleted.
\* A stop that is cut off after fifteen seconds may still be carried out.
StartDeletion(tool, isJournals, found) ==
  /\ step = "start"
  /\ disk' = [p \in Paths |-> IF p \in found THEN "present" ELSE "absent"]
  /\ primary' = tool /\ journals' = isJournals
  /\ \/ step' = "attempt" /\ journald' = IF isJournals THEN "stopped" ELSE journald
     \/ isJournals /\ step' = "refused" /\ journald' \in {journald, "stopped"}
  /\ attempt' = [tool |-> tool, left |-> Paths, first |-> TRUE]
  /\ offered' = IF tool = "shred" THEN {"retry", "rmFallback", "skip"} ELSE {"retry", "skip"}
  /\ UNCHANGED <<events, skipped>>

Gone(p) == disk[p] # "present"
Destroyed(tool) == IF tool = "shred" THEN "wiped" ELSE "unlinked"

\* classify: exit 0; "No such file"; anything else, a tool killed after its
\* sixty seconds included, which may have done its work by then or half of it.
Attempts(p, outcome) ==
  /\ step = "attempt" /\ p \in attempt.left
  /\ \/ outcome = "deleted" /\ ~Gone(p)
        /\ disk' = [disk EXCEPT ![p] = Destroyed(attempt.tool)]
     \/ outcome = "notPresent" /\ Gone(p) /\ UNCHANGED disk
     \/ outcome = "failed" /\ \/ UNCHANGED disk
                              \/ ~Gone(p) /\ disk' = [disk EXCEPT ![p] = Destroyed(attempt.tool)]
  /\ events' = Append(events, [path |-> p, tool |-> attempt.tool, outcome |-> outcome])
  /\ attempt' = [attempt EXCEPT !.left = @ \ {p}]
  /\ UNCHANGED <<primary, journals, journald, step, offered, skipped>>

\* journald starts again as soon as the first round over the journals ends, or
\* does not (a banner says so); then the menu.
RoundEnds ==
  /\ step = "attempt" /\ attempt.left = {} /\ step' = "menu"
  /\ journald' \in IF journals /\ attempt.first THEN {"running", "stopped"} ELSE {journald}
  /\ UNCHANGED <<disk, primary, journals, attempt, events, offered, skipped>>

EventsOf(p) == {i \in DOMAIN events : events[i].path = p}
LatestOutcome(p) == events[CHOOSE i \in EventsOf(p) : \A j \in EventsOf(p) : j <= i].outcome

UnresolvedFailures == {p \in Paths : EventsOf(p) # {} /\ LatestOutcome(p) = "failed"} \ skipped

\* Nothing is pending: handleFailures is done.
NothingPending ==
  /\ step = "menu" /\ UnresolvedFailures = {} /\ step' = "summary"
  /\ UNCHANGED <<disk, primary, journals, journald, attempt, events, offered, skipped>>

Retries(tool, option) ==
  /\ step = "menu" /\ UnresolvedFailures # {} /\ option \in offered
  /\ attempt' = [tool |-> tool, left |-> UnresolvedFailures, first |-> FALSE] /\ step' = "attempt"
  /\ offered' = offered \ {option}
  /\ UNCHANGED <<disk, primary, journals, journald, events, skipped>>

Retry == Retries(primary, "retry")
FallBackToRm == Retries("rm", "rmFallback")

\* Mutant: the pending files are forgotten.
ForgetRest ==
  /\ step = "menu" /\ UnresolvedFailures # {} /\ step' = "summary"
  /\ UNCHANGED <<disk, primary, journals, journald, attempt, events, offered, skipped>>

\* The user skips, there is no more input, or no option is left.
SkipRest ==
  /\ step = "menu" /\ UnresolvedFailures # {}
  /\ skipped' = skipped \cup UnresolvedFailures /\ step' = "summary"
  /\ UNCHANGED <<disk, primary, journals, journald, attempt, events, offered>>

\* The next step of the uninstaller begins anew.
NextStep ==
  /\ step \in {"summary", "refused"} /\ step' = "start"
  /\ events' = <<>> /\ skipped' = {}
  /\ UNCHANGED <<disk, primary, journals, journald, attempt, offered>>

DeletionNext ==
  \/ \E tool \in {"shred", "rm"}, isJournals \in BOOLEAN, found \in SUBSET Paths :
       StartDeletion(tool, isJournals, found)
  \/ \E p \in Paths, outcome \in {"deleted", "notPresent", "failed"} : Attempts(p, outcome)
  \/ RoundEnds \/ NothingPending \/ Retry \/ FallBackToRm \/ SkipRest \/ NextStep

-----------------------------------------------------------------------------
(* The summary (resolveStep, classifyPath). *)

DeletedWith(p, tools) ==
  \E i \in EventsOf(p) : events[i].outcome = "deleted" /\ events[i].tool \in tools

Kind(p) ==
  CASE p \in skipped -> "skipped"
    [] p \notin skipped /\ DeletedWith(p, {primary}) -> "primary"
    [] p \notin skipped /\ ~DeletedWith(p, {primary}) /\ DeletedWith(p, {"rm"}) -> "fallback"
    [] OTHER -> "notPresent"

DeletionTypeOK ==
  /\ disk \in [Paths -> DiskStates]
  /\ primary \in {"shred", "rm"} /\ journals \in BOOLEAN /\ journald \in {"running", "stopped"}
  /\ step \in {"start", "attempt", "menu", "summary", "refused"}
  /\ attempt.tool \in {"shred", "rm"} /\ attempt.left \subseteq Paths
  /\ offered \subseteq {"retry", "rmFallback", "skip"} /\ skipped \subseteq Paths

\* The summary of a step is honest, however often and with whatever the files
\* were tried and whatever a killed tool had done: a file that is still there is
\* listed as skipped, one called shredded was overwritten, one that was only
\* unlinked where it should have been shredded is never counted as shredded.
SummaryIsHonest ==
  step = "summary" =>
    \A p \in Paths :
      /\ ~Gone(p) => Kind(p) = "skipped"
      /\ Kind(p) = "primary" => disk[p] = Destroyed(primary)
      /\ Kind(p) = "fallback" => disk[p] = "unlinked" /\ primary = "shred"
=============================================================================
