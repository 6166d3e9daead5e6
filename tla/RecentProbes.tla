---------------------------- MODULE RecentProbes ----------------------------
(***************************************************************************)
(* What a sliding window of probe results promises: the last results, at   *)
(* most Window of them, oldest first.                                      *)
(***************************************************************************)
EXTENDS Naturals, Sequences

CONSTANTS Window, Probes
VARIABLE recent

RecentInit == recent = <<>>

Record(r) == recent' = IF Len(recent) < Window THEN Append(recent, r) ELSE Append(Tail(recent), r)

Forget == recent' = <<>>

RecentSpec == RecentInit /\ [][Forget \/ \E r \in Probes : Record(r)]_recent
=============================================================================
