------------------------------ MODULE MCSystem ------------------------------
(***************************************************************************)
(* One instance for what lazyvpn does to the system as root and what it    *)
(* takes back: UFW's rules, and the life of an installation.  A behaviour  *)
(* moves one of the two and leaves the other where it starts.              *)
(***************************************************************************)
EXTENDS Firewall, Lifecycle

VARIABLE part    \* the component that moves

SystemInit == part \in {"firewall", "lifecycle"} /\ Init /\ LifecycleInit

SystemNext ==
  /\ UNCHANGED part
  /\ \/ part = "firewall" /\ Next /\ UNCHANGED lifecycleVars
     \/ part = "lifecycle" /\ LifecycleNext /\ UNCHANGED vars

SystemTypeOK == FirewallTypeOK /\ LifecycleTypeOK
=============================================================================
