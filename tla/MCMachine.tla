----------------------------- MODULE MCMachine -----------------------------
(***************************************************************************)
(* One instance for the components that keep no state in common: the       *)
(* commands of a tunnel, config.json, the health score, the deletion of    *)
(* files, the providers and their lists.  A behaviour moves one of them    *)
(* and leaves the others where they start, so the states explored are the  *)
(* sum of the components', not their product.                              *)
(***************************************************************************)
EXTENDS Tunnel, ConfigStore, Health, Deletion, Catalog, TLC

VARIABLE part    \* the component that moves

MachineInit ==
  /\ part \in {"tunnel", "config", "health", "deletion", "catalog"}
  /\ TunnelInit /\ ConfigInit /\ HealthInit
  /\ DeletionInit /\ CatalogInit

MachineNext ==
  /\ UNCHANGED part
  /\ \/ /\ part = "tunnel" /\ TunnelNext
        /\ UNCHANGED <<configVars, healthVars, deletionVars, catalogVars>>
     \/ /\ part = "config" /\ ConfigNext
        /\ UNCHANGED <<tunnelVars, healthVars, deletionVars, catalogVars>>
     \/ /\ part = "health" /\ HealthNext
        /\ UNCHANGED <<tunnelVars, configVars, deletionVars, catalogVars>>
     \/ /\ part = "deletion" /\ DeletionNext
        /\ UNCHANGED <<tunnelVars, configVars, healthVars, catalogVars>>
     \/ /\ part = "catalog" /\ CatalogNext
        /\ UNCHANGED <<tunnelVars, configVars, healthVars, deletionVars>>

\* Servers, networks and providers are alike.
MachineSymmetry ==
  Permutations(Endpoints) \cup Permutations(Gateways) \cup Permutations(Providers)

\* The type of the component that moves; the others are where they started.
MachineTypeOK ==
  CASE part = "tunnel"    -> TunnelTypeOK
    [] part = "config"    -> ConfigTypeOK
    [] part = "health"    -> HealthTypeOK
    [] part = "deletion"  -> DeletionTypeOK
    [] part = "catalog"   -> CatalogTypeOK
=============================================================================
