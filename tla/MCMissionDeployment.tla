------------------------ MODULE MCMissionDeployment -------------------------
(***************************************************************************)
(* MissionDeployment for TLC: requests, idempotency keys and flights are   *)
(* interchangeable model values.                                           *)
(***************************************************************************)
EXTENDS MissionDeploymentStore, TLC

Interchange == Permutations(Handlers) \cup Permutations(Keys)
                 \cup Permutations(Flights)

=============================================================================
