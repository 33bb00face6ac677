-------------------------- MODULE MCDSSPublication --------------------------
(***************************************************************************)
(* DSSPublication for TLC: replicas are interchangeable model values.      *)
(***************************************************************************)
EXTENDS DSSPublicationStore, TLC

Replicas == Permutations(Workers) \cup Permutations(Activators)

=============================================================================
