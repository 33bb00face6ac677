----------------------- MODULE MCPublicationDelivery ------------------------
(***************************************************************************)
(* PublicationDelivery for TLC: a peer to notify, or an activation.        *)
(***************************************************************************)
EXTENDS PublicationDelivery

CaseNext ==
    /\ DeliveryNext
    /\ subscribed => budget'["activations"] = budget["activations"]
CaseSpec == DeliveryInit /\ [][CaseNext]_allVars /\ DeliveryFairness

=============================================================================
