------------------------- MODULE MCIntentLifecycle --------------------------
(***************************************************************************)
(* IntentLifecycle for TLC.  Handlers and intents are interchangeable.     *)
(*                                                                         *)
(* The run has three cases, with bounds of their own: two versions of one  *)
(* intent under concurrent handlers, two intents that are neither modified *)
(* nor canceled, and a longer history of one intent with one request at a  *)
(* time.                                                                   *)
(***************************************************************************)
EXTENDS IntentLifecycle, TLC

VARIABLE case

Renamings == Permutations(Handlers) \cup Permutations(Intents)

OneIntent == \E i \in Intents : \A j \in Intents \ {i} : ~Exists(rows[j], 1)
Clock(n) == \A i \in Intents : clock[i] <= n
FailsOnlyWithoutVolume ==
    \A h \in Handlers : handler[h].blocking # {} => handler[h].saw = {}

Within ==
    \/ case = "versions" /\ ~inTurn /\ OneIntent /\ Clock(3)
    \/ /\ case = "aircraft" /\ ~inTurn /\ Clock(2) /\ FailsOnlyWithoutVolume
       /\ \A h \in Handlers : handler[h].op \notin {"modify", "cancel"}
    \/ case = "turns" /\ inTurn /\ OneIntent

CaseInit == Init /\ case \in {"versions", "aircraft", "turns"} /\ Within
CaseNext == Next /\ UNCHANGED case /\ Within'
CaseSpec == CaseInit /\ [][CaseNext]_<<vars, case>>

=============================================================================
