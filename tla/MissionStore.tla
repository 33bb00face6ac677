---------------------------- MODULE MissionStore ----------------------------
(***************************************************************************)
(* What the durable store promises about the flights, missions and mission *)
(* deployments of one aircraft, as the in-memory store keeps them: maps    *)
(* from ids to records, every operation under one lock.  A call that is    *)
(* refused changes nothing and is no step here.                            *)
(*                                                                         *)
(* MissionDeployment, whose transactions are those of the Postgres store,  *)
(* is shown to implement this specification (MissionDeploymentStore).      *)
(***************************************************************************)
EXTENDS Integers

CONSTANTS
    Callers         \* requests that may hold a copy of a deployment

VARIABLES
    latest,              \* latestOperationalIntent, by intent
    flightRecords,       \* a set of [id, status, intent, version]
    missions,            \* a set of [flight, version]
    missionDeployments,  \* a set of records with their key and creation order
    holds                \* per caller: no deployment, or the one it was given

storeVars == <<latest, flightRecords, missions, missionDeployments, holds>>

StoreInit ==
    /\ \A i \in DOMAIN latest : latest[i] = [version |-> 1, status |-> "accepted"]
    /\ flightRecords = {}
    /\ missions = {}
    /\ missionDeployments = {}
    /\ holds = [c \in Callers |-> {}]

-----------------------------------------------------------------------------
\* missionDeploymentOutstanding.
Outstanding(d) == d.status \in {"pending", "temporary_error", "outcome_unknown"}

\* hasOutstandingMissionDeploymentForFlightLocked, and ForIntentLocked.
FlightHasOutstanding(f) == \E d \in missionDeployments : d.flight = f.id /\ Outstanding(d)
IntentHasOutstanding(i) == \E f \in flightRecords : f.intent = i /\ FlightHasOutstanding(f)

\* currentMissionForFlightLocked: the highest version of the flight, if any.
CurrentMission(f) ==
    {m \in missions : /\ m.flight = f.id
                      /\ \A n \in missions : n.flight = f.id => n.version <= m.version}

\* The flight is planned for the latest version of its intent.
PlannedFor(f, statuses) ==
    /\ f.status = "planned"
    /\ latest[f.intent].version = f.version /\ latest[f.intent].status \in statuses

NoneActive == \A f \in flightRecords : f.status # "active"

-----------------------------------------------------------------------------
(* Operations.                                                             *)

\* updateOperationalIntentLocked, acceptOperationalIntentLocked,
\* ReplaceOperationalIntent.
ChangeIntent ==
    \E i \in DOMAIN latest :
        /\ ~IntentHasOutstanding(i)
        /\ \A j \in DOMAIN latest : j # i => latest'[j] = latest[j]
        /\ \/ latest'[i].version = latest[i].version
           \/ latest'[i] = [version |-> latest[i].version + 1, status |-> "draft"]

\* CreateFlightRecord.
CreateFlight ==
    \E f \in flightRecords' :
        /\ \A other \in flightRecords : other.id # f.id
        /\ flightRecords' = flightRecords \cup {f}

\* CreateMissionForPlannedFlight, createMissionLocked.
CreateMission ==
    \E f \in flightRecords :
        /\ PlannedFor(f, {"accepted", "active"})
        /\ ~FlightHasOutstanding(f)
        /\ missions' = missions \cup
             {[flight |-> f.id, version |-> 1 + (IF CurrentMission(f) = {} THEN 0
                ELSE (CHOOSE m \in CurrentMission(f) : TRUE).version)]}

\* CreateMissionDeploymentForPlannedFlight: the conditions on a new deployment
\* d and on the one that is replayed.
Admissible(d) ==
    /\ \E f \in flightRecords :
          /\ f.id = d.flight /\ PlannedFor(f, {"accepted", "active"})
          /\ [flight |-> d.flight, version |-> d.mission] \in CurrentMission(f)
    /\ NoneActive
    /\ \A e \in missionDeployments : \A f \in flightRecords :
          e.flight = f.id /\ f.status = "planned" /\ Outstanding(e) => e.key = d.key

\* createMissionDeploymentLocked: the next in creation order.
NewDeployment(d) ==
    /\ \A e \in missionDeployments : e.key # d.key /\ e.ord < d.ord
    /\ d.status = "pending" /\ d.rev = 0 /\ ~d.dispatched

CreateDeployment(c) ==
    \E d \in missionDeployments' :
        /\ Admissible(d)
        /\ \/ d \in missionDeployments /\ Outstanding(d) /\ UNCHANGED missionDeployments
           \/ NewDeployment(d) /\ missionDeployments' = missionDeployments \cup {d}
        /\ holds' = [holds EXCEPT ![c] = {d}]

\* UpdateMissionDeployment: the caller's copy is current, and what identifies
\* the command stays.
UpdateDeployment(c) ==
    \E d \in missionDeployments, e \in missionDeployments' :
        /\ holds[c] = {d}
        /\ missionDeployments' = (missionDeployments \ {d}) \cup {e}
        /\ e.rev = d.rev + 1
        /\ <<e.key, e.flight, e.mission, e.ord>> = <<d.key, d.flight, d.mission, d.ord>>
        /\ holds' \in {[holds EXCEPT ![c] = h] : h \in {{e}, {}}}

\* GetMissionDeploymentByIdempotencyKey, after a conflict; or the end of the call.
ReadDeployment(c) ==
    \E old \in holds[c], d \in missionDeployments :
        d.key = old.key /\ holds' = [holds EXCEPT ![c] = {d}]
Leave(c) == holds' = [holds EXCEPT ![c] = {}]

\* StartFlightWithCurrentMissionDeployment.
StartFlight ==
    \E f \in flightRecords :
        /\ PlannedFor(f, {"active"}) /\ NoneActive
        /\ \A g \in flightRecords : g.status = "planned" => ~FlightHasOutstanding(g)
        /\ \E d \in missionDeployments :
              /\ \A e \in missionDeployments : e.ord <= d.ord
              /\ d.flight = f.id
              /\ [flight |-> f.id, version |-> d.mission] \in CurrentMission(f)
              /\ d.status \in {"applied", "already_applied"}
        /\ flightRecords' =
             (flightRecords \ {f}) \cup {[f EXCEPT !.status = "active"]}

-----------------------------------------------------------------------------
(* Reads.                                                                  *)

\* missionDeploymentRestorePriority: uncertain, unfinished, finished.
Priority(d) == CASE d.status = "outcome_unknown" -> 0
                 [] d.status \in {"pending", "temporary_error"} -> 1
                 [] OTHER -> 2

\* Wrong: of two deployments with the same priority, the first one.
PreferredFirst(d, e) == \/ Priority(d) < Priority(e)
                        \/ Priority(d) = Priority(e) /\ d.ord <= e.ord

\* deploymentPreferredForRestore: by priority, and then the latest.
Preferred(d, e) == \/ Priority(d) < Priority(e)
                   \/ Priority(d) = Priority(e) /\ d.ord >= e.ord

\* What GetCurrentMissionDeploymentForFlight chooses from.
Restorable(f, d) ==
    /\ d.flight = f.id
    /\ \/ Outstanding(d)
       \/ [flight |-> d.flight, version |-> d.mission] \in CurrentMission(f)

\* GetCurrentMissionDeploymentForFlight.
CurrentDeployment(f) ==
    {d \in missionDeployments : /\ Restorable(f, d)
                                /\ \A e \in missionDeployments :
                                      Restorable(f, e) => Preferred(d, e)}

\* GetDeployedMissionForActiveFlight: verified by whichever deployment.
DeployedMission(f) ==
    {m \in CurrentMission(f) :
        /\ f.status = "active"
        /\ \E d \in missionDeployments :
              /\ d.flight = f.id /\ d.mission = m.version
              /\ d.status \in {"applied", "already_applied"}}

-----------------------------------------------------------------------------
StoreNext ==
    \/ ChangeIntent /\ UNCHANGED <<flightRecords, missions, missionDeployments, holds>>
    \/ /\ CreateFlight \/ StartFlight
       /\ UNCHANGED <<latest, missions, missionDeployments, holds>>
    \/ CreateMission /\ UNCHANGED <<latest, flightRecords, missionDeployments, holds>>
    \/ /\ \E c \in Callers : CreateDeployment(c) \/ UpdateDeployment(c)
       /\ UNCHANGED <<latest, flightRecords, missions>>
    \/ /\ \E c \in Callers : ReadDeployment(c) \/ Leave(c)
       /\ UNCHANGED <<latest, flightRecords, missions, missionDeployments>>

StoreSpec == StoreInit /\ [][StoreNext]_storeVars

=============================================================================
