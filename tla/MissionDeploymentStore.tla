----------------------- MODULE MissionDeploymentStore -----------------------
(***************************************************************************)
(* MissionDeployment, whose transactions are those of the Postgres store,  *)
(* as an implementation of MissionStore, the in-memory store.              *)
(***************************************************************************)
EXTENDS MissionDeployment

Keyed(k, d) == [key |-> k, flight |-> d.flight, mission |-> d.mission,
                status |-> d.status, dispatched |-> d.dispatched,
                rev |-> d.rev, ord |-> d.ord]

FlightRecord(f) == [id |-> f, status |-> flights[f].status,
                    intent |-> flights[f].intent, version |-> flights[f].version]

\* The rows as maps, and the copy of its deployment each request holds.
Store == INSTANCE MissionStore WITH
    Callers <- Handlers,
    latest <- intents,
    flightRecords <-
        {FlightRecord(f) : f \in {f \in Flights : flights[f].status # "absent"}},
    missions <-
        {[flight |-> m[1], version |-> m[2]] :
            m \in {m \in Mission : m[2] <= missions[m[1]]}},
    missionDeployments <-
        {Keyed(k, deps[k]) : k \in {k \in Keys : deps[k].status # "absent"}},
    holds <-
        [h \in Handlers |->
            IF pc[h] \in {"idle", "create"} THEN {}
            ELSE {Keyed(job[h].key, job[h].dep)}]

\* Every transaction of the mission services is one operation of the in-memory
\* store, with its fences: a deployment is admitted for the current mission of
\* a planned flight of an idle aircraft, and changed only by a request that
\* holds its current revision.
ImplementsMissionStore == Store!StoreSpec

\* What an operator is shown is so.  The deployment restored for a flight is
\* the open one as long as there is one, so that a fence is not overlooked;
\* once the flight is started, it is one that was verified, and the mission
\* shown as commanded is on board.
ShownIsSo ==
    \A f \in Flights : flights[f].status # "absent" =>
        LET shown == Store!CurrentDeployment(FlightRecord(f)) IN
        /\ FlightFenced(f) => \E d \in shown : Store!Outstanding(d)
        /\ flights[f].status = "active" =>
              /\ shown # {} /\ \A d \in shown : d.status \in Verified
              /\ {<<m.flight, m.version>> : m \in Store!DeployedMission(FlightRecord(f))}
                    = {agent.onboard}

=============================================================================
