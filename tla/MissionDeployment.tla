------------------------- MODULE MissionDeployment --------------------------
(***************************************************************************)
(* Deployment of missions to one aircraft: planned flights bound to an     *)
(* intent version, immutable mission versions, the durable deployment      *)
(* record that fences every other mutation while its outcome is open, and  *)
(* the DeployCurrentMission handlers that drive the onboard Agent through  *)
(* the Relay.                                                              *)
(*                                                                         *)
(* A handler runs in small steps: every store transaction and every Relay  *)
(* call is a step of its own, and it works on the copy of the deployment   *)
(* it read at admission.  Import, flight creation, flight start and the    *)
(* intent's transitions are one transaction each and are one step here.    *)
(* Their service-level reads are left out: the transaction repeats those   *)
(* checks under its locks.  Only the insert of a planned flight does not   *)
(* look at the intent again (see CreatePlannedFlight).                     *)
(*                                                                         *)
(* Time is kept per deployment: 0 before expires_at, 1 from expires_at to  *)
(* reconcile_until, 2 after it.  A handler compares the time it read       *)
(* before admission, not the current one.                                  *)
(*                                                                         *)
(* The Agent is external.  What is assumed of it is what the API relies    *)
(* on: commands are deduplicated by command id, a terminal outcome of a    *)
(* command is final, no command has a first effect after its expires_at,   *)
(* the mission's binding must match the active operation context, and an   *)
(* uncertain upload is resolved by reading the aircraft back.              *)
(*                                                                         *)
(* Definitions whose comment starts with "Wrong:" are not part of the      *)
(* specification.  Each states a plausible mistake in the definition that  *)
(* follows it, to show which property would notice.                        *)
(***************************************************************************)
EXTENDS Naturals, FiniteSets

CONSTANTS
    Flights,            \* flight records of the aircraft
    Intents,            \* operational intents of the aircraft
    Keys,               \* idempotency keys, one deployment each
    Handlers,           \* concurrent DeployCurrentMission requests
    None,               \* no flight, no mission, no intent
    MaxIntentVersion,   \* bound: versions of an intent
    MaxMission,         \* bound: mission versions of a flight
    MaxRequests,        \* bound: DeployCurrentMission requests
    MaxFaults           \* bound: unanswered or repeated calls, crashes

ASSUME MissionBoundsAssumption ==
    /\ MaxIntentVersion \in Nat \ {0} /\ MaxMission \in Nat
    /\ MaxRequests \in Nat /\ MaxFaults \in Nat

ASSUME MissionNamesAssumption ==
    /\ None \notin Flights \cup Intents
    /\ "garbled" \notin Flights
    /\ IsFiniteSet(Keys)

VARIABLES
    intents,   \* operational_intents: latest version and its status
    flights,   \* flight_records
    missions,  \* missions: current version of each flight, 0 for none
    deps,      \* mission_deployments, by idempotency key
    phase,     \* where the clock stands for each deployment
    pc, job,   \* per handler: next step, and what it has read
    agent,     \* the onboard Agent: context, onboard mission, command log
    late,      \* commands the Agent may still process unheard
    budget     \* what is left of the bounds

vars == <<intents, flights, missions, deps, phase, pc, job, agent, late, budget>>

-----------------------------------------------------------------------------
(* State.                                                                  *)

Outstanding == {"pending", "temporary_error", "outcome_unknown"}
Verified == {"applied", "already_applied"}
Failed == {"rejected", "binding_mismatch", "onboard_mission_mismatch"}
Terminal == Verified \cup Failed

Mission == Flights \X (1..MaxMission)

\* FlightRecord: the flight and the exact intent version it is bound to.
Flight == [status : {"absent", "planned", "active"},
           intent : Intents \cup {None}, version : 0..MaxIntentVersion]

\* MissionDeployment.  ord is its place in the database's creation order.
Deployment == [flight : Flights \cup {None}, mission : 0..MaxMission,
               status : Outstanding \cup Terminal \cup {"absent"},
               dispatched : BOOLEAN, rev : Nat, ord : Nat]

NoDeployment == [flight |-> None, mission |-> 0, status |-> "absent",
                 dispatched |-> FALSE, rev |-> 0, ord |-> 0]

\* What a handler holds: its request, the time it read, the deployment it was
\* given, whether it is a readback, and the status it is about to record.
Job == [key : Keys, flight : Flights, mission : 1..MaxMission, seen : 0..2,
        dep : Deployment, readback : BOOLEAN,
        want : Outstanding \cup Terminal]

Steps == {"idle", "create", "rebind", "clear", "context", "mark", "dispatch",
          "persist", "note"}

Command == [kind : {"clear", "set", "deploy"}, key : Keys, flight : Flights]

TypeOK ==
    /\ intents \in [Intents -> [version : 1..MaxIntentVersion,
                      status : {"draft", "accepted", "active", "ended"}]]
    /\ flights \in [Flights -> Flight]
    /\ missions \in [Flights -> 0..MaxMission]
    /\ deps \in [Keys -> Deployment]
    /\ phase \in [Keys -> 0..2]
    /\ pc \in [Handlers -> Steps]
    /\ job \in [Handlers -> Job \cup {None}]
    /\ agent \in [context : Flights \cup {None},
                  onboard : Mission \cup {<<None, 0>>, <<"garbled", 0>>},
                  log : [Keys -> {"none", "uncertain"} \cup Terminal]]
    /\ late \subseteq Command
    /\ budget \in [requests : 0..MaxRequests, faults : 0..MaxFaults]

Init ==
    /\ intents = [i \in Intents |-> [version |-> 1, status |-> "accepted"]]
    /\ flights = [f \in Flights |->
                    [status |-> "absent", intent |-> None, version |-> 0]]
    /\ missions = [f \in Flights |-> 0]
    /\ deps = [k \in Keys |-> NoDeployment]
    /\ phase = [k \in Keys |-> 0]
    /\ pc = [h \in Handlers |-> "idle"]
    /\ job = [h \in Handlers |-> None]
    /\ agent = [context |-> None, onboard |-> <<None, 0>>,
                log |-> [k \in Keys |-> "none"]]
    /\ late = {}
    /\ budget = [requests |-> MaxRequests, faults |-> MaxFaults]

-----------------------------------------------------------------------------
(* The fences.                                                             *)

Open(k) == deps[k].status \in Outstanding

\* Wrong: the fence forgets outcome_unknown, as if an uncertain command were
\* over.
FenceWithoutUnknown(f) ==
    \E k \in Keys : /\ deps[k].flight = f
                    /\ deps[k].status \in {"pending", "temporary_error"}

\* rejectOutstandingMissionDeploymentForFlight.
FlightFenced(f) == \E k \in Keys : Open(k) /\ deps[k].flight = f

\* rejectOutstandingMissionDeploymentForIntent.
IntentFenced(i) == \E f \in Flights : flights[f].intent = i /\ FlightFenced(f)

\* The flight is planned and bound to the latest version of its intent, which
\* is in one of the given states.
Bound(f, states) ==
    /\ flights[f].status = "planned"
    /\ LET i == flights[f].intent
       IN intents[i].version = flights[f].version /\ intents[i].status \in states

Deployable(f) == Bound(f, {"accepted", "active"}) /\ missions[f] > 0

NoActiveFlight == \A f \in Flights : flights[f].status # "active"

-----------------------------------------------------------------------------
(* Intents, flights and missions.                                          *)

\* Every transition of an intent passes the deployment fence in its
\* transaction: activation, completion or cancellation, replacement by a new
\* draft version, and that version's acceptance.
ChangeIntent(i) ==
    /\ ~IntentFenced(i)
    /\ \/ /\ intents[i].status = "accepted"
          /\ \A j \in Intents : intents[j].status # "active"
          /\ intents' = [intents EXCEPT ![i].status = "active"]
       \/ /\ intents[i].status # "ended"
          /\ intents' = [intents EXCEPT ![i].status = "ended"]
       \/ /\ intents[i].status = "accepted"
          /\ intents[i].version < MaxIntentVersion
          /\ intents' = [intents EXCEPT ![i] =
                           [version |-> @.version + 1, status |-> "draft"]]
       \/ /\ intents[i].status = "draft"
          /\ intents' = [intents EXCEPT ![i].status = "accepted"]
    /\ UNCHANGED <<flights, missions, deps, phase, pc, job, agent, late, budget>>

\* CreatePlannedFlight reads the intent and inserts the flight, bound to the
\* version it read.  Had the intent changed in between, the flight would be
\* one whose intent changed right after the insert: every later transaction
\* compares the binding again (Bound).
CreatePlannedFlight(f, i) ==
    /\ flights[f].status = "absent"
    /\ intents[i].status \in {"accepted", "active"}
    /\ flights' = [flights EXCEPT ![f] =
         [status |-> "planned", intent |-> i, version |-> intents[i].version]]
    /\ UNCHANGED <<intents, missions, deps, phase, pc, job, agent, late, budget>>

\* CreateMissionForPlannedFlight: the next immutable version becomes current.
ImportMission(f) ==
    /\ missions[f] < MaxMission
    /\ Bound(f, {"accepted", "active"})
    /\ ~FlightFenced(f)
    /\ missions' = [missions EXCEPT ![f] = @ + 1]
    /\ UNCHANGED <<intents, flights, deps, phase, pc, job, agent, late, budget>>

\* The aircraft's deployments in creation order: the latest one, and the one
\* admitted just before deployment k.
IsLatest(k) == deps[k].ord > 0 /\ \A j \in Keys : deps[j].ord <= deps[k].ord

\* Wrong: any verified deployment of the current mission will do, also one
\* that a later deployment has overwritten.
VerifiedOnce(f) ==
    \E k \in Keys : /\ deps[k].flight = f /\ deps[k].mission = missions[f]
                    /\ deps[k].status \in Verified

LatestIsVerified(f) ==
    \E k \in Keys : /\ IsLatest(k)
                    /\ deps[k].flight = f /\ deps[k].mission = missions[f]
                    /\ deps[k].status \in Verified

\* StartFlightWithCurrentMissionDeployment.
StartFlight(f) ==
    /\ Bound(f, {"active"})
    /\ NoActiveFlight
    /\ missions[f] > 0
    /\ \A g \in Flights : flights[g].status = "planned" => ~FlightFenced(g)
    /\ LatestIsVerified(f)
    /\ flights' = [flights EXCEPT ![f].status = "active"]
    /\ UNCHANGED <<intents, missions, deps, phase, pc, job, agent, late, budget>>

-----------------------------------------------------------------------------
(* The Agent.                                                              *)

\* SetOperationContext takes effect unless another context is active.
AgentSet(f) ==
    agent' = [agent EXCEPT !.context = IF @ = None THEN f ELSE @]

\* ClearOperationContext is conditional on the flight that is active.
AgentClear(f) ==
    agent' = [agent EXCEPT !.context = IF @ = f THEN None ELSE @]

\* What DeployMission may do to the aircraft and answer: the onboard mission,
\* which it reports by its digest, the log's entry for the command, and the
\* status it reports.  An upload may go wrong without the Agent noticing.
AgentOutcome(k) ==
    LET m == <<deps[k].flight, deps[k].mission>>
        on == agent.onboard
        is == agent.log[k]
        Says(o, l, s) == [onboard |-> o, log |-> l, status |-> s]
        ReadBack(s) == IF on = m THEN Says(on, "applied", s)
                       ELSE Says(on, "onboard_mission_mismatch",
                                     "onboard_mission_mismatch")
    IN CASE is = "applied" -> {Says(on, is, "already_applied")}
         [] is \in Terminal \ {"applied"} -> {Says(on, is, is)}
         [] is = "uncertain" -> {ReadBack("already_applied"),
                                 Says(on, is, "outcome_unknown")}
         [] is = "none" /\ agent.context # m[1] ->
              {Says(on, "binding_mismatch", "binding_mismatch")}
         [] is = "none" /\ agent.context = m[1] /\ phase[k] > 0 ->
              {Says(on, "rejected", "rejected")}
         [] OTHER ->
              {Says(m, "applied", "applied"), Says(on, "rejected", "rejected"),
               Says(on, "none", "temporary_error")}
              \cup {Says(<<"garbled", 0>>, s, s) :
                      s \in {"applied", "onboard_mission_mismatch"}}
              \cup {Says(o, "uncertain", "outcome_unknown") :
                      o \in {on, m, <<"garbled", 0>>}}

AgentDeploys(k, out) ==
    agent' = [agent EXCEPT !.onboard = out.onboard, !.log[k] = out.log]

\* A command whose caller is gone, or a second copy of one, is processed.
LateCommand ==
    \E c \in late :
        /\ CASE c.kind = "clear" -> AgentClear(c.flight)
             [] c.kind = "set" -> AgentSet(c.flight)
             [] c.kind = "deploy" ->
                  \E out \in AgentOutcome(c.key) : AgentDeploys(c.key, out)
        /\ late' = late \ {c}
        /\ UNCHANGED <<intents, flights, missions, deps, phase, pc, job, budget>>

\* A call through the Relay is delivered and answered, delivered while a
\* repeated copy stays behind (a first attempt that looked unavailable), ...
Delivered(c) ==
    \/ UNCHANGED <<late, budget>>
    \/ /\ budget.faults > 0
       /\ budget' = [budget EXCEPT !.faults = @ - 1]
       /\ late' = late \cup {c}

\* ... or ends without a usable answer: the Agent may process it later or never.
Unanswered(c) ==
    /\ budget.faults > 0
    /\ budget' = [budget EXCEPT !.faults = @ - 1]
    /\ late' = late \cup {c}
    /\ UNCHANGED agent

-----------------------------------------------------------------------------
(* DeployCurrentMission.                                                   *)

Goto(h, step) == pc' = [pc EXCEPT ![h] = step]

Return(h) == Goto(h, "idle") /\ job' = [job EXCEPT ![h] = None]

Mine(h) == deps[job[h].key]

\* Wrong: the deployment is written without comparing its revision.
UpdateBlindly(h, d) ==
    deps' = [deps EXCEPT ![job[h].key] = [d EXCEPT !.rev = Mine(h).rev + 1]]

\* UpdateMissionDeployment: compare the revision the handler holds, and set.
Update(h, d) ==
    deps' = [deps EXCEPT ![job[h].key] =
               IF @.rev = d.rev THEN [d EXCEPT !.rev = @ + 1] ELSE @]

Current(h, d) == Mine(h).rev = d.rev

\* The request is looked up, the binding validated, and the time read.  A key
\* that is taken replays its own deployment; requests that are answered
\* without a change of state (a terminal replay, another binding under the
\* same key, a mission that is not current) do not start.
Begin(h, k, f) ==
    /\ pc[h] = "idle"
    /\ budget.requests > 0
    /\ Deployable(f)
    /\ \/ deps[k].status = "absent"
       \/ Open(k) /\ deps[k].flight = f /\ deps[k].mission = missions[f]
    /\ Goto(h, "create")
    /\ job' = [job EXCEPT ![h] =
         [key |-> k, flight |-> f, mission |-> missions[f], seen |-> phase[k],
          dep |-> NoDeployment, readback |-> FALSE, want |-> "pending"]]
    /\ budget' = [budget EXCEPT !.requests = @ - 1]
    /\ UNCHANGED <<intents, flights, missions, deps, phase, agent, late>>

\* Wrong: admission looks for outstanding deployments of its own flight only.
AdmitsPerFlight(k, f, m) ==
    /\ Deployable(f) /\ NoActiveFlight /\ missions[f] = m
    /\ \A j \in Keys \ {k} : deps[j].flight = f => ~Open(j)

\* The conditions of CreateMissionDeploymentForPlannedFlight, under the locks
\* of the flight, the aircraft and the intent.
Admits(k, f, m) ==
    /\ Deployable(f) /\ NoActiveFlight /\ missions[f] = m
    /\ \A j \in Keys \ {k} :
         Open(j) => flights[deps[j].flight].status # "planned"

\* Where admission leads, by the time the handler read: a command that has
\* expired may only be read back, and only if its dispatch was recorded, its
\* outcome is unknown and the reconciliation window is open.
Resume(h, d) ==
    LET expired == job[h].seen > 0
        recover == /\ d.status = "outcome_unknown" /\ d.dispatched
                   /\ job[h].seen < 2
    IN IF expired /\ ~recover
         THEN /\ Goto(h, "note")
              /\ job' = [job EXCEPT ![h].dep = d, ![h].want = "outcome_unknown"]
         ELSE /\ Goto(h, "rebind")
              /\ job' = [job EXCEPT ![h].dep = d,
                                    ![h].readback = expired /\ d.dispatched]

NextOrder == Cardinality({j \in Keys : deps[j].ord > 0}) + 1

CreateDeployment(h) ==
    LET k == job[h].key
        f == job[h].flight
        m == job[h].mission
        d == [NoDeployment EXCEPT !.flight = f, !.mission = m,
                                  !.status = "pending", !.ord = NextOrder]
        same == deps[k].flight = f /\ deps[k].mission = m
    IN /\ pc[h] = "create"
       /\ \/ /\ deps[k].status = "absent" /\ Admits(k, f, m)
             /\ deps' = [deps EXCEPT ![k] = d]
             /\ Resume(h, d)
          \/ /\ Open(k) /\ same /\ Admits(k, f, m)
             /\ Resume(h, deps[k])
             /\ UNCHANGED deps
          \/ /\ \/ deps[k].status \in Terminal
                \/ deps[k].status # "absent" /\ ~same
                \/ ~Admits(k, f, m)
             /\ Return(h)
             /\ UNCHANGED deps
       /\ UNCHANGED <<intents, flights, missions, phase, agent, late, budget>>

\* All bindings are read again before anything is sent.
Rebind(h) ==
    /\ pc[h] = "rebind"
    /\ \/ /\ Deployable(job[h].flight)
          /\ missions[job[h].flight] = job[h].dep.mission
          /\ Goto(h, IF job[h].readback THEN "mark" ELSE "clear")
          /\ UNCHANGED job
       \/ /\ \/ ~Deployable(job[h].flight)
             \/ missions[job[h].flight] # job[h].dep.mission
          /\ Return(h)
    /\ UNCHANGED <<intents, flights, missions, deps, phase, agent, late, budget>>

\* A context command failed: the outcome stays unknown once the mission was
\* dispatched, and is a temporary error before.
ContextFailed(h) ==
    /\ Goto(h, "note")
    /\ job' = [job EXCEPT ![h].want =
                 IF job[h].dep.dispatched THEN "outcome_unknown"
                                          ELSE "temporary_error"]

\* The time is read again once the old context is cleared.
AfterClear(h) ==
    LET expired == phase[job[h].key] > 0
    IN \/ ~expired /\ Goto(h, "context") /\ UNCHANGED job
       \/ /\ expired /\ job[h].dep.status = "outcome_unknown"
          /\ Goto(h, "mark")
          /\ job' = [job EXCEPT ![h].readback = TRUE]
       \/ /\ expired /\ job[h].dep.status # "outcome_unknown"
          /\ Goto(h, "note")
          /\ job' = [job EXCEPT ![h].want = "outcome_unknown"]

\* GetPreviousMissionDeploymentForAircraft, when it is of another flight.
OldFlights(h) ==
    {deps[j].flight : j \in {j \in Keys : deps[j].ord = job[h].dep.ord - 1}}
        \ {None, job[h].flight}

ClearContext(h) ==
    LET c(f) == [kind |-> "clear", key |-> job[h].key, flight |-> f]
    IN /\ pc[h] = "clear"
       /\ \/ /\ OldFlights(h) = {}
             /\ AfterClear(h)
             /\ UNCHANGED <<agent, late, budget>>
          \/ \E f \in OldFlights(h) :
               AgentClear(f) /\ AfterClear(h) /\ Delivered(c(f))
          \/ \E f \in OldFlights(h) : ContextFailed(h) /\ Unanswered(c(f))
       /\ UNCHANGED <<intents, flights, missions, deps, phase>>

EnsureContext(h) ==
    LET f == job[h].flight
        c == [kind |-> "set", key |-> job[h].key, flight |-> f]
        tooLate == /\ phase[job[h].key] > 0
                   /\ job[h].dep.status # "outcome_unknown"
    IN /\ pc[h] = "context"
       /\ \/ /\ AgentSet(f) /\ agent'.context = f /\ Delivered(c)
             /\ IF tooLate
                  THEN /\ Goto(h, "note")
                       /\ job' = [job EXCEPT ![h].want = "outcome_unknown"]
                  ELSE Goto(h, "mark") /\ UNCHANGED job
          \/ /\ AgentSet(f) /\ agent'.context # f /\ Delivered(c)
             /\ ContextFailed(h)
          \/ ContextFailed(h) /\ Unanswered(c)
       /\ UNCHANGED <<intents, flights, missions, deps, phase>>

\* An expiry or a failed context command is recorded, unless the deployment
\* has moved on; either way the request is over.
NoteOutcome(h) ==
    /\ pc[h] = "note"
    /\ Update(h, [job[h].dep EXCEPT !.status = job[h].want])
    /\ Return(h)
    /\ UNCHANGED <<intents, flights, missions, phase, agent, late, budget>>

\* Wrong: a dispatch in progress gets a status of its own, unknown to every
\* fence.
DispatchingStatus(d) == [d EXCEPT !.dispatched = TRUE, !.status = "dispatching"]

\* The record of a dispatch that is about to begin.
Dispatching(d) == [d EXCEPT !.dispatched = TRUE, !.status = "outcome_unknown"]

\* The dispatch is recorded before the mission is sent.
MarkDispatch(h) ==
    LET d == Dispatching(job[h].dep)
    IN /\ pc[h] = "mark"
       /\ Update(h, d)
       /\ \/ /\ Current(h, d)
             /\ Goto(h, "dispatch")
             /\ job' = [job EXCEPT ![h].dep = [d EXCEPT !.rev = @ + 1]]
          \/ ~Current(h, d) /\ Return(h)
       /\ UNCHANGED <<intents, flights, missions, phase, agent, late, budget>>

\* applyMissionDeploymentResult: a success whose onboard digest is not the
\* mission's is a mismatch.
ResultStatus(h, out) ==
    IF out.status \in Verified
         /\ out.onboard # <<job[h].dep.flight, job[h].dep.mission>>
      THEN "onboard_mission_mismatch"
      ELSE out.status

Dispatch(h) ==
    LET k == job[h].key
        c == [kind |-> "deploy", key |-> k, flight |-> job[h].flight]
    IN /\ pc[h] = "dispatch"
       /\ Goto(h, "persist")
       /\ \/ \E out \in AgentOutcome(k) :
               /\ AgentDeploys(k, out)
               /\ Delivered(c)
               /\ job' = [job EXCEPT ![h].want = ResultStatus(h, out)]
          \/ /\ Unanswered(c)
             /\ job' = [job EXCEPT ![h].want = "outcome_unknown"]
       /\ UNCHANGED <<intents, flights, missions, deps, phase>>

\* Wrong: a conflict ends the loop, and a known outcome is lost.
GiveUpOnConflict(h, d) ==
    ~Current(h, d) /\ Return(h)

\* Wrong: the loop tries again with the revision that just failed.
RetrySameRevision(h, d) ==
    /\ ~Current(h, d)
    /\ \/ /\ Open(job[h].key) /\ job[h].want \in Terminal
          /\ UNCHANGED <<pc, job>>
       \/ /\ ~(Open(job[h].key) /\ job[h].want \in Terminal)
          /\ Return(h)

\* A conflict: a terminal record wins, an outcome that is not terminal yields,
\* and a terminal outcome is tried again on top of the record just read.
OnConflict(h, d) ==
    /\ ~Current(h, d)
    /\ \/ /\ Open(job[h].key) /\ job[h].want \in Terminal
          /\ job' = [job EXCEPT ![h].dep = Mine(h)]
          /\ UNCHANGED pc
       \/ /\ ~(Open(job[h].key) /\ job[h].want \in Terminal)
          /\ Return(h)

\* persistCorrelatedMissionDeploymentResult.
PersistResult(h) ==
    LET d == [job[h].dep EXCEPT !.status = job[h].want]
    IN /\ pc[h] = "persist"
       /\ Update(h, d)
       /\ \/ Current(h, d) /\ Return(h)
          \/ OnConflict(h, d)
       /\ UNCHANGED <<intents, flights, missions, phase, agent, late, budget>>

\* The request's process ends or its context is cancelled between two steps.
Crash(h) ==
    /\ pc[h] # "idle" /\ budget.faults > 0
    /\ budget' = [budget EXCEPT !.faults = @ - 1]
    /\ Return(h)
    /\ UNCHANGED <<intents, flights, missions, deps, phase, agent, late>>

\* expires_at, then reconcile_until, of a deployment passes.
Tick(k) ==
    /\ deps[k].ord > 0 /\ phase[k] < 2
    /\ phase' = [phase EXCEPT ![k] = @ + 1]
    /\ UNCHANGED <<intents, flights, missions, deps, pc, job, agent, late, budget>>

-----------------------------------------------------------------------------

Handle(h) ==
    \/ CreateDeployment(h) \/ Rebind(h) \/ ClearContext(h) \/ EnsureContext(h)
    \/ NoteOutcome(h) \/ MarkDispatch(h) \/ Dispatch(h) \/ PersistResult(h)

Next ==
    \/ \E i \in Intents : ChangeIntent(i)
    \/ \E f \in Flights, i \in Intents : CreatePlannedFlight(f, i)
    \/ \E f \in Flights : ImportMission(f)
    \/ \E f \in Flights : StartFlight(f)
    \/ \E h \in Handlers, k \in Keys, f \in Flights : Begin(h, k, f)
    \/ \E h \in Handlers : Handle(h)
    \/ \E h \in Handlers : Crash(h)
    \/ \E k \in Keys : Tick(k)
    \/ LateCommand

Spec == Init /\ [][Next]_vars

\* A request runs to its end: every call it makes has a deadline.
FairSpec == Spec /\ \A h \in Handlers : WF_vars(Handle(h))

-----------------------------------------------------------------------------
(* Properties.                                                             *)

\* While a flight is active, the aircraft carries exactly the flight's current
\* mission: no deployment of another flight or of an older mission, late or
\* repeated, has overwritten what StartFlight verified.
ActiveFlightHasItsMission ==
    \A f \in Flights : flights[f].status = "active" =>
        agent.onboard = <<f, missions[f]>>

\* At most one deployment of the aircraft is open, and its flight is still
\* planned: the durable record is the one authorization to touch the aircraft.
OneOpenDeployment ==
    /\ \A j, k \in Keys : Open(j) /\ Open(k) => j = k
    /\ \A k \in Keys : Open(k) => flights[deps[k].flight].status = "planned"

\* Nothing a command was authorized by is withdrawn before it takes effect:
\* whenever the onboard mission changes, the deployment is open and its
\* dispatch recorded, its flight is planned and bound to the current accepted
\* or active intent version, its mission is current, and no flight is active.
EffectIsAuthorized ==
    [][\A k \in Keys :
         agent'.onboard # agent.onboard /\ agent'.log[k] # agent.log[k] =>
           /\ Open(k) /\ deps[k].dispatched
           /\ Deployable(deps[k].flight) /\ NoActiveFlight
           /\ missions[deps[k].flight] = deps[k].mission]_vars

\* No write takes back what is known of a command: a terminal status stays,
\* and so does the record that its dispatch began.
EvidenceIsKept ==
    [][\A k \in Keys :
         /\ deps[k].status \in Terminal => deps'[k].status = deps[k].status
         /\ deps[k].dispatched => deps'[k].dispatched]_vars

\* A handler that learned a terminal outcome does not return before the
\* deployment is terminal, however many retries overtake its write.
KnownOutcomeIsRecorded ==
    [][\A h \in Handlers :
         /\ pc[h] = "persist" /\ job[h].want \in Terminal
         /\ pc'[h] = "idle" /\ budget' = budget
         => deps'[job[h].key].status \in Terminal]_vars

\* Every request returns: the loop that persists a result cannot be kept
\* going, as the retries that conflict with it end themselves.
RequestsReturn ==
    \A h \in Handlers : pc[h] # "idle" ~> pc[h] = "idle"

\* After expiry only a command whose dispatch-start marker was persisted is
\* sent again for readback (the contract of DeployCurrentMission).
ReadbackWasDispatched ==
    \A h \in Handlers :
        pc[h] = "mark" /\ job[h].readback => deps[job[h].key].dispatched

=============================================================================
