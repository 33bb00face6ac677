---------------------- MODULE MissionDeploymentProofs -----------------------
(***************************************************************************)
(* Proofs about MissionDeployment and MissionDeploymentStore for every     *)
(* number of flights, intents, idempotency keys, handlers, requests and    *)
(* faults.                                                                 *)
(*                                                                         *)
(* The argument: while a deployment is open it is the latest one of the    *)
(* aircraft and everything it was admitted on still holds, because every   *)
(* transaction that could change it is fenced.  So at most one is open.  A *)
(* command changes the onboard mission only if the Agent has no entry for  *)
(* it; then no handler can have learned a terminal outcome of it, so its   *)
(* deployment, whose dispatch was recorded before the command was sent, is *)
(* still open.  A handler writes only on the revision it holds, and then   *)
(* its copy is the record itself.                                          *)
(*                                                                         *)
(* What is shown of a flight is so, because the open deployment is the     *)
(* only one, so that its priority is the lowest, and because the latest    *)
(* deployment of a started flight is verified and is the last one: a       *)
(* flight that is active lets none be admitted.  For the refinement, the   *)
(* copy that a handler holds with the record's revision is the record, so  *)
(* that a write takes away the record that is held and puts another in its *)
(* place.                                                                  *)
(***************************************************************************)
EXTENDS MissionDeploymentStore, FiniteSetTheorems, TLAPS

\* A flight that exists is bound to an intent.
FlightInv ==
    \A f \in Flights : flights[f].status # "absent" => flights[f].intent \in Intents

\* A key without a deployment has the empty record; a deployment names the
\* flight, the mission and its place in the creation order.
RecordInv ==
    \A k \in Keys :
        \/ deps[k] = NoDeployment
        \/ /\ deps[k].status # "absent"
           /\ deps[k].flight \in Flights
           /\ deps[k].mission > 0 /\ deps[k].ord > 0

Admitted == {k \in Keys : deps[k].ord > 0}

\* Places in the creation order are distinct and without gaps at the end.
OrderInv ==
    /\ \A k \in Keys : deps[k].ord <= Cardinality(Admitted)
    /\ \A j, k \in Keys : deps[j].ord = deps[k].ord /\ deps[k].ord > 0 => j = k

\* While a deployment is open it is the latest, and what it was admitted on
\* still holds.
Authorized(k) ==
    /\ Deployable(deps[k].flight) /\ NoActiveFlight
    /\ missions[deps[k].flight] = deps[k].mission

OpenInv == \A k \in Keys : Open(k) => Authorized(k) /\ IsLatest(k)

Onboard(k) == agent.onboard = <<deps[k].flight, deps[k].mission>>

\* A handler past admission: its copy is an earlier or the current state of
\* the record, which was open; it has the record's identity.
CopyInv(h) ==
    LET d == job[h].dep
        r == deps[job[h].key]
    IN /\ r.status # "absent" /\ d.status \in Outstanding
       /\ d.flight = r.flight /\ d.mission = r.mission /\ d.ord = r.ord
       /\ d.rev <= r.rev
       /\ d.rev = r.rev => d = r

\* What a handler knows at each of its steps.
HandlerInv(h) ==
    /\ pc[h] # "idle" => job[h] \in Job
    /\ pc[h] \notin {"idle", "create"} => CopyInv(h)
    /\ pc[h] = "note" => job[h].want \in Outstanding
    /\ pc[h] = "dispatch" => deps[job[h].key].dispatched
    /\ pc[h] = "persist" =>
          /\ job[h].want \in Terminal => agent.log[job[h].key] # "none"
          /\ job[h].want \in Verified /\ Open(job[h].key) => Onboard(job[h].key)

HandlersInv == \A h \in Handlers : HandlerInv(h)

\* A deploy command under way has its dispatch on record.
LateInv == \A c \in late : c.kind = "deploy" => deps[c.key].dispatched

\* A terminal record comes from the Agent's log, and the latest verified one
\* says what is on board.
LogInv ==
    \A k \in Keys :
        /\ deps[k].status \in Terminal => agent.log[k] # "none"
        /\ deps[k].status \in Verified /\ IsLatest(k) => Onboard(k)

IInv ==
    /\ TypeOK /\ FlightInv /\ RecordInv /\ OrderInv /\ OpenInv
    /\ HandlersInv /\ LateInv /\ LogInv
    /\ ActiveFlightHasItsMission

-----------------------------------------------------------------------------

(* The Agent's answers.                                                    *)

\* Every answer of DeployMission is of the expected type.  A terminal answer
\* leaves an entry in the log, entries stay, and only a command without one
\* changes what is on board.
LEMMA OutcomeFacts ==
    ASSUME TypeOK, NEW k \in Keys, NEW out \in AgentOutcome(k)
    PROVE  /\ out.status \in Outstanding \cup Terminal
           /\ out.log \in {"none", "uncertain"} \cup Terminal
           /\ out.status \in Terminal => out.log # "none"
           /\ out.log = "none" => agent.log[k] = "none"
           /\ out.onboard # agent.onboard => agent.log[k] = "none"
           /\ out.onboard \in {agent.onboard, <<"garbled", 0>>,
                               <<deps[k].flight, deps[k].mission>>}
  <1>1. agent.log[k] \in {"none", "uncertain"} \cup Terminal
    BY DEF TypeOK
  <1>2. CASE agent.log[k] = "applied"
    BY <1>2 DEF AgentOutcome, Terminal, Verified, Failed
  <1>3. CASE agent.log[k] \in Terminal \ {"applied"}
    BY <1>3 DEF AgentOutcome, Terminal, Verified, Failed
  <1>4. CASE agent.log[k] = "uncertain"
    BY <1>4 DEF AgentOutcome, Terminal, Verified, Failed, Outstanding
  <1>5. CASE agent.log[k] = "none" /\ agent.context # deps[k].flight
    BY <1>5 DEF AgentOutcome, Terminal, Verified, Failed, Outstanding
  <1>6. CASE agent.log[k] = "none" /\ agent.context = deps[k].flight /\ phase[k] > 0
    BY <1>6 DEF AgentOutcome, Terminal, Verified, Failed, Outstanding
  <1>7. CASE agent.log[k] = "none" /\ agent.context = deps[k].flight /\ ~(phase[k] > 0)
    BY <1>7 DEF AgentOutcome, Terminal, Verified, Failed, Outstanding
  <1> QED BY <1>1, <1>2, <1>3, <1>4, <1>5, <1>6, <1>7

-----------------------------------------------------------------------------
(* Initially.                                                              *)

\* No deployment, no flight, nothing under way.
LEMMA InitInv == Init => IInv
  <1> SUFFICES ASSUME Init PROVE IInv
    OBVIOUS
  <1>0. USE MissionBoundsAssumption, MissionNamesAssumption
  <1>1. NoDeployment \in Deployment
    BY DEF NoDeployment, Deployment
  <1>2. TypeOK
    <2>1. flights \in [Flights -> Flight]
      BY DEF Init, Flight
    <2>2. deps \in [Keys -> Deployment]
      BY <1>1 DEF Init
    <2>3. pc \in [Handlers -> Steps] /\ job \in [Handlers -> Job \cup {None}]
      BY DEF Init, Steps
    <2>4. intents \in [Intents -> [version : 1..MaxIntentVersion,
                         status : {"draft", "accepted", "active", "ended"}]]
      BY DEF Init
    <2>5. /\ missions \in [Flights -> 0..MaxMission] /\ phase \in [Keys -> 0..2]
          /\ late \subseteq Command
          /\ budget \in [requests : 0..MaxRequests, faults : 0..MaxFaults]
      BY DEF Init
    <2>6. agent \in [context : Flights \cup {None},
                     onboard : Mission \cup {<<None, 0>>, <<"garbled", 0>>},
                     log : [Keys -> {"none", "uncertain"} \cup Terminal]]
      BY DEF Init
    <2> QED BY <2>1, <2>2, <2>3, <2>4, <2>5, <2>6 DEF TypeOK
  <1>3. FlightInv /\ ActiveFlightHasItsMission
    BY DEF Init, FlightInv, ActiveFlightHasItsMission
  <1>4. RecordInv /\ \A k \in Keys : deps[k] = NoDeployment
    BY DEF Init, RecordInv
  <1>5. OrderInv
    <2>1. Admitted = {}
      BY <1>4 DEF Admitted, NoDeployment
    <2>2. Cardinality(Admitted) = 0
      BY <2>1, FS_EmptySet
    <2> QED BY <2>2, <1>4 DEF OrderInv, NoDeployment
  <1>6. OpenInv /\ LogInv
    BY <1>4 DEF OpenInv, LogInv, Open, NoDeployment, Outstanding, Terminal,
                Verified, Failed
  <1>7. HandlersInv /\ LateInv
    BY DEF Init, HandlersInv, HandlerInv, LateInv
  <1> QED BY <1>2, <1>3, <1>4, <1>5, <1>6, <1>7 DEF IInv

-----------------------------------------------------------------------------

(* Users: intents, flights and missions.                                   *)

\* Whatever leaves deployments, handlers and Agent alone keeps what is said of
\* them.
LEMMA UserStep ==
    ASSUME IInv, UNCHANGED <<deps, pc, job, agent, late>>
    PROVE  /\ RecordInv' /\ OrderInv' /\ HandlersInv' /\ LateInv' /\ LogInv'
           /\ \A k \in Keys : (Open(k)' <=> Open(k)) /\ (IsLatest(k)' <=> IsLatest(k))
  <1>1. RecordInv' /\ OrderInv' /\ LateInv'
    BY DEF IInv, RecordInv, OrderInv, Admitted, LateInv
  <1>2. \A k \in Keys : /\ Open(k)' <=> Open(k)
                        /\ IsLatest(k)' <=> IsLatest(k)
                        /\ Onboard(k)' <=> Onboard(k)
    BY DEF Open, IsLatest, Onboard
  <1>3. LogInv'
    BY <1>2 DEF IInv, LogInv
  <1>4. HandlersInv'
    <2> SUFFICES ASSUME NEW h \in Handlers PROVE HandlerInv(h)'
      BY DEF HandlersInv
    <2>1. HandlerInv(h)
      BY DEF IInv, HandlersInv
    <2> QED BY <2>1 DEF HandlerInv, CopyInv, Open, Onboard
  <1> QED BY <1>1, <1>2, <1>3, <1>4

\* The fence keeps what an open deployment was admitted on.
LEMMA ChangeIntentStep ==
    ASSUME IInv, NEW i \in Intents, ChangeIntent(i)
    PROVE  IInv'
  <1>0. USE MissionBoundsAssumption, MissionNamesAssumption
  <1>1. UNCHANGED <<flights, missions, deps, phase, pc, job, agent, late, budget>>
    BY DEF ChangeIntent
  <1>2. PICK r \in [version : 1..MaxIntentVersion,
                    status : {"draft", "accepted", "active", "ended"}] :
           intents' = [intents EXCEPT ![i] = r]
    BY DEF ChangeIntent, IInv, TypeOK
  <1>3. TypeOK'
    BY <1>1, <1>2 DEF IInv, TypeOK
  <1>4. FlightInv' /\ ActiveFlightHasItsMission'
    BY <1>1 DEF IInv, FlightInv, ActiveFlightHasItsMission
  <1>5. OpenInv'
    <2> SUFFICES ASSUME NEW k \in Keys, Open(k)
                 PROVE  Authorized(k)' /\ IsLatest(k)'
      BY <1>1, UserStep DEF OpenInv
    <2>1. Authorized(k) /\ IsLatest(k) /\ deps[k].flight \in Flights
      BY DEF IInv, OpenInv, RecordInv, Open, NoDeployment, Outstanding
    <2>2. flights[deps[k].flight].intent \in Intents \ {i}
      BY <2>1 DEF ChangeIntent, IntentFenced, FlightFenced, IInv, FlightInv,
                  Authorized, Deployable, Bound
    <2>3. intents'[flights[deps[k].flight].intent] = intents[flights[deps[k].flight].intent]
      BY <1>2, <2>2 DEF IInv, TypeOK
    <2>4. Deployable(deps[k].flight)' /\ NoActiveFlight'
      BY <1>1, <2>1, <2>3 DEF Authorized, Deployable, Bound, NoActiveFlight
    <2>5. IsLatest(k)'
      BY <1>1, <2>1, UserStep
    <2> QED BY <1>1, <2>1, <2>4, <2>5 DEF Authorized
  <1> QED BY <1>1, <1>3, <1>4, <1>5, UserStep DEF IInv

\* A new flight is not one that a deployment is open for.
LEMMA CreatePlannedFlightStep ==
    ASSUME IInv, NEW f \in Flights, NEW i \in Intents, CreatePlannedFlight(f, i)
    PROVE  IInv'
  <1>1. UNCHANGED <<intents, missions, deps, phase, pc, job, agent, late, budget>>
    BY DEF CreatePlannedFlight
  <1>2. /\ flights' = [flights EXCEPT ![f] =
              [status |-> "planned", intent |-> i, version |-> intents[i].version]]
        /\ flights[f].status = "absent"
    BY DEF CreatePlannedFlight
  <1>3. TypeOK'
    <2>1. intents[i].version \in 0..MaxIntentVersion
      BY MissionBoundsAssumption DEF IInv, TypeOK
    <2>2. flights' \in [Flights -> Flight]
      BY <1>2, <2>1 DEF IInv, TypeOK, Flight
    <2> QED BY <1>1, <2>2 DEF IInv, TypeOK
  <1>4. /\ \A g \in Flights \ {f} : flights'[g] = flights[g]
        /\ flights'[f] = [status |-> "planned", intent |-> i,
                          version |-> intents[i].version]
    BY <1>2 DEF IInv, TypeOK
  <1>5. FlightInv' /\ ActiveFlightHasItsMission'
    BY <1>1, <1>4 DEF IInv, FlightInv, ActiveFlightHasItsMission
  <1>6. OpenInv'
    <2> SUFFICES ASSUME NEW k \in Keys, Open(k)
                 PROVE  Authorized(k)' /\ IsLatest(k)'
      BY <1>1, UserStep DEF OpenInv
    <2>1. Authorized(k) /\ IsLatest(k) /\ deps[k].flight \in Flights
      BY DEF IInv, OpenInv, RecordInv, Open, NoDeployment, Outstanding
    <2>2. deps[k].flight # f
      BY <2>1, <1>2 DEF Authorized, Deployable, Bound
    <2>3. flights'[deps[k].flight] = flights[deps[k].flight]
      BY <1>4, <2>1, <2>2
    <2>4. Deployable(deps[k].flight)'
      BY <1>1, <2>1, <2>3 DEF Authorized, Deployable, Bound
    <2>5. NoActiveFlight'
      BY <1>4, <2>1 DEF Authorized, NoActiveFlight
    <2>6. IsLatest(k)'
      BY <1>1, <2>1, UserStep
    <2> QED BY <1>1, <2>1, <2>4, <2>5, <2>6 DEF Authorized
  <1> QED BY <1>1, <1>3, <1>5, <1>6, UserStep DEF IInv

\* Nor is a mission imported over an open deployment.
LEMMA ImportMissionStep ==
    ASSUME IInv, NEW f \in Flights, ImportMission(f)
    PROVE  IInv'
  <1>1. UNCHANGED <<intents, flights, deps, phase, pc, job, agent, late, budget>>
    BY DEF ImportMission
  <1>2. /\ missions' = [missions EXCEPT ![f] = @ + 1] /\ missions[f] < MaxMission
        /\ flights[f].status = "planned" /\ ~FlightFenced(f)
    BY DEF ImportMission, Bound
  <1>3. missions' \in [Flights -> 0..MaxMission]
    BY <1>2, MissionBoundsAssumption DEF IInv, TypeOK
  <1>4. \A g \in Flights \ {f} : missions'[g] = missions[g]
    BY <1>2 DEF IInv, TypeOK
  <1>5. TypeOK' /\ FlightInv' /\ ActiveFlightHasItsMission'
    BY <1>1, <1>2, <1>3, <1>4 DEF IInv, TypeOK, FlightInv, ActiveFlightHasItsMission
  <1>6. OpenInv'
    <2> SUFFICES ASSUME NEW k \in Keys, Open(k)
                 PROVE  Authorized(k)' /\ IsLatest(k)'
      BY <1>1, UserStep DEF OpenInv
    <2>1. Authorized(k) /\ IsLatest(k) /\ deps[k].flight \in Flights
      BY DEF IInv, OpenInv, RecordInv, Open, NoDeployment, Outstanding
    <2>2. deps[k].flight # f
      BY <1>2 DEF FlightFenced
    <2>3. missions'[deps[k].flight] = missions[deps[k].flight]
      BY <1>4, <2>1, <2>2
    <2>4. Deployable(deps[k].flight)' /\ NoActiveFlight'
      BY <1>1, <2>1, <2>3 DEF Authorized, Deployable, Bound, NoActiveFlight
    <2>5. IsLatest(k)'
      BY <1>1, <2>1, UserStep
    <2> QED BY <1>1, <2>1, <2>3, <2>4, <2>5 DEF Authorized
  <1> QED BY <1>1, <1>5, <1>6, UserStep DEF IInv

\* A flight starts when no deployment is open, with what the latest one left
\* on board.
LEMMA StartFlightStep ==
    ASSUME IInv, NEW f \in Flights, StartFlight(f)
    PROVE  IInv'
  <1>1. UNCHANGED <<intents, missions, deps, phase, pc, job, agent, late, budget>>
    BY DEF StartFlight
  <1>2. /\ flights' = [flights EXCEPT ![f].status = "active"]
        /\ flights[f].status = "planned"
    BY DEF StartFlight, Bound
  <1>3. /\ flights' \in [Flights -> Flight]
        /\ \A g \in Flights \ {f} : flights'[g] = flights[g]
        /\ flights'[f] = [flights[f] EXCEPT !.status = "active"]
    BY <1>2 DEF IInv, TypeOK, Flight
  <1>4. TypeOK' /\ FlightInv'
    BY <1>1, <1>2, <1>3 DEF IInv, TypeOK, FlightInv, Flight
  <1>5. ActiveFlightHasItsMission'
    <2>1. agent.onboard = <<f, missions[f]>>
      BY DEF StartFlight, LatestIsVerified, IInv, LogInv, Onboard
    <2>2. \A g \in Flights \ {f} : flights'[g].status # "active"
      BY <1>3 DEF StartFlight, NoActiveFlight
    <2> QED BY <1>1, <2>1, <2>2 DEF ActiveFlightHasItsMission
  <1>6. \A k \in Keys : ~Open(k)
    <2> SUFFICES ASSUME NEW k \in Keys, Open(k) PROVE FALSE
      OBVIOUS
    <2>1. Authorized(k) /\ deps[k].flight \in Flights
      BY DEF IInv, OpenInv, RecordInv, Open, NoDeployment, Outstanding
    <2>2. flights[deps[k].flight].status = "planned"
      BY <2>1 DEF Authorized, Deployable, Bound
    <2>3. FlightFenced(deps[k].flight)
      BY DEF FlightFenced
    <2> QED BY <2>1, <2>2, <2>3 DEF StartFlight
  <1>7. OpenInv'
    BY <1>1, <1>6, UserStep DEF OpenInv
  <1> QED BY <1>1, <1>4, <1>5, <1>7, UserStep DEF IInv

-----------------------------------------------------------------------------

(* Requests: the steps that leave the deployments and the mission alone.   *)

\* A step that changes neither a deployment nor what the Agent knows or
\* carries keeps the invariant if the handlers it moves satisfy theirs.
LEMMA CallStep ==
    ASSUME IInv, TypeOK', UNCHANGED <<intents, flights, missions, deps>>,
           agent'.onboard = agent.onboard, agent'.log = agent.log,
           \A c \in late' : c.kind = "deploy" => deps[c.key].dispatched,
           \A h \in Handlers : \/ pc'[h] = pc[h] /\ job'[h] = job[h]
                               \/ HandlerInv(h)'
    PROVE  IInv'
  <1>1. /\ FlightInv' /\ RecordInv' /\ OrderInv' /\ LateInv'
        /\ ActiveFlightHasItsMission'
    BY DEF IInv, FlightInv, RecordInv, OrderInv, Admitted, LateInv,
           ActiveFlightHasItsMission
  <1>2. \A k \in Keys : /\ Open(k)' <=> Open(k)
                        /\ IsLatest(k)' <=> IsLatest(k)
                        /\ Onboard(k)' <=> Onboard(k)
                        /\ Authorized(k)' <=> Authorized(k)
    BY DEF Open, IsLatest, Onboard, Authorized, Deployable, Bound, NoActiveFlight
  <1>3. LogInv' /\ OpenInv'
    BY <1>2 DEF IInv, LogInv, OpenInv
  <1>4. HandlersInv'
    <2> SUFFICES ASSUME NEW h \in Handlers, pc'[h] = pc[h], job'[h] = job[h]
                 PROVE  HandlerInv(h)'
      BY DEF HandlersInv
    <2>1. HandlerInv(h)
      BY DEF IInv, HandlersInv
    <2>2. CopyInv(h)' <=> CopyInv(h)
      BY DEF CopyInv
    <2>3. (Open(job[h].key)' <=> Open(job[h].key))
          /\ (Onboard(job[h].key)' <=> Onboard(job[h].key))
      BY DEF Open, Onboard
    <2> QED BY <2>1, <2>2, <2>3 DEF HandlerInv
  <1> QED BY <1>1, <1>3, <1>4 DEF IInv

\* In particular if it sends no deploy command.
LEMMA QuietStep ==
    ASSUME IInv, TypeOK', UNCHANGED <<intents, flights, missions, deps>>,
           agent'.onboard = agent.onboard, agent'.log = agent.log,
           \A c \in late' : c.kind = "deploy" => c \in late,
           \A h \in Handlers : \/ pc'[h] = pc[h] /\ job'[h] = job[h]
                               \/ HandlerInv(h)'
    PROVE  IInv'
  <1>1. \A c \in late' : c.kind = "deploy" => deps[c.key].dispatched
    BY DEF IInv, LateInv
  <1> QED BY <1>1, CallStep

\* A handler that goes on, or returns, moves alone.
LEMMA Moves ==
    ASSUME TypeOK, NEW h \in Handlers, NEW step \in Steps, NEW j \in Job \cup {None},
           pc' = [pc EXCEPT ![h] = step], job' = [job EXCEPT ![h] = j]
    PROVE  /\ pc' \in [Handlers -> Steps] /\ job' \in [Handlers -> Job \cup {None}]
           /\ pc'[h] = step /\ job'[h] = j
           /\ \A g \in Handlers \ {h} : pc'[g] = pc[g] /\ job'[g] = job[g]
  BY DEF TypeOK

\* A new request holds nothing of a deployment yet.
LEMMA BeginStep ==
    ASSUME IInv, NEW h \in Handlers, NEW k \in Keys, NEW f \in Flights, Begin(h, k, f)
    PROVE  IInv'
  <1> DEFINE j == [key |-> k, flight |-> f, mission |-> missions[f],
                   seen |-> phase[k], dep |-> NoDeployment, readback |-> FALSE,
                   want |-> "pending"]
  <1>1. /\ pc' = [pc EXCEPT ![h] = "create"] /\ job' = [job EXCEPT ![h] = j]
        /\ budget' = [budget EXCEPT !.requests = @ - 1] /\ budget.requests > 0
        /\ missions[f] > 0
        /\ UNCHANGED <<intents, flights, missions, deps, phase, agent, late>>
    BY DEF Begin, Goto, Deployable
  <1>2. j \in Job
    <2>1. NoDeployment \in Deployment
      BY MissionBoundsAssumption DEF NoDeployment, Deployment
    <2>2. missions[f] \in 1..MaxMission /\ phase[k] \in 0..2
      BY <1>1, MissionBoundsAssumption DEF IInv, TypeOK
    <2> QED BY <2>1, <2>2 DEF Job, Outstanding
  <1> HIDE DEF j
  <1>3. "create" \in Steps
    BY DEF Steps
  <1>4. TypeOK' /\ HandlerInv(h)'
    <2>1. budget' \in [requests : 0..MaxRequests, faults : 0..MaxFaults]
      BY <1>1, MissionBoundsAssumption DEF IInv, TypeOK
    <2> QED BY <1>1, <1>2, <1>3, <2>1, Moves DEF IInv, TypeOK, HandlerInv
  <1> QED BY <1>1, <1>2, <1>3, <1>4, Moves, QuietStep DEF IInv

\* A request that dies leaves its deployment as it is.
LEMMA CrashStep ==
    ASSUME IInv, NEW h \in Handlers, Crash(h)
    PROVE  IInv'
  <1>1. /\ pc' = [pc EXCEPT ![h] = "idle"] /\ job' = [job EXCEPT ![h] = None]
        /\ budget' = [budget EXCEPT !.faults = @ - 1] /\ budget.faults > 0
        /\ UNCHANGED <<intents, flights, missions, deps, phase, agent, late>>
    BY DEF Crash, Return, Goto
  <1>2. "idle" \in Steps
    BY DEF Steps
  <1>3. TypeOK' /\ HandlerInv(h)'
    <2>1. budget' \in [requests : 0..MaxRequests, faults : 0..MaxFaults]
      BY <1>1, MissionBoundsAssumption DEF IInv, TypeOK
    <2> QED BY <1>1, <1>2, <2>1, Moves DEF IInv, TypeOK, HandlerInv
  <1> QED BY <1>1, <1>2, <1>3, Moves, QuietStep DEF IInv

\* The clock changes what handlers and Agent will decide, nothing else.
LEMMA TickStep ==
    ASSUME IInv, NEW k \in Keys, Tick(k)
    PROVE  IInv'
  <1>1. /\ phase' = [phase EXCEPT ![k] = @ + 1] /\ phase[k] < 2
        /\ UNCHANGED <<intents, flights, missions, deps, pc, job, agent, late, budget>>
    BY DEF Tick
  <1>2. TypeOK'
    BY <1>1 DEF IInv, TypeOK
  <1> QED BY <1>1, <1>2, QuietStep

\* A handler whose bindings still hold keeps its copy.
LEMMA RebindStep ==
    ASSUME IInv, NEW h \in Handlers, Rebind(h)
    PROVE  IInv'
  <1>1. /\ pc[h] = "rebind"
        /\ UNCHANGED <<intents, flights, missions, deps, phase, agent, late, budget>>
    BY DEF Rebind
  <1>2. job[h] \in Job /\ CopyInv(h)
    BY <1>1 DEF IInv, HandlersInv, HandlerInv
  <1>3. \/ /\ pc' = [pc EXCEPT ![h] = "idle"] /\ job' = [job EXCEPT ![h] = None]
        \/ \E s \in {"mark", "clear"} :
             pc' = [pc EXCEPT ![h] = s] /\ job' = [job EXCEPT ![h] = job[h]]
    BY DEF Rebind, Return, Goto, IInv, TypeOK
  <1>4. {"idle", "mark", "clear"} \subseteq Steps
    BY DEF Steps
  <1>5. CASE pc' = [pc EXCEPT ![h] = "idle"] /\ job' = [job EXCEPT ![h] = None]
    <2>1. TypeOK' /\ HandlerInv(h)'
      BY <1>1, <1>4, <1>5, Moves DEF IInv, TypeOK, HandlerInv
    <2> QED BY <1>1, <1>4, <1>5, <2>1, Moves, QuietStep DEF IInv
  <1>6. ASSUME NEW s \in {"mark", "clear"},
               pc' = [pc EXCEPT ![h] = s] /\ job' = [job EXCEPT ![h] = job[h]]
        PROVE  IInv'
    <2>1. TypeOK' /\ HandlerInv(h)'
      BY <1>1, <1>2, <1>4, <1>6, Moves DEF IInv, TypeOK, HandlerInv, CopyInv
    <2> QED BY <1>1, <1>2, <1>4, <1>6, <2>1, Moves, QuietStep DEF IInv
  <1> QED BY <1>3, <1>5, <1>6

-----------------------------------------------------------------------------

(* Requests: the context commands.                                         *)

\* A call through the Relay, answered or not, uses at most one fault and
\* leaves at most its own command behind.
LEMMA CallTypes ==
    ASSUME TypeOK, NEW c \in Command, Delivered(c) \/ Unanswered(c)
    PROVE  /\ late' \subseteq Command /\ late' \subseteq late \cup {c}
           /\ budget' \in [requests : 0..MaxRequests, faults : 0..MaxFaults]
  BY MissionBoundsAssumption DEF TypeOK, Delivered, Unanswered

\* The handler's next step after a context command.
ContextMove(h) ==
    \E s \in {"context", "mark", "note"}, j \in Job :
        /\ pc' = [pc EXCEPT ![h] = s] /\ job' = [job EXCEPT ![h] = j]
        /\ j.key = job[h].key /\ j.dep = job[h].dep
        /\ s = "note" => j.want \in Outstanding

\* A context command, whatever becomes of it, keeps the invariant.
LEMMA ContextStep ==
    ASSUME IInv, NEW h \in Handlers, pc[h] \in {"clear", "context"}, ContextMove(h),
           UNCHANGED <<intents, flights, missions, deps, phase>>,
           \E x \in Flights \cup {None} : agent' = [agent EXCEPT !.context = x],
           late' \subseteq Command,
           \A c \in late' : c.kind = "deploy" => c \in late,
           budget' \in [requests : 0..MaxRequests, faults : 0..MaxFaults]
    PROVE  IInv'
  <1>1. PICK s \in {"context", "mark", "note"}, j \in Job :
          /\ pc' = [pc EXCEPT ![h] = s] /\ job' = [job EXCEPT ![h] = j]
          /\ j.key = job[h].key /\ j.dep = job[h].dep
          /\ s = "note" => j.want \in Outstanding
    BY DEF ContextMove
  <1>2. s \in Steps /\ TypeOK
    BY DEF Steps, IInv
  <1>3. /\ agent'.onboard = agent.onboard /\ agent'.log = agent.log
        /\ agent' \in [context : Flights \cup {None},
                       onboard : Mission \cup {<<None, 0>>, <<"garbled", 0>>},
                       log : [Keys -> {"none", "uncertain"} \cup Terminal]]
    BY <1>2 DEF TypeOK
  <1>4. /\ pc' \in [Handlers -> Steps] /\ job' \in [Handlers -> Job \cup {None}]
        /\ pc'[h] = s /\ job'[h] = j
        /\ \A g \in Handlers \ {h} : pc'[g] = pc[g] /\ job'[g] = job[g]
    BY <1>1, <1>2, Moves
  <1>5. TypeOK'
    BY <1>2, <1>3, <1>4 DEF TypeOK
  <1>6. HandlerInv(h)'
    <2>1. CopyInv(h)
      BY DEF IInv, HandlersInv, HandlerInv
    <2> QED BY <1>1, <1>4, <2>1 DEF HandlerInv, CopyInv
  <1> QED BY <1>3, <1>4, <1>5, <1>6, QuietStep

\* Each way a context command can end is such a move.
LEMMA ContextMoves ==
    ASSUME IInv, NEW h \in Handlers, job[h] \in Job
    PROVE  /\ ContextFailed(h) => ContextMove(h)
           /\ AfterClear(h) => ContextMove(h)
           /\ Goto(h, "mark") /\ UNCHANGED job => ContextMove(h)
           /\ /\ Goto(h, "note")
              /\ job' = [job EXCEPT ![h].want = "outcome_unknown"]
              => ContextMove(h)
  <1>1. TypeOK /\ job \in [Handlers -> Job \cup {None}]
    BY DEF IInv, TypeOK
  <1>2. \A w \in Outstanding : [job[h] EXCEPT !.want = w] \in Job
    BY DEF Job
  <1>3. [job[h] EXCEPT !.readback = TRUE] \in Job
    BY DEF Job
  <1>4. ASSUME NEW w \in Outstanding, Goto(h, "note"), job' = [job EXCEPT ![h].want = w]
        PROVE  ContextMove(h)
    <2>1. job' = [job EXCEPT ![h] = [job[h] EXCEPT !.want = w]]
      BY <1>1, <1>4
    <2>2. /\ [job[h] EXCEPT !.want = w].key = job[h].key
          /\ [job[h] EXCEPT !.want = w].dep = job[h].dep
          /\ [job[h] EXCEPT !.want = w].want = w
      BY DEF Job
    <2> QED BY <1>2, <1>4, <2>1, <2>2 DEF ContextMove, Goto
  <1>5. ASSUME Goto(h, "mark"), job' = [job EXCEPT ![h].readback = TRUE]
        PROVE  ContextMove(h)
    <2>1. job' = [job EXCEPT ![h] = [job[h] EXCEPT !.readback = TRUE]]
      BY <1>1, <1>5
    <2>2. /\ [job[h] EXCEPT !.readback = TRUE].key = job[h].key
          /\ [job[h] EXCEPT !.readback = TRUE].dep = job[h].dep
      BY DEF Job
    <2> QED BY <1>3, <1>5, <2>1, <2>2 DEF ContextMove, Goto
  <1>6. ASSUME NEW s \in {"context", "mark"}, Goto(h, s), UNCHANGED job
        PROVE  ContextMove(h)
    <2>1. job' = [job EXCEPT ![h] = job[h]]
      BY <1>1, <1>6
    <2> QED BY <1>6, <2>1 DEF ContextMove, Goto
  <1>7. ContextFailed(h) => ContextMove(h)
    BY <1>4 DEF ContextFailed, Outstanding
  <1>8. AfterClear(h) => ContextMove(h)
    BY <1>4, <1>5, <1>6 DEF AfterClear, Outstanding
  <1>9. /\ Goto(h, "note") /\ job' = [job EXCEPT ![h].want = "outcome_unknown"]
        => ContextMove(h)
    BY <1>4 DEF Outstanding
  <1> QED BY <1>6, <1>7, <1>8, <1>9

\* Clearing the context of the aircraft's previous flight.
LEMMA ClearContextStep ==
    ASSUME IInv, NEW h \in Handlers, ClearContext(h)
    PROVE  IInv'
  <1>1. /\ pc[h] = "clear" /\ job[h] \in Job
        /\ UNCHANGED <<intents, flights, missions, deps, phase>>
    BY DEF ClearContext, IInv, HandlersInv, HandlerInv
  <1>2. TypeOK /\ job[h].key \in Keys
    BY <1>1 DEF IInv, Job
  <1>3. CASE AfterClear(h) /\ UNCHANGED <<agent, late, budget>>
    <2>1. \E x \in Flights \cup {None} : agent' = [agent EXCEPT !.context = x]
      <3>1. agent.context \in Flights \cup {None}
        BY <1>2 DEF TypeOK
      <3>2. agent' = [agent EXCEPT !.context = agent.context]
        BY <1>2, <1>3 DEF TypeOK
      <3> QED BY <3>1, <3>2
    <2>2. /\ late' = late /\ late' \subseteq Command
          /\ budget' \in [requests : 0..MaxRequests, faults : 0..MaxFaults]
      BY <1>2, <1>3 DEF TypeOK
    <2> QED BY <1>1, <1>3, <2>1, <2>2, ContextMoves, ContextStep
  <1>4. ASSUME NEW f \in OldFlights(h),
               \/ /\ AgentClear(f) /\ AfterClear(h)
                  /\ Delivered([kind |-> "clear", key |-> job[h].key, flight |-> f])
               \/ /\ ContextFailed(h)
                  /\ Unanswered([kind |-> "clear", key |-> job[h].key, flight |-> f])
        PROVE  IInv'
    <2> DEFINE c == [kind |-> "clear", key |-> job[h].key, flight |-> f]
    <2>1. f \in Flights
      BY <1>2 DEF OldFlights, TypeOK, Deployment
    <2>2. c \in Command /\ c.kind = "clear"
      BY <1>2, <2>1 DEF Command
    <2>3. \E x \in Flights \cup {None} : agent' = [agent EXCEPT !.context = x]
      <3>1. agent.context \in Flights \cup {None} /\ agent = [agent EXCEPT !.context = @]
        BY <1>2 DEF TypeOK
      <3>2. AgentClear(f) => \E x \in Flights \cup {None} :
                               agent' = [agent EXCEPT !.context = x]
        BY <3>1 DEF AgentClear
      <3> QED BY <1>4, <3>1, <3>2 DEF Unanswered
    <2>4. ContextMove(h)
      BY <1>1, <1>4, ContextMoves
    <2> HIDE DEF c
    <2>5. Delivered(c) \/ Unanswered(c)
      BY <1>4 DEF c
    <2>6. /\ late' \subseteq Command /\ late' \subseteq late \cup {c}
          /\ budget' \in [requests : 0..MaxRequests, faults : 0..MaxFaults]
      BY <1>2, <2>2, <2>5, CallTypes
    <2>7. \A d \in late' : d.kind = "deploy" => d \in late
      BY <2>2, <2>6
    <2> QED BY <1>1, <2>3, <2>4, <2>6, <2>7, ContextStep
  <1> QED BY <1>3, <1>4 DEF ClearContext

\* Setting the context of the deployment's flight.
LEMMA EnsureContextStep ==
    ASSUME IInv, NEW h \in Handlers, EnsureContext(h)
    PROVE  IInv'
  <1> DEFINE f == job[h].flight
             c == [kind |-> "set", key |-> job[h].key, flight |-> f]
  <1>1. /\ pc[h] = "context" /\ job[h] \in Job
        /\ UNCHANGED <<intents, flights, missions, deps, phase>>
    BY DEF EnsureContext, IInv, HandlersInv, HandlerInv
  <1>2. TypeOK /\ c \in Command /\ c.kind = "set" /\ f \in Flights
    BY <1>1 DEF IInv, Job, Command
  <1>3. \/ AgentSet(f) /\ Delivered(c)
        \/ Unanswered(c)
    BY DEF EnsureContext
  <1>4. ContextMove(h)
    BY <1>1, ContextMoves DEF EnsureContext
  <1>5. \E x \in Flights \cup {None} : agent' = [agent EXCEPT !.context = x]
    <2>1. agent.context \in Flights \cup {None} /\ agent = [agent EXCEPT !.context = @]
      BY <1>2 DEF TypeOK
    <2>2. AgentSet(f) => \E x \in Flights \cup {None} :
                           agent' = [agent EXCEPT !.context = x]
      BY <1>2, <2>1 DEF AgentSet
    <2> QED BY <1>3, <2>1, <2>2 DEF Unanswered
  <1> HIDE DEF c
  <1>6. /\ late' \subseteq Command /\ late' \subseteq late \cup {c}
        /\ budget' \in [requests : 0..MaxRequests, faults : 0..MaxFaults]
    BY <1>2, <1>3, CallTypes
  <1>7. \A d \in late' : d.kind = "deploy" => d \in late
    BY <1>2, <1>6
  <1> QED BY <1>1, <1>4, <1>5, <1>6, <1>7, ContextStep

-----------------------------------------------------------------------------

(* Requests: the writes to a deployment.                                   *)

\* UpdateMissionDeployment replaces the record the handler holds or nothing.
LEMMA UpdateFacts ==
    ASSUME TypeOK, NEW h \in Handlers, NEW d \in Deployment, job[h].key \in Keys,
           Update(h, d)
    PROVE  /\ Current(h, d) => deps' = [deps EXCEPT ![job[h].key] =
                                          [d EXCEPT !.rev = d.rev + 1]]
           /\ ~Current(h, d) => deps' = deps
           /\ [d EXCEPT !.rev = d.rev + 1] \in Deployment
  <1>1. [d EXCEPT !.rev = d.rev + 1] \in Deployment
    BY DEF Deployment
  <1>2. deps \in [Keys -> Deployment]
    BY DEF TypeOK
  <1> QED BY <1>1, <1>2 DEF Update, Current, Mine

\* What may be written over an open record: its identity and the evidence of
\* a dispatch are kept, and a terminal status is what the Agent has logged.
Writes(k, d) ==
    /\ d.flight = deps[k].flight /\ d.mission = deps[k].mission
    /\ d.ord = deps[k].ord /\ d.rev = deps[k].rev + 1
    /\ deps[k].dispatched => d.dispatched
    /\ d.status \in Outstanding \cup Terminal
    /\ d.status \in Terminal => agent.log[k] # "none"
    /\ d.status \in Verified => Onboard(k)

\* Such a write keeps the invariant: every other copy of the record is now an
\* old one.
LEMMA WriteStep ==
    ASSUME IInv, TypeOK', NEW k \in Keys, NEW d \in Deployment, Open(k), Writes(k, d),
           deps' = [deps EXCEPT ![k] = d],
           UNCHANGED <<intents, flights, missions, agent, late>>,
           \A h \in Handlers : \/ pc'[h] = pc[h] /\ job'[h] = job[h]
                               \/ HandlerInv(h)'
    PROVE  IInv'
  <1>1. /\ deps'[k] = d /\ \A j \in Keys \ {k} : deps'[j] = deps[j]
        /\ \A j \in Keys : deps[j] \in Deployment
    BY DEF IInv, TypeOK
  <1>2. \A j \in Keys : deps'[j].flight = deps[j].flight /\ deps'[j].ord = deps[j].ord
                        /\ deps'[j].mission = deps[j].mission
    BY <1>1 DEF Writes
  <1>3. \A j \in Keys : /\ Open(j)' => Open(j)
                        /\ IsLatest(j)' <=> IsLatest(j)
                        /\ Onboard(j)' <=> Onboard(j)
                        /\ Authorized(j)' <=> Authorized(j)
    <2> SUFFICES ASSUME NEW j \in Keys
                 PROVE  /\ Open(j)' => Open(j)
                        /\ IsLatest(j)' <=> IsLatest(j)
                        /\ Onboard(j)' <=> Onboard(j)
                        /\ Authorized(j)' <=> Authorized(j)
      OBVIOUS
    <2>1. Open(j)' => Open(j)
      BY <1>1 DEF Open
    <2>2. IsLatest(j)' <=> IsLatest(j)
      BY <1>2 DEF IsLatest
    <2>3. Onboard(j)' <=> Onboard(j)
      BY <1>2 DEF Onboard
    <2>4. Deployable(deps[j].flight)' <=> Deployable(deps[j].flight)
      BY <1>2 DEF Deployable, Bound
    <2>5. Authorized(j)' <=> Authorized(j)
      BY <1>2, <2>4 DEF Authorized, NoActiveFlight
    <2> QED BY <2>1, <2>2, <2>3, <2>5
  <1>4. FlightInv' /\ ActiveFlightHasItsMission'
    BY DEF IInv, FlightInv, ActiveFlightHasItsMission
  <1>5. RecordInv'
    <2>1. /\ deps[k].status # "absent" /\ deps[k].flight \in Flights
          /\ deps[k].mission > 0 /\ deps[k].ord > 0
      BY DEF IInv, RecordInv, Open, NoDeployment, Outstanding
    <2> QED BY <1>1, <2>1 DEF IInv, RecordInv, Writes, Outstanding, Terminal,
                              Verified, Failed
  <1>6. OrderInv'
    <2>1. Admitted' = Admitted
      BY <1>2 DEF Admitted
    <2> QED BY <1>2, <2>1 DEF IInv, OrderInv
  <1>7. OpenInv'
    BY <1>3 DEF IInv, OpenInv
  <1>8. LateInv'
    <2>1. \A c \in late : c.key \in Keys
      BY DEF IInv, TypeOK, Command
    <2> QED BY <1>1, <2>1 DEF IInv, LateInv, Writes
  <1>9. LogInv'
    <2> SUFFICES ASSUME NEW j \in Keys
                 PROVE  /\ deps'[j].status \in Terminal => agent.log[j] # "none"
                        /\ deps'[j].status \in Verified /\ IsLatest(j) => Onboard(j)
      BY <1>3 DEF LogInv
    <2> QED BY <1>1 DEF IInv, LogInv, Writes
  <1>10. HandlersInv'
    <2> SUFFICES ASSUME NEW h \in Handlers, pc'[h] = pc[h], job'[h] = job[h],
                        pc[h] # "idle"
                 PROVE  HandlerInv(h)'
      BY DEF HandlersInv, HandlerInv
    <2>1. HandlerInv(h) /\ job[h] \in Job /\ job[h].key \in Keys
          /\ job[h].dep \in Deployment
      BY DEF IInv, HandlersInv, HandlerInv, Job
    <2>2. ASSUME pc[h] # "create" PROVE CopyInv(h)'
      <3>1. CopyInv(h)
        BY <2>1, <2>2 DEF HandlerInv
      <3>2. CASE job[h].key = k
        BY <1>1, <2>1, <3>1, <3>2 DEF CopyInv, Writes, Outstanding, Terminal, Verified,
                                      Failed, Deployment
      <3>3. CASE job[h].key # k
        BY <1>1, <2>1, <3>1, <3>3 DEF CopyInv
      <3> QED BY <3>2, <3>3
    <2>3. deps[job[h].key].dispatched => deps'[job[h].key].dispatched
      BY <1>1, <2>1 DEF Writes
    <2> QED BY <1>3, <2>1, <2>2, <2>3 DEF HandlerInv
  <1> QED BY <1>4, <1>5, <1>6, <1>7, <1>8, <1>9, <1>10 DEF IInv

\* A write on the revision the handler holds is one of these.
LEMMA CurrentWrites ==
    ASSUME IInv, NEW h \in Handlers, pc[h] \notin {"idle", "create"},
           NEW s \in Outstanding \cup Terminal, NEW b \in BOOLEAN,
           job[h].dep.rev = Mine(h).rev, job[h].dep.dispatched => b,
           s \in Terminal => agent.log[job[h].key] # "none",
           s \in Verified => Onboard(job[h].key)
    PROVE  /\ Open(job[h].key) /\ job[h].dep = Mine(h)
           /\ LET d == [job[h].dep EXCEPT !.status = s, !.dispatched = b]
              IN Writes(job[h].key, [d EXCEPT !.rev = d.rev + 1])
  <1>1. job[h] \in Job /\ CopyInv(h)
    BY DEF IInv, HandlersInv, HandlerInv
  <1>2. job[h].dep \in Deployment
    BY <1>1 DEF Job
  <1>3. job[h].dep = Mine(h) /\ Open(job[h].key)
    BY <1>1 DEF CopyInv, Mine, Open
  <1> QED BY <1>2, <1>3 DEF Writes, Mine, Deployment

\* An expiry or a failed context command is recorded.
LEMMA NoteOutcomeStep ==
    ASSUME IInv, NEW h \in Handlers, NoteOutcome(h)
    PROVE  IInv'
  <1> DEFINE d == [job[h].dep EXCEPT !.status = job[h].want]
             e == [d EXCEPT !.rev = d.rev + 1]
  <1>1. /\ pc[h] = "note" /\ job[h] \in Job /\ job[h].want \in Outstanding
        /\ Update(h, d)
        /\ pc' = [pc EXCEPT ![h] = "idle"] /\ job' = [job EXCEPT ![h] = None]
        /\ UNCHANGED <<intents, flights, missions, phase, agent, late, budget>>
    BY DEF NoteOutcome, Return, Goto, IInv, HandlersInv, HandlerInv
  <1>2. /\ d \in Deployment /\ job[h].key \in Keys /\ d.rev = job[h].dep.rev
        /\ d = [job[h].dep EXCEPT !.status = job[h].want,
                                  !.dispatched = job[h].dep.dispatched]
        /\ job[h].dep.dispatched \in BOOLEAN
    BY <1>1 DEF Job, Deployment
  <1> HIDE DEF d
  <1>3. /\ Current(h, d) => deps' = [deps EXCEPT ![job[h].key] = e]
        /\ ~Current(h, d) => deps' = deps
        /\ e \in Deployment
    BY <1>1, <1>2, UpdateFacts DEF IInv
  <1>4. "idle" \in Steps
    BY DEF Steps
  <1>5. deps' \in [Keys -> Deployment]
    BY <1>2, <1>3 DEF IInv, TypeOK
  <1>6. /\ TypeOK' /\ HandlerInv(h)'
        /\ \A g \in Handlers \ {h} : pc'[g] = pc[g] /\ job'[g] = job[g]
    BY <1>1, <1>4, <1>5, Moves DEF IInv, TypeOK, HandlerInv
  <1>7. CASE ~Current(h, d)
    BY <1>1, <1>3, <1>6, <1>7, QuietStep
  <1>8. CASE Current(h, d)
    <2>1. Open(job[h].key) /\ Writes(job[h].key, e)
      BY <1>1, <1>2, <1>8, CurrentWrites DEF Current, Outstanding, Terminal, Verified, Failed
    <2> HIDE DEF e
    <2> QED BY <1>1, <1>2, <1>3, <1>6, <1>8, <2>1, WriteStep
  <1> QED BY <1>7, <1>8

\* The dispatch is on record before its handler sends anything.
LEMMA MarkDispatchStep ==
    ASSUME IInv, NEW h \in Handlers, MarkDispatch(h)
    PROVE  IInv'
  <1> DEFINE d == Dispatching(job[h].dep)
             e == [d EXCEPT !.rev = d.rev + 1]
  <1>1. /\ pc[h] = "mark" /\ job[h] \in Job /\ CopyInv(h)
        /\ Update(h, d)
        /\ \/ /\ Current(h, d)
              /\ pc' = [pc EXCEPT ![h] = "dispatch"]
              /\ job' = [job EXCEPT ![h].dep = e]
           \/ /\ ~Current(h, d)
              /\ pc' = [pc EXCEPT ![h] = "idle"] /\ job' = [job EXCEPT ![h] = None]
        /\ UNCHANGED <<intents, flights, missions, phase, agent, late, budget>>
    BY DEF MarkDispatch, Return, Goto, IInv, HandlersInv, HandlerInv
  <1>2. /\ d \in Deployment /\ job[h].key \in Keys /\ d.rev = job[h].dep.rev
        /\ d = [job[h].dep EXCEPT !.status = "outcome_unknown", !.dispatched = TRUE]
        /\ job[h].dep \in Deployment /\ d.status = "outcome_unknown" /\ d.dispatched
    BY <1>1 DEF Job, Deployment, Dispatching, Outstanding
  <1> HIDE DEF d
  <1>3. /\ Current(h, d) => deps' = [deps EXCEPT ![job[h].key] = e]
        /\ ~Current(h, d) => deps' = deps
        /\ e \in Deployment
    BY <1>1, <1>2, UpdateFacts DEF IInv
  <1>4. {"idle", "dispatch"} \subseteq Steps
    BY DEF Steps
  <1>5. deps' \in [Keys -> Deployment]
    BY <1>2, <1>3 DEF IInv, TypeOK
  <1>6. CASE ~Current(h, d)
    <2>1. /\ TypeOK' /\ HandlerInv(h)'
          /\ \A g \in Handlers \ {h} : pc'[g] = pc[g] /\ job'[g] = job[g]
      BY <1>1, <1>4, <1>5, <1>6, Moves DEF IInv, TypeOK, HandlerInv
    <2> QED BY <1>1, <1>3, <1>6, <2>1, QuietStep
  <1>7. CASE Current(h, d)
    <2>1. Open(job[h].key) /\ Writes(job[h].key, e)
      BY <1>1, <1>2, <1>7, CurrentWrites DEF Current, Outstanding, Terminal, Verified, Failed
    <2> DEFINE j == [job[h] EXCEPT !.dep = e]
    <2>2. job' = [job EXCEPT ![h] = j]
      BY <1>1, <1>7 DEF IInv, TypeOK
    <2>3. j \in Job /\ j.key = job[h].key /\ j.dep = e
      BY <1>1, <1>3 DEF Job
    <2>4. e.status = "outcome_unknown" /\ e.dispatched
      BY <1>2 DEF Deployment
    <2>5. deps'[job[h].key] = e
      BY <1>2, <1>3, <1>7 DEF IInv, TypeOK
    <2> HIDE DEF e, j
    <2>6. /\ TypeOK' /\ pc'[h] = "dispatch" /\ job'[h] = j
          /\ \A g \in Handlers \ {h} : pc'[g] = pc[g] /\ job'[g] = job[g]
      BY <1>1, <1>4, <1>5, <1>7, <2>2, <2>3, Moves DEF IInv, TypeOK
    <2>7. HandlerInv(h)'
      BY <1>3, <2>3, <2>4, <2>5, <2>6 DEF HandlerInv, CopyInv, Outstanding, Deployment
    <2> QED BY <1>1, <1>2, <1>3, <1>7, <2>1, <2>6, <2>7, WriteStep
  <1> QED BY <1>6, <1>7

\* A result is recorded, yields to the record, or is tried again on top of it.
LEMMA PersistResultStep ==
    ASSUME IInv, NEW h \in Handlers, PersistResult(h)
    PROVE  IInv'
  <1> DEFINE d == [job[h].dep EXCEPT !.status = job[h].want]
             e == [d EXCEPT !.rev = d.rev + 1]
  <1>1. /\ pc[h] = "persist" /\ job[h] \in Job /\ CopyInv(h) /\ HandlerInv(h)
        /\ Update(h, d)
        /\ \/ Current(h, d) /\ Return(h)
           \/ OnConflict(h, d)
        /\ UNCHANGED <<intents, flights, missions, phase, agent, late, budget>>
    BY DEF PersistResult, IInv, HandlersInv, HandlerInv
  <1>2. /\ d \in Deployment /\ job[h].key \in Keys /\ d.rev = job[h].dep.rev
        /\ d = [job[h].dep EXCEPT !.status = job[h].want,
                                  !.dispatched = job[h].dep.dispatched]
        /\ job[h].dep.dispatched \in BOOLEAN /\ job[h].want \in Outstanding \cup Terminal
    BY <1>1 DEF Job, Deployment
  <1> HIDE DEF d
  <1>3. /\ Current(h, d) => deps' = [deps EXCEPT ![job[h].key] = e]
        /\ ~Current(h, d) => deps' = deps
        /\ e \in Deployment
    BY <1>1, <1>2, UpdateFacts DEF IInv
  <1>4. {"idle", "persist"} \subseteq Steps
    BY DEF Steps
  <1>5. deps' \in [Keys -> Deployment]
    BY <1>2, <1>3 DEF IInv, TypeOK
  <1>6. CASE Return(h)
    <2>1. /\ TypeOK' /\ HandlerInv(h)'
          /\ \A g \in Handlers \ {h} : pc'[g] = pc[g] /\ job'[g] = job[g]
      BY <1>1, <1>4, <1>5, <1>6, Moves DEF IInv, TypeOK, HandlerInv, Return, Goto
    <2>2. CASE ~Current(h, d)
      BY <1>1, <1>3, <2>1, <2>2, QuietStep
    <2>3. CASE Current(h, d)
      <3>1. Open(job[h].key)
        BY <1>1, <1>2, <2>3 DEF Current, CopyInv, Mine, Open
      <3>2. Writes(job[h].key, e)
        BY <1>1, <1>2, <2>3, <3>1, CurrentWrites DEF Current, HandlerInv
      <3> HIDE DEF e
      <3> QED BY <1>1, <1>2, <1>3, <2>1, <2>3, <3>1, <3>2, WriteStep
    <2> QED BY <2>2, <2>3
  <1>7. CASE /\ ~Current(h, d) /\ Open(job[h].key)
             /\ job' = [job EXCEPT ![h].dep = Mine(h)] /\ UNCHANGED pc
    <2> DEFINE j == [job[h] EXCEPT !.dep = Mine(h)]
    <2>1. Mine(h) \in Deployment /\ Mine(h).status \in Outstanding
      BY <1>2, <1>7 DEF IInv, TypeOK, Mine, Open
    <2>2. /\ job' = [job EXCEPT ![h] = j] /\ pc' = [pc EXCEPT ![h] = "persist"]
          /\ j \in Job /\ j.key = job[h].key /\ j.dep = Mine(h) /\ j.want = job[h].want
      BY <1>1, <1>7, <2>1 DEF IInv, TypeOK, Job
    <2> HIDE DEF j
    <2>3. /\ TypeOK' /\ pc'[h] = "persist" /\ job'[h] = j
          /\ \A g \in Handlers \ {h} : pc'[g] = pc[g] /\ job'[g] = job[g]
      BY <1>1, <1>4, <1>5, <2>2, Moves DEF IInv, TypeOK
    <2>4. HandlerInv(h)'
      <3>1. /\ deps' = deps /\ agent' = agent /\ job'[h] \in Job
            /\ job'[h].key = job[h].key /\ job'[h].want = job[h].want
            /\ job'[h].dep = deps[job[h].key]
        BY <1>1, <1>3, <1>7, <2>2, <2>3 DEF Mine
      <3>2. deps[job[h].key].status \in Outstanding /\ deps[job[h].key].rev \in Nat
        BY <2>1 DEF Mine, Deployment
      <3>3. CopyInv(h)'
        BY <3>1, <3>2 DEF CopyInv, Outstanding
      <3>4. /\ job[h].want \in Terminal => agent.log[job[h].key] # "none"
            /\ job[h].want \in Verified => Onboard(job[h].key)
        BY <1>1, <1>7 DEF HandlerInv
      <3>5. Onboard(job[h].key) => agent'.onboard =
               <<deps'[job'[h].key].flight, deps'[job'[h].key].mission>>
        BY <3>1 DEF Onboard
      <3>6. /\ job'[h].want \in Terminal => agent'.log[job'[h].key] # "none"
            /\ job'[h].want \in Verified => agent'.onboard =
                  <<deps'[job'[h].key].flight, deps'[job'[h].key].mission>>
        BY <3>1, <3>4, <3>5
      <3> QED BY <2>3, <3>1, <3>3, <3>6 DEF HandlerInv, Onboard
    <2> QED BY <1>1, <1>3, <1>7, <2>3, <2>4, QuietStep
  <1> QED BY <1>1, <1>6, <1>7 DEF OnConflict

-----------------------------------------------------------------------------

(* Requests: admission.                                                    *)

\* Where admission leads: the handler's copy is the record it was given.
LEMMA ResumeMoves ==
    ASSUME TypeOK, NEW h \in Handlers, job[h] \in Job, NEW d \in Deployment,
           Resume(h, d)
    PROVE  \E s \in {"note", "rebind"}, j \in Job :
             /\ pc' = [pc EXCEPT ![h] = s] /\ job' = [job EXCEPT ![h] = j]
             /\ j.key = job[h].key /\ j.dep = d
             /\ s = "note" => j.want \in Outstanding
  <1>1. ASSUME NEW b \in BOOLEAN, Goto(h, "rebind"),
               job' = [job EXCEPT ![h].dep = d, ![h].readback = b]
        PROVE  \E j \in Job : /\ pc' = [pc EXCEPT ![h] = "rebind"]
                              /\ job' = [job EXCEPT ![h] = j]
                              /\ j.key = job[h].key /\ j.dep = d
    <2> DEFINE j == [job[h] EXCEPT !.dep = d, !.readback = b]
    <2>1. job' = [job EXCEPT ![h] = j]
      BY <1>1 DEF TypeOK
    <2>2. j \in Job /\ j.key = job[h].key /\ j.dep = d
      BY DEF Job
    <2> HIDE DEF j
    <2> QED BY <1>1, <2>1, <2>2 DEF Goto
  <1>2. ASSUME Goto(h, "note"),
               job' = [job EXCEPT ![h].dep = d, ![h].want = "outcome_unknown"]
        PROVE  \E j \in Job : /\ pc' = [pc EXCEPT ![h] = "note"]
                              /\ job' = [job EXCEPT ![h] = j]
                              /\ j.key = job[h].key /\ j.dep = d
                              /\ j.want \in Outstanding
    <2> DEFINE j == [job[h] EXCEPT !.dep = d, !.want = "outcome_unknown"]
    <2>1. job' = [job EXCEPT ![h] = j]
      BY <1>2 DEF TypeOK
    <2>2. j \in Job /\ j.key = job[h].key /\ j.dep = d /\ j.want \in Outstanding
      BY DEF Job, Outstanding
    <2> HIDE DEF j
    <2> QED BY <1>2, <2>1, <2>2 DEF Goto
  <1>3. d.dispatched \in BOOLEAN
    BY DEF Deployment
  <1> QED BY <1>1, <1>2, <1>3 DEF Resume

\* The handler's view after admission, of the record it was given.
LEMMA ResumedInv ==
    ASSUME TypeOK, TypeOK', NEW h \in Handlers, NEW s \in {"note", "rebind"},
           NEW j \in Job, pc'[h] = s, job'[h] = j,
           j.dep = deps'[j.key], j.dep.status \in Outstanding,
           s = "note" => j.want \in Outstanding
    PROVE  HandlerInv(h)'
  <1>1. j.dep.rev \in Nat /\ j.dep.status # "absent"
    BY DEF Job, Deployment, Outstanding
  <1> QED BY <1>1 DEF HandlerInv, CopyInv

\* A new deployment: none is open, and it becomes the latest.
LEMMA NewDeploymentStep ==
    ASSUME IInv, TypeOK', NEW k \in Keys, NEW f \in Flights, NEW m \in 1..MaxMission,
           deps[k].status = "absent", Admits(k, f, m),
           deps' = [deps EXCEPT ![k] =
                      [NoDeployment EXCEPT !.flight = f, !.mission = m,
                                           !.status = "pending", !.ord = NextOrder]],
           UNCHANGED <<intents, flights, missions, agent, late>>,
           \A h \in Handlers : \/ pc'[h] = pc[h] /\ job'[h] = job[h]
                               \/ HandlerInv(h)'
    PROVE  IInv'
  <1> DEFINE N == Cardinality(Admitted)
  <1>1. /\ deps'[k].flight = f /\ deps'[k].mission = m
        /\ deps'[k].status = "pending" /\ deps'[k].ord = NextOrder
        /\ \A i \in Keys \ {k} : deps'[i] = deps[i]
    BY DEF IInv, TypeOK, NoDeployment
  <1>2. /\ deps[k] = NoDeployment /\ deps[k].ord = 0 /\ ~deps[k].dispatched
        /\ \A i \in Keys : deps[i].ord \in Nat
    BY DEF IInv, TypeOK, RecordInv, NoDeployment, Deployment
  <1>3. N \in Nat /\ Cardinality(Admitted') = N + 1 /\ NextOrder = N + 1
    <2>1. IsFiniteSet(Admitted)
      BY FS_Subset, MissionNamesAssumption DEF Admitted
    <2>2. NextOrder = N + 1
      BY DEF NextOrder, Admitted
    <2>3. N \in Nat
      BY <2>1, FS_CardinalityType
    <2>4. k \notin Admitted /\ Admitted' = Admitted \cup {k}
      <3>1. deps'[k].ord > 0 /\ ~(deps[k].ord > 0)
        BY <1>1, <1>2, <2>2, <2>3
      <3> QED BY <1>1, <3>1 DEF Admitted
    <2> QED BY <2>1, <2>2, <2>3, <2>4, FS_AddElement
  <1> HIDE DEF N
  <1>4. \A i \in Keys : deps[i].ord <= N
    BY DEF IInv, OrderInv, N
  <1>5. \A i \in Keys : ~Open(i)
    BY DEF Admits, IInv, OpenInv, Authorized, Deployable, Bound, Open, Outstanding
  <1>6. FlightInv' /\ ActiveFlightHasItsMission'
    BY DEF IInv, FlightInv, ActiveFlightHasItsMission
  <1>7. RecordInv'
    BY <1>1, <1>3 DEF IInv, RecordInv
  <1>8. OrderInv'
    <2>1. \A i \in Keys : deps'[i].ord <= N + 1
      BY <1>1, <1>2, <1>3, <1>4
    <2>2. \A i, j \in Keys : deps'[i].ord = deps'[j].ord /\ deps'[j].ord > 0 => i = j
      BY <1>1, <1>2, <1>3, <1>4 DEF IInv, OrderInv
    <2> QED BY <1>3, <2>1, <2>2 DEF OrderInv
  <1>9. OpenInv'
    <2> SUFFICES Authorized(k)' /\ IsLatest(k)'
      BY <1>1, <1>5 DEF OpenInv, Open
    <2>1. Authorized(k)'
      BY <1>1 DEF Admits, Authorized, Deployable, Bound, NoActiveFlight
    <2>2. IsLatest(k)'
      BY <1>1, <1>2, <1>3, <1>4 DEF IsLatest
    <2> QED BY <2>1, <2>2
  <1>10. LateInv'
    <2>1. \A c \in late : c.key \in Keys
      BY DEF IInv, TypeOK, Command
    <2> QED BY <1>1, <1>2, <2>1 DEF IInv, LateInv
  <1>11. LogInv'
    <2>1. \A i \in Keys \ {k} : ~IsLatest(i)'
      BY <1>1, <1>2, <1>3, <1>4 DEF IsLatest
    <2>2. deps'[k].status \notin Terminal /\ deps'[k].status \notin Verified
      BY <1>1 DEF Terminal, Verified, Failed
    <2> QED BY <1>1, <2>1, <2>2 DEF IInv, LogInv
  <1>12. HandlersInv'
    <2> SUFFICES ASSUME NEW h \in Handlers, pc'[h] = pc[h], job'[h] = job[h]
                 PROVE  HandlerInv(h)'
      BY DEF HandlersInv
    <2>1. HandlerInv(h)
      BY DEF IInv, HandlersInv
    <2>2. CASE pc[h] \in {"idle", "create"}
      BY <2>1, <2>2 DEF HandlerInv
    <2>3. CASE pc[h] \notin {"idle", "create"}
      <3>1. job[h].key \in Keys \ {k}
        BY <2>1, <2>3 DEF HandlerInv, CopyInv, Job
      <3>2. deps'[job[h].key] = deps[job[h].key]
        BY <1>1, <3>1
      <3>3. CopyInv(h)'
        <4>1. CopyInv(h)
          BY <2>1, <2>3 DEF HandlerInv
        <4> QED BY <3>2, <4>1 DEF CopyInv
      <3>4. (Open(job[h].key)' <=> Open(job[h].key))
            /\ (Onboard(job[h].key)' <=> Onboard(job[h].key))
        BY <3>2 DEF Open, Onboard
      <3> QED BY <2>1, <3>2, <3>3, <3>4 DEF HandlerInv, Open, Onboard
    <2> QED BY <2>2, <2>3
  <1> QED BY <1>6, <1>7, <1>8, <1>9, <1>10, <1>11, <1>12 DEF IInv

\* The record admission inserts has its type.
LEMMA NewRecord ==
    ASSUME NEW f \in Flights, NEW m \in 1..MaxMission, NEW o \in Nat
    PROVE  LET d == [NoDeployment EXCEPT !.flight = f, !.mission = m,
                                         !.status = "pending", !.ord = o]
           IN d \in Deployment /\ d.status \in Outstanding
  <1>1. m \in 0..MaxMission
    BY MissionBoundsAssumption
  <1>2. NoDeployment \in Deployment
    BY MissionBoundsAssumption DEF NoDeployment, Deployment
  <1> QED BY <1>1, <1>2 DEF Deployment, Outstanding

\* Admission creates a deployment, replays an open one, or refuses.
LEMMA CreateDeploymentStep ==
    ASSUME IInv, NEW h \in Handlers, CreateDeployment(h)
    PROVE  IInv'
  <1> DEFINE k == job[h].key
             f == job[h].flight
             m == job[h].mission
             d == [NoDeployment EXCEPT !.flight = f, !.mission = m,
                                       !.status = "pending", !.ord = NextOrder]
  <1>1. /\ pc[h] = "create" /\ job[h] \in Job /\ TypeOK
        /\ UNCHANGED <<intents, flights, missions, phase, agent, late, budget>>
    BY DEF CreateDeployment, IInv, HandlersInv, HandlerInv
  <1>2. k \in Keys /\ f \in Flights /\ m \in 1..MaxMission
    BY <1>1 DEF Job
  <1>3. /\ {"idle", "note", "rebind"} \subseteq Steps
        /\ NextOrder \in Nat
    <2>1. IsFiniteSet({j \in Keys : deps[j].ord > 0})
      BY FS_Subset, MissionNamesAssumption
    <2> QED BY <2>1, FS_CardinalityType DEF Steps, NextOrder
  <1>4. CASE Return(h) /\ UNCHANGED deps
    <2>1. /\ TypeOK' /\ HandlerInv(h)'
          /\ \A g \in Handlers \ {h} : pc'[g] = pc[g] /\ job'[g] = job[g]
      BY <1>1, <1>3, <1>4, Moves DEF TypeOK, HandlerInv, Return, Goto
    <2> QED BY <1>1, <1>4, <2>1, QuietStep
  <1>5. CASE Open(k) /\ Resume(h, deps[k]) /\ UNCHANGED deps
    <2>1. deps[k] \in Deployment /\ deps[k].status \in Outstanding
      BY <1>1, <1>2, <1>5 DEF TypeOK, Open
    <2>2. PICK s \in {"note", "rebind"}, j \in Job :
             /\ pc' = [pc EXCEPT ![h] = s] /\ job' = [job EXCEPT ![h] = j]
             /\ j.key = job[h].key /\ j.dep = deps[k]
             /\ s = "note" => j.want \in Outstanding
      BY <1>1, <1>5, <2>1, ResumeMoves
    <2>3. /\ TypeOK' /\ pc'[h] = s /\ job'[h] = j
          /\ \A g \in Handlers \ {h} : pc'[g] = pc[g] /\ job'[g] = job[g]
      BY <1>1, <1>3, <1>5, <2>2, Moves DEF TypeOK
    <2>4. HandlerInv(h)'
      BY <1>1, <1>5, <2>1, <2>2, <2>3, ResumedInv
    <2> QED BY <1>1, <1>5, <2>3, <2>4, QuietStep
  <1>6. CASE /\ deps[k].status = "absent" /\ Admits(k, f, m)
             /\ deps' = [deps EXCEPT ![k] = d] /\ Resume(h, d)
    <2>1. d \in Deployment /\ d.status \in Outstanding
      BY <1>2, <1>3, NewRecord
    <2> HIDE DEF d
    <2>2. PICK s \in {"note", "rebind"}, j \in Job :
             /\ pc' = [pc EXCEPT ![h] = s] /\ job' = [job EXCEPT ![h] = j]
             /\ j.key = job[h].key /\ j.dep = d
             /\ s = "note" => j.want \in Outstanding
      BY <1>1, <1>6, <2>1, ResumeMoves
    <2>3. deps' \in [Keys -> Deployment] /\ deps'[k] = d
      BY <1>1, <1>2, <1>6, <2>1 DEF TypeOK
    <2>4. /\ TypeOK' /\ pc'[h] = s /\ job'[h] = j
          /\ \A g \in Handlers \ {h} : pc'[g] = pc[g] /\ job'[g] = job[g]
      BY <1>1, <1>3, <1>6, <2>2, <2>3, Moves DEF TypeOK
    <2>5. HandlerInv(h)'
      BY <1>1, <2>1, <2>2, <2>3, <2>4, ResumedInv
    <2> QED BY <1>1, <1>2, <1>6, <2>4, <2>5, NewDeploymentStep DEF d
  <1> QED BY <1>4, <1>5, <1>6 DEF CreateDeployment

-----------------------------------------------------------------------------
(* Effects on the aircraft.                                                *)

\* A dispatched deployment whose command the Agent has not decided is open.
LEMMA UndecidedIsOpen ==
    ASSUME IInv, NEW k \in Keys, deps[k].dispatched, agent.log[k] = "none"
    PROVE  Open(k) /\ Authorized(k) /\ IsLatest(k)
  <1>1. deps[k].status \in Outstanding \cup Terminal
    BY DEF IInv, TypeOK, RecordInv, NoDeployment, Deployment
  <1>2. deps[k].status \notin Terminal
    BY DEF IInv, LogInv
  <1> QED BY <1>1, <1>2 DEF Open, IInv, OpenInv

\* Whatever a dispatched command does keeps the invariant.
LEMMA EffectStep ==
    ASSUME IInv, NEW k \in Keys, NEW out \in AgentOutcome(k), deps[k].dispatched,
           AgentDeploys(k, out), UNCHANGED <<intents, flights, missions, deps, phase>>,
           pc' \in [Handlers -> Steps], job' \in [Handlers -> Job \cup {None}],
           late' \subseteq Command,
           \A c \in late' : c.kind = "deploy" => deps[c.key].dispatched,
           budget' \in [requests : 0..MaxRequests, faults : 0..MaxFaults],
           \A h \in Handlers : \/ pc'[h] = pc[h] /\ job'[h] = job[h]
                               \/ HandlerInv(h)'
    PROVE  IInv'
  <1> USE DEF AgentDeploys
  <1>1. TypeOK
    BY DEF IInv
  <1>2. /\ agent'.onboard = out.onboard /\ agent'.log[k] = out.log
        /\ \A j \in Keys \ {k} : agent'.log[j] = agent.log[j]
    BY <1>1 DEF TypeOK
  <1>3. \A j \in Keys : agent.log[j] # "none" => agent'.log[j] # "none"
    BY <1>1, <1>2, OutcomeFacts
  <1>4. \/ agent'.onboard = agent.onboard
        \/ Open(k) /\ Authorized(k) /\ IsLatest(k) /\ agent.log[k] = "none"
    BY <1>1, <1>2, OutcomeFacts, UndecidedIsOpen
  <1>5. TypeOK'
    <2>1. deps[k].flight \in Flights /\ deps[k].mission \in 1..MaxMission
      BY <1>1 DEF IInv, RecordInv, NoDeployment, TypeOK, Deployment
    <2>2. out.onboard \in Mission \cup {<<None, 0>>, <<"garbled", 0>>}
      BY <1>1, <2>1, OutcomeFacts DEF TypeOK, Mission
    <2>3. out.log \in {"none", "uncertain"} \cup Terminal
      BY <1>1, OutcomeFacts
    <2>4. agent' \in [context : Flights \cup {None},
                      onboard : Mission \cup {<<None, 0>>, <<"garbled", 0>>},
                      log : [Keys -> {"none", "uncertain"} \cup Terminal]]
      BY <1>1, <2>2, <2>3 DEF TypeOK
    <2> QED BY <1>1, <2>4 DEF TypeOK
  <1>6. FlightInv' /\ RecordInv' /\ OrderInv' /\ LateInv'
    BY DEF IInv, FlightInv, RecordInv, OrderInv, Admitted, LateInv
  <1>7. \A j \in Keys : /\ Open(j)' <=> Open(j)
                        /\ IsLatest(j)' <=> IsLatest(j)
                        /\ Authorized(j)' <=> Authorized(j)
    BY DEF Open, IsLatest, Authorized, Deployable, Bound, NoActiveFlight
  <1>8. OpenInv'
    BY <1>7 DEF IInv, OpenInv
  <1>9. ActiveFlightHasItsMission'
    BY <1>4 DEF IInv, ActiveFlightHasItsMission, Authorized, NoActiveFlight
  <1>10. \A j \in Keys : IsLatest(j) /\ IsLatest(k) => j = k
    <2>1. \A j \in Keys : deps[j].ord \in Nat
      BY <1>1 DEF TypeOK, Deployment
    <2>2. \A j \in Keys : IsLatest(j) /\ IsLatest(k) => deps[j].ord = deps[k].ord
      BY <2>1 DEF IsLatest
    <2> QED BY <2>2 DEF IInv, OrderInv, IsLatest
  <1>11. LogInv'
    <2> SUFFICES ASSUME NEW j \in Keys
                 PROVE  /\ deps[j].status \in Terminal => agent'.log[j] # "none"
                        /\ deps[j].status \in Verified /\ IsLatest(j) => Onboard(j)'
      BY <1>7 DEF LogInv
    <2>1. deps[j].status \in Terminal => agent'.log[j] # "none"
      BY <1>3 DEF IInv, LogInv
    <2>2. ASSUME deps[j].status \in Verified, IsLatest(j) PROVE Onboard(j)'
      <3>1. j = k => ~Open(k)
        BY <2>2 DEF Open, Outstanding, Verified
      <3>2. agent'.onboard = agent.onboard
        BY <1>4, <1>10, <2>2, <3>1
      <3> QED BY <2>2, <3>2 DEF IInv, LogInv, Onboard
    <2> QED BY <2>1, <2>2
  <1>12. HandlersInv'
    <2> SUFFICES ASSUME NEW h \in Handlers, pc'[h] = pc[h], job'[h] = job[h]
                 PROVE  HandlerInv(h)'
      BY DEF HandlersInv
    <2>1. HandlerInv(h)
      BY DEF IInv, HandlersInv
    <2>2. CASE pc[h] # "persist"
      BY <2>1, <2>2 DEF HandlerInv, CopyInv
    <2>3. CASE pc[h] = "persist"
      <3>1. job[h].key \in Keys
        BY <2>1, <2>3 DEF HandlerInv, Job
      <3>2. job[h].want \in Terminal => agent'.log[job[h].key] # "none"
        BY <1>3, <2>1, <2>3, <3>1 DEF HandlerInv
      <3>3. ASSUME job[h].want \in Verified, Open(job[h].key)
            PROVE  Onboard(job[h].key)'
        <4>1. agent.log[job[h].key] # "none" /\ IsLatest(job[h].key)
          BY <2>1, <2>3, <3>1, <3>3 DEF HandlerInv, Terminal, IInv, OpenInv
        <4>2. agent'.onboard = agent.onboard
          BY <1>4, <1>10, <3>1, <4>1
        <4> QED BY <2>1, <2>3, <3>3, <4>2 DEF HandlerInv, Onboard
      <3> QED BY <1>7, <2>1, <2>3, <3>1, <3>2, <3>3 DEF HandlerInv, CopyInv
    <2> QED BY <2>2, <2>3
  <1> QED BY <1>5, <1>6, <1>8, <1>9, <1>11, <1>12 DEF IInv

\* A handler that was answered knows what the Agent has logged; one that was
\* not knows nothing.
LEMMA DispatchStep ==
    ASSUME IInv, NEW h \in Handlers, Dispatch(h)
    PROVE  IInv'
  <1> DEFINE k == job[h].key
             c == [kind |-> "deploy", key |-> k, flight |-> job[h].flight]
  <1>1. /\ pc[h] = "dispatch" /\ job[h] \in Job /\ CopyInv(h) /\ TypeOK
        /\ deps[k].dispatched
        /\ pc' = [pc EXCEPT ![h] = "persist"]
        /\ UNCHANGED <<intents, flights, missions, deps, phase>>
    BY DEF Dispatch, Goto, IInv, HandlersInv, HandlerInv
  <1>2. k \in Keys /\ c \in Command /\ c.key = k
    BY <1>1 DEF Job, Command
  <1>3. "persist" \in Steps
    BY DEF Steps
  <1>4. ASSUME NEW w \in Outstanding \cup Terminal, job' = [job EXCEPT ![h].want = w]
        PROVE  /\ pc' \in [Handlers -> Steps] /\ job' \in [Handlers -> Job \cup {None}]
               /\ pc'[h] = "persist" /\ job'[h] \in Job /\ job'[h].want = w
               /\ job'[h].key = k /\ job'[h].dep = job[h].dep
               /\ \A g \in Handlers \ {h} : pc'[g] = pc[g] /\ job'[g] = job[g]
    <2> DEFINE j == [job[h] EXCEPT !.want = w]
    <2>1. job' = [job EXCEPT ![h] = j]
      BY <1>1, <1>4 DEF TypeOK
    <2>2. j \in Job /\ j.key = k /\ j.dep = job[h].dep /\ j.want = w
      BY <1>1 DEF Job
    <2> HIDE DEF j
    <2> QED BY <1>1, <1>3, <2>1, <2>2, Moves
  <1> HIDE DEF c
  <1>5. ASSUME Delivered(c) \/ Unanswered(c)
        PROVE  /\ late' \subseteq Command
               /\ \A d \in late' : d.kind = "deploy" => deps[d.key].dispatched
               /\ budget' \in [requests : 0..MaxRequests, faults : 0..MaxFaults]
    <2>1. /\ late' \subseteq Command /\ late' \subseteq late \cup {c}
          /\ budget' \in [requests : 0..MaxRequests, faults : 0..MaxFaults]
      BY <1>1, <1>2, <1>5, CallTypes
    <2> QED BY <1>1, <1>2, <2>1 DEF IInv, LateInv
  <1>6. ASSUME NEW out \in AgentOutcome(k), AgentDeploys(k, out), Delivered(c),
               job' = [job EXCEPT ![h].want = ResultStatus(h, out)]
        PROVE  IInv'
    <2>1. /\ ResultStatus(h, out) \in Outstanding \cup Terminal
          /\ ResultStatus(h, out) \in Terminal => out.log # "none"
          /\ ResultStatus(h, out) \in Verified =>
               out.onboard = <<job[h].dep.flight, job[h].dep.mission>>
      BY <1>1, <1>2, OutcomeFacts DEF ResultStatus, Terminal, Verified, Failed
    <2>2. agent'.onboard = out.onboard /\ agent'.log[k] = out.log
      BY <1>1, <1>2, <1>6 DEF AgentDeploys, TypeOK
    <2>3. /\ pc' \in [Handlers -> Steps] /\ job' \in [Handlers -> Job \cup {None}]
          /\ pc'[h] = "persist" /\ job'[h] \in Job
          /\ job'[h].want = ResultStatus(h, out)
          /\ job'[h].key = k /\ job'[h].dep = job[h].dep
          /\ \A g \in Handlers \ {h} : pc'[g] = pc[g] /\ job'[g] = job[g]
      BY <1>4, <1>6, <2>1
    <2>4. HandlerInv(h)'
      <3>1. CopyInv(h)'
        BY <1>1, <2>3 DEF CopyInv
      <3>2. <<job[h].dep.flight, job[h].dep.mission>> = <<deps[k].flight, deps[k].mission>>
        BY <1>1 DEF CopyInv
      <3> QED BY <1>1, <2>1, <2>2, <2>3, <3>1, <3>2 DEF HandlerInv, Onboard
    <2> QED BY <1>1, <1>2, <1>5, <1>6, <2>3, <2>4, EffectStep
  <1>7. ASSUME Unanswered(c), job' = [job EXCEPT ![h].want = "outcome_unknown"]
        PROVE  IInv'
    <2>1. /\ pc' \in [Handlers -> Steps] /\ job' \in [Handlers -> Job \cup {None}]
          /\ pc'[h] = "persist" /\ job'[h] \in Job
          /\ job'[h].want = "outcome_unknown"
          /\ job'[h].key = k /\ job'[h].dep = job[h].dep
          /\ \A g \in Handlers \ {h} : pc'[g] = pc[g] /\ job'[g] = job[g]
      BY <1>4, <1>7 DEF Outstanding
    <2>2. TypeOK' /\ UNCHANGED agent
      BY <1>1, <1>5, <1>7, <2>1 DEF TypeOK, Unanswered
    <2>3. HandlerInv(h)'
      BY <1>1, <2>1 DEF HandlerInv, CopyInv, Terminal, Verified, Failed
    <2> QED BY <1>1, <1>5, <1>7, <2>1, <2>2, <2>3, CallStep
  <1> QED BY <1>6, <1>7 DEF Dispatch, c

\* A command processed unheard has the same effects.
LEMMA LateCommandStep ==
    ASSUME IInv, LateCommand
    PROVE  IInv'
  <1>1. PICK c \in late :
          /\ \/ c.kind = "clear" /\ AgentClear(c.flight)
             \/ c.kind = "set" /\ AgentSet(c.flight)
             \/ c.kind = "deploy" /\ \E out \in AgentOutcome(c.key) :
                                        AgentDeploys(c.key, out)
          /\ late' = late \ {c}
          /\ UNCHANGED <<intents, flights, missions, deps, phase, pc, job, budget>>
    <2>1. \A c \in late : c.kind \in {"clear", "set", "deploy"}
      BY DEF IInv, TypeOK, Command
    <2> QED BY <2>1 DEF LateCommand
  <1>2. TypeOK /\ c \in Command /\ c.flight \in Flights /\ c.key \in Keys
    BY DEF IInv, TypeOK, Command
  <1>3. CASE AgentClear(c.flight) \/ AgentSet(c.flight)
    <2>1. /\ agent'.onboard = agent.onboard /\ agent'.log = agent.log
          /\ agent' \in [context : Flights \cup {None},
                         onboard : Mission \cup {<<None, 0>>, <<"garbled", 0>>},
                         log : [Keys -> {"none", "uncertain"} \cup Terminal]]
      BY <1>2, <1>3 DEF TypeOK, AgentClear, AgentSet
    <2>2. TypeOK'
      BY <1>1, <1>2, <2>1 DEF TypeOK
    <2> QED BY <1>1, <2>1, <2>2, QuietStep
  <1>4. ASSUME c.kind = "deploy", NEW out \in AgentOutcome(c.key), AgentDeploys(c.key, out)
        PROVE  IInv'
    <2>1. /\ pc' \in [Handlers -> Steps] /\ job' \in [Handlers -> Job \cup {None}]
          /\ late' \subseteq Command
          /\ budget' \in [requests : 0..MaxRequests, faults : 0..MaxFaults]
      BY <1>1, <1>2 DEF TypeOK
    <2>2. \A d \in late : d.kind = "deploy" => deps[d.key].dispatched
      BY DEF IInv, LateInv
    <2> QED BY <1>1, <1>2, <1>4, <2>1, <2>2, EffectStep
  <1> QED BY <1>1, <1>3, <1>4

-----------------------------------------------------------------------------
(* Theorems.                                                               *)

\* Every step keeps the invariant.
LEMMA InvStep == IInv /\ [Next]_vars => IInv'
  <1> SUFFICES ASSUME IInv, [Next]_vars PROVE IInv'
    OBVIOUS
  <1>1. ASSUME NEW h \in Handlers, Handle(h) PROVE IInv'
    BY <1>1, CreateDeploymentStep, RebindStep, ClearContextStep, EnsureContextStep,
       NoteOutcomeStep, MarkDispatchStep, DispatchStep, PersistResultStep DEF Handle
  <1>2. CASE UNCHANGED vars
    <2>1. TypeOK'
      BY <1>2 DEF vars, IInv, TypeOK
    <2> QED BY <1>2, <2>1, QuietStep DEF vars
  <1> QED BY <1>1, <1>2, ChangeIntentStep, CreatePlannedFlightStep, ImportMissionStep,
             StartFlightStep, BeginStep, CrashStep, TickStep, LateCommandStep DEF Next

\* The inductive invariant.
THEOREM MissionInvariance == Spec => []IInv
  BY InitInv, InvStep, PTL DEF Spec

\* Every reachable state of the deployment protocol has its type.
THEOREM MissionTypes == Spec => []TypeOK
  <1>1. IInv => TypeOK
    BY DEF IInv
  <1> QED BY <1>1, MissionInvariance, PTL

\* At most one deployment of the aircraft is open, and its flight is planned:
\* admission, the retries and the flight start never see two.
THEOREM SingleDeployment == Spec => []OneOpenDeployment
  <1>1. IInv => OneOpenDeployment
    <2> SUFFICES ASSUME IInv PROVE OneOpenDeployment
      OBVIOUS
    <2>1. \A j \in Keys : deps[j].ord \in Nat
      BY DEF IInv, TypeOK, Deployment
    <2>2. ASSUME NEW j \in Keys, NEW k \in Keys, Open(j), Open(k) PROVE j = k
      <3>1. IsLatest(j) /\ IsLatest(k)
        BY <2>2 DEF IInv, OpenInv
      <3>2. deps[j].ord = deps[k].ord /\ deps[k].ord > 0
        BY <2>1, <3>1 DEF IsLatest
      <3> QED BY <3>2 DEF IInv, OrderInv
    <2>3. \A k \in Keys : Open(k) => flights[deps[k].flight].status = "planned"
      BY DEF IInv, OpenInv, Authorized, Deployable, Bound
    <2> QED BY <2>2, <2>3 DEF OneOpenDeployment
  <1> QED BY <1>1, MissionInvariance, PTL

\* A started flight has exactly its current mission on board, however many
\* deployments, retries and late commands of other flights there were.
THEOREM StartedWithItsMission == Spec => []ActiveFlightHasItsMission
  <1>1. IInv => ActiveFlightHasItsMission
    BY DEF IInv
  <1> QED BY <1>1, MissionInvariance, PTL

\* The onboard mission is changed by a dispatched command alone, and that
\* command's entry in the log is the only one that changes.
LEMMA OnboardChanges ==
    ASSUME IInv, Next, agent'.onboard # agent.onboard
    PROVE  \E k \in Keys : /\ Open(k) /\ deps[k].dispatched /\ Authorized(k)
                           /\ \A j \in Keys \ {k} : agent'.log[j] = agent.log[j]
  <1>1. ASSUME NEW k \in Keys, NEW out \in AgentOutcome(k), deps[k].dispatched,
               AgentDeploys(k, out)
        PROVE  /\ Open(k) /\ Authorized(k)
               /\ \A j \in Keys \ {k} : agent'.log[j] = agent.log[j]
    <2>1. /\ agent'.onboard = out.onboard
          /\ \A j \in Keys \ {k} : agent'.log[j] = agent.log[j]
      BY <1>1 DEF AgentDeploys, IInv, TypeOK
    <2>2. agent.log[k] = "none"
      BY <2>1, OutcomeFacts DEF IInv
    <2> QED BY <1>1, <2>1, <2>2, UndecidedIsOpen
  <1>2. \A x : AgentClear(x) \/ AgentSet(x) => agent'.onboard = agent.onboard
    BY DEF AgentClear, AgentSet, IInv, TypeOK
  <1>3. ASSUME NEW h \in Handlers, Handle(h)
        PROVE  /\ pc[h] = "dispatch"
               /\ \E out \in AgentOutcome(job[h].key) : AgentDeploys(job[h].key, out)
    BY <1>2, <1>3 DEF Handle, CreateDeployment, Rebind, ClearContext, EnsureContext,
                      NoteOutcome, MarkDispatch, Dispatch, PersistResult, Unanswered
  <1>4. ASSUME NEW h \in Handlers, pc[h] = "dispatch"
        PROVE  job[h].key \in Keys /\ deps[job[h].key].dispatched
    BY <1>4 DEF IInv, HandlersInv, HandlerInv, Job
  <1>5. CASE LateCommand
    <2>1. PICK c \in late : c.kind = "deploy" /\ \E out \in AgentOutcome(c.key) :
                                                   AgentDeploys(c.key, out)
      <3>1. \A c \in late : c.kind \in {"clear", "set", "deploy"}
        BY DEF IInv, TypeOK, Command
      <3> QED BY <1>2, <1>5, <3>1 DEF LateCommand
    <2>2. c.key \in Keys /\ deps[c.key].dispatched
      BY <2>1 DEF IInv, TypeOK, Command, LateInv
    <2> QED BY <1>1, <2>1, <2>2
  <1>6. CASE \E h \in Handlers : Handle(h)
    BY <1>1, <1>3, <1>4, <1>6
  <1> QED BY <1>5, <1>6 DEF Next, ChangeIntent, CreatePlannedFlight, ImportMission,
                            StartFlight, Begin, Crash, Tick

\* No command takes effect on the aircraft unless its deployment is open and
\* recorded as dispatched and everything it was admitted on still holds: the
\* fences protect it from admission to its last late copy.
THEOREM AuthorizedEffects == Spec => EffectIsAuthorized
  <1> DEFINE A == \A k \in Keys :
                    agent'.onboard # agent.onboard /\ agent'.log[k] # agent.log[k] =>
                      /\ Open(k) /\ deps[k].dispatched
                      /\ Deployable(deps[k].flight) /\ NoActiveFlight
                      /\ missions[deps[k].flight] = deps[k].mission
  <1>1. IInv /\ [Next]_vars => [A]_vars
    <2>1. IInv /\ Next => A
      BY OnboardChanges DEF Authorized
    <2> QED BY <2>1
  <1>2. EffectIsAuthorized <=> [][A]_vars
    BY DEF EffectIsAuthorized
  <1> HIDE DEF A
  <1> QED BY <1>1, <1>2, MissionInvariance, PTL DEF Spec

\* A deployment's record is created once, and changed only while it is open,
\* with the evidence of a dispatch kept.
LEMMA RecordChanges ==
    ASSUME IInv, Next, NEW k \in Keys, deps'[k] # deps[k]
    PROVE  \/ deps[k] = NoDeployment
           \/ Open(k) /\ (deps[k].dispatched => deps'[k].dispatched)
  <1>1. ASSUME NEW h \in Handlers, NEW d \in Deployment, Update(h, d),
               pc[h] \notin {"idle", "create"}, d.rev = job[h].dep.rev,
               job[h].dep.dispatched => d.dispatched
        PROVE  Open(k) /\ (deps[k].dispatched => deps'[k].dispatched)
    <2>1. job[h] \in Job /\ CopyInv(h) /\ job[h].key \in Keys
      BY <1>1 DEF IInv, HandlersInv, HandlerInv, Job
    <2>2. /\ Current(h, d) => deps' = [deps EXCEPT ![job[h].key] =
                                         [d EXCEPT !.rev = d.rev + 1]]
          /\ ~Current(h, d) => deps' = deps
      BY <1>1, <2>1, UpdateFacts DEF IInv
    <2>3. Current(h, d) /\ job[h].key = k
      BY <2>1, <2>2 DEF IInv, TypeOK
    <2>4. deps'[k] = [d EXCEPT !.rev = d.rev + 1]
      BY <2>2, <2>3 DEF IInv, TypeOK
    <2>5. deps'[k].dispatched = d.dispatched
      BY <2>4 DEF Deployment
    <2>6. job[h].dep = deps[k] /\ Open(k)
      BY <1>1, <2>1, <2>3 DEF CopyInv, Current, Mine, Open
    <2> QED BY <1>1, <2>5, <2>6
  <1>2. ASSUME NEW h \in Handlers, pc[h] \notin {"idle", "create"}
        PROVE  /\ job[h].dep \in Deployment /\ job[h].want \in Outstanding \cup Terminal
               /\ LET d == [job[h].dep EXCEPT !.status = job[h].want]
                  IN /\ d \in Deployment /\ d.rev = job[h].dep.rev
                     /\ d.dispatched = job[h].dep.dispatched
               /\ LET d == Dispatching(job[h].dep)
                  IN d \in Deployment /\ d.rev = job[h].dep.rev /\ d.dispatched
    <2>1. job[h] \in Job
      BY <1>2 DEF IInv, HandlersInv, HandlerInv
    <2>2. job[h].dep \in Deployment /\ job[h].want \in Outstanding \cup Terminal
      BY <2>1 DEF Job
    <2> QED BY <2>2 DEF Dispatching, Deployment, Outstanding
  <1>3. ASSUME NEW h \in Handlers, NoteOutcome(h) \/ PersistResult(h)
        PROVE  Open(k) /\ (deps[k].dispatched => deps'[k].dispatched)
    <2>1. pc[h] \notin {"idle", "create"}
          /\ Update(h, [job[h].dep EXCEPT !.status = job[h].want])
      BY <1>3 DEF NoteOutcome, PersistResult
    <2> QED BY <1>1, <1>2, <2>1
  <1>4. ASSUME NEW h \in Handlers, MarkDispatch(h)
        PROVE  Open(k) /\ (deps[k].dispatched => deps'[k].dispatched)
    <2>1. pc[h] \notin {"idle", "create"} /\ Update(h, Dispatching(job[h].dep))
      BY <1>4 DEF MarkDispatch
    <2> QED BY <1>1, <1>2, <2>1
  <1>5. ASSUME NEW h \in Handlers, CreateDeployment(h)
        PROVE  deps[k] = NoDeployment
    <2>1. job[h].key \in Keys
      BY <1>5 DEF CreateDeployment, IInv, HandlersInv, HandlerInv, Job
    <2>2. deps[job[h].key].status = "absent" /\ job[h].key = k
      BY <1>5, <2>1 DEF CreateDeployment, IInv, TypeOK
    <2> QED BY <2>2 DEF IInv, RecordInv
  <1>6. ASSUME NEW h \in Handlers, Handle(h)
        PROVE  \/ CreateDeployment(h) \/ NoteOutcome(h) \/ MarkDispatch(h)
               \/ PersistResult(h)
    BY <1>6 DEF Handle, Rebind, ClearContext, EnsureContext, Dispatch
  <1> QED BY <1>3, <1>4, <1>5, <1>6 DEF Next, ChangeIntent, CreatePlannedFlight,
             ImportMission, StartFlight, Begin, Crash, Tick, LateCommand

\* What is known of a command is never taken back: neither a terminal status
\* nor the record that its dispatch began.
THEOREM KeptEvidence == Spec => EvidenceIsKept
  <1> DEFINE A == \A k \in Keys :
                    /\ deps[k].status \in Terminal => deps'[k].status = deps[k].status
                    /\ deps[k].dispatched => deps'[k].dispatched
  <1>1. IInv /\ [Next]_vars => [A]_vars
    <2>1. IInv /\ Next => A
      BY RecordChanges DEF Open, Outstanding, Terminal, Verified, Failed, NoDeployment
    <2> QED BY <2>1
  <1>2. EvidenceIsKept <=> [][A]_vars
    BY DEF EvidenceIsKept
  <1> HIDE DEF A
  <1> QED BY <1>1, <1>2, MissionInvariance, PTL DEF Spec

\* A handler that learned a terminal outcome returns, unless it crashes, only
\* when the deployment is terminal: the loop against conflicts loses nothing.
THEOREM RecordedOutcomes == Spec => KnownOutcomeIsRecorded
  <1> DEFINE A == \A h \in Handlers :
                    /\ pc[h] = "persist" /\ job[h].want \in Terminal
                    /\ pc'[h] = "idle" /\ budget' = budget
                    => deps'[job[h].key].status \in Terminal
  <1>1. IInv /\ Next => A
    <2> SUFFICES ASSUME IInv, Next, NEW h \in Handlers,
                        pc[h] = "persist", job[h].want \in Terminal,
                        pc'[h] = "idle", budget' = budget
                 PROVE  deps'[job[h].key].status \in Terminal
      OBVIOUS
    <2>1. TypeOK /\ job[h] \in Job /\ CopyInv(h)
      BY DEF IInv, HandlersInv, HandlerInv
    <2>2. /\ \A g \in Handlers : \A s : Goto(g, s) => g = h \/ pc'[h] = pc[h]
          /\ \A s : Goto(h, s) => s = "idle"
      BY <2>1 DEF Goto, TypeOK
    <2>3. PersistResult(h)
      <3>1. ASSUME NEW g \in Handlers, Crash(g) PROVE FALSE
        <4>1. budget.faults \in Int
          BY <2>1, MissionBoundsAssumption DEF TypeOK
        <4>2. budget'.faults = budget.faults - 1
          BY <2>1, <3>1 DEF Crash, TypeOK
        <4> QED BY <4>1, <4>2
      <3>2. ASSUME NEW g \in Handlers, NEW k \in Keys, NEW f \in Flights, Begin(g, k, f)
            PROVE  FALSE
        BY <2>2, <3>2 DEF Begin
      <3>3. ASSUME NEW g \in Handlers, Handle(g) PROVE PersistResult(h)
        <4>1. CASE g = h
          BY <3>3, <4>1 DEF Handle, CreateDeployment, Rebind, ClearContext,
               EnsureContext, NoteOutcome, MarkDispatch, Dispatch
        <4>2. CASE g # h
          BY <2>2, <3>3, <4>2 DEF Handle, CreateDeployment, Resume, Rebind,
               ClearContext, AfterClear, ContextFailed, EnsureContext, NoteOutcome,
               MarkDispatch, Dispatch, PersistResult, OnConflict, Return
        <4> QED BY <4>1, <4>2
      <3> QED BY <3>1, <3>2, <3>3 DEF Next, ChangeIntent, CreatePlannedFlight,
                 ImportMission, StartFlight, Tick, LateCommand
    <2> DEFINE d == [job[h].dep EXCEPT !.status = job[h].want]
    <2>4. d \in Deployment /\ d.status = job[h].want /\ job[h].key \in Keys
      BY <2>1 DEF Job, Deployment
    <2>5. Update(h, d) /\ (Current(h, d) \/ ~Open(job[h].key))
      BY <2>3 DEF PersistResult, OnConflict
    <2> HIDE DEF d
    <2>6. CASE Current(h, d)
      <3>1. deps'[job[h].key] = [d EXCEPT !.rev = d.rev + 1]
        BY <2>1, <2>4, <2>5, <2>6, UpdateFacts DEF TypeOK
      <3> QED BY <2>4, <3>1 DEF Deployment
    <2>7. CASE ~Current(h, d) /\ ~Open(job[h].key)
      <3>1. deps' = deps
        BY <2>1, <2>4, <2>5, <2>7, UpdateFacts
      <3> QED BY <2>1, <2>4, <2>7, <3>1 DEF CopyInv, Open, TypeOK, Deployment
    <2> QED BY <2>5, <2>6, <2>7
  <1>2. IInv /\ [Next]_vars => [A]_vars
    BY <1>1
  <1>3. KnownOutcomeIsRecorded <=> [][A]_vars
    BY DEF KnownOutcomeIsRecorded
  <1> HIDE DEF A
  <1> QED BY <1>2, <1>3, MissionInvariance, PTL DEF Spec

-----------------------------------------------------------------------------
(* The refinement of MissionStore: the mapped state.                       *)

FlightRecords == {FlightRecord(f) : f \in {f \in Flights : flights[f].status # "absent"}}

MissionRecords ==
    {[flight |-> m[1], version |-> m[2]] : m \in {m \in Mission : m[2] <= missions[m[1]]}}

DeploymentRecords == {Keyed(k, deps[k]) : k \in {k \in Keys : deps[k].status # "absent"}}

Held == [h \in Handlers |-> IF pc[h] \in {"idle", "create"} THEN {}
                            ELSE {Keyed(job[h].key, job[h].dep)}]

\* The records of the flights that exist.
LEMMA FlightRecordsAre ==
    \A r : r \in FlightRecords <=>
        \E f \in Flights : flights[f].status # "absent" /\ r = FlightRecord(f)
BY DEF FlightRecords

\* The versions of a flight's mission up to the current one.
LEMMA MissionRecordsAre ==
    \A r : r \in MissionRecords <=>
        \E f \in Flights, n \in 1..MaxMission :
            n <= missions[f] /\ r = [flight |-> f, version |-> n]
<1>1. ASSUME NEW r \in MissionRecords
      PROVE  \E f \in Flights, n \in 1..MaxMission :
                 n <= missions[f] /\ r = [flight |-> f, version |-> n]
  BY <1>1 DEF MissionRecords, Mission
<1>2. ASSUME NEW f \in Flights, NEW n \in 1..MaxMission, n <= missions[f]
      PROVE  [flight |-> f, version |-> n] \in MissionRecords
  <2>1. <<f, n>> \in Mission /\ <<f, n>>[1] = f /\ <<f, n>>[2] = n
    BY DEF Mission
  <2> QED
    BY <1>2, <2>1 DEF MissionRecords
<1> QED
  BY <1>1, <1>2

\* The records of the deployments that exist.
LEMMA DeploymentRecordsAre ==
    \A r : r \in DeploymentRecords <=>
        \E k \in Keys : deps[k].status # "absent" /\ r = Keyed(k, deps[k])
BY DEF DeploymentRecords

\* The current mission of a flight is the one with the highest version.
LEMMA CurrentMissionIs ==
    ASSUME TypeOK, NEW f \in Flights
    PROVE  Store!CurrentMission(FlightRecord(f)) =
             IF missions[f] > 0 THEN {[flight |-> f, version |-> missions[f]]} ELSE {}
<1> DEFINE C == {m \in MissionRecords :
                   /\ m.flight = FlightRecord(f).id
                   /\ \A n \in MissionRecords : n.flight = FlightRecord(f).id =>
                                                n.version <= m.version}
           top == [flight |-> f, version |-> missions[f]]
<1>1. Store!CurrentMission(FlightRecord(f)) = C
  BY DEF Store!CurrentMission, MissionRecords
<1>2. FlightRecord(f).id = f /\ missions[f] \in 0..MaxMission
  BY DEF FlightRecord, TypeOK
<1>3. ASSUME missions[f] > 0
      PROVE  C = {top}
  <2>0. top \in MissionRecords
    BY <1>2, <1>3, MissionRecordsAre, MissionBoundsAssumption
  <2>1. \A n \in MissionRecords : n.flight = f => n.version \in 1..MaxMission
                                                  /\ n.version <= missions[f]
                                                  /\ n = [flight |-> f, version |-> n.version]
    BY MissionRecordsAre
  <2>2. top.flight = f /\ top.version = missions[f]
    OBVIOUS
  <2>3. top \in C
    BY <1>2, <2>0, <2>1, <2>2
  <2>4. ASSUME NEW m \in C
        PROVE  m = top
    <3>1. m \in MissionRecords /\ m.flight = f /\ missions[f] <= m.version
      BY <1>2, <2>0, <2>2
    <3>2. m.version = missions[f]
      BY <1>2, <2>1, <3>1, MissionBoundsAssumption
    <3> QED
      BY <2>1, <3>1, <3>2
  <2> QED
    BY <2>3, <2>4
<1>4. ASSUME ~(missions[f] > 0)
      PROVE  C = {}
  BY <1>2, <1>4, MissionRecordsAre, MissionBoundsAssumption
<1> QED
  BY <1>1, <1>3, <1>4

-----------------------------------------------------------------------------
(* What is shown.                                                          *)

\* The last deployment before a flight was started is its own, verified.
StartedInv == \A f \in Flights : flights[f].status = "active" => LatestIsVerified(f)

\* While a flight is active, no deployment is admitted or changed.
LEMMA ActiveFreezes ==
    ASSUME IInv, Next, ~NoActiveFlight
    PROVE  deps' = deps
<1>1. \A k \in Keys : ~Open(k)
  BY DEF IInv, OpenInv, Authorized
<1>2. ASSUME NEW k \in Keys, deps'[k] # deps[k]
      PROVE  FALSE
  <2>1. deps[k] = NoDeployment
    BY <1>1, <1>2, RecordChanges
  <2>2. \A h \in Handlers : pc[h] # "idle" => job[h] \in Job /\ job[h].key \in Keys
    BY DEF IInv, HandlersInv, HandlerInv, Job
  <2>3. ASSUME NEW h \in Handlers, CreateDeployment(h)
        PROVE  FALSE
    BY <1>2, <2>3 DEF CreateDeployment, Admits
  <2>4. ASSUME NEW h \in Handlers, NoteOutcome(h) \/ MarkDispatch(h) \/ PersistResult(h)
        PROVE  FALSE
    <3>1. job[h] \in Job /\ CopyInv(h) /\ job[h].key \in Keys
      BY <2>2, <2>4 DEF NoteOutcome, MarkDispatch, PersistResult, IInv, HandlersInv,
                        HandlerInv
    <3>2. job[h].key # k
      BY <2>1, <3>1 DEF CopyInv, NoDeployment
    <3> QED
      BY <1>2, <2>4, <3>1, <3>2 DEF NoteOutcome, MarkDispatch, PersistResult, Update,
           IInv, TypeOK
  <2>5. ASSUME NEW h \in Handlers, Handle(h)
        PROVE  FALSE
    BY <1>2, <2>3, <2>4, <2>5 DEF Handle, Rebind, ClearContext, EnsureContext, Dispatch
  <2> QED
    BY <1>2, <2>5 DEF Next, ChangeIntent, CreatePlannedFlight, ImportMission,
       StartFlight, Begin, Crash, Tick, LateCommand
<1>3. deps \in [Keys -> Deployment] /\ deps' \in [Keys -> Deployment]
  <2>1. TypeOK /\ TypeOK'
    BY InvStep DEF IInv
  <2> QED
    BY <2>1 DEF TypeOK
<1> QED
  BY <1>2, <1>3

\* Every step keeps the last deployment of a started flight.
LEMMA StartedStep == IInv /\ StartedInv /\ [Next]_vars => StartedInv'
<1> SUFFICES ASSUME IInv, StartedInv, [Next]_vars, NEW f \in Flights,
                    flights'[f].status = "active"
             PROVE  LatestIsVerified(f)'
  BY DEF StartedInv
<1>1. CASE UNCHANGED vars
  BY <1>1 DEF vars, StartedInv, LatestIsVerified, IsLatest
<1>2. CASE Next /\ flights[f].status = "active"
  <2>1. LatestIsVerified(f) /\ ~NoActiveFlight
    BY <1>2 DEF StartedInv, NoActiveFlight
  <2>2. deps' = deps
    BY <1>2, <2>1, ActiveFreezes
  <2>3. missions'[f] = missions[f]
    <3>1. ASSUME NEW g \in Flights, ImportMission(g)
          PROVE  missions'[f] = missions[f]
      BY <1>2, <3>1 DEF ImportMission, Bound, IInv, TypeOK
    <3> QED
      BY <1>2, <3>1 DEF Next, ChangeIntent, CreatePlannedFlight, StartFlight, Begin,
           Handle, CreateDeployment, Rebind, ClearContext, EnsureContext, NoteOutcome,
           MarkDispatch, Dispatch, PersistResult, Crash, Tick, LateCommand
  <2> QED
    BY <2>1, <2>2, <2>3 DEF LatestIsVerified, IsLatest
<1>3. CASE Next /\ flights[f].status # "active"
  <2>1. StartFlight(f)
    <3>1. ASSUME NEW g \in Flights, StartFlight(g)
          PROVE  g = f
      BY <1>3, <3>1 DEF StartFlight, IInv, TypeOK
    <3>2. ASSUME NEW g \in Flights, NEW i \in Intents, CreatePlannedFlight(g, i)
          PROVE  FALSE
      BY <1>3, <3>2 DEF CreatePlannedFlight, IInv, TypeOK
    <3>3. flights' # flights
      BY <1>3
    <3> QED
      BY <1>3, <3>1, <3>2, <3>3 DEF Next, ChangeIntent, ImportMission, Begin, Handle,
           CreateDeployment, Rebind, ClearContext, EnsureContext, NoteOutcome,
           MarkDispatch, Dispatch, PersistResult, Crash, Tick, LateCommand
  <2> QED
    BY <2>1 DEF StartFlight, LatestIsVerified, IsLatest
<1> QED
  BY <1>1, <1>2, <1>3

\* The invariant, with what was last deployed before a start.
THEOREM StartedInvariance == Spec => [](IInv /\ StartedInv)
<1>1. Init => IInv /\ StartedInv
  BY InitInv DEF Init, StartedInv
<1>2. IInv /\ StartedInv /\ [Next]_vars => (IInv /\ StartedInv)'
  BY InvStep, StartedStep
<1> QED
  BY <1>1, <1>2, PTL DEF Spec

\* The fields of a mapped record.
LEMMA KeyedFields ==
    ASSUME NEW k, NEW d
    PROVE  LET r == Keyed(k, d) IN
           /\ r.key = k /\ r.flight = d.flight /\ r.mission = d.mission
           /\ r.status = d.status /\ r.dispatched = d.dispatched
           /\ r.rev = d.rev /\ r.ord = d.ord
BY DEF Keyed

\* The mapped record of an open deployment is outstanding, and of no other.
LEMMA OutstandingIsOpen ==
    \A k \in Keys : Store!Outstanding(Keyed(k, deps[k])) <=> Open(k)
BY DEF Store!Outstanding, Keyed, Open, Outstanding

\* What is restored for a flight: the preferred one of its deployments that are
\* open or of its current mission.
LEMMA RestoredAre ==
    ASSUME TypeOK, NEW f \in Flights
    PROVE  /\ \A k \in Keys :
                 Store!Restorable(FlightRecord(f), Keyed(k, deps[k])) <=>
                     /\ deps[k].flight = f
                     /\ \/ Open(k)
                        \/ missions[f] > 0 /\ deps[k].mission = missions[f]
           /\ \A d : d \in Store!CurrentDeployment(FlightRecord(f)) <=>
                 /\ d \in DeploymentRecords
                 /\ Store!Restorable(FlightRecord(f), d)
                 /\ \A e \in DeploymentRecords :
                       Store!Restorable(FlightRecord(f), e) => Store!Preferred(d, e)
<1>1. ASSUME NEW k \in Keys
      PROVE  Store!Restorable(FlightRecord(f), Keyed(k, deps[k])) <=>
                 /\ deps[k].flight = f
                 /\ \/ Open(k)
                    \/ missions[f] > 0 /\ deps[k].mission = missions[f]
  <2> DEFINE d == Keyed(k, deps[k])
             C == Store!CurrentMission(FlightRecord(f))
  <2>1. d.flight = deps[k].flight /\ d.mission = deps[k].mission
        /\ FlightRecord(f).id = f
    BY KeyedFields DEF FlightRecord
  <2>2. Store!Restorable(FlightRecord(f), d) <=>
          /\ d.flight = FlightRecord(f).id
          /\ Store!Outstanding(d) \/ [flight |-> d.flight, version |-> d.mission] \in C
    BY DEF Store!Restorable
  <2>3. C = IF missions[f] > 0 THEN {[flight |-> f, version |-> missions[f]]} ELSE {}
    BY CurrentMissionIs
  <2>4. Store!Outstanding(d) <=> Open(k)
    BY OutstandingIsOpen
  <2> HIDE DEF C, d
  <2>5. ASSUME deps[k].flight = f
        PROVE  [flight |-> d.flight, version |-> d.mission] \in C <=>
                   missions[f] > 0 /\ deps[k].mission = missions[f]
    <3>1. [flight |-> f, version |-> deps[k].mission] =
            [flight |-> f, version |-> missions[f]]
          => deps[k].mission = missions[f]
      <4>1. [flight |-> f, version |-> deps[k].mission].version = deps[k].mission
            /\ [flight |-> f, version |-> missions[f]].version = missions[f]
        OBVIOUS
      <4> QED
        BY <4>1
    <3> QED
      BY <2>1, <2>3, <2>5, <3>1
  <2> QED
    BY <2>1, <2>2, <2>4, <2>5 DEF d
<1>2. \A d : d \in Store!CurrentDeployment(FlightRecord(f)) <=>
        /\ d \in DeploymentRecords
        /\ Store!Restorable(FlightRecord(f), d)
        /\ \A e \in DeploymentRecords :
              Store!Restorable(FlightRecord(f), e) => Store!Preferred(d, e)
  BY DEF Store!CurrentDeployment, DeploymentRecords
<1> QED
  BY <1>1, <1>2

\* An open deployment goes before every other one, and of two that are not
\* open the later one does.
LEMMA PreferredIs ==
    ASSUME TypeOK, NEW j \in Keys, NEW k \in Keys
    PROVE  /\ Open(j) /\ ~Open(k) =>
                 Store!Preferred(Keyed(j, deps[j]), Keyed(k, deps[k]))
           /\ j = k => Store!Preferred(Keyed(j, deps[j]), Keyed(k, deps[k]))
           /\ ~Open(j) /\ ~Open(k) =>
                 (Store!Preferred(Keyed(j, deps[j]), Keyed(k, deps[k])) <=>
                      deps[j].ord >= deps[k].ord)
<1> DEFINE P(x) == Store!Priority(Keyed(x, deps[x]))
<1>1. \A x \in Keys : P(x) \in 0..2 /\ (Open(x) <=> P(x) < 2)
  BY KeyedFields DEF Store!Priority, Open, Outstanding
<1>2. Store!Preferred(Keyed(j, deps[j]), Keyed(k, deps[k])) <=>
        P(j) < P(k) \/ (P(j) = P(k) /\ deps[j].ord >= deps[k].ord)
  BY KeyedFields DEF Store!Preferred
<1>3. deps[j].ord \in Nat /\ deps[k].ord \in Nat
  BY DEF TypeOK, Deployment
<1> HIDE DEF P
<1> QED
  BY <1>1, <1>2, <1>3

\* An open deployment of the flight is the one that is shown.
LEMMA FencedIsShown ==
    ASSUME IInv, NEW f \in Flights, FlightFenced(f)
    PROVE  \E d \in Store!CurrentDeployment(FlightRecord(f)) : Store!Outstanding(d)
<1>0. TypeOK
  BY DEF IInv
<1>1. PICK k \in Keys : Open(k) /\ deps[k].flight = f
  BY DEF FlightFenced
<1>2. \A j \in Keys : Open(j) => j = k
  <2>1. \A j \in Keys : deps[j].ord \in Nat
    BY <1>0 DEF TypeOK, Deployment
  <2> SUFFICES ASSUME NEW j \in Keys, Open(j) PROVE j = k
    OBVIOUS
  <2>2. IsLatest(j) /\ IsLatest(k)
    BY <1>1 DEF IInv, OpenInv
  <2>3. deps[j].ord = deps[k].ord /\ deps[k].ord > 0
    BY <2>1, <2>2 DEF IsLatest
  <2> QED
    BY <2>3 DEF IInv, OrderInv
<1> DEFINE d == Keyed(k, deps[k])
<1>3. d \in DeploymentRecords
  BY <1>1, DeploymentRecordsAre DEF Open, Outstanding
<1>4. Store!Restorable(FlightRecord(f), d)
  BY <1>0, <1>1, RestoredAre
<1>5. \A e \in DeploymentRecords : Store!Preferred(d, e)
  <2> SUFFICES ASSUME NEW e \in DeploymentRecords PROVE Store!Preferred(d, e)
    OBVIOUS
  <2>1. PICK j \in Keys : e = Keyed(j, deps[j])
    BY DeploymentRecordsAre
  <2>2. Store!Preferred(Keyed(k, deps[k]), Keyed(j, deps[j]))
    BY <1>0, <1>1, <1>2, PreferredIs
  <2> QED
    BY <2>1, <2>2
<1>6. Store!Outstanding(d)
  BY <1>1, OutstandingIsOpen
<1> QED
  BY <1>0, <1>3, <1>4, <1>5, <1>6, RestoredAre

\* What is shown of a started flight.
LEMMA StartedIsShown ==
    ASSUME IInv, StartedInv, NEW f \in Flights, flights[f].status = "active"
    PROVE  LET shown == Store!CurrentDeployment(FlightRecord(f)) IN
           /\ shown # {} /\ \A d \in shown : d.status \in Verified
           /\ {<<m.flight, m.version>> : m \in Store!DeployedMission(FlightRecord(f))}
                 = {agent.onboard}
<1> DEFINE shown == Store!CurrentDeployment(FlightRecord(f))
<1>0. TypeOK /\ \A j \in Keys : deps[j].ord \in Nat
  BY DEF IInv, TypeOK, Deployment
<1>1. PICK k \in Keys : /\ IsLatest(k)
                        /\ deps[k].flight = f /\ deps[k].mission = missions[f]
                        /\ deps[k].status \in Verified
  BY DEF StartedInv, LatestIsVerified
<1>2. \A j \in Keys : ~Open(j)
  BY DEF IInv, OpenInv, Authorized, NoActiveFlight
<1>3. deps[k].status # "absent" /\ missions[f] > 0
  BY <1>1 DEF IInv, RecordInv, NoDeployment, Verified
<1> DEFINE d == Keyed(k, deps[k])
<1>4. d \in DeploymentRecords /\ Store!Restorable(FlightRecord(f), d)
  BY <1>0, <1>1, <1>3, DeploymentRecordsAre, RestoredAre
<1>5. \A e \in DeploymentRecords : Store!Preferred(d, e)
  <2> SUFFICES ASSUME NEW e \in DeploymentRecords PROVE Store!Preferred(d, e)
    OBVIOUS
  <2>1. PICK j \in Keys : e = Keyed(j, deps[j])
    BY DeploymentRecordsAre
  <2>2. deps[k].ord >= deps[j].ord
    BY <1>0, <1>1 DEF IsLatest
  <2>3. Store!Preferred(Keyed(k, deps[k]), Keyed(j, deps[j]))
    BY <1>0, <1>2, <2>2, PreferredIs
  <2> QED
    BY <2>1, <2>3
<1>6. d \in shown
  BY <1>0, <1>4, <1>5, RestoredAre
<1>7. ASSUME NEW e \in shown
      PROVE  e.status \in Verified
  <2>1. e \in DeploymentRecords /\ Store!Preferred(e, d)
    BY <1>0, <1>4, <1>7, RestoredAre
  <2>2. PICK j \in Keys : e = Keyed(j, deps[j])
    BY <2>1, DeploymentRecordsAre
  <2>3. deps[j].ord >= deps[k].ord
    BY <1>0, <1>2, <2>1, <2>2, PreferredIs
  <2>4. j = k
    BY <1>0, <1>1, <2>3 DEF IsLatest, IInv, OrderInv
  <2> QED
    BY <1>1, <2>2, <2>4, KeyedFields
<1>8. {<<m.flight, m.version>> : m \in Store!DeployedMission(FlightRecord(f))}
        = {agent.onboard}
  <2> DEFINE cur == [flight |-> f, version |-> missions[f]]
  <2>1. Store!CurrentMission(FlightRecord(f)) = {cur}
    BY <1>0, <1>3, CurrentMissionIs
  <2>2. FlightRecord(f).status = "active" /\ FlightRecord(f).id = f
    BY DEF FlightRecord
  <2>3. cur.flight = f /\ cur.version = missions[f]
    OBVIOUS
  <2>4. /\ d.flight = f /\ d.mission = missions[f]
        /\ d.status \in {"applied", "already_applied"}
    BY <1>1, KeyedFields DEF Verified
  <2> HIDE DEF cur, d
  <2>5. Store!DeployedMission(FlightRecord(f)) = {cur}
    <3> DEFINE C == Store!CurrentMission(FlightRecord(f))
    <3>1. Store!DeployedMission(FlightRecord(f)) =
            {m \in C :
               /\ FlightRecord(f).status = "active"
               /\ \E e \in DeploymentRecords :
                     /\ e.flight = FlightRecord(f).id /\ e.mission = m.version
                     /\ e.status \in {"applied", "already_applied"}}
      BY DEF Store!DeployedMission, DeploymentRecords
    <3> HIDE DEF C
    <3> QED
      BY <1>4, <2>1, <2>2, <2>3, <2>4, <3>1 DEF C
  <2>6. agent.onboard = <<f, missions[f]>>
    BY DEF IInv, ActiveFlightHasItsMission
  <2> QED
    BY <2>3, <2>5, <2>6
<1> QED
  BY <1>6, <1>7, <1>8

\* What an operator is shown of a flight is so: its open deployment as long as
\* there is one, and once it is started the deployment that was verified and
\* the mission that is on board.
THEOREM ShownCorrectly == Spec => []ShownIsSo
<1>1. IInv /\ StartedInv => ShownIsSo
  BY FencedIsShown, StartedIsShown DEF ShownIsSo
<1> QED
  BY <1>1, StartedInvariance, PTL

-----------------------------------------------------------------------------
(* The steps of the in-memory store, over the mapped state.                *)

\* The state of the in-memory store.
LEMMA StoreView ==
    Store!storeVars =
        <<intents, FlightRecords, MissionRecords, DeploymentRecords, Held>>
BY DEF Store!storeVars, FlightRecords, MissionRecords, DeploymentRecords, Held

\* A step that changes nothing the in-memory store keeps.
LEMMA Stutters ==
    ASSUME UNCHANGED <<intents, FlightRecords, MissionRecords, DeploymentRecords, Held>>
    PROVE  UNCHANGED Store!storeVars
BY DEF Store!storeVars, FlightRecords, MissionRecords, DeploymentRecords, Held

\* A call that ends.
LEMMA Leaves ==
    ASSUME NEW h \in Handlers, Held' = [Held EXCEPT ![h] = {}],
           UNCHANGED <<intents, FlightRecords, MissionRecords, DeploymentRecords>>
    PROVE  Store!StoreNext
<1>1. Store!Leave(h)
  BY DEF Store!Leave, Held
<1> QED
  BY <1>1 DEF Store!StoreNext, FlightRecords, MissionRecords, DeploymentRecords, Held

\* The fences of the two stores are the same.
LEMMA FencesAgree ==
    /\ \A f \in Flights : Store!FlightHasOutstanding(FlightRecord(f)) <=> FlightFenced(f)
    /\ \A i \in Intents : Store!IntentHasOutstanding(i) => IntentFenced(i)
    /\ \A f \in Flights : \A states :
          Store!PlannedFor(FlightRecord(f), states) <=> Bound(f, states)
    /\ NoActiveFlight => Store!NoneActive
<1>0. \A f \in Flights :
        /\ FlightRecord(f).id = f /\ FlightRecord(f).status = flights[f].status
        /\ FlightRecord(f).intent = flights[f].intent
        /\ FlightRecord(f).version = flights[f].version
  BY DEF FlightRecord
<1>1. ASSUME NEW f \in Flights
      PROVE  Store!FlightHasOutstanding(FlightRecord(f)) <=> FlightFenced(f)
  <2>1. Store!FlightHasOutstanding(FlightRecord(f)) <=>
          \E d \in DeploymentRecords : d.flight = FlightRecord(f).id
                                       /\ Store!Outstanding(d)
    BY DEF Store!FlightHasOutstanding, DeploymentRecords
  <2>2. ASSUME NEW d \in DeploymentRecords, d.flight = f, Store!Outstanding(d)
        PROVE  FlightFenced(f)
    BY <2>2, DeploymentRecordsAre, OutstandingIsOpen, KeyedFields DEF FlightFenced
  <2>3. ASSUME NEW k \in Keys, Open(k), deps[k].flight = f
        PROVE  \E d \in DeploymentRecords : d.flight = f /\ Store!Outstanding(d)
    <3>1. Keyed(k, deps[k]) \in DeploymentRecords
      BY <2>3, DeploymentRecordsAre DEF Open, Outstanding
    <3> QED
      BY <2>3, <3>1, OutstandingIsOpen, KeyedFields
  <2> QED
    BY <1>0, <2>1, <2>2, <2>3 DEF FlightFenced
<1>2. ASSUME NEW i \in Intents, Store!IntentHasOutstanding(i)
      PROVE  IntentFenced(i)
  <2>1. PICK r \in FlightRecords : r.intent = i /\ Store!FlightHasOutstanding(r)
    BY <1>2 DEF Store!IntentHasOutstanding, FlightRecords
  <2> QED
    BY <1>0, <1>1, <2>1, FlightRecordsAre DEF IntentFenced
<1>3. ASSUME NEW f \in Flights, NEW states
      PROVE  Store!PlannedFor(FlightRecord(f), states) <=> Bound(f, states)
  BY <1>0 DEF Store!PlannedFor, Bound
<1>4. ASSUME NoActiveFlight
      PROVE  Store!NoneActive
  <2>1. Store!NoneActive <=> \A r \in FlightRecords : r.status # "active"
    BY DEF Store!NoneActive, FlightRecords
  <2> QED
    BY <1>0, <1>4, <2>1, FlightRecordsAre DEF NoActiveFlight
<1> QED
  BY <1>1, <1>2, <1>3, <1>4

\* Mapped state that a step cannot have changed.
LEMMA SameRecords ==
    /\ UNCHANGED flights => UNCHANGED FlightRecords
    /\ UNCHANGED missions => UNCHANGED MissionRecords
    /\ UNCHANGED deps => UNCHANGED DeploymentRecords
    /\ UNCHANGED <<pc, job>> => UNCHANGED Held
BY DEF FlightRecords, FlightRecord, MissionRecords, DeploymentRecords, Held

\* A transition of an intent.
LEMMA ChangesIntent ==
    ASSUME IInv, NEW i \in Intents, ChangeIntent(i)
    PROVE  Store!StoreNext
<1>1. UNCHANGED <<FlightRecords, MissionRecords, DeploymentRecords, Held>>
  BY SameRecords DEF ChangeIntent
<1>2. intents \in [Intents -> [version : 1..MaxIntentVersion,
                      status : {"draft", "accepted", "active", "ended"}]]
  BY DEF IInv, TypeOK
<1>3. ~Store!IntentHasOutstanding(i)
  BY FencesAgree DEF ChangeIntent
<1>4. DOMAIN intents = Intents
  BY <1>2
<1>5. \A j \in Intents : j # i => intents'[j] = intents[j]
  BY <1>2 DEF ChangeIntent
<1>6. \/ intents'[i].version = intents[i].version
      \/ intents'[i] = [version |-> intents[i].version + 1, status |-> "draft"]
  BY <1>2 DEF ChangeIntent
<1>7. Store!ChangeIntent
  BY <1>3, <1>4, <1>5, <1>6 DEF Store!ChangeIntent
<1> QED
  BY <1>1, <1>7 DEF Store!StoreNext, FlightRecords, MissionRecords, DeploymentRecords,
     Held

\* A new flight record.
LEMMA CreatesFlight ==
    ASSUME IInv, NEW f \in Flights, NEW i \in Intents, CreatePlannedFlight(f, i)
    PROVE  Store!StoreNext
<1>1. UNCHANGED <<intents, MissionRecords, DeploymentRecords, Held>>
  BY SameRecords DEF CreatePlannedFlight
<1>2. /\ flights[f].status = "absent" /\ flights'[f].status = "planned"
      /\ \A g \in Flights : g # f => flights'[g] = flights[g]
  BY DEF CreatePlannedFlight, IInv, TypeOK
<1> DEFINE r == FlightRecord(f)'
<1>3. r.id = f
  BY DEF FlightRecord
<1>4. \A x : x \in FlightRecords' <=>
        \E g \in Flights : flights'[g].status # "absent" /\ x = FlightRecord(g)'
  BY DEF FlightRecords
<1>5. \A g \in Flights : g # f => FlightRecord(g)' = FlightRecord(g)
  BY <1>2 DEF FlightRecord
<1>6. r \in FlightRecords'
  BY <1>2, <1>4
<1>7. \A x \in FlightRecords : x.id # f
  BY <1>2, FlightRecordsAre DEF FlightRecord
<1>8. FlightRecords' = FlightRecords \cup {r}
  <2>1. ASSUME NEW x \in FlightRecords' PROVE x \in FlightRecords \cup {r}
    BY <1>2, <1>4, <1>5, FlightRecordsAre
  <2>2. ASSUME NEW x \in FlightRecords PROVE x \in FlightRecords'
    BY <1>2, <1>4, <1>5, FlightRecordsAre
  <2> QED
    BY <1>6, <2>1, <2>2
<1> HIDE DEF r
<1>9. Store!CreateFlight
  <2>1. \E x \in FlightRecords' : /\ \A other \in FlightRecords : other.id # x.id
                                  /\ FlightRecords' = FlightRecords \cup {x}
    BY <1>3, <1>6, <1>7, <1>8
  <2> QED
    BY <2>1 DEF Store!CreateFlight, FlightRecords
<1> QED
  BY <1>1, <1>9 DEF Store!StoreNext, MissionRecords, DeploymentRecords, Held

\* The next version of a mission.
LEMMA CreatesMission ==
    ASSUME IInv, NEW f \in Flights, ImportMission(f)
    PROVE  Store!StoreNext
<1> DEFINE new == [flight |-> f, version |-> missions[f] + 1]
           C == Store!CurrentMission(FlightRecord(f))
<1>1. UNCHANGED <<intents, FlightRecords, DeploymentRecords, Held>>
  BY SameRecords DEF ImportMission
<1>2. /\ missions[f] < MaxMission /\ missions[f] \in Nat
      /\ missions'[f] = missions[f] + 1
      /\ \A g \in Flights : g # f => missions'[g] = missions[g]
  BY MissionBoundsAssumption DEF ImportMission, IInv, TypeOK
<1>3. \A x : x \in MissionRecords' <=>
        \E g \in Flights, n \in 1..MaxMission :
            n <= missions'[g] /\ x = [flight |-> g, version |-> n]
  <2>1. ASSUME NEW r \in MissionRecords'
        PROVE  \E g \in Flights, n \in 1..MaxMission :
                   n <= missions'[g] /\ r = [flight |-> g, version |-> n]
    BY <2>1 DEF MissionRecords, Mission
  <2>2. ASSUME NEW g \in Flights, NEW n \in 1..MaxMission, n <= missions'[g]
        PROVE  [flight |-> g, version |-> n] \in MissionRecords'
    <3>1. <<g, n>> \in Mission /\ <<g, n>>[1] = g /\ <<g, n>>[2] = n
      BY DEF Mission
    <3> QED
      BY <2>2, <3>1 DEF MissionRecords
  <2> QED
    BY <2>1, <2>2
<1>4. MissionRecords' = MissionRecords \cup {new}
  <2>1. ASSUME NEW x \in MissionRecords' PROVE x \in MissionRecords \cup {new}
    <3>1. PICK g \in Flights, n \in 1..MaxMission :
            n <= missions'[g] /\ x = [flight |-> g, version |-> n]
      BY <1>3, <2>1
    <3>2. n <= missions[g] \/ (g = f /\ n = missions[f] + 1)
      BY <1>2, <3>1
    <3> QED
      BY <3>1, <3>2, MissionRecordsAre
  <2>2. ASSUME NEW x \in MissionRecords PROVE x \in MissionRecords'
    <3>1. PICK g \in Flights, n \in 1..MaxMission :
            n <= missions[g] /\ x = [flight |-> g, version |-> n]
      BY MissionRecordsAre
    <3>2. n <= missions'[g]
      BY <1>2, <3>1
    <3> QED
      BY <1>3, <3>1, <3>2
  <2>3. new \in MissionRecords'
    <3>1. missions[f] + 1 \in 1..MaxMission
      BY <1>2, MissionBoundsAssumption
    <3>2. missions[f] + 1 <= missions'[f]
      BY <1>2
    <3> QED
      BY <1>3, <3>1, <3>2
  <2> QED
    BY <2>1, <2>2, <2>3
<1>5. new = [flight |-> FlightRecord(f).id, version |-> 1 + (IF C = {} THEN 0
                ELSE (CHOOSE m \in C : TRUE).version)]
  <2>1. C = IF missions[f] > 0 THEN {[flight |-> f, version |-> missions[f]]} ELSE {}
    BY CurrentMissionIs DEF IInv
  <2>2. FlightRecord(f).id = f
    BY DEF FlightRecord
  <2> HIDE DEF C
  <2>3. CASE missions[f] > 0
    <3>1. C # {} /\ (CHOOSE m \in C : TRUE) = [flight |-> f, version |-> missions[f]]
      BY <2>1, <2>3
    <3>2. [flight |-> f, version |-> missions[f]].version = missions[f]
      OBVIOUS
    <3> DEFINE top == CHOOSE m \in C : TRUE
    <3>3. top.version = missions[f]
      BY <3>1, <3>2
    <3> HIDE DEF top
    <3>4. missions[f] + 1 = 1 + (IF C = {} THEN 0 ELSE top.version)
      BY <1>2, <3>1, <3>3
    <3> QED
      BY <2>2, <3>4 DEF top
  <2>4. CASE ~(missions[f] > 0)
    BY <1>2, <2>1, <2>2, <2>4
  <2> QED
    BY <2>3, <2>4
<1>6. FlightRecord(f) \in FlightRecords
  BY FlightRecordsAre DEF ImportMission, Bound
<1>7. Store!PlannedFor(FlightRecord(f), {"accepted", "active"})
      /\ ~Store!FlightHasOutstanding(FlightRecord(f))
  BY FencesAgree DEF ImportMission
<1> HIDE DEF C, new
<1>8. Store!CreateMission
  <2>1. MissionRecords' = MissionRecords \cup
          {[flight |-> FlightRecord(f).id, version |-> 1 + (IF C = {} THEN 0
                ELSE (CHOOSE m \in C : TRUE).version)]}
    BY <1>4, <1>5
  <2> QED
    BY <1>6, <1>7, <2>1 DEF Store!CreateMission, FlightRecords, MissionRecords, C
<1> QED
  BY <1>1, <1>8 DEF Store!StoreNext, FlightRecords, DeploymentRecords, Held

\* The start of a flight.
LEMMA StartsFlight ==
    ASSUME IInv, NEW f \in Flights, StartFlight(f)
    PROVE  Store!StoreNext
<1> DEFINE r == FlightRecord(f)
           s == [r EXCEPT !.status = "active"]
<1>1. UNCHANGED <<intents, MissionRecords, DeploymentRecords, Held>>
  BY SameRecords DEF StartFlight
<1>2. /\ flights[f].status = "planned" /\ Bound(f, {"active"}) /\ NoActiveFlight
      /\ flights'[f] = [flights[f] EXCEPT !.status = "active"]
      /\ \A g \in Flights : g # f => flights'[g] = flights[g]
      /\ flights[f] \in Flight
  BY DEF StartFlight, Bound, IInv, TypeOK
<1>3. FlightRecord(f)' = s
  BY <1>2 DEF FlightRecord, Flight
<1>4. \A g \in Flights : g # f => FlightRecord(g)' = FlightRecord(g)
                                  /\ FlightRecord(g) # r
  <2>1. \A g \in Flights : FlightRecord(g).id = g
    BY DEF FlightRecord
  <2>2. \A g \in Flights : g # f => FlightRecord(g)' = FlightRecord(g)
    BY <1>2 DEF FlightRecord
  <2> QED
    BY <2>1, <2>2
<1>5. \A x : x \in FlightRecords' <=>
        \E g \in Flights : flights'[g].status # "absent" /\ x = FlightRecord(g)'
  BY DEF FlightRecords
<1>6. flights'[f].status # "absent" /\ r \in FlightRecords
  BY <1>2, FlightRecordsAre DEF Flight
<1> HIDE DEF s, r
<1>7. FlightRecords' = (FlightRecords \ {r}) \cup {s}
  <2>1. ASSUME NEW x \in FlightRecords' PROVE x \in (FlightRecords \ {r}) \cup {s}
    <3>1. PICK g \in Flights : flights'[g].status # "absent" /\ x = FlightRecord(g)'
      BY <1>5, <2>1
    <3>2. CASE g = f
      BY <1>3, <3>1, <3>2
    <3>3. CASE g # f
      BY <1>2, <1>4, <3>1, <3>3, FlightRecordsAre
    <3> QED
      BY <3>2, <3>3
  <2>2. ASSUME NEW x \in FlightRecords, x # r PROVE x \in FlightRecords'
    <3>1. PICK g \in Flights : flights[g].status # "absent" /\ x = FlightRecord(g)
      BY FlightRecordsAre
    <3>2. g # f
      BY <2>2, <3>1 DEF r
    <3> QED
      BY <1>2, <1>4, <1>5, <3>1, <3>2
  <2>3. s \in FlightRecords'
    BY <1>3, <1>5, <1>6
  <2> QED
    BY <2>1, <2>2, <2>3
<1>8. Store!PlannedFor(r, {"active"}) /\ Store!NoneActive
  BY <1>2, FencesAgree DEF r
<1>9. \A g \in FlightRecords : g.status = "planned" => ~Store!FlightHasOutstanding(g)
  <2> SUFFICES ASSUME NEW g \in FlightRecords, g.status = "planned"
               PROVE  ~Store!FlightHasOutstanding(g)
    OBVIOUS
  <2>1. PICK e \in Flights : g = FlightRecord(e)
    BY FlightRecordsAre
  <2>2. flights[e].status = "planned"
    BY <2>1 DEF FlightRecord
  <2>3. ~FlightFenced(e)
    BY <2>2 DEF StartFlight
  <2> QED
    BY <2>1, <2>3, FencesAgree
<1>10. \E d \in DeploymentRecords :
          /\ \A e \in DeploymentRecords : e.ord <= d.ord
          /\ d.flight = r.id
          /\ [flight |-> r.id, version |-> d.mission] \in Store!CurrentMission(r)
          /\ d.status \in {"applied", "already_applied"}
  <2>1. PICK k \in Keys : /\ IsLatest(k)
                          /\ deps[k].flight = f /\ deps[k].mission = missions[f]
                          /\ deps[k].status \in Verified
    BY DEF StartFlight, LatestIsVerified
  <2> DEFINE d == Keyed(k, deps[k])
  <2>2. d \in DeploymentRecords
    BY <2>1, DeploymentRecordsAre DEF Verified
  <2>3. \A e \in DeploymentRecords : e.ord <= d.ord
    BY <2>1, DeploymentRecordsAre, KeyedFields DEF IsLatest
  <2>4. d.flight = f /\ r.id = f /\ d.mission = missions[f]
        /\ d.status \in {"applied", "already_applied"}
    BY <2>1, KeyedFields DEF Verified, r, FlightRecord
  <2>5. Store!CurrentMission(r) = {[flight |-> f, version |-> missions[f]]}
    BY CurrentMissionIs DEF IInv, StartFlight, r
  <2> HIDE DEF d
  <2> QED
    BY <2>2, <2>3, <2>4, <2>5
<1>11. Store!StartFlight
  <2>1. s = [r EXCEPT !.status = "active"]
    BY DEF s
  <2> QED
    BY <1>6, <1>7, <1>8, <1>9, <1>10, <2>1
       DEF Store!StartFlight, FlightRecords, DeploymentRecords
<1> QED
  BY <1>1, <1>11 DEF Store!StoreNext, MissionRecords, DeploymentRecords, Held

-----------------------------------------------------------------------------
(* The requests.                                                           *)

\* One request moves, and what the others hold stays.
LEMMA HeldMoves ==
    ASSUME TypeOK, NEW h \in Handlers, NEW s, NEW j,
           pc' = [pc EXCEPT ![h] = s], job' = [job EXCEPT ![h] = j]
    PROVE  /\ s \in {"idle", "create"} => Held' = [Held EXCEPT ![h] = {}]
           /\ s \notin {"idle", "create"} =>
                 Held' = [Held EXCEPT ![h] = {Keyed(j.key, j.dep)}]
<1>1. /\ pc'[h] = s /\ job'[h] = j
      /\ \A g \in Handlers : g # h => pc'[g] = pc[g] /\ job'[g] = job[g]
  BY DEF TypeOK
<1> DEFINE of(g) == IF pc[g] \in {"idle", "create"} THEN {}
                    ELSE {Keyed(job[g].key, job[g].dep)}
<1>2. Held = [g \in Handlers |-> of(g)] /\ Held' = [g \in Handlers |-> of(g)']
  BY DEF Held
<1>3. \A g \in Handlers : g # h => of(g)' = of(g)
  BY <1>1
<1>4. /\ s \in {"idle", "create"} => of(h)' = {}
      /\ s \notin {"idle", "create"} => of(h)' = {Keyed(j.key, j.dep)}
  BY <1>1
<1> HIDE DEF of
<1> QED
  BY <1>2, <1>3, <1>4

\* A request that returns, or starts.
LEMMA ReturnLeaves ==
    ASSUME TypeOK, NEW h \in Handlers, NEW s \in {"idle", "create"}, NEW j,
           pc' = [pc EXCEPT ![h] = s], job' = [job EXCEPT ![h] = j],
           UNCHANGED <<intents, flights, missions, deps>>
    PROVE  Store!StoreNext
BY HeldMoves, SameRecords, Leaves

\* A request that goes on with the copy it has.
LEMMA KeepsCopy ==
    ASSUME TypeOK, NEW h \in Handlers, pc[h] \notin {"idle", "create"},
           NEW s, s \notin {"idle", "create"}, NEW j,
           j.key = job[h].key, j.dep = job[h].dep,
           pc' = [pc EXCEPT ![h] = s], job' = [job EXCEPT ![h] = j],
           UNCHANGED <<intents, flights, missions, deps>>
    PROVE  UNCHANGED Store!storeVars
<1>1. Held' = [Held EXCEPT ![h] = {Keyed(j.key, j.dep)}]
  BY HeldMoves
<1>2. Held[h] = {Keyed(j.key, j.dep)}
  BY DEF Held
<1>3. Held = [g \in Handlers |-> Held[g]]
  BY DEF Held
<1>4. Held' = Held
  BY <1>1, <1>2, <1>3
<1> QED
  BY <1>4, SameRecords, Stutters

\* UpdateMissionDeployment on the revision that is held: the record is the one
\* the request holds, and another one of the same command takes its place.
LEMMA WritesRecord ==
    ASSUME IInv, NEW h \in Handlers, pc[h] \notin {"idle", "create"},
           NEW d \in Deployment, d.flight = job[h].dep.flight,
           d.mission = job[h].dep.mission, d.ord = job[h].dep.ord,
           d.rev = job[h].dep.rev, d.status # "absent",
           Update(h, d), Current(h, d), UNCHANGED <<intents, flights, missions>>,
           NEW X \in {{}, {Keyed(job[h].key, [d EXCEPT !.rev = d.rev + 1])}},
           Held' = [Held EXCEPT ![h] = X]
    PROVE  Store!StoreNext
<1> DEFINE k == job[h].key
           e == [d EXCEPT !.rev = d.rev + 1]
           old == Keyed(k, deps[k])
           new == Keyed(k, e)
<1>0. TypeOK /\ job[h] \in Job /\ CopyInv(h) /\ k \in Keys
  BY DEF IInv, HandlersInv, HandlerInv, Job
<1>1. deps' = [deps EXCEPT ![k] = e]
  BY <1>0, UpdateFacts
<1>2. job[h].dep = deps[k] /\ deps[k].status # "absent"
  BY <1>0 DEF CopyInv, Current, Mine, Outstanding
<1>3. /\ e.flight = deps[k].flight /\ e.mission = deps[k].mission
      /\ e.ord = deps[k].ord /\ e.rev = deps[k].rev + 1 /\ e.status # "absent"
  BY <1>2 DEF Deployment
<1>4. deps'[k] = e /\ \A j \in Keys : j # k => deps'[j] = deps[j]
  BY <1>0, <1>1 DEF TypeOK
<1> HIDE DEF k, e
<1>5. \A x : x \in DeploymentRecords' <=>
        \E j \in Keys : deps'[j].status # "absent" /\ x = Keyed(j, deps'[j])
  BY DEF DeploymentRecords, Keyed
<1>6. old \in DeploymentRecords /\ new \in DeploymentRecords'
  BY <1>0, <1>2, <1>3, <1>4, <1>5, DeploymentRecordsAre
<1>7. \A j \in Keys : Keyed(j, deps[j]).key = j
  BY DEF Keyed
<1>8. DeploymentRecords' = (DeploymentRecords \ {old}) \cup {new}
  <2>1. ASSUME NEW x \in DeploymentRecords'
        PROVE  x \in (DeploymentRecords \ {old}) \cup {new}
    <3>1. PICK j \in Keys : deps'[j].status # "absent" /\ x = Keyed(j, deps'[j])
      BY <1>5, <2>1
    <3>2. CASE j = k
      BY <1>4, <3>1, <3>2
    <3>3. CASE j # k
      BY <1>0, <1>4, <1>7, <3>1, <3>3, DeploymentRecordsAre
    <3> QED
      BY <3>2, <3>3
  <2>2. ASSUME NEW x \in DeploymentRecords, x # old
        PROVE  x \in DeploymentRecords'
    <3>1. PICK j \in Keys : deps[j].status # "absent" /\ x = Keyed(j, deps[j])
      BY DeploymentRecordsAre
    <3>2. j # k
      BY <2>2, <3>1
    <3> QED
      BY <1>4, <1>5, <3>1, <3>2
  <2> QED
    BY <1>6, <2>1, <2>2
<1>9. Held[h] = {old}
  BY <1>2 DEF Held, k
<1>10. new.rev = old.rev + 1 /\ <<new.key, new.flight, new.mission, new.ord>>
                                 = <<old.key, old.flight, old.mission, old.ord>>
  BY <1>3, KeyedFields
<1>11. Held' \in {[Held EXCEPT ![h] = y] : y \in {{new}, {}}}
  BY DEF k, e
<1> HIDE DEF old, new
<1>12. Store!UpdateDeployment(h)
  <2>1. \E x \in DeploymentRecords, y \in DeploymentRecords' :
          /\ Held[h] = {x}
          /\ DeploymentRecords' = (DeploymentRecords \ {x}) \cup {y}
          /\ y.rev = x.rev + 1
          /\ <<y.key, y.flight, y.mission, y.ord>> = <<x.key, x.flight, x.mission, x.ord>>
          /\ Held' \in {[Held EXCEPT ![h] = z] : z \in {{y}, {}}}
    BY <1>6, <1>8, <1>9, <1>10, <1>11
  <2> QED
    BY <2>1 DEF Store!UpdateDeployment, DeploymentRecords, Held
<1>13. UNCHANGED <<intents, FlightRecords, MissionRecords>>
  BY SameRecords
<1> QED
  BY <1>12, <1>13 DEF Store!StoreNext, FlightRecords, MissionRecords

\* A write, whether its copy is current or not, that ends the request.
LEMMA WritesAndReturns ==
    ASSUME IInv, NEW h \in Handlers, pc[h] \notin {"idle", "create"},
           LET d == [job[h].dep EXCEPT !.status = job[h].want] IN
               Update(h, d) /\ Return(h),
           UNCHANGED <<intents, flights, missions>>
    PROVE  Store!StoreNext
<1> DEFINE d == [job[h].dep EXCEPT !.status = job[h].want]
<1>0. TypeOK /\ job[h] \in Job /\ job[h].key \in Keys
  BY DEF IInv, HandlersInv, HandlerInv, Job
<1>1. /\ d \in Deployment /\ d.flight = job[h].dep.flight
      /\ d.mission = job[h].dep.mission /\ d.ord = job[h].dep.ord
      /\ d.rev = job[h].dep.rev /\ d.status # "absent"
  BY <1>0 DEF Job, Deployment, Outstanding, Terminal, Verified, Failed
<1>2. Update(h, d)
  OBVIOUS
<1>3. pc' = [pc EXCEPT ![h] = "idle"] /\ job' = [job EXCEPT ![h] = None]
  BY DEF Return, Goto
<1> HIDE DEF d
<1>4. CASE Current(h, d)
  <2>1. Held' = [Held EXCEPT ![h] = {}]
    BY <1>0, <1>3, HeldMoves
  <2> QED
    BY <1>1, <1>2, <1>4, <2>1, WritesRecord
<1>5. CASE ~Current(h, d)
  <2>1. deps' = deps
    BY <1>0, <1>1, <1>2, <1>5, UpdateFacts
  <2> QED
    BY <1>0, <1>3, <2>1, ReturnLeaves
<1> QED
  BY <1>4, <1>5

\* The dispatch that is recorded before the mission is sent.
LEMMA MarksDispatch ==
    ASSUME IInv, NEW h \in Handlers, MarkDispatch(h)
    PROVE  Store!StoreNext
<1> DEFINE d == Dispatching(job[h].dep)
<1>0. TypeOK /\ job[h] \in Job /\ job[h].key \in Keys
      /\ pc[h] \notin {"idle", "create"}
  BY DEF MarkDispatch, IInv, HandlersInv, HandlerInv, Job
<1>1. /\ d \in Deployment /\ d.flight = job[h].dep.flight
      /\ d.mission = job[h].dep.mission /\ d.ord = job[h].dep.ord
      /\ d.rev = job[h].dep.rev /\ d.status # "absent"
  BY <1>0 DEF Dispatching, Job, Deployment, Outstanding
<1>2. /\ Update(h, d) /\ UNCHANGED <<intents, flights, missions>>
      /\ \/ /\ Current(h, d) /\ Goto(h, "dispatch")
            /\ job' = [job EXCEPT ![h].dep = [d EXCEPT !.rev = @ + 1]]
         \/ ~Current(h, d) /\ Return(h)
  BY DEF MarkDispatch
<1> HIDE DEF d
<1>3. CASE Current(h, d)
  <2> DEFINE e == [d EXCEPT !.rev = d.rev + 1]
             j == [job[h] EXCEPT !.dep = e]
  <2>1. pc' = [pc EXCEPT ![h] = "dispatch"] /\ job' = [job EXCEPT ![h] = j]
    BY <1>0, <1>2, <1>3 DEF Goto, TypeOK
  <2>2. j.key = job[h].key /\ j.dep = e
    BY <1>0 DEF Job
  <2> HIDE DEF j, e
  <2>3. Held' = [Held EXCEPT ![h] = {Keyed(job[h].key, e)}]
    <3>0. "dispatch" \notin {"idle", "create"}
      OBVIOUS
    <3>1. Held' = [Held EXCEPT ![h] = {Keyed(j.key, j.dep)}]
      BY <1>0, <2>1, <3>0, HeldMoves
    <3> QED
      BY <2>2, <3>1
  <2> QED
    BY <1>0, <1>1, <1>2, <1>3, <2>3, WritesRecord DEF e
<1>4. CASE ~Current(h, d)
  <2>1. deps' = deps
    BY <1>0, <1>1, <1>2, <1>4, UpdateFacts
  <2>2. pc' = [pc EXCEPT ![h] = "idle"] /\ job' = [job EXCEPT ![h] = None]
    BY <1>2, <1>4 DEF Return, Goto
  <2> QED
    BY <1>0, <1>2, <2>1, <2>2, ReturnLeaves
<1> QED
  BY <1>3, <1>4

\* persistCorrelatedMissionDeploymentResult: a conflict leads to another read.
LEMMA PersistsResult ==
    ASSUME IInv, NEW h \in Handlers, PersistResult(h)
    PROVE  Store!StoreNext
<1> DEFINE d == [job[h].dep EXCEPT !.status = job[h].want]
           k == job[h].key
<1>0. TypeOK /\ job[h] \in Job /\ k \in Keys /\ pc[h] \notin {"idle", "create"}
      /\ CopyInv(h)
  BY DEF PersistResult, IInv, HandlersInv, HandlerInv, Job
<1>1. Update(h, d) /\ UNCHANGED <<intents, flights, missions>>
      /\ (Return(h) \/ (~Current(h, d) /\ UNCHANGED pc
                         /\ job' = [job EXCEPT ![h].dep = Mine(h)]))
  BY DEF PersistResult, OnConflict
<1>2. CASE Return(h)
  BY <1>0, <1>1, <1>2, WritesAndReturns
<1>3. CASE ~Current(h, d) /\ UNCHANGED pc /\ job' = [job EXCEPT ![h].dep = Mine(h)]
  <2> DEFINE j == [job[h] EXCEPT !.dep = deps[k]]
             old == Keyed(k, job[h].dep)
             new == Keyed(k, deps[k])
  <2>1. d \in Deployment
    BY <1>0 DEF Job, Deployment
  <2>2. deps' = deps
    BY <1>0, <1>1, <1>3, <2>1, UpdateFacts
  <2>3. pc' = [pc EXCEPT ![h] = pc[h]] /\ job' = [job EXCEPT ![h] = j]
    BY <1>0, <1>3 DEF TypeOK, Mine
  <2>4. j.key = k /\ j.dep = deps[k]
    BY <1>0 DEF Job
  <2>5. Held' = [Held EXCEPT ![h] = {new}]
    <3> HIDE DEF j
    <3>1. Held' = [Held EXCEPT ![h] = {Keyed(j.key, j.dep)}]
      BY <1>0, <2>3, HeldMoves
    <3> QED
      BY <2>4, <3>1
  <2>6. Held[h] = {old}
    BY <1>0 DEF Held
  <2>7. new \in DeploymentRecords /\ new.key = old.key
    BY <1>0, DeploymentRecordsAre, KeyedFields DEF CopyInv
  <2> HIDE DEF new, old
  <2>8. Store!ReadDeployment(h)
    <3>1. \E x \in Held[h], y \in DeploymentRecords :
            y.key = x.key /\ Held' = [Held EXCEPT ![h] = {y}]
      BY <2>5, <2>6, <2>7
    <3> QED
      BY <3>1 DEF Store!ReadDeployment, DeploymentRecords, Held
  <2>9. UNCHANGED <<intents, FlightRecords, MissionRecords, DeploymentRecords>>
    BY <1>1, <2>2, SameRecords
  <2> QED
    BY <2>8, <2>9 DEF Store!StoreNext, FlightRecords, MissionRecords,
       DeploymentRecords
<1> QED
  BY <1>1, <1>2, <1>3

\* The conditions of admission are those of the in-memory store.
LEMMA AdmissionAgrees ==
    ASSUME IInv, NEW k \in Keys, NEW f \in Flights, NEW m \in 1..MaxMission,
           Admits(k, f, m), NEW d, d.key = k, d.flight = f, d.mission = m
    PROVE  Store!Admissible(d)
<1>1. /\ Bound(f, {"accepted", "active"}) /\ missions[f] > 0 /\ NoActiveFlight
      /\ missions[f] = m /\ flights[f].status = "planned"
  BY DEF Admits, Deployable, Bound
<1>2. FlightRecord(f) \in FlightRecords /\ FlightRecord(f).id = f
  BY <1>1, FlightRecordsAre DEF FlightRecord
<1>3. Store!PlannedFor(FlightRecord(f), {"accepted", "active"}) /\ Store!NoneActive
  BY <1>1, FencesAgree
<1>4. [flight |-> d.flight, version |-> d.mission] \in
        Store!CurrentMission(FlightRecord(f))
  BY <1>1, CurrentMissionIs DEF IInv
<1>5. ASSUME NEW e \in DeploymentRecords, NEW r \in FlightRecords,
             e.flight = r.id, r.status = "planned", Store!Outstanding(e)
      PROVE  e.key = d.key
  <2>1. PICK j \in Keys : e = Keyed(j, deps[j])
    BY DeploymentRecordsAre
  <2>2. PICK g \in Flights : r = FlightRecord(g)
    BY FlightRecordsAre
  <2>3. Open(j) /\ deps[j].flight = g /\ flights[g].status = "planned"
    BY <1>5, <2>1, <2>2, OutstandingIsOpen, KeyedFields DEF FlightRecord
  <2>4. j = k
    BY <2>3 DEF Admits
  <2> QED
    BY <2>1, <2>4, KeyedFields
<1>6. \E r \in FlightRecords :
        /\ r.id = d.flight /\ Store!PlannedFor(r, {"accepted", "active"})
        /\ [flight |-> d.flight, version |-> d.mission] \in Store!CurrentMission(r)
  BY <1>2, <1>3, <1>4
<1> QED
  BY <1>3, <1>5, <1>6 DEF Store!Admissible, FlightRecords, DeploymentRecords

\* What a request holds after admission.
LEMMA ResumeHolds ==
    ASSUME TypeOK, NEW h \in Handlers, job[h] \in Job, NEW d \in Deployment,
           Resume(h, d)
    PROVE  Held' = [Held EXCEPT ![h] = {Keyed(job[h].key, d)}]
<1>1. PICK s \in {"note", "rebind"}, j \in Job :
        /\ pc' = [pc EXCEPT ![h] = s] /\ job' = [job EXCEPT ![h] = j]
        /\ j.key = job[h].key /\ j.dep = d
  BY ResumeMoves
<1>2. Held' = [Held EXCEPT ![h] = {Keyed(j.key, j.dep)}]
  BY <1>1, HeldMoves
<1> QED
  BY <1>1, <1>2

\* CreateMissionDeploymentForPlannedFlight: a new deployment, a replay of the
\* open one, or a refusal.
LEMMA CreatesDeployment ==
    ASSUME IInv, NEW h \in Handlers, CreateDeployment(h)
    PROVE  Store!StoreNext
<1> DEFINE k == job[h].key
           f == job[h].flight
           m == job[h].mission
           d == [NoDeployment EXCEPT !.flight = f, !.mission = m,
                                     !.status = "pending", !.ord = NextOrder]
<1>1. /\ job[h] \in Job /\ TypeOK /\ UNCHANGED <<intents, flights, missions>>
      /\ k \in Keys /\ f \in Flights /\ m \in 1..MaxMission
  BY DEF CreateDeployment, IInv, HandlersInv, HandlerInv, Job
<1>2. UNCHANGED <<intents, FlightRecords, MissionRecords>>
  BY <1>1, SameRecords
<1>3. CASE Return(h) /\ UNCHANGED deps
  BY <1>1, <1>3, ReturnLeaves DEF Return, Goto
<1>4. CASE /\ Open(k) /\ deps[k].flight = f /\ deps[k].mission = m /\ Admits(k, f, m)
           /\ Resume(h, deps[k]) /\ UNCHANGED deps
  <2> DEFINE r == Keyed(k, deps[k])
  <2>1. deps[k] \in Deployment
    BY <1>1 DEF TypeOK
  <2>2. r \in DeploymentRecords /\ Store!Outstanding(r)
    BY <1>1, <1>4, DeploymentRecordsAre, OutstandingIsOpen DEF Open, Outstanding
  <2>3. Store!Admissible(r)
    BY <1>1, <1>4, AdmissionAgrees, KeyedFields
  <2>4. Held' = [Held EXCEPT ![h] = {r}] /\ UNCHANGED DeploymentRecords
    BY <1>1, <1>4, <2>1, ResumeHolds, SameRecords
  <2> HIDE DEF r
  <2>5. Store!CreateDeployment(h)
    BY <2>2, <2>3, <2>4 DEF Store!CreateDeployment, DeploymentRecords, Held
  <2> QED
    BY <1>2, <2>5 DEF Store!StoreNext, FlightRecords, MissionRecords
<1>5. CASE /\ deps[k].status = "absent" /\ Admits(k, f, m)
           /\ deps' = [deps EXCEPT ![k] = d] /\ Resume(h, d)
  <2> DEFINE r == Keyed(k, d)
  <2>1. IsFiniteSet(Admitted) /\ Cardinality(Admitted) \in Nat
        /\ NextOrder = Cardinality(Admitted) + 1
    <3>1. IsFiniteSet(Admitted)
      BY FS_Subset, MissionNamesAssumption DEF Admitted
    <3> QED
      BY <3>1, FS_CardinalityType DEF NextOrder, Admitted
  <2>2. d \in Deployment
    <3>1. NextOrder \in Nat
      BY <2>1
    <3> QED
      BY <1>1, <3>1, NewRecord
  <2>3. /\ d.flight = f /\ d.mission = m /\ d.status = "pending" /\ d.rev = 0
        /\ ~d.dispatched /\ d.ord = NextOrder
    BY DEF NoDeployment
  <2> HIDE DEF d
  <2>4. deps'[k] = d /\ \A j \in Keys : j # k => deps'[j] = deps[j]
    BY <1>1, <1>5 DEF TypeOK
  <2>5. \A x : x \in DeploymentRecords' <=>
          \E j \in Keys : deps'[j].status # "absent" /\ x = Keyed(j, deps'[j])
    BY DEF DeploymentRecords, Keyed
  <2>6. r \in DeploymentRecords'
    BY <1>1, <2>3, <2>4, <2>5
  <2>7. DeploymentRecords' = DeploymentRecords \cup {r}
    <3>1. ASSUME NEW x \in DeploymentRecords'
          PROVE  x \in DeploymentRecords \cup {r}
      BY <2>4, <2>5, DeploymentRecordsAre
    <3>2. ASSUME NEW x \in DeploymentRecords
          PROVE  x \in DeploymentRecords'
      BY <1>5, <2>4, <2>5, DeploymentRecordsAre
    <3> QED
      BY <2>6, <3>1, <3>2
  <2>8. Store!Admissible(r)
    BY <1>1, <1>5, <2>3, AdmissionAgrees, KeyedFields
  <2>9. Store!NewDeployment(r)
    <3>1. r.status = "pending" /\ r.rev = 0 /\ ~r.dispatched /\ r.key = k
          /\ r.ord = Cardinality(Admitted) + 1
      BY <2>1, <2>3, KeyedFields
    <3>2. ASSUME NEW e \in DeploymentRecords
          PROVE  e.key # r.key /\ e.ord < r.ord
      <4>1. PICK j \in Keys : deps[j].status # "absent" /\ e = Keyed(j, deps[j])
        BY DeploymentRecordsAre
      <4>2. j # k /\ e.key = j /\ e.ord = deps[j].ord
        BY <1>5, <4>1, KeyedFields
      <4>3. deps[j].ord <= Cardinality(Admitted) /\ deps[j].ord \in Nat
        BY DEF IInv, OrderInv, TypeOK, Deployment
      <4> QED
        BY <2>1, <3>1, <4>2, <4>3
    <3> HIDE DEF r
    <3> QED
      BY <3>1, <3>2 DEF Store!NewDeployment, DeploymentRecords
  <2>10. Held' = [Held EXCEPT ![h] = {r}]
    BY <1>1, <1>5, <2>2, ResumeHolds
  <2> HIDE DEF r
  <2>11. Store!CreateDeployment(h)
    <3>1. \E x \in DeploymentRecords' :
            /\ Store!Admissible(x)
            /\ Store!NewDeployment(x)
            /\ DeploymentRecords' = DeploymentRecords \cup {x}
            /\ Held' = [Held EXCEPT ![h] = {x}]
      BY <2>6, <2>7, <2>8, <2>9, <2>10
    <3> QED
      BY <3>1 DEF Store!CreateDeployment, DeploymentRecords, Held
  <2> QED
    BY <1>2, <2>11 DEF Store!StoreNext, FlightRecords, MissionRecords
<1> QED
  BY <1>3, <1>4, <1>5 DEF CreateDeployment

\* Calls through the Relay, and the reads before them, change nothing that the
\* store keeps.
LEMMA CallsKeep ==
    ASSUME IInv, NEW h \in Handlers,
           Rebind(h) \/ ClearContext(h) \/ EnsureContext(h) \/ Dispatch(h)
    PROVE  [Store!StoreNext]_(Store!storeVars)
<1>0. /\ TypeOK /\ job[h] \in Job /\ pc[h] \notin {"idle", "create"}
      /\ UNCHANGED <<intents, flights, missions, deps>>
  BY DEF Rebind, ClearContext, EnsureContext, Dispatch, IInv, HandlersInv, HandlerInv
<1>1. CASE Return(h)
  BY <1>0, <1>1, ReturnLeaves DEF Return, Goto
<1>2. CASE ContextMove(h)
  <2>1. PICK s \in {"context", "mark", "note"}, j \in Job :
          /\ pc' = [pc EXCEPT ![h] = s] /\ job' = [job EXCEPT ![h] = j]
          /\ j.key = job[h].key /\ j.dep = job[h].dep
    BY <1>2 DEF ContextMove
  <2> QED
    BY <1>0, <2>1, KeepsCopy
<1>3. CASE Rebind(h) /\ ~Return(h)
  <2>1. PICK s \in {"mark", "clear"} : pc' = [pc EXCEPT ![h] = s] /\ UNCHANGED job
    BY <1>3 DEF Rebind, Goto
  <2>2. job' = [job EXCEPT ![h] = job[h]]
    BY <1>0, <2>1 DEF TypeOK
  <2> QED
    BY <1>0, <2>1, <2>2, KeepsCopy
<1>4. CASE Dispatch(h)
  <2>1. PICK w : job' = [job EXCEPT ![h].want = w]
    BY <1>4 DEF Dispatch
  <2> DEFINE j == [job[h] EXCEPT !.want = w]
  <2>2. job' = [job EXCEPT ![h] = j] /\ pc' = [pc EXCEPT ![h] = "persist"]
    BY <1>0, <1>4, <2>1 DEF TypeOK, Dispatch, Goto
  <2>3. j.key = job[h].key /\ j.dep = job[h].dep
    BY <1>0 DEF Job
  <2> HIDE DEF j
  <2> QED
    BY <1>0, <2>2, <2>3, KeepsCopy
<1>5. CASE ClearContext(h) \/ EnsureContext(h)
  <2>1. ContextMove(h)
    BY <1>0, <1>5, ContextMoves DEF ClearContext, EnsureContext
  <2> QED
    BY <1>2, <2>1
<1> QED
  BY <1>1, <1>3, <1>4, <1>5

\* Every step is an operation of the in-memory store or none.
LEMMA StoreStep ==
    IInv /\ [Next]_vars => [Store!StoreNext]_(Store!storeVars)
<1> SUFFICES ASSUME IInv, [Next]_vars PROVE [Store!StoreNext]_(Store!storeVars)
  OBVIOUS
<1>0. TypeOK
  BY DEF IInv
<1>1. ASSUME NEW h \in Handlers, Handle(h)
      PROVE  [Store!StoreNext]_(Store!storeVars)
  <2>1. ASSUME NoteOutcome(h)
        PROVE  Store!StoreNext
    BY <2>1, WritesAndReturns DEF NoteOutcome
  <2> QED
    BY <1>1, <2>1, CreatesDeployment, CallsKeep, MarksDispatch, PersistsResult
       DEF Handle
<1>2. ASSUME NEW h \in Handlers, NEW k \in Keys, NEW f \in Flights, Begin(h, k, f)
      PROVE  Store!StoreNext
  BY <1>0, <1>2, ReturnLeaves DEF Begin, Goto
<1>3. ASSUME NEW h \in Handlers, Crash(h)
      PROVE  Store!StoreNext
  BY <1>0, <1>3, ReturnLeaves DEF Crash, Return, Goto
<1>4. ASSUME (\E k \in Keys : Tick(k)) \/ LateCommand \/ UNCHANGED vars
      PROVE  UNCHANGED Store!storeVars
  <2>1. UNCHANGED <<intents, flights, missions, deps, pc, job>>
    BY <1>4 DEF Tick, LateCommand, vars
  <2> QED
    BY <2>1, SameRecords, Stutters
<1> QED
  BY <1>1, <1>2, <1>3, <1>4, ChangesIntent, CreatesFlight, CreatesMission,
     StartsFlight DEF Next

\* The in-memory store starts empty.
LEMMA StoreStart == Init => Store!StoreInit
<1> SUFFICES ASSUME Init PROVE Store!StoreInit
  OBVIOUS
<1>1. \A i \in DOMAIN intents : intents[i] = [version |-> 1, status |-> "accepted"]
  BY DEF Init
<1>2. FlightRecords = {}
  BY DEF Init, FlightRecords
<1>3. MissionRecords = {}
  <2>1. \A f \in Flights : missions[f] = 0
    BY DEF Init
  <2> QED
    BY <2>1, MissionRecordsAre
<1>4. DeploymentRecords = {}
  BY DEF Init, DeploymentRecords, NoDeployment
<1>5. Held = [h \in Handlers |-> {}]
  BY DEF Init, Held
<1> QED
  BY <1>1, <1>2, <1>3, <1>4, <1>5
     DEF Store!StoreInit, FlightRecords, MissionRecords, DeploymentRecords, Held

\* Every transaction of the mission services is one operation of the in-memory
\* store with its fences, whatever requests, retries, faults and late commands
\* there are.
THEOREM MissionStoreRefinement == Spec => ImplementsMissionStore
<1>1. IInv /\ [Next]_vars => [Store!StoreNext]_(Store!storeVars)
  BY StoreStep
<1> QED
  BY <1>1, StoreStart, MissionInvariance, PTL
     DEF Spec, ImplementsMissionStore, Store!StoreSpec

=============================================================================
