------------------------ MODULE FlightServicesProofs ------------------------
(***************************************************************************)
(* Proofs about the services around a flight: live conformance and its     *)
(* dashboard, the routing of commands and the connection view, the import  *)
(* of missions and the conformance service; for every number of agents,    *)
(* relays, calls, assignments, messages, handlers and samples.             *)
(*                                                                         *)
(* The services share no state that one of them writes and another reads   *)
(* inside an argument below.  Each theorem is about the specification of   *)
(* one service, in which nothing is said of the variables of the others:   *)
(* they may change in any way.  The last section takes import and          *)
(* conformance together, because both judge the same volumes; there the    *)
(* geometry that they use is the one of GeometryProofs.                    *)
(***************************************************************************)
EXTENDS Conformance, RelayRouting, ConformanceProjection, GeometryProofs

-----------------------------------------------------------------------------
(* Live conformance.  A projection only advances; what a dashboard has read *)
(* lies between what was shown last and what the registry has.             *)

ProjectionSpec == ProjectionInit /\ [][ProjectionNext]_projectionVars

Conditions == {"conforming", "non_conforming", "suspected", "recovering"}

Projections ==
    [generation : Nat, revision : Nat, condition : Conditions \cup {"none"}]

ShownStatuses == Conditions \cup {"none", "contingent"}

\* t is s or comes after it.
Reaches(s, t) == s = t \/ Older(s, t)

\* The order of cursors.
LEMMA CursorOrder ==
    ASSUME NEW s \in Projections, NEW t \in Projections, NEW u \in Projections
    PROVE  /\ Reaches(s, t) /\ Reaches(t, u) => Reaches(s, u)
           /\ Reaches(s, t) => ~Older(t, s) /\ (SameCursor(t, s) => t = s)
  <1>1. /\ s.generation \in Nat /\ s.revision \in Nat
        /\ t.generation \in Nat /\ t.revision \in Nat
        /\ u.generation \in Nat /\ u.revision \in Nat
    BY DEF Projections
  <1> QED BY <1>1 DEF Reaches, Older, SameCursor

DashboardSteps == {"idle", "batches", "merge", "shown"}

ProjectionTypes ==
    /\ projections \in [AssignmentIds -> Projections]
    /\ seen \in [AssignmentIds -> Projections]
    /\ dashboard \in [pc : DashboardSteps, next : Nat,
                      durable : [AssignmentIds -> {"no", "review"}],
                      live : SUBSET (AssignmentIds \X Projections),
                      missed : BOOLEAN, calm : BOOLEAN,
                      shown : SUBSET (AssignmentIds \X
                                 [report : {"no", "review"}, status : ShownStatuses])]
    /\ stored \in [AssignmentIds -> {"no", "review"}]

\* What was shown, what the dashboard has read, and what is there.
ShownInv ==
    /\ \A i \in AssignmentIds : Reaches(seen[i], projections[i])
    /\ \A x \in dashboard.live : Reaches(x[2], projections[x[1]])
    /\ dashboard.pc \in {"batches", "merge"} =>
          \A x \in dashboard.live : Reaches(seen[x[1]], x[2])

\* The assignments of the batches that were read, and of all.
ReadSoFar == {Assignments[k] : k \in {k \in 1..Len(Assignments) : k < dashboard.next}}

Current(ids) == {<<i, projections[i]>> : i \in {i \in ids : projections[i] # NoProjection}}

ReadInv ==
    /\ dashboard.pc = "batches" /\ ~dashboard.missed /\ dashboard.calm =>
          dashboard.live = Current(ReadSoFar)
    /\ dashboard.pc \in {"merge", "shown"} /\ ~dashboard.missed /\ dashboard.calm =>
          dashboard.live = Current(AssignmentIds)
    /\ \A x \in dashboard.shown :
          dashboard.durable[x[1]] = "review" => x[2].report = "review"

ProjectionInv == ProjectionTypes /\ ShownInv /\ ReadInv

\* A projection that is stored comes after the one it replaces, or is the same.
LEMMA DeliverAdvances ==
    ASSUME ProjectionTypes, NEW s \in Published, Deliver(s)
    PROVE  /\ projections' \in [AssignmentIds -> Projections]
           /\ \A i \in AssignmentIds : Reaches(projections[i], projections'[i])
  <1>1. /\ s.generation \in Nat \ {0} /\ s.revision \in Nat \ {0}
        /\ s.condition \in Conditions
    BY ConformanceProjectionAssumption DEF Conditions
  <1>2. Projection(s) \in Projections
    BY <1>1 DEF Projection, Projections
  <1>3. /\ projections \in [AssignmentIds -> Projections]
        /\ projections' = [projections EXCEPT ![s.id] = Projection(s)]
        /\ ~Rejected(s)
    BY DEF ProjectionTypes, Deliver
  <1>4. projections' \in [AssignmentIds -> Projections]
    BY <1>2, <1>3
  <1>5. ASSUME s.id \in AssignmentIds
        PROVE  Reaches(projections[s.id], Projection(s))
    <2> DEFINE t == projections[s.id]
    <2>1. t \in Projections
      BY <1>3, <1>5
    <2>2. t.generation \in Nat /\ t.revision \in Nat
      BY <2>1 DEF Projections
    <2>3. ~Older(s, t) /\ (SameCursor(s, t) => s.condition = t.condition)
      BY <1>3 DEF Rejected
    <2>4. /\ Projection(s).generation = s.generation
          /\ Projection(s).revision = s.revision
          /\ Projection(s).condition = s.condition
      BY DEF Projection
    <2> HIDE DEF t
    <2>5. CASE SameCursor(s, t)
      <3>1. /\ t.generation = Projection(s).generation
            /\ t.revision = Projection(s).revision
            /\ t.condition = Projection(s).condition
        BY <2>3, <2>4, <2>5 DEF SameCursor
      <3>2. t = Projection(s)
        BY <1>2, <2>1, <3>1 DEF Projections
      <3> QED BY <3>2 DEF Reaches, t
    <2>6. CASE ~SameCursor(s, t)
      <3>1. Older(t, Projection(s))
        BY <1>1, <2>2, <2>3, <2>4, <2>6 DEF SameCursor, Older
      <3> QED BY <3>1 DEF Reaches, t
    <2> QED BY <2>5, <2>6
  <1>6. \A i \in AssignmentIds : i # s.id => projections'[i] = projections[i]
    BY <1>3
  <1>7. s.id \in AssignmentIds => projections'[s.id] = Projection(s)
    BY <1>3
  <1> QED BY <1>4, <1>5, <1>6, <1>7 DEF Reaches

\* An arriving summary keeps the invariant: a dashboard that is under way is no
\* longer calm when it changes anything.
LEMMA DeliverStep ==
    ASSUME ProjectionInv, NEW s \in Published, Deliver(s)
    PROVE  ProjectionInv'
  <1>1. /\ projections' \in [AssignmentIds -> Projections]
        /\ projections \in [AssignmentIds -> Projections]
        /\ seen \in [AssignmentIds -> Projections]
        /\ \A i \in AssignmentIds : Reaches(projections[i], projections'[i])
    BY DeliverAdvances DEF ProjectionInv, ProjectionTypes
  <1>2. /\ dashboard'.pc = dashboard.pc /\ dashboard'.next = dashboard.next
        /\ dashboard'.durable = dashboard.durable
        /\ dashboard'.live = dashboard.live
        /\ dashboard'.missed = dashboard.missed
        /\ dashboard'.calm = (dashboard.calm /\ (projections' = projections))
        /\ dashboard'.shown = dashboard.shown
        /\ UNCHANGED <<stored, seen>>
    BY DEF Deliver, ProjectionInv, ProjectionTypes
  <1>3. ProjectionTypes'
    BY <1>1 DEF ProjectionInv, ProjectionTypes, Deliver
  <1>4. \A x \in dashboard.live : x[1] \in AssignmentIds /\ x[2] \in Projections
    BY DEF ProjectionInv, ProjectionTypes
  <1>5. ShownInv'
    BY <1>1, <1>2, <1>4, CursorOrder DEF ProjectionInv, ShownInv
  <1>6. dashboard'.calm => dashboard.calm /\ projections' = projections
    BY <1>2
  <1>7. ReadSoFar' = ReadSoFar
    BY <1>2 DEF ReadSoFar
  <1>8. ReadInv'
    BY <1>2, <1>6, <1>7 DEF ProjectionInv, ReadInv, Current
  <1> QED BY <1>3, <1>5, <1>8 DEF ProjectionInv

\* A batch that answered adds what the registry has of its assignments.
LEMMA BatchReads ==
    ASSUME ProjectionTypes, dashboard.live = Current(ReadSoFar),
           NEW batch, batch = {Assignments[k] : k \in
                        {k \in 1..Len(Assignments) : InBatch(k, dashboard.next)}},
           NEW rest, rest = dashboard.next + MaxBatch,
           NEW found, found = {i \in batch : projections[i] # NoProjection},
           NEW live, live = dashboard.live \cup {<<i, projections[i]>> : i \in found}
    PROVE  /\ live = Current({Assignments[k] : k \in
                               {k \in 1..Len(Assignments) : k < rest}})
           /\ rest > Len(Assignments) => live = Current(AssignmentIds)
           /\ rest \in Nat
  <1> DEFINE upto == {Assignments[k] : k \in {k \in 1..Len(Assignments) : k < rest}}
  <1>1. dashboard.next \in Nat /\ MaxBatch \in Nat /\ Len(Assignments) \in Nat
    BY ConformanceProjectionAssumption DEF ProjectionTypes
  <1>2. \A k \in 1..Len(Assignments) :
          k < rest <=> k < dashboard.next \/ InBatch(k, dashboard.next)
    BY <1>1 DEF InBatch
  <1>3. upto = ReadSoFar \cup batch
    BY <1>2 DEF ReadSoFar
  <1>4. live = Current(upto)
    <2> HIDE DEF upto
    <2> QED BY <1>3 DEF Current
  <1>5. rest > Len(Assignments) => upto = AssignmentIds
    BY <1>1 DEF AssignmentIds
  <1> QED BY <1>1, <1>4, <1>5

\* Reading a batch keeps the invariant, whether it answers or fails.
LEMMA BatchStep == ProjectionInv /\ ReadBatch => ProjectionInv'
  <1> SUFFICES ASSUME ProjectionInv, ReadBatch PROVE ProjectionInv'
    OBVIOUS
  <1> DEFINE batch == {Assignments[k] : k \in
                         {k \in 1..Len(Assignments) : InBatch(k, dashboard.next)}}
             found == {i \in batch : projections[i] # NoProjection}
             rest == dashboard.next + MaxBatch
             pc2 == IF rest > Len(Assignments) THEN "merge" ELSE "batches"
             live == dashboard.live \cup {<<i, projections[i]>> : i \in found}
  <1>1. /\ dashboard.pc = "batches" /\ UNCHANGED <<projections, stored, seen>>
        /\ \/ dashboard' = [dashboard EXCEPT !.pc = pc2, !.next = rest, !.live = live]
           \/ dashboard' = [dashboard EXCEPT !.pc = pc2, !.next = rest, !.missed = TRUE]
    BY DEF ReadBatch, Show
  <1>2. ProjectionTypes
    BY DEF ProjectionInv
  <1>3. rest \in Nat /\ pc2 \in {"merge", "batches"}
    BY <1>2, ConformanceProjectionAssumption DEF ProjectionTypes
  <1>4. batch \subseteq AssignmentIds
    BY DEF AssignmentIds
  <1>5. \A x \in live : x \in dashboard.live \/
          (x[1] \in AssignmentIds /\ x[2] = projections[x[1]] /\ x = <<x[1], x[2]>>)
    BY <1>4
  <1>6. live \in SUBSET (AssignmentIds \X Projections)
    BY <1>2, <1>5 DEF ProjectionTypes
  <1>7. /\ dashboard'.pc = pc2 /\ dashboard'.next = rest
        /\ dashboard'.durable = dashboard.durable
        /\ dashboard'.calm = dashboard.calm /\ dashboard'.shown = dashboard.shown
        /\ \/ dashboard'.live = live /\ dashboard'.missed = dashboard.missed
           \/ dashboard'.live = dashboard.live /\ dashboard'.missed
    BY <1>1, <1>2 DEF ProjectionTypes
  <1>a. /\ batch = {Assignments[k] : k \in
                     {k \in 1..Len(Assignments) : InBatch(k, dashboard.next)}}
        /\ rest = dashboard.next + MaxBatch
        /\ found = {i \in batch : projections[i] # NoProjection}
        /\ live = dashboard.live \cup {<<i, projections[i]>> : i \in found}
        /\ pc2 = "merge" => rest > Len(Assignments)
    OBVIOUS
  <1> HIDE DEF live, rest, pc2, batch, found
  <1>8. ASSUME dashboard.live = Current(ReadSoFar)
        PROVE  /\ live = Current({Assignments[k] : k \in
                                    {k \in 1..Len(Assignments) : k < rest}})
               /\ rest > Len(Assignments) => live = Current(AssignmentIds)
    BY <1>2, <1>8, <1>a, BatchReads
  <1>9. ProjectionTypes'
    BY <1>1, <1>2, <1>3, <1>6 DEF ProjectionTypes, DashboardSteps
  <1>10. \A i \in AssignmentIds : Reaches(projections[i], projections[i])
    BY DEF Reaches
  <1>11. ShownInv'
    BY <1>1, <1>5, <1>7, <1>10 DEF ProjectionInv, ShownInv
  <1>12. ReadInv'
    <2>1. ReadSoFar' = {Assignments[k] : k \in {k \in 1..Len(Assignments) : k < rest}}
      BY <1>7 DEF ReadSoFar
    <2>2. \A ids : Current(ids)' = Current(ids)
      BY <1>1 DEF Current
    <2>3. ASSUME ~dashboard'.missed, dashboard'.calm
          PROVE  /\ dashboard'.live = live
                 /\ dashboard.live = Current(ReadSoFar)
      BY <1>1, <1>7, <2>3 DEF ProjectionInv, ReadInv
    <2>5. \A x \in dashboard'.shown :
            dashboard'.durable[x[1]] = "review" => x[2].report = "review"
      BY <1>7 DEF ProjectionInv, ReadInv
    <2>6. ASSUME ~dashboard'.missed, dashboard'.calm
          PROVE  /\ pc2 = "batches" => dashboard'.live = Current(ReadSoFar')
                 /\ pc2 = "merge" => dashboard'.live = Current(AssignmentIds)
      BY <1>8, <1>a, <2>1, <2>3, <2>6
    <2> QED BY <1>3, <1>7, <2>1, <2>2, <2>5, <2>6 DEF ReadInv
  <1> QED BY <1>9, <1>11, <1>12 DEF ProjectionInv

\* What the dashboard shows of an assignment is something it has read of it.
LEMMA MergeShows ==
    ASSUME ProjectionInv, MergeDashboard, NEW i \in AssignmentIds
    PROVE  \/ seen'[i] = seen[i]
           \/ \E x \in dashboard.live : x[1] = i /\ seen'[i] = x[2]
  BY DEF MergeDashboard

\* Merging keeps the invariant.
LEMMA MergeStep == ProjectionInv /\ MergeDashboard => ProjectionInv'
  <1> SUFFICES ASSUME ProjectionInv, MergeDashboard PROVE ProjectionInv'
    OBVIOUS
  <1> DEFINE shown == {<<x[1], Merge(dashboard.durable[x[1]], x[2])>> :
                         x \in dashboard.live}
  <1>1. /\ dashboard.pc = "merge" /\ UNCHANGED <<projections, stored>>
        /\ dashboard' = [dashboard EXCEPT !.pc = "shown", !.shown = shown]
        /\ seen' = [i \in AssignmentIds |->
             IF \E x \in dashboard.live : x[1] = i
             THEN (CHOOSE x \in dashboard.live : x[1] = i)[2] ELSE seen[i]]
    BY DEF MergeDashboard, Show
  <1>2. ProjectionTypes
    BY DEF ProjectionInv
  <1>3. \A x \in dashboard.live : x[1] \in AssignmentIds /\ x[2] \in Projections
    BY <1>2 DEF ProjectionTypes
  <1>4. \A x \in dashboard.live :
          /\ Merge(dashboard.durable[x[1]], x[2]).report = dashboard.durable[x[1]]
          /\ Merge(dashboard.durable[x[1]], x[2])
                \in [report : {"no", "review"}, status : ShownStatuses]
    <2> SUFFICES ASSUME NEW x \in dashboard.live
                 PROVE  /\ Merge(dashboard.durable[x[1]], x[2]).report
                              = dashboard.durable[x[1]]
                        /\ Merge(dashboard.durable[x[1]], x[2])
                              \in [report : {"no", "review"}, status : ShownStatuses]
      OBVIOUS
    <2>1. dashboard.durable[x[1]] \in {"no", "review"}
      BY <1>2, <1>3 DEF ProjectionTypes
    <2>2. LegacyStatus(x[2].condition) \in ShownStatuses
      <3>1. x[2].condition \in Conditions \cup {"none"}
        BY <1>3 DEF Projections
      <3> QED BY <3>1 DEF LegacyStatus, ShownStatuses
    <2> QED BY <2>1, <2>2 DEF Merge
  <1>5. \A y \in shown : /\ y[1] \in AssignmentIds /\ y = <<y[1], y[2]>>
                         /\ y[2].report = dashboard.durable[y[1]]
                         /\ y[2] \in [report : {"no", "review"}, status : ShownStatuses]
    BY <1>3, <1>4
  <1> HIDE DEF shown
  <1>6. /\ dashboard'.pc = "shown" /\ dashboard'.next = dashboard.next
        /\ dashboard'.durable = dashboard.durable
        /\ dashboard'.live = dashboard.live /\ dashboard'.missed = dashboard.missed
        /\ dashboard'.calm = dashboard.calm /\ dashboard'.shown = shown
    BY <1>1, <1>2 DEF ProjectionTypes
  <1>7. shown \in SUBSET (AssignmentIds \X
                            [report : {"no", "review"}, status : ShownStatuses])
    BY <1>5
  <1>8. \A i \in AssignmentIds : seen'[i] \in Projections /\
                                 Reaches(seen'[i], projections[i])
    <2> SUFFICES ASSUME NEW i \in AssignmentIds
                 PROVE  seen'[i] \in Projections /\ Reaches(seen'[i], projections[i])
      OBVIOUS
    <2>1. CASE seen'[i] = seen[i]
      BY <1>2, <2>1 DEF ProjectionInv, ShownInv, ProjectionTypes
    <2>2. CASE \E x \in dashboard.live : x[1] = i /\ seen'[i] = x[2]
      BY <1>3, <2>2 DEF ProjectionInv, ShownInv
    <2> QED BY <2>1, <2>2, MergeShows
  <1>9. seen' \in [AssignmentIds -> Projections]
    BY <1>1, <1>8
  <1>10. ProjectionTypes'
    BY <1>1, <1>2, <1>7, <1>9 DEF ProjectionTypes, DashboardSteps
  <1>11. ShownInv'
    BY <1>1, <1>6, <1>8 DEF ProjectionInv, ShownInv
  <1>12. ReadInv'
    BY <1>1, <1>5, <1>6 DEF ProjectionInv, ReadInv, Current
  <1> QED BY <1>10, <1>11, <1>12 DEF ProjectionInv

\* Starting and ending a dashboard, and reviewing, keep the invariant.
LEMMA RestartStep ==
    ASSUME ProjectionInv,
           BeginDashboard \/ EndDashboard \/ \E i \in AssignmentIds : Review(i)
    PROVE  ProjectionInv'
  <1>0. ProjectionTypes /\ UNCHANGED <<projections, seen>>
    BY DEF ProjectionInv, BeginDashboard, EndDashboard, Review, Show
  <1>1. CASE \E i \in AssignmentIds : Review(i)
    <2>1. stored' \in [AssignmentIds -> {"no", "review"}] /\ UNCHANGED dashboard
      BY <1>0, <1>1 DEF Review, ProjectionTypes
    <2> QED BY <1>0, <2>1
            DEF ProjectionInv, ProjectionTypes, ShownInv, ReadInv, Current, ReadSoFar
  <1>2. CASE BeginDashboard \/ EndDashboard
    <2>0. /\ UNCHANGED stored
          /\ \/ dashboard' = IdleDashboard
             \/ dashboard' = [IdleDashboard EXCEPT !.pc = "batches", !.durable = stored]
      BY <1>2 DEF BeginDashboard, EndDashboard, Show
    <2> DEFINE D == [pc : DashboardSteps, next : Nat,
                     durable : [AssignmentIds -> {"no", "review"}],
                     live : SUBSET (AssignmentIds \X Projections),
                     missed : BOOLEAN, calm : BOOLEAN,
                     shown : SUBSET (AssignmentIds \X
                                [report : {"no", "review"}, status : ShownStatuses])]
    <2>a. /\ IdleDashboard \in D
          /\ IdleDashboard.live = {} /\ IdleDashboard.shown = {}
          /\ IdleDashboard.pc = "idle" /\ IdleDashboard.next = 1
      BY DEF IdleDashboard, DashboardSteps
    <2>b. dashboard' \in D
      <3>1. stored \in [AssignmentIds -> {"no", "review"}]
        BY <1>0 DEF ProjectionTypes
      <3>2. ASSUME NEW d \in D
            PROVE  [d EXCEPT !.pc = "batches", !.durable = stored] \in D
        BY <3>1 DEF DashboardSteps
      <3> HIDE DEF D
      <3> QED BY <2>0, <2>a, <3>2
    <2>1. /\ dashboard'.live = {} /\ dashboard'.shown = {}
          /\ dashboard'.pc \in {"idle", "batches"}
          /\ dashboard'.pc = "batches" => dashboard'.next = 1
      BY <2>0, <2>a
    <2> HIDE DEF D
    <2>2. ProjectionTypes'
      BY <1>0, <2>0, <2>b DEF ProjectionTypes, D
    <2>3. dashboard'.next = 1 => ReadSoFar' = {}
      BY DEF ReadSoFar
    <2>4. ShownInv'
      BY <1>0, <2>1 DEF ProjectionInv, ShownInv
    <2>5. ReadInv'
      BY <2>1, <2>3 DEF ReadInv, Current
    <2> QED BY <2>2, <2>4, <2>5 DEF ProjectionInv
  <1> QED BY <1>1, <1>2

\* Every step keeps the invariant.
LEMMA ProjectionStep ==
    ProjectionInv /\ [ProjectionNext]_projectionVars => ProjectionInv'
  <1> SUFFICES ASSUME ProjectionInv, [ProjectionNext]_projectionVars
               PROVE  ProjectionInv'
    OBVIOUS
  <1>1. CASE UNCHANGED projectionVars
    BY <1>1 DEF projectionVars, ProjectionInv, ProjectionTypes, ShownInv, ReadInv,
                Current, ReadSoFar
  <1>2. CASE ProjectionNext
    BY <1>2, DeliverStep, BatchStep, MergeStep, RestartStep DEF ProjectionNext
  <1> QED BY <1>1, <1>2

\* It holds at first.
LEMMA ProjectionStart == ProjectionInit => ProjectionInv
  <1> SUFFICES ASSUME ProjectionInit PROVE ProjectionInv
    OBVIOUS
  <1>1. NoProjection \in Projections
    BY DEF NoProjection, Projections
  <1>2. ProjectionTypes
    BY <1>1 DEF ProjectionInit, ProjectionTypes, IdleDashboard, DashboardSteps
  <1>3. ShownInv /\ ReadInv
    BY DEF ProjectionInit, ShownInv, ReadInv, IdleDashboard, Reaches
  <1> QED BY <1>2, <1>3 DEF ProjectionInv

\* A dashboard whose batches all answered shows every assignment that has a
\* projection, and hides no report under review: overlayRegistryConformance.
THEOREM CompleteDashboards == ProjectionSpec => []DashboardIsComplete
  <1>1. ProjectionInv => DashboardIsComplete
    BY DEF ProjectionInv, ReadInv, DashboardIsComplete, Current
  <1> QED BY <1>1, ProjectionStart, ProjectionStep, PTL DEF ProjectionSpec

\* What dashboards show of an assignment never goes back, in whatever order the
\* registry hears of it.
THEOREM DashboardsAdvance == ProjectionSpec => DashboardNeverRegresses
  <1>1. ASSUME ProjectionInv, [ProjectionNext]_projectionVars,
               NEW i \in AssignmentIds
        PROVE  /\ ~Older(seen'[i], seen[i])
               /\ SameCursor(seen'[i], seen[i]) => seen'[i] = seen[i]
    <2>1. seen[i] \in Projections /\ seen'[i] \in Projections
      BY <1>1, ProjectionStep DEF ProjectionInv, ProjectionTypes
    <2>2. Reaches(seen[i], seen'[i])
      <3>1. CASE MergeDashboard
        <4>1. dashboard.pc = "merge"
          BY <3>1 DEF MergeDashboard
        <4> QED BY <1>1, <3>1, <4>1, MergeShows
                DEF ProjectionInv, ShownInv, Reaches
      <3>2. CASE ~MergeDashboard
        <4>1. seen' = seen
          BY <1>1, <3>2 DEF ProjectionNext, Deliver, Review, BeginDashboard,
                            ReadBatch, EndDashboard, projectionVars
        <4> QED BY <4>1 DEF Reaches
      <3> QED BY <3>1, <3>2
    <2> QED BY <2>1, <2>2, CursorOrder
  <1>2. ProjectionInv /\ [ProjectionNext]_projectionVars =>
          [\A i \in AssignmentIds :
             /\ ~Older(seen'[i], seen[i])
             /\ SameCursor(seen'[i], seen[i]) => seen'[i] = seen[i]]_projectionVars
    BY <1>1
  <1> QED BY <1>2, ProjectionStart, ProjectionStep, PTL
          DEF ProjectionSpec, DashboardNeverRegresses

-----------------------------------------------------------------------------
(* Routing of commands.  Calls and the connection view run together.       *)

RoutingSpec == RoutingInit /\ [][RoutingNext \/ ViewNext]_routingVars

Entries == [relay : Relays \cup {None}, address : Addresses \cup {None}, expires : Nat]

Placed == [placements : [Agents -> Relays \cup {None}],
           relays : [Relays -> Addresses \cup {None}]]

CallSteps == {"cache", "placement", "relays", "store", "client", "invoke", "forget",
              "drop"}

Calls == [pc : {"idle", "ended"} \cup CallSteps, agent : Agents \cup {None},
          deadline : Nat, attempt : {0, 1}, at : Entries, conn : Nat,
          result : {None, "ok", "timeout", "closing", "unavailable", "no placement",
                    "no address"},
          undisturbed : BOOLEAN]

RoutingTypes ==
    /\ registry \in Placed /\ actual \in Placed /\ clock \in Nat
    /\ cache \in [Agents -> Entries]
    /\ pool \in [Relays -> [address : Addresses \cup {None}, conn : Nat]]
    /\ spent \in [moves : Nat, calls : Nat]

\* While a call is not disturbed the registry is right about its agent, and what
\* it was told in this attempt is so.  Only a first attempt uses the cache.
Told(k) ==
    k.pc \in {"relays", "store"} \/ (k.attempt = 1 /\ k.pc \in {"client", "invoke"})

Right(k) ==
    k.undisturbed =>
        /\ k.pc = "ended" => k.result \in {"ok", "timeout", "closing"}
        /\ k.pc \in CallSteps =>
              /\ registry = actual
              /\ actual.placements[k.agent] # None
              /\ actual.relays[actual.placements[k.agent]] # None
        /\ Told(k) => k.at.relay = actual.placements[k.agent]
        /\ Told(k) /\ k.pc # "relays" => k.at.address = actual.relays[k.at.relay]

\* A call has an agent, and a relay once it was told of one.
GoodCall(k) ==
    /\ k \in Calls
    /\ k.pc \in CallSteps => k.agent \in Agents
    /\ k.pc \in CallSteps \ {"cache", "placement"} => k.at.relay \in Relays
    /\ Right(k)

CallsInv == calls \in [Callers -> Calls] /\ \A c \in Callers : GoodCall(calls[c])

\* The pool has every open connection, each for one relay.
PoolInv ==
    /\ open = {pool[r].conn : r \in Relays} \ {0}
    /\ \A r, s \in Relays : pool[r].conn = pool[s].conn /\ pool[r].conn # 0 => r = s

RoutingInv == RoutingTypes /\ CallsInv /\ PoolInv

\* There is always a connection that is neither open nor in use.
LEMMA FreshConnection ==
    ASSUME RoutingInv
    PROVE  NewConnection \in Nat \ {0} /\ NewConnection \notin open
  <1> DEFINE N == 2 * Cardinality(Relays) + Cardinality(Callers) + 1
             Pooled == {pool[r].conn : r \in Relays}
             Used == {calls[c].conn : c \in Callers}
             Taken == open \cup Used
  <1>1. /\ IsFiniteSet(Relays) /\ IsFiniteSet(Callers)
        /\ Cardinality(Relays) \in Nat /\ Cardinality(Callers) \in Nat
    BY RelayRoutingAssumption, FS_CardinalityType
  <1>2. IsFiniteSet(Pooled) /\ Cardinality(Pooled) <= Cardinality(Relays)
    <2> DEFINE f == [r \in Relays |-> pool[r].conn]
    <2>1. f \in Surjection(Relays, Pooled)
      BY DEF Surjection
    <2> HIDE DEF f
    <2> QED BY <1>1, <2>1, FS_Surjection
  <1>3. IsFiniteSet(Used) /\ Cardinality(Used) <= Cardinality(Callers)
    <2> DEFINE f == [c \in Callers |-> calls[c].conn]
    <2>1. f \in Surjection(Callers, Used)
      BY DEF Surjection
    <2> HIDE DEF f
    <2> QED BY <1>1, <2>1, FS_Surjection
  <1>4. IsFiniteSet(open) /\ Cardinality(open) <= Cardinality(Pooled)
    <2>1. open \subseteq Pooled
      BY DEF RoutingInv, PoolInv
    <2> QED BY <1>2, <2>1, FS_Subset
  <1>5. /\ Cardinality(Pooled) \in Nat /\ Cardinality(Used) \in Nat
        /\ Cardinality(open) \in Nat /\ Cardinality(open \cap Used) \in Nat
    <2>1. IsFiniteSet(open \cap Used)
      BY <1>4, FS_Intersection
    <2> QED BY <1>2, <1>3, <1>4, <2>1, FS_CardinalityType
  <1>6. /\ IsFiniteSet(Taken)
        /\ Cardinality(Taken) = Cardinality(open) + Cardinality(Used)
                                  - Cardinality(open \cap Used)
    BY <1>3, <1>4, FS_Union
  <1>7. Cardinality(Taken) \in Nat /\ Cardinality(Taken) < N /\ N \in Nat \ {0}
    <2> DEFINE R == Cardinality(Relays)
               C == Cardinality(Callers)
               P == Cardinality(Pooled)
               U == Cardinality(Used)
               O == Cardinality(open)
               B == Cardinality(open \cap Used)
               T == Cardinality(Taken)
    <2>1. /\ R \in Nat /\ C \in Nat /\ P \in Nat /\ U \in Nat /\ O \in Nat /\ B \in Nat
          /\ P <= R /\ U <= C /\ O <= P /\ T = O + U - B
      BY <1>1, <1>2, <1>3, <1>4, <1>5, <1>6
    <2>2. T \in Nat
      BY <1>6, FS_CardinalityType
    <2>3. N = 2 * R + C + 1
      OBVIOUS
    <2> HIDE DEF R, C, P, U, O, B, T, N
    <2>4. T < N /\ N \in Nat \ {0}
      BY <2>1, <2>2, <2>3
    <2> QED BY <2>2, <2>4 DEF T
  <1>8. IsFiniteSet(1..N) /\ Cardinality(1..N) = N
    <2> HIDE DEF N
    <2> QED BY <1>7, FS_Interval
  <1>9. \E n \in 1..N : n \notin Taken
    <2> HIDE DEF N, Taken
    <2>1. SUFFICES ASSUME 1..N \subseteq Taken PROVE FALSE
      OBVIOUS
    <2>2. Cardinality(1..N) <= Cardinality(Taken)
      BY <1>6, <2>1, FS_Subset
    <2> QED BY <1>7, <1>8, <2>2
  <1>10. NewConnection \in 1..N /\ NewConnection \notin Taken
    BY <1>9 DEF NewConnection
  <1> QED BY <1>7, <1>10

\* A connection of relay r is replaced by n, or by none.
LEMMA PoolStep ==
    ASSUME RoutingInv, NEW r \in Relays, NEW n \in Nat, n \notin open, NEW x,
           pool' = [pool EXCEPT ![r] = [address |-> x, conn |-> n]],
           open' = (open \ {pool[r].conn}) \cup ({n} \ {0})
    PROVE  PoolInv'
  <1>1. /\ pool \in [Relays -> [address : Addresses \cup {None}, conn : Nat]]
        /\ open = {pool[s].conn : s \in Relays} \ {0}
        /\ \A s, t \in Relays :
              pool[s].conn = pool[t].conn /\ pool[s].conn # 0 => s = t
    BY DEF RoutingInv, RoutingTypes, PoolInv
  <1>2. \A s \in Relays : pool'[s].conn = IF s = r THEN n ELSE pool[s].conn
    BY <1>1
  <1>3. \A s, t \in Relays :
          pool'[s].conn = pool'[t].conn /\ pool'[s].conn # 0 => s = t
    BY <1>1, <1>2
  <1>4. open' = {pool'[s].conn : s \in Relays} \ {0}
    <2>1. ASSUME NEW m \in open' PROVE \E s \in Relays : m = pool'[s].conn /\ m # 0
      BY <1>1, <1>2, <2>1
    <2>2. ASSUME NEW s \in Relays, pool'[s].conn # 0 PROVE pool'[s].conn \in open'
      BY <1>1, <1>2, <2>2
    <2> QED BY <2>1, <2>2
  <1> QED BY <1>3, <1>4 DEF PoolInv

\* A step of one call keeps the calls good when the new one is.
LEMMA OneCallStep ==
    ASSUME RoutingInv, NEW c \in Callers, NEW k, GoodCall(k), Step(c, k)
    PROVE  CallsInv'
  <1>1. /\ calls' = [calls EXCEPT ![c] = k] /\ UNCHANGED <<registry, actual>>
        /\ calls \in [Callers -> Calls] /\ k \in Calls
    BY DEF Step, RoutingInv, CallsInv, GoodCall
  <1>2. calls' \in [Callers -> Calls]
    BY <1>1
  <1>3. \A d \in Callers : calls'[d] = IF d = c THEN k ELSE calls[d]
    BY <1>1
  <1>4. \A j : GoodCall(j) => GoodCall(j)'
    BY <1>1 DEF GoodCall, Right
  <1> QED BY <1>2, <1>3, <1>4 DEF CallsInv, RoutingInv

\* An entry without a relay.
LEMMA EntryFacts ==
    /\ NoEntry \in Entries /\ IdleCall \in Calls
    /\ None \notin Agents \cup Relays \cup Addresses
  BY RelayRoutingAssumption DEF NoEntry, IdleCall, Entries, Calls, CallSteps

\* A call that ends is good when it was not disturbed, only if it was answered,
\* closed or too late.
LEMMA EndedCall ==
    ASSUME NEW k \in Calls, NEW result \in {"ok", "timeout", "closing", "unavailable",
                                            "no placement", "no address"},
           k.undisturbed => result \in {"ok", "timeout", "closing"}
    PROVE  GoodCall(Ended(k, result))
  <1>1. /\ Ended(k, result) \in Calls /\ Ended(k, result).pc = "ended"
        /\ Ended(k, result).result = result
        /\ Ended(k, result).undisturbed = k.undisturbed
        /\ Ended(k, result).attempt = 0
    BY EntryFacts DEF Ended, Calls, IdleCall, CallSteps
  <1> QED BY <1>1 DEF GoodCall, Right, Told, CallSteps

\* A call that starts is good.
LEMMA StartedCall ==
    ASSUME RoutingInv, NEW c \in Callers, NEW a \in Agents, StartCall(c, a)
    PROVE  CallsInv' /\ RoutingTypes' /\ PoolInv'
  <1> DEFINE u == registry = actual /\ actual.placements[a] # None
                  /\ actual.relays[actual.placements[a]] # None
             k == [IdleCall EXCEPT !.pc = "cache", !.agent = a,
                     !.deadline = clock + Timeout, !.undisturbed = u]
  <1>1. Step(c, k) /\ UNCHANGED <<cache, pool, open, registry, actual, clock>>
    BY DEF StartCall, Step
  <1>2. clock + Timeout \in Nat
    BY RelayRoutingAssumption DEF RoutingInv, RoutingTypes
  <1>3. u \in BOOLEAN
    OBVIOUS
  <1>4. /\ k \in Calls /\ k.pc = "cache" /\ k.agent = a /\ k.undisturbed = u
        /\ k.attempt = 0
    <2> HIDE DEF u
    <2> QED BY <1>2, <1>3, EntryFacts DEF Calls, CallSteps, IdleCall
  <1>5. GoodCall(k)
    <2> HIDE DEF k
    <2> QED BY <1>4 DEF GoodCall, Right, Told, CallSteps
  <1> HIDE DEF k
  <1>6. CallsInv'
    BY <1>1, <1>5, OneCallStep
  <1>7. RoutingTypes'
    <2>1. spent' \in [moves : Nat, calls : Nat]
      BY DEF StartCall, RoutingInv, RoutingTypes
    <2> QED BY <1>1, <2>1 DEF RoutingInv, RoutingTypes
  <1>8. PoolInv'
    BY <1>1 DEF RoutingInv, PoolInv
  <1> QED BY <1>6, <1>7, <1>8

\* Steps of a call that only read keep the invariant when the call stays good.
LEMMA ReadingStep ==
    ASSUME RoutingInv, NEW c \in Callers, NEW k, GoodCall(k), Step(c, k), Reading
    PROVE  RoutingInv'
  <1>1. UNCHANGED <<registry, actual, clock, cache, pool, open, spent>>
    BY DEF Step, Reading
  <1> QED BY <1>1, OneCallStep DEF RoutingInv, RoutingTypes, PoolInv

\* What is known of a call.
LEMMA CallFacts ==
    ASSUME RoutingInv, NEW c \in Callers
    PROVE  /\ calls[c] \in Calls /\ GoodCall(calls[c])
           /\ registry \in Placed /\ actual \in Placed /\ clock \in Nat
           /\ cache \in [Agents -> Entries]
  BY DEF RoutingInv, CallsInv, RoutingTypes

\* Reading the cache.
LEMMA ReadCacheStep ==
    ASSUME RoutingInv, NEW c \in Callers, ReadCache(c)
    PROVE  RoutingInv'
  <1> DEFINE k == calls[c]
  <1>1. k \in Calls /\ GoodCall(k) /\ k.pc = "cache" /\ Reading
    BY CallFacts DEF ReadCache
  <1>2. k.agent \in Agents /\ cache[k.agent] \in Entries
    BY <1>1, CallFacts DEF GoodCall, CallSteps
  <1>3. CASE MayUseCache(k)
    <2> DEFINE m == [k EXCEPT !.pc = "client", !.at = cache[k.agent]]
    <2>1. Step(c, m)
      BY <1>3 DEF ReadCache
    <2> HIDE DEF k
    <2>2. k.attempt = 0 /\ cache[k.agent].relay \in Relays
      BY <1>2, <1>3 DEF MayUseCache, Entries
    <2>3. /\ m \in Calls /\ m.pc = "client" /\ m.agent = k.agent /\ m.attempt = 0
          /\ m.at = cache[k.agent] /\ m.undisturbed = k.undisturbed
      BY <1>1, <1>2, <2>2 DEF Calls, CallSteps
    <2> HIDE DEF m
    <2>4. GoodCall(m)
      BY <1>1, <1>2, <2>2, <2>3 DEF GoodCall, Right, Told, CallSteps
    <2> QED BY <1>1, <2>1, <2>4, ReadingStep
  <1>4. CASE ~MayUseCache(k)
    <2> DEFINE m == [k EXCEPT !.pc = "placement"]
    <2>1. Step(c, m)
      BY <1>4 DEF ReadCache
    <2> HIDE DEF k
    <2>3. /\ m \in Calls /\ m.pc = "placement" /\ m.agent = k.agent
          /\ m.undisturbed = k.undisturbed
      BY <1>1 DEF Calls, CallSteps
    <2> HIDE DEF m
    <2>4. GoodCall(m)
      BY <1>1, <1>2, <2>3 DEF GoodCall, Right, Told, CallSteps
    <2> QED BY <1>1, <2>1, <2>4, ReadingStep
  <1> QED BY <1>3, <1>4

\* Asking the registry where the agent is.
LEMMA ReadPlacementStep ==
    ASSUME RoutingInv, NEW c \in Callers, ReadPlacement(c)
    PROVE  RoutingInv'
  <1> DEFINE k == calls[c]
             r == registry.placements[k.agent]
  <1>1. k \in Calls /\ GoodCall(k) /\ k.pc = "placement" /\ Reading
    BY CallFacts DEF ReadPlacement
  <1>2. k.agent \in Agents
    BY <1>1 DEF GoodCall, CallSteps
  <1>3. r \in Relays \cup {None}
    BY <1>2, CallFacts DEF Placed
  <1>4. k.undisturbed => r = actual.placements[k.agent] /\ r # None
    BY <1>1 DEF GoodCall, Right, CallSteps
  <1>5. CASE InTime(k) /\ r # None
    <2> DEFINE e == [NoEntry EXCEPT !.relay = r]
               m == [k EXCEPT !.pc = "relays", !.at = e]
    <2>1. Step(c, m)
      BY <1>5 DEF ReadPlacement
    <2> HIDE DEF k, r
    <2>2. e \in Entries /\ e.relay = r
      BY <1>3, EntryFacts DEF Entries, NoEntry
    <2> HIDE DEF e
    <2>3. /\ m \in Calls /\ m.pc = "relays" /\ m.agent = k.agent
          /\ m.at = e /\ m.undisturbed = k.undisturbed
      BY <1>1, <2>2 DEF Calls, CallSteps
    <2> HIDE DEF m
    <2>4. GoodCall(m)
      BY <1>1, <1>2, <1>3, <1>4, <1>5, <2>2, <2>3 DEF GoodCall, Right, Told, CallSteps
    <2> QED BY <1>1, <2>1, <2>4, ReadingStep
  <1>6. CASE ~(InTime(k) /\ r # None)
    <2>1. PICK x \in {"no placement", "timeout"} :
            Step(c, Ended(k, x)) /\ (x = "no placement" => r = None)
      BY <1>6 DEF ReadPlacement
    <2> HIDE DEF k, r
    <2>2. GoodCall(Ended(k, x))
      BY <1>1, <1>4, <2>1, EndedCall
    <2> QED BY <1>1, <2>1, <2>2, ReadingStep
  <1> QED BY <1>5, <1>6

\* Asking the registry where the relay listens.
LEMMA ReadRelaysStep ==
    ASSUME RoutingInv, NEW c \in Callers, ReadRelays(c)
    PROVE  RoutingInv'
  <1> DEFINE k == calls[c]
             x == registry.relays[k.at.relay]
  <1>1. k \in Calls /\ GoodCall(k) /\ k.pc = "relays" /\ Reading
    BY CallFacts DEF ReadRelays
  <1>2. k.agent \in Agents /\ k.at.relay \in Relays /\ k.at \in Entries
    BY <1>1 DEF GoodCall, CallSteps, Calls
  <1>3. x \in Addresses \cup {None}
    BY <1>2, CallFacts DEF Placed
  <1>4. k.undisturbed => /\ k.at.relay = actual.placements[k.agent]
                         /\ x = actual.relays[k.at.relay] /\ x # None
    BY <1>1 DEF GoodCall, Right, Told, CallSteps
  <1>5. CASE InTime(k) /\ x # None
    <2> DEFINE e == [k.at EXCEPT !.address = x, !.expires = clock + TTL]
               m == [k EXCEPT !.pc = "store", !.at = e]
    <2>1. Step(c, [k EXCEPT !.pc = "store", !.at.address = x, !.at.expires = clock + TTL])
      BY <1>5 DEF ReadRelays
    <2>a. clock + TTL \in Nat
      BY CallFacts, RelayRoutingAssumption
    <2> HIDE DEF k, x
    <2>b. m = [k EXCEPT !.pc = "store", !.at.address = x, !.at.expires = clock + TTL]
      BY <1>1, <1>2 DEF Calls, Entries
    <2>2. e \in Entries /\ e.relay = k.at.relay /\ e.address = x
      BY <1>2, <1>3, <2>a DEF Entries
    <2> HIDE DEF e
    <2>3. /\ m \in Calls /\ m.pc = "store" /\ m.agent = k.agent
          /\ m.at = e /\ m.undisturbed = k.undisturbed
      BY <1>1, <2>2 DEF Calls, CallSteps
    <2> HIDE DEF m
    <2>4. GoodCall(m)
      BY <1>1, <1>2, <1>3, <1>4, <2>2, <2>3 DEF GoodCall, Right, Told, CallSteps
    <2> QED BY <1>1, <2>1, <2>b, <2>4, ReadingStep
  <1>6. CASE ~(InTime(k) /\ x # None)
    <2>1. PICK y \in {"no address", "timeout"} :
            Step(c, Ended(k, y)) /\ (y = "no address" => x = None)
      BY <1>6 DEF ReadRelays
    <2> HIDE DEF k, x
    <2>2. GoodCall(Ended(k, y))
      BY <1>1, <1>4, <2>1, EndedCall
    <2> QED BY <1>1, <2>1, <2>2, ReadingStep
  <1> QED BY <1>5, <1>6

\* Writing and removing a cache entry.
LEMMA CacheStep ==
    ASSUME RoutingInv, NEW c \in Callers, StoreCache(c) \/ Forget(c)
    PROVE  RoutingInv'
  <1> DEFINE k == calls[c]
  <1>1. k \in Calls /\ GoodCall(k) /\ k.pc \in {"store", "forget"}
    BY CallFacts DEF StoreCache, Forget
  <1>2. PICK e \in Entries, p \in {"client", "drop"} :
          /\ cache' = [cache EXCEPT ![k.agent] = e]
          /\ Step(c, [k EXCEPT !.pc = p])
          /\ p = "client" => k.pc = "store"
          /\ UNCHANGED <<pool, open, spent>>
    <2>1. CASE StoreCache(c)
      <3>1. k.at \in Entries
        BY <1>1 DEF Calls
      <3> QED BY <2>1, <3>1 DEF StoreCache
    <2>2. CASE Forget(c)
      BY <2>2, EntryFacts DEF Forget
    <2> QED BY <2>1, <2>2
  <1> DEFINE m == [k EXCEPT !.pc = p]
  <1>3. Step(c, m) /\ UNCHANGED <<registry, actual, clock, pool, open, spent>>
    BY <1>2 DEF Step
  <1>4. cache' \in [Agents -> Entries]
    BY <1>2, CallFacts
  <1> HIDE DEF k
  <1>5. /\ m \in Calls /\ m.pc = p /\ m.agent = k.agent /\ m.at = k.at
        /\ m.undisturbed = k.undisturbed
    BY <1>1, <1>2 DEF Calls, CallSteps
  <1> HIDE DEF m
  <1>6. GoodCall(m)
    BY <1>1, <1>2, <1>5 DEF GoodCall, Right, Told, CallSteps
  <1>7. CallsInv'
    BY <1>3, <1>6, OneCallStep
  <1> QED BY <1>3, <1>4, <1>7 DEF RoutingInv, RoutingTypes, PoolInv

\* Taking a connection from the pool, or replacing it.
LEMMA ClientStep ==
    ASSUME RoutingInv, NEW c \in Callers, Client(c)
    PROVE  RoutingInv'
  <1> DEFINE k == calls[c]
             r == k.at.relay
  <1>1. k \in Calls /\ GoodCall(k) /\ k.pc = "client"
    BY CallFacts DEF Client
  <1>2. r \in Relays /\ k.at \in Entries
    BY <1>1 DEF GoodCall, CallSteps, Calls
  <1>3. ASSUME NEW n \in Nat PROVE GoodCall([k EXCEPT !.pc = "invoke", !.conn = n])
    <2> DEFINE m == [k EXCEPT !.pc = "invoke", !.conn = n]
    <2> HIDE DEF k
    <2>1. /\ m \in Calls /\ m.pc = "invoke" /\ m.agent = k.agent /\ m.at = k.at
          /\ m.undisturbed = k.undisturbed /\ m.attempt = k.attempt
      BY <1>1 DEF Calls, CallSteps
    <2> HIDE DEF m
    <2>2. GoodCall(m)
      BY <1>1, <2>1 DEF GoodCall, Right, Told, CallSteps
    <2> QED BY <2>2 DEF m
  <1>4. CASE pool[r].address = k.at.address
    <2>1. Step(c, [k EXCEPT !.pc = "invoke", !.conn = pool[r].conn]) /\ Reading
      BY <1>4 DEF Client
    <2>2. pool[r].conn \in Nat
      BY <1>2 DEF RoutingInv, RoutingTypes
    <2> QED BY <1>3, <2>1, <2>2, ReadingStep
  <1>5. CASE pool[r].address # k.at.address
    <2>1. /\ pool' = [pool EXCEPT ![r] = [address |-> k.at.address, conn |-> NewConnection]]
          /\ open' = (open \ {pool[r].conn}) \cup {NewConnection}
          /\ Step(c, [k EXCEPT !.pc = "invoke", !.conn = NewConnection])
          /\ UNCHANGED <<cache, spent>>
      BY <1>5 DEF Client
    <2>2. NewConnection \in Nat \ {0} /\ NewConnection \notin open
      BY FreshConnection
    <2>3. CallsInv'
      BY <1>3, <2>1, <2>2, OneCallStep
    <2>4. {NewConnection} \ {0} = {NewConnection}
      BY <2>2
    <2>5. PoolInv'
      <3> HIDE DEF r, k
      <3> QED BY <1>2, <2>1, <2>2, <2>4, PoolStep
    <2>6. RoutingTypes'
      <3>1. [address |-> k.at.address, conn |-> NewConnection]
              \in [address : Addresses \cup {None}, conn : Nat]
        BY <1>2, <2>2 DEF Entries
      <3>2. pool' \in [Relays -> [address : Addresses \cup {None}, conn : Nat]]
        BY <1>2, <2>1, <3>1 DEF RoutingInv, RoutingTypes
      <3> QED BY <2>1, <3>2 DEF RoutingInv, RoutingTypes, Step
    <2> QED BY <2>3, <2>5, <2>6 DEF RoutingInv
  <1> QED BY <1>4, <1>5

\* An unavailable relay ends the second attempt, and then only a disturbed call.
LEMMA UnavailableCall ==
    ASSUME NEW k, GoodCall(k), k.pc = "invoke", k.undisturbed => k.attempt = 0
    PROVE  GoodCall(Unavailable(k))
  <1>1. CASE MayRetry(k)
    <2> DEFINE m == [k EXCEPT !.pc = "forget"]
    <2>1. /\ m \in Calls /\ m.pc = "forget" /\ m.agent = k.agent /\ m.at = k.at
          /\ m.undisturbed = k.undisturbed
      BY DEF GoodCall, Calls, CallSteps
    <2> HIDE DEF m
    <2>2. GoodCall(m)
      BY <2>1 DEF GoodCall, Right, Told, CallSteps
    <2> QED BY <1>1, <2>2 DEF Unavailable, m
  <1>2. CASE ~MayRetry(k)
    <2>1. k \in Calls /\ ~k.undisturbed
      BY <1>2 DEF MayRetry, GoodCall, Calls
    <2>2. GoodCall(Ended(k, "unavailable"))
      BY <2>1, EndedCall
    <2> QED BY <1>2, <2>2 DEF Unavailable
  <1> QED BY <1>1, <1>2

\* The command travels.
LEMMA InvokeStep ==
    ASSUME RoutingInv, NEW c \in Callers, Invoke(c)
    PROVE  RoutingInv'
  <1> DEFINE k == calls[c]
             reached == /\ InTime(k) /\ k.conn \in open
                        /\ actual.relays[k.at.relay] = k.at.address
  <1>1. k \in Calls /\ GoodCall(k) /\ k.pc = "invoke"
    BY CallFacts DEF Invoke
  <1>2. k.undisturbed /\ k.attempt = 1 =>
          /\ actual.relays[k.at.relay] = k.at.address
          /\ actual.placements[k.agent] = k.at.relay
    BY <1>1 DEF GoodCall, Right, Told, CallSteps
  <1>3. k.attempt \in {0, 1}
    BY <1>1 DEF Calls
  <1>4. \A x \in {"ok", "timeout", "closing"} : GoodCall(Ended(k, x))
    BY <1>1, EndedCall
  <1>5. CASE \E x \in {"ok", "timeout", "closing"} : Step(c, Ended(k, x)) /\ Reading
    BY <1>4, <1>5, ReadingStep
  <1>6. CASE /\ (InTime(k) /\ k.conn \in open /\ ~reached)
                  \/ (reached /\ actual.placements[k.agent] # k.at.relay)
             /\ Step(c, Unavailable(k)) /\ Reading
    <2>1. k.undisturbed => k.attempt = 0
      BY <1>2, <1>3, <1>6
    <2> QED BY <1>1, <1>6, <2>1, UnavailableCall, ReadingStep
  <1>7. CASE /\ spent' = [spent EXCEPT !.moves = @ + 1]
             /\ Step(c, Unavailable([k EXCEPT !.undisturbed = FALSE]))
             /\ UNCHANGED <<cache, pool, open>>
    <2> DEFINE m == [k EXCEPT !.undisturbed = FALSE]
    <2>1. Step(c, Unavailable(m))
      BY <1>7
    <2> HIDE DEF k
    <2>2. /\ m \in Calls /\ m.pc = "invoke" /\ m.agent = k.agent /\ m.at = k.at
          /\ ~m.undisturbed
      BY <1>1 DEF Calls, CallSteps
    <2> HIDE DEF m
    <2>3. GoodCall(m)
      BY <1>1, <2>2 DEF GoodCall, Right, CallSteps
    <2>4. CallsInv'
      BY <2>1, <2>2, <2>3, UnavailableCall, OneCallStep
    <2>5. spent' \in [moves : Nat, calls : Nat]
      BY <1>7 DEF RoutingInv, RoutingTypes
    <2> QED BY <1>7, <2>4, <2>5 DEF RoutingInv, RoutingTypes, PoolInv, Step
  <1>8. \/ \E x \in {"ok", "timeout", "closing"} : Step(c, Ended(k, x)) /\ Reading
        \/ /\ (InTime(k) /\ k.conn \in open /\ ~reached)
                  \/ (reached /\ actual.placements[k.agent] # k.at.relay)
           /\ Step(c, Unavailable(k)) /\ Reading
        \/ /\ spent' = [spent EXCEPT !.moves = @ + 1]
           /\ Step(c, Unavailable([k EXCEPT !.undisturbed = FALSE]))
           /\ UNCHANGED <<cache, pool, open>>
    BY DEF Invoke
  <1> QED BY <1>5, <1>6, <1>7, <1>8

\* Dropping the connection, whoever opened it.
LEMMA DropStep ==
    ASSUME RoutingInv, NEW c \in Callers, DropConnection(c)
    PROVE  RoutingInv'
  <1> DEFINE k == calls[c]
             r == k.at.relay
             m == [k EXCEPT !.pc = "cache", !.attempt = 1]
  <1>1. k \in Calls /\ GoodCall(k) /\ k.pc = "drop"
    BY CallFacts DEF DropConnection
  <1>2. r \in Relays
    BY <1>1 DEF GoodCall, CallSteps
  <1>3. /\ open' = open \ {pool[r].conn}
        /\ pool' = [pool EXCEPT ![r] = [address |-> None, conn |-> 0]]
        /\ Step(c, m) /\ UNCHANGED <<cache, spent>>
    BY DEF DropConnection, NoConnection
  <1>4. open' = (open \ {pool[r].conn}) \cup ({0} \ {0}) /\ 0 \in Nat /\ 0 \notin open
    BY <1>3 DEF RoutingInv, PoolInv
  <1> HIDE DEF k
  <1>5. /\ m \in Calls /\ m.pc = "cache" /\ m.agent = k.agent
        /\ m.undisturbed = k.undisturbed
    BY <1>1 DEF Calls, CallSteps
  <1> HIDE DEF m
  <1>6. GoodCall(m)
    BY <1>1, <1>5 DEF GoodCall, Right, Told, CallSteps
  <1>7. CallsInv'
    BY <1>3, <1>6, OneCallStep
  <1> HIDE DEF r
  <1>8. PoolInv'
    BY <1>2, <1>3, <1>4, PoolStep
  <1>9. RoutingTypes'
    <2>1. pool' \in [Relays -> [address : Addresses \cup {None}, conn : Nat]]
      BY <1>2, <1>3 DEF RoutingInv, RoutingTypes
    <2> QED BY <1>3, <2>1 DEF RoutingInv, RoutingTypes, Step
  <1> QED BY <1>7, <1>8, <1>9 DEF RoutingInv

\* Agents and relays move and the registry hears of it: no call is undisturbed
\* after that.
LEMMA DisturbingStep ==
    ASSUME RoutingInv, calls' = Disturbed, UNCHANGED <<clock, cache, pool, open>>,
           registry' \in Placed, actual' \in Placed, spent' \in [moves : Nat, calls : Nat]
    PROVE  RoutingInv'
  <1>0. ASSUME NEW k, NEW m \in Calls, GoodCall(k), m.pc = k.pc, m.agent = k.agent,
               m.at = k.at, ~m.undisturbed
        PROVE  GoodCall(m)'
    BY <1>0 DEF GoodCall, Right
  <1>1. ASSUME NEW c \in Callers
        PROVE  calls'[c] \in Calls /\ GoodCall(calls[c])'
    <2> DEFINE k == calls[c]
               m == [k EXCEPT !.undisturbed = FALSE]
    <2>1. calls'[c] = m
      BY DEF Disturbed
    <2>2. k \in Calls /\ GoodCall(k)
      BY CallFacts
    <2>3. /\ m \in Calls /\ m.pc = k.pc /\ m.agent = k.agent /\ m.at = k.at
          /\ ~m.undisturbed
      <3> HIDE DEF k
      <3> QED BY <2>2 DEF Calls
    <2>4. PICK n : n = calls'[c]
      OBVIOUS
    <2>5. GoodCall(n)'
      <3> HIDE DEF k, m
      <3> QED BY <1>0, <2>1, <2>2, <2>3, <2>4
    <2> QED BY <2>1, <2>3, <2>4, <2>5 DEF GoodCall, Right
  <1>2. calls' \in [Callers -> Calls]
    BY <1>1 DEF Disturbed
  <1>3. CallsInv'
    BY <1>1, <1>2 DEF CallsInv
  <1> QED BY <1>3 DEF RoutingInv, RoutingTypes, PoolInv

\* The steps of the world around the service.
LEMMA WorldStep ==
    ASSUME RoutingInv,
           \/ \E a \in Agents : AgentMoves(a) \/ RegisterAgent(a)
           \/ \E r \in Relays : RelayMoves(r) \/ RegisterRelay(r)
    PROVE  RoutingInv'
  <1>0. /\ registry \in Placed /\ actual \in Placed
        /\ spent \in [moves : Nat, calls : Nat]
    BY DEF RoutingInv, RoutingTypes
  <1>1. CASE \E a \in Agents : AgentMoves(a)
    <2>1. PICK a \in Agents, x \in Relays \cup {None} :
            Move([actual EXCEPT !.placements[a] = x])
      BY <1>1 DEF AgentMoves
    <2>2. [actual EXCEPT !.placements[a] = x] \in Placed
      BY <1>0 DEF Placed
    <2>3. spent' \in [moves : Nat, calls : Nat]
      BY <1>0, <2>1 DEF Move
    <2> QED BY <1>0, <2>1, <2>2, <2>3, DisturbingStep DEF Move
  <1>2. CASE \E r \in Relays : RelayMoves(r)
    <2>1. PICK r \in Relays, x \in Addresses \cup {None} :
            Move([actual EXCEPT !.relays[r] = x])
      BY <1>2 DEF RelayMoves
    <2>2. [actual EXCEPT !.relays[r] = x] \in Placed
      BY <1>0 DEF Placed
    <2>3. spent' \in [moves : Nat, calls : Nat]
      BY <1>0, <2>1 DEF Move
    <2> QED BY <1>0, <2>1, <2>2, <2>3, DisturbingStep DEF Move
  <1>3. CASE \E a \in Agents : RegisterAgent(a)
    <2>1. registry' \in Placed
      BY <1>0, <1>3 DEF Placed, RegisterAgent
    <2> QED BY <1>0, <1>3, <2>1, DisturbingStep DEF RegisterAgent
  <1>4. CASE \E r \in Relays : RegisterRelay(r)
    <2>1. registry' \in Placed
      BY <1>0, <1>4 DEF Placed, RegisterRelay
    <2> QED BY <1>0, <1>4, <2>1, DisturbingStep DEF RegisterRelay
  <1> QED BY <1>1, <1>2, <1>3, <1>4

\* Steps that leave calls, registry, cache and pool alone.
LEMMA AsideStep ==
    ASSUME RoutingInv, clock' \in Nat,
           UNCHANGED <<registry, actual, cache, pool, open, calls, spent>>
    PROVE  RoutingInv'
  <1>1. \A c \in Callers : GoodCall(calls[c]) => GoodCall(calls[c])'
    <2> SUFFICES ASSUME NEW c \in Callers, GoodCall(calls[c])
                 PROVE  GoodCall(calls[c])'
      OBVIOUS
    <2>1. calls'[c] = calls[c]
      OBVIOUS
    <2>2. Right(calls[c])
      BY DEF GoodCall
    <2>3. Right(calls[c])'
      BY <2>1, <2>2 DEF Right, Told
    <2> QED BY <2>1, <2>3 DEF GoodCall
  <1> QED BY <1>1 DEF RoutingInv, RoutingTypes, CallsInv, PoolInv

ViewAlone ==
    \/ \E order \in {s \in [1..Cardinality(Agents) -> Agents] :
                       \A i, j \in DOMAIN s : s[i] = s[j] => i = j} : StartView(order)
    \/ \E w \in Goroutines(Cardinality(Agents)) :
          TakeLookup(w) \/ FinishLookup(w) \/ SignalDone(w)
    \/ ShowView(Cardinality(Agents)) \/ EndView

\* The connection view writes nothing that calls read.
LEMMA ViewAside ==
    ASSUME ViewAlone
    PROVE  UNCHANGED <<registry, actual, clock, cache, pool, open, calls, spent>>
  BY DEF ViewAlone, StartView, TakeLookup, FinishLookup, SignalDone, ShowView, EndView,
         ViewStep

\* Every step keeps the invariant of the calls.
LEMMA RoutingStep ==
    RoutingInv /\ [RoutingNext \/ ViewNext]_routingVars => RoutingInv'
  <1> SUFFICES ASSUME RoutingInv, [RoutingNext \/ ViewNext]_routingVars
               PROVE  RoutingInv'
    OBVIOUS
  <1>0. clock \in Nat /\ Called \subseteq Agents
    BY RelayRoutingAssumption DEF RoutingInv, RoutingTypes
  <1>1. CASE UNCHANGED routingVars
    BY <1>0, <1>1, AsideStep DEF routingVars
  <1>2. CASE Tick
    <2>1. /\ clock' \in Nat
          /\ UNCHANGED <<registry, actual, cache, pool, open, calls, spent>>
      BY <1>0, <1>2 DEF Tick
    <2> QED BY <2>1, AsideStep
  <1>3. CASE ViewAlone
    BY <1>0, <1>3, ViewAside, AsideStep
  <1>4. CASE \/ \E a \in Agents : AgentMoves(a) \/ RegisterAgent(a)
             \/ \E r \in Relays : RelayMoves(r) \/ RegisterRelay(r)
    BY <1>4, WorldStep
  <1>5. CASE \E c \in Callers : CallStep(c)
    BY <1>5, ReadCacheStep, ReadPlacementStep, ReadRelaysStep, CacheStep, ClientStep,
       InvokeStep, DropStep DEF CallStep
  <1>6. CASE \E c \in Callers, a \in Agents : StartCall(c, a)
    BY <1>6, StartedCall DEF RoutingInv
  <1> QED BY <1>0, <1>1, <1>2, <1>3, <1>4, <1>5, <1>6 DEF RoutingNext, ViewNext, ViewAlone

\* It holds at first.
LEMMA RoutingStart == RoutingInit => RoutingInv
  <1> SUFFICES ASSUME RoutingInit PROVE RoutingInv
    OBVIOUS
  <1>1. PICK r \in Relays, f \in [Relays -> Addresses] :
          actual = [placements |-> [a \in Agents |-> r], relays |-> f]
    BY DEF RoutingInit
  <1>2. actual \in Placed /\ registry = actual
    BY <1>1 DEF RoutingInit, Placed
  <1>3. RoutingTypes
    BY <1>2, EntryFacts DEF RoutingInit, RoutingTypes, NoConnection
  <1>4. GoodCall(IdleCall)
    BY EntryFacts DEF GoodCall, IdleCall, Right, CallSteps
  <1>5. CallsInv
    BY <1>4, EntryFacts DEF RoutingInit, CallsInv
  <1>6. PoolInv
    BY DEF RoutingInit, PoolInv, NoConnection
  <1> QED BY <1>3, <1>5, <1>6 DEF RoutingInv

\* Calls that race to replace or drop a connection leak none: grpcPool.Client
\* and invalidate.
THEOREM ConnectionsKept == RoutingSpec => []NoLeakedConnection
  <1>1. RoutingInv => NoLeakedConnection
    BY DEF RoutingInv, PoolInv, NoLeakedConnection
  <1> QED BY <1>1, RoutingStart, RoutingStep, PTL DEF RoutingSpec

\* A call during which the registry is right and no answer is lost succeeds, is
\* too late, or has its connection closed by another: Service.call needs no
\* third attempt.
THEOREM CallsSucceed == RoutingSpec => []RightRegistrySuffices
  <1>1. RoutingInv => RightRegistrySuffices
    BY DEF RoutingInv, CallsInv, GoodCall, Right, RightRegistrySuffices
  <1> QED BY <1>1, RoutingStart, RoutingStep, PTL DEF RoutingSpec

-----------------------------------------------------------------------------
(* The connection view.  Every agent that is not shown is in the channel or *)
(* in the hands of a goroutine.                                            *)

Lookers == Goroutines(Cardinality(Agents))

Gone == {w \in 1..Workers : view.busy[w] = "gone"}

Views == [pc : {"idle", "lookup", "shown"}, jobs : Seq(Agents),
          busy : [1..Workers -> Agents \cup {None, "gone"}], done : Nat,
          shown : [Agents -> Relays \cup {None, "offline", "unavailable"}]]

LookupInv ==
    view.pc = "lookup" =>
        /\ \A a \in Agents : \/ view.shown[a] # None
                             \/ \E i \in 1..Len(view.jobs) : view.jobs[i] = a
                             \/ \E w \in 1..Workers : view.busy[w] = a
        /\ \A w \in (1..Workers) \ Lookers : view.busy[w] = None
        /\ Gone # {} => view.jobs = << >>
        /\ view.done = Cardinality(Gone)

ViewInv == view \in Views /\ LookupInv /\ ViewIsWhole

\* There are no more goroutines than agents or than the limit.
LEMMA LookerFacts ==
    /\ Cardinality(Agents) \in Nat /\ Workers \in Nat \ {0}
    /\ Lookers \subseteq 1..Workers
    /\ IsFiniteSet(1..Workers) /\ IsFiniteSet(Lookers)
    /\ Agents # {} => Lookers # {}
    /\ None \notin Agents /\ "gone" \notin Agents
  <1>1. /\ Workers \in Nat \ {0} /\ IsFiniteSet(Agents)
        /\ None \notin Agents /\ "gone" \notin Agents
    BY RelayRoutingAssumption
  <1>2. Cardinality(Agents) \in Nat /\ (Cardinality(Agents) = 0 <=> Agents = {})
    BY <1>1, FS_CardinalityType, FS_EmptySet
  <1>3. Lookers \subseteq 1..Workers /\ (Cardinality(Agents) # 0 => 1 \in Lookers)
    BY <1>1, <1>2 DEF Lookers, Goroutines
  <1>4. IsFiniteSet(1..Workers)
    BY <1>1, FS_Interval
  <1>5. IsFiniteSet(Lookers)
    BY <1>3, <1>4, FS_Subset
  <1> QED BY <1>1, <1>2, <1>3, <1>4, <1>5

\* The view between two requests.
LEMMA IdleViewFacts ==
    /\ IdleView \in Views /\ IdleView.pc = "idle" /\ IdleView.done = 0
    /\ \A w \in 1..Workers : IdleView.busy[w] = None
  BY DEF IdleView, Views

\* Every agent is in the channel when the goroutines start.
LEMMA StartViewStep ==
    ASSUME ViewInv, NEW order \in [1..Cardinality(Agents) -> Agents],
           \A i, j \in DOMAIN order : order[i] = order[j] => i = j, StartView(order)
    PROVE  ViewInv'
  <1> DEFINE n == Cardinality(Agents)
  <1>1. n \in Nat /\ IsFiniteSet(Agents) /\ IsFiniteSet(1..n) /\ Cardinality(1..n) = n
    <2>1. IsFiniteSet(Agents) /\ n \in Nat
      BY LookerFacts, RelayRoutingAssumption
    <2> HIDE DEF n
    <2> QED BY <2>1, FS_Interval
  <1>2. order \in Injection(1..n, Agents)
    BY DEF Injection, IsInjective
  <1>3. order \in Surjection(1..n, Agents)
    BY <1>1, <1>2, FS_Injection
  <1>4. \A a \in Agents : \E i \in 1..n : order[i] = a
    BY <1>3 DEF Surjection
  <1>5. order \in Seq(Agents) /\ Len(order) = n
    BY <1>1
  <1>6. view' = [IdleView EXCEPT !.pc = "lookup", !.jobs = order]
    BY DEF StartView, ViewStep
  <1> HIDE DEF n
  <1>7. /\ view' \in Views /\ view'.pc = "lookup" /\ view'.jobs = order
        /\ view'.done = 0 /\ \A w \in 1..Workers : view'.busy[w] = None
    BY <1>5, <1>6, IdleViewFacts DEF Views
  <1>8. Gone' = {}
    BY <1>7 DEF Gone, None
  <1>9. LookupInv'
    BY <1>4, <1>5, <1>7, <1>8, LookerFacts, FS_EmptySet DEF LookupInv
  <1> QED BY <1>7, <1>9 DEF ViewInv, ViewIsWhole

\* The head of the channel goes to the goroutine that takes it.
LEMMA TakeStep ==
    ASSUME ViewInv, NEW w \in Lookers, TakeLookup(w)
    PROVE  ViewInv'
  <1>1. /\ view \in Views /\ view.pc = "lookup" /\ view.busy[w] = None
        /\ view.jobs # << >> /\ view.jobs \in Seq(Agents) /\ w \in 1..Workers
        /\ view' = [view EXCEPT !.jobs = Tail(@), !.busy[w] = Head(view.jobs)]
    BY LookerFacts DEF TakeLookup, ViewStep, ViewInv, Views
  <1>2. Head(view.jobs) \in Agents /\ Tail(view.jobs) \in Seq(Agents)
    BY <1>1
  <1>3. ASSUME NEW i \in 1..Len(view.jobs)
        PROVE  \/ view.jobs[i] = Head(view.jobs)
               \/ \E j \in 1..Len(Tail(view.jobs)) : Tail(view.jobs)[j] = view.jobs[i]
    <2>1. CASE i = 1
      BY <1>1, <2>1
    <2>2. CASE i # 1
      <3>1. i - 1 \in 1..Len(Tail(view.jobs)) /\ Tail(view.jobs)[i - 1] = view.jobs[i]
        BY <1>1, <2>2
      <3> QED BY <3>1
    <2> QED BY <2>1, <2>2
  <1>4. /\ view' \in Views /\ view'.pc = "lookup" /\ view'.jobs = Tail(view.jobs)
        /\ view'.done = view.done /\ view'.shown = view.shown
        /\ view'.busy = [view.busy EXCEPT ![w] = Head(view.jobs)]
    BY <1>1, <1>2 DEF Views
  <1>5. view.busy \in [1..Workers -> Agents \cup {None, "gone"}]
    BY <1>1 DEF Views
  <1>6. \A v \in 1..Workers :
          view'.busy[v] = IF v = w THEN Head(view.jobs) ELSE view.busy[v]
    BY <1>4, <1>5
  <1>7. Head(view.jobs) # "gone" /\ view.busy[w] # "gone"
    BY <1>1, <1>2, LookerFacts DEF None
  <1>8. Gone' = Gone
    BY <1>6, <1>7 DEF Gone
  <1>9. Gone = {}
    BY <1>1 DEF ViewInv, LookupInv
  <1>10. \A a \in Agents : \/ view'.shown[a] # None
                           \/ \E i \in 1..Len(view'.jobs) : view'.jobs[i] = a
                           \/ \E v \in 1..Workers : view'.busy[v] = a
    <2> SUFFICES ASSUME NEW a \in Agents
                 PROVE  \/ view'.shown[a] # None
                        \/ \E i \in 1..Len(view'.jobs) : view'.jobs[i] = a
                        \/ \E v \in 1..Workers : view'.busy[v] = a
      OBVIOUS
    <2>1. CASE view.shown[a] # None
      BY <1>4, <2>1
    <2>2. CASE \E i \in 1..Len(view.jobs) : view.jobs[i] = a
      BY <1>1, <1>3, <1>4, <1>6, <2>2
    <2>3. CASE \E v \in 1..Workers : view.busy[v] = a
      BY <1>1, <1>6, <2>3, LookerFacts
    <2> QED BY <1>1, <2>1, <2>2, <2>3 DEF ViewInv, LookupInv
  <1>11. LookupInv'
    BY <1>1, <1>4, <1>6, <1>8, <1>9, <1>10 DEF ViewInv, LookupInv, Lookers
  <1> QED BY <1>4, <1>11 DEF ViewInv, ViewIsWhole

\* A lookup that answers or fails shows its agent.
LEMMA FinishStep ==
    ASSUME RoutingInv, ViewInv, NEW w \in Lookers, FinishLookup(w)
    PROVE  ViewInv'
  <1> DEFINE b == view.busy[w]
             r == registry.placements[b]
  <1>1. /\ view \in Views /\ view.pc = "lookup" /\ b \in Agents /\ w \in 1..Workers
    BY LookerFacts DEF FinishLookup, ViewInv
  <1>2. PICK x \in {IF r = None THEN "offline" ELSE r, "unavailable"} :
          view' = [view EXCEPT !.busy[w] = None, !.shown[b] = x]
    BY DEF FinishLookup, ViewStep
  <1>3. r \in Relays \cup {None}
    BY <1>1 DEF RoutingInv, RoutingTypes, Placed
  <1>4. x \in Relays \cup {"offline", "unavailable"} /\ x # None
    BY <1>2, <1>3 DEF None
  <1>5. /\ view.busy \in [1..Workers -> Agents \cup {None, "gone"}]
        /\ view.shown \in [Agents -> Relays \cup {None, "offline", "unavailable"}]
    BY <1>1 DEF Views
  <1>a. b = view.busy[w]
    OBVIOUS
  <1> HIDE DEF b, r
  <1>6. /\ view' \in Views /\ view'.pc = "lookup" /\ view'.jobs = view.jobs
        /\ view'.done = view.done /\ view'.shown = [view.shown EXCEPT ![b] = x]
        /\ view'.busy = [view.busy EXCEPT ![w] = None]
    BY <1>1, <1>2, <1>4 DEF Views
  <1>7. \A v \in 1..Workers : view'.busy[v] = IF v = w THEN None ELSE view.busy[v]
    BY <1>5, <1>6
  <1>8. \A a \in Agents : view'.shown[a] = IF a = b THEN x ELSE view.shown[a]
    BY <1>5, <1>6
  <1>9. Gone' = Gone
    BY <1>1, <1>7, <1>a, LookerFacts DEF Gone, None
  <1>10. LookupInv'
    BY <1>1, <1>4, <1>6, <1>7, <1>8, <1>9, <1>a DEF ViewInv, LookupInv, Lookers
  <1> QED BY <1>6, <1>10 DEF ViewInv, ViewIsWhole

\* A goroutine that finds the channel empty is gone, and counts once.
LEMMA DoneStep ==
    ASSUME ViewInv, NEW w \in Lookers, SignalDone(w)
    PROVE  ViewInv'
  <1>1. /\ view \in Views /\ view.pc = "lookup" /\ view.busy[w] = None
        /\ view.jobs = << >> /\ w \in 1..Workers
        /\ view' = [view EXCEPT !.busy[w] = "gone", !.done = @ + 1]
    BY LookerFacts DEF SignalDone, ViewStep, ViewInv
  <1>2. view.busy \in [1..Workers -> Agents \cup {None, "gone"}] /\ view.done \in Nat
    BY <1>1 DEF Views
  <1>3. /\ view' \in Views /\ view'.pc = "lookup" /\ view'.jobs = view.jobs
        /\ view'.done = view.done + 1 /\ view'.shown = view.shown
        /\ view'.busy = [view.busy EXCEPT ![w] = "gone"]
    <2>1. /\ view.done + 1 \in Nat
          /\ [view.busy EXCEPT ![w] = "gone"]
                \in [1..Workers -> Agents \cup {None, "gone"}]
      BY <1>1, <1>2
    <2> QED BY <1>1, <2>1 DEF Views
  <1>4. \A v \in 1..Workers : view'.busy[v] = IF v = w THEN "gone" ELSE view.busy[v]
    BY <1>2, <1>3
  <1>5. Gone' = Gone \cup {w} /\ w \notin Gone
    BY <1>1, <1>4 DEF Gone, None
  <1>6. Gone \subseteq 1..Workers /\ IsFiniteSet(1..Workers)
    BY LookerFacts DEF Gone
  <1>7. IsFiniteSet(Gone)
    BY <1>6, FS_Subset
  <1>8. Cardinality(Gone') = Cardinality(Gone) + 1
    BY <1>5, <1>7, FS_AddElement
  <1>9. view'.done = Cardinality(Gone')
    BY <1>1, <1>3, <1>8 DEF ViewInv, LookupInv
  <1>10. \A a \in Agents : view'.shown[a] # None \/ \E v \in 1..Workers : view'.busy[v] = a
    BY <1>1, <1>3, <1>4, LookerFacts DEF ViewInv, LookupInv
  <1>11. LookupInv'
    BY <1>1, <1>3, <1>4, <1>9, <1>10 DEF ViewInv, LookupInv, Lookers
  <1> QED BY <1>3, <1>11 DEF ViewInv, ViewIsWhole

\* When every goroutine is gone the view is whole.
LEMMA ShowStep ==
    ASSUME ViewInv, ShowView(Cardinality(Agents))
    PROVE  ViewInv'
  <1>1. /\ view \in Views /\ view.pc = "lookup" /\ view.done = Cardinality(Lookers)
        /\ view' = [view EXCEPT !.pc = "shown"]
    BY DEF ShowView, ViewStep, ViewInv, Lookers
  <1>2. /\ view' \in Views /\ view'.pc = "shown" /\ view'.shown = view.shown
        /\ view'.busy = view.busy
    BY <1>1 DEF Views
  <1>3. Gone \subseteq Lookers
    BY <1>1 DEF ViewInv, LookupInv, Gone, None
  <1>4. Gone = Lookers
    BY <1>1, <1>3, LookerFacts, FS_Subset DEF ViewInv, LookupInv
  <1>5. \A w \in 1..Workers : view.busy[w] \in {None, "gone"}
    BY <1>1, <1>4 DEF ViewInv, LookupInv, Gone
  <1>6. \A w \in 1..Workers : view.busy[w] \notin Agents
    BY <1>5, LookerFacts
  <1>7. Agents # {} => view.jobs = << >>
    BY <1>1, <1>4, LookerFacts DEF ViewInv, LookupInv
  <1>8. \A a \in Agents : view.shown[a] # None
    BY <1>1, <1>6, <1>7 DEF ViewInv, LookupInv
  <1> QED BY <1>2, <1>6, <1>8 DEF ViewInv, ViewIsWhole, LookupInv

\* Every step keeps the invariant of the view.
LEMMA ViewSteps ==
    RoutingInv /\ ViewInv /\ [RoutingNext \/ ViewNext]_routingVars => ViewInv'
  <1> SUFFICES ASSUME RoutingInv, ViewInv, [RoutingNext \/ ViewNext]_routingVars
               PROVE  ViewInv'
    OBVIOUS
  <1>1. CASE UNCHANGED view
    BY <1>1 DEF ViewInv, LookupInv, ViewIsWhole, Gone
  <1>2. CASE ViewAlone
    <2>1. CASE EndView
      <3>1. view' = IdleView
        BY <2>1 DEF EndView, ViewStep
      <3> QED BY <3>1, IdleViewFacts DEF ViewInv, LookupInv, ViewIsWhole
    <2> QED BY <1>2, <2>1, StartViewStep, TakeStep, FinishStep, DoneStep, ShowStep
            DEF ViewAlone, Lookers
  <1>3. UNCHANGED view \/ ViewAlone
    <2>1. RoutingNext => UNCHANGED view
      BY DEF RoutingNext, AgentMoves, RelayMoves, Move, RegisterAgent, RegisterRelay,
             Tick, CallStep, StartCall, ReadCache, ReadPlacement, ReadRelays,
             StoreCache, Client, Invoke, Forget, DropConnection, Step
    <2>2. ViewNext => UNCHANGED view \/ ViewAlone
      BY DEF ViewNext, ViewAlone, AgentMoves, Move, RegisterAgent
    <2> QED BY <2>1, <2>2 DEF routingVars
  <1> QED BY <1>1, <1>2, <1>3

\* The view is composed when every agent has been looked up and no goroutine is
\* still going to write: lookupPlacements waits for all of them.
THEOREM ViewsAreWhole == RoutingSpec => []ViewIsWhole
  <1>1. RoutingInit => ViewInv
    BY IdleViewFacts DEF RoutingInit, ViewInv, LookupInv, ViewIsWhole
  <1>2. ViewInv => ViewIsWhole
    BY DEF ViewInv
  <1> QED BY <1>1, <1>2, RoutingStart, RoutingStep, ViewSteps, PTL DEF RoutingSpec

-----------------------------------------------------------------------------
(* The import of missions.                                                 *)

ImportSpec == ImportInit /\ [][ImportNext]_importVars

Stored(r) == [key |-> r.key, req |-> r, items |-> Items(r.source)]

Missions == {Stored(r) : r \in Requests}

\* The request was parsed, and validated against the volumes of its version.
Validated(r) == ValidAgainst(volumesOf[r.intent][r.version], Items(r.source))

\* A handler past the key has a request that parses; it is about to store one
\* that was validated; it answers with a mission of the request it was asked.
GoodImporter(c) ==
    /\ DOMAIN c = {"pc", "req", "status", "answer"}
    /\ c.pc # "idle" => c.req \in Requests
    /\ c.pc \notin {"idle", "answered"} => Parses(c.req.source)
    /\ c.pc = "create" => Validated(c.req)
    /\ c.pc = "answered" => c.answer \in 1..Len(missions) /\ missions[c.answer].req = c.req

ImportInv ==
    /\ missions \in Seq(Missions)
    /\ \A j, k \in 1..Len(missions) : missions[j].key = missions[k].key => j = k
    /\ \A k \in 1..Len(missions) :
          Parses(missions[k].req.source) /\ Validated(missions[k].req)
    /\ importer = [h \in Importers |-> importer[h]]
    /\ \A h \in Importers : GoodImporter(importer[h])

\* A step of one handler that stores nothing.
LEMMA OneImporter ==
    ASSUME ImportInv, NEW h \in Importers, NEW new, GoodImporter(new),
           importer' = [importer EXCEPT ![h] = new], UNCHANGED <<missions, volumesOf>>
    PROVE  ImportInv'
  <1>1. \A c : GoodImporter(c) => GoodImporter(c)'
    BY DEF GoodImporter, Validated
  <1>2. /\ importer' = [g \in Importers |-> importer'[g]]
        /\ \A g \in Importers : importer'[g] = IF g = h THEN new ELSE importer[g]
    BY DEF ImportInv
  <1>3. \A g \in Importers : GoodImporter(importer[g])'
    BY <1>1, <1>2 DEF ImportInv
  <1>4. \A k \in 1..Len(missions) : Validated(missions[k].req)'
    BY DEF ImportInv, Validated
  <1> QED BY <1>2, <1>3, <1>4 DEF ImportInv

\* An idle handler, and one that moves on with its request.
LEMMA MovedOn ==
    ASSUME NEW c, GoodImporter(c), NEW p \in {"flight", "intent", "latest", "validate"},
           c.pc \notin {"idle", "answered"}, NEW s
    PROVE  /\ GoodImporter(IdleImporter)
           /\ GoodImporter([c EXCEPT !.pc = p])
           /\ GoodImporter([c EXCEPT !.pc = p, !.status = s])
  BY DEF GoodImporter, IdleImporter

\* A known key answers with the mission of the same request, or not at all.
LEMMA KnownKey ==
    ASSUME ImportInv, NEW req \in Requests
    PROVE  GoodImporter(Known(req))
  <1>1. CASE \E k \in WithKey(req.key) : missions[k].req = req
    <2>1. PICK k \in WithKey(req.key) : missions[k].req = req
      BY <1>1
    <2>2. (CHOOSE j \in WithKey(req.key) : TRUE) = k /\ k \in 1..Len(missions)
      BY <2>1 DEF WithKey, ImportInv
    <2>3. Known(req) = [IdleImporter EXCEPT !.pc = "answered", !.req = req, !.answer = k]
      BY <1>1, <2>2 DEF Known, AnswerFor
    <2> QED BY <2>1, <2>2, <2>3 DEF GoodImporter, IdleImporter
  <1>2. CASE ~\E k \in WithKey(req.key) : missions[k].req = req
    BY <1>2 DEF Known, GoodImporter, IdleImporter
  <1> QED BY <1>1, <1>2

\* A request arrives: its key is known, or it parses, or it is refused.
LEMMA BeginStep ==
    ASSUME ImportInv, NEW h \in Importers, NEW req \in Requests, BeginImport(h, req),
           UNCHANGED volumesOf
    PROVE  ImportInv'
  <1>1. PICK new : /\ importer' = [importer EXCEPT ![h] = new]
                   /\ \/ new = Known(req) \/ new = IdleImporter
                      \/ /\ new = [IdleImporter EXCEPT !.pc = "flight", !.req = req]
                         /\ Parses(req.source)
    BY DEF BeginImport
  <1>2. GoodImporter(new)
    <2>1. GoodImporter(Known(req))
      BY KnownKey
    <2>2. GoodImporter(IdleImporter)
      BY DEF GoodImporter, IdleImporter
    <2>3. Parses(req.source) =>
            GoodImporter([IdleImporter EXCEPT !.pc = "flight", !.req = req])
      BY DEF GoodImporter, IdleImporter
    <2> QED BY <1>1, <2>1, <2>2, <2>3
  <1> QED BY <1>1, <1>2, OneImporter DEF BeginImport

\* The reads and the validation.
LEMMA ReadStep ==
    ASSUME ImportInv, NEW h \in Importers, UNCHANGED volumesOf,
           \/ ReadFlight(h) \/ ReadIntentVersion(h) \/ ReadLatestVersion(h)
           \/ ValidateMission(h) \/ EndImport(h)
    PROVE  ImportInv'
  <1> DEFINE c == importer[h]
  <1>1. GoodImporter(c)
    BY DEF ImportInv
  <1>2. GoodImporter(IdleImporter)
    BY DEF GoodImporter, IdleImporter
  <1>3. PICK new : Import(h, new) /\ GoodImporter(new)
    <2>1. CASE ReadFlight(h)
      <3>1. c.pc = "flight"
        BY <2>1 DEF ReadFlight
      <3>2. GoodImporter([c EXCEPT !.pc = "intent"])
        BY <1>1, <3>1, MovedOn
      <3>3. Import(h, [c EXCEPT !.pc = "intent"]) \/ Import(h, IdleImporter)
        BY <2>1 DEF ReadFlight
      <3> QED BY <1>2, <3>2, <3>3
    <2>2. CASE ReadIntentVersion(h)
      <3> DEFINE s == plan[c.req.intent][c.req.version].status
      <3>1. c.pc = "intent" /\ Import(h, [c EXCEPT !.pc = "latest", !.status = s])
        BY <2>2 DEF ReadIntentVersion
      <3> HIDE DEF s
      <3>2. GoodImporter([c EXCEPT !.pc = "latest", !.status = s])
        BY <1>1, <3>1, MovedOn
      <3> QED BY <3>1, <3>2
    <2>3. CASE ReadLatestVersion(h)
      <3>1. c.pc = "latest"
        BY <2>3 DEF ReadLatestVersion
      <3>2. GoodImporter([c EXCEPT !.pc = "validate"])
        BY <1>1, <3>1, MovedOn
      <3>3. Import(h, [c EXCEPT !.pc = "validate"]) \/ Import(h, IdleImporter)
        BY <2>3 DEF ReadLatestVersion
      <3> QED BY <1>2, <3>2, <3>3
    <2>4. CASE ValidateMission(h)
      <3>1. c.pc = "validate"
        BY <2>4 DEF ValidateMission
      <3>2. Validated(c.req) => GoodImporter([c EXCEPT !.pc = "create"])
        <4> HIDE DEF c
        <4> QED BY <1>1, <3>1 DEF GoodImporter
      <3>3. \/ Validated(c.req) /\ Import(h, [c EXCEPT !.pc = "create"])
            \/ Import(h, IdleImporter)
        BY <2>4 DEF ValidateMission, Validated
      <3> QED BY <1>2, <3>2, <3>3
    <2>5. CASE EndImport(h)
      BY <1>2, <2>5 DEF EndImport
    <2> QED BY <2>1, <2>2, <2>3, <2>4, <2>5
  <1> QED BY <1>3, OneImporter DEF Import

\* The transaction.
LEMMA CreateStep ==
    ASSUME ImportInv, NEW h \in Importers, CreateMission(h), UNCHANGED volumesOf
    PROVE  ImportInv'
  <1> DEFINE c == importer[h]
             n == Len(missions) + 1
             new == Stored(c.req)
             done == [IdleImporter EXCEPT !.pc = "answered", !.req = c.req, !.answer = n]
  <1>1. /\ GoodImporter(c) /\ c.pc = "create" /\ c.req \in Requests
        /\ Parses(c.req.source) /\ Validated(c.req)
    BY DEF ImportInv, CreateMission, GoodImporter
  <1>2. CASE /\ importer' = [importer EXCEPT ![h] = Known(c.req)]
             /\ UNCHANGED missions
    BY <1>1, <1>2, KnownKey, OneImporter
  <1>3. CASE /\ importer' = [importer EXCEPT ![h] = IdleImporter]
             /\ UNCHANGED missions
    <2>1. GoodImporter(IdleImporter)
      BY DEF GoodImporter, IdleImporter
    <2> QED BY <1>3, <2>1, OneImporter
  <1>4. CASE /\ WithKey(c.req.key) = {} /\ missions' = Append(missions, new)
             /\ importer' = [importer EXCEPT ![h] = done]
    <2>1. new \in Missions /\ new.key = c.req.key /\ new.req = c.req
      BY <1>1 DEF Missions, Stored
    <2>a. /\ done.pc = "answered" /\ done.req = c.req /\ done.answer = n
          /\ DOMAIN done = {"pc", "req", "status", "answer"}
      BY DEF IdleImporter
    <2>b. \A k \in 1..Len(missions) : missions[k].key # c.req.key
      BY <1>4 DEF WithKey
    <2>c. importer' = [importer EXCEPT ![h] = done] /\ missions' = Append(missions, new)
      BY <1>4
    <2>d. n = Len(missions) + 1
      OBVIOUS
    <2>e. \A k \in 1..Len(missions) : Validated(missions[k].req)'
      <3>1. \A k \in 1..Len(missions) :
              missions'[k] = missions[k] /\ Validated(missions[k].req)
        BY <2>c DEF ImportInv
      <3> QED BY <3>1 DEF Validated
    <2>f. PICK req : req = c.req
      OBVIOUS
    <2>g. Validated(req)'
      BY <1>1, <2>f DEF Validated
    <2> HIDE DEF c, new, done, n
    <2>2. /\ missions \in Seq(Missions) /\ Len(missions) \in Nat
          /\ missions' \in Seq(Missions) /\ Len(missions') = n
          /\ missions'[n] = new
          /\ \A k \in 1..Len(missions) : missions'[k] = missions[k]
      BY <2>1, <2>c, <2>d DEF ImportInv
    <2>3. \A j, k \in 1..n : missions'[j].key = missions'[k].key => j = k
      BY <2>1, <2>2, <2>b, <2>d DEF ImportInv
    <2>4. \A k \in 1..n : k = n \/ k \in 1..Len(missions)
      BY <2>2, <2>d
    <2>5. \A k \in 1..n : Parses(missions'[k].req.source)
      BY <1>1, <2>1, <2>2, <2>4 DEF ImportInv
    <2>6. \A k \in 1..n : Validated(missions[k].req)'
      BY <2>1, <2>2, <2>4, <2>e, <2>f, <2>g DEF Validated
    <2>7. /\ importer' = [g \in Importers |-> importer'[g]]
          /\ \A g \in Importers : importer'[g] = IF g = h THEN done ELSE importer[g]
      BY <2>c DEF ImportInv
    <2>8. ASSUME NEW x, GoodImporter(x) PROVE GoodImporter(x)'
      BY <2>2, <2>8, <2>d DEF GoodImporter, Validated
    <2>9. ASSUME NEW x, x = done PROVE GoodImporter(x)'
      BY <1>1, <2>1, <2>2, <2>9, <2>a, <2>d DEF GoodImporter
    <2>10. \A g \in Importers : GoodImporter(importer[g])'
      BY <2>7, <2>8, <2>9 DEF ImportInv
    <2> QED BY <2>2, <2>3, <2>5, <2>6, <2>7, <2>10 DEF ImportInv
  <1>5. missions' = Append(missions, new) => Len(missions') = n
    BY DEF ImportInv
  <1>6. \/ importer' = [importer EXCEPT ![h] = Known(c.req)] /\ UNCHANGED missions
        \/ importer' = [importer EXCEPT ![h] = IdleImporter] /\ UNCHANGED missions
        \/ /\ WithKey(c.req.key) = {} /\ missions' = Append(missions, new)
           /\ importer' = [importer EXCEPT ![h] = [IdleImporter EXCEPT !.pc = "answered",
                             !.req = c.req, !.answer = Len(missions')]]
    BY DEF CreateMission, Stored
  <1> QED BY <1>2, <1>3, <1>4, <1>5, <1>6

\* Every step keeps the invariant.
LEMMA ImportSteps == ImportInv /\ [ImportNext]_importVars => ImportInv'
  <1> SUFFICES ASSUME ImportInv, [ImportNext]_importVars PROVE ImportInv'
    OBVIOUS
  <1>1. CASE UNCHANGED <<missions, importer, volumesOf>>
    BY <1>1 DEF ImportInv, GoodImporter, Validated
  <1>2. CASE \E h \in Importers : ImportStep(h) /\ UNCHANGED volumesOf
    BY <1>2, BeginStep, ReadStep, CreateStep DEF ImportStep
  <1>3. \/ UNCHANGED <<missions, importer, volumesOf>>
        \/ \E h \in Importers : ImportStep(h) /\ UNCHANGED volumesOf
    BY DEF ImportNext, AdvancePlan, FlightRecordNext, PlanFlight, StartFlight, importVars
  <1> QED BY <1>1, <1>2, <1>3

\* It holds at first.
LEMMA ImportStart == ImportInit => ImportInv
  BY DEF ImportInit, ImportInv, GoodImporter, IdleImporter

\* However imports race and are retried, a key names one mission, and nobody is
\* answered with the mission of another request: ImportMission and
\* CreateMissionForPlannedFlight.
THEOREM KeysNameRequests == ImportSpec => []KeyNamesOneRequest
  <1>1. ImportInv => KeyNamesOneRequest
    BY DEF ImportInv, GoodImporter, KeyNamesOneRequest
  <1> QED BY <1>1, ImportStart, ImportSteps, PTL DEF ImportSpec

\* What the aircraft reads back after an upload is what was stored, item by
\* item, whatever the altitudes of the source; and every item is between the
\* altitudes of the one volume the mission was validated against.
MissionReadsBack ==
    \A k \in 1..Len(missions) :
        LET items == missions[k].items IN
        /\ \A n \in 1..Len(items) : Onboard(items[n]) = items[n]
        /\ \E volume \in volumesOf[missions[k].req.intent][missions[k].req.version] :
              /\ volumesOf[missions[k].req.intent][missions[k].req.version] = {volume}
              /\ \A n \in 1..Len(items) : items[n].altitude \in volume.low..volume.high

\* An item of a source that parses survives the autopilot.
LEMMA ItemReadsBack ==
    ASSUME NEW source, Parses(source), NEW n \in 1..(Len(source) - 1),
           Len(source) \in Nat
    PROVE  Onboard(Items(source)[n]) = Items(source)[n]
  <1> DEFINE row == source[n + 1]
             p4 == IF row.command = Land THEN 1 ELSE 0
  <1>1. Items(source)[n] = Canonical(row)
    BY DEF Items
  <1>2. n + 1 \in 1..Len(source) /\ (n + 1) - 1 = n /\ n > 0
    OBVIOUS
  <1>3. RowAccepted(row, n)
    BY <1>2 DEF Parses
  <1>4. Truncated(row.altitude) = row.altitude
    BY <1>2, <1>3 DEF RowAccepted, RoundTrips
  <1>a. (row.command = Land => p4 = 1) /\ row.command = Item(row, p4).command
    BY DEF Item
  <1> HIDE DEF row, p4
  <1>5. ASSUME NEW i, NEW q,
               i = [sequence |-> q, command |-> row.command, param4 |-> p4,
                    at |-> row.at, altitude |-> row.altitude]
        PROVE  Onboard(i) = i
    <2>1. DOMAIN Onboard(i) = DOMAIN i
      BY DEF Onboard
    <2>2. /\ Onboard(i).altitude = i.altitude /\ Onboard(i).param4 = i.param4
          /\ Onboard(i).sequence = i.sequence /\ Onboard(i).command = i.command
          /\ Onboard(i).at = i.at
      BY <1>4, <1>5, <1>a DEF Onboard
    <2> QED BY <1>5, <2>1, <2>2 DEF Onboard
  <1>6. Onboard(Item(row, p4)) = Item(row, p4)
    BY <1>5 DEF Item
  <1> QED BY <1>1, <1>6 DEF Canonical, p4

\* missionAltitudeCMRoundTrips and the canonical LAND make the digest computed at
\* import one that the readback can match.
THEOREM MissionsReadBack == ImportSpec => []MissionReadsBack
  <1>1. ASSUME ImportInv, NEW k \in 1..Len(missions)
        PROVE  LET items == missions[k].items
                   volumes == volumesOf[missions[k].req.intent][missions[k].req.version]
               IN  /\ \A n \in 1..Len(items) : Onboard(items[n]) = items[n]
                   /\ \E volume \in volumes :
                        /\ volumes = {volume}
                        /\ \A n \in 1..Len(items) :
                              items[n].altitude \in volume.low..volume.high
    <2>1. PICK r \in Requests : missions[k] = Stored(r)
      BY <1>1 DEF ImportInv, Missions
    <2>2. missions[k].req = r /\ missions[k].items = Items(r.source)
      BY <2>1 DEF Stored
    <2>3. Parses(r.source) /\ Validated(r)
      BY <1>1, <2>2 DEF ImportInv
    <2>4. Len(r.source) \in Nat
      <3>1. r.source \in Seq(WPLRow)
        BY MissionImportAssumption
      <3> QED BY <3>1
    <2>5. Len(Items(r.source)) = Len(r.source) - 1
      BY <2>3, <2>4 DEF Items, Parses
    <2>6. \A n \in 1..Len(Items(r.source)) : Onboard(Items(r.source)[n]) = Items(r.source)[n]
      BY <2>3, <2>4, <2>5, ItemReadsBack
    <2>7. PICK volume \in volumesOf[r.intent][r.version] :
            /\ volumesOf[r.intent][r.version] = {volume}
            /\ \A n \in 1..Len(Items(r.source)) :
                  Items(r.source)[n].altitude \in volume.low..volume.high
      BY <2>3 DEF Validated, ValidAgainst
    <2> QED BY <2>2, <2>6, <2>7
  <1>2. ImportInv => MissionReadsBack
    BY <1>1 DEF MissionReadsBack
  <1> QED BY <1>2, ImportStart, ImportSteps, PTL DEF ImportSpec

-----------------------------------------------------------------------------
(* The conformance service.  When samples are handled one at a time, what   *)
(* the handler read is still so when it writes.  The plan, the volumes and  *)
(* the missions may change at any time.                                    *)

ConformanceSpec == ConformanceInit /\ [][ConformanceNext]_conformanceVars

SummaryFields == {"status", "alerts", "report"}

\* What a handler knows.
GoodEvaluator(c) ==
    /\ DOMAIN c = {"pc", "sample", "of", "inside", "known", "old", "alerts"}
    /\ DOMAIN c.old = SummaryFields /\ c.inside \in BOOLEAN /\ c.known \in BOOLEAN
    /\ c.pc # "idle" => c.of \in Scope /\ c.sample \in Samples
    /\ ~overlapping /\ c.pc \in {"event", "count", "upsert"} => c.old = summaries[c.of]
    /\ ~overlapping /\ c.pc = "upsert" /\ c.known => c.alerts = AlertCount(c.of)

SummaryInv ==
    /\ overlapping \in BOOLEAN
    /\ summaries = [x \in Scope |-> summaries[x]]
    /\ \A x \in Scope : DOMAIN summaries[x] = SummaryFields
    /\ evaluator = [e \in Evaluators |-> evaluator[e]]
    /\ \A e \in Evaluators : GoodEvaluator(evaluator[e])
    /\ ~overlapping => \A d, e \in Evaluators :
          evaluator[d].pc # "idle" /\ evaluator[e].pc # "idle" => d = e

\* A step of one handler that writes neither an event nor a summary.
LEMMA OneEvaluator ==
    ASSUME SummaryInv, NEW e \in Evaluators, NEW new, GoodEvaluator(new),
           evaluator' = [evaluator EXCEPT ![e] = new],
           UNCHANGED <<events, summaries, overlapping>>,
           \/ new.pc = "idle" \/ evaluator[e].pc # "idle"
           \/ ~overlapping => \A d \in Evaluators : evaluator[d].pc = "idle"
    PROVE  SummaryInv'
  <1>1. \A c : GoodEvaluator(c) => GoodEvaluator(c)'
    BY DEF GoodEvaluator, AlertCount, EventsOf
  <1>2. /\ evaluator' = [d \in Evaluators |-> evaluator'[d]]
        /\ \A d \in Evaluators : evaluator'[d] = IF d = e THEN new ELSE evaluator[d]
    BY DEF SummaryInv
  <1>3. \A d \in Evaluators : GoodEvaluator(evaluator[d])'
    BY <1>1, <1>2 DEF SummaryInv
  <1>4. ~overlapping => \A c, d \in Evaluators :
          evaluator'[c].pc # "idle" /\ evaluator'[d].pc # "idle" => c = d
    BY <1>2 DEF SummaryInv
  <1> QED BY <1>2, <1>3, <1>4 DEF SummaryInv

\* The handler that writes, when samples are handled one at a time, is alone.
LEMMA OneWriter ==
    ASSUME SummaryInv, NEW e \in Evaluators, evaluator[e].pc # "idle",
           NEW new, evaluator' = [evaluator EXCEPT ![e] = new],
           new.pc # "idle", UNCHANGED overlapping,
           GoodEvaluator(new)',
           \A d \in Evaluators : DOMAIN evaluator[d].old = SummaryFields,
           summaries' = [x \in Scope |-> summaries'[x]],
           \A x \in Scope : DOMAIN summaries'[x] = SummaryFields
    PROVE  SummaryInv'
  <1>1. ASSUME NEW c, GoodEvaluator(c), overlapping \/ c.pc = "idle"
        PROVE  GoodEvaluator(c)'
    BY <1>1 DEF GoodEvaluator
  <1>2. /\ evaluator' = [d \in Evaluators |-> evaluator'[d]]
        /\ \A d \in Evaluators : evaluator'[d] = IF d = e THEN new ELSE evaluator[d]
    BY DEF SummaryInv
  <1>3. \A d \in Evaluators : d = e \/ overlapping \/ evaluator[d].pc = "idle"
    BY DEF SummaryInv
  <1>a. ASSUME NEW d \in Evaluators PROVE GoodEvaluator(evaluator[d])'
    <2>1. PICK c : c = evaluator'[d]
      OBVIOUS
    <2>2. GoodEvaluator(c)'
      BY <1>1, <1>2, <1>3, <2>1 DEF SummaryInv
    <2> QED BY <2>1, <2>2 DEF GoodEvaluator
  <1>4. ~overlapping => \A c, d \in Evaluators :
          evaluator'[c].pc # "idle" /\ evaluator'[d].pc # "idle" => c = d
    BY <1>2 DEF SummaryInv
  <1> QED BY <1>2, <1>4, <1>a DEF SummaryInv

\* An idle handler.
LEMMA IdleIsGood == GoodEvaluator(IdleEvaluator) /\ IdleEvaluator.pc = "idle"
  BY DEF GoodEvaluator, IdleEvaluator, NoSummary, SummaryFields

\* A sample arrives, an evaluation ends or fails.
LEMMA OuterStep ==
    ASSUME SummaryInv, NEW e \in Evaluators,
           \/ \E s \in Samples : BeginEvaluation(e, s)
           \/ EndEvaluation(e) \/ FailEvaluation(e)
    PROVE  SummaryInv'
  <1>1. CASE \E s \in Samples : BeginEvaluation(e, s)
    <2>1. PICK s \in Samples : BeginEvaluation(e, s)
      BY <1>1
    <2> DEFINE active == {x \in Scope : Resolves(s, x)}
               y == CHOOSE x \in active : TRUE
               m == [IdleEvaluator EXCEPT !.pc = "volumes", !.sample = s, !.of = y]
    <2>2. /\ UNCHANGED <<events, summaries, overlapping>>
          /\ ~overlapping => \A d \in Evaluators : evaluator[d].pc = "idle"
          /\ evaluator' = [evaluator EXCEPT ![e] =
               IF active = {} THEN IdleEvaluator ELSE m]
      BY <2>1 DEF BeginEvaluation
    <2>3. CASE active = {}
      BY <2>2, <2>3, IdleIsGood, OneEvaluator
    <2>4. CASE active # {}
      <3>1. y \in Scope
        BY <2>4
      <3> HIDE DEF active, y
      <3>2. GoodEvaluator(m)
        BY <3>1 DEF GoodEvaluator, IdleEvaluator, NoSummary, SummaryFields
      <3> HIDE DEF m
      <3> QED BY <2>2, <2>4, <3>2, OneEvaluator
    <2> QED BY <2>3, <2>4
  <1>2. CASE EndEvaluation(e) \/ FailEvaluation(e)
    <2>1. /\ evaluator' = [evaluator EXCEPT ![e] = IdleEvaluator]
          /\ UNCHANGED <<events, summaries, overlapping>>
      BY <1>2 DEF EndEvaluation, FailEvaluation, Evaluate
    <2> QED BY <2>1, IdleIsGood, OneEvaluator
  <1> QED BY <1>1, <1>2

\* The reads.
LEMMA ReadsStep ==
    ASSUME SummaryInv, NEW e \in Evaluators,
           ReadVolumes(e) \/ ReadExisting(e) \/ CountAlerts(e)
    PROVE  SummaryInv'
  <1> DEFINE c == evaluator[e]
  <1>1. GoodEvaluator(c)
    BY DEF SummaryInv
  <1>2. CASE ReadVolumes(e)
    <2> DEFINE volumes == volumesOf[c.of[1]][c.of[2]]
               k == volumes # {}
               i == \E w \in volumes : SampleInside(c.sample, w)
               m == [c EXCEPT !.pc = "existing", !.known = k, !.inside = i]
    <2>1. /\ c.pc = "volumes" /\ evaluator' = [evaluator EXCEPT ![e] = m]
          /\ UNCHANGED <<events, summaries, overlapping>>
      BY <1>2 DEF ReadVolumes, Evaluate
    <2>2. k \in BOOLEAN /\ i \in BOOLEAN
      OBVIOUS
    <2>a. evaluator[e].pc # "idle"
      BY <2>1
    <2> HIDE DEF c, k, i
    <2>3. GoodEvaluator(m)
      BY <1>1, <2>1, <2>2 DEF GoodEvaluator
    <2> HIDE DEF m
    <2> QED BY <2>1, <2>3, <2>a, OneEvaluator
  <1>3. CASE ReadExisting(e)
    <2> DEFINE p == CASE ~c.known -> "upsert" [] c.known /\ c.inside -> "count"
                      [] OTHER -> "event"
               m == [c EXCEPT !.old = summaries[c.of], !.pc = p]
    <2>1. /\ c.pc = "existing" /\ evaluator' = [evaluator EXCEPT ![e] = m]
          /\ UNCHANGED <<events, summaries, overlapping>>
      BY <1>3 DEF ReadExisting, Evaluate
    <2>2. p \in {"upsert", "count", "event"} /\ (p = "upsert" => ~c.known)
      <3>1. c.known \in BOOLEAN /\ c.inside \in BOOLEAN
        BY <1>1 DEF GoodEvaluator
      <3> QED BY <3>1
    <2>3. DOMAIN summaries[c.of] = SummaryFields
      BY <1>1, <2>1 DEF GoodEvaluator, SummaryInv
    <2>a. evaluator[e].pc # "idle"
      BY <2>1
    <2> HIDE DEF c, p
    <2>4. GoodEvaluator(m)
      BY <1>1, <2>1, <2>2, <2>3 DEF GoodEvaluator
    <2> HIDE DEF m
    <2> QED BY <2>1, <2>4, <2>a, OneEvaluator
  <1>4. CASE CountAlerts(e)
    <2> DEFINE m == [c EXCEPT !.pc = "upsert", !.alerts = AlertCount(c.of)]
    <2>1. /\ c.pc = "count" /\ evaluator' = [evaluator EXCEPT ![e] = m]
          /\ UNCHANGED <<events, summaries, overlapping>>
      BY <1>4 DEF CountAlerts, Evaluate
    <2>a. evaluator[e].pc # "idle"
      BY <2>1
    <2> HIDE DEF c
    <2>2. GoodEvaluator(m)
      BY <1>1, <2>1 DEF GoodEvaluator
    <2> HIDE DEF m
    <2> QED BY <2>1, <2>2, <2>a, OneEvaluator
  <1> QED BY <1>2, <1>3, <1>4

\* The writes.
LEMMA WriteStep ==
    ASSUME SummaryInv, NEW e \in Evaluators, RecordEvent(e) \/ UpsertSummary(e)
    PROVE  SummaryInv'
  <1>1. PICK c : c = evaluator[e]
    OBVIOUS
  <1>2. GoodEvaluator(c) /\ \A d \in Evaluators : DOMAIN evaluator[d].old = SummaryFields
    BY <1>1 DEF SummaryInv, GoodEvaluator
  <1>3. CASE RecordEvent(e)
    <2>0. PICK m : m = [c EXCEPT !.pc = "count"]
      OBVIOUS
    <2>1. /\ c.pc = "event" /\ evaluator' = [evaluator EXCEPT ![e] = m]
          /\ UNCHANGED <<summaries, overlapping>>
      BY <1>1, <1>3, <2>0 DEF RecordEvent, Evaluate
    <2>2. GoodEvaluator(m)' /\ m.pc = "count"
      BY <1>2, <2>0, <2>1 DEF GoodEvaluator
    <2> QED BY <1>1, <1>2, <2>1, <2>2, OneWriter DEF SummaryInv
  <1>4. CASE UpsertSummary(e)
    <2>0. PICK m : m = [c EXCEPT !.pc = "answered"]
      OBVIOUS
    <2>1. /\ c.pc = "upsert" /\ evaluator' = [evaluator EXCEPT ![e] = m]
          /\ summaries' = [summaries EXCEPT ![c.of] = NewSummary(c)]
          /\ UNCHANGED <<events, overlapping>>
      BY <1>1, <1>4, <2>0 DEF UpsertSummary, Evaluate
    <2>2. GoodEvaluator(m)' /\ m.pc = "answered"
      BY <1>2, <2>0, <2>1 DEF GoodEvaluator
    <2>3. DOMAIN NewSummary(c) = SummaryFields
      BY <1>2 DEF GoodEvaluator, NewSummary, SummaryFields
    <2>4. /\ summaries' = [x \in Scope |-> summaries'[x]]
          /\ \A x \in Scope : DOMAIN summaries'[x] = SummaryFields
      BY <1>2, <2>1, <2>3 DEF GoodEvaluator, SummaryInv
    <2> QED BY <1>1, <1>2, <2>1, <2>2, <2>4, OneWriter
  <1> QED BY <1>3, <1>4

\* Every step keeps the invariant.
LEMMA SummarySteps ==
    SummaryInv /\ [ConformanceNext]_conformanceVars => SummaryInv'
  <1> SUFFICES ASSUME SummaryInv, [ConformanceNext]_conformanceVars PROVE SummaryInv'
    OBVIOUS
  <1>1. CASE UNCHANGED conformanceVars
    <2>1. UNCHANGED <<events, summaries, evaluator, overlapping>>
      BY <1>1 DEF conformanceVars
    <2>2. \A c : GoodEvaluator(c) => GoodEvaluator(c)'
      BY <2>1 DEF GoodEvaluator, AlertCount, EventsOf
    <2>3. \A e \in Evaluators : GoodEvaluator(evaluator[e])'
      BY <2>1, <2>2 DEF SummaryInv
    <2> QED BY <2>1, <2>3 DEF SummaryInv
  <1>2. CASE ConformanceNext
    BY <1>2, OuterStep, ReadsStep, WriteStep DEF ConformanceNext
  <1> QED BY <1>1, <1>2

\* It holds at first.
LEMMA SummaryStart == ConformanceInit => SummaryInv
  <1> SUFFICES ASSUME ConformanceInit PROVE SummaryInv
    OBVIOUS
  <1>1. \A e \in Evaluators : evaluator[e] = IdleEvaluator
    BY DEF ConformanceInit
  <1>2. \A x \in Scope : DOMAIN summaries[x] = SummaryFields
    <2>1. DOMAIN NoSummary = SummaryFields
      BY DEF NoSummary, SummaryFields
    <2>2. \A x \in Scope : summaries[x] = NoSummary
      BY DEF ConformanceInit
    <2> QED BY <2>1, <2>2
  <1>3. \A e \in Evaluators : GoodEvaluator(evaluator[e]) /\ evaluator[e].pc = "idle"
    BY <1>1, IdleIsGood
  <1>4. /\ summaries = [x \in Scope |-> summaries[x]] /\ overlapping \in BOOLEAN
        /\ evaluator = [e \in Evaluators |-> evaluator[e]]
    BY DEF ConformanceInit
  <1> QED BY <1>2, <1>3, <1>4 DEF SummaryInv

\* The summary that is written carries the old report on, and the count.
LEMMA WrittenSummary ==
    ASSUME SummaryInv, ~overlapping, NEW e \in Evaluators, UpsertSummary(e)
    PROVE  LET x == evaluator[e].of IN
           /\ x \in Scope
           /\ \A y \in Scope : y # x => summaries'[y] = summaries[y]
           /\ summaries[x].report = "review" => summaries'[x].report = "review"
           /\ evaluator[e].known =>
                 /\ summaries'[x].alerts = Cardinality(EventsOf(x))
                 /\ ~evaluator[e].inside => summaries'[x].report = "review"
           /\ \A d \in Evaluators : d # e => evaluator'[d] = evaluator[d]
  <1> DEFINE c == evaluator[e]
  <1>1. /\ GoodEvaluator(c) /\ c.pc = "upsert"
        /\ summaries' = [summaries EXCEPT ![c.of] = NewSummary(c)]
    BY DEF SummaryInv, UpsertSummary
  <1>2. /\ c.of \in Scope /\ c.old = summaries[c.of] /\ DOMAIN c.old = SummaryFields
        /\ c.known => c.alerts = Cardinality(EventsOf(c.of))
        /\ c.known \in BOOLEAN /\ c.inside \in BOOLEAN
    BY <1>1 DEF GoodEvaluator, AlertCount
  <1>a. \A d \in Evaluators : d # e => evaluator'[d] = evaluator[d]
    BY DEF UpsertSummary, Evaluate, SummaryInv
  <1> HIDE DEF c
  <1>3. /\ summaries'[c.of] = NewSummary(c)
        /\ \A y \in Scope : y # c.of => summaries'[y] = summaries[y]
    BY <1>1, <1>2 DEF SummaryInv
  <1>4. /\ c.old.report = "review" => NewSummary(c).report = "review"
        /\ c.known => /\ NewSummary(c).alerts = c.alerts
                      /\ ~c.inside => NewSummary(c).report = "review"
    BY <1>2 DEF NewSummary, SummaryFields
  <1> QED BY <1>2, <1>3, <1>4, <1>a DEF c

\* A report under review is never withdrawn by a later sample, and an evaluation
\* that ends well leaves a summary that counts each exit once, when samples are
\* handled one at a time: EvaluateTelemetry.
THEOREM SummariesNeverForget == ConformanceSpec => SummaryNeverForgets
  <1> DEFINE Keeps ==
               ~overlapping =>
                 /\ \A x \in Scope :
                       summaries[x].report = "review" => summaries'[x].report = "review"
                 /\ \A e \in Evaluators :
                       LET x == evaluator[e].of IN
                       evaluator[e].pc = "upsert" /\ evaluator[e].known
                       /\ evaluator'[e].pc = "answered" =>
                           /\ summaries'[x].alerts = Cardinality(EventsOf(x))
                           /\ ~evaluator[e].inside => summaries'[x].report = "review"
  <1>1. ASSUME SummaryInv, [ConformanceNext]_conformanceVars, ~overlapping
        PROVE  Keeps
    <2>1. CASE \E e \in Evaluators : UpsertSummary(e)
      <3>1. PICK e \in Evaluators : UpsertSummary(e)
        BY <2>1
      <3>2. \A d \in Evaluators : d # e => evaluator'[d] = evaluator[d]
        BY <1>1, <3>1, WrittenSummary
      <3>3. \A d \in Evaluators :
              evaluator[d].pc = "upsert" /\ evaluator'[d].pc = "answered" => d = e
        BY <3>2
      <3> QED BY <1>1, <3>1, <3>3, WrittenSummary
    <2>2. CASE ~\E e \in Evaluators : UpsertSummary(e)
      <3>1. summaries' = summaries
        BY <1>1, <2>2 DEF ConformanceNext, BeginEvaluation, ReadVolumes, ReadExisting,
             RecordEvent, CountAlerts, EndEvaluation, FailEvaluation, conformanceVars
      <3>2. ASSUME NEW e \in Evaluators, evaluator[e].pc = "upsert"
            PROVE  evaluator'[e].pc # "answered"
        <4>1. CASE UNCHANGED evaluator
          BY <3>2, <4>1
        <4>2. CASE ConformanceNext
          <5>1. PICK d \in Evaluators :
                  \/ \E s \in Samples : BeginEvaluation(d, s)
                  \/ ReadVolumes(d) \/ ReadExisting(d) \/ RecordEvent(d)
                  \/ CountAlerts(d) \/ EndEvaluation(d) \/ FailEvaluation(d)
            BY <2>2, <4>2 DEF ConformanceNext
          <5>2. CASE d = e
            <6>1. evaluator' = [evaluator EXCEPT ![e] = IdleEvaluator]
              BY <3>2, <5>1, <5>2 DEF BeginEvaluation, ReadVolumes, ReadExisting,
                   RecordEvent, CountAlerts, EndEvaluation, FailEvaluation
            <6> QED BY <1>1, <6>1, IdleIsGood DEF SummaryInv
          <5>3. CASE d # e
            <6>1. evaluator'[e] = evaluator[e]
              BY <1>1, <5>1, <5>3 DEF SummaryInv, BeginEvaluation, ReadVolumes,
                   ReadExisting, RecordEvent, CountAlerts, EndEvaluation,
                   FailEvaluation, Evaluate
            <6> QED BY <3>2, <6>1
          <5> QED BY <5>2, <5>3
        <4> QED BY <1>1, <4>1, <4>2 DEF conformanceVars
      <3> QED BY <3>1, <3>2
    <2> QED BY <2>1, <2>2
  <1>2. SummaryInv /\ [ConformanceNext]_conformanceVars => [Keeps]_conformanceVars
    BY <1>1
  <1> QED BY <1>2, SummaryStart, SummarySteps, PTL DEF ConformanceSpec, SummaryNeverForgets

-----------------------------------------------------------------------------
(* Import and conformance.  A verdict is whether a volume holds the sample, *)
(* and a stored mission stays in a volume along its whole route.           *)

\* Import and conformance together: they write nothing of each other.
FlightStep ==
    \/ ImportNext /\ UNCHANGED conformanceVars
    \/ ConformanceNext /\ UNCHANGED importVars
FlightSpec ==
    ImportInit /\ ConformanceInit /\ [][FlightStep]_<<importVars, conformanceVars>>

VolumesAt(x) == volumesOf[x[1]][x[2]]

\* What a handler has found out of its sample.
Judged(c) ==
    /\ c.pc \in {"existing", "event", "count", "upsert", "answered"} =>
          /\ c.known <=> VolumesAt(c.of) # {}
          /\ c.inside <=> \E w \in VolumesAt(c.of) : SampleInside(c.sample, w)
    /\ c.pc = "event" => c.known /\ ~c.inside

\* Verdicts are those of the volumes, and so are the events.
VerdictInv ==
    /\ volumesOf \in VolumeChoices
    /\ \A e \in Evaluators : Judged(evaluator[e])
    /\ events \in [Ids -> Scope \cup {NoScope}]
    /\ \A s \in Samples : \A x \in Scope : events[s.id] = x =>
          \A w \in VolumesAt(x) : ~SampleInside(s, w)

\* It holds at first.
LEMMA VerdictStart == ImportInit /\ ConformanceInit => VerdictInv
  <1> SUFFICES ASSUME ImportInit, ConformanceInit PROVE VerdictInv OBVIOUS
  <1>1. \A e \in Evaluators : Judged(evaluator[e])
    <2>1. Judged(IdleEvaluator) BY DEF Judged, IdleEvaluator
    <2> QED BY <2>1 DEF ConformanceInit
  <1>2. volumesOf \in VolumeChoices BY DEF ImportInit
  <1>3. \A x \in Scope : x # NoScope BY DEF Scope, NoScope
  <1>4. \A s \in Samples : s.id \in Ids BY DEF Ids
  <1>5. events = [i \in Ids |-> NoScope] BY DEF ConformanceInit
  <1> QED BY <1>1, <1>2, <1>3, <1>4, <1>5 DEF VerdictInv

\* A handler that writes no event.
LEMMA OneVerdict ==
    ASSUME VerdictInv, SummaryInv, NEW e \in Evaluators, NEW new, Judged(new),
           evaluator' = [evaluator EXCEPT ![e] = new], UNCHANGED <<events, volumesOf>>
    PROVE  VerdictInv'
  <1>1. \A d \in Evaluators : evaluator'[d] = IF d = e THEN new ELSE evaluator[d]
    BY DEF SummaryInv
  <1>2. \A c : Judged(c) => Judged(c)' BY DEF Judged, VolumesAt
  <1>3. \A d \in Evaluators : Judged(evaluator[d])' BY <1>1, <1>2 DEF VerdictInv
  <1> QED BY <1>3 DEF VerdictInv, VolumesAt

\* Every step keeps the invariant.
LEMMA VerdictSteps ==
    VerdictInv /\ SummaryInv /\ [FlightStep]_<<importVars, conformanceVars>> => VerdictInv'
  <1> SUFFICES ASSUME VerdictInv, SummaryInv, [FlightStep]_<<importVars, conformanceVars>>
               PROVE  VerdictInv'
    OBVIOUS
  <1>1. CASE UNCHANGED <<events, evaluator, volumesOf>>
    <2>1. \A c : Judged(c) => Judged(c)' BY <1>1 DEF Judged, VolumesAt
    <2>2. \A d \in Evaluators : Judged(evaluator[d])' BY <1>1, <2>1 DEF VerdictInv
    <2> QED BY <1>1, <2>2 DEF VerdictInv, VolumesAt
  <1>2. ASSUME NEW e \in Evaluators, UNCHANGED volumesOf,
               (\E s \in Samples : BeginEvaluation(e, s)) \/ EndEvaluation(e) \/ FailEvaluation(e)
        PROVE  VerdictInv'
    <2>1. PICK new : /\ evaluator' = [evaluator EXCEPT ![e] = new]
                     /\ new.pc \in {"idle", "volumes"} /\ UNCHANGED events
      <3>1. IdleEvaluator.pc = "idle" BY IdleIsGood
      <3>2. \A s, y : [IdleEvaluator EXCEPT !.pc = "volumes", !.sample = s, !.of = y].pc = "volumes"
        BY DEF IdleEvaluator
      <3>3. CASE EndEvaluation(e) \/ FailEvaluation(e)
        <4>1. evaluator' = [evaluator EXCEPT ![e] = IdleEvaluator] /\ UNCHANGED events
          BY <3>3 DEF EndEvaluation, FailEvaluation, Evaluate
        <4> QED BY <3>1, <4>1
      <3>4. CASE \E s \in Samples : BeginEvaluation(e, s)
        <4>1. PICK s \in Samples : BeginEvaluation(e, s) BY <3>4
        <4> DEFINE active == {x \in Scope : Resolves(s, x)}
                   m == [IdleEvaluator EXCEPT !.pc = "volumes", !.sample = s,
                                              !.of = CHOOSE x \in active : TRUE]
        <4>2. /\ evaluator' = [evaluator EXCEPT ![e] = IF active = {} THEN IdleEvaluator ELSE m]
              /\ UNCHANGED events
          BY <4>1 DEF BeginEvaluation
        <4>3. m.pc = "volumes" BY <3>2
        <4> HIDE DEF active, m
        <4> QED BY <3>1, <4>2, <4>3
      <3> QED BY <1>2, <3>3, <3>4
    <2>2. Judged(new) BY <2>1 DEF Judged
    <2> QED BY <1>2, <2>1, <2>2, OneVerdict
  <1>3. ASSUME NEW e \in Evaluators, UNCHANGED volumesOf, ReadVolumes(e) PROVE VerdictInv'
    <2> DEFINE c == evaluator[e]
               k == VolumesAt(c.of) # {}
               i == \E w \in VolumesAt(c.of) : SampleInside(c.sample, w)
               m == [c EXCEPT !.pc = "existing", !.known = k, !.inside = i]
    <2>1. evaluator' = [evaluator EXCEPT ![e] = m] /\ UNCHANGED events
      BY <1>3 DEF ReadVolumes, Evaluate, VolumesAt
    <2>2. DOMAIN c = {"pc", "sample", "of", "inside", "known", "old", "alerts"}
      BY DEF SummaryInv, GoodEvaluator
    <2>3. k \in BOOLEAN /\ i \in BOOLEAN OBVIOUS
    <2>4. /\ m.pc = "existing" /\ m.known = k /\ m.inside = i
          /\ m.of = c.of /\ m.sample = c.sample
      <3> HIDE DEF c, k, i
      <3> QED BY <2>2
    <2>5. Judged(m)
      <3>1. m.known <=> VolumesAt(m.of) # {} BY <2>4
      <3>2. m.inside <=> \E w \in VolumesAt(m.of) : SampleInside(m.sample, w) BY <2>4
      <3> HIDE DEF m
      <3> QED BY <2>4, <3>1, <3>2 DEF Judged
    <2> HIDE DEF m
    <2> QED BY <1>3, <2>1, <2>5, OneVerdict
  <1>4. ASSUME NEW e \in Evaluators, UNCHANGED volumesOf,
               ReadExisting(e) \/ CountAlerts(e) \/ UpsertSummary(e)
        PROVE  VerdictInv'
    <2>1. PICK c : c = evaluator[e] OBVIOUS
    <2>2. /\ DOMAIN c = {"pc", "sample", "of", "inside", "known", "old", "alerts"}
          /\ c.known \in BOOLEAN /\ c.inside \in BOOLEAN /\ Judged(c)
      BY <2>1 DEF SummaryInv, GoodEvaluator, VerdictInv
    <2>3. PICK new : /\ evaluator' = [evaluator EXCEPT ![e] = new] /\ UNCHANGED events
                     /\ new.known = c.known /\ new.inside = c.inside
                     /\ new.of = c.of /\ new.sample = c.sample
                     /\ new.pc = "event" => c.known /\ ~c.inside
                     /\ c.pc \in {"existing", "count", "upsert"}
      <3>1. CASE ReadExisting(e)
        <4> DEFINE p == CASE ~c.known -> "upsert" [] c.known /\ c.inside -> "count"
                          [] OTHER -> "event"
                   m == [c EXCEPT !.old = summaries[c.of], !.pc = p]
        <4>1. c.pc = "existing" /\ evaluator' = [evaluator EXCEPT ![e] = m] /\ UNCHANGED events
          BY <2>1, <3>1 DEF ReadExisting, Evaluate
        <4>2. p = "event" => c.known /\ ~c.inside BY <2>2
        <4> HIDE DEF p
        <4>3. /\ m.known = c.known /\ m.inside = c.inside /\ m.of = c.of
              /\ m.sample = c.sample /\ m.pc = p
          BY <2>2
        <4> HIDE DEF m
        <4> QED BY <4>1, <4>2, <4>3
      <3>2. CASE CountAlerts(e)
        <4> DEFINE m == [c EXCEPT !.pc = "upsert", !.alerts = AlertCount(c.of)]
        <4>1. c.pc = "count" /\ evaluator' = [evaluator EXCEPT ![e] = m] /\ UNCHANGED events
          BY <2>1, <3>2 DEF CountAlerts, Evaluate
        <4>2. /\ m.known = c.known /\ m.inside = c.inside /\ m.of = c.of
              /\ m.sample = c.sample /\ m.pc = "upsert"
          BY <2>2
        <4> HIDE DEF m
        <4> QED BY <4>1, <4>2
      <3>3. CASE UpsertSummary(e)
        <4> DEFINE m == [c EXCEPT !.pc = "answered"]
        <4>1. c.pc = "upsert" /\ evaluator' = [evaluator EXCEPT ![e] = m] /\ UNCHANGED events
          BY <2>1, <3>3 DEF UpsertSummary, Evaluate
        <4>2. /\ m.known = c.known /\ m.inside = c.inside /\ m.of = c.of
              /\ m.sample = c.sample /\ m.pc = "answered"
          BY <2>2
        <4> HIDE DEF m
        <4> QED BY <4>1, <4>2
      <3> QED BY <1>4, <3>1, <3>2, <3>3
    <2>4. Judged(new) BY <2>2, <2>3 DEF Judged
    <2> QED BY <1>4, <2>3, <2>4, OneVerdict
  <1>5. ASSUME NEW e \in Evaluators, UNCHANGED volumesOf, RecordEvent(e) PROVE VerdictInv'
    <2>1. PICK c : c = evaluator[e] OBVIOUS
    <2>2. /\ DOMAIN c = {"pc", "sample", "of", "inside", "known", "old", "alerts"}
          /\ c.pc = "event" /\ Judged(c) /\ c.of \in Scope /\ c.sample \in Samples
      BY <1>5, <2>1 DEF SummaryInv, GoodEvaluator, VerdictInv, RecordEvent
    <2>3. PICK m : m = [c EXCEPT !.pc = "count"] OBVIOUS
    <2>4. /\ evaluator' = [evaluator EXCEPT ![e] = m]
          /\ events' = [events EXCEPT ![c.sample.id] = c.of]
      BY <1>5, <2>1, <2>3 DEF RecordEvent, Evaluate
    <2>5. Judged(m) BY <2>2, <2>3 DEF Judged
    <2>6. \A w \in VolumesAt(c.of) : ~SampleInside(c.sample, w) BY <2>2 DEF Judged
    <2>7. \A d \in Evaluators : evaluator'[d] = IF d = e THEN m ELSE evaluator[d]
      BY <2>4 DEF SummaryInv
    <2>8. \A x : Judged(x) => Judged(x)' BY <1>5 DEF Judged, VolumesAt
    <2>9. \A d \in Evaluators : Judged(evaluator[d])' BY <2>5, <2>7, <2>8 DEF VerdictInv
    <2>10. \A s \in Samples : s.id \in Ids BY DEF Ids
    <2>11. events' \in [Ids -> Scope \cup {NoScope}] BY <2>2, <2>4, <2>10 DEF VerdictInv
    <2>12. ASSUME NEW s \in Samples, NEW x \in Scope, events'[s.id] = x, NEW w \in VolumesAt(x)
           PROVE  ~SampleInside(s, w)
      <3>1. CASE s.id = c.sample.id
        <4>1. s = c.sample BY <2>2, <3>1, ConformanceAssumption
        <4>2. x = c.of BY <2>4, <2>10, <2>12, <3>1 DEF VerdictInv
        <4> QED BY <2>6, <2>12, <4>1, <4>2
      <3>2. CASE s.id # c.sample.id
        <4>1. events[s.id] = x BY <2>4, <2>10, <2>12, <3>2 DEF VerdictInv
        <4> QED BY <2>12, <4>1 DEF VerdictInv
      <3> QED BY <3>1, <3>2
    <2>13. \A x : VolumesAt(x)' = VolumesAt(x)
      BY <1>5 DEF VolumesAt
    <2> QED BY <1>5, <2>9, <2>11, <2>12, <2>13 DEF VerdictInv
  <1>6. \/ UNCHANGED <<events, evaluator, volumesOf>>
        \/ ConformanceNext /\ UNCHANGED volumesOf
    BY DEF FlightStep, ImportNext, importVars, conformanceVars
  <1> QED BY <1>1, <1>2, <1>3, <1>4, <1>5, <1>6 DEF ConformanceNext

\* All invariants together.
LEMMA FlightInvariant ==
    FlightSpec => [](ImportInv /\ SummaryInv /\ VerdictInv)
  <1>1. ImportInit /\ ConformanceInit => ImportInv /\ SummaryInv /\ VerdictInv
    BY ImportStart, SummaryStart, VerdictStart
  <1>2. [FlightStep]_<<importVars, conformanceVars>> =>
           [ImportNext]_importVars /\ [ConformanceNext]_conformanceVars
    BY DEF FlightStep, importVars, conformanceVars
  <1>3. /\ ImportInv /\ SummaryInv /\ VerdictInv
        /\ [FlightStep]_<<importVars, conformanceVars>>
        => (ImportInv /\ SummaryInv /\ VerdictInv)'
    BY <1>2, ImportSteps, SummarySteps, VerdictSteps
  <1> QED BY <1>1, <1>3, PTL DEF FlightSpec

\* What is known of the volumes that a handler reads.
LEMMA VolumeFacts ==
    ASSUME VerdictInv, NEW x \in Scope, NEW w \in VolumesAt(x)
    PROVE  /\ w \in Volume
           /\ WellFormed(w.polygon) => w.polygon \in Polygons
           /\ DrawnVolumes(VolumeChoices) =>
                 WellFormed(w.polygon) /\ Drawn(w.polygon, w.cells)
           /\ NoVertexTwice(VolumeChoices) => NoRepeatedVertex(w.polygon)
           /\ BorderedVolumes(VolumeChoices) => Bordered(w.polygon, w.cells)
  <1>1. x[1] \in Intents /\ x[2] \in Versions BY DEF Scope
  <1>2. volumesOf \in VolumeChoices /\ w \in volumesOf[x[1]][x[2]]
    BY DEF VerdictInv, VolumesAt
  <1>3. volumesOf \in [Intents -> [Versions -> SUBSET Volume]]
    BY <1>2, MissionImportAssumption
  <1>4. w \in Volume
    <2>1. volumesOf[x[1]] \in [Versions -> SUBSET Volume] BY <1>1, <1>3
    <2>2. volumesOf[x[1]][x[2]] \in SUBSET Volume BY <1>1, <2>1
    <2> QED BY <1>2, <2>2
  <1>5. ASSUME WellFormed(w.polygon) PROVE w.polygon \in Polygons
    <2>1. PICK polygon : polygon = w.polygon OBVIOUS
    <2>2. polygon \in Seq(Seq(Vertices)) BY <1>4, <2>1 DEF Volume
    <2>3. Len(polygon) > 0 /\ \A r \in 1..Len(polygon) : Closed(polygon[r])
      BY <1>5, <2>1 DEF WellFormed
    <2>4. \A r \in 1..Len(polygon) : polygon[r] \in Rings BY <2>2, <2>3 DEF Rings
    <2>5. polygon \in Seq(Rings)
      <3>1. /\ Len(polygon) \in Nat
            /\ polygon = [r \in 1..Len(polygon) |-> polygon[r]]
        BY <2>2
      <3>2. polygon \in [1..Len(polygon) -> Rings] BY <2>4, <3>1
      <3>3. \A n \in Nat : [1..n -> Rings] \subseteq Seq(Rings) OBVIOUS
      <3> QED BY <3>1, <3>2, <3>3
    <2> QED BY <2>1, <2>3, <2>5 DEF Polygons
  <1> QED BY <1>1, <1>2, <1>4, <1>5 DEF DrawnVolumes, NoVertexTwice, BorderedVolumes

\* A verdict is whether a volume holds the sample in time, altitude and place,
\* where a volume owns the left and lower edges of its cells only:
\* sampleInsideVolume and pointInGeoJSONPolygon, for every point and all
\* polygons with vertical and horizontal edges, however evaluations overlap.
THEOREM VerdictsMatchCells ==
    ASSUME DrawnVolumes(VolumeChoices)
    PROVE  FlightSpec => []VerdictMatchesCells
  <1>1. ASSUME SummaryInv, VerdictInv, NEW e \in Evaluators,
               evaluator[e].pc = "answered"
        PROVE  evaluator[e].inside <=>
                 \E w \in VolumesAt(evaluator[e].of) :
                    /\ evaluator[e].sample.time \in w.starts..w.ends
                    /\ evaluator[e].sample.altitude \in w.low..w.high
                    /\ \E cell \in Footprint(w.polygon, w.cells) :
                          InHalfOpenCell(cell, evaluator[e].sample.at)
    <2>1. PICK c : c = evaluator[e] OBVIOUS
    <2>2. c.of \in Scope /\ c.sample \in Samples /\ Judged(c) /\ c.pc = "answered"
      BY <1>1, <2>1 DEF SummaryInv, GoodEvaluator, VerdictInv
    <2>3. c.inside <=> \E w \in VolumesAt(c.of) : SampleInside(c.sample, w)
      BY <2>2 DEF Judged
    <2>4. c.sample.at \in Points BY <2>2, ConformanceAssumption
    <2>5. ASSUME NEW w \in VolumesAt(c.of)
          PROVE  PointInPolygon(w.polygon, c.sample.at) <=>
                   \E cell \in Footprint(w.polygon, w.cells) : InHalfOpenCell(cell, c.sample.at)
      <3>1. w.polygon \in Polygons /\ Drawn(w.polygon, w.cells) BY <1>1, <2>2, VolumeFacts
      <3> QED BY <2>4, <3>1, InsideIsFootprint
    <2> QED BY <2>1, <2>3, <2>5 DEF SampleInside
  <1>2. SummaryInv /\ VerdictInv => VerdictMatchesCells
    BY <1>1 DEF VerdictMatchesCells, VolumesAt
  <1> QED BY <1>2, FlightInvariant, PTL

\* A stored mission: its request, its items and the volume it was checked with.
LEMMA StoredMission ==
    ASSUME ImportInv, VerdictInv, NEW k \in 1..Len(missions)
    PROVE  \E r \in Requests :
              /\ missions[k].req = r /\ missions[k].items = Items(r.source)
              /\ r.intent \in Intents /\ r.version \in Versions
              /\ Validated(r) /\ Parses(r.source)
              /\ Len(Items(r.source)) \in Nat
              /\ Len(Items(r.source)) = Len(r.source) - 1 /\ Len(r.source) \in Nat
              /\ \A n \in 1..Len(Items(r.source)) : Items(r.source)[n].at \in Vertices
              /\ Route(Items(r.source)) =
                    [n \in 1..Len(Items(r.source)) |-> Items(r.source)[n].at]
              /\ Len(Route(Items(r.source))) = Len(Items(r.source))
  <1>1. PICK r \in Requests : missions[k] = Stored(r) BY DEF ImportInv, Missions
  <1>2. missions[k].req = r /\ missions[k].items = Items(r.source) BY <1>1 DEF Stored
  <1>3. Parses(r.source) /\ Validated(r) BY <1>2 DEF ImportInv
  <1>4. r.intent \in Intents /\ r.version \in Versions /\ r.source \in Seq(WPLRow)
    BY MissionImportAssumption
  <1>5. Len(r.source) \in Nat /\ Len(r.source) >= 2 BY <1>3, <1>4 DEF Parses
  <1>6. Len(Items(r.source)) = Len(r.source) - 1 BY <1>5 DEF Items
  <1>7. ASSUME NEW n \in 1..Len(Items(r.source)) PROVE Items(r.source)[n].at \in Vertices
    <2>1. n \in 1..(Len(r.source) - 1) /\ n + 1 \in 1..Len(r.source) BY <1>5, <1>6
    <2>2. Items(r.source)[n] = Canonical(r.source[n + 1]) BY <2>1 DEF Items
    <2>3. r.source[n + 1] \in WPLRow BY <1>4, <2>1
    <2>4. Canonical(r.source[n + 1]).at = r.source[n + 1].at BY DEF Canonical, Item
    <2> QED BY <2>2, <2>3, <2>4 DEF WPLRow
  <1>8. Len(Items(r.source)) \in Nat BY <1>5, <1>6
  <1>9. Route(Items(r.source)) = [n \in 1..Len(Items(r.source)) |-> Items(r.source)[n].at]
    BY DEF Route
  <1>10. Len(Route(Items(r.source))) = Len(Items(r.source)) BY <1>8, <1>9
  <1> QED BY <1>2, <1>3, <1>4, <1>5, <1>6, <1>7, <1>8, <1>9, <1>10

\* The volume of a stored mission covers its items and its segments.
LEMMA RouteCovered ==
    ASSUME ImportInv, VerdictInv, NEW k \in 1..Len(missions)
    PROVE  LET items == missions[k].items
               x == <<missions[k].req.intent, missions[k].req.version>>
           IN  /\ x \in Scope /\ Len(items) \in Nat
               /\ \A n \in 1..Len(items) : items[n].at \in Vertices
               /\ \E w \in VolumesAt(x) :
                     /\ VolumesAt(x) = {w}
                     /\ w.starts <= Window.starts /\ Window.ends <= w.ends
                     /\ w.polygon \in Polygons
                     /\ \A n \in 1..Len(items) : items[n].altitude \in w.low..w.high
                     /\ \A n \in 1..Len(items) : PolygonCoversPoint(w.polygon, At(items[n].at))
                     /\ \A n \in 1..(Len(items) - 1) :
                           PolygonCoversSegment(w.polygon, items[n].at, items[n + 1].at)
  <1>1. PICK r \in Requests :
              /\ missions[k].req = r /\ missions[k].items = Items(r.source)
              /\ r.intent \in Intents /\ r.version \in Versions
              /\ Validated(r) /\ Parses(r.source)
              /\ Len(Items(r.source)) \in Nat
              /\ Len(Items(r.source)) = Len(r.source) - 1 /\ Len(r.source) \in Nat
              /\ \A n \in 1..Len(Items(r.source)) : Items(r.source)[n].at \in Vertices
              /\ Route(Items(r.source)) =
                    [n \in 1..Len(Items(r.source)) |-> Items(r.source)[n].at]
              /\ Len(Route(Items(r.source))) = Len(Items(r.source))
    BY StoredMission
  <1>2. PICK items : items = Items(r.source) OBVIOUS
  <1>3. PICK x : x = <<r.intent, r.version>> OBVIOUS
  <1>4. x \in Scope BY <1>1, <1>3 DEF Scope
  <1>5. ValidAgainst(VolumesAt(x), items) BY <1>1, <1>2, <1>3 DEF Validated, VolumesAt
  <1>6. PICK w \in VolumesAt(x) :
              /\ VolumesAt(x) = {w}
              /\ w.starts <= Window.starts /\ w.ends >= Window.ends
              /\ \A n \in 1..Len(items) : items[n].altitude \in w.low..w.high
              /\ WellFormed(w.polygon)
              /\ CheckMissionCoverage(w.polygon, Route(items)) = [items |-> {}, segments |-> {}]
    BY <1>5 DEF ValidAgainst
  <1>7. w \in Volume /\ w.polygon \in Polygons BY <1>4, <1>6, VolumeFacts
  <1>8. Window.ends <= w.ends
    <2>1. Window.ends \in Int /\ w.ends \in Int BY <1>7, MissionImportAssumption DEF Volume
    <2> QED BY <1>6, <2>1
  <1>9. PICK route : route = Route(items) OBVIOUS
  <1>10. /\ Len(items) \in Nat /\ Len(route) = Len(items)
         /\ \A n \in 1..Len(items) : route[n] = items[n].at
    BY <1>1, <1>2, <1>9
  <1>11. /\ {i \in 1..Len(route) : ~PolygonCoversPoint(w.polygon, At(route[i]))} = {}
         /\ {i \in 1..(Len(route) - 1) :
               ~PolygonCoversSegment(w.polygon, route[i], route[i + 1])} = {}
    BY <1>6, <1>9 DEF CheckMissionCoverage
  <1>12. \A n \in 1..Len(items) : PolygonCoversPoint(w.polygon, At(items[n].at))
    BY <1>10, <1>11
  <1>13. ASSUME NEW n \in 1..(Len(items) - 1)
         PROVE  PolygonCoversSegment(w.polygon, items[n].at, items[n + 1].at)
    <2>1. n \in 1..Len(items) /\ n + 1 \in 1..Len(items) BY <1>10
    <2>2. route[n] = items[n].at /\ route[n + 1] = items[n + 1].at BY <1>10, <2>1
    <2> QED BY <1>10, <1>11, <2>2
  <1> QED BY <1>1, <1>2, <1>3, <1>4, <1>6, <1>7, <1>8, <1>10, <1>12, <1>13

\* Import and monitoring agree: a sample on the route of a stored mission,
\* between the altitudes and in the window, raises no event, except on the very
\* edge of the volume.  validateMissionAgainstIntent with
\* missionPolygonCoversSegment on one side, sampleInsideVolume on the other, for
\* all polygons without a repeated vertex, whatever the direction of their edges.
THEOREM MissionsFlownConform ==
    ASSUME NoVertexTwice(VolumeChoices)
    PROVE  FlightSpec => []MissionFlownConforms
  <1>1. ASSUME ImportInv, VerdictInv, NEW s \in Samples, NEW k \in 1..Len(missions)
        PROVE  LET items == missions[k].items
                   x == <<missions[k].req.intent, missions[k].req.version>>
                   onRoute == \E n \in 1..(Len(items) - 1) :
                                 OnSegment(s.at, items[n].at, items[n + 1].at)
                   onEdge == \E w \in VolumesAt(x) : \E r \in 1..Len(w.polygon) :
                                \E e \in Edges(w.polygon[r]) : OnSegment(s.at, e[1], e[2])
                   between == \A w \in VolumesAt(x) : s.altitude \in w.low..w.high
               IN  events[s.id] = x /\ onRoute /\ between /\ InWindow(s) => onEdge
    <2>1. PICK items : items = missions[k].items OBVIOUS
    <2>2. PICK x : x = <<missions[k].req.intent, missions[k].req.version>> OBVIOUS
    <2>3. /\ x \in Scope /\ Len(items) \in Nat
          /\ \A n \in 1..Len(items) : items[n].at \in Vertices
      BY <1>1, <2>1, <2>2, RouteCovered
    <2>4. PICK w \in VolumesAt(x) :
             /\ VolumesAt(x) = {w}
             /\ w.starts <= Window.starts /\ Window.ends <= w.ends
             /\ w.polygon \in Polygons
             /\ \A n \in 1..(Len(items) - 1) :
                   PolygonCoversSegment(w.polygon, items[n].at, items[n + 1].at)
      BY <1>1, <2>1, <2>2, RouteCovered
    <2>5. ASSUME events[s.id] = x,
                 NEW n \in 1..(Len(items) - 1), OnSegment(s.at, items[n].at, items[n + 1].at),
                 s.altitude \in w.low..w.high, InWindow(s)
          PROVE  \E r \in 1..Len(w.polygon) :
                    \E e \in Edges(w.polygon[r]) : OnSegment(s.at, e[1], e[2])
      <3>1. SUFFICES ASSUME \A r \in 1..Len(w.polygon) :
                               \A e \in Edges(w.polygon[r]) : ~OnSegment(s.at, e[1], e[2])
                     PROVE  FALSE
        OBVIOUS
      <3>2. NoRepeatedVertex(w.polygon) /\ w \in Volume BY <1>1, <2>3, VolumeFacts
      <3>3. \A r \in 1..Len(w.polygon) : ~PointOnRing(w.polygon[r], s.at)
        BY <3>1, <3>2 DEF PointOnRing, OnSegment, NoRepeatedVertex
      <3>4. s.at \in Points /\ s.time \in Int BY ConformanceAssumption
      <3>5. items[n].at \in Vertices /\ items[n + 1].at \in Vertices
        <4>1. n \in 1..Len(items) /\ n + 1 \in 1..Len(items) BY <2>3
        <4> QED BY <2>3, <4>1
      <3>6. PointInPolygon(w.polygon, s.at)
        BY <2>4, <2>5, <3>2, <3>3, <3>4, <3>5, CoveredSegment
      <3>7. s.time \in w.starts..w.ends
        <4>1. /\ Window.starts \in Int /\ Window.ends \in Int
              /\ w.starts \in Int /\ w.ends \in Int
          BY <3>2, MissionImportAssumption DEF Volume
        <4>2. s.time \in Window.starts..Window.ends BY <2>5 DEF InWindow
        <4> QED BY <2>4, <3>4, <4>1, <4>2
      <3>8. SampleInside(s, w) BY <2>5, <3>6, <3>7 DEF SampleInside
      <3> QED BY <1>1, <2>3, <2>5, <3>8 DEF VerdictInv
    <2> QED BY <2>1, <2>2, <2>4, <2>5
  <1>2. ImportInv /\ VerdictInv => MissionFlownConforms
    BY <1>1 DEF MissionFlownConforms, VolumesAt
  <1> QED BY <1>2, FlightInvariant, PTL

\* A stored mission reads back as it was stored, and stays in the authorised
\* volume along its whole route and between the authorised altitudes:
\* validateMissionAgainstIntent and CheckMissionCoverage, for all polygons with
\* vertical and horizontal edges, none of them without length.
THEOREM MissionsStayInVolume ==
    ASSUME DrawnVolumes(VolumeChoices), NoVertexTwice(VolumeChoices),
           BorderedVolumes(VolumeChoices)
    PROVE  FlightSpec => []MissionStaysInVolume
  <1>1. ASSUME ImportInv, VerdictInv, NEW k \in 1..Len(missions)
        PROVE  LET items == missions[k].items
                   x == <<missions[k].req.intent, missions[k].req.version>>
               IN  \E w \in VolumesAt(x) :
                     /\ \A n \in 1..Len(items) : items[n].altitude \in w.low..w.high
                     /\ \A n \in 1..Len(items) :
                           \E c \in Footprint(w.polygon, w.cells) : InCell(c, At(items[n].at))
                     /\ \A n \in 1..(Len(items) - 1) :
                           StaysInCells(Footprint(w.polygon, w.cells),
                                        items[n].at, items[n + 1].at, 6)
    <2>1. PICK items : items = missions[k].items OBVIOUS
    <2>2. PICK x : x = <<missions[k].req.intent, missions[k].req.version>> OBVIOUS
    <2>3. /\ x \in Scope /\ Len(items) \in Nat
          /\ \A n \in 1..Len(items) : items[n].at \in Vertices
      BY <1>1, <2>1, <2>2, RouteCovered
    <2>4. PICK w \in VolumesAt(x) :
             /\ w.polygon \in Polygons
             /\ \A n \in 1..Len(items) : items[n].altitude \in w.low..w.high
             /\ \A n \in 1..Len(items) : PolygonCoversPoint(w.polygon, At(items[n].at))
             /\ \A n \in 1..(Len(items) - 1) :
                   PolygonCoversSegment(w.polygon, items[n].at, items[n + 1].at)
      BY <1>1, <2>1, <2>2, RouteCovered
    <2>5. /\ NoRepeatedVertex(w.polygon) /\ Drawn(w.polygon, w.cells)
          /\ Bordered(w.polygon, w.cells)
      BY <1>1, <2>3, VolumeFacts
    <2>6. ASSUME NEW n \in 1..Len(items)
          PROVE  \E c \in Footprint(w.polygon, w.cells) : InCell(c, At(items[n].at))
      BY <2>3, <2>4, <2>5, CoveredPointInCells
    <2>7. ASSUME NEW n \in 1..(Len(items) - 1)
          PROVE  StaysInCells(Footprint(w.polygon, w.cells), items[n].at, items[n + 1].at, 6)
      <3>1. items[n].at \in Vertices /\ items[n + 1].at \in Vertices
        <4>1. n \in 1..Len(items) /\ n + 1 \in 1..Len(items) BY <2>3
        <4> QED BY <2>3, <4>1
      <3>2. ASSUME NEW j \in 0..(2 * 6)
            PROVE  \E c \in Footprint(w.polygon, w.cells) :
                      InCell(c, Along(items[n].at, items[n + 1].at, j, 2 * 6))
        <4>1. 2 * 6 \in Nat \ {0} OBVIOUS
        <4>2. /\ Along(items[n].at, items[n + 1].at, j, 2 * 6) \in Points
              /\ OnSegment(Along(items[n].at, items[n + 1].at, j, 2 * 6),
                           items[n].at, items[n + 1].at)
          BY <3>1, <4>1, AlongIsOnSegment
        <4> QED BY <2>4, <2>5, <3>1, <4>2, CoveredSegmentInCells
      <3> QED BY <3>2 DEF StaysInCells
    <2> QED BY <2>1, <2>2, <2>4, <2>6, <2>7
  <1>2. ASSUME ImportInv, NEW k \in 1..Len(missions), NEW n \in 1..Len(missions[k].items)
        PROVE  Onboard(missions[k].items[n]) = missions[k].items[n]
    <2>1. PICK r \in Requests : missions[k] = Stored(r) BY <1>2 DEF ImportInv, Missions
    <2>2. missions[k].req = r /\ missions[k].items = Items(r.source) BY <2>1 DEF Stored
    <2>3. Parses(r.source) BY <1>2, <2>2 DEF ImportInv
    <2>4. Len(r.source) \in Nat
      <3>1. r.source \in Seq(WPLRow) BY MissionImportAssumption
      <3> QED BY <3>1
    <2>5. Len(Items(r.source)) = Len(r.source) - 1 BY <2>3, <2>4 DEF Items, Parses
    <2> QED BY <1>2, <2>2, <2>3, <2>4, <2>5, ItemReadsBack
  <1>3. ImportInv /\ VerdictInv => MissionStaysInVolume
    BY <1>1, <1>2 DEF MissionStaysInVolume, VolumesAt
  <1> QED BY <1>3, FlightInvariant, PTL

=============================================================================
