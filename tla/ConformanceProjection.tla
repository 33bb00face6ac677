------------------------ MODULE ConformanceProjection -----------------------
(***************************************************************************)
(* Live conformance.  An external monitor publishes a summary per          *)
(* assignment (an intent) to the registry under a cursor of assignment     *)
(* generation and evaluation revision; its messages are repeated and       *)
(* overtake each other.  The conformance dashboard of the fleet service    *)
(* reads the durable summaries and lays the live ones over them, asking    *)
(* the registry in batches.                                                *)
(***************************************************************************)
EXTENDS Naturals, Sequences, FiniteSets

CONSTANTS
    Assignments,     \* the assignments, in the order of their ids
    MaxBatch,        \* maxConformanceBatch
    Published,       \* bound: what the monitor publishes, in any order
    MaxDashboards    \* bound: dashboards

ASSUME ConformanceProjectionAssumption ==
    /\ Assignments \in Seq(STRING) /\ MaxBatch \in Nat \ {0}
    /\ MaxDashboards \in Nat
    /\ \A s \in Published :
          /\ DOMAIN s = {"id", "generation", "revision", "condition"}
          /\ s.generation \in Nat \ {0} /\ s.revision \in Nat \ {0}
          /\ s.condition \in {"conforming", "non_conforming", "suspected", "recovering"}

VARIABLES
    projections,  \* MemoryClient.conformance
    stored,       \* conformance_summaries: status and reportability
    dashboard,    \* the dashboard under construction
    seen,         \* the live cursor and condition last shown per assignment
    used          \* dashboards so far

projectionVars == <<projections, stored, dashboard, seen, used>>

AssignmentIds == {Assignments[k] : k \in 1..Len(Assignments)}
Projection(s) == [generation |-> s.generation, revision |-> s.revision,
                  condition |-> s.condition]
NoProjection == [generation |-> 0, revision |-> 0, condition |-> "none"]
IdleDashboard ==
    [pc |-> "idle", next |-> 1, durable |-> [i \in AssignmentIds |-> "no"], live |-> {},
     missed |-> FALSE, calm |-> TRUE, shown |-> {}]

ProjectionInit ==
    /\ projections = [i \in AssignmentIds |-> NoProjection]
    /\ stored = [i \in AssignmentIds |-> "no"]
    /\ dashboard = IdleDashboard
    /\ seen = projections
    /\ used = 0

\* s comes before t, or has the same cursor.
Older(s, t) ==
    \/ s.generation < t.generation
    \/ s.generation = t.generation /\ s.revision < t.revision
SameCursor(s, t) == s.generation = t.generation /\ s.revision = t.revision

-----------------------------------------------------------------------------
(* The monitor and the registry.                                           *)

\* Wrong: only the generation is compared.
RejectedByGeneration(s) == s.generation < projections[s.id].generation

\* Refused when it is stale, or other than what was stored under the same
\* cursor (a monitor that was restarted may find something else).
Rejected(s) ==
    LET current == projections[s.id] IN
    \/ Older(s, current)
    \/ SameCursor(s, current) /\ s.condition # current.condition

\* PublishConformanceSummary: a summary arrives, for the first time or again.
Deliver(s) ==
    /\ ~Rejected(s)
    /\ projections' = [projections EXCEPT ![s.id] = Projection(s)]
    /\ dashboard' = [dashboard EXCEPT !.calm = @ /\ (projections' = projections)]
    /\ UNCHANGED <<stored, seen, used>>

\* UpsertConformanceSummary by the conformance service.
Review(i) ==
    /\ stored' = [stored EXCEPT ![i] = "review"]
    /\ stored[i] = "no"
    /\ UNCHANGED <<projections, dashboard, seen, used>>

-----------------------------------------------------------------------------
(* GetConformanceDashboard and overlayRegistryConformance.                 *)

Show(new) ==
    /\ dashboard' = new
    /\ UNCHANGED <<projections, stored>>

BeginDashboard ==
    /\ dashboard.pc = "idle" /\ used < MaxDashboards
    /\ used' = used + 1
    /\ Show([IdleDashboard EXCEPT !.pc = "batches", !.durable = stored])
    /\ UNCHANGED seen

\* Wrong: the last batch must be full.
InFullBatch(k, first) ==
    /\ first <= k /\ k < first + MaxBatch
    /\ first + MaxBatch <= Len(Assignments) + 1

\* The assignments from first on, MaxBatch of them or as many as are left.
InBatch(k, first) == first <= k /\ k < first + MaxBatch

\* BatchGetConformanceSummaries for the next batch; a batch that fails is
\* passed over.
ReadBatch ==
    LET batch == {Assignments[k] : k \in
                    {k \in 1..Len(Assignments) : InBatch(k, dashboard.next)}}
        found == {i \in batch : projections[i] # NoProjection}
        rest == dashboard.next + MaxBatch
        pc == IF rest > Len(Assignments) THEN "merge" ELSE "batches"
    IN
    /\ dashboard.pc = "batches"
    /\ \/ Show([dashboard EXCEPT !.pc = pc, !.next = rest,
                  !.live = @ \cup {<<i, projections[i]>> : i \in found}])
       \/ Show([dashboard EXCEPT !.pc = pc, !.next = rest, !.missed = TRUE])
    /\ UNCHANGED <<seen, used>>

\* legacyConformanceStatus.
LegacyStatus(condition) ==
    IF condition \in {"suspected", "recovering"} THEN "contingent" ELSE condition

\* mergeLiveConformance: the live condition, with the durable reportability.
\* The code finds the summary to merge by intent and version and keeps the
\* newest assignment of each; here every version has one assignment.
Merge(durable, live) ==
    [report |-> durable, status |-> LegacyStatus(live.condition)]

MergeDashboard ==
    /\ dashboard.pc = "merge"
    /\ Show([dashboard EXCEPT !.pc = "shown",
               !.shown = {<<x[1], Merge(dashboard.durable[x[1]], x[2])>> :
                            x \in dashboard.live}])
    /\ seen' = [i \in AssignmentIds |->
         IF \E x \in dashboard.live : x[1] = i
         THEN (CHOOSE x \in dashboard.live : x[1] = i)[2] ELSE seen[i]]
    /\ UNCHANGED used

EndDashboard ==
    /\ dashboard.pc = "shown"
    /\ Show(IdleDashboard) /\ UNCHANGED <<seen, used>>

ProjectionNext ==
    \/ \E s \in Published : Deliver(s)
    \/ \E i \in AssignmentIds : Review(i)
    \/ BeginDashboard \/ ReadBatch \/ MergeDashboard \/ EndDashboard

-----------------------------------------------------------------------------
(* Properties.                                                             *)

\* Whatever overtakes what on the way to the registry, what a dashboard shows
\* of an assignment is never older than what an earlier one showed, and never
\* different under the same cursor.
DashboardNeverRegresses ==
    [][\A i \in AssignmentIds :
          /\ ~Older(seen'[i], seen[i])
          /\ SameCursor(seen'[i], seen[i]) => seen'[i] = seen[i]]_projectionVars

\* A dashboard whose batches all answered shows every assignment that has a
\* projection, also those of the last, partial batch; if nothing arrived in the
\* meantime it shows the projections that are there.  The live picture hides no
\* report that was under review when the dashboard read the durable summaries.
DashboardIsComplete ==
    /\ dashboard.pc = "shown" /\ ~dashboard.missed /\ dashboard.calm =>
          dashboard.live = {<<i, projections[i]>> : i \in
                              {i \in AssignmentIds : projections[i] # NoProjection}}
    /\ \A x \in dashboard.shown :
          dashboard.durable[x[1]] = "review" => x[2].report = "review"

=============================================================================
