---------------------------- MODULE Conformance -----------------------------
(***************************************************************************)
(* The conformance service: each telemetry sample of the flight is judged  *)
(* against the volumes of the active intent version, an exit is recorded   *)
(* as an event, and a summary per version is rewritten.  Samples arrive in *)
(* any order, are delivered again, and are handled concurrently; a handler *)
(* may fail between any two of its writes.                                 *)
(*                                                                         *)
(* Extends MissionImport, so that the samples can be those of an aircraft  *)
(* flying a mission that was imported for the same intent.                 *)
(***************************************************************************)
EXTENDS MissionImport

CONSTANTS
    Evaluators,       \* concurrent EvaluateTelemetry handlers
    Samples,          \* bound: telemetry samples
    MaxEvaluations,   \* bound: samples delivered, repetitions included
    MaxConcurrent,    \* bound: the same, when they are handled concurrently
    MaxFailures       \* bound: evaluations that fail half way

\* intent is "" when the sample names none.
ASSUME ConformanceAssumption ==
    /\ \A s \in Samples :
          /\ DOMAIN s = {"id", "at", "altitude", "time", "intent"}
          /\ s.at \in Points /\ s.altitude \in Int /\ s.time \in Int
          /\ \A t \in Samples : s.id = t.id => s = t
    /\ MaxEvaluations \in Nat /\ MaxConcurrent \in Nat /\ MaxFailures \in Nat

VARIABLES
    events,      \* conformance_events: the intent version each sample's event is of
    summaries,   \* conformance_summaries: per intent version
    evaluator,   \* per handler: where it is, and what it has read
    overlapping, \* whether samples are handled concurrently
    telemetry    \* evaluations and failures left

conformanceVars == <<events, summaries, evaluator, overlapping, telemetry>>

Ids == {s.id : s \in Samples}
Scope == Intents \X Versions
NoScope == <<>>
NoSummary == [status |-> "none", alerts |-> 0, report |-> "no"]
IdleEvaluator ==
    [pc |-> "idle", sample |-> CHOOSE s \in Samples : TRUE, of |-> NoScope,
     inside |-> FALSE, known |-> FALSE, old |-> NoSummary, alerts |-> 0]

AllTelemetry == [samples |-> IF overlapping THEN MaxConcurrent ELSE MaxEvaluations,
                 failures |-> MaxFailures]

ConformanceInit ==
    /\ events = [i \in Ids |-> NoScope]
    /\ summaries = [x \in Scope |-> NoSummary]
    /\ evaluator = [e \in Evaluators |-> IdleEvaluator]
    /\ overlapping \in BOOLEAN
    /\ telemetry = AllTelemetry

Evaluate(e, new) ==
    /\ evaluator' = [evaluator EXCEPT ![e] = new]
    /\ UNCHANGED <<overlapping, telemetry>>

-----------------------------------------------------------------------------
(* EvaluateTelemetry.                                                      *)

InWindow(s) == s.time \in Window.starts..Window.ends

\* resolveIntentForTelemetry: a sample that names its intent is refused outside
\* the window or unless that intent is active; one that names none is given the
\* active intent of its aircraft, of which there is one.
Resolves(s, x) ==
    /\ IsLatest(plan[x[1]], x[2]) /\ plan[x[1]][x[2]].status = "active"
    /\ s.intent = "" \/ (s.intent = x[1] /\ InWindow(s))

BeginEvaluation(e, s) ==
    /\ evaluator[e].pc = "idle" /\ telemetry.samples > 0
    /\ overlapping \/ \A d \in Evaluators : evaluator[d].pc = "idle"
    /\ telemetry' = [telemetry EXCEPT !.samples = @ - 1]
    /\ LET active == {x \in Scope : Resolves(s, x)} IN
       evaluator' = [evaluator EXCEPT ![e] =
          IF active = {} THEN IdleEvaluator
          ELSE [IdleEvaluator EXCEPT !.pc = "volumes", !.sample = s,
                                     !.of = CHOOSE x \in active : TRUE]]
    /\ UNCHANGED <<events, summaries, overlapping>>

\* sampleInsideVolume.
SampleInside(s, volume) ==
    /\ s.time \in volume.starts..volume.ends
    /\ s.altitude \in volume.low..volume.high
    /\ PointInPolygon(volume.polygon, s.at)

\* The volumes of the version; none makes the answer unknown.
ReadVolumes(e) ==
    LET c == evaluator[e]
        volumes == volumesOf[c.of[1]][c.of[2]]
    IN
    /\ c.pc = "volumes"
    /\ Evaluate(e, [c EXCEPT !.pc = "existing", !.known = volumes # {},
                             !.inside = \E w \in volumes : SampleInside(c.sample, w)])
    /\ UNCHANGED <<events, summaries>>

\* conformanceSummaryForVersion.
ReadExisting(e) ==
    LET c == evaluator[e] IN
    /\ c.pc = "existing"
    /\ Evaluate(e, [c EXCEPT !.old = summaries[c.of],
                      !.pc = CASE ~c.known -> "upsert"
                               [] c.known /\ c.inside -> "count"
                               [] OTHER -> "event"])
    /\ UNCHANGED <<events, summaries>>

\* RecordConformanceEvent: the event is named by the sample, so that a sample
\* delivered again replaces its event.
RecordEvent(e) ==
    LET c == evaluator[e] IN
    /\ c.pc = "event"
    /\ events' = [events EXCEPT ![c.sample.id] = c.of]
    /\ Evaluate(e, [c EXCEPT !.pc = "count"])
    /\ UNCHANGED summaries

EventsOf(x) == {i \in Ids : events[i] = x}

\* alertCount.
AlertCount(x) == Cardinality(EventsOf(x))

CountAlerts(e) ==
    LET c == evaluator[e] IN
    /\ c.pc = "count"
    /\ Evaluate(e, [c EXCEPT !.pc = "upsert", !.alerts = AlertCount(c.of)])
    /\ UNCHANGED <<events, summaries>>

\* Wrong: the summary starts afresh with every sample.
SummaryOfSample(c) ==
    IF ~c.known
    THEN [c.old EXCEPT !.status = "unknown"]
    ELSE [status |-> IF c.inside THEN "conforming" ELSE "non_conforming",
          alerts |-> c.alerts,
          report |-> IF c.inside THEN "no" ELSE "review"]

\* The summary to be stored.  A report under review stays so; without volumes
\* (unknownSummary) everything but the status stays.
NewSummary(c) ==
    IF ~c.known
    THEN [c.old EXCEPT !.status = "unknown"]
    ELSE [status |-> IF c.inside THEN "conforming" ELSE "non_conforming",
          alerts |-> c.alerts,
          report |-> IF c.inside THEN c.old.report ELSE "review"]

\* UpsertConformanceSummary compares nothing with what it overwrites.
UpsertSummary(e) ==
    LET c == evaluator[e] IN
    /\ c.pc = "upsert"
    /\ summaries' = [summaries EXCEPT ![c.of] = NewSummary(c)]
    /\ Evaluate(e, [c EXCEPT !.pc = "answered"])
    /\ UNCHANGED events

EndEvaluation(e) ==
    /\ evaluator[e].pc = "answered"
    /\ Evaluate(e, IdleEvaluator)
    /\ UNCHANGED <<events, summaries>>

\* A read or write fails, or the request times out, before the summary.
FailEvaluation(e) ==
    /\ evaluator[e].pc \notin {"idle", "answered"} /\ telemetry.failures > 0
    /\ evaluator' = [evaluator EXCEPT ![e] = IdleEvaluator]
    /\ telemetry' = [telemetry EXCEPT !.failures = @ - 1]
    /\ UNCHANGED <<events, summaries, overlapping>>

ConformanceNext ==
    \E e \in Evaluators :
        \/ \E s \in Samples : BeginEvaluation(e, s)
        \/ ReadVolumes(e) \/ ReadExisting(e) \/ RecordEvent(e) \/ CountAlerts(e)
        \/ UpsertSummary(e) \/ EndEvaluation(e) \/ FailEvaluation(e)

-----------------------------------------------------------------------------
(* Properties.                                                             *)

\* The verdict on a sample is whether some volume holds it in time, altitude
\* and place, where a volume owns its left and lower edges only: two volumes
\* side by side leave no gap, and a hole owns its own left and lower edges.
VerdictMatchesCells ==
    \A e \in Evaluators : evaluator[e].pc = "answered" /\ evaluator[e].known =>
        LET s == evaluator[e].sample IN
        evaluator[e].inside <=>
            \E w \in volumesOf[evaluator[e].of[1]][evaluator[e].of[2]] :
                /\ s.time \in w.starts..w.ends /\ s.altitude \in w.low..w.high
                /\ \E cell \in Footprint(w.polygon, w.cells) :
                      InHalfOpenCell(cell, s.at)

\* Import and monitoring agree: an aircraft on the route of a mission stored
\* for the version, between its altitudes and in its window, raises no event,
\* except on the very edge of the volume (which import allows and monitoring,
\* on the right and upper edges, does not).
MissionFlownConforms ==
    \A s \in Samples : \A k \in 1..Len(missions) :
        LET items == missions[k].items
            x == <<missions[k].req.intent, missions[k].req.version>>
            volumes == volumesOf[x[1]][x[2]]
            onRoute == \E n \in 1..(Len(items) - 1) :
                          OnSegment(s.at, items[n].at, items[n + 1].at)
            onEdge == \E w \in volumes : \E r \in 1..Len(w.polygon) :
                          \E e \in Edges(w.polygon[r]) : OnSegment(s.at, e[1], e[2])
            between == \A w \in volumes : s.altitude \in w.low..w.high
        IN  events[s.id] = x /\ onRoute /\ between /\ InWindow(s) => onEdge

\* When samples are handled one at a time, a report under review is never
\* withdrawn by a later sample, and an evaluation that ends well leaves a
\* summary that counts each exit under its version once: also after samples
\* delivered twice, failed evaluations and a change of intent.
SummaryNeverForgets ==
    [][~overlapping =>
         /\ \A x \in Scope :
               summaries[x].report = "review" => summaries'[x].report = "review"
         /\ \A e \in Evaluators :
               LET x == evaluator[e].of IN
               evaluator[e].pc = "upsert" /\ evaluator[e].known
               /\ evaluator'[e].pc = "answered" =>
                   /\ summaries'[x].alerts = Cardinality(EventsOf(x))
                   /\ ~evaluator[e].inside => summaries'[x].report = "review"
      ]_conformanceVars

=============================================================================
