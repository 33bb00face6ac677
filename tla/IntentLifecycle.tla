--------------------------- MODULE IntentLifecycle ---------------------------
(***************************************************************************)
(* The operational intents of one aircraft under concurrent API handlers.  *)
(* Every operation of the intent service first reads the latest version of *)
(* the intent and decides from that copy, and only then writes, in one     *)
(* store transaction.  The two are separate steps here, so that what was   *)
(* read may be stale when it is used: the transactions that change a       *)
(* status compare the revision that was read, the one that records a       *)
(* volume does not.  The preflight service records its evidence one row at *)
(* a time, in the memory of the replica, which a restart empties.          *)
(*                                                                         *)
(* Times are the readings of a clock that never repeats, counted for each  *)
(* intent by itself: only times of the same intent are compared.  A set of *)
(* volumes is the set of their UpdatedAt times.                            *)
(*                                                                         *)
(* Definitions whose comment starts with "Wrong:" are not part of the      *)
(* specification.  Each states a plausible mistake in the definition that  *)
(* follows it, to show which property would notice.                        *)
(***************************************************************************)
EXTENDS IntentRows, FiniteSets

CONSTANTS
    Intents,     \* the intents of the aircraft
    Handlers,    \* concurrent API handlers
    MaxTime,     \* bound: clock readings (edits and evaluations) per intent
    MayBlock     \* bound: the checks that may fail although there is a volume

ASSUME LifecycleAssumption == 
    /\ MaxTime \in Nat
    /\ MayBlock \subseteq {1, 2}
    /\ "none" \notin Intents

VARIABLES
    rows,        \* operational_intents: per intent and version
    volumes,     \* operational_volumes: UpdatedAt times, per intent and version
    evidence,    \* preflight checks and compliance findings, in memory
    clock,       \* last clock reading, per intent
    handler,     \* per handler: the operation under way and what it has read
    inTurn       \* whether the requests come one at a time

vars == <<rows, volumes, evidence, clock, handler, inTurn>>

-----------------------------------------------------------------------------
(* State.                                                                  *)

Times == 1..MaxTime

Operations == {"submit", "accept", "modify", "activate", "complete",
               "cancel", "add", "evaluate"}

\* What EvaluateIntent records, in this order: check 1 stands for the checks of
\* the aircraft, check 2 for those of the volumes, and 3 for the compliance
\* findings, which block exactly when a check does.
Evidence == 1..3
Checks == {1, 2}

\* A record of evidence: CapturedAt (0: there is none), whether it blocks, and
\* the volumes its evaluation looked at.
EvidenceRecord == [at : 0..MaxTime, blocking : BOOLEAN, saw : SUBSET Times]
NoEvidence == [at |-> 0, blocking |-> FALSE, saw |-> {}]

\* A handler: where it is, the intent, version and revision it read, its clock
\* reading, the volumes it read, and the evaluation it is recording.
Handler == [pc : {"idle", "volumes", "checks", "findings", "commit", "record"},
            op : Operations, i : Intents \cup {"none"}, v : Versions, rev : Nat,
            at : 0..MaxTime, saw : SUBSET Times,
            blocking : SUBSET Checks, n : Evidence]

TypeOK ==
    /\ rows \in [Intents -> [Versions -> Row]]
    /\ volumes \in [Intents -> [Versions -> SUBSET Times]]
    /\ evidence \in [Intents -> [Versions -> [Evidence -> EvidenceRecord]]]
    /\ clock \in [Intents -> 0..MaxTime]
    /\ handler \in [Handlers -> Handler]
    /\ inTurn \in BOOLEAN

Idle == [pc |-> "idle", op |-> "submit", i |-> "none", v |-> 1,
         rev |-> 0, at |-> 0, saw |-> {}, blocking |-> {}, n |-> 1]

NoEvidenceYet ==
    [i \in Intents |-> [v \in Versions |-> [k \in Evidence |-> NoEvidence]]]

\* No intent yet, or one that was seeded in review.
Init ==
    /\ \E seeded \in SUBSET Intents :
          /\ Cardinality(seeded) <= 1
          /\ rows = [i \in Intents |-> [v \in Versions |->
                       IF i \in seeded /\ v = 1
                       THEN [status |-> "review", rev |-> 0] ELSE NoRow]]
    /\ volumes = [i \in Intents |-> [v \in Versions |-> {}]]
    /\ evidence = NoEvidenceYet
    /\ clock = [i \in Intents |-> 0]
    /\ handler = [h \in Handlers |-> Idle]
    /\ inTurn \in BOOLEAN

Return(h) == handler' = [handler EXCEPT ![h] = Idle]
Continue(h, r) == handler' = [handler EXCEPT ![h] = r]
Tick(i) == clock[i] < MaxTime /\ clock' = [clock EXCEPT ![i] = @ + 1]

-----------------------------------------------------------------------------
(* Reading and deciding.                                                   *)

\* The statuses an operation may start from.
From(op) ==
    CASE op = "submit" -> Submittable
      [] op = "accept" -> Acceptable
      [] op = "modify" -> Modifiable
      [] op = "activate" -> {"accepted"}
      [] op = "complete" -> Completable
      [] op = "cancel" -> Cancelable
      [] op = "add" -> {"draft"}
      [] op = "evaluate" -> IntentStatus

\* GetOperationalIntent and the checks on the copy.  AddOperationalVolume and
\* ModifyIntent read the clock next; activation and evaluation go on reading.
Load(h, op, i, v) ==
    /\ handler[h].pc = "idle"
    /\ inTurn => \A g \in Handlers : handler[g].pc = "idle"
    /\ IsLatest(rows[i], v) /\ rows[i][v].status \in From(op)
    /\ op = "modify" /\ rows[i][v].status = "accepted" => v < MaxVersion
    /\ IF op \in {"add", "modify"} THEN Tick(i) ELSE UNCHANGED clock
    /\ Continue(h, [Idle EXCEPT
          !.pc = IF op \in {"activate", "evaluate"} THEN "volumes"
                 ELSE "commit",
          !.op = op, !.i = i, !.v = v, !.rev = rows[i][v].rev,
          !.at = IF op \in {"add", "modify"} THEN clock'[i] ELSE 0])
    /\ UNCHANGED <<rows, volumes, evidence>>

\* activationReadiness: the volumes of the version, of which there must be one.
ReadVolumes(h) ==
    LET r == handler[h] IN
    /\ r.pc = "volumes" /\ r.op = "activate"
    /\ IF volumes[r.i][r.v] # {}
       THEN Continue(h, [r EXCEPT !.pc = "checks", !.saw = volumes[r.i][r.v]])
       ELSE Return(h)
    /\ UNCHANGED <<rows, volumes, evidence, clock>>

\* Wrong: a check of any age will do.
FreshEver(e, saw) == e.at # 0

\* Fresh: captured no earlier than the newest volume that was read.
Fresh(e, saw) == e.at # 0 /\ \A t \in saw : e.at >= t

\* activationReadiness: some check is fresh and none blocks.
ReadChecks(h) ==
    LET r == handler[h]
        found == evidence[r.i][r.v]
    IN
    /\ r.pc = "checks"
    /\ IF /\ \E k \in Checks : Fresh(found[k], r.saw)
          /\ \A k \in Checks : ~found[k].blocking
       THEN Continue(h, [r EXCEPT !.pc = "findings", !.saw = {}])
       ELSE Return(h)
    /\ UNCHANGED <<rows, volumes, evidence, clock>>

\* activationReadiness: no finding blocks.
ReadFindings(h) ==
    LET r == handler[h] IN
    /\ r.pc = "findings"
    /\ IF \A k \in Evidence : ~evidence[r.i][r.v][k].blocking
       THEN Continue(h, [r EXCEPT !.pc = "commit"])
       ELSE Return(h)
    /\ UNCHANGED <<rows, volumes, evidence, clock>>

-----------------------------------------------------------------------------
(* Writing: one store transaction each.                                    *)

\* CreateIntent: nothing is read first, an existing id is refused.
CreateIntent(i) ==
    /\ ~Exists(rows[i], 1)
    /\ rows' = [rows EXCEPT ![i][1] = [status |-> "draft", rev |-> 0]]
    /\ UNCHANGED <<volumes, evidence, clock, handler>>

Commits(h, op) == handler[h].pc = "commit" /\ handler[h].op = op

\* Wrong: the transaction looks for the row, not for the revision.
CurrentUnfenced(r) == Exists(rows[r.i], r.v)

\* The row is still the latest and has the revision that was read.
Current(r) == Unchanged(rows[r.i], r.v, r.rev)

\* A conflict, too, ends the operation.
WriteRows(h, new) ==
    LET r == handler[h] IN
    /\ rows' = IF Current(r) THEN [rows EXCEPT ![r.i] = new] ELSE rows
    /\ Return(h)
    /\ UNCHANGED <<evidence, clock>>

\* transitionIntent and updateOperationalIntentTx.
Transition(h, s) ==
    /\ WriteRows(h, UpdateRow(rows[handler[h].i], handler[h].v, s))
    /\ UNCHANGED volumes

\* Wrong: the name of the operation is written for the status.
SubmitIntentByName(h) == Commits(h, "submit") /\ Transition(h, "submit")

SubmitIntent(h) == Commits(h, "submit") /\ Transition(h, "submitted")
CompleteIntent(h) == Commits(h, "complete") /\ Transition(h, "complete")
CancelIntent(h) == Commits(h, "cancel") /\ Transition(h, "canceled")

\* acceptOperationalIntentTx.
AcceptIntent(h) ==
    /\ Commits(h, "accept")
    /\ WriteRows(h, AcceptRow(rows[handler[h].i], handler[h].v))
    /\ UNCHANGED volumes

\* Wrong: only the versions of the same intent are looked at.
OtherActiveOfIntent(r) ==
    \E v \in Versions \ {r.v} : rows[r.i][v].status = "active"

\* Another version or intent of the aircraft is active.
OtherActive(r) ==
    \E i \in Intents, v \in Versions :
        <<i, v>> # <<r.i, r.v>> /\ rows[i][v].status = "active"

\* ActivateOperationalIntent.
ActivateIntent(h) ==
    LET r == handler[h] IN
    /\ Commits(h, "activate")
    /\ IF OtherActive(r)
       THEN Return(h) /\ UNCHANGED <<rows, evidence, clock>>
       ELSE WriteRows(h, UpdateRow(rows[r.i], r.v, "active"))
    /\ UNCHANGED volumes

\* Wrong: the volumes of the accepted version are replaced.
ModifiedInPlace(r) == r.v

\* The version ModifyIntent writes: a new draft over an accepted version.
ModifiedVersion(r) == IF rows[r.i][r.v].status = "accepted" THEN r.v + 1 ELSE r.v

\* ReplaceOperationalIntent: the row and all its volumes, which are the
\* requested ones or copies of those of the source version, stamped anew.
ModifyIntent(h) ==
    LET r == handler[h] IN
    /\ Commits(h, "modify")
    /\ WriteRows(h, ReplaceRow(rows[r.i], r.v))
    /\ \E new \in {{}, {r.at}} :
          volumes' = IF Current(r)
                     THEN [volumes EXCEPT ![r.i][ModifiedVersion(r)] = new]
                     ELSE volumes

\* RecordOperationalVolume: neither status nor revision is compared.
AddOperationalVolume(h) ==
    LET r == handler[h] IN
    /\ Commits(h, "add")
    /\ volumes' = [volumes EXCEPT ![r.i][r.v] = @ \cup {r.at}]
    /\ Return(h)
    /\ UNCHANGED <<rows, evidence, clock>>

-----------------------------------------------------------------------------
(* EvaluateIntent of the preflight service.                                *)

\* The volumes are read, then the clock, then the checks are made.  Without
\* a volume the check of the volumes blocks.
Evaluate(h) ==
    LET r == handler[h]
        saw == volumes[r.i][r.v]
    IN
    /\ r.pc = "volumes" /\ r.op = "evaluate"
    /\ Tick(r.i)
    /\ \E blocking \in SUBSET Checks :
          /\ blocking \ MayBlock \subseteq IF saw = {} THEN {2} ELSE {}
          /\ saw = {} => 2 \in blocking
          /\ Continue(h, [r EXCEPT !.pc = "record", !.at = clock'[r.i],
                                   !.saw = saw, !.blocking = blocking])
    /\ UNCHANGED <<rows, volumes, evidence>>

\* RecordPreflightCheck, RecordComplianceFinding: one row replaced at a time.
Record(h) ==
    LET r == handler[h]
        blocks == IF r.n \in Checks THEN r.n \in r.blocking ELSE r.blocking # {}
    IN
    /\ r.pc = "record"
    /\ evidence' = [evidence EXCEPT ![r.i][r.v][r.n] =
                      [at |-> r.at, blocking |-> blocks, saw |-> r.saw]]
    /\ IF r.n = 3 THEN Return(h) ELSE Continue(h, [r EXCEPT !.n = @ + 1])
    /\ UNCHANGED <<rows, volumes, clock>>

-----------------------------------------------------------------------------
\* A handler stops before it writes: a failed store call, a canceled request,
\* a conflicting airspace, or a mission deployment that is outstanding.
Abandon(h) ==
    /\ handler[h].pc \in {"volumes", "checks", "findings", "commit"}
    /\ Return(h)
    /\ UNCHANGED <<rows, volumes, evidence, clock>>

\* The replica restarts: what was kept in memory is gone.
Restart ==
    /\ evidence' = NoEvidenceYet
    /\ handler' = [h \in Handlers |-> Idle]
    /\ UNCHANGED <<rows, volumes, clock>>

Read(h) ==
    \/ \E op \in Operations, i \in Intents, v \in Versions : Load(h, op, i, v)
    \/ ReadVolumes(h) \/ ReadChecks(h) \/ ReadFindings(h)

Write(h) ==
    \/ SubmitIntent(h) \/ AcceptIntent(h) \/ ActivateIntent(h)
    \/ CompleteIntent(h) \/ CancelIntent(h)
    \/ ModifyIntent(h) \/ AddOperationalVolume(h)

Next ==
    /\ \/ \E i \in Intents : CreateIntent(i)
       \/ \E h \in Handlers : Read(h) \/ Write(h) \/ Evaluate(h) \/ Record(h)
                                \/ Abandon(h)
       \/ Restart
    /\ UNCHANGED inTurn

Spec == Init /\ [][Next]_vars

-----------------------------------------------------------------------------
(* Properties.                                                             *)

\* At most one version of an intent reserves airspace, and none once its latest
\* version has ended: accepting a version retires the accepted one before it in
\* the same transaction, and canceling the draft of a change also cancels the
\* accepted version it was to replace, also for handlers with stale copies.
OneReservation ==
    \A i \in Intents : \A v, w \in Versions :
        rows[i][v].status \in Reserving =>
            /\ rows[i][w].status \in Reserving => v = w
            /\ ~(IsLatest(rows[i], w) /\ rows[i][w].status \in Terminal)

\* The aircraft never has two active intents, whichever handlers race.
OneActivePerAircraft ==
    \A i, j \in Intents : \A v, w \in Versions :
        rows[i][v].status = "active" /\ rows[j][w].status = "active"
            => i = j /\ v = w

\* What a step may do to a version that is superseded, or that was accepted and
\* has a newer one over it: it was accepted, and in the same step a newer one
\* is accepted, or gets the terminal status that the older one gets.
GivesWay(old, new) ==
    \A v \in Versions :
        /\ new[v].status # old[v].status
        /\ \/ new[v].status = "superseded"
           \/ old[v].status = "accepted" /\ ~IsLatest(old, v)
        =>
        /\ old[v].status = "accepted"
        /\ \E w \in Versions :
              /\ w > v /\ new[w].status # old[w].status
              /\ new[w].status = IF new[v].status = "superseded"
                                 THEN "accepted" ELSE new[v].status

\* An accepted version is superseded only in the step in which a newer version
\* is accepted; the draft of a change, or one that is canceled, supersedes
\* nothing.  Until then nothing takes it away but the end of the newest
\* version, whose status it gets with it.
SupersededByAccepted ==
    [][\A i \in Intents : GivesWay(rows[i], rows'[i])]_vars

\* A step that leaves the volumes of every version alone that is past the draft
\* and submitted statuses.
VolumesStay ==
    \A i \in Intents, v \in Versions :
        rows[i][v].status \notin {"none", "draft", "submitted"} =>
            volumes'[i][v] = volumes[i][v]

\* The volumes of a version do not change once it has left the draft and
\* submitted statuses.
VolumesLocked == [][VolumesStay]_vars

\* The same, as long as requests come one at a time: a change of an accepted
\* intent goes to a new version, whatever operations came before.
VolumesLockedInTurn == [][inTurn => VolumesStay]_vars

\* When requests come one at a time, a version becomes active with volumes that
\* a preflight evaluation has seen, all of them and no others.
ActivatedWasEvaluated ==
    [][\A i \in Intents, v \in Versions :
          inTurn /\ rows[i][v].status # "active" /\ rows'[i][v].status = "active" =>
              \E k \in Checks : evidence[i][v][k].at # 0
                                /\ evidence[i][v][k].saw = volumes[i][v]]_vars

=============================================================================
