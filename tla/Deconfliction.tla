--------------------------- MODULE Deconfliction ----------------------------
(***************************************************************************)
(* The deconfliction check that gates the activation of an operational     *)
(* intent.  Acceptance does not look at other intents; activation does, by *)
(* asking every airspace provider for the intents around and comparing     *)
(* volumes.  A check reads in many steps: its own intent, the candidates   *)
(* of the spatial query, each candidate's row, the references of the DSS,  *)
(* each reference's details from the USS that manages it.  Everything it   *)
(* reads can change while it reads on, and another check may be running.   *)
(*                                                                         *)
(* Each intent has an aircraft of its own.  The lifecycle operations are   *)
(* one step here (IntentLifecycle separates their reads from their         *)
(* writes), except AddOperationalVolume: what it writes, long after it has *)
(* found the version a draft, can change the volumes of a reservation.     *)
(* Preflight readiness and the publication to the DSS, which also gate     *)
(* activation, are left out (IntentLifecycle, DSSPublication).             *)
(***************************************************************************)
EXTENDS IntentRows, VolumeConflicts

CONSTANTS
    LocalIntents,   \* intents of this USS
    Peers,          \* intents other USSs have published to the DSS
    Checkers,       \* concurrent ActivateIntent handlers
    VolumeSets,     \* bound: the volumes a new intent may have
    ChangedSets,    \* bound: the volumes ModifyIntent may ask for
    AddedVolumes,   \* bound: the volumes AddOperationalVolume may ask for
    PeerIntents,    \* bound: what a peer may publish
    MaxPeerVersion, \* bound: versions of a peer's reference
    Setups,         \* bound: durable store, and whether the DSS is configured
    MaxChanges,     \* bound: ModifyIntent and AddOperationalVolume calls
    MaxChecks,      \* bound: ActivateIntent calls
    MaxReadFaults   \* bound: failed reads

\* A peer's intent under a DSS version: its state and its volumes.
PeerIntent == [state : {"Accepted", "Activated", "Nonconforming", "Contingent"},
               nominal : SUBSET Volume, off : SUBSET Volume]

ASSUME DeconflictionAssumption ==
    /\ PeerIntents \subseteq PeerIntent
    /\ VolumeSets \cup ChangedSets \subseteq SUBSET Volume
    /\ AddedVolumes \subseteq Volume
    /\ Setups \subseteq [store : {"memory", "postgres"}, dss : BOOLEAN]
    /\ MaxPeerVersion \in Nat /\ MaxChanges \in Nat
    /\ MaxChecks \in Nat /\ MaxReadFaults \in Nat
    /\ LocalIntents \cap Peers = {}

VARIABLES
    rows,        \* operational_intents: per intent and version
    volumes,     \* operational_volumes: per intent and version
    adding,      \* AddOperationalVolume requests that found a draft
    late,        \* history: versions whose volumes such a request changed
                 \* while they reserved airspace
    references,  \* the DSS: the reference of each peer
    served,      \* what each peer's USS answers for its intent
    findings,    \* conflict_findings: their posture, per intent and version
    checker,     \* per handler: where it is and what it has read
    setup,       \* the durable store, and whether the DSS is configured
    left         \* what is left of the bounds

deconflictionVars ==
    <<rows, volumes, adding, late, references, served, findings, checker,
      setup, left>>

-----------------------------------------------------------------------------
(* State.                                                                  *)

\* No reference in the DSS.
NoReference == [ver |-> 0, intent |-> CHOOSE p \in PeerIntents : TRUE]

\* A handler: the intent, version and revision ActivateIntent read, the version
\* and volumes CheckIntent read, what is left to read, the candidates that are
\* eligible, the volumes and the findings so far, and, for the property below,
\* what was in the way at first.
IdleChecker ==
    [pc |-> "idle", i |-> "none", ver |-> 1, rev |-> 0, of |-> 1, own |-> {},
     todo |-> {}, selected |-> {}, picked |-> {}, found |-> {}, threats |-> {}]

NoVolumes == [i \in LocalIntents |-> [v \in Versions |-> {}]]

\* Every intent is a draft with some volumes.
DeconflictionInit ==
    /\ rows = [i \in LocalIntents |-> [v \in Versions |->
                 IF v = 1 THEN [status |-> "draft", rev |-> 0] ELSE NoRow]]
    /\ \E vs \in [LocalIntents -> VolumeSets] :
          volumes = [i \in LocalIntents |-> [NoVolumes[i] EXCEPT ![1] = vs[i]]]
    /\ adding = {} /\ late = {}
    /\ references = [p \in Peers |-> NoReference]
    /\ served = references
    /\ findings = [i \in LocalIntents |-> [v \in Versions |-> "none"]]
    /\ checker = [h \in Checkers |-> IdleChecker]
    /\ setup \in Setups
    /\ left = [changes |-> MaxChanges, checks |-> MaxChecks,
               faults |-> MaxReadFaults]

Use(k) ==
    /\ left[k] > 0
    /\ left' = [left EXCEPT ![k] = @ - 1]
    /\ UNCHANGED setup

NoUse == UNCHANGED <<setup, left>>

-----------------------------------------------------------------------------
(* Intents.                                                                *)

SetRows(i, new) ==
    /\ rows' = [rows EXCEPT ![i] = new]
    /\ UNCHANGED <<adding, late, references, served, findings, checker>>

SubmitLocal(i, v) ==
    /\ IsLatest(rows[i], v) /\ rows[i][v].status \in Submittable
    /\ SetRows(i, UpdateRow(rows[i], v, "submitted"))
    /\ UNCHANGED volumes /\ NoUse

AcceptLocal(i, v) ==
    /\ IsLatest(rows[i], v) /\ rows[i][v].status \in Acceptable
    /\ SetRows(i, AcceptRow(rows[i], v))
    /\ UNCHANGED volumes /\ NoUse

\* CompleteIntent and CancelIntent, the latter also of a version that was never
\* accepted, which retires the accepted version under it.
EndLocal(i, v) ==
    /\ IsLatest(rows[i], v)
    /\ \/ /\ rows[i][v].status \in Completable
          /\ SetRows(i, UpdateRow(rows[i], v, "complete"))
       \/ /\ rows[i][v].status \in Cancelable
          /\ SetRows(i, UpdateRow(rows[i], v, "canceled"))
    /\ UNCHANGED volumes /\ NoUse

\* ModifyIntent: of an accepted version a new draft, otherwise in place, with the
\* volumes that are asked for or those of the version that is modified.
ModifyLocal(i, v) ==
    LET to == IF rows[i][v].status = "accepted" THEN v + 1 ELSE v IN
    /\ IsLatest(rows[i], v) /\ rows[i][v].status \in Modifiable
    /\ to <= MaxVersion
    /\ Use("changes")
    /\ SetRows(i, ReplaceRow(rows[i], v))
    /\ \E new \in ChangedSets \cup {volumes[i][v]} :
          volumes' = [volumes EXCEPT ![i][to] = new]

\* AddOperationalVolume reads the intent, which must be a draft (the count tells
\* requests for one version apart) ...
BeginAdd(i, v) ==
    /\ IsLatest(rows[i], v) /\ rows[i][v].status = "draft"
    /\ adding' = adding \cup {<<i, v, left.changes>>}
    /\ Use("changes")
    /\ UNCHANGED <<rows, volumes, late, references, served, findings, checker>>

\* ... and RecordOperationalVolume writes without looking at status or revision:
\* a further volume, or, under an ID that is there, another one in its place.
AddOperationalVolume(i, v) ==
    /\ \E r \in adding : r[1] = i /\ r[2] = v /\ adding' = adding \ {r}
    /\ \E new \in AddedVolumes, old \in {{}} \cup {{w} : w \in volumes[i][v]} :
          volumes' = [volumes EXCEPT ![i][v] = (@ \ old) \cup {new}]
    /\ late' = late \cup {x \in {<<i, v>>} : rows[i][v].status \in Reserving}
    /\ UNCHANGED <<rows, references, served, findings, checker>>
    /\ NoUse

-----------------------------------------------------------------------------
(* Other USSs.                                                             *)

\* A peer writes its reference to the DSS ...
PeerPublishes(p) ==
    /\ setup.dss /\ references[p].ver < MaxPeerVersion
    /\ \E new \in PeerIntents :
          references' = [references EXCEPT ![p] =
                           [ver |-> @.ver + 1, intent |-> new]]
    /\ UNCHANGED <<rows, volumes, adding, late, served, findings, checker>>
    /\ NoUse

\* ... and then serves the details under the new version.
PeerServes(p) ==
    /\ served[p] # references[p]
    /\ served' = [served EXCEPT ![p] = references[p]]
    /\ UNCHANGED <<rows, volumes, adding, late, references, findings, checker>>
    /\ NoUse

PeerVolumes(r) == r.intent.nominal \cup r.intent.off

-----------------------------------------------------------------------------
(* CheckIntent, as ActivateIntent runs it.                                 *)

ReadStep(h, c) ==
    /\ checker' = [checker EXCEPT ![h] = c]
    /\ UNCHANGED <<rows, volumes, adding, late, references, served, findings>>

\* Where the next provider, or the end, is.
AfterLocal == IF setup.dss THEN "query" ELSE "finalize"

\* The local provider reads the rows of all candidates, then the volumes of the
\* selected ones.
NextRead(todo, selected) ==
    IF todo # {} THEN "hydrate" ELSE IF selected # {} THEN "select" ELSE AfterLocal

\* The local versions that reserve airspace, and the peer references, that the
\* given volumes of intent i conflict with.
Threats(i, own) ==
    {x \in (LocalIntents \ {i}) \X Versions :
        /\ rows[x[1]][x[2]].status \in Reserving
        /\ AnyConflict(own, volumes[x[1]][x[2]])}
    \cup {x \in Peers \X (1..MaxPeerVersion) :
        /\ setup.dss /\ references[x[1]].ver = x[2]
        /\ served[x[1]] = references[x[1]]
        /\ AnyConflict(own, PeerVolumes(references[x[1]]))}

\* ActivateIntent reads the accepted intent.
BeginActivation(h, i, v) ==
    /\ checker[h].pc = "idle"
    /\ IsLatest(rows[i], v) /\ rows[i][v].status = "accepted"
    /\ ReadStep(h, [IdleChecker EXCEPT !.pc = "check", !.i = i, !.ver = v,
                                       !.rev = rows[i][v].rev])
    /\ Use("checks")

\* loadIntent: the latest version once more, with its volumes.  Without any
\* volume there is nothing to ask the providers.
LoadIntent(h) ==
    LET c == checker[h] IN
    /\ c.pc = "check"
    /\ \E v \in Versions :
          /\ IsLatest(rows[c.i], v)
          /\ LET own == volumes[c.i][v] IN
             ReadStep(h, [c EXCEPT
                !.pc = IF own = {} THEN "finalize" ELSE "candidates",
                !.of = v, !.own = own,
                !.found = IF own = {} THEN {"indeterminate"} ELSE {},
                !.threats = Threats(c.i, own)])
    /\ NoUse

\* FindCandidates: versions with a volume that the query selects.
FindCandidates(h) ==
    LET c == checker[h]
        all == {x \in (LocalIntents \ {c.i}) \X Versions :
                  \E w \in volumes[x[1]][x[2]] : Selects(setup.store, c.own, w)}
    IN
    /\ c.pc = "candidates"
    /\ \/ /\ ReadStep(h, [c EXCEPT
                !.pc = NextRead(all, {}),
                !.todo = all])
          /\ NoUse
       \/ /\ Use("faults")
          /\ ReadStep(h, [c EXCEPT !.pc = AfterLocal,
                                   !.found = @ \cup {"indeterminate"}])

\* Wrong: only flights under way count.
EligibleActive(status) == status = "active"

\* candidateConflictEligible.
Eligible(status) == status \in {"accepted", "active"}

\* The candidates' rows are read in order of intent and version; of an intent
\* the highest eligible version is selected.
HydrateCandidate(h) ==
    LET c == checker[h] IN
    /\ c.pc = "hydrate"
    /\ \E x \in c.todo :
          /\ \A y \in c.todo : y[1] = x[1] => y[2] >= x[2]
          /\ LET rest == c.todo \ {x}
                 kept == IF Eligible(rows[x[1]][x[2]].status)
                         THEN {y \in c.selected : y[1] # x[1]} \cup {x}
                         ELSE c.selected
             IN  \/ /\ ReadStep(h, [c EXCEPT !.pc = NextRead(rest, kept),
                                   !.todo = rest, !.selected = kept])
                    /\ NoUse
                 \/ /\ Use("faults")
                    /\ ReadStep(h, [c EXCEPT !.pc = NextRead(rest, c.selected),
                                   !.todo = rest,
                                   !.found = @ \cup {"indeterminate"}])

\* ListOperationalVolumes and volumesForVersion of one of the selected versions,
\* whose row and volumes may have changed since.
ReadCandidate(h) ==
    LET c == checker[h] IN
    /\ c.pc = "select"
    /\ \E x \in c.selected :
          LET rest == c.selected \ {x}
              next == [c EXCEPT !.pc = NextRead({}, rest), !.selected = rest]
          IN  \/ /\ ReadStep(h, [next EXCEPT !.picked = @ \cup
                                    {<<x[1], volumes[x[1]][x[2]]>>}])
                 /\ NoUse
              \/ /\ Use("faults")
                 /\ ReadStep(h, [next EXCEPT !.found = @ \cup {"indeterminate"}])

\* QueryOperationalIntentReferences, for each own volume the DSS can be asked
\* about; a volume it cannot be asked about is a finding.
QueryReferences(h) ==
    LET c == checker[h]
        asked == {v \in c.own : Queryable(v)}
        all == {<<p, references[p].ver>> : p \in
                  {p \in Peers : /\ references[p].ver > 0
                                 /\ \E v \in asked, w \in PeerVolumes(references[p]) :
                                       InArea(v, w)}}
    IN
    /\ c.pc = "query"
    /\ \/ /\ ReadStep(h, [c EXCEPT
                !.pc = IF all = {} THEN "finalize" ELSE "details",
                !.todo = all,
                !.found = @ \cup IF asked = c.own THEN {} ELSE {"indeterminate"}])
          /\ NoUse
       \/ /\ Use("faults")
          /\ ReadStep(h, [c EXCEPT !.pc = "finalize",
                                   !.found = @ \cup {"indeterminate"}])

\* validateVolumeSets.
SetsMatchState(r) ==
    CASE r.state \in {"Accepted", "Activated"} -> r.nominal # {} /\ r.off = {}
      [] r.state = "Nonconforming" -> r.nominal # {} /\ r.off # {}
      [] r.state = "Contingent" -> r.nominal = {} /\ r.off # {}

\* fromSCDIntent and validateReturnedReference: the details must be those of
\* the reference that was found.
AcceptsDetails(p, v) ==
    /\ served[p].ver = v
    /\ SetsMatchState(served[p].intent)
    /\ \A w \in PeerVolumes(served[p]) : Readable(w)

\* GetOperationalIntent from the managing USS.
GetDetails(h) ==
    LET c == checker[h] IN
    /\ c.pc = "details"
    /\ \E x \in c.todo :
          LET rest == c.todo \ {x}
              next == [c EXCEPT !.todo = rest,
                         !.pc = IF rest = {} THEN "finalize" ELSE "details"]
          IN  \/ /\ AcceptsDetails(x[1], x[2])
                 /\ ReadStep(h, [next EXCEPT !.picked = @ \cup
                                   {<<x[1], PeerVolumes(served[x[1]])>>}])
                 /\ NoUse
              \/ /\ ~AcceptsDetails(x[1], x[2])
                 /\ ReadStep(h, [next EXCEPT !.found = @ \cup {"indeterminate"}])
                 /\ NoUse
              \/ /\ Use("faults")
                 /\ ReadStep(h, [next EXCEPT !.found = @ \cup {"indeterminate"}])

\* evaluateConflicts, finalize and ReplaceConflictFindings; ActivateIntent goes
\* on when the posture is clear.
Finalize(h) ==
    LET c == checker[h]
        all == c.found \cup
                 EvaluateConflicts(c.own, UNION {x[2] : x \in c.picked})
    IN
    /\ c.pc = "finalize"
    /\ findings' = [findings EXCEPT ![c.i][c.of] = Posture(all)]
    /\ checker' = [checker EXCEPT ![h] =
                     IF Posture(all) = "clear"
                     THEN [IdleChecker EXCEPT !.pc = "commit", !.i = c.i,
                             !.ver = c.ver, !.rev = c.rev, !.of = c.of,
                             !.threats = c.threats]
                     ELSE IdleChecker]
    /\ UNCHANGED <<rows, volumes, adding, late, references, served>>
    /\ NoUse

\* ActivateOperationalIntent: refused when the row read first has changed.
CommitActivation(h) ==
    LET c == checker[h] IN
    /\ c.pc = "commit"
    /\ rows' = IF Unchanged(rows[c.i], c.ver, c.rev)
               THEN [rows EXCEPT ![c.i] = UpdateRow(rows[c.i], c.ver, "active")]
               ELSE rows
    /\ checker' = [checker EXCEPT ![h] = IdleChecker]
    /\ UNCHANGED <<volumes, adding, late, references, served, findings>>
    /\ NoUse

CheckStep(h) ==
    \/ LoadIntent(h) \/ FindCandidates(h)
    \/ HydrateCandidate(h) \/ ReadCandidate(h)
    \/ QueryReferences(h) \/ GetDetails(h) \/ Finalize(h)

DeconflictionNext ==
    \/ \E i \in LocalIntents, v \in Versions :
          \/ SubmitLocal(i, v) \/ AcceptLocal(i, v)
          \/ EndLocal(i, v) \/ ModifyLocal(i, v)
          \/ BeginAdd(i, v) \/ AddOperationalVolume(i, v)
          \/ \E h \in Checkers : BeginActivation(h, i, v)
    \/ \E p \in Peers : PeerPublishes(p) \/ PeerServes(p)
    \/ \E h \in Checkers : CheckStep(h) \/ CommitActivation(h)

Spec == DeconflictionInit /\ [][DeconflictionNext]_deconflictionVars

-----------------------------------------------------------------------------
(* Properties.                                                             *)

\* Two active intents of this USS do not conflict as long as their volumes are
\* locked, that is, as long as no AddOperationalVolume that found a draft wrote
\* to them after they were accepted.  Neither check locks anything: each intent
\* reserves its airspace before its own check starts, so that whichever check
\* starts last sees the other intent.
NoConflictingActives ==
    \A i, j \in LocalIntents : \A v, w \in Versions :
        /\ i # j
        /\ rows[i][v].status = "active" /\ rows[j][w].status = "active"
        /\ <<i, v>> \notin late /\ <<j, w>> \notin late
        => ~AnyConflict(volumes[i][v], volumes[j][w])

\* A check that comes out clear has missed nothing that was there all along:
\* no local reservation and no peer reference that conflicted when the check
\* read its volumes is still there, whatever store, provider or geometry.  A
\* reservation whose volumes were changed under it is not there any more.
ClearMissesNothing ==
    \A h \in Checkers : checker[h].pc = "commit" =>
        \A x \in checker[h].threats :
            IF x[1] \in Peers
            THEN references[x[1]].ver # x[2]
            ELSE rows[x[1]][x[2]].status \notin Reserving \/ x \in late

=============================================================================
