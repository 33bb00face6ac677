--------------------------- MODULE DSSPublication ---------------------------
(***************************************************************************)
(* Publication of one operational intent to the discovery and              *)
(* synchronization service (DSS): the lifecycle transitions that request a *)
(* desired external state, the durable publication record that is both the *)
(* outbox entry and the confirmed state, the leased reconciler that talks  *)
(* to the DSS, and the synchronous activation with its compensation.       *)
(*                                                                         *)
(* Processes are the background publication workers, one per API replica,  *)
(* and the HTTP handlers that run ActivateIntent.  A process runs the      *)
(* reconciler in small steps: every store transaction and every DSS call   *)
(* is one step, so state read in one step may be stale in the next.  The   *)
(* other lifecycle operations are one transaction fenced by the row's      *)
(* revision and are one step here (IntentLifecycle splits them).           *)
(*                                                                         *)
(* A disturbance is whatever the environment can do to a step: a lost      *)
(* request or response, a failed read, a conflicting airspace, a crash, a  *)
(* holder slower than its lease.  How many happen is bounded by MaxFaults. *)
(*                                                                         *)
(* Definitions whose comment starts with "Wrong:" are not part of the      *)
(* specification.  Each states a plausible mistake in the definition that  *)
(* follows it, to show which property would notice.                        *)
(***************************************************************************)
EXTENDS IntentRows

CONSTANTS
    Workers,         \* background publication workers
    Activators,      \* concurrent ActivateIntent handlers
    MaxFaults,       \* bound: disturbances
    MaxLate,         \* bound: DSS requests processed after their call ended
    MaxEdits,        \* bound: in-place ModifyIntent calls
    MaxActivations   \* bound: ActivateIntent calls

ASSUME BoundsAssumption ==
    /\ MaxFaults \in Nat /\ MaxLate \in Nat
    /\ MaxEdits \in Nat /\ MaxActivations \in Nat

ASSUME ProcessesAssumption ==
    /\ Workers \cap Activators = {}
    /\ "free" \notin Workers \cup Activators

Procs == Workers \cup Activators

VARIABLES
    rows,      \* operational_intents: the versions of the intent
    pub,       \* operational_intent_publications: the one publication row
    lease,     \* who holds the publication's lease_until, or "free"
    dss,       \* the operational-intent reference the DSS keeps
    ovns,      \* OVNs the DSS has issued so far
    late,      \* requests the DSS may still process after their call ended
    outbox,    \* peer_notifications
    pc, job,   \* per process: next step, and the publication it works on
    call,      \* per activator: mode of its reconciliation and the intent read
    budget     \* what is left of the bounds

vars == <<rows, pub, lease, dss, ovns, late, outbox, pc, job, call, budget>>

-----------------------------------------------------------------------------
(* State.                                                                  *)

ExternalState == {"Accepted", "Activated", "Withdrawn"}
SyncStatus == {"pending", "processing", "confirmed", "retrying", "blocked",
               "withdrawn"}

\* OperationalIntentPublication.  Times, attempt counts and messages are left
\* out; the lease is the variable lease; ovn 0 stands for the empty OVN,
\* published version 0 for none, sync "absent" for a row that does not exist.
Publication ==
    [rev : Nat, desVer : Versions, desState : ExternalState,
     pubVer : 0..MaxVersion, confState : ExternalState \cup {"none"},
     sync : SyncStatus \cup {"absent"}, dssVer : Nat, ovn : Nat]

NoPublication ==
    [rev |-> 0, desVer |-> 1, desState |-> "Accepted", pubVer |-> 0,
     confState |-> "none", sync |-> "absent", dssVer |-> 0, ovn |-> 0]

\* The DSS reference: its state, version, OVN, and the intent version whose
\* extents it holds.
Reference ==
    [state : {"Accepted", "Activated", "absent"}, ver : Nat, ovn : Nat,
     content : 0..MaxVersion]

NoReference == [state |-> "absent", ver |-> 0, ovn |-> 0, content |-> 0]

\* A DSS mutation: desired "Withdrawn" is a delete, otherwise it is a create
\* (ovn 0) or an update of the reference with that OVN.
Mutation == [state : ExternalState, ovn : Nat, content : Versions]

\* An outbound notification: a changed reference of DSS version dssVer, or,
\* with dssVer 0, the withdrawal of the intent.
Notification == [dssVer : Nat, ver : Versions]

Modes == {"none", "backfill", "activate", "compensate"}

Call == [mode : Modes, ver : Versions, rev : Nat,
         status : IntentStatus, target : Versions, desired : ExternalState]

NoCall == [mode |-> "none", ver |-> 1, rev |-> 0, status |-> "draft",
           target |-> 1, desired |-> "Accepted"]

Reconciling == {"claimed", "ready", "mutating", "readback", "recover",
                "write"}
Activating == {"getpub", "backfill", "request", "reconcile", "verify",
               "commit", "compensate", "comppub", "comprequest"}

BudgetKinds == {"faults", "late", "edits", "activations"}

TypeOK ==
    /\ rows \in [Versions -> Row]
    /\ pub \in Publication
    /\ lease \in Procs \cup {"free"}
    /\ dss \in Reference
    /\ ovns \in Nat
    /\ late \subseteq Mutation
    /\ outbox \subseteq Notification
    /\ pc \in [Procs -> {"idle"} \cup Reconciling \cup Activating]
    /\ job \in [Procs -> Publication]
    /\ call \in [Procs -> Call]
    /\ budget \in [BudgetKinds -> Nat]

\* An intent as CreateIntent leaves it, one in review (seeded), or one that
\* was accepted before publication was configured.
Init ==
    /\ \E s \in {"draft", "review", "accepted"} :
          rows = [v \in Versions |->
                    IF v = 1 THEN [status |-> s, rev |-> 0] ELSE NoRow]
    /\ pub = NoPublication
    /\ lease = "free"
    /\ dss = NoReference
    /\ ovns = 0
    /\ late = {}
    /\ outbox = {}
    /\ pc = [p \in Procs |-> "idle"]
    /\ job = [p \in Procs |-> NoPublication]
    /\ call = [p \in Procs |-> NoCall]
    /\ budget = [k \in BudgetKinds |->
                   CASE k = "faults" -> MaxFaults
                     [] k = "late" -> MaxLate
                     [] k = "edits" -> MaxEdits
                     [] k = "activations" -> MaxActivations]

Spend(k) == budget[k] > 0 /\ budget' = [budget EXCEPT ![k] = @ - 1]

Goto(p, l) == pc' = [pc EXCEPT ![p] = l]

-----------------------------------------------------------------------------
(* Lifecycle operations of the intent service.                             *)

\* requestPublicationTx: the request coalesces onto the existing row.  It
\* keeps the confirmed DSS identity and the lease, unless the reference is
\* known to be gone and is wanted again.
Requested(v, s) ==
    LET reset == pub.sync = "withdrawn" /\ s # "Withdrawn"
    IN  [pub EXCEPT
            !.rev = IF pub.sync = "absent" THEN 0 ELSE @ + 1,
            !.desVer = v, !.desState = s, !.sync = "pending",
            !.pubVer = IF reset THEN 0 ELSE @,
            !.dssVer = IF reset THEN 0 ELSE @,
            !.ovn = IF reset THEN 0 ELSE @]

RequestPublication(v, s) == Exists(rows, v) /\ pub' = Requested(v, s)

external == <<dss, ovns, late>>
local == <<pc, job, call>>

SubmitIntent(v) ==
    /\ IsLatest(rows, v) /\ rows[v].status \in Submittable
    /\ rows' = UpdateRow(rows, v, "submitted")
    /\ UNCHANGED <<pub, lease, external, outbox, local, budget>>

\* Wrong: the local status is requested as the external state.
AcceptIntentLocalState(v) ==
    /\ IsLatest(rows, v) /\ rows[v].status \in Acceptable
    /\ rows' = AcceptRow(rows, v)
    /\ RequestPublication(v, "accepted")
    /\ UNCHANGED <<lease, external, outbox, local, budget>>

\* AcceptOperationalIntentAndRequestPublication: one transaction.
AcceptIntent(v) ==
    /\ IsLatest(rows, v) /\ rows[v].status \in Acceptable
    /\ rows' = AcceptRow(rows, v)
    /\ RequestPublication(v, "Accepted")
    /\ UNCHANGED <<lease, external, outbox, local, budget>>

ModifyIntent(v) ==
    /\ IsLatest(rows, v) /\ rows[v].status \in Modifiable
    /\ \/ rows[v].status = "accepted" /\ v < MaxVersion /\ UNCHANGED budget
       \/ rows[v].status # "accepted" /\ Spend("edits")
    /\ rows' = ReplaceRow(rows, v)
    /\ UNCHANGED <<pub, lease, external, outbox, local>>

\* transitionIntentWithPublication: one transaction.
EndIntent(v, s) ==
    /\ IsLatest(rows, v)
    /\ rows' = UpdateRow(rows, v, s)
    /\ RequestPublication(v, "Withdrawn")
    /\ UNCHANGED <<lease, external, outbox, local, budget>>

CompleteIntent(v) == rows[v].status \in Completable /\ EndIntent(v, "complete")
CancelIntent(v) == rows[v].status \in Cancelable /\ EndIntent(v, "canceled")

-----------------------------------------------------------------------------
(* The DSS.                                                                *)

\* Whether the DSS takes a mutation: a create needs the reference absent, an
\* update or a delete needs it present with the OVN that was sent.
Takes(m) ==
    IF m.ovn = 0 /\ m.state # "Withdrawn"
    THEN dss.state = "absent"
    ELSE dss.state # "absent" /\ dss.ovn = m.ovn

\* The reference after the mutation, and the OVNs issued.
Mutated(m) ==
    IF m.state = "Withdrawn" THEN NoReference
    ELSE [state |-> m.state, ver |-> dss.ver + 1, ovn |-> ovns + 1,
          content |-> m.content]

Mutate(m) ==
    /\ dss' = Mutated(m)
    /\ ovns' = IF m.state = "Withdrawn" THEN ovns ELSE ovns + 1

\* A request that outlived its call is processed, or refused, at last.
LateMutation(m) ==
    /\ m \in late
    /\ late' = late \ {m}
    /\ IF Takes(m) THEN Mutate(m) ELSE UNCHANGED <<dss, ovns>>
    /\ UNCHANGED <<rows, pub, lease, outbox, local, budget>>

-----------------------------------------------------------------------------
(* The reconciler: ReconcileIntent, ReconcileDue and reconcileClaimed.     *)

\* Where a process continues when its reconciliation returns.
ReturnTo(mode, ok) ==
    CASE mode = "backfill" -> (IF ok THEN "getpub" ELSE "idle")
      [] mode = "activate" -> (IF ok THEN "verify" ELSE "compensate")
      [] OTHER -> "idle"

Leave(p, l) ==
    /\ pc' = [pc EXCEPT ![p] = l]
    /\ job' = [job EXCEPT ![p] = NoPublication]
    /\ call' = IF l = "idle" THEN [call EXCEPT ![p] = NoCall] ELSE call

Return(p, ok) == Leave(p, ReturnTo(call[p].mode, ok))

\* claimPublication.
Claimed == [pub EXCEPT !.rev = @ + 1, !.sync = "processing"]

Claim(p) ==
    /\ lease = "free"
    /\ pub' = Claimed
    /\ lease' = p
    /\ job' = [job EXCEPT ![p] = Claimed]
    /\ Goto(p, "claimed")
    /\ UNCHANGED <<rows, external, outbox, call, budget>>

\* Wrong: work that a crashed worker left in processing is never due.
ClaimDueUnclaimed(w) ==
    /\ pc[w] = "idle"
    /\ pub.sync \in {"pending", "retrying"}
    /\ Claim(w)

\* ClaimDueOperationalIntentPublications; the retry delay is over.
ClaimDue(w) ==
    /\ pc[w] = "idle"
    /\ pub.sync \in {"pending", "processing", "retrying"}
    /\ Claim(w)

\* ClaimOperationalIntentPublication: by id, whatever the status.
ClaimById(a) ==
    /\ pc[a] = "reconcile"
    /\ \/ Claim(a)
       \/ /\ lease # "free"
          /\ Return(a, FALSE)
          /\ UNCHANGED <<rows, pub, lease, external, outbox, budget>>

\* recordPublicationFailure, up to the write: what is recorded for job j.
Failed(j, permanent) ==
    [j EXCEPT !.sync = IF permanent THEN "blocked" ELSE "retrying"]

\* applyReceipt.
WithReceipt(j, ref) == [j EXCEPT !.dssVer = ref.ver, !.ovn = ref.ovn]

\* confirmWithdrawal, up to the write.
WithdrawnJob(j) ==
    [j EXCEPT !.sync = "withdrawn", !.confState = "Withdrawn", !.pubVer = 0]

Step(p, j, l) ==
    /\ job' = [job EXCEPT ![p] = j]
    /\ Goto(p, l)
    /\ UNCHANGED <<rows, pub, lease, outbox, call>>

\* Wrong: no known OVN is taken for no reference.
LookUpTrusting(p) ==
    /\ pc[p] = "claimed"
    /\ job[p].desState = "Withdrawn"
    /\ IF job[p].ovn # 0
       THEN Step(p, job[p], "ready")
       ELSE Step(p, WithdrawnJob(job[p]), "write")
    /\ UNCHANGED <<external, budget>>

\* A withdrawal without a known OVN first asks the DSS for the reference.
LookUp(p) ==
    /\ pc[p] = "claimed"
    /\ job[p].desState = "Withdrawn"
    /\ \/ /\ job[p].ovn # 0
          /\ Step(p, job[p], "ready") /\ UNCHANGED budget
       \/ /\ job[p].ovn = 0 /\ dss.state = "absent"
          /\ Step(p, WithdrawnJob(job[p]), "write") /\ UNCHANGED budget
       \/ /\ job[p].ovn = 0 /\ dss.state # "absent"
          /\ Step(p, WithReceipt(job[p], dss), "ready") /\ UNCHANGED budget
       \/ /\ job[p].ovn = 0 /\ Spend("faults")
          /\ Step(p, Failed(job[p], FALSE), "write")
    /\ UNCHANGED external

\* The fresh deconfliction check before a create or update: clear, unable to
\* tell (retried) or conflicting (blocked).
Check(p) ==
    /\ pc[p] = "claimed"
    /\ job[p].desState # "Withdrawn"
    /\ \/ Step(p, job[p], "ready") /\ UNCHANGED budget
       \/ \E permanent \in BOOLEAN :
             Spend("faults") /\ Step(p, Failed(job[p], permanent), "write")
    /\ UNCHANGED external

\* Wrong: the lease is renewed whatever the revision.
RenewLeaseUnfenced(p) ==
    /\ pc[p] = "ready"
    /\ lease' = p
    /\ Goto(p, "mutating")
    /\ UNCHANGED <<rows, pub, external, outbox, job, call, budget>>

\* RenewOperationalIntentPublicationLease compares the revision only.
RenewLease(p) ==
    /\ pc[p] = "ready"
    /\ IF job[p].rev = pub.rev
       THEN /\ lease' = p
            /\ Goto(p, "mutating")
            /\ UNCHANGED <<job, call>>
       ELSE Return(p, FALSE) /\ UNCHANGED lease
    /\ UNCHANGED <<rows, pub, external, outbox, budget>>

MutationOf(j) ==
    [state |-> j.desState, ovn |-> j.ovn, content |-> j.desVer]

\* What an answered create or update lets the process record.
PublishedJob(j, ref) ==
    [WithReceipt(j, ref) EXCEPT !.pubVer = j.desVer, !.confState = j.desState]

\* CreateOperationalIntent or UpdateOperationalIntent answered: confirmed, or
\* retried when no notification can be built for a subscriber, or refused.
Publish(p) ==
    LET m == MutationOf(job[p])
        published == PublishedJob(job[p], Mutated(m))
    IN
    /\ pc[p] = "mutating"
    /\ job[p].desState # "Withdrawn"
    /\ \/ /\ Takes(m) /\ Mutate(m)
          /\ Step(p, [published EXCEPT !.sync = "confirmed"], "write")
          /\ UNCHANGED budget
       \/ /\ Takes(m) /\ Mutate(m) /\ Spend("faults")
          /\ Step(p, Failed(published, FALSE), "write")
       \/ /\ ~Takes(m)
          /\ Step(p, Failed(job[p], FALSE), "readback")
          /\ UNCHANGED <<dss, ovns, budget>>
    /\ UNCHANGED late

\* Wrong: a delete answered 404 is confirmed without its subscribers.
WithdrawUnannounced(p) ==
    LET m == MutationOf(job[p]) IN
    /\ pc[p] = "mutating"
    /\ job[p].desState = "Withdrawn"
    /\ \/ Takes(m) /\ Mutate(m) /\ Step(p, WithdrawnJob(job[p]), "write")
       \/ /\ dss.state = "absent"
          /\ Step(p, [WithdrawnJob(job[p]) EXCEPT !.ovn = 0], "write")
          /\ UNCHANGED <<dss, ovns>>
    /\ UNCHANGED <<late, budget>>

\* DeleteOperationalIntent answered: deleted, gone already (404), or the OVN
\* is stale (409).
Withdraw(p) ==
    LET m == MutationOf(job[p]) IN
    /\ pc[p] = "mutating"
    /\ job[p].desState = "Withdrawn"
    /\ \/ Takes(m) /\ Mutate(m) /\ Step(p, WithdrawnJob(job[p]), "write")
       \/ /\ dss.state = "absent"
          /\ Step(p, job[p], "recover") /\ UNCHANGED <<dss, ovns>>
       \/ /\ dss.state # "absent" /\ ~Takes(m)
          /\ Step(p, Failed(job[p], FALSE), "readback")
          /\ UNCHANGED <<dss, ovns>>
    /\ UNCHANGED <<late, budget>>

\* Where a mutation that failed without an answer continues: a create or an
\* update is followed by a read, a delete is recorded as failed at once.
AfterFailure(j) == IF j.desState = "Withdrawn" THEN "write" ELSE "readback"

\* The call fails: the request is lost or refused for good (only a create or
\* update is refused with 400 or 413), the response is lost, or the call ends
\* while the DSS still has the request.
MutationFails(p) ==
    LET m == MutationOf(job[p])
        end == AfterFailure(job[p])
    IN
    /\ pc[p] = "mutating"
    /\ \/ \E permanent \in BOOLEAN :
             /\ permanent => job[p].desState # "Withdrawn"
             /\ Spend("faults") /\ Step(p, Failed(job[p], permanent), end)
             /\ UNCHANGED external
       \/ /\ Takes(m) /\ Mutate(m) /\ Spend("faults")
          /\ Step(p, Failed(job[p], FALSE), end) /\ UNCHANGED late
       \/ /\ Spend("late") /\ late' = late \cup {m}
          /\ Step(p, Failed(job[p], FALSE), end) /\ UNCHANGED <<dss, ovns>>

\* Wrong: the reference read back is confirmed without another update.
ReadBackJobConfirmed(j) ==
    IF j.desState # "Withdrawn" /\ dss.ver > j.dssVer /\ dss.state = j.desState
    THEN [WithReceipt(j, dss) EXCEPT !.sync = "confirmed",
             !.pubVer = j.desVer, !.confState = dss.state]
    ELSE WithReceipt(j, dss)

\* The record to write after the reference was read back: a newer reference
\* in the desired state is taken for the lost mutation.
ReadBackJob(j) ==
    IF j.desState # "Withdrawn" /\ dss.ver > j.dssVer /\ dss.state = j.desState
    THEN [WithReceipt(Failed(j, FALSE), dss) EXCEPT
             !.pubVer = j.desVer, !.confState = dss.state]
    ELSE WithReceipt(j, dss)

\* GetOperationalIntentReference after a failed create or update, or after a
\* delete refused for its OVN.
ReadBack(p) ==
    /\ pc[p] = "readback"
    /\ \/ /\ dss.state # "absent"
          /\ Step(p, ReadBackJob(job[p]), "write") /\ UNCHANGED budget
       \/ /\ dss.state = "absent"
          /\ Step(p, job[p], "write") /\ UNCHANGED budget
       \/ Spend("faults") /\ Step(p, job[p], "write")
    /\ UNCHANGED external

\* recoverWithdrawalReceipt: the subscribers are found from the volumes.
RecoverWithdrawal(p) ==
    /\ pc[p] = "recover"
    /\ \/ Step(p, WithdrawnJob(job[p]), "write") /\ UNCHANGED budget
       \/ Spend("faults") /\ Step(p, Failed(job[p], FALSE), "write")
    /\ UNCHANGED external

\* buildPeerNotifications: a confirmed reference is announced under its DSS
\* version, a withdrawal only when there was a reference.
Notifications(j) ==
    CASE j.sync = "confirmed" -> {[dssVer |-> j.dssVer, ver |-> j.pubVer]}
      [] j.sync = "withdrawn" /\ j.ovn # 0 ->
            {[dssVer |-> 0, ver |-> j.desVer]}
      [] OTHER -> {}

\* enqueuePeerNotifications: ON CONFLICT (id) DO NOTHING.  The id is derived
\* from the DSS version, or from the intent version of a withdrawal.
SameId(m, n) == m.dssVer = n.dssVer /\ (m.dssVer = 0 => m.ver = n.ver)

Enqueued(notes) ==
    outbox \cup {n \in notes : \A m \in outbox : ~SameId(m, n)}

\* Wrong: the result is written whatever the revision.
WriteResultUnfenced(p) ==
    /\ pc[p] = "write"
    /\ pub' = [job[p] EXCEPT !.rev = pub.rev + 1]
    /\ lease' = "free"
    /\ outbox' = Enqueued(Notifications(job[p]))
    /\ Return(p, job[p].sync \in {"confirmed", "withdrawn"})
    /\ UNCHANGED <<rows, external, budget>>

\* UpdateOperationalIntentPublication and ConfirmOperationalIntentPublication:
\* fenced by the claimed revision, lease released, outbox in the same
\* transaction.
WriteResult(p) ==
    /\ pc[p] = "write"
    /\ IF job[p].rev = pub.rev
       THEN /\ pub' = [job[p] EXCEPT !.rev = @ + 1]
            /\ lease' = "free"
            /\ outbox' = Enqueued(Notifications(job[p]))
            /\ Return(p, job[p].sync \in {"confirmed", "withdrawn"})
       ELSE Return(p, FALSE) /\ UNCHANGED <<pub, lease, outbox>>
    /\ UNCHANGED <<rows, external, budget>>

\* The lease runs out.  A renewed lease (request timeout plus 30 seconds)
\* outlasts the DSS call it covers; a holder slower than its lease in any
\* other step is a disturbance.
ExpireLease ==
    /\ lease # "free"
    /\ pc[lease] # "mutating"
    /\ IF pc[lease] \in Reconciling THEN Spend("faults") ELSE UNCHANGED budget
    /\ lease' = "free"
    /\ UNCHANGED <<rows, pub, external, outbox, local>>

\* A store error or an expired request context ends the reconciliation with
\* an error, or the replica crashes and the process starts over.
Abandon(p) ==
    /\ pc[p] # "idle"
    /\ Spend("faults")
    /\ \/ pc[p] \in Reconciling /\ Return(p, FALSE)
       \/ Leave(p, "idle")
    /\ UNCHANGED <<rows, pub, lease, external, outbox>>

-----------------------------------------------------------------------------
(* ActivateIntent and compensatePublishedActivation.                       *)

\* A step of an activator outside the reconciler that writes nothing shared.
Proceed(a, l) ==
    /\ Leave(a, l)
    /\ UNCHANGED <<rows, pub, lease, external, outbox, budget>>

\* Wrong: the row read earlier only has to exist.
IsCurrentUnfenced(c) == Exists(rows, c.ver)

\* RequestOperationalIntentPublicationIfCurrent: refused unless the row read
\* earlier is still the latest and has its revision and status.
IsCurrent(c) == Unchanged(rows, c.ver, c.rev) /\ rows[c.ver].status = c.status

RequestIfCurrent(a, v, s, mode) ==
    \/ /\ IsCurrent(call[a])
       /\ RequestPublication(v, s)
       /\ call' = [call EXCEPT ![a].mode = mode]
       /\ Goto(a, "reconcile")
       /\ UNCHANGED <<rows, lease, external, outbox, job, budget>>
    \/ ~IsCurrent(call[a]) /\ Proceed(a, "idle")

\* The accepted intent is read; deconfliction is clear, preflight ready.
BeginActivation(a) ==
    /\ pc[a] = "idle"
    /\ Spend("activations")
    /\ \E v \in Versions :
          /\ IsLatest(rows, v) /\ rows[v].status = "accepted"
          /\ call' = [call EXCEPT ![a] =
                        [NoCall EXCEPT !.mode = "activate", !.ver = v,
                           !.rev = rows[v].rev, !.status = "accepted"]]
    /\ Goto(a, "getpub")
    /\ UNCHANGED <<rows, pub, lease, external, outbox, job>>

\* The publication must be confirmed for the version read.
ConfirmedFor(v) == pub.sync = "confirmed" /\ pub.pubVer = v

\* Wrong: any confirmed publication lets the activation commit.
ReadPublicationEager(a) ==
    /\ pc[a] = "getpub"
    /\ Proceed(a, CASE pub.sync = "absent" -> "backfill"
                    [] ConfirmedFor(call[a].ver) -> "commit"
                    [] OTHER -> "idle")

\* GetPublication: the first read of the publication row.
ReadPublication(a) ==
    /\ pc[a] = "getpub"
    /\ LET c == call[a] IN
       Proceed(a, CASE pub.sync = "absent" -> "backfill"
                    [] ConfirmedFor(c.ver) /\ pub.confState = "Accepted" ->
                          "request"
                    [] ConfirmedFor(c.ver) /\ pub.confState = "Activated" ->
                          "commit"
                    [] OTHER -> "idle")

\* An intent accepted before publication was enabled is published first.
BackfillAcceptance(a) ==
    /\ pc[a] = "backfill"
    /\ RequestIfCurrent(a, call[a].ver, "Accepted", "backfill")

RequestActivation(a) ==
    /\ pc[a] = "request"
    /\ RequestIfCurrent(a, call[a].ver, "Activated", "activate")

\* The second read of the publication row.
VerifyActivation(a) ==
    /\ pc[a] = "verify"
    /\ Proceed(a, IF ConfirmedFor(call[a].ver) /\ pub.confState = "Activated"
                  THEN "commit" ELSE "idle")

\* ActivateOperationalIntent, refused when the row changed, when the aircraft
\* has another active intent or a mission deployment is outstanding; a refusal
\* is compensated.
CommitActivation(a) ==
    /\ pc[a] = "commit"
    /\ LET c == call[a] IN
       \/ /\ Unchanged(rows, c.ver, c.rev)
          /\ rows' = UpdateRow(rows, c.ver, "active")
          /\ Leave(a, "idle")
          /\ UNCHANGED <<pub, lease, external, outbox, budget>>
       \/ ~Unchanged(rows, c.ver, c.rev) /\ Proceed(a, "compensate")
       \/ /\ Unchanged(rows, c.ver, c.rev) /\ Spend("faults")
          /\ Leave(a, "compensate")
          /\ UNCHANGED <<rows, pub, lease, external, outbox>>

\* compensatePublishedActivation reads the current intent ...
CompensateRead(a) ==
    /\ pc[a] = "compensate"
    /\ \E v \in Versions :
          /\ IsLatest(rows, v)
          /\ IF rows[v].status = "active"
             THEN Proceed(a, "idle")
             ELSE /\ call' = [call EXCEPT ![a] =
                        [@ EXCEPT !.mode = "compensate", !.ver = v,
                           !.rev = rows[v].rev, !.status = rows[v].status]]
                  /\ Goto(a, "comppub")
                  /\ UNCHANGED <<rows, pub, lease, external, outbox, job,
                                 budget>>

\* Which version and state compensation restores for the intent c it read:
\* the accepted version itself, the accepted version a newer draft is about
\* to replace, or else nothing.
Restored(c) ==
    CASE c.status = "accepted" -> [ver |-> c.ver, state |-> "Accepted"]
      [] /\ c.status \in {"draft", "submitted", "review"}
         /\ rows[pub.pubVer].status = "accepted" ->
            [ver |-> pub.pubVer, state |-> "Accepted"]
      [] OTHER -> [ver |-> c.ver, state |-> "Withdrawn"]

\* ... then the publication (and the published version's row) ...
CompensateDecide(a) ==
    /\ pc[a] = "comppub"
    /\ LET c == call[a]
           unpublished == /\ c.status \in {"draft", "submitted", "review"}
                          /\ pub.pubVer = 0
       IN  IF pub.desState # "Activated" \/ unpublished
           THEN Proceed(a, "idle")
           ELSE /\ call' = [call EXCEPT ![a] =
                              [@ EXCEPT !.target = Restored(c).ver,
                                        !.desired = Restored(c).state]]
                /\ Goto(a, "comprequest")
                /\ UNCHANGED <<rows, pub, lease, external, outbox, job,
                               budget>>

\* ... and durably requests the restored state.
CompensateRequest(a) ==
    /\ pc[a] = "comprequest"
    /\ RequestIfCurrent(a, call[a].target, call[a].desired, "compensate")

-----------------------------------------------------------------------------
Lifecycle ==
    \E v \in Versions :
        \/ SubmitIntent(v) \/ AcceptIntent(v) \/ ModifyIntent(v)
        \/ CompleteIntent(v) \/ CancelIntent(v)

Reconcile(p) ==
    \/ LookUp(p) \/ Check(p) \/ RenewLease(p)
    \/ Publish(p) \/ Withdraw(p) \/ MutationFails(p)
    \/ ReadBack(p) \/ RecoverWithdrawal(p) \/ WriteResult(p)

Activate(a) ==
    \/ ReadPublication(a) \/ BackfillAcceptance(a) \/ RequestActivation(a)
    \/ ClaimById(a) \/ VerifyActivation(a) \/ CommitActivation(a)
    \/ CompensateRead(a) \/ CompensateDecide(a) \/ CompensateRequest(a)

Next ==
    \/ Lifecycle
    \/ \E w \in Workers : ClaimDue(w)
    \/ \E a \in Activators : BeginActivation(a) \/ Activate(a)
    \/ \E p \in Procs : Reconcile(p) \/ Abandon(p)
    \/ ExpireLease
    \/ \E m \in late : LateMutation(m)

Spec == Init /\ [][Next]_vars

-----------------------------------------------------------------------------
(* Fairness.  The worker's ticker keeps claiming due work, a handler that   *)
(* was started runs on, leases run out.  Nothing makes a user act, and      *)
(* nothing makes a disturbance happen.                                      *)

Fairness ==
    /\ \A w \in Workers : WF_vars(ClaimDue(w))
    /\ \A a \in Activators : WF_vars(Activate(a))
    /\ \A p \in Procs : WF_vars(Reconcile(p))
    /\ WF_vars(ExpireLease)

FairSpec == Spec /\ Fairness

-----------------------------------------------------------------------------
(* Properties.                                                             *)

\* At most one process is inside a DSS create, update or delete: claims need
\* a free lease, and a slow worker fails to renew once another one claimed.
OneMutator ==
    \A p, q \in Procs : pc[p] = "mutating" /\ pc[q] = "mutating" => p = q

\* A publication recorded as confirmed is what the DSS holds: same OVN, same
\* DSS version, same state, and the extents of the published version.  No
\* retry, late request or second worker changes the reference under it.
ConfirmedMatchesDSS ==
    pub.sync = "confirmed" =>
        /\ dss.state = pub.confState /\ dss.content = pub.pubVer
        /\ dss.ovn = pub.ovn /\ dss.ver = pub.dssVer

\* A publication recorded as withdrawn has no reference left in the DSS.
WithdrawnIsAbsent == pub.sync = "withdrawn" => dss.state = "absent"

\* Once the intent has ended, its desired external state is withdrawal:
\* neither an activation nor its compensation asks for the reference again.
EndedIsWithdrawn ==
    \A v \in Versions :
        IsLatest(rows, v) /\ rows[v].status \in Terminal =>
            pub.sync # "absent" /\ pub.desState = "Withdrawn"

\* A locally active version is the one the DSS holds as Activated.
ActiveIsActivated ==
    \A v \in Versions :
        rows[v].status = "active" =>
            dss.state = "Activated" /\ dss.content = v

\* Peers hear of every change before it is recorded as done: the outbox has,
\* under the confirmed DSS version, the published version and no other; and
\* peers that were told of the reference are told of its withdrawal, even when
\* the delete's response was lost.
ChangesAreAnnounced ==
    /\ pub.sync = "confirmed" =>
          {n \in outbox : n.dssVer = pub.dssVer}
              = {[dssVer |-> pub.dssVer, ver |-> pub.pubVer]}
    /\ pub.sync = "withdrawn" /\ (\E n \in outbox : n.dssVer > 0) =>
          \E n \in outbox : n.dssVer = 0

\* GetPublishedOperationalIntent serves the version whose extents the DSS
\* holds under the recorded OVN.
Served == pub.pubVer # 0 /\ pub.ovn # 0 /\ pub.sync # "withdrawn"

ServedIsPublished == Served /\ pub.ovn = dss.ovn => dss.content = pub.pubVer

\* A result of a reconciliation never replaces a desired state requested
\* meanwhile: only a request changes the desired version and state.
StaleResultsRejected ==
    [][<<pub.desVer, pub.desState>>' # <<pub.desVer, pub.desState>>
          => pub'.sync = "pending"]_vars

\* Every requested state is worked off: in the end the publication is
\* confirmed, blocked or withdrawn, whatever crashes and losses came before.
EventuallySettled ==
    <>[](pub.sync \in {"absent", "confirmed", "blocked", "withdrawn"})

\* An intent that has ended loses its DSS reference for good.
EventuallyWithdrawn ==
    (\E v \in Versions : rows[v].status \in Terminal)
        ~> [](dss.state = "absent" /\ pub.sync = "withdrawn")

=============================================================================
