------------------------ MODULE DSSPublicationProofs ------------------------
(***************************************************************************)
(* Proofs about DSSPublication for every number of workers, activators,    *)
(* versions and disturbances.                                              *)
(*                                                                         *)
(* The argument for the lease: a claim gives the publication a revision no *)
(* process has seen, so at most one reconciling process carries the        *)
(* current revision.  Call it the owner.  Only the owner can renew the     *)
(* lease or write a result, and nobody else holds the lease while it is    *)
(* the owner; a process inside a DSS mutation holds the lease.             *)
(*                                                                         *)
(* The argument for what was confirmed: the OVN of a successful mutation   *)
(* is new, so no request that is still on its way carries it, and while    *)
(* the process that made the mutation is the owner nobody else mutates.    *)
(***************************************************************************)
EXTENDS DSSPublication, TLAPS

Owner(p) == pc[p] \in Reconciling /\ job[p].rev = pub.rev

Mutating(p) == pc[p] = "mutating"

\* Revisions: none from the future, no two reconciling processes with the same.
RevisionInv ==
    /\ \A p \in Procs : pc[p] \in Reconciling => job[p].rev <= pub.rev
    /\ \A p, q \in Procs :
          pc[p] \in Reconciling /\ pc[q] \in Reconciling /\ p # q
              => job[p].rev # job[q].rev
    /\ pub.sync = "absent" => \A p \in Procs : pc[p] \notin Reconciling
    /\ \A p \in Procs : pc[p] = "reconcile" => pub.sync # "absent"

\* The lease follows the owner, and covers every mutation.
LeaseInv ==
    /\ \A p \in Procs : Mutating(p) => lease = p
    /\ \A p \in Procs : Owner(p) => lease \in {p, "free"}

\* What the owner works on is what is desired.
OwnerInv ==
    \A p \in Procs : Owner(p) =>
        /\ pub.sync = "processing"
        /\ job[p].desVer = pub.desVer /\ job[p].desState = pub.desState

\* A result is called confirmed only when it is about to be written.
JobInv ==
    \A p \in Procs :
        /\ job[p].sync = "confirmed" =>
               pc[p] = "write" /\ job[p].pubVer \in Versions
        /\ pc[p] \in Reconciling => job[p].sync # "absent"

\* OVNs are issued by the DSS, never invented.
OvnInv ==
    /\ pub.ovn <= ovns /\ dss.ovn <= ovns
    /\ \A p \in Procs : job[p].ovn <= ovns
    /\ \A m \in late : m.ovn <= ovns

\* The DSS holds what record j says, and no late request can change it.
Holds(j) ==
    /\ dss.state # "absent"
    /\ dss.state = j.confState /\ dss.content = j.pubVer
    /\ dss.ovn = j.ovn /\ dss.ver = j.dssVer
    /\ \A m \in late : m.ovn # dss.ovn

ConfirmedInv ==
    /\ pub.sync = "confirmed" => Holds(pub) /\ \A p \in Procs : ~Mutating(p)
    /\ \A p \in Procs : Owner(p) /\ job[p].sync = "confirmed" => Holds(job[p])

IInv == TypeOK /\ RevisionInv /\ LeaseInv /\ OwnerInv /\ JobInv /\ OvnInv
               /\ ConfirmedInv

-----------------------------------------------------------------------------
(* Types.                                                                  *)

\* Versions are numbers from 1; 0 stands for none.
LEMMA VersionFacts ==
    /\ 0 \in 0..MaxVersion /\ 1 \in Versions
    /\ \A v \in Versions : v \in 0..MaxVersion
    /\ \A v \in 0..MaxVersion : v # 0 => v \in Versions
  BY MaxVersionAssumption DEF Versions

\* Every operator of the reconciler that makes a record to write keeps to the
\* type of publications.
LEMMA JobTypes ==
    ASSUME NEW j \in Publication
    PROVE  /\ \A b \in BOOLEAN : Failed(j, b) \in Publication
           /\ WithdrawnJob(j) \in Publication
           /\ \A ref \in Reference : /\ WithReceipt(j, ref) \in Publication
                                      /\ PublishedJob(j, ref) \in Publication
           /\ \A s \in SyncStatus : [j EXCEPT !.sync = s] \in Publication
  <1>1. ASSUME NEW b \in BOOLEAN PROVE Failed(j, b) \in Publication
    BY DEF Publication, Failed, SyncStatus
  <1>2. WithdrawnJob(j) \in Publication
    BY VersionFacts DEF Publication, WithdrawnJob, SyncStatus, ExternalState
  <1>3. ASSUME NEW ref \in Reference
        PROVE  WithReceipt(j, ref) \in Publication
    BY DEF Publication, Reference, WithReceipt
  <1>4. ASSUME NEW ref \in Reference
        PROVE  PublishedJob(j, ref) \in Publication
    <2>1. j.desVer \in 0..MaxVersion /\ j.desState \in ExternalState
      BY VersionFacts DEF Publication
    <2> QED BY <1>3, <2>1 DEF Publication, PublishedJob
  <1>5. ASSUME NEW s \in SyncStatus
        PROVE  [j EXCEPT !.sync = s] \in Publication
    BY DEF Publication
  <1> QED BY <1>1, <1>2, <1>3, <1>4, <1>5

\* What is recorded after the reference was read back.
LEMMA ReadBackTypes ==
    ASSUME NEW j \in Publication, dss \in Reference, dss.state # "absent"
    PROVE  ReadBackJob(j) \in Publication
  <1>1. /\ WithReceipt(j, dss) \in Publication
        /\ WithReceipt(Failed(j, FALSE), dss) \in Publication
    BY JobTypes
  <1>2. dss.state \in ExternalState /\ j.desVer \in 0..MaxVersion
    BY VersionFacts DEF Publication, Reference, ExternalState
  <1> QED BY <1>1, <1>2 DEF ReadBackJob, Publication

\* A mutation of a typed record has its type and leads to a typed reference.
LEMMA MutationTypes ==
    ASSUME TypeOK
    PROVE  /\ \A j \in Publication : MutationOf(j) \in Mutation
           /\ NoReference \in Reference
           /\ \A m \in Mutation : Mutated(m) \in Reference
  <1>1. NoReference \in Reference
    BY VersionFacts DEF Reference, NoReference
  <1>2. ASSUME NEW j \in Publication PROVE MutationOf(j) \in Mutation
    BY DEF Publication, Mutation, MutationOf
  <1>3. ASSUME NEW m \in Mutation PROVE Mutated(m) \in Reference
    <2>1. dss.ver + 1 \in Nat /\ ovns + 1 \in Nat
      BY DEF TypeOK, Reference
    <2>2. m.content \in 0..MaxVersion
      BY VersionFacts DEF Mutation
    <2> QED BY <1>1, <2>1, <2>2 DEF Mutation, Mutated, Reference, ExternalState
  <1> QED BY <1>1, <1>2, <1>3

\* The publication row: none, claimed, requested.
LEMMA RowTypes ==
    ASSUME TypeOK
    PROVE  /\ NoPublication \in Publication
           /\ Claimed \in Publication
           /\ \A v \in Versions, s \in ExternalState :
                 Requested(v, s) \in Publication
  <1>1. NoPublication \in Publication
    BY VersionFacts DEF Publication, NoPublication, ExternalState
  <1>2. pub \in Publication /\ pub.rev + 1 \in Nat
    BY DEF TypeOK, Publication
  <1>3. Claimed \in Publication
    BY <1>2 DEF Publication, Claimed, SyncStatus
  <1>4. ASSUME NEW v \in Versions, NEW s \in ExternalState
        PROVE  Requested(v, s) \in Publication
    BY <1>2, VersionFacts DEF Publication, Requested, SyncStatus
  <1> QED BY <1>1, <1>3, <1>4

\* The rows that the store's transactions write.
LEMMA RowsTypes ==
    ASSUME NEW r \in [Versions -> Row], NEW v \in Versions
    PROVE  /\ AcceptRow(r, v) \in [Versions -> Row]
           /\ \A s \in IntentStatus : UpdateRow(r, v, s) \in [Versions -> Row]
           /\ r[v].status # "accepted" \/ v < MaxVersion
                 => ReplaceRow(r, v) \in [Versions -> Row]
  <1>1. \A w \in Versions : r[w] \in Row /\ r[w].rev \in Nat /\ r[w].rev + 1 \in Nat
    BY DEF Row
  <1>2. ASSUME NEW s \in IntentStatus, NEW n \in Nat PROVE [status |-> s, rev |-> n] \in Row
    BY DEF Row
  <1>3. ASSUME NEW s \in IntentStatus, NEW t \in IntentStatus
        PROVE  SetWithPrior(r, v, s, t) \in [Versions -> Row]
    BY <1>1, <1>2 DEF SetWithPrior
  <1>4. AcceptRow(r, v) \in [Versions -> Row]
    BY <1>3 DEF AcceptRow, IntentStatus
  <1>5. ASSUME NEW s \in IntentStatus PROVE UpdateRow(r, v, s) \in [Versions -> Row]
    BY <1>1, <1>2, <1>3 DEF UpdateRow
  <1>6. ASSUME r[v].status = "accepted", v < MaxVersion
        PROVE  ReplaceRow(r, v) \in [Versions -> Row]
    <2>1. v + 1 \in Versions
      BY <1>6, MaxVersionAssumption DEF Versions
    <2>2. [status |-> "draft", rev |-> 0] \in Row
      BY <1>2 DEF IntentStatus
    <2> QED BY <1>6, <2>1, <2>2 DEF ReplaceRow
  <1>7. ASSUME r[v].status # "accepted" PROVE ReplaceRow(r, v) \in [Versions -> Row]
    <2>1. [r[v] EXCEPT !.rev = r[v].rev + 1] \in Row
      BY <1>1 DEF Row
    <2> QED BY <1>7, <2>1 DEF ReplaceRow
  <1> QED BY <1>4, <1>5, <1>6, <1>7

\* Labels of the steps of a process.
Labels == {"idle"} \cup Reconciling \cup Activating

\* Spending from a bound keeps the budget's type.
LEMMA SpendTypes ==
    ASSUME TypeOK, NEW k \in BudgetKinds, Spend(k)
    PROVE  budget' \in [BudgetKinds -> Nat]
  BY DEF TypeOK, Spend

\* A reconciler's step keeps the types when what it does to the DSS does.
LEMMA StepTypes ==
    ASSUME TypeOK, NEW p \in Procs, NEW j \in Publication,
           NEW l \in Reconciling, Step(p, j, l),
           dss' \in Reference, ovns' \in Nat, late' \subseteq Mutation,
           budget' \in [BudgetKinds -> Nat]
    PROVE  TypeOK'
  BY DEF TypeOK, Step, Goto

\* So does a step that ends a reconciliation or moves an activator.
LEMMA LeaveTypes ==
    ASSUME TypeOK, NEW p \in Procs, NEW l \in Labels, Leave(p, l),
           rows' \in [Versions -> Row], pub' \in Publication,
           lease' \in Procs \cup {"free"}, outbox' \subseteq Notification,
           budget' \in [BudgetKinds -> Nat], UNCHANGED external
    PROVE  TypeOK'
  <1>1. NoPublication \in Publication
    BY RowTypes
  <1>2. NoCall \in Call
    BY VersionFacts DEF NoCall, Call, Modes, IntentStatus, ExternalState
  <1> QED BY <1>1, <1>2 DEF TypeOK, Leave, external, Labels

\* A reconciliation returns to a step of its caller.
LEMMA ReturnLabels ==
    \A mode \in Modes, ok \in BOOLEAN : ReturnTo(mode, ok) \in Labels
  BY DEF ReturnTo, Modes, Labels, Activating

\* The lifecycle operations keep the types.
LEMMA LifecycleTypes == TypeOK /\ Lifecycle => TypeOK'
  <1> SUFFICES ASSUME TypeOK, Lifecycle PROVE TypeOK'
    OBVIOUS
  <1>1. PICK v \in Versions : \/ SubmitIntent(v) \/ AcceptIntent(v)
                              \/ ModifyIntent(v)
                              \/ CompleteIntent(v) \/ CancelIntent(v)
    BY DEF Lifecycle
  <1>2. rows \in [Versions -> Row] /\ budget \in [BudgetKinds -> Nat]
    BY DEF TypeOK
  <1>3. {"submitted", "complete", "canceled"} \subseteq IntentStatus
        /\ {"Accepted", "Withdrawn"} \subseteq ExternalState
    BY DEF IntentStatus, ExternalState
  <1>4. CASE SubmitIntent(v)
    BY <1>2, <1>3, <1>4, RowsTypes DEF TypeOK, SubmitIntent, external, local
  <1>5. CASE AcceptIntent(v)
    BY <1>2, <1>3, <1>5, RowsTypes, RowTypes
       DEF TypeOK, AcceptIntent, RequestPublication, external, local
  <1>6. CASE ModifyIntent(v)
    <2>1. budget' \in [BudgetKinds -> Nat]
      BY <1>2, <1>6, SpendTypes DEF ModifyIntent, BudgetKinds
    <2>2. rows' \in [Versions -> Row]
      BY <1>2, <1>6, RowsTypes DEF ModifyIntent
    <2> QED BY <1>6, <2>1, <2>2 DEF TypeOK, ModifyIntent, external, local
  <1>7. ASSUME NEW s \in {"complete", "canceled"}, EndIntent(v, s)
        PROVE  TypeOK'
    BY <1>2, <1>3, <1>7, RowsTypes, RowTypes
       DEF TypeOK, EndIntent, RequestPublication, external, local
  <1> QED BY <1>1, <1>4, <1>5, <1>6, <1>7 DEF CompleteIntent, CancelIntent

\* The claims keep the types.
LEMMA ClaimTypes ==
    ASSUME TypeOK, NEW p \in Procs, Claim(p)
    PROVE  TypeOK'
  <1>1. Claimed \in Publication
    BY RowTypes
  <1> QED BY <1>1 DEF TypeOK, Claim, Goto, external, Reconciling

\* Every step of the reconciler but the last keeps the types.
LEMMA ReconcileTypes ==
    ASSUME TypeOK, NEW p \in Procs,
           \/ LookUp(p) \/ Check(p) \/ RenewLease(p)
           \/ Publish(p) \/ Withdraw(p) \/ MutationFails(p)
           \/ ReadBack(p) \/ RecoverWithdrawal(p)
    PROVE  TypeOK'
  <1>1. /\ job[p] \in Publication /\ pub \in Publication /\ dss \in Reference
        /\ ovns \in Nat /\ ovns + 1 \in Nat /\ late \subseteq Mutation
        /\ budget \in [BudgetKinds -> Nat] /\ call[p].mode \in Modes
    BY DEF TypeOK, Call
  <1>2. {"ready", "readback", "recover", "write"} \subseteq Reconciling
        /\ {"faults", "late"} \subseteq BudgetKinds
    BY DEF Reconciling, BudgetKinds
  <1>3. /\ \A b \in BOOLEAN : Failed(job[p], b) \in Publication
        /\ WithdrawnJob(job[p]) \in Publication
        /\ WithReceipt(job[p], dss) \in Publication
    BY <1>1, JobTypes
  <1>4. /\ MutationOf(job[p]) \in Mutation
        /\ Mutated(MutationOf(job[p])) \in Reference
    BY <1>1, MutationTypes
  <1>5. Mutate(MutationOf(job[p])) => dss' \in Reference /\ ovns' \in Nat
    BY <1>1, <1>4 DEF Mutate
  <1>6. CASE LookUp(p)
    BY <1>1, <1>2, <1>3, <1>6, StepTypes, SpendTypes DEF LookUp, external
  <1>7. CASE Check(p)
    BY <1>1, <1>2, <1>3, <1>7, StepTypes, SpendTypes DEF Check, external
  <1>8. CASE RenewLease(p)
    <2>1. CASE job[p].rev = pub.rev
      BY <1>8, <2>1 DEF RenewLease, TypeOK, Goto, external, Reconciling
    <2>2. CASE job[p].rev # pub.rev
      <3>1. Return(p, FALSE) /\ UNCHANGED <<rows, pub, lease, outbox, budget>>
            /\ UNCHANGED external
        BY <1>8, <2>2 DEF RenewLease
      <3> QED BY <1>1, <3>1, LeaveTypes, ReturnLabels DEF Return, TypeOK
    <2> QED BY <2>1, <2>2
  <1>9. CASE Publish(p)
    <2> DEFINE published == PublishedJob(job[p], Mutated(MutationOf(job[p])))
    <2>1. published \in Publication
      BY <1>1, <1>4, JobTypes
    <2>2. /\ [published EXCEPT !.sync = "confirmed"] \in Publication
          /\ Failed(published, FALSE) \in Publication
      BY <2>1, JobTypes DEF SyncStatus
    <2> HIDE DEF published
    <2>3. /\ dss' \in Reference /\ ovns' \in Nat /\ UNCHANGED late
          /\ budget' \in [BudgetKinds -> Nat]
          /\ \E j \in Publication, l \in Reconciling : Step(p, j, l)
      BY <1>1, <1>2, <1>3, <1>5, <1>9, <2>2, SpendTypes DEF Publish, published
    <2> QED BY <1>1, <2>3, StepTypes
  <1>10. CASE Withdraw(p)
    BY <1>1, <1>2, <1>3, <1>5, <1>10, StepTypes DEF Withdraw
  <1>11. CASE MutationFails(p)
    <2>1. AfterFailure(job[p]) \in Reconciling
      BY <1>2 DEF AfterFailure
    <2>2. /\ dss' \in Reference /\ ovns' \in Nat /\ late' \subseteq Mutation
          /\ budget' \in [BudgetKinds -> Nat]
          /\ \E j \in Publication, l \in Reconciling : Step(p, j, l)
      BY <1>1, <1>2, <1>3, <1>4, <1>5, <1>11, <2>1, SpendTypes
         DEF MutationFails, external
    <2> QED BY <1>1, <2>2, StepTypes
  <1>12. CASE ReadBack(p)
    <2>1. dss.state # "absent" => ReadBackJob(job[p]) \in Publication
      BY <1>1, ReadBackTypes
    <2> QED BY <1>1, <1>2, <1>12, <2>1, StepTypes, SpendTypes
            DEF ReadBack, external
  <1>13. CASE RecoverWithdrawal(p)
    BY <1>1, <1>2, <1>3, <1>13, StepTypes, SpendTypes
       DEF RecoverWithdrawal, external
  <1> QED BY <1>6, <1>7, <1>8, <1>9, <1>10, <1>11, <1>12, <1>13

\* Writing the result keeps the types: only a confirmed result announces a
\* published version, and it has one.
LEMMA WriteTypes ==
    ASSUME TypeOK, JobInv, NEW p \in Procs, WriteResult(p)
    PROVE  TypeOK'
  <1>1. /\ job[p] \in Publication /\ pub \in Publication
        /\ call[p].mode \in Modes /\ outbox \subseteq Notification
    BY DEF TypeOK, Call
  <1>2. Notifications(job[p]) \subseteq Notification
    <2>1. CASE job[p].sync = "confirmed"
      <3>1. job[p].pubVer \in Versions /\ job[p].dssVer \in Nat
        BY <1>1, <2>1 DEF JobInv, Publication
      <3> QED BY <2>1, <3>1 DEF Notifications, Notification
    <2>2. CASE job[p].sync = "withdrawn" /\ job[p].ovn # 0
      <3>1. job[p].desVer \in Versions
        BY <1>1 DEF Publication
      <3> QED BY <2>2, <3>1 DEF Notifications, Notification
    <2>3. CASE /\ job[p].sync # "confirmed"
               /\ ~(job[p].sync = "withdrawn" /\ job[p].ovn # 0)
      BY <2>3 DEF Notifications
    <2> QED BY <2>1, <2>2, <2>3
  <1>3. Enqueued(Notifications(job[p])) \subseteq Notification
    BY <1>1, <1>2 DEF Enqueued
  <1>4. [job[p] EXCEPT !.rev = @ + 1] \in Publication
    BY <1>1 DEF Publication
  <1>5. \E ok \in BOOLEAN : Return(p, ok)
    <2> DEFINE done == job[p].sync \in {"confirmed", "withdrawn"}
    <2>1. done \in BOOLEAN
      OBVIOUS
    <2>2. Return(p, done) \/ Return(p, FALSE)
      BY DEF WriteResult
    <2> HIDE DEF done
    <2> QED BY <2>1, <2>2
  <1>6. pub' \in Publication /\ lease' \in Procs \cup {"free"}
        /\ outbox' \subseteq Notification
    BY <1>1, <1>3, <1>4 DEF WriteResult, TypeOK
  <1>7. rows' \in [Versions -> Row] /\ budget' \in [BudgetKinds -> Nat]
        /\ UNCHANGED external
    BY DEF WriteResult, TypeOK
  <1> QED BY <1>1, <1>5, <1>6, <1>7, LeaveTypes, ReturnLabels DEF Return

\* A request fenced by the row that was read keeps the types.
LEMMA RequestIfCurrentTypes ==
    ASSUME TypeOK, NEW a \in Procs, NEW v \in Versions,
           NEW s \in ExternalState, NEW mode \in Modes,
           RequestIfCurrent(a, v, s, mode)
    PROVE  TypeOK'
  <1>1. CASE Proceed(a, "idle")
    BY <1>1, LeaveTypes DEF Proceed, TypeOK, Labels
  <1>2. CASE /\ RequestPublication(v, s)
             /\ call' = [call EXCEPT ![a].mode = mode]
             /\ Goto(a, "reconcile")
             /\ UNCHANGED <<rows, lease, external, outbox, job, budget>>
    <2>1. pub' \in Publication
      BY <1>2, RowTypes DEF RequestPublication
    <2>2. call' \in [Procs -> Call]
      BY <1>2 DEF TypeOK, Call
    <2> QED BY <1>2, <2>1, <2>2 DEF TypeOK, Goto, external, Activating
  <1> QED BY <1>1, <1>2 DEF RequestIfCurrent

\* The steps of ActivateIntent and of its compensation keep the types.
LEMMA ActivateTypes ==
    ASSUME TypeOK, NEW a \in Procs,
           \/ BeginActivation(a) \/ ReadPublication(a) \/ BackfillAcceptance(a)
           \/ RequestActivation(a) \/ VerifyActivation(a) \/ CommitActivation(a)
           \/ CompensateRead(a) \/ CompensateDecide(a) \/ CompensateRequest(a)
    PROVE  TypeOK'
  <1>1. /\ call \in [Procs -> Call] /\ call[a] \in Call
        /\ rows \in [Versions -> Row] /\ pub \in Publication
    BY DEF TypeOK
  <1>2. \A l \in Labels : Proceed(a, l) => TypeOK'
    BY LeaveTypes DEF Proceed, TypeOK
  <1>3. \A v \in Versions : IsLatest(rows, v) =>
            rows[v].status \in IntentStatus /\ rows[v].rev \in Nat
    BY <1>1 DEF IsLatest, Exists, Row
  <1>4. Activating \subseteq Labels /\ "idle" \in Labels
    BY DEF Labels
  <1>5. CASE BeginActivation(a)
    <2>1. PICK v \in Versions :
            /\ IsLatest(rows, v)
            /\ call' = [call EXCEPT ![a] =
                          [NoCall EXCEPT !.mode = "activate", !.ver = v,
                             !.rev = rows[v].rev, !.status = "accepted"]]
      BY <1>5 DEF BeginActivation
    <2>2. [NoCall EXCEPT !.mode = "activate", !.ver = v,
             !.rev = rows[v].rev, !.status = "accepted"] \in Call
      BY <1>3, <2>1, VersionFacts
         DEF NoCall, Call, Modes, IntentStatus, ExternalState
    <2>3. budget' \in [BudgetKinds -> Nat]
      BY <1>5, SpendTypes DEF BeginActivation, BudgetKinds
    <2> QED BY <1>1, <1>5, <2>1, <2>2, <2>3
            DEF BeginActivation, TypeOK, Goto, external, Activating
  <1>6. CASE ReadPublication(a)
    <2>1. \E l \in {"backfill", "request", "commit", "idle"} : Proceed(a, l)
      BY <1>6 DEF ReadPublication
    <2> QED BY <1>2, <2>1 DEF Labels, Activating
  <1>7. CASE BackfillAcceptance(a) \/ RequestActivation(a)
    BY <1>1, <1>7, RequestIfCurrentTypes
       DEF BackfillAcceptance, RequestActivation, Call, ExternalState, Modes
  <1>8. CASE VerifyActivation(a)
    BY <1>2, <1>8 DEF VerifyActivation, Labels, Activating
  <1>9. CASE CommitActivation(a)
    <2>1. UpdateRow(rows, call[a].ver, "active") \in [Versions -> Row]
      BY <1>1, RowsTypes DEF Call, IntentStatus
    <2>2. \/ Proceed(a, "compensate")
          \/ /\ rows' = UpdateRow(rows, call[a].ver, "active")
             /\ Leave(a, "idle")
             /\ UNCHANGED <<pub, lease, external, outbox, budget>>
          \/ /\ Spend("faults") /\ Leave(a, "compensate")
             /\ UNCHANGED <<rows, pub, lease, external, outbox>>
      BY <1>9 DEF CommitActivation
    <2>3. Spend("faults") => budget' \in [BudgetKinds -> Nat]
      BY SpendTypes DEF BudgetKinds
    <2> QED BY <1>2, <2>1, <2>2, <2>3, LeaveTypes
            DEF TypeOK, Labels, Activating
  <1>10. CASE CompensateRead(a)
    <2>1. PICK v \in Versions :
            /\ IsLatest(rows, v)
            /\ IF rows[v].status = "active"
               THEN Proceed(a, "idle")
               ELSE /\ call' = [call EXCEPT ![a] =
                          [@ EXCEPT !.mode = "compensate", !.ver = v,
                             !.rev = rows[v].rev, !.status = rows[v].status]]
                    /\ Goto(a, "comppub")
                    /\ UNCHANGED <<rows, pub, lease, external, outbox, job,
                                   budget>>
      BY <1>10 DEF CompensateRead
    <2>2. [call[a] EXCEPT !.mode = "compensate", !.ver = v,
             !.rev = rows[v].rev, !.status = rows[v].status] \in Call
      BY <1>1, <1>3, <2>1 DEF Call, Modes
    <2> QED BY <1>1, <1>2, <1>4, <2>1, <2>2
            DEF TypeOK, Goto, external, Activating
  <1>11. CASE CompensateDecide(a)
    <2> DEFINE c == call[a]
               unpublished == /\ c.status \in {"draft", "submitted", "review"}
                              /\ pub.pubVer = 0
    <2>1. CASE pub.desState # "Activated" \/ unpublished
      BY <1>2, <1>4, <1>11, <2>1 DEF CompensateDecide
    <2>2. CASE ~(pub.desState # "Activated" \/ unpublished)
      <3>1. Restored(c).ver \in Versions /\ Restored(c).state \in ExternalState
        BY <1>1, <2>2, VersionFacts
           DEF Restored, Call, Publication, ExternalState
      <3>2. /\ call' = [call EXCEPT ![a] = [@ EXCEPT
                          !.target = Restored(c).ver,
                          !.desired = Restored(c).state]]
            /\ Goto(a, "comprequest")
            /\ UNCHANGED <<rows, pub, lease, external, outbox, job, budget>>
        BY <1>11, <2>2 DEF CompensateDecide
      <3>3. [c EXCEPT !.target = Restored(c).ver,
                      !.desired = Restored(c).state] \in Call
        BY <1>1, <3>1 DEF Call
      <3> QED BY <1>1, <3>2, <3>3 DEF TypeOK, Goto, external, Activating
    <2> QED BY <2>1, <2>2
  <1>12. CASE CompensateRequest(a)
    BY <1>1, <1>12, RequestIfCurrentTypes DEF CompensateRequest, Call, Modes
  <1> QED BY <1>5, <1>6, <1>7, <1>8, <1>9, <1>10, <1>11, <1>12

\* The remaining actions keep the types.
LEMMA EnvironmentTypes ==
    ASSUME TypeOK
    PROVE  /\ ExpireLease => TypeOK'
           /\ \A m \in late : LateMutation(m) => TypeOK'
           /\ \A p \in Procs : Abandon(p) => TypeOK'
           /\ \A a \in Procs : ClaimById(a) => TypeOK'
  <1>1. {"faults"} \subseteq BudgetKinds
    BY DEF BudgetKinds
  <1>2. ASSUME ExpireLease PROVE TypeOK'
    <2>1. budget' \in [BudgetKinds -> Nat]
      BY <1>1, <1>2, SpendTypes DEF ExpireLease, TypeOK
    <2> QED BY <1>2, <2>1 DEF ExpireLease, TypeOK, external, local
  <1>3. ASSUME NEW m \in late, LateMutation(m) PROVE TypeOK'
    <2>1. m \in Mutation /\ Mutated(m) \in Reference
      BY MutationTypes DEF TypeOK
    <2>2. dss' \in Reference /\ ovns' \in Nat /\ late' \subseteq Mutation
      BY <1>3, <2>1 DEF LateMutation, Mutate, TypeOK
    <2> QED BY <1>3, <2>2 DEF LateMutation, TypeOK, local
  <1>4. \A p \in Procs : call[p].mode \in Modes
    BY DEF TypeOK, Call
  <1>5. ASSUME NEW p \in Procs, Abandon(p) PROVE TypeOK'
    <2>1. \E l \in Labels : Leave(p, l)
      BY <1>4, <1>5, ReturnLabels DEF Abandon, Return, Labels
    <2>2. budget' \in [BudgetKinds -> Nat]
      BY <1>1, <1>5, SpendTypes DEF Abandon
    <2> QED BY <1>5, <2>1, <2>2, LeaveTypes DEF Abandon, TypeOK
  <1>6. ASSUME NEW a \in Procs, ClaimById(a) PROVE TypeOK'
    <2>1. CASE Claim(a)
      BY <2>1, ClaimTypes
    <2>2. CASE /\ Return(a, FALSE)
               /\ UNCHANGED <<rows, pub, lease, external, outbox, budget>>
      BY <1>4, <2>2, LeaveTypes, ReturnLabels DEF Return, TypeOK
    <2> QED BY <1>6, <2>1, <2>2 DEF ClaimById
  <1> QED BY <1>2, <1>3, <1>5, <1>6

\* Every step keeps the types.
LEMMA TypeStep == TypeOK /\ JobInv /\ [Next]_vars => TypeOK'
  <1> SUFFICES ASSUME TypeOK, JobInv, [Next]_vars PROVE TypeOK'
    OBVIOUS
  <1>1. Workers \subseteq Procs /\ Activators \subseteq Procs
    BY DEF Procs
  <1>2. CASE UNCHANGED vars
    BY <1>2 DEF vars, TypeOK
  <1>3. CASE Lifecycle
    BY <1>3, LifecycleTypes
  <1>4. CASE \E w \in Workers : ClaimDue(w)
    BY <1>1, <1>4, ClaimTypes DEF ClaimDue
  <1>5. CASE \E a \in Activators : BeginActivation(a) \/ Activate(a)
    BY <1>1, <1>5, ActivateTypes, EnvironmentTypes DEF Activate
  <1>6. CASE \E p \in Procs : Reconcile(p)
    BY <1>6, ReconcileTypes, WriteTypes DEF Reconcile
  <1>7. CASE ExpireLease \/ (\E m \in late : LateMutation(m))
             \/ (\E p \in Procs : Abandon(p))
    BY <1>7, EnvironmentTypes
  <1> QED BY <1>2, <1>3, <1>4, <1>5, <1>6, <1>7 DEF Next

-----------------------------------------------------------------------------
(* The invariant.  Each lemma is about one kind of step, told by what it    *)
(* does to the variables the invariant mentions.                            *)

Inv == RevisionInv /\ LeaseInv /\ OwnerInv /\ JobInv /\ OvnInv /\ ConfirmedInv

\* While a process mutates, no other process owns the publication.
LEMMA MutatorAlone ==
    ASSUME IInv, NEW p \in Procs, Mutating(p), NEW q \in Procs, q # p
    PROVE  ~Owner(q) /\ ~Mutating(q)
  BY ProcessesAssumption DEF IInv, LeaseInv, Procs

\* A request makes every claimed revision old.
LEMMA RequestStep ==
    ASSUME IInv, NEW v \in Versions, NEW s \in ExternalState,
           pub' = Requested(v, s), UNCHANGED <<lease, dss, ovns, late, job>>,
           \/ UNCHANGED pc
           \/ \E a \in Procs : pc[a] \notin Reconciling /\ Goto(a, "reconcile")
    PROVE  Inv'
  <1>1. TypeOK /\ RevisionInv /\ LeaseInv /\ JobInv /\ OvnInv
    BY DEF IInv
  <1>2. /\ pub'.sync = "pending" /\ pub'.ovn <= ovns
        /\ pub.sync # "absent" => pub'.rev = pub.rev + 1
    BY <1>1 DEF Requested, TypeOK, Publication, OvnInv
  <1>3. \A p \in Procs :
            /\ pc'[p] \in Reconciling <=> pc[p] \in Reconciling
            /\ pc'[p] \in Reconciling => pc'[p] = pc[p]
            /\ job[p].rev \in Nat /\ pub.rev \in Nat
    BY <1>1 DEF TypeOK, Publication, Goto, Reconciling
  <1>4. \A p \in Procs : pc'[p] \in Reconciling => job[p].rev < pub'.rev
    BY <1>1, <1>2, <1>3 DEF RevisionInv
  <1>5. \A p \in Procs : ~Owner(p)'
    BY <1>3, <1>4 DEF Owner
  <1>6. RevisionInv'
    BY <1>1, <1>2, <1>3, <1>4 DEF RevisionInv
  <1>7. LeaseInv' /\ OwnerInv'
    BY <1>1, <1>3, <1>5 DEF LeaseInv, OwnerInv, Mutating, Reconciling
  <1>8. JobInv' /\ OvnInv'
    BY <1>1, <1>2, <1>3 DEF JobInv, OvnInv, Reconciling
  <1>9. ConfirmedInv'
    BY <1>2, <1>5 DEF ConfirmedInv
  <1> QED BY <1>6, <1>7, <1>8, <1>9 DEF Inv

\* A claim makes the claimer the owner, and the only one.
LEMMA ClaimStep ==
    ASSUME IInv, NEW p \in Procs, pc[p] \notin Reconciling,
           pub.sync # "absent", Claim(p)
    PROVE  Inv'
  <1>1. TypeOK /\ RevisionInv /\ LeaseInv /\ JobInv /\ OvnInv
    BY DEF IInv
  <1>2. /\ pub'.sync = "processing" /\ pub'.rev = pub.rev + 1
        /\ pub'.ovn = pub.ovn /\ job'[p] = pub' /\ pc'[p] = "claimed"
        /\ \A q \in Procs \ {p} : job'[q] = job[q] /\ pc'[q] = pc[q]
        /\ UNCHANGED <<dss, ovns, late>>
    BY <1>1 DEF Claim, Claimed, Goto, TypeOK, Publication, external
  <1>3. \A q \in Procs \ {p} :
            pc'[q] \in Reconciling => job'[q].rev < pub'.rev
    BY <1>1, <1>2 DEF RevisionInv, TypeOK, Publication
  <1>4. \A q \in Procs \ {p} : ~Owner(q)'
    BY <1>1, <1>2, <1>3 DEF Owner, TypeOK, Publication
  <1>5. pub'.rev \in Nat /\ \A q \in Procs : job'[q].rev \in Nat
    BY <1>1, <1>2 DEF TypeOK, Publication
  <1>6. RevisionInv'
    BY <1>1, <1>2, <1>3, <1>5 DEF RevisionInv
  <1>7. \A q \in Procs : ~Mutating(q)
    BY <1>1, ProcessesAssumption DEF LeaseInv, Claim, Procs
  <1>8. LeaseInv'
    BY <1>2, <1>4, <1>7 DEF LeaseInv, Mutating, Claim
  <1>9. OwnerInv'
    BY <1>2, <1>4 DEF OwnerInv
  <1>10. JobInv' /\ OvnInv'
    BY <1>1, <1>2 DEF JobInv, OvnInv
  <1>11. ConfirmedInv'
    BY <1>2, <1>4 DEF ConfirmedInv
  <1> QED BY <1>6, <1>8, <1>9, <1>10, <1>11 DEF Inv

\* A step of the reconciler that leaves the reference alone and does not
\* confirm.  A call that ends without an answer may leave its request behind.
LEMMA QuietStep ==
    ASSUME IInv, NEW p \in Procs, pc[p] \in Reconciling,
           NEW j \in Publication, NEW l \in Reconciling \ {"mutating"},
           Step(p, j, l), UNCHANGED <<dss, ovns>>,
           \/ UNCHANGED late
           \/ Mutating(p) /\ \E m \in Mutation :
                                m.ovn <= ovns /\ late' = late \cup {m},
           j.rev = job[p].rev, j.desVer = job[p].desVer,
           j.desState = job[p].desState, j.ovn <= ovns,
           j.sync \notin {"confirmed", "absent"}
    PROVE  Inv'
  <1>1. TypeOK /\ RevisionInv /\ LeaseInv /\ OwnerInv /\ JobInv /\ OvnInv
        /\ ConfirmedInv
    BY DEF IInv
  <1>2. /\ job'[p] = j /\ pc'[p] = l /\ l # "mutating"
        /\ \A q \in Procs \ {p} : job'[q] = job[q] /\ pc'[q] = pc[q]
        /\ UNCHANGED <<pub, lease>>
    BY <1>1 DEF Step, Goto, TypeOK
  <1>3. \A q \in Procs : Owner(q)' <=> Owner(q)
    BY <1>2 DEF Owner
  <1>4. \A q \in Procs : Mutating(q)' => q # p /\ Mutating(q)
    BY <1>2 DEF Mutating
  <1>5. RevisionInv'
    BY <1>1, <1>2 DEF RevisionInv, Reconciling
  <1>6. LeaseInv' /\ OwnerInv'
    BY <1>1, <1>2, <1>3, <1>4 DEF LeaseInv, OwnerInv
  <1>7. JobInv' /\ OvnInv'
    BY <1>1, <1>2 DEF JobInv, OvnInv
  <1>8. ConfirmedInv'
    <2>1. CASE UNCHANGED late
      BY <1>1, <1>2, <1>3, <1>4, <2>1 DEF ConfirmedInv, Holds
    <2>2. CASE Mutating(p)
      BY <1>1, <1>2, <1>3, <2>2, MutatorAlone DEF ConfirmedInv
    <2> QED BY <2>1, <2>2
  <1> QED BY <1>5, <1>6, <1>7, <1>8 DEF Inv

\* A step that changes the reference: its OVN is new.
LEMMA MutationStep ==
    ASSUME IInv, NEW p \in Procs, Mutating(p),
           NEW j \in Publication, NEW l \in Reconciling \ {"mutating"},
           Step(p, j, l), UNCHANGED late,
           NEW m \in Mutation, Mutate(m),
           j.rev = job[p].rev, j.desVer = job[p].desVer,
           j.desState = job[p].desState, j.ovn <= ovns', j.sync # "absent",
           j.sync = "confirmed" =>
              /\ l = "write" /\ j.pubVer \in Versions /\ m.state # "Withdrawn"
              /\ dss'.state = j.confState /\ dss'.content = j.pubVer
              /\ dss'.ovn = j.ovn /\ dss'.ver = j.dssVer
    PROVE  Inv'
  <1>1. TypeOK /\ RevisionInv /\ LeaseInv /\ OwnerInv /\ JobInv /\ OvnInv
        /\ ConfirmedInv
    BY DEF IInv
  <1>2. /\ job'[p] = j /\ pc'[p] = l /\ l # "mutating"
        /\ \A q \in Procs \ {p} : job'[q] = job[q] /\ pc'[q] = pc[q]
        /\ UNCHANGED <<pub, lease>>
    BY <1>1 DEF Step, Goto, TypeOK
  <1>3. pc[p] \in Reconciling
    BY DEF Mutating, Reconciling
  <1>4. \A q \in Procs : Owner(q)' <=> Owner(q)
    BY <1>2, <1>3 DEF Owner
  <1>5. \A q \in Procs : ~Mutating(q)'
    BY <1>2, MutatorAlone DEF Mutating
  <1>6. /\ ovns \in Nat /\ ovns <= ovns' /\ dss'.ovn <= ovns' /\ ovns' \in Nat
        /\ m.state # "Withdrawn" => dss'.ovn = ovns + 1
                                    /\ dss'.state # "absent"
    BY <1>1 DEF Mutate, Mutated, NoReference, TypeOK, Mutation, ExternalState
  <1>7. RevisionInv'
    BY <1>1, <1>2, <1>3 DEF RevisionInv, Reconciling
  <1>8. LeaseInv' /\ OwnerInv'
    BY <1>1, <1>2, <1>4, <1>5 DEF LeaseInv, OwnerInv
  <1>9. JobInv'
    BY <1>1, <1>2 DEF JobInv
  <1>10. OvnInv'
    <2>1. /\ pub.ovn \in Nat /\ \A q \in Procs : job[q].ovn \in Nat
          /\ \A n \in late : n.ovn \in Nat
      BY <1>1 DEF TypeOK, Publication, Mutation
    <2> QED BY <1>1, <1>2, <1>6, <2>1 DEF OvnInv
  <1>11. ConfirmedInv'
    <2>1. pub.sync # "confirmed"
      BY <1>1 DEF ConfirmedInv
    <2>2. \A q \in Procs : Owner(q)' => q = p
      BY <1>4, MutatorAlone
    <2>3. ASSUME j.sync = "confirmed" PROVE Holds(j)'
      <3>1. \A n \in late : n.ovn \in Nat /\ n.ovn <= ovns
        BY <1>1 DEF TypeOK, Mutation, OvnInv
      <3>2. \A n \in late' : n.ovn # dss'.ovn
        BY <1>6, <2>3, <3>1
      <3> QED BY <1>6, <2>3, <3>2 DEF Holds
    <2> QED BY <1>2, <2>1, <2>2, <2>3 DEF ConfirmedInv, Holds
  <1> QED BY <1>7, <1>8, <1>9, <1>10, <1>11 DEF Inv

\* A process that stops reconciling, or moves outside the reconciler.
LEMMA LeaveStep ==
    ASSUME IInv, NEW p \in Procs, NEW l \in Labels,
           l \notin Reconciling, l # "reconcile",
           \/ Leave(p, l)
           \/ pc[p] \notin Reconciling /\ Goto(p, l) /\ UNCHANGED job,
           UNCHANGED <<pub, lease, dss, ovns, late>>
    PROVE  Inv'
  <1>1. TypeOK /\ RevisionInv /\ LeaseInv /\ OwnerInv /\ JobInv /\ OvnInv
        /\ ConfirmedInv
    BY DEF IInv
  <1>2. /\ pc'[p] = l
        /\ \A q \in Procs \ {p} : job'[q] = job[q] /\ pc'[q] = pc[q]
        /\ \/ job'[p] = NoPublication
           \/ job'[p] = job[p] /\ pc[p] # "write"
    BY <1>1 DEF Leave, Goto, TypeOK, Reconciling
  <1>3. \A q \in Procs : Owner(q)' => q # p /\ Owner(q)
    BY <1>2 DEF Owner
  <1>4. \A q \in Procs : Mutating(q)' => q # p /\ Mutating(q)
    BY <1>2 DEF Mutating, Reconciling
  <1>5. RevisionInv'
    BY <1>1, <1>2 DEF RevisionInv
  <1>6. LeaseInv' /\ OwnerInv'
    BY <1>1, <1>2, <1>3, <1>4 DEF LeaseInv, OwnerInv
  <1>7. JobInv'
    BY <1>1, <1>2 DEF JobInv, NoPublication
  <1>8. OvnInv'
    BY <1>1, <1>2 DEF OvnInv, NoPublication, TypeOK
  <1>9. ConfirmedInv'
    BY <1>1, <1>2, <1>3, <1>4 DEF ConfirmedInv, Holds
  <1> QED BY <1>5, <1>6, <1>7, <1>8, <1>9 DEF Inv

\* The owner renews the lease and starts the mutation.
LEMMA RenewStep ==
    ASSUME IInv, NEW p \in Procs, RenewLease(p), job[p].rev = pub.rev
    PROVE  Inv'
  <1>1. TypeOK /\ RevisionInv /\ LeaseInv /\ OwnerInv /\ JobInv /\ OvnInv
        /\ ConfirmedInv
    BY DEF IInv
  <1>2. /\ pc[p] = "ready" /\ pc'[p] = "mutating" /\ lease' = p
        /\ \A q \in Procs \ {p} : pc'[q] = pc[q]
        /\ UNCHANGED <<job, pub, dss, ovns, late>>
    BY <1>1 DEF RenewLease, Goto, TypeOK, external
  <1>3. Owner(p)
    BY <1>2 DEF Owner, Reconciling
  <1>4. \A q \in Procs \ {p} : ~Owner(q) /\ ~Mutating(q)
    BY <1>1, <1>2, <1>3, ProcessesAssumption
       DEF Owner, RevisionInv, LeaseInv, Procs
  <1>5. /\ \A q \in Procs : Owner(q)' <=> q = p
        /\ \A q \in Procs : Mutating(q)' <=> q = p
    BY <1>2, <1>3, <1>4 DEF Owner, Mutating, Reconciling
  <1>6. RevisionInv'
    BY <1>1, <1>2 DEF RevisionInv, Reconciling
  <1>7. LeaseInv' /\ OwnerInv'
    BY <1>1, <1>2, <1>3, <1>5 DEF LeaseInv, OwnerInv
  <1>8. job[p].sync # "confirmed" /\ pub.sync # "confirmed"
    BY <1>1, <1>2, <1>3 DEF JobInv, OwnerInv
  <1>9. JobInv' /\ OvnInv'
    BY <1>1, <1>2, <1>8 DEF JobInv, OvnInv, Reconciling
  <1>10. ConfirmedInv'
    BY <1>2, <1>5, <1>8 DEF ConfirmedInv
  <1> QED BY <1>6, <1>7, <1>9, <1>10 DEF Inv

\* The owner writes its result and releases the lease.
LEMMA WriteStep ==
    ASSUME IInv, NEW p \in Procs, WriteResult(p), job[p].rev = pub.rev
    PROVE  Inv'
  <1>1. TypeOK /\ RevisionInv /\ LeaseInv /\ OwnerInv /\ JobInv /\ OvnInv
        /\ ConfirmedInv
    BY DEF IInv
  <1>2. PICK l \in Labels \ (Reconciling \cup {"reconcile"}) : Leave(p, l)
    <2>1. call[p].mode \in Modes
      BY <1>1 DEF TypeOK, Call
    <2>2. \A ok : ReturnTo(call[p].mode, ok) \in
                      Labels \ (Reconciling \cup {"reconcile"})
      BY <2>1 DEF ReturnTo, Labels, Activating, Reconciling
    <2>3. \E ok : Return(p, ok)
      BY DEF WriteResult
    <2> QED BY <2>2, <2>3 DEF Return
  <1>3. /\ pc[p] = "write" /\ pc'[p] = l /\ job'[p] = NoPublication
        /\ \A q \in Procs \ {p} : job'[q] = job[q] /\ pc'[q] = pc[q]
        /\ pub' = [job[p] EXCEPT !.rev = @ + 1]
        /\ lease' = "free" /\ UNCHANGED <<dss, ovns, late>>
    BY <1>1, <1>2 DEF WriteResult, Leave, TypeOK, external
  <1>4. /\ pub'.rev = pub.rev + 1 /\ pub.rev \in Nat
        /\ pub'.sync = job[p].sync /\ pub'.ovn = job[p].ovn
        /\ pub'.confState = job[p].confState /\ pub'.pubVer = job[p].pubVer
        /\ pub'.dssVer = job[p].dssVer
    BY <1>1, <1>3 DEF TypeOK, Publication
  <1>5. Owner(p)
    BY <1>3 DEF Owner, Reconciling
  <1>6. \A q \in Procs : ~Owner(q)'
    <2>1. \A q \in Procs \ {p} : pc[q] \in Reconciling => job[q].rev < pub'.rev
      BY <1>1, <1>4 DEF RevisionInv, TypeOK, Publication
    <2> QED BY <1>1, <1>2, <1>3, <2>1 DEF Owner, TypeOK, Publication
  <1>7. \A q \in Procs : ~Mutating(q)'
    BY <1>1, <1>2, <1>3, <1>5, ProcessesAssumption
       DEF LeaseInv, Mutating, Procs, Reconciling
  <1>8. RevisionInv'
    <2>1. \A q \in Procs \ {p} :
              pc[q] \in Reconciling => job[q].rev <= pub'.rev
      BY <1>1, <1>4 DEF RevisionInv, TypeOK, Publication
    <2>2. pub'.sync # "absent"
      BY <1>1, <1>3, <1>4 DEF JobInv, Reconciling
    <2> QED BY <1>1, <1>2, <1>3, <2>1, <2>2 DEF RevisionInv
  <1>9. LeaseInv' /\ OwnerInv'
    BY <1>6, <1>7 DEF LeaseInv, OwnerInv
  <1>10. JobInv' /\ OvnInv'
    BY <1>1, <1>3, <1>4 DEF JobInv, OvnInv, NoPublication, TypeOK
  <1>11. ConfirmedInv'
    BY <1>1, <1>3, <1>4, <1>5, <1>6, <1>7 DEF ConfirmedInv, Holds
  <1> QED BY <1>8, <1>9, <1>10, <1>11 DEF Inv

\* A lease runs out: nobody mutates under it.
LEMMA ExpireStep == IInv /\ ExpireLease => Inv'
  <1> SUFFICES ASSUME IInv, ExpireLease PROVE Inv'
    OBVIOUS
  <1>1. TypeOK /\ RevisionInv /\ LeaseInv /\ OwnerInv /\ JobInv /\ OvnInv
        /\ ConfirmedInv
    BY DEF IInv
  <1>2. /\ lease' = "free" /\ UNCHANGED <<pub, dss, ovns, late, pc, job>>
        /\ \A q \in Procs : ~Mutating(q)
    BY <1>1 DEF ExpireLease, external, local, LeaseInv, Mutating
  <1>3. RevisionInv' /\ LeaseInv' /\ OwnerInv'
    BY <1>1, <1>2 DEF RevisionInv, LeaseInv, OwnerInv, Owner, Mutating
  <1>4. JobInv' /\ OvnInv' /\ ConfirmedInv'
    BY <1>1, <1>2 DEF JobInv, OvnInv, ConfirmedInv, Holds, Owner, Mutating
  <1> QED BY <1>3, <1>4 DEF Inv

\* A late request is refused when its OVN is not the confirmed one.
LEMMA LateStep ==
    ASSUME IInv, NEW m \in late, LateMutation(m)
    PROVE  Inv'
  <1>1. TypeOK /\ RevisionInv /\ LeaseInv /\ OwnerInv /\ JobInv /\ OvnInv
        /\ ConfirmedInv
    BY DEF IInv
  <1>2. /\ UNCHANGED <<pub, lease, pc, job>> /\ late' \subseteq late
        /\ \/ Takes(m) /\ Mutate(m)
           \/ UNCHANGED <<dss, ovns>>
    BY DEF LateMutation, local
  <1>3. RevisionInv' /\ LeaseInv' /\ OwnerInv' /\ JobInv'
    BY <1>1, <1>2
       DEF RevisionInv, LeaseInv, OwnerInv, JobInv, Owner, Mutating
  <1>4. CASE UNCHANGED <<dss, ovns>>
    <2>1. OvnInv' /\ ConfirmedInv'
      BY <1>1, <1>2, <1>4 DEF OvnInv, ConfirmedInv, Holds, Owner, Mutating
    <2> QED BY <1>3, <2>1 DEF Inv
  <1>5. CASE Takes(m) /\ Mutate(m)
    <2>1. m \in Mutation /\ ovns \in Nat
      BY <1>1 DEF TypeOK
    <2>2. /\ ovns <= ovns' /\ dss'.ovn <= ovns' /\ ovns' \in Nat
      BY <1>1, <1>5, <2>1 DEF Mutate, Mutated, NoReference
    <2>3. /\ pub.ovn \in Nat /\ \A q \in Procs : job[q].ovn \in Nat
          /\ \A n \in late : n.ovn \in Nat
      BY <1>1 DEF TypeOK, Publication, Mutation
    <2>4. OvnInv'
      BY <1>1, <1>2, <2>1, <2>2, <2>3 DEF OvnInv
    <2>5. \A j \in Publication : ~Holds(j)
      BY <1>5 DEF Holds, Takes
    <2>6. ConfirmedInv'
      BY <1>1, <1>2, <2>5 DEF ConfirmedInv, Owner, TypeOK
    <2> QED BY <1>3, <2>4, <2>6 DEF Inv
  <1> QED BY <1>2, <1>4, <1>5

\* Record j is still what process p claimed, and confirms nothing.
Continues(p, j) ==
    /\ j \in Publication
    /\ j.rev = job[p].rev /\ j.desVer = job[p].desVer
    /\ j.desState = job[p].desState /\ j.ovn <= ovns
    /\ j.sync \notin {"confirmed", "absent"}

\* The records a reconciling process makes out of its own.
LEMMA ContinuesFacts ==
    ASSUME TypeOK, JobInv, OvnInv, NEW p \in Procs,
           pc[p] \in Reconciling \ {"write"}
    PROVE  /\ Continues(p, job[p])
           /\ \A b \in BOOLEAN : Continues(p, Failed(job[p], b))
           /\ Continues(p, WithdrawnJob(job[p]))
           /\ Continues(p, WithReceipt(job[p], dss))
           /\ dss.state # "absent" => Continues(p, ReadBackJob(job[p]))
  <1>1. /\ job[p] \in Publication /\ dss \in Reference
        /\ job[p].ovn <= ovns /\ dss.ovn <= ovns
        /\ job[p].sync \notin {"confirmed", "absent"}
    BY DEF TypeOK, OvnInv, JobInv
  <1>2. Continues(p, job[p])
    BY <1>1 DEF Continues
  <1>3. ASSUME NEW b \in BOOLEAN PROVE Continues(p, Failed(job[p], b))
    <2>1. Failed(job[p], b) \in Publication
      BY <1>1, JobTypes
    <2>2. /\ Failed(job[p], b).rev = job[p].rev
          /\ Failed(job[p], b).desVer = job[p].desVer
          /\ Failed(job[p], b).desState = job[p].desState
          /\ Failed(job[p], b).ovn = job[p].ovn
          /\ Failed(job[p], b).sync \in {"blocked", "retrying"}
      BY <1>1 DEF Failed, Publication
    <2> QED BY <1>1, <2>1, <2>2 DEF Continues
  <1>4. Continues(p, WithdrawnJob(job[p]))
    BY <1>1, JobTypes DEF Continues, WithdrawnJob, Publication
  <1>5. Continues(p, WithReceipt(job[p], dss))
    BY <1>1, JobTypes DEF Continues, WithReceipt, Publication
  <1>6. ASSUME dss.state # "absent" PROVE Continues(p, ReadBackJob(job[p]))
    <2>1. ReadBackJob(job[p]) \in Publication
      BY <1>1, <1>6, ReadBackTypes
    <2> QED BY <1>1, <2>1
            DEF Continues, ReadBackJob, WithReceipt, Failed, Publication
  <1> QED BY <1>2, <1>3, <1>4, <1>5, <1>6

\* An answered create or update, confirmed or to be retried.
LEMMA PublishStep ==
    ASSUME IInv, NEW p \in Procs, Mutating(p), job[p].desState # "Withdrawn",
           NEW s \in {"confirmed", "retrying"},
           Mutate(MutationOf(job[p])), UNCHANGED late,
           Step(p, [PublishedJob(job[p], Mutated(MutationOf(job[p])))
                       EXCEPT !.sync = s], "write")
    PROVE  Inv'
  <1> DEFINE m == MutationOf(job[p])
             j == [PublishedJob(job[p], Mutated(m)) EXCEPT !.sync = s]
  <1>1. TypeOK /\ job[p] \in Publication /\ ovns \in Nat
    BY DEF IInv, TypeOK
  <1>2. m \in Mutation /\ m.state = job[p].desState
        /\ m.content = job[p].desVer
    BY <1>1, MutationTypes DEF MutationOf
  <1>3. Mutated(m) \in Reference
    BY <1>1, <1>2, MutationTypes
  <1>4. PublishedJob(job[p], Mutated(m)) \in Publication
    BY <1>1, <1>3, JobTypes
  <1>5. j \in Publication
    BY <1>4, JobTypes DEF SyncStatus
  <1>6. /\ dss' = Mutated(m) /\ ovns' = ovns + 1 /\ dss'.ovn = ovns'
        /\ dss'.state = m.state /\ dss'.content = m.content
    BY <1>2 DEF Mutate, Mutated
  <1>7. /\ j.rev = job[p].rev /\ j.desVer = job[p].desVer
        /\ j.desState = job[p].desState /\ j.sync = s
        /\ j.confState = job[p].desState /\ j.pubVer = job[p].desVer
        /\ j.ovn = dss'.ovn /\ j.dssVer = dss'.ver
    BY <1>1, <1>4, <1>6 DEF PublishedJob, WithReceipt, Publication
  <1>8. j.ovn <= ovns' /\ j.pubVer \in Versions /\ j.sync # "absent"
    BY <1>1, <1>6, <1>7 DEF Publication
  <1>9. "write" \in Reconciling \ {"mutating"}
    BY DEF Reconciling
  <1>10. Step(p, j, "write") /\ Mutate(m)
    OBVIOUS
  <1> HIDE DEF m, j
  <1>11. /\ m.state # "Withdrawn"
         /\ dss'.state = j.confState /\ dss'.content = j.pubVer
         /\ dss'.ovn = j.ovn /\ dss'.ver = j.dssVer
    BY <1>2, <1>6, <1>7
  <1> QED BY <1>2, <1>5, <1>7, <1>8, <1>9, <1>10, <1>11, MutationStep

\* A deletion: answered, or with its answer lost.  A create or update whose
\* answer was lost is of the same kind.
LEMMA UnconfirmedStep ==
    ASSUME IInv, NEW p \in Procs, Mutating(p),
           NEW j, Continues(p, j), NEW l \in Reconciling \ {"mutating"},
           Step(p, j, l), Mutate(MutationOf(job[p])), UNCHANGED late
    PROVE  Inv'
  <1>1. TypeOK /\ job[p] \in Publication /\ ovns \in Nat
    BY DEF IInv, TypeOK
  <1>2. MutationOf(job[p]) \in Mutation
    BY <1>1, MutationTypes
  <1>3. j.ovn \in Nat /\ ovns <= ovns' /\ ovns' \in Nat
    BY <1>1 DEF Mutate, Continues, Publication
  <1>4. j.ovn <= ovns'
    BY <1>1, <1>3 DEF Continues
  <1> QED BY <1>2, <1>4, MutationStep DEF Continues

\* The steps of the reconciler are of these kinds.
LEMMA ReconcileStep ==
    ASSUME IInv, NEW p \in Procs, Reconcile(p)
    PROVE  Inv'
  <1>1. TypeOK /\ JobInv /\ OvnInv
    BY DEF IInv
  <1>2. call[p].mode \in Modes /\ job[p] \in Publication
    BY <1>1 DEF TypeOK, Call
  <1>3. ASSUME NEW j, Continues(p, j), pc[p] \in Reconciling,
               NEW l \in {"ready", "readback", "recover", "write"},
               Step(p, j, l), UNCHANGED <<dss, ovns, late>>
        PROVE  Inv'
    <2>1. l \in Reconciling \ {"mutating"}
      BY DEF Reconciling
    <2> QED BY <1>3, <2>1, QuietStep DEF Continues
  <1>4. pc[p] \in Reconciling /\ pc[p] # "write" =>
           /\ Continues(p, job[p])
           /\ \A b \in BOOLEAN : Continues(p, Failed(job[p], b))
           /\ Continues(p, WithdrawnJob(job[p]))
           /\ Continues(p, WithReceipt(job[p], dss))
           /\ dss.state # "absent" => Continues(p, ReadBackJob(job[p]))
    BY <1>1, ContinuesFacts
  <1>5. CASE LookUp(p)
    <2>1. pc[p] \in Reconciling /\ pc[p] # "write"
          /\ UNCHANGED <<dss, ovns, late>>
      BY <1>5 DEF LookUp, Reconciling, external
    <2>2. \/ Step(p, job[p], "ready")
          \/ Step(p, WithdrawnJob(job[p]), "write")
          \/ Step(p, WithReceipt(job[p], dss), "ready")
          \/ Step(p, Failed(job[p], FALSE), "write")
      BY <1>5 DEF LookUp
    <2> QED BY <1>3, <1>4, <2>1, <2>2
  <1>6. CASE Check(p)
    <2>1. pc[p] \in Reconciling /\ pc[p] # "write"
          /\ UNCHANGED <<dss, ovns, late>>
      BY <1>6 DEF Check, Reconciling, external
    <2>2. \/ Step(p, job[p], "ready")
          \/ \E b \in BOOLEAN : Step(p, Failed(job[p], b), "write")
      BY <1>6 DEF Check
    <2> QED BY <1>3, <1>4, <2>1, <2>2
  <1>7. ASSUME Return(p, FALSE), UNCHANGED <<pub, lease, dss, ovns, late>>
        PROVE  Inv'
    <2>1. /\ ReturnTo(call[p].mode, FALSE) \in Labels
          /\ ReturnTo(call[p].mode, FALSE) \notin Reconciling \cup {"reconcile"}
      BY <1>2 DEF ReturnTo, Labels, Activating, Reconciling
    <2> QED BY <1>7, <2>1, LeaveStep DEF Return
  <1>8. CASE RenewLease(p)
    BY <1>7, <1>8, RenewStep DEF RenewLease, external
  <1>9. CASE WriteResult(p)
    BY <1>7, <1>9, WriteStep DEF WriteResult, external
  <1>10. CASE Publish(p)
    <2> DEFINE m == MutationOf(job[p])
               published == PublishedJob(job[p], Mutated(m))
    <2>1. /\ pc[p] \in Reconciling /\ pc[p] # "write" /\ Mutating(p)
          /\ UNCHANGED late /\ job[p].desState # "Withdrawn"
      BY <1>10 DEF Publish, Reconciling, Mutating
    <2>2. \/ Mutate(m) /\ Step(p, [published EXCEPT !.sync = "confirmed"], "write")
          \/ Mutate(m) /\ Step(p, [published EXCEPT !.sync = "retrying"], "write")
          \/ Step(p, Failed(job[p], FALSE), "readback") /\ UNCHANGED <<dss, ovns>>
      BY <1>10 DEF Publish, Failed
    <2> QED BY <1>3, <1>4, <2>1, <2>2, PublishStep
  <1>11. CASE Withdraw(p)
    <2> DEFINE m == MutationOf(job[p])
    <2>1. /\ pc[p] \in Reconciling /\ pc[p] # "write" /\ Mutating(p)
          /\ UNCHANGED late /\ "write" \in Reconciling \ {"mutating"}
      BY <1>11 DEF Withdraw, Reconciling, Mutating
    <2>2. \/ Mutate(m) /\ Step(p, WithdrawnJob(job[p]), "write")
          \/ Step(p, job[p], "recover") /\ UNCHANGED <<dss, ovns>>
          \/ Step(p, Failed(job[p], FALSE), "readback") /\ UNCHANGED <<dss, ovns>>
      BY <1>11 DEF Withdraw
    <2> QED BY <1>3, <1>4, <2>1, <2>2, UnconfirmedStep
  <1>12. CASE MutationFails(p)
    <2> DEFINE m == MutationOf(job[p])
               end == AfterFailure(job[p])
    <2>1. /\ pc[p] \in Reconciling /\ pc[p] # "write" /\ Mutating(p)
          /\ end \in {"write", "readback"} /\ end \in Reconciling \ {"mutating"}
      BY <1>12 DEF MutationFails, Reconciling, Mutating, AfterFailure
    <2>2. m \in Mutation /\ m.ovn = job[p].ovn
      BY <1>1, <1>2, MutationTypes DEF MutationOf
    <2>3. m.ovn <= ovns
      BY <1>1, <2>2 DEF OvnInv
    <2> HIDE DEF m, end
    <2>4. CASE \E b \in BOOLEAN : Step(p, Failed(job[p], b), end)
                                    /\ UNCHANGED <<dss, ovns, late>>
      BY <1>3, <1>4, <2>1, <2>4
    <2>5. CASE /\ Mutate(m) /\ Step(p, Failed(job[p], FALSE), end)
               /\ UNCHANGED late
      BY <1>4, <2>1, <2>5, UnconfirmedStep DEF m
    <2>6. CASE /\ late' = late \cup {m} /\ Step(p, Failed(job[p], FALSE), end)
               /\ UNCHANGED <<dss, ovns>>
      BY <1>4, <2>1, <2>2, <2>3, <2>6, QuietStep DEF Continues
    <2> QED BY <1>12, <2>4, <2>5, <2>6 DEF MutationFails, m, end, external
  <1>13. CASE ReadBack(p)
    <2>1. pc[p] \in Reconciling /\ pc[p] # "write"
          /\ UNCHANGED <<dss, ovns, late>>
      BY <1>13 DEF ReadBack, Reconciling, external
    <2>2. \/ dss.state # "absent" /\ Step(p, ReadBackJob(job[p]), "write")
          \/ Step(p, job[p], "write")
      BY <1>13 DEF ReadBack
    <2> QED BY <1>3, <1>4, <2>1, <2>2
  <1>14. CASE RecoverWithdrawal(p)
    <2>1. pc[p] \in Reconciling /\ pc[p] # "write"
          /\ UNCHANGED <<dss, ovns, late>>
      BY <1>14 DEF RecoverWithdrawal, Reconciling, external
    <2>2. \/ Step(p, WithdrawnJob(job[p]), "write")
          \/ Step(p, Failed(job[p], FALSE), "write")
      BY <1>14 DEF RecoverWithdrawal
    <2> QED BY <1>3, <1>4, <2>1, <2>2
  <1> QED BY <1>5, <1>6, <1>8, <1>9, <1>10, <1>11, <1>12, <1>13, <1>14
          DEF Reconcile

\* A request fenced by the row that was read.
LEMMA RequestIfCurrentStep ==
    ASSUME IInv, NEW a \in Procs, pc[a] \notin Reconciling,
           NEW v \in Versions, NEW s \in ExternalState, NEW mode,
           RequestIfCurrent(a, v, s, mode)
    PROVE  Inv'
  <1>1. CASE Proceed(a, "idle")
    BY <1>1, LeaveStep DEF Proceed, external, Labels, Reconciling
  <1>2. CASE /\ RequestPublication(v, s) /\ Goto(a, "reconcile")
             /\ UNCHANGED <<rows, lease, external, outbox, job, budget>>
    BY <1>2, RequestStep DEF RequestPublication, external
  <1> QED BY <1>1, <1>2 DEF RequestIfCurrent

\* The steps of ActivateIntent and of its compensation.
LEMMA ActivateStep ==
    ASSUME IInv, NEW a \in Procs, BeginActivation(a) \/ Activate(a)
    PROVE  Inv'
  <1>1. TypeOK /\ RevisionInv
    BY DEF IInv
  <1>2. call[a] \in Call
    BY <1>1 DEF TypeOK
  <1> DEFINE Outside == Labels \ (Reconciling \cup {"reconcile"})
  <1>3. {"idle", "getpub", "backfill", "request", "verify", "commit",
         "compensate", "comppub", "comprequest"} \subseteq Outside
    BY DEF Labels, Activating, Reconciling
  <1>4. ASSUME NEW l \in Outside, Leave(a, l),
               UNCHANGED <<pub, lease, external>>
        PROVE  Inv'
    BY <1>4, LeaveStep DEF external
  <1>5. ASSUME NEW l \in Outside, pc[a] \notin Reconciling, Goto(a, l),
               UNCHANGED <<pub, lease, external, job>>
        PROVE  Inv'
    BY <1>5, LeaveStep DEF external
  <1> HIDE DEF Outside
  <1>6. CASE BeginActivation(a)
    BY <1>3, <1>5, <1>6 DEF BeginActivation, Reconciling
  <1>7. CASE ReadPublication(a)
    <2>1. \E l \in {"backfill", "request", "commit", "idle"} : Proceed(a, l)
      BY <1>7 DEF ReadPublication
    <2> QED BY <1>3, <1>4, <2>1 DEF Proceed
  <1>8. CASE BackfillAcceptance(a) \/ RequestActivation(a)
             \/ CompensateRequest(a)
    <2>1. pc[a] \notin Reconciling
      BY <1>8 DEF BackfillAcceptance, RequestActivation, CompensateRequest,
                  Reconciling
    <2>2. /\ call[a].ver \in Versions /\ call[a].target \in Versions
          /\ call[a].desired \in ExternalState
          /\ {"Accepted", "Activated"} \subseteq ExternalState
      BY <1>2 DEF Call, ExternalState
    <2> QED BY <1>8, <2>1, <2>2, RequestIfCurrentStep
            DEF BackfillAcceptance, RequestActivation, CompensateRequest
  <1>9. CASE ClaimById(a)
    <2>1. pc[a] \notin Reconciling /\ pub.sync # "absent"
      BY <1>1, <1>9 DEF ClaimById, RevisionInv, Reconciling
    <2>2. ReturnTo(call[a].mode, FALSE) \in Outside
      BY <1>3 DEF ReturnTo
    <2> QED BY <1>4, <1>9, <2>1, <2>2, ClaimStep DEF ClaimById, Return
  <1>10. CASE VerifyActivation(a)
    BY <1>3, <1>4, <1>10 DEF VerifyActivation, Proceed
  <1>11. CASE CommitActivation(a)
    BY <1>3, <1>4, <1>11 DEF CommitActivation, Proceed
  <1>12. CASE CompensateRead(a)
    <2>1. \/ Proceed(a, "idle")
          \/ Goto(a, "comppub") /\ UNCHANGED <<pub, lease, external, job>>
      BY <1>12 DEF CompensateRead
    <2> QED BY <1>3, <1>4, <1>5, <1>12, <2>1
            DEF CompensateRead, Proceed, Reconciling
  <1>13. CASE CompensateDecide(a)
    <2>1. \/ Proceed(a, "idle")
          \/ Goto(a, "comprequest") /\ UNCHANGED <<pub, lease, external, job>>
      BY <1>13 DEF CompensateDecide
    <2> QED BY <1>3, <1>4, <1>5, <1>13, <2>1
            DEF CompensateDecide, Proceed, Reconciling
  <1> QED BY <1>6, <1>7, <1>8, <1>9, <1>10, <1>11, <1>12, <1>13 DEF Activate

\* A step that changes none of the variables of the invariant.
LEMMA IdleStep ==
    ASSUME IInv, UNCHANGED <<pub, lease, dss, ovns, late, pc, job>>
    PROVE  Inv'
  <1>1. RevisionInv' /\ LeaseInv' /\ OwnerInv'
    BY DEF IInv, RevisionInv, LeaseInv, OwnerInv, Owner, Mutating
  <1>2. JobInv' /\ OvnInv' /\ ConfirmedInv'
    BY DEF IInv, JobInv, OvnInv, ConfirmedInv, Holds, Owner, Mutating
  <1> QED BY <1>1, <1>2 DEF Inv

\* The lifecycle operations request a publication or leave it alone.
LEMMA LifecycleStep == IInv /\ Lifecycle => Inv'
  <1> SUFFICES ASSUME IInv, Lifecycle PROVE Inv'
    OBVIOUS
  <1>1. PICK v \in Versions : \/ SubmitIntent(v) \/ AcceptIntent(v)
                              \/ ModifyIntent(v)
                              \/ CompleteIntent(v) \/ CancelIntent(v)
    BY DEF Lifecycle
  <1>2. CASE SubmitIntent(v) \/ ModifyIntent(v)
    BY <1>2, IdleStep DEF SubmitIntent, ModifyIntent, external, local
  <1>3. CASE AcceptIntent(v) \/ CompleteIntent(v) \/ CancelIntent(v)
    <2>1. \E s \in ExternalState : RequestPublication(v, s)
      BY <1>3 DEF AcceptIntent, CompleteIntent, CancelIntent, EndIntent,
                  ExternalState
    <2>2. UNCHANGED <<lease, external, local>>
      BY <1>3 DEF AcceptIntent, CompleteIntent, CancelIntent, EndIntent
    <2> QED BY <2>1, <2>2, RequestStep
            DEF RequestPublication, external, local
  <1> QED BY <1>1, <1>2, <1>3

\* An abandoned reconciliation or activation.
LEMMA AbandonStep ==
    ASSUME IInv, NEW p \in Procs, Abandon(p)
    PROVE  Inv'
  <1>1. \E l \in Labels \ (Reconciling \cup {"reconcile"}) : Leave(p, l)
    <2>1. \/ Leave(p, ReturnTo(call[p].mode, FALSE))
          \/ Leave(p, "idle")
      BY DEF Abandon, Return
    <2> QED BY <2>1 DEF ReturnTo, Labels, Activating, Reconciling
  <1> QED BY <1>1, LeaveStep DEF Abandon, external

\* Every step keeps the invariant.
LEMMA InvStep == IInv /\ [Next]_vars => IInv'
  <1> SUFFICES ASSUME IInv, [Next]_vars PROVE IInv'
    OBVIOUS
  <1>1. TypeOK'
    BY TypeStep DEF IInv
  <1> SUFFICES Inv'
    BY <1>1 DEF Inv, IInv
  <1>2. Workers \subseteq Procs /\ Activators \subseteq Procs
    BY DEF Procs
  <1>3. CASE UNCHANGED vars
    BY <1>3, IdleStep DEF vars
  <1>4. CASE Lifecycle
    BY <1>4, LifecycleStep
  <1>5. CASE \E w \in Workers : ClaimDue(w)
    BY <1>2, <1>5, ClaimStep DEF ClaimDue, Reconciling
  <1>6. CASE \E a \in Activators : BeginActivation(a) \/ Activate(a)
    BY <1>2, <1>6, ActivateStep
  <1>7. CASE \E p \in Procs : Reconcile(p) \/ Abandon(p)
    BY <1>7, ReconcileStep, AbandonStep
  <1>8. CASE ExpireLease
    BY <1>8, ExpireStep
  <1>9. CASE \E m \in late : LateMutation(m)
    BY <1>9, LateStep
  <1> QED BY <1>3, <1>4, <1>5, <1>6, <1>7, <1>8, <1>9 DEF Next

\* The invariant holds initially: nothing is claimed, requested or published.
LEMMA InitIInv == Init => IInv
  <1> SUFFICES ASSUME Init PROVE IInv
    OBVIOUS
  <1>1. rows \in [Versions -> Row]
    BY DEF Init, Row, NoRow, IntentStatus
  <1>2. NoPublication \in Publication
    BY VersionFacts DEF NoPublication, Publication, ExternalState
  <1>3. NoReference \in Reference
    BY VersionFacts DEF NoReference, Reference
  <1>4. NoCall \in Call
    BY VersionFacts DEF NoCall, Call, Modes, IntentStatus, ExternalState
  <1>5. budget \in [BudgetKinds -> Nat]
    BY BoundsAssumption DEF Init, BudgetKinds
  <1>6. TypeOK
    BY <1>1, <1>2, <1>3, <1>4, <1>5 DEF Init, TypeOK
  <1>7. RevisionInv /\ LeaseInv /\ OwnerInv
    BY DEF Init, RevisionInv, LeaseInv, OwnerInv, Owner, Mutating,
           Reconciling, NoPublication
  <1>8. JobInv /\ OvnInv /\ ConfirmedInv
    BY DEF Init, JobInv, OvnInv, ConfirmedInv, Owner, NoPublication,
           NoReference, Reconciling
  <1> QED BY <1>6, <1>7, <1>8 DEF IInv

-----------------------------------------------------------------------------
(* Theorems.                                                               *)

\* The inductive invariant holds in every reachable state.
THEOREM Invariance == Spec => []IInv
  BY InitIInv, InvStep, PTL DEF Spec

\* Rows, publication record, DSS reference and outbox keep their types: every
\* record the reconciler writes, and every notification it enqueues, is one
\* the store can hold.
THEOREM TypeCorrect == Spec => []TypeOK
  <1>1. IInv => TypeOK
    BY DEF IInv
  <1> QED BY <1>1, Invariance, PTL

\* No two replicas are inside a DSS create, update or delete at once.
THEOREM MutualExclusion == Spec => []OneMutator
  <1>1. IInv => OneMutator
    BY MutatorAlone DEF OneMutator, Mutating
  <1> QED BY <1>1, Invariance, PTL

\* A confirmed publication is what the DSS holds, whatever late requests,
\* crashes and expired leases came before.
THEOREM ConfirmedIsHeld == Spec => []ConfirmedMatchesDSS
  <1>1. IInv => ConfirmedMatchesDSS
    BY DEF IInv, ConfirmedInv, Holds, ConfirmedMatchesDSS
  <1> QED BY <1>1, Invariance, PTL

=============================================================================
