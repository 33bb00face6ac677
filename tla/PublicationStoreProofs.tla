----------------------- MODULE PublicationStoreProofs -----------------------
(***************************************************************************)
(* Proofs about the publication store, for every number of workers,        *)
(* activators, versions and disturbances: every transaction of             *)
(* DSSPublication is one operation of the in-memory store, a delivered     *)
(* notification stays delivered, and the results on publication hold while *)
(* notifications are delivered.                                            *)
(*                                                                         *)
(* The argument for the refinement: a write of the rows is given the       *)
(* latest version, so that taking its record away and retiring the         *)
(* accepted ones below is what the in-memory store does to its map; a      *)
(* publication that does not exist yet knows no reference; what a          *)
(* reconciling process holds is the revision it claimed, since no step of  *)
(* its own changes it; and the outbox never has two notifications under    *)
(* one id.                                                                 *)
(***************************************************************************)
EXTENDS DSSPublicationStore, PublicationDelivery, DSSLifecycleProofs

-----------------------------------------------------------------------------
(* The mapped state.                                                       *)

Kept(v) == [version |-> v, status |-> rows[v].status, rev |-> rows[v].rev]

IntentRecords == {Kept(v) : v \in {v \in Versions : Exists(rows, v)}}

PublicationRecords == IF pub.sync = "absent" THEN {} ELSE {pub}

OutboxRecords == {Identified(n) : n \in outbox}

Holding == [p \in Procs |-> IF pc[p] \in Reconciling THEN job[p].rev ELSE -1]

\* The records of the versions that exist.
LEMMA IntentRecordsAre ==
    \A r : r \in IntentRecords <=>
        \E v \in Versions : Exists(rows, v) /\ r = Kept(v)
  BY DEF IntentRecords

\* A step that changes none of it is no step of the store.
LEMMA Stutters ==
    ASSUME UNCHANGED <<IntentRecords, PublicationRecords, lease, outbox, Holding>>
    PROVE  UNCHANGED Store!storeVars
  BY DEF Store!storeVars, IntentRecords, Kept, PublicationRecords, Holding

-----------------------------------------------------------------------------
(* What the refinement needs of the state.                                 *)

\* A publication that does not exist knows no reference; ids are unique.
StoreInv ==
    /\ pub.sync = "absent" => pub = NoPublication
    /\ \A m, n \in outbox : SameId(m, n) => m = n

\* A result is announced by one notification at most, under a new id.
LEMMA EnqueuedIds ==
    ASSUME StoreInv, NEW j, outbox' = Enqueued(Notifications(j))
    PROVE  /\ \A m, n \in outbox' : SameId(m, n) => m = n
           /\ outbox \subseteq outbox'
  <1>1. \A m, n \in Notifications(j) : m = n
    BY DEF Notifications
  <1>2. \A m, n : SameId(m, n) => SameId(n, m)
    BY DEF SameId
  <1> QED BY <1>1, <1>2 DEF Enqueued, StoreInv

\* No step makes a publication vanish, or reuses an id.
LEMMA StoreInvStep == IInv /\ LInv /\ StoreInv /\ [Next]_vars => StoreInv'
  <1> SUFFICES ASSUME IInv, LInv, StoreInv, [Next]_vars PROVE StoreInv'
    OBVIOUS
  <1>0. pub \in Publication /\ job \in [Procs -> Publication]
    BY DEF IInv, TypeOK
  <1>1. CASE UNCHANGED <<pub, outbox>>
    BY <1>1 DEF StoreInv
  <1>2. CASE Requests
    <2>1. pub'.sync = "pending" /\ UNCHANGED outbox
      BY <1>0, <1>2 DEF Requests, Requested, Publication
    <2> QED BY <2>1 DEF StoreInv
  <1>3. CASE Claims
    <2>1. pub'.sync = "processing" /\ UNCHANGED outbox
      BY <1>0, <1>3 DEF Claims, Claim, Claimed, Publication
    <2> QED BY <2>1 DEF StoreInv
  <1>4. ASSUME NEW p \in Procs, Writes(p) PROVE StoreInv'
    <2>1. job[p].sync # "absent" /\ pub'.sync = job[p].sync
      BY <1>0, <1>4 DEF Writes, IInv, JobInv, Reconciling, Publication
    <2>2. \A m, n \in outbox' : SameId(m, n) => m = n
      BY <1>4, EnqueuedIds DEF Writes
    <2> QED BY <2>1, <2>2 DEF StoreInv
  <1> QED BY <1>1, <1>2, <1>3, <1>4, StepKinds
          DEF Apart, Continued, Works, LateMutation

-----------------------------------------------------------------------------
(* Operational intents.                                                    *)

\* The latest version has the latest record.
LEMMA LatestKept ==
    ASSUME NEW v \in Versions, IsLatest(rows, v)
    PROVE  /\ Kept(v) \in IntentRecords
           /\ Store!Latest(Kept(v))
           /\ Kept(v).version = v
           /\ \A w \in Versions : Exists(rows, w) => w <= v
  <1>1. Kept(v) \in IntentRecords
    BY IntentRecordsAre DEF IsLatest
  <1>2. \A w \in Versions : Exists(rows, w) => w <= v
    BY DEF IsLatest, Versions
  <1>3. \A w \in Versions : Kept(w).version = w
    BY DEF Kept
  <1>4. \A r \in IntentRecords : r.version <= Kept(v).version
    BY <1>2, <1>3, IntentRecordsAre
  <1> QED BY <1>1, <1>2, <1>3, <1>4 DEF Store!Latest, IntentRecords, Kept

\* Written, over the mapped state.
LEMMA WrittenIs ==
    ASSUME NEW r, NEW s
    PROVE  Store!Written(r, s) =
               (IntentRecords \ {r}) \cup {[r EXCEPT !.status = s, !.rev = @ + 1]}
  BY DEF Store!Written, IntentRecords, Kept

\* The record of the latest version as it is written.
LEMMA WrittenRecord ==
    ASSUME NEW v \in Versions, NEW s
    PROVE  [version |-> v, status |-> s, rev |-> rows[v].rev + 1] =
               [Kept(v) EXCEPT !.status = s, !.rev = @ + 1]
  <1>1. ASSUME NEW k, k = [version |-> v, status |-> rows[v].status,
                           rev |-> rows[v].rev],
               NEW m, m = [k EXCEPT !.status = s, !.rev = @ + 1]
        PROVE  m = [version |-> v, status |-> s, rev |-> rows[v].rev + 1]
    BY <1>1
  <1> QED BY <1>1 DEF Kept

\* The latest record is written alone: with a status, or in place.
LEMMA WrittenAlone ==
    ASSUME TypeOK, NEW v \in Versions, IsLatest(rows, v), NEW s,
           s # "none", rows' = [rows EXCEPT ![v] = [status |-> s, rev |-> @.rev + 1]]
    PROVE  IntentRecords' = Store!Written(Kept(v), s)
  <1> DEFINE new == [version |-> v, status |-> s, rev |-> rows[v].rev + 1]
  <1>0. rows \in [Versions -> Row]
    BY DEF TypeOK
  <1>1. /\ Kept(v)' = new /\ Exists(rows', v)
        /\ \A w \in Versions : w # v =>
              rows'[w] = rows[w] /\ Kept(w)' = Kept(w)
    BY <1>0 DEF Kept, Exists
  <1>2. \A w \in Versions : Kept(w).version = w
    BY DEF Kept
  <1>3. \A w \in Versions : w # v => (Exists(rows', w) <=> Exists(rows, w))
    BY <1>1 DEF Exists
  <1>4. Store!Written(Kept(v), s) = (IntentRecords \ {Kept(v)}) \cup {new}
    BY WrittenIs, WrittenRecord
  <1>5. \A r : r \in IntentRecords' <=>
          \E w \in Versions : Exists(rows', w) /\ r = Kept(w)'
    BY DEF IntentRecords
  <1> HIDE DEF new
  <1>6. ASSUME NEW r \in IntentRecords'
        PROVE  r \in (IntentRecords \ {Kept(v)}) \cup {new}
    <2>1. PICK w \in Versions : Exists(rows', w) /\ r = Kept(w)'
      BY <1>5
    <2>2. CASE w = v
      BY <1>1, <2>1, <2>2
    <2>3. CASE w # v
      <3>1. Exists(rows, w) /\ r = Kept(w)
        BY <1>1, <1>3, <2>1, <2>3
      <3>2. r \in IntentRecords
        BY <3>1, IntentRecordsAre
      <3>3. r # Kept(v)
        BY <1>2, <2>3, <3>1
      <3> QED BY <3>2, <3>3
    <2> QED BY <2>2, <2>3
  <1>7. ASSUME NEW r \in (IntentRecords \ {Kept(v)}) \cup {new}
        PROVE  r \in IntentRecords'
    <2>1. CASE r = new
      BY <1>1, <1>5, <2>1
    <2>2. CASE r \in IntentRecords /\ r # Kept(v)
      <3>1. PICK w \in Versions : Exists(rows, w) /\ r = Kept(w)
        BY <2>2, IntentRecordsAre
      <3>2. w # v
        BY <2>2, <3>1
      <3> QED BY <1>1, <1>3, <1>5, <3>1, <3>2
    <2> QED BY <1>7, <2>1, <2>2
  <1> QED BY <1>4, <1>6, <1>7

\* The latest record is written, and the accepted ones below are retired.
LEMMA WrittenWithPrior ==
    ASSUME TypeOK, NEW v \in Versions, IsLatest(rows, v), NEW s, NEW t,
           s # "none", t # "none", rows' = SetWithPrior(rows, v, s, t)
    PROVE  IntentRecords' =
               Store!Retired(Store!Written(Kept(v), s), Kept(v), t)
  <1> DEFINE new == [version |-> v, status |-> s, rev |-> rows[v].rev + 1]
             W == (IntentRecords \ {Kept(v)}) \cup {new}
             Ret(q) == IF q.version < v /\ q.status = "accepted"
                       THEN [q EXCEPT !.status = t, !.rev = @ + 1] ELSE q
  <1>0. rows \in [Versions -> Row]
    BY DEF TypeOK
  <1>1. /\ Store!Written(Kept(v), s) = W
        /\ Kept(v).version = v
    BY WrittenIs, WrittenRecord DEF Kept
  <1>2. Store!Retired(W, Kept(v), t) = {Ret(q) : q \in W}
    BY <1>1 DEF Store!Retired
  <1>3. new.version = v /\ Ret(new) = new
    BY DEF Versions
  <1>4. Kept(v)' = new /\ Exists(rows', v)
    BY <1>0 DEF Kept, Exists, SetWithPrior
  <1>5. ASSUME NEW w \in Versions, w # v, Exists(rows, w)
        PROVE  Kept(w)' = Ret(Kept(w)) /\ Exists(rows', w) /\ Kept(w) \in W
    <2>1. w < v /\ v # w
      BY <1>5, LatestKept DEF Versions
    <2>2. Kept(w).version = w /\ Kept(w) # Kept(v)
      BY <1>1, <1>5 DEF Kept
    <2>3. rows'[w] = IF rows[w].status = "accepted"
                     THEN [status |-> t, rev |-> rows[w].rev + 1] ELSE rows[w]
      BY <2>1 DEF SetWithPrior
    <2>4. Kept(w)' = Ret(Kept(w))
      <3>1. Kept(w).status = rows[w].status /\ Kept(w).rev = rows[w].rev
        BY DEF Kept
      <3>2. CASE rows[w].status = "accepted"
        <4>1. Kept(w)' = [version |-> w, status |-> t, rev |-> rows[w].rev + 1]
          BY <2>3, <3>2 DEF Kept
        <4>2. Ret(Kept(w)) = [version |-> w, status |-> t, rev |-> rows[w].rev + 1]
          BY <2>1, <2>2, <3>1, <3>2 DEF Kept
        <4> QED BY <4>1, <4>2
      <3>3. CASE rows[w].status # "accepted"
        BY <2>3, <3>1, <3>3 DEF Kept
      <3> QED BY <3>2, <3>3
    <2>5. Exists(rows', w)
      BY <1>5, <2>3 DEF Exists
    <2> QED BY <1>5, <2>2, <2>4, <2>5, IntentRecordsAre
  <1>6. ASSUME NEW w \in Versions, w # v, ~Exists(rows, w)
        PROVE  ~Exists(rows', w)
    BY <1>6 DEF Exists, SetWithPrior
  <1>7. \A r : r \in IntentRecords' <=>
          \E w \in Versions : Exists(rows', w) /\ r = Kept(w)'
    BY DEF IntentRecords
  <1>8. \A q \in W : q = new \/ \E w \in Versions :
                                   w # v /\ Exists(rows, w) /\ q = Kept(w)
    BY IntentRecordsAre
  <1>9. new \in W
    OBVIOUS
  <1> HIDE DEF new, W, Ret
  <1>10. ASSUME NEW r \in IntentRecords' PROVE \E q \in W : r = Ret(q)
    BY <1>3, <1>4, <1>5, <1>6, <1>7, <1>9, <1>10
  <1>11. ASSUME NEW q \in W PROVE Ret(q) \in IntentRecords'
    BY <1>3, <1>4, <1>5, <1>7, <1>8
  <1>12. IntentRecords' = {Ret(q) : q \in W}
    BY <1>10, <1>11
  <1> QED BY <1>1, <1>2, <1>12

\* updateOperationalIntentTx is Update.
LEMMA Updates ==
    ASSUME TypeOK, NEW v \in Versions, IsLatest(rows, v), NEW s, s # "none",
           rows' = UpdateRow(rows, v, s)
    PROVE  Store!Update(s)
  <1>1. Kept(v) \in IntentRecords /\ Store!Latest(Kept(v))
    BY LatestKept
  <1>2. IntentRecords' =
          IF s \in Terminal
          THEN Store!Retired(Store!Written(Kept(v), s), Kept(v), s)
          ELSE Store!Written(Kept(v), s)
    BY WrittenAlone, WrittenWithPrior DEF UpdateRow
  <1>3. \E r \in IntentRecords :
          /\ Store!Latest(r)
          /\ IntentRecords' = IF s \in Terminal
                              THEN Store!Retired(Store!Written(r, s), r, s)
                              ELSE Store!Written(r, s)
    BY <1>1, <1>2
  <1> QED BY <1>3 DEF Store!Update, IntentRecords, Kept

\* acceptOperationalIntentTx is Accept.
LEMMA Accepts ==
    ASSUME TypeOK, NEW v \in Versions, IsLatest(rows, v),
           rows' = AcceptRow(rows, v)
    PROVE  Store!Accept
  <1>1. Kept(v) \in IntentRecords /\ Store!Latest(Kept(v))
    BY LatestKept
  <1>2. IntentRecords' =
          Store!Retired(Store!Written(Kept(v), "accepted"), Kept(v), "superseded")
    BY WrittenWithPrior DEF AcceptRow
  <1>3. \E r \in IntentRecords :
          /\ Store!Latest(r)
          /\ IntentRecords' =
                Store!Retired(Store!Written(r, "accepted"), r, "superseded")
    BY <1>1, <1>2
  <1> QED BY <1>3 DEF Store!Accept, IntentRecords, Kept

\* ReplaceOperationalIntent is Replace.
LEMMA Replaces ==
    ASSUME TypeOK, NEW v \in Versions, IsLatest(rows, v),
           rows[v].status = "accepted" => v < MaxVersion,
           rows' = ReplaceRow(rows, v)
    PROVE  Store!Replace
  <1>0. rows \in [Versions -> Row] /\ rows[v].status # "none"
    BY DEF TypeOK, IsLatest, Exists
  <1>1. /\ Kept(v) \in IntentRecords /\ Store!Latest(Kept(v))
        /\ Kept(v).version = v /\ Kept(v).status = rows[v].status
    BY LatestKept DEF Kept
  <1>2. CASE rows[v].status # "accepted"
    <2>1. rows' = [rows EXCEPT ![v] = [status |-> rows[v].status,
                                       rev |-> @.rev + 1]]
      <3>1. rows[v] \in Row
        BY <1>0
      <3>2. [rows[v] EXCEPT !.rev = @ + 1] =
              [status |-> rows[v].status, rev |-> rows[v].rev + 1]
        BY <3>1 DEF Row
      <3> QED BY <1>2, <3>2 DEF ReplaceRow
    <2>2. IntentRecords' = Store!Written(Kept(v), Kept(v).status)
      BY <1>0, <1>1, <2>1, WrittenAlone
    <2>3. \E r \in IntentRecords :
            Store!Latest(r) /\ IntentRecords' = Store!Written(r, r.status)
      BY <1>1, <2>2
    <2> QED BY <2>3 DEF Store!Replace, IntentRecords, Kept
  <1>3. CASE rows[v].status = "accepted"
    <2> DEFINE new == [version |-> v + 1, status |-> "draft", rev |-> 0]
    <2>1. v + 1 \in Versions /\ ~Exists(rows, v + 1)
      BY <1>3, MaxVersionAssumption DEF IsLatest, Versions
    <2>2. /\ Kept(v + 1)' = new /\ Exists(rows', v + 1)
          /\ \A w \in Versions : w # v + 1 =>
                rows'[w] = rows[w] /\ Kept(w)' = Kept(w)
      BY <1>0, <1>3, <2>1 DEF ReplaceRow, Kept, Exists
    <2>3. \A w \in Versions : w # v + 1 => (Exists(rows', w) <=> Exists(rows, w))
      BY <2>2 DEF Exists
    <2>4. \A r : r \in IntentRecords' <=>
            \E w \in Versions : Exists(rows', w) /\ r = Kept(w)'
      BY DEF IntentRecords
    <2> HIDE DEF new
    <2>5. IntentRecords' = IntentRecords \cup {new}
      BY <2>1, <2>2, <2>3, <2>4, IntentRecordsAre
    <2>6. \E r \in IntentRecords :
            /\ Store!Latest(r)
            /\ IntentRecords' = IntentRecords \cup
                 {[version |-> r.version + 1, status |-> "draft", rev |-> 0]}
      BY <1>1, <2>5 DEF new
    <2> QED BY <2>6 DEF Store!Replace, IntentRecords, Kept
  <1> QED BY <1>2, <1>3

-----------------------------------------------------------------------------
(* Publications.                                                           *)

\* requestPublicationTx is Request.
LEMMA RequestsOne ==
    ASSUME IInv, StoreInv, NEW v \in Versions, NEW s \in ExternalState,
           Exists(rows', v), pub' = Requested(v, s)
    PROVE  Store!Request
  <1>0. pub \in Publication
    BY DEF IInv, TypeOK
  <1>1. /\ pub'.sync = "pending" /\ pub'.desVer = v /\ pub'.desState = s
        /\ pub'.confState = pub.confState
        /\ pub'.rev = IF pub.sync = "absent" THEN 0 ELSE pub.rev + 1
        /\ <<pub'.pubVer, pub'.dssVer, pub'.ovn>> =
              IF pub.sync = "withdrawn" /\ s # "Withdrawn" THEN <<0, 0, 0>>
              ELSE <<pub.pubVer, pub.dssVer, pub.ovn>>
    BY <1>0 DEF Requested, Publication
  <1>2. PublicationRecords' = {pub'}
    BY <1>1 DEF PublicationRecords
  <1>3. \E r \in IntentRecords' : r.version = pub'.desVer
    <2>1. Kept(v)' \in IntentRecords' /\ Kept(v)'.version = v
      BY DEF IntentRecords, Kept
    <2> QED BY <1>1, <2>1
  <1>4. ASSUME PublicationRecords = {}
        PROVE  pub'.rev = 0 /\ pub'.ovn = 0 /\ pub'.pubVer = 0
    <2>1. pub.sync = "absent" /\ pub = NoPublication
      BY <1>4 DEF PublicationRecords, StoreInv
    <2>2. pub.ovn = 0 /\ pub.pubVer = 0 /\ pub.dssVer = 0
      BY <2>1 DEF NoPublication
    <2> QED BY <1>1, <2>1, <2>2
  <1>5. ASSUME NEW old \in PublicationRecords
        PROVE  /\ pub'.rev = old.rev + 1
               /\ pub'.confState = old.confState
               /\ <<pub'.pubVer, pub'.dssVer, pub'.ovn>> =
                     IF old.sync = "withdrawn" /\ pub'.desState # "Withdrawn"
                     THEN <<0, 0, 0>> ELSE <<old.pubVer, old.dssVer, old.ovn>>
    <2>1. old = pub /\ pub.sync # "absent"
      BY DEF PublicationRecords
    <2> QED BY <1>1, <2>1
  <1>6. \E p \in PublicationRecords' :
          /\ PublicationRecords' = {p}
          /\ p.sync = "pending"
          /\ \E r \in IntentRecords' : r.version = p.desVer
          /\ PublicationRecords = {} => p.rev = 0 /\ p.ovn = 0 /\ p.pubVer = 0
          /\ \A old \in PublicationRecords :
                /\ p.rev = old.rev + 1
                /\ p.confState = old.confState
                /\ <<p.pubVer, p.dssVer, p.ovn>> =
                      IF old.sync = "withdrawn" /\ p.desState # "Withdrawn"
                      THEN <<0, 0, 0>> ELSE <<old.pubVer, old.dssVer, old.ovn>>
    BY <1>1, <1>2, <1>3, <1>4, <1>5
  <1> QED BY <1>6 DEF Store!Request, PublicationRecords, IntentRecords, Kept

\* A process that leaves the reconciler holds nothing, one that was not in it
\* held nothing before.
LEMMA HoldingLeaves ==
    ASSUME TypeOK, NEW p \in Procs, NEW l, l \notin Reconciling,
           pc' = [pc EXCEPT ![p] = l],
           \A q \in Procs \ {p} : job'[q] = job[q]
    PROVE  /\ Holding' = [Holding EXCEPT ![p] = -1]
           /\ pc[p] \notin Reconciling => Holding' = Holding
  BY DEF Holding, TypeOK

\* A step inside the reconciler keeps what is held.
LEMMA HoldingWorks ==
    ASSUME TypeOK, NEW p \in Procs, NEW j, NEW l \in Reconciling,
           pc[p] \in Reconciling, j.rev = job[p].rev,
           job' = [job EXCEPT ![p] = j], pc' = [pc EXCEPT ![p] = l]
    PROVE  Holding' = Holding
  BY DEF Holding, TypeOK

\* A step outside the reconciler that writes nothing is no step of the store.
LEMMA MovesQuietly ==
    ASSUME TypeOK, NEW p \in Procs, NEW l, l \notin Reconciling,
           pc[p] \notin Reconciling,
           Leave(p, l) \/ (Goto(p, l) /\ UNCHANGED job),
           UNCHANGED <<rows, pub, lease, outbox>>
    PROVE  UNCHANGED Store!storeVars
  <1>1. /\ pc' = [pc EXCEPT ![p] = l]
        /\ \A q \in Procs \ {p} : job'[q] = job[q]
    BY DEF Leave, Goto, TypeOK
  <1>2. Holding' = Holding
    BY <1>1, HoldingLeaves
  <1>3. UNCHANGED <<IntentRecords, PublicationRecords>>
    BY DEF IntentRecords, Kept, PublicationRecords
  <1> QED BY <1>2, <1>3, Stutters

\* A reconciling process that leaves without a result gives up what it held.
LEMMA GivesUpHeld ==
    ASSUME TypeOK, NEW p \in Procs, NEW l, l \notin Reconciling,
           pc[p] \in Reconciling, Leave(p, l),
           UNCHANGED <<rows, pub, lease, outbox>>
    PROVE  Store!StoreNext
  <1>1. /\ pc' = [pc EXCEPT ![p] = l]
        /\ \A q \in Procs \ {p} : job'[q] = job[q]
    BY DEF Leave, TypeOK
  <1>2. Holding' = [Holding EXCEPT ![p] = -1]
    BY <1>1, HoldingLeaves
  <1>3. Holding[p] # -1
    BY DEF Holding, TypeOK, Publication
  <1>4. Store!GiveUp(p)
    BY <1>2, <1>3 DEF Store!GiveUp, Store!Release, Store!Unheld, Holding
  <1>5. UNCHANGED <<IntentRecords, PublicationRecords, OutboxRecords>>
    BY DEF IntentRecords, Kept, PublicationRecords, OutboxRecords
  <1> QED BY <1>4, <1>5
          DEF Store!StoreNext, IntentRecords, Kept, PublicationRecords, OutboxRecords

\* claimPublication is Claim.
LEMMA ClaimsOne ==
    ASSUME IInv, NEW p \in Procs, Claim(p), pub.sync # "absent"
    PROVE  Store!StoreNext
  <1>0. TypeOK /\ pub \in Publication
    BY DEF IInv, TypeOK
  <1>1. /\ lease = "free" /\ lease' = p /\ p # "free"
        /\ UNCHANGED <<rows, outbox>>
    BY ProcessesAssumption DEF Claim, Procs
  <1>2. PublicationRecords = {pub} /\ PublicationRecords' = {Claimed}
    BY <1>0 DEF PublicationRecords, Claim, Claimed, Publication
  <1>3. Holding' = [Holding EXCEPT ![p] = pub.rev + 1]
    BY <1>0 DEF Holding, TypeOK, Claim, Goto, Claimed, Publication, Reconciling
  <1>4. \E old \in PublicationRecords :
          /\ PublicationRecords' =
                {[old EXCEPT !.rev = @ + 1, !.sync = "processing"]}
          /\ Holding' = [Holding EXCEPT ![p] = old.rev + 1]
    BY <1>2, <1>3 DEF Claimed
  <1>5. Store!Claim(p)
    BY <1>1, <1>4 DEF Store!Claim, PublicationRecords, Holding
  <1>6. UNCHANGED <<IntentRecords, OutboxRecords>>
    BY <1>1 DEF IntentRecords, Kept, OutboxRecords
  <1> QED BY <1>5, <1>6 DEF Store!StoreNext, IntentRecords, Kept, OutboxRecords

\* Writing a result is Record and Enqueue, or the holder is refused.
LEMMA RecordsOne ==
    ASSUME IInv, StoreInv, NEW p \in Procs, WriteResult(p)
    PROVE  Store!StoreNext
  <1>0. /\ TypeOK /\ pub \in Publication /\ job[p] \in Publication
        /\ pc[p] = "write" /\ pc[p] \in Reconciling /\ UNCHANGED rows
    BY DEF IInv, TypeOK, WriteResult, Reconciling
  <1>1. \A ok \in BOOLEAN : ReturnTo(call[p].mode, ok) \notin Reconciling
    BY DEF ReturnTo, Reconciling
  <1>2. CASE job[p].rev # pub.rev
    BY <1>0, <1>1, <1>2, GivesUpHeld DEF WriteResult, Return
  <1>3. CASE job[p].rev = pub.rev
    <2> DEFINE done == job[p].sync \in {"confirmed", "withdrawn"}
               l == ReturnTo(call[p].mode, done)
    <2>0. done \in BOOLEAN
      OBVIOUS
    <2>a. /\ pub' = [job[p] EXCEPT !.rev = @ + 1] /\ lease' = "free"
          /\ outbox' = Enqueued(Notifications(job[p]))
          /\ Leave(p, l)
      BY <1>3 DEF WriteResult, Return
    <2> HIDE DEF done
    <2>1. /\ pub' = [job[p] EXCEPT !.rev = @ + 1] /\ lease' = "free"
          /\ outbox' = Enqueued(Notifications(job[p]))
          /\ Leave(p, l) /\ l \notin Reconciling
      BY <1>1, <2>0, <2>a
    <2> HIDE DEF l
    <2>2. pub.sync # "absent" /\ job[p].sync # "absent"
      BY <1>0 DEF IInv, RevisionInv, JobInv
    <2>3. pub'.sync # "absent" /\ pub'.rev = pub.rev + 1
      BY <1>0, <1>3, <2>1, <2>2 DEF Publication
    <2>4. PublicationRecords = {pub} /\ PublicationRecords' = {pub'}
      BY <2>2, <2>3 DEF PublicationRecords
    <2>5. Holding[p] = pub.rev /\ Holding' = [Holding EXCEPT ![p] = -1]
      <3>1. /\ pc' = [pc EXCEPT ![p] = l]
            /\ \A q \in Procs \ {p} : job'[q] = job[q]
        BY <1>0, <2>1 DEF Leave, TypeOK
      <3>2. Holding' = [Holding EXCEPT ![p] = -1]
        BY <1>0, <2>1, <3>1, HoldingLeaves
      <3> QED BY <1>0, <1>3, <3>2 DEF Holding
    <2>6. \E old \in PublicationRecords, q \in PublicationRecords' :
            /\ old.rev = Holding[p]
            /\ PublicationRecords' = {q} /\ q.rev = old.rev + 1
            /\ Holding' = [Holding EXCEPT ![p] = -1]
      BY <2>3, <2>4, <2>5
    <2>7. Store!Record(p)
      BY <2>1, <2>6 DEF Store!Record, Store!Release, Store!Unheld,
                        PublicationRecords, Holding
    <2>8. \A m, n \in OutboxRecords' : m.id = n.id => m = n
      <3>1. \A m, n \in outbox' : SameId(m, n) => m = n
        BY <2>1, EnqueuedIds
      <3>2. \A m, n \in outbox' : Identified(m).id = Identified(n).id =>
                                       SameId(m, n)
        <4>1. ASSUME NEW m, NEW n, Identified(m).id = Identified(n).id
              PROVE  SameId(m, n)
          <5>1. <<m.dssVer, IF m.dssVer = 0 THEN m.ver ELSE 0>> =
                  <<n.dssVer, IF n.dssVer = 0 THEN n.ver ELSE 0>>
            BY <4>1 DEF Identified
          <5> QED BY <5>1 DEF SameId
        <4> QED BY <4>1
      <3> QED BY <3>1, <3>2 DEF OutboxRecords
    <2>9. OutboxRecords \subseteq OutboxRecords'
      BY <2>1, EnqueuedIds DEF OutboxRecords
    <2>10. Store!Enqueue
      BY <2>8, <2>9 DEF Store!Enqueue, OutboxRecords
    <2>11. UNCHANGED IntentRecords
      BY <1>0 DEF IntentRecords, Kept
    <2> QED BY <2>7, <2>10, <2>11 DEF Store!StoreNext, IntentRecords, Kept
  <1> QED BY <1>2, <1>3

\* Renewing the lease is Renew, or the holder is refused.
LEMMA RenewsOne ==
    ASSUME IInv, NEW p \in Procs, RenewLease(p)
    PROVE  Store!StoreNext
  <1>0. /\ TypeOK /\ pc[p] = "ready" /\ pc[p] \in Reconciling
        /\ UNCHANGED <<rows, pub, outbox>>
    BY DEF IInv, RenewLease, Reconciling
  <1>1. CASE job[p].rev # pub.rev
    <2>1. ReturnTo(call[p].mode, FALSE) \notin Reconciling
      BY DEF ReturnTo, Reconciling
    <2> QED BY <1>0, <1>1, <2>1, GivesUpHeld DEF RenewLease, Return
  <1>2. CASE job[p].rev = pub.rev
    <2>1. /\ pc' = [pc EXCEPT ![p] = "mutating"] /\ UNCHANGED job
          /\ lease' = p /\ p # "free"
      BY <1>2, ProcessesAssumption DEF RenewLease, Goto, Procs
    <2>2. Holding' = Holding /\ Holding[p] = pub.rev
      BY <1>0, <1>2, <2>1 DEF Holding, TypeOK, Reconciling
    <2>3. PublicationRecords = {pub}
      BY <1>0 DEF PublicationRecords, IInv, RevisionInv
    <2>4. UNCHANGED <<IntentRecords, PublicationRecords, OutboxRecords>>
      BY <1>0 DEF IntentRecords, Kept, PublicationRecords, OutboxRecords
    <2>5. \E q \in PublicationRecords : q.rev = Holding[p]
      BY <2>2, <2>3
    <2>6. Store!Renew(p)
      BY <2>1, <2>2, <2>4, <2>5 DEF Store!Renew, PublicationRecords, Holding
    <2> QED BY <2>4, <2>6 DEF Store!StoreNext, IntentRecords, Kept, OutboxRecords
  <1> QED BY <1>1, <1>2

-----------------------------------------------------------------------------
(* The refinement, one lemma per group of steps.                           *)

\* The lifecycle operations.
LEMMA LifecycleStores ==
    ASSUME IInv, StoreInv, Lifecycle
    PROVE  Store!StoreNext
  <1>0. TypeOK /\ rows \in [Versions -> Row]
    BY DEF IInv, TypeOK
  <1>1. UNCHANGED <<lease, outbox, pc, job>>
    BY DEF Lifecycle, SubmitIntent, AcceptIntent, ModifyIntent, CompleteIntent,
           CancelIntent, EndIntent, local
  <1>2. UNCHANGED <<OutboxRecords, Holding>>
    BY <1>1 DEF OutboxRecords, Holding
  <1>3. ASSUME \/ Store!Accept /\ Store!Request
               \/ \E s \in Terminal : Store!Update(s) /\ Store!Request
               \/ Store!Update("submitted") /\ UNCHANGED pub
               \/ Store!Replace /\ UNCHANGED pub
        PROVE  Store!StoreNext
    <2>1. UNCHANGED pub => UNCHANGED PublicationRecords
      BY DEF PublicationRecords
    <2>2. \/ Store!Accept /\ Store!Request
          \/ \E s \in Terminal : Store!Update(s) /\ Store!Request
          \/ /\ \E s \in Store!Statuses : Store!Update(s)
             /\ UNCHANGED PublicationRecords
          \/ Store!Replace /\ UNCHANGED PublicationRecords
      BY <1>3, <2>1 DEF Store!Statuses
    <2>3. UNCHANGED (lease # "free")
      BY <1>1
    <2> QED BY <1>2, <2>2, <2>3
            DEF Store!StoreNext, OutboxRecords, Holding, PublicationRecords
  <1>4. PICK v \in Versions : \/ SubmitIntent(v) \/ AcceptIntent(v)
                              \/ ModifyIntent(v)
                              \/ CompleteIntent(v) \/ CancelIntent(v)
    BY DEF Lifecycle
  <1>5. CASE SubmitIntent(v)
    BY <1>0, <1>3, <1>5, Updates DEF SubmitIntent
  <1>6. CASE ModifyIntent(v)
    <2>1. /\ IsLatest(rows, v) /\ rows' = ReplaceRow(rows, v) /\ UNCHANGED pub
          /\ rows[v].status = "accepted" => v < MaxVersion
      BY <1>6 DEF ModifyIntent
    <2> QED BY <1>0, <1>3, <2>1, Replaces
  <1>7. CASE AcceptIntent(v)
    <2>1. IsLatest(rows, v) /\ rows' = AcceptRow(rows, v)
          /\ pub' = Requested(v, "Accepted")
      BY <1>7 DEF AcceptIntent, RequestPublication
    <2>2. Exists(rows', v)
      BY <2>1 DEF AcceptRow, SetWithPrior, Exists
    <2>3. Store!Accept /\ Store!Request
      BY <1>0, <2>1, <2>2, Accepts, RequestsOne DEF ExternalState
    <2> QED BY <1>3, <2>3
  <1>8. ASSUME NEW s \in Terminal, EndIntent(v, s) PROVE Store!StoreNext
    <2>1. IsLatest(rows, v) /\ rows' = UpdateRow(rows, v, s)
          /\ pub' = Requested(v, "Withdrawn")
      BY <1>8 DEF EndIntent, RequestPublication
    <2>2. Exists(rows', v) /\ s # "none"
      BY <2>1 DEF UpdateRow, SetWithPrior, Exists, Terminal
    <2>3. Store!Update(s) /\ Store!Request
      BY <1>0, <2>1, <2>2, Updates, RequestsOne DEF ExternalState
    <2> QED BY <1>3, <2>3
  <1> QED BY <1>4, <1>5, <1>6, <1>7, <1>8
          DEF CompleteIntent, CancelIntent, Terminal

\* The steps of the reconciler.
LEMMA ReconcileStores ==
    ASSUME IInv, LInv, StoreInv, NEW p \in Procs, Reconcile(p)
    PROVE  [Store!StoreNext]_(Store!storeVars)
  <1>0. TypeOK
    BY DEF IInv
  <1>1. CASE WriteResult(p)
    BY <1>1, RecordsOne
  <1>2. CASE RenewLease(p)
    BY <1>2, RenewsOne
  <1>3. CASE ~WriteResult(p) /\ ~RenewLease(p)
    <2>1. UNCHANGED lease /\ pc[p] # "write"
      BY <1>3 DEF Reconcile, LookUp, Check, Publish, Withdraw, MutationFails,
                  ReadBack, RecoverWithdrawal, Step
    <2>2. pc[p] \in Reconciling /\ (Continued(p) \/ GivesUp(p))
      BY <2>1, ReconcileKinds DEF Writes
    <2>3. CASE Continued(p)
      <3>1. PICK j, l : l \in Reconciling /\ Works(p, j, l) /\ Follows(p, j, l)
        BY <2>3 DEF Continued
      <3>2. Holding' = Holding
        BY <1>0, <2>2, <3>1, HoldingWorks DEF Works, Follows
      <3>3. UNCHANGED <<IntentRecords, PublicationRecords, outbox>>
        BY <3>1 DEF IntentRecords, Kept, PublicationRecords, Works
      <3> QED BY <2>1, <3>2, <3>3, Stutters
    <2>4. CASE GivesUp(p)
      <3>1. PICK l : Moves(p, l) /\ Leave(p, l)
        BY <2>4 DEF GivesUp
      <3>2. l \notin Reconciling
        BY <3>1 DEF Moves, Reconciling
      <3> QED BY <1>0, <2>1, <2>2, <2>4, <3>1, <3>2, GivesUpHeld DEF GivesUp
    <2> QED BY <2>2, <2>3, <2>4
  <1> QED BY <1>1, <1>2, <1>3

\* The steps of an activator.
LEMMA ActivateStores ==
    ASSUME IInv, LInv, StoreInv, NEW a \in Activators,
           BeginActivation(a) \/ Activate(a)
    PROVE  [Store!StoreNext]_(Store!storeVars)
  <1>0. TypeOK /\ a \in Procs /\ call[a] \in Call
    BY DEF IInv, TypeOK, Procs
  <1>1. {"idle", "getpub", "backfill", "request", "reconcile", "verify",
         "commit", "compensate", "comppub", "comprequest"} \cap Reconciling = {}
    BY DEF Reconciling
  <1>2. ASSUME NEW l, l \notin Reconciling, pc[a] \notin Reconciling,
               Proceed(a, l)
        PROVE  UNCHANGED Store!storeVars
    BY <1>0, <1>2, MovesQuietly DEF Proceed
  <1>3. ASSUME NEW l, l \notin Reconciling, pc[a] \notin Reconciling,
               Goto(a, l), UNCHANGED <<rows, pub, lease, outbox, job>>
        PROVE  UNCHANGED Store!storeVars
    BY <1>0, <1>3, MovesQuietly
  <1>4. ASSUME NEW v \in Versions, NEW s \in ExternalState, NEW mode,
               pc[a] \notin Reconciling, RequestIfCurrent(a, v, s, mode)
        PROVE  [Store!StoreNext]_(Store!storeVars)
    <2>1. CASE Proceed(a, "idle")
      BY <1>1, <1>2, <1>4, <2>1
    <2>2. CASE /\ RequestPublication(v, s) /\ Goto(a, "reconcile")
               /\ UNCHANGED <<rows, lease, outbox, job>>
      <3>1. Store!Request
        BY <2>2, RequestsOne DEF RequestPublication
      <3>2. Holding' = Holding
        BY <1>0, <1>1, <1>4, <2>2, HoldingLeaves DEF Goto
      <3>3. UNCHANGED <<IntentRecords, OutboxRecords>>
        BY <2>2 DEF IntentRecords, Kept, OutboxRecords
      <3> QED BY <2>2, <3>1, <3>2, <3>3
              DEF Store!StoreNext, IntentRecords, Kept, OutboxRecords, Holding
    <2> QED BY <1>4, <2>1, <2>2 DEF RequestIfCurrent
  <1>5. CASE BeginActivation(a)
    BY <1>1, <1>3, <1>5 DEF BeginActivation
  <1>6. CASE ReadPublication(a)
    <2>1. \E l \in {"backfill", "request", "commit", "idle"} : Proceed(a, l)
      BY <1>6 DEF ReadPublication
    <2> QED BY <1>1, <1>2, <1>6, <2>1 DEF ReadPublication
  <1>7. CASE BackfillAcceptance(a) \/ RequestActivation(a)
             \/ CompensateRequest(a)
    BY <1>0, <1>1, <1>4, <1>7
       DEF BackfillAcceptance, RequestActivation, CompensateRequest, Call,
           ExternalState
  <1>8. CASE ClaimById(a)
    <2>1. CASE Claim(a)
      BY <1>0, <1>8, <2>1, ClaimsOne DEF ClaimById, IInv, RevisionInv
    <2>2. CASE Return(a, FALSE) /\ UNCHANGED <<rows, pub, lease, outbox>>
      <3>1. ReturnTo(call[a].mode, FALSE) \notin Reconciling
        BY <1>1 DEF ReturnTo
      <3> QED BY <1>0, <1>1, <1>8, <2>2, <3>1, MovesQuietly
              DEF ClaimById, Return
    <2> QED BY <1>8, <2>1, <2>2 DEF ClaimById
  <1>9. CASE VerifyActivation(a)
    BY <1>1, <1>2, <1>9 DEF VerifyActivation
  <1>10. CASE CommitActivation(a)
    <2>0. pc[a] \notin Reconciling /\ call[a].ver \in Versions
      BY <1>0, <1>1, <1>10 DEF CommitActivation, Call
    <2>1. CASE /\ Unchanged(rows, call[a].ver, call[a].rev)
               /\ rows' = UpdateRow(rows, call[a].ver, "active")
               /\ Leave(a, "idle") /\ UNCHANGED <<pub, lease, outbox>>
      <3>1. Store!Update("active")
        BY <1>0, <2>0, <2>1, Updates DEF Unchanged
      <3>2. Holding' = Holding
        <4>1. /\ pc' = [pc EXCEPT ![a] = "idle"]
              /\ \A q \in Procs \ {a} : job'[q] = job[q]
          BY <1>0, <2>1 DEF Leave, TypeOK
        <4> QED BY <1>0, <1>1, <2>0, <4>1, HoldingLeaves
      <3>3. UNCHANGED <<PublicationRecords, OutboxRecords>>
        BY <2>1 DEF PublicationRecords, OutboxRecords
      <3> QED BY <2>1, <3>1, <3>2, <3>3
              DEF Store!StoreNext, Store!Statuses, PublicationRecords, OutboxRecords,
                  Holding
    <2>2. CASE Proceed(a, "compensate")
      BY <1>1, <1>2, <2>0, <2>2
    <2>3. CASE /\ Leave(a, "compensate")
               /\ UNCHANGED <<rows, pub, lease, outbox>>
      BY <1>0, <1>1, <2>0, <2>3, MovesQuietly
    <2> QED BY <1>10, <2>1, <2>2, <2>3 DEF CommitActivation
  <1>11. CASE CompensateRead(a)
    <2>1. \/ Proceed(a, "idle")
          \/ Goto(a, "comppub") /\ UNCHANGED <<rows, pub, lease, outbox, job>>
      BY <1>11 DEF CompensateRead
    <2> QED BY <1>1, <1>2, <1>3, <1>11, <2>1 DEF CompensateRead
  <1>12. CASE CompensateDecide(a)
    <2>1. \/ Proceed(a, "idle")
          \/ Goto(a, "comprequest")
             /\ UNCHANGED <<rows, pub, lease, outbox, job>>
      BY <1>12 DEF CompensateDecide
    <2> QED BY <1>1, <1>2, <1>3, <1>12, <2>1 DEF CompensateDecide
  <1> QED BY <1>5, <1>6, <1>7, <1>8, <1>9, <1>10, <1>11, <1>12 DEF Activate

\* Every step is an operation of the in-memory store or none.
LEMMA StoreStep ==
    IInv /\ LInv /\ StoreInv /\ [Next]_vars
        => [Store!StoreNext]_(Store!storeVars)
  <1> SUFFICES ASSUME IInv, LInv, StoreInv, [Next]_vars
               PROVE  [Store!StoreNext]_(Store!storeVars)
    OBVIOUS
  <1>0. TypeOK /\ Workers \subseteq Procs
    BY DEF IInv, Procs
  <1>1. ASSUME NEW w \in Workers, ClaimDue(w) PROVE Store!StoreNext
    BY <1>0, <1>1, ClaimsOne DEF ClaimDue
  <1>2. ASSUME NEW p \in Procs, Abandon(p)
        PROVE  [Store!StoreNext]_(Store!storeVars)
    <2>1. PICK l : l \notin Reconciling /\ Leave(p, l)
      BY <1>2 DEF Abandon, Return, ReturnTo, Reconciling
    <2>2. UNCHANGED <<rows, pub, lease, outbox>>
      BY <1>2 DEF Abandon
    <2> QED BY <1>0, <2>1, <2>2, GivesUpHeld, MovesQuietly
  <1>3. ASSUME ExpireLease PROVE Store!StoreNext
    <2>1. lease # "free" /\ lease' = "free" /\ UNCHANGED <<rows, pub, outbox, pc, job>>
      BY <1>3 DEF ExpireLease, local
    <2>2. UNCHANGED <<IntentRecords, PublicationRecords, OutboxRecords, Holding>>
      BY <2>1 DEF IntentRecords, Kept, PublicationRecords, OutboxRecords, Holding
    <2>3. Store!LeaseEnds
      BY <2>1, <2>2 DEF Store!LeaseEnds, Holding
    <2> QED BY <2>2, <2>3
            DEF Store!StoreNext, IntentRecords, Kept, PublicationRecords, OutboxRecords
  <1>4. ASSUME (\E m \in late : LateMutation(m)) \/ UNCHANGED vars
        PROVE  UNCHANGED Store!storeVars
    <2>1. UNCHANGED <<rows, pub, lease, outbox, pc, job>>
      BY <1>4 DEF LateMutation, local, vars
    <2>2. UNCHANGED <<IntentRecords, PublicationRecords, Holding>>
      BY <2>1 DEF IntentRecords, Kept, PublicationRecords, Holding
    <2> QED BY <2>1, <2>2, Stutters
  <1> QED BY <1>1, <1>2, <1>3, <1>4, LifecycleStores, ReconcileStores,
             ActivateStores DEF Next

\* The in-memory store starts with the first version and no publication.
LEMMA StoreStart == Init => Store!StoreInit /\ StoreInv
  <1> SUFFICES ASSUME Init PROVE Store!StoreInit /\ StoreInv
    OBVIOUS
  <1>1. PICK s \in {"draft", "review", "accepted"} :
          rows = [v \in Versions |->
                    IF v = 1 THEN [status |-> s, rev |-> 0] ELSE NoRow]
    BY DEF Init
  <1>2. \A v \in Versions : Exists(rows, v) <=> v = 1
    BY <1>1 DEF Exists, NoRow
  <1>3. Kept(1) = [version |-> 1, status |-> s, rev |-> 0]
    BY <1>1, VersionFacts DEF Kept
  <1>4. IntentRecords = {[version |-> 1, status |-> s, rev |-> 0]}
    BY <1>2, <1>3, VersionFacts, IntentRecordsAre
  <1>5. PublicationRecords = {} /\ OutboxRecords = {}
    BY DEF Init, PublicationRecords, NoPublication, OutboxRecords
  <1>6. Holding = [p \in Procs |-> -1]
    BY DEF Init, Holding, Reconciling
  <1>7. StoreInv
    BY DEF Init, StoreInv
  <1>8. Store!StoreInit
    BY <1>4, <1>5, <1>6
       DEF Init, Store!StoreInit, Store!Unheld, IntentRecords, Kept,
           PublicationRecords, OutboxRecords, Holding
  <1> QED BY <1>7, <1>8

\* Every transaction of the intent service and the reconciler is one operation
\* of the in-memory store with its fences, whatever is lost, late or crashes.
THEOREM PublicationStoreRefinement == Spec => ImplementsStore
  <1>1. Spec => []StoreInv
    BY StoreStart, StoreInvStep, LifecycleInvariance, PTL DEF Spec
  <1> QED BY <1>1, StoreStart, StoreStep, LifecycleInvariance, PTL
          DEF Spec, ImplementsStore, Store!StoreSpec

-----------------------------------------------------------------------------
(* The delivery of the outbox.  A notification's revision grows with every *)
(* claim and every recorded outcome, so that an outcome is recorded on a   *)
(* notification that has not been delivered.                               *)

\* A row of the queue.
QueueRow == [rev : Nat, holder : Workers \cup {"free"}, delivered : BOOLEAN]

\* Exactly the outbox is queued for a subscriber, and what is recorded as
\* delivered was received.
QueueInv ==
    /\ DOMAIN queue = IF subscribed THEN outbox ELSE {}
    /\ queue = [n \in DOMAIN queue |-> queue[n]]
    /\ \A n \in DOMAIN queue :
          queue[n] \in QueueRow /\ (queue[n].delivered => n \in received)

\* What a worker delivers is queued; as long as its revision is the row's, the
\* notification is not delivered, and what was answered was received.
Delivering(c) ==
    c.pc # "idle" =>
        /\ c.note \in DOMAIN queue /\ c.rev \in Nat /\ c.rev <= queue[c.note].rev
        /\ c.rev = queue[c.note].rev => ~queue[c.note].delivered
        /\ c.ok \in BOOLEAN
        /\ c.ok => c.note \in received

DeliveryInv ==
    /\ QueueInv
    /\ DOMAIN courier = Workers /\ \A w \in Workers : DOMAIN courier[w] = DOMAIN Resting
    /\ courier = [w \in Workers |-> courier[w]]
    /\ \A w \in Workers : Delivering(courier[w])

\* No notification is taken out of the outbox.
LEMMA OutboxGrows == Next => outbox \subseteq outbox'
  <1>1. Lifecycle => outbox' = outbox
    BY DEF Lifecycle, SubmitIntent, AcceptIntent, ModifyIntent, CompleteIntent,
           CancelIntent, EndIntent
  <1>2. ASSUME NEW w \in Workers, ClaimDue(w) PROVE outbox' = outbox
    BY <1>2 DEF ClaimDue, Claim
  <1>3. ASSUME NEW a \in Activators, BeginActivation(a) \/ Activate(a)
        PROVE  outbox' = outbox
    BY <1>3 DEF BeginActivation, Activate, ReadPublication, BackfillAcceptance,
                RequestActivation, ClaimById, Claim, VerifyActivation, CommitActivation,
                CompensateRead, CompensateDecide, CompensateRequest, RequestIfCurrent,
                Proceed
  <1>4. ASSUME NEW p \in Procs, WriteResult(p) PROVE outbox \subseteq outbox'
    BY <1>4 DEF WriteResult, Enqueued
  <1>5. ASSUME NEW p \in Procs, Abandon(p) \/ (Reconcile(p) /\ ~WriteResult(p))
        PROVE  outbox' = outbox
    BY <1>5 DEF Abandon, Reconcile, LookUp, Check, RenewLease, Publish, Withdraw,
                MutationFails, ReadBack, RecoverWithdrawal, Step
  <1>6. ExpireLease \/ (\E m \in late : LateMutation(m)) => outbox' = outbox
    BY DEF ExpireLease, LateMutation
  <1> QED BY <1>1, <1>2, <1>3, <1>4, <1>5, <1>6 DEF Next

\* A notification that is delivered was received, and stays delivered.
Stays ==
    \A n \in DOMAIN queue : queue[n].delivered => n \in received /\ queue'[n].delivered

\* A step of the reconciler, the handlers or the users queues what is new.
LEMMA EnqueueStep ==
    ASSUME DeliveryInv, outbox \subseteq outbox', Enqueue
    PROVE  DeliveryInv' /\ Stays
  <1>1. /\ queue' = [n \in IF subscribed THEN outbox' ELSE {} |->
                       IF n \in DOMAIN queue THEN queue[n] ELSE Queued]
        /\ UNCHANGED <<courier, received, subscribed>>
    BY DEF Enqueue
  <1>2. DOMAIN queue = IF subscribed THEN outbox ELSE {}
    BY DEF DeliveryInv, QueueInv
  <1>3. /\ DOMAIN queue' = IF subscribed' THEN outbox' ELSE {}
        /\ \A n \in DOMAIN queue : n \in DOMAIN queue' /\ queue'[n] = queue[n]
        /\ \A n \in DOMAIN queue' :
              (n \in DOMAIN queue /\ queue'[n] = queue[n]) \/ queue'[n] = Queued
        /\ queue' = [n \in DOMAIN queue' |-> queue'[n]]
    BY <1>1, <1>2
  <1>4. Queued \in QueueRow /\ ~Queued.delivered
    BY DEF Queued, QueueRow
  <1>5. QueueInv'
    BY <1>1, <1>3, <1>4 DEF DeliveryInv, QueueInv
  <1>6. \A w \in Workers : Delivering(courier[w])'
    <2> SUFFICES ASSUME NEW w \in Workers PROVE Delivering(courier[w])'
      OBVIOUS
    <2>1. Delivering(courier[w])
      BY DEF DeliveryInv
    <2> QED BY <1>1, <1>3, <2>1 DEF Delivering
  <1> QED BY <1>1, <1>3, <1>5, <1>6 DEF DeliveryInv, QueueInv, Stays

\* A step of a worker that delivers: it changes one row at most, which was not
\* delivered, and raises its revision.
LEMMA CourierStep ==
    ASSUME DeliveryInv, NEW w \in Workers, NEW c, DOMAIN c = DOMAIN Resting,
           courier' = [courier EXCEPT ![w] = c], UNCHANGED <<outbox, subscribed>>,
           received \subseteq received',
           \/ queue' = queue
           \/ \E n \in DOMAIN queue, r \in QueueRow :
                 /\ queue' = [queue EXCEPT ![n] = r]
                 /\ ~queue[n].delivered /\ r.rev > queue[n].rev
                 /\ r.delivered => n \in received,
           Delivering(c)'
    PROVE  DeliveryInv' /\ Stays
  <1>1. /\ QueueInv /\ DOMAIN queue' = DOMAIN queue
        /\ queue' = [n \in DOMAIN queue' |-> queue'[n]]
    BY DEF DeliveryInv, QueueInv
  <1>2. \A n \in DOMAIN queue :
          \/ queue'[n] = queue[n]
          \/ /\ queue'[n] \in QueueRow /\ ~queue[n].delivered
             /\ queue'[n].rev > queue[n].rev /\ (queue'[n].delivered => n \in received)
    BY <1>1 DEF QueueInv
  <1>3. QueueInv'
    BY <1>1, <1>2 DEF QueueInv
  <1>4. Stays
    BY <1>1, <1>2 DEF Stays, QueueInv
  <1>5. \A v \in Workers : v # w => courier'[v] = courier[v]
    BY DEF DeliveryInv
  <1>6. courier'[w] = c /\ DOMAIN courier' = Workers
    BY DEF DeliveryInv
  <1>7. ASSUME NEW v \in Workers, v # w PROVE Delivering(courier[v])'
    <2> DEFINE b == courier[v]
    <2>1. SUFFICES ASSUME b.pc # "idle"
                   PROVE  /\ b.note \in DOMAIN queue' /\ b.rev \in Nat
                          /\ b.rev <= queue'[b.note].rev
                          /\ b.rev = queue'[b.note].rev => ~queue'[b.note].delivered
                          /\ b.ok \in BOOLEAN /\ (b.ok => b.note \in received')
      BY <1>5, <1>7 DEF Delivering
    <2>2. /\ b.note \in DOMAIN queue /\ b.rev \in Nat /\ b.rev <= queue[b.note].rev
          /\ b.rev = queue[b.note].rev => ~queue[b.note].delivered
          /\ b.ok \in BOOLEAN /\ (b.ok => b.note \in received)
      BY <2>1 DEF DeliveryInv, Delivering
    <2>3. queue[b.note].rev \in Nat /\ queue'[b.note].rev \in Nat
      BY <1>1, <1>3, <2>2 DEF QueueInv, QueueRow
    <2>4. CASE queue'[b.note] = queue[b.note]
      BY <1>1, <2>2, <2>4
    <2>5. CASE queue'[b.note].rev > queue[b.note].rev
      <3>1. b.rev < queue'[b.note].rev
        BY <2>2, <2>3, <2>5
      <3>2. b.rev <= queue'[b.note].rev /\ b.rev # queue'[b.note].rev
        BY <2>2, <2>3, <3>1
      <3> QED BY <1>1, <2>2, <3>2
    <2> QED BY <1>2, <2>2, <2>4, <2>5
  <1>8. /\ courier' = [v \in Workers |-> courier'[v]]
        /\ \A v \in Workers : DOMAIN courier'[v] = DOMAIN Resting
    BY <1>5, <1>6 DEF DeliveryInv
  <1>9. \A v \in Workers : Delivering(courier[v])'
    BY <1>6, <1>7 DEF Delivering
  <1> QED BY <1>3, <1>4, <1>6, <1>8, <1>9 DEF DeliveryInv

\* The steps of a delivery.
LEMMA DeliverySteps ==
    ASSUME DeliveryInv, NEW w \in Workers, Courier(w) \/ AbandonDelivery(w),
           UNCHANGED outbox
    PROVE  DeliveryInv' /\ Stays
  <1> DEFINE c == courier[w]
  <1>0. /\ QueueInv /\ Delivering(c) /\ DOMAIN c = DOMAIN Resting /\ UNCHANGED subscribed
        /\ \A n \in DOMAIN queue : queue[n] \in QueueRow /\ queue[n].rev \in Nat
    BY DEF DeliveryInv, QueueInv, QueueRow, Courier, ClaimNotification,
           SendNotification, RecordDelivery, AbandonDelivery
  <1>1. Resting.pc = "idle" /\ Delivering(Resting)'
    BY DEF Resting, Delivering
  <1>2. CASE ClaimNotification(w)
    <2>1. PICK n \in DOMAIN queue :
            /\ ~queue[n].delivered
            /\ queue' = [queue EXCEPT ![n].rev = @ + 1, ![n].holder = w]
            /\ courier' = [courier EXCEPT ![w] =
                  [Resting EXCEPT !.pc = "send", !.note = n, !.rev = queue[n].rev + 1]]
            /\ received' = received
      BY <1>2 DEF ClaimNotification, Due
    <2>2. PICK k : k = queue[n].rev + 1
      OBVIOUS
    <2>3. PICK d : d = [Resting EXCEPT !.pc = "send", !.note = n, !.rev = k]
      OBVIOUS
    <2>4. PICK r : r = [queue[n] EXCEPT !.rev = k, !.holder = w]
      OBVIOUS
    <2>5. /\ k \in Nat /\ k > queue[n].rev /\ queue[n] \in QueueRow
          /\ queue[n].delivered = FALSE
      BY <1>0, <2>1, <2>2 DEF QueueRow
    <2>6. courier' = [courier EXCEPT ![w] = d] /\ queue' = [queue EXCEPT ![n] = r]
      BY <2>1, <2>2, <2>3, <2>4
    <2>7. r \in QueueRow /\ r.rev = k /\ r.delivered = FALSE
      BY <2>4, <2>5 DEF QueueRow
    <2>8. /\ d.pc = "send" /\ d.note = n /\ d.rev = k /\ d.ok = FALSE
          /\ DOMAIN d = DOMAIN Resting
      BY <2>3 DEF Resting
    <2>9. DOMAIN queue' = DOMAIN queue /\ queue'[n] = r
      BY <2>6
    <2>10. Delivering(d)'
      <3>1. k <= r.rev
        BY <2>5, <2>7
      <3>2. ~r.delivered /\ ~d.ok /\ d.ok \in BOOLEAN
        BY <2>7, <2>8
      <3> QED BY <2>5, <2>8, <2>9, <3>1, <3>2 DEF Delivering
    <2>11. \E m \in DOMAIN queue, q \in QueueRow :
             /\ queue' = [queue EXCEPT ![m] = q]
             /\ ~queue[m].delivered /\ q.rev > queue[m].rev
             /\ q.delivered => m \in received
      BY <2>1, <2>5, <2>6, <2>7
    <2> QED BY <1>0, <2>1, <2>6, <2>8, <2>10, <2>11, CourierStep
  <1>3. CASE SendNotification(w)
    <2>1. PICK ok \in BOOLEAN :
            /\ courier' = [courier EXCEPT ![w].pc = "record", ![w].ok = ok]
            /\ received \subseteq received' /\ (ok => c.note \in received')
            /\ c.pc = "send" /\ queue' = queue
      BY <1>3 DEF SendNotification, Receive
    <2>2. PICK d : d = [c EXCEPT !.pc = "record", !.ok = ok]
      OBVIOUS
    <2>3. courier' = [courier EXCEPT ![w] = d]
      BY <2>1, <2>2 DEF DeliveryInv
    <2>4. /\ d.note = c.note /\ d.rev = c.rev /\ d.ok = ok
          /\ DOMAIN d = DOMAIN Resting
      BY <1>0, <2>2 DEF Resting
    <2>5. Delivering(d)'
      BY <1>0, <2>1, <2>4 DEF Delivering
    <2> QED BY <1>0, <2>1, <2>3, <2>4, <2>5, CourierStep
  <1>4. CASE RecordDelivery(w)
    <2> DEFINE r == [rev |-> c.rev + 1, holder |-> "free", delivered |-> c.ok]
    <2>1. /\ courier' = [courier EXCEPT ![w] = Resting] /\ received' = received
          /\ c.pc = "record"
          /\ queue' = IF queue[c.note].rev = c.rev THEN [queue EXCEPT ![c.note] = r] ELSE queue
      BY <1>4 DEF RecordDelivery
    <2>2. /\ c.note \in DOMAIN queue /\ c.rev \in Nat /\ c.ok \in BOOLEAN
          /\ c.ok => c.note \in received
          /\ c.rev = queue[c.note].rev => ~queue[c.note].delivered
      BY <1>0, <2>1 DEF Delivering
    <2>3. /\ r \in QueueRow /\ r.rev = c.rev + 1 /\ (r.delivered => c.note \in received)
      BY <2>2 DEF QueueRow
    <2>4. c.rev + 1 > c.rev
      BY <2>2
    <2>5. \/ queue' = queue
          \/ \E n \in DOMAIN queue, q \in QueueRow :
                /\ queue' = [queue EXCEPT ![n] = q]
                /\ ~queue[n].delivered /\ q.rev > queue[n].rev
                /\ q.delivered => n \in received
      <3>1. CASE queue[c.note].rev # c.rev
        BY <2>1, <3>1
      <3>2. CASE queue[c.note].rev = c.rev
        <4> HIDE DEF r
        <4>1. /\ queue' = [queue EXCEPT ![c.note] = r] /\ ~queue[c.note].delivered
              /\ r.rev > queue[c.note].rev
          BY <2>1, <2>2, <2>3, <2>4, <3>2
        <4> QED BY <2>2, <2>3, <4>1
      <3> QED BY <3>1, <3>2
    <2> QED BY <1>0, <1>1, <2>1, <2>5, CourierStep
  <1>5. CASE AbandonDelivery(w)
    <2>1. courier' = [courier EXCEPT ![w] = Resting] /\ queue' = queue /\ received' = received
      BY <1>5 DEF AbandonDelivery
    <2> QED BY <1>0, <1>1, <2>1, CourierStep
  <1> QED BY <1>2, <1>3, <1>4, <1>5 DEF Courier

\* The end of a lease does not touch the revision.
LEMMA DeliveryLeaseEnds ==
    ASSUME DeliveryInv, NEW n \in DOMAIN queue, ExpireDelivery(n), UNCHANGED outbox
    PROVE  DeliveryInv' /\ Stays
  <1>1. /\ queue' = [queue EXCEPT ![n].holder = "free"]
        /\ UNCHANGED <<courier, received, subscribed>>
    BY DEF ExpireDelivery
  <1>2. /\ DOMAIN queue' = DOMAIN queue
        /\ queue' = [m \in DOMAIN queue' |-> queue'[m]]
    BY <1>1 DEF DeliveryInv, QueueInv
  <1>3. \A m \in DOMAIN queue : queue[m] \in QueueRow
    BY DEF DeliveryInv, QueueInv
  <1>4. \A m \in DOMAIN queue :
          /\ queue'[m] \in QueueRow /\ queue'[m].rev = queue[m].rev
          /\ queue'[m].delivered = queue[m].delivered
    BY <1>1, <1>3 DEF QueueRow
  <1>5. QueueInv'
    BY <1>1, <1>2, <1>4 DEF DeliveryInv, QueueInv
  <1>6. \A w \in Workers : Delivering(courier[w])'
    BY <1>1, <1>2, <1>4 DEF DeliveryInv, Delivering
  <1> QED BY <1>1, <1>4, <1>5, <1>6 DEF DeliveryInv, QueueInv, Stays

\* The queue starts empty and the workers idle.
LEMMA DeliveryStart == DeliveryInit => DeliveryInv
  BY DEF DeliveryInit, Init, DeliveryInv, QueueInv, Delivering, Resting

\* Every step keeps the invariant, and what is delivered.
LEMMA DeliveryStep == DeliveryInv /\ [DeliveryNext]_allVars => DeliveryInv' /\ Stays
  <1> SUFFICES ASSUME DeliveryInv, [DeliveryNext]_allVars PROVE DeliveryInv' /\ Stays
    OBVIOUS
  <1>1. CASE UNCHANGED allVars
    BY <1>1 DEF allVars, vars, deliveryVars, DeliveryInv, QueueInv, Delivering, Stays
  <1>2. CASE Next /\ Enqueue
    BY <1>2, OutboxGrows, EnqueueStep
  <1>3. ASSUME NEW w \in Workers, Courier(w) \/ AbandonDelivery(w), UNCHANGED unconcerned
        PROVE  DeliveryInv' /\ Stays
    BY <1>3, DeliverySteps DEF unconcerned
  <1>4. ASSUME NEW n \in DOMAIN queue, ExpireDelivery(n), UNCHANGED unconcerned
        PROVE  DeliveryInv' /\ Stays
    BY <1>4, DeliveryLeaseEnds DEF unconcerned
  <1> QED BY <1>1, <1>2, <1>3, <1>4 DEF DeliveryNext

\* A notification recorded as delivered has reached the peer and stays delivered,
\* whatever leases run out and workers crash: UpdatePeerNotification is fenced by
\* the revision of the claim.
THEOREM DeliveriesAreKept == DeliverySpec => DeliveredForGood
  <1>1. Stays => \A n \in DOMAIN queue : queue[n].delivered =>
                    n \in received /\ queue'[n].delivered
    BY DEF Stays
  <1> QED BY <1>1, DeliveryStart, DeliveryStep, PTL DEF DeliverySpec, DeliveredForGood

-----------------------------------------------------------------------------
(* Publication and delivery together.                                      *)

\* A delivery spends at most a disturbance.
LEMMA DeliverySpends ==
    ASSUME TypeOK, budget' = budget \/ Spend("faults")
    PROVE  budget' \in [BudgetKinds -> Nat]
  <1>1. budget \in [BudgetKinds -> Nat] /\ "faults" \in BudgetKinds
    BY DEF TypeOK, BudgetKinds
  <1>2. CASE Spend("faults")
    <2>1. budget["faults"] - 1 \in Nat BY <1>1, <1>2 DEF Spend
    <2> QED BY <1>1, <1>2, <2>1 DEF Spend
  <1> QED BY <1>1, <1>2

\* A step that concerns none of the variables of DSSPublication but its budget
\* keeps its invariants.
LEMMA DeliveryApart ==
    ASSUME IInv, LInv, AnnounceInv, UNCHANGED unconcerned,
           budget' \in [BudgetKinds -> Nat]
    PROVE  (IInv /\ LInv /\ AnnounceInv)'
  <1>1. UNCHANGED <<rows, pub, lease, dss, ovns, late, outbox, pc, job, call>>
    BY DEF unconcerned, external, local
  <1>2. TypeOK' BY <1>1 DEF IInv, TypeOK
  <1>3. (RevisionInv /\ LeaseInv /\ OwnerInv /\ JobInv /\ OvnInv)'
    BY <1>1 DEF IInv, RevisionInv, LeaseInv, OwnerInv, JobInv, OvnInv, Owner, Mutating
  <1>4. ConfirmedInv' BY <1>1 DEF IInv, ConfirmedInv, Holds, Owner, Mutating
  <1>5. (RowsInv /\ CallInv /\ EndInv)'
    BY <1>1 DEF LInv, RowsInv, CallInv, Seen, EndInv, Ended, IsCurrent
  <1>6. (DesiredInv /\ ActivationInv)'
    BY <1>1 DEF LInv, DesiredInv, AsDesired, ActivationInv, PublishedAs, IsCurrent, Owner
  <1>7. AnnounceInv'
    BY <1>1 DEF AnnounceInv, ReferenceInv, KeptInv, ConfirmedNotes, WithdrawalNotes,
                Pending, Owner
  <1> QED BY <1>2, <1>3, <1>4, <1>5, <1>6, <1>7 DEF IInv, LInv

\* The delivery of notifications disturbs nothing of the publication: also when
\* the workers deliver in between, leases of notifications run out and their
\* faults use up the same bound, one process mutates at a time, what is confirmed
\* is what the DSS holds, an ended intent asks for withdrawal, and the outbox
\* announces every change.
THEOREM PublicationWhileDelivering ==
    DeliverySpec => [](/\ OneMutator /\ ConfirmedMatchesDSS
                       /\ EndedIsWithdrawn /\ ChangesAreAnnounced)
  <1> DEFINE PInv == IInv /\ LInv /\ AnnounceInv
  <1>1. DeliveryInit => PInv
    <2>1. Init => AnnounceInv
      BY DEF Init, AnnounceInv, ReferenceInv, KeptInv, ConfirmedNotes,
             WithdrawalNotes, Pending, NoReference, NoPublication, Owner, Reconciling
    <2> QED BY <2>1, InitIInv, InitLInv DEF DeliveryInit
  <1>2. ASSUME PInv, [DeliveryNext]_allVars PROVE PInv'
    <2>1. CASE [Next]_vars
      BY <1>2, <2>1, InvStep, LInvStep, AnnounceStep
    <2>2. CASE UNCHANGED allVars
      BY <2>1, <2>2 DEF allVars
    <2>3. ASSUME NEW w \in Workers, Courier(w) \/ AbandonDelivery(w), UNCHANGED unconcerned
          PROVE  PInv'
      <3>1. budget' = budget \/ Spend("faults")
        BY <2>3 DEF Courier, ClaimNotification, SendNotification, RecordDelivery,
                    AbandonDelivery, Trouble
      <3> QED BY <1>2, <2>3, <3>1, DeliverySpends, DeliveryApart DEF IInv
    <2>4. ASSUME NEW n \in DOMAIN queue, ExpireDelivery(n), UNCHANGED unconcerned
          PROVE  PInv'
      <3>1. budget' = budget \/ Spend("faults") BY <2>4 DEF ExpireDelivery, Trouble
      <3> QED BY <1>2, <2>4, <3>1, DeliverySpends, DeliveryApart DEF IInv
    <2> QED BY <1>2, <2>1, <2>2, <2>3, <2>4 DEF DeliveryNext
  <1>3. PInv => /\ OneMutator /\ ConfirmedMatchesDSS
                /\ EndedIsWithdrawn /\ ChangesAreAnnounced
    <2> SUFFICES ASSUME IInv, LInv, AnnounceInv
                 PROVE  /\ OneMutator /\ ConfirmedMatchesDSS
                        /\ EndedIsWithdrawn /\ ChangesAreAnnounced
      OBVIOUS
    <2>1. OneMutator BY MutatorAlone DEF OneMutator, Mutating
    <2>2. ConfirmedMatchesDSS BY DEF IInv, ConfirmedInv, Holds, ConfirmedMatchesDSS
    <2>3. EndedIsWithdrawn BY DEF LInv, EndInv, Ended, EndedIsWithdrawn
    <2>4. \A n \in outbox : n.dssVer \in Nat BY DEF IInv, TypeOK, Notification
    <2>5. ChangesAreAnnounced
      BY <2>4 DEF AnnounceInv, ConfirmedNotes, WithdrawalNotes, Pending, ChangesAreAnnounced
    <2> QED BY <2>1, <2>2, <2>3, <2>5
  <1> QED BY <1>1, <1>2, <1>3, PTL DEF DeliverySpec

\* The peer has heard of nothing that was not announced.
LEMMA ReceivedWasAnnounced ==
    /\ DeliveryInit => received \subseteq outbox
    /\ DeliveryInv /\ received \subseteq outbox /\ [DeliveryNext]_allVars
         => (received \subseteq outbox)'
  <1>1. DeliveryInit => received \subseteq outbox BY DEF DeliveryInit
  <1>2. ASSUME DeliveryInv, received \subseteq outbox, [DeliveryNext]_allVars
        PROVE  received' \subseteq outbox'
    <2>1. CASE UNCHANGED allVars
      BY <1>2, <2>1 DEF allVars, vars, deliveryVars
    <2>2. CASE Next /\ Enqueue BY <1>2, <2>2, OutboxGrows DEF Enqueue
    <2>3. ASSUME NEW w \in Workers, Courier(w) \/ AbandonDelivery(w), UNCHANGED unconcerned
          PROVE  received' \subseteq outbox'
      <3>1. outbox' = outbox BY <2>3 DEF unconcerned
      <3>2. CASE SendNotification(w)
        <4>1. courier[w].note \in outbox
          <5>1. courier[w].pc # "idle" BY <3>2 DEF SendNotification
          <5>2. courier[w].note \in DOMAIN queue BY <1>2, <5>1 DEF DeliveryInv, Delivering
          <5> QED BY <1>2, <5>2 DEF DeliveryInv, QueueInv
        <4>2. received' = received \/ received' = received \cup {courier[w].note}
          BY <3>2 DEF SendNotification, Receive
        <4> QED BY <1>2, <3>1, <4>1, <4>2
      <3>3. CASE ClaimNotification(w) \/ RecordDelivery(w) \/ AbandonDelivery(w)
        BY <1>2, <3>1, <3>3 DEF ClaimNotification, RecordDelivery, AbandonDelivery
      <3> QED BY <2>3, <3>2, <3>3 DEF Courier
    <2>4. ASSUME NEW n \in DOMAIN queue, ExpireDelivery(n), UNCHANGED unconcerned
          PROVE  received' \subseteq outbox'
      BY <1>2, <2>4 DEF ExpireDelivery, unconcerned
    <2> QED BY <1>2, <2>1, <2>2, <2>3, <2>4 DEF DeliveryNext
  <1> QED BY <1>1, <1>2

\* When nothing is left to deliver, a subscriber knows what it should: it has
\* heard of the confirmed reference under its version; and if it ever heard of a
\* reference that is withdrawn, it has heard of the withdrawal.  No change of the
\* publication is recorded as done while its announcement is not even queued.
ToldWhenDelivered ==
    subscribed /\ (\A n \in DOMAIN queue : queue[n].delivered) =>
        /\ pub.sync = "confirmed" =>
              [dssVer |-> pub.dssVer, ver |-> pub.pubVer] \in received
        /\ pub.sync = "withdrawn" /\ (\E n \in received : n.dssVer > 0) =>
              \E n \in received : n.dssVer = 0

\* A subscriber knows what is confirmed or withdrawn as soon as the queue is
\* recorded as delivered: the queue has exactly the outbox, which announces every
\* change, and what is recorded as delivered was received.
THEOREM SubscriberIsTold == DeliverySpec => []ToldWhenDelivered
  <1>1. DeliverySpec => [](DeliveryInv /\ received \subseteq outbox)
    BY DeliveryStart, DeliveryStep, ReceivedWasAnnounced, PTL DEF DeliverySpec
  <1>2. DeliveryInv /\ received \subseteq outbox /\ ChangesAreAnnounced => ToldWhenDelivered
    <2> SUFFICES ASSUME DeliveryInv, received \subseteq outbox, ChangesAreAnnounced,
                        subscribed, \A n \in DOMAIN queue : queue[n].delivered
                 PROVE  /\ pub.sync = "confirmed" =>
                              [dssVer |-> pub.dssVer, ver |-> pub.pubVer] \in received
                        /\ pub.sync = "withdrawn" /\ (\E n \in received : n.dssVer > 0) =>
                              \E n \in received : n.dssVer = 0
      BY DEF ToldWhenDelivered
    <2>1. outbox \subseteq received BY DEF DeliveryInv, QueueInv
    <2>2. ASSUME pub.sync = "confirmed"
          PROVE  [dssVer |-> pub.dssVer, ver |-> pub.pubVer] \in outbox
      BY <2>2, Zenon DEF ChangesAreAnnounced
    <2>3. ASSUME pub.sync = "withdrawn", \E n \in outbox : n.dssVer > 0
          PROVE  \E n \in outbox : n.dssVer = 0
      BY <2>3 DEF ChangesAreAnnounced
    <2> QED BY <2>1, <2>2, <2>3
  <1> QED BY <1>1, <1>2, PublicationWhileDelivering, PTL

=============================================================================
