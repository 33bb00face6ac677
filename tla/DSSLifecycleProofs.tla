------------------------- MODULE DSSLifecycleProofs -------------------------
(***************************************************************************)
(* More proofs about DSSPublication, for every number of workers, versions *)
(* and disturbances: how the publication, the outbox and the DSS follow    *)
(* the intent's rows.                                                      *)
(*                                                                         *)
(* The argument: a row's revision grows with every write, so a call that   *)
(* was read before a write is refused after it.  Withdrawal is therefore   *)
(* desired when the intent has ended and at no other time, and an ended    *)
(* intent stays ended.  Until then nobody deletes the reference, its DSS   *)
(* version only grows, and every version announced so far is older than    *)
(* the one that is confirmed next.                                         *)
(*                                                                         *)
(* The steps are first sorted by what they do (a request, a claim, work of *)
(* a reconciler, its result, a late request, or none of these); the later  *)
(* invariants are then proved once for each kind.                          *)
(***************************************************************************)
EXTENDS DSSPublicationProofs

-----------------------------------------------------------------------------
(* The invariant.                                                          *)

\* An active version is the latest one, and the latest is never superseded.
RowsInv ==
    /\ \A v \in Versions : rows[v].status = "active" => IsLatest(rows, v)
    /\ \A v \in Versions : IsLatest(rows, v) => rows[v].status # "superseded"

\* The revision of a row tells whether it is still as it was read.
Seen(c) ==
    /\ Exists(rows, c.ver)
    /\ c.rev <= rows[c.ver].rev
    /\ c.rev = rows[c.ver].rev => c.status = rows[c.ver].status

\* What an activator has read, by where it is.
CallInv ==
    \A a \in Procs :
        /\ call[a].mode # "none" => Seen(call[a])
        /\ call[a].mode \in {"activate", "backfill"} =>
              call[a].status = "accepted"
        /\ pc[a] \in {"getpub", "backfill", "request", "verify", "commit",
                      "compensate"} => call[a].mode \in {"activate", "backfill"}
        /\ pc[a] \in {"comppub", "comprequest"} =>
              call[a].mode = "compensate" /\ call[a].status # "active"
        /\ pc[a] = "comprequest" =>
              /\ call[a].desired # "Activated"
              /\ call[a].status = "accepted" => call[a].target = call[a].ver
        /\ pc[a] = "reconcile" => call[a].mode # "none"

\* The intent is complete or canceled.
Ended == \E v \in Versions : IsLatest(rows, v) /\ rows[v].status \in Terminal

\* Withdrawal is desired when the intent has ended, and only then.
EndInv ==
    /\ Ended <=> pub.desState = "Withdrawn"
    /\ pub.sync = "absent" => pub.desState = "Accepted"
    /\ \A a \in Procs : pc[a] = "comprequest" /\ IsCurrent(call[a]) =>
          (call[a].desired = "Withdrawn" <=> call[a].status \in Terminal)

\* What is confirmed or withdrawn is what was desired.
AsDesired(j) ==
    /\ j.sync = "confirmed" => j.pubVer = j.desVer /\ j.confState = j.desState
    /\ j.sync = "withdrawn" => j.desState = "Withdrawn"

DesiredInv ==
    /\ AsDesired(pub)
    /\ \A p \in Procs : pc[p] \in Reconciling =>
          /\ AsDesired(job[p])
          /\ pc[p] = "recover" => job[p].desState = "Withdrawn"
          /\ job[p].sync = "withdrawn" => pc[p] = "write"

\* Version v is desired and published, and stays so when the owner writes.
PublishedAs(v) ==
    /\ pub.desVer = v /\ pub.pubVer = v
    /\ \A p \in Procs : Owner(p) => job[p].pubVer = v

\* Activation is desired of a version that is published and reserves its
\* airspace; newer versions are not accepted yet.
ActivationInv ==
    /\ pub.desState = "Activated" =>
          /\ PublishedAs(pub.desVer)
          /\ rows[pub.desVer].status \in Reserving
          /\ \A w \in Versions : w > pub.desVer =>
                rows[w].status \in {"none", "draft", "submitted", "review"}
    /\ \A a \in Procs : pc[a] = "request" /\ IsCurrent(call[a]) =>
          PublishedAs(call[a].ver)

LInv == RowsInv /\ CallInv /\ EndInv /\ DesiredInv /\ ActivationInv

-----------------------------------------------------------------------------
(* Rows.                                                                   *)

\* A write of the rows by a transaction that was given the latest version v.
RowsChange(v) ==
    /\ IsLatest(rows, v)
    /\ \/ rows[v].status = "draft" /\ rows' = UpdateRow(rows, v, "submitted")
       \/ rows[v].status \in Acceptable /\ rows' = AcceptRow(rows, v)
       \/ /\ rows[v].status \in Modifiable
          /\ rows[v].status = "accepted" => v < MaxVersion
          /\ rows' = ReplaceRow(rows, v)
       \/ /\ rows[v].status \in Cancelable
          /\ \E s \in Terminal : rows' = UpdateRow(rows, v, s)
       \/ rows[v].status = "accepted" /\ rows' = UpdateRow(rows, v, "active")

\* An intent has one latest version.
LEMMA OneLatest ==
    ASSUME NEW v \in Versions, NEW w \in Versions,
           IsLatest(rows, v), IsLatest(rows, w)
    PROVE  v = w
  BY DEF IsLatest, Versions

\* Versions stay, revisions grow, and a row with its old revision is the old
\* row.
LEMMA RowsAdvance ==
    ASSUME TypeOK, NEW v \in Versions, RowsChange(v), NEW w \in Versions
    PROVE  /\ Exists(rows, w) => Exists(rows', w)
           /\ rows[w].rev \in Nat /\ rows'[w].rev \in Nat
           /\ Exists(rows, w) => rows[w].rev <= rows'[w].rev
           /\ Exists(rows, w) /\ rows'[w].rev = rows[w].rev =>
                 rows'[w].status = rows[w].status
  <1>1. rows \in [Versions -> Row]
    BY DEF TypeOK
  <1>2. rows[w].rev \in Nat /\ rows[v].rev \in Nat
    BY <1>1 DEF Row
  <1>3. CASE rows' = ReplaceRow(rows, v) /\ rows[v].status = "accepted"
             /\ v < MaxVersion
    <2>1. v + 1 \in Versions /\ ~Exists(rows, v + 1)
      BY <1>3, MaxVersionAssumption DEF RowsChange, IsLatest, Versions
    <2>2. rows'[w] = IF w = v + 1 THEN [status |-> "draft", rev |-> 0]
                     ELSE rows[w]
      BY <1>1, <1>3, <2>1 DEF ReplaceRow
    <2> QED BY <1>2, <2>1, <2>2 DEF Exists
  <1>4. CASE rows' = ReplaceRow(rows, v) /\ rows[v].status # "accepted"
    BY <1>1, <1>2, <1>4 DEF ReplaceRow, Exists, Row
  <1>5. CASE \/ rows' = UpdateRow(rows, v, "submitted")
             \/ rows' = AcceptRow(rows, v)
             \/ \E s \in Terminal : rows' = UpdateRow(rows, v, s)
             \/ rows' = UpdateRow(rows, v, "active")
    BY <1>1, <1>2, <1>5
       DEF UpdateRow, AcceptRow, SetWithPrior, Exists, Row, Terminal
  <1> QED BY <1>3, <1>4, <1>5 DEF RowsChange

\* The latest version after a write.
LEMMA LatestAfter ==
    ASSUME TypeOK, NEW v \in Versions, RowsChange(v)
    PROVE  \/ /\ IsLatest(rows', v) /\ rows'[v].rev = rows[v].rev + 1
              /\ \A w \in Versions : w > v => rows'[w] = rows[w]
           \/ /\ v + 1 \in Versions /\ IsLatest(rows', v + 1)
              /\ rows[v].status = "accepted" /\ rows' = ReplaceRow(rows, v)
              /\ rows'[v + 1].status = "draft"
              /\ \A w \in Versions : w # v + 1 => rows'[w] = rows[w]
  <1>1. rows \in [Versions -> Row] /\ IsLatest(rows, v) /\ rows[v].rev \in Nat
    BY DEF TypeOK, Row, RowsChange
  <1>2. \A w \in Versions : w > v => w # v /\ ~(w < v)
    BY DEF Versions
  <1>3. CASE rows' = ReplaceRow(rows, v) /\ rows[v].status = "accepted"
             /\ v < MaxVersion
    <2>1. v + 1 \in Versions
      BY <1>3, MaxVersionAssumption DEF Versions
    <2>2. /\ rows'[v + 1].status = "draft"
          /\ \A w \in Versions : w # v + 1 => rows'[w] = rows[w]
      BY <1>1, <1>3, <2>1 DEF ReplaceRow
    <2>3. IsLatest(rows', v + 1)
      BY <1>1, <2>1, <2>2 DEF IsLatest, Exists, Versions
    <2> QED BY <1>3, <2>1, <2>2, <2>3
  <1>4. CASE \/ rows[v].status # "accepted" /\ rows' = ReplaceRow(rows, v)
             \/ rows' = UpdateRow(rows, v, "submitted")
             \/ rows' = AcceptRow(rows, v)
             \/ \E s \in Terminal : rows' = UpdateRow(rows, v, s)
             \/ rows' = UpdateRow(rows, v, "active")
    <2>1. /\ rows'[v].rev = rows[v].rev + 1 /\ rows'[v].status # "none"
          /\ \A w \in Versions : w > v => rows'[w] = rows[w]
      BY <1>1, <1>2, <1>4
         DEF ReplaceRow, UpdateRow, AcceptRow, SetWithPrior, IsLatest,
             Exists, Row, Terminal
    <2> QED BY <1>1, <2>1 DEF IsLatest, Exists
  <1> QED BY <1>3, <1>4 DEF RowsChange

\* No call that was read before a write is current after it.
LEMMA OutdatedAfter ==
    ASSUME TypeOK, NEW v \in Versions, RowsChange(v), NEW c \in Call, Seen(c)
    PROVE  /\ Exists(rows', c.ver)
           /\ c.rev <= rows'[c.ver].rev
           /\ c.rev = rows'[c.ver].rev => c.status = rows'[c.ver].status
           /\ ~Unchanged(rows', c.ver, c.rev)
  <1>1. c.ver \in Versions /\ c.rev \in Nat
    BY DEF Call
  <1>2. /\ \A w \in Versions : Exists(rows, w) => Exists(rows', w)
        /\ rows[c.ver].rev \in Nat /\ rows'[c.ver].rev \in Nat
        /\ Exists(rows, c.ver) => rows[c.ver].rev <= rows'[c.ver].rev
        /\ Exists(rows, c.ver) /\ rows'[c.ver].rev = rows[c.ver].rev =>
                 rows'[c.ver].status = rows[c.ver].status
    BY <1>1, RowsAdvance
  <1>3. ASSUME Unchanged(rows', c.ver, c.rev)
        PROVE  FALSE
    <2>1. rows[c.ver].rev = c.rev
      BY <1>1, <1>2, <1>3 DEF Unchanged, Seen
    <2>2. IsLatest(rows, c.ver)
      BY <1>1, <1>2, <1>3 DEF Unchanged, Seen, IsLatest
    <2>3. c.ver = v
      BY <1>1, <2>2, OneLatest DEF RowsChange
    <2>4. \/ rows'[v].rev = rows[v].rev + 1
          \/ v + 1 \in Versions /\ IsLatest(rows', v + 1)
      BY LatestAfter
    <2>5. IsLatest(rows', v) /\ rows'[v].rev = rows[v].rev
      BY <1>3, <2>1, <2>3 DEF Unchanged
    <2> QED BY <1>2, <2>3, <2>4, <2>5 DEF IsLatest, Versions
  <1> QED BY <1>1, <1>2, <1>3 DEF Seen

\* What a write may do to the statuses.
LEMMA RowsStatuses ==
    ASSUME TypeOK, NEW v \in Versions, RowsChange(v), RowsInv
    PROVE  /\ RowsInv'
           /\ rows[v].status \notin Terminal
           /\ \A s \in Terminal : rows' = UpdateRow(rows, v, s) =>
                 IsLatest(rows', v) /\ rows'[v].status = s
  <1>1. rows \in [Versions -> Row] /\ IsLatest(rows, v)
    BY DEF TypeOK, RowsChange
  <1>2. \A w \in Versions : rows[w].status = "active" => w = v
    BY <1>1, OneLatest DEF RowsInv
  <1>3. \/ IsLatest(rows', v)
        \/ /\ v + 1 \in Versions /\ IsLatest(rows', v + 1)
           /\ rows'[v + 1].status = "draft" /\ rows[v].status = "accepted"
           /\ \A w \in Versions : w # v + 1 => rows'[w] = rows[w]
    BY LatestAfter
  <1>4. /\ \A w, u \in Versions :
              IsLatest(rows', w) /\ IsLatest(rows', u) => w = u
        /\ \A w \in Versions : IsLatest(rows, w)' <=> IsLatest(rows', w)
    BY DEF IsLatest, Exists, Versions
  <1>5. ASSUME IsLatest(rows', v) PROVE RowsInv'
    <2>1. rows'[v].status # "superseded"
      BY <1>1 DEF RowsChange, ReplaceRow, UpdateRow, AcceptRow, SetWithPrior,
                  Acceptable, Modifiable, Cancelable, Terminal, Row
    <2>2. \A w \in Versions : w # v => rows'[w].status # "active"
      BY <1>1, <1>2
         DEF RowsChange, ReplaceRow, UpdateRow, AcceptRow, SetWithPrior,
             Terminal, Row
    <2> QED BY <1>4, <1>5, <2>1, <2>2 DEF RowsInv
  <1>6. ASSUME v + 1 \in Versions, IsLatest(rows', v + 1),
               rows'[v + 1].status = "draft", rows[v].status = "accepted",
               \A w \in Versions : w # v + 1 => rows'[w] = rows[w]
        PROVE  RowsInv'
    BY <1>2, <1>4, <1>6 DEF RowsInv
  <1>7. rows[v].status \notin Terminal
    BY DEF RowsChange, Acceptable, Modifiable, Cancelable, Terminal
  <1>8. ASSUME NEW s \in Terminal, rows' = UpdateRow(rows, v, s)
        PROVE  IsLatest(rows', v) /\ rows'[v].status = s
    BY <1>1, <1>8 DEF UpdateRow, SetWithPrior, IsLatest, Exists, Terminal,
                      Versions
  <1> QED BY <1>3, <1>5, <1>6, <1>7, <1>8

-----------------------------------------------------------------------------
(* The invariant, by the kind of step.                                     *)

\* Where a process may go when it leaves the reconciler or a read.
Moves(p, l) ==
    /\ l \in {"idle", "getpub", "backfill", "request", "verify", "commit",
              "compensate"}
    /\ l # "idle" => call[p].mode \in {"activate", "backfill"}
    /\ l = "request" => ConfirmedFor(call[p].ver)

\* A call is seen, current or not, as long as neither it nor the rows change.
LEMMA MoveCalls ==
    ASSUME IInv, CallInv, NEW p \in Procs, NEW l, Moves(p, l),
           Leave(p, l), UNCHANGED rows
    PROVE  /\ CallInv'
           /\ pc'[p] = l /\ job'[p] = NoPublication
           /\ \A q \in Procs \ {p} :
                 pc'[q] = pc[q] /\ job'[q] = job[q] /\ call'[q] = call[q]
           /\ l # "idle" => call'[p] = call[p]
  <1>1. /\ call \in [Procs -> Call] /\ pc \in [Procs -> Labels]
        /\ job \in [Procs -> Publication]
    BY DEF IInv, TypeOK, Labels
  <1>2. /\ pc'[p] = l /\ job'[p] = NoPublication
        /\ \A q \in Procs \ {p} :
              pc'[q] = pc[q] /\ job'[q] = job[q] /\ call'[q] = call[q]
        /\ l # "idle" => call'[p] = call[p]
        /\ l = "idle" => call'[p] = NoCall
    BY <1>1 DEF Leave
  <1>3. \A q \in Procs : call'[q].mode # "none" =>
            call'[q] = call[q] /\ call[q].mode # "none"
    BY <1>2 DEF NoCall
  <1>4. \A q \in Procs : call'[q].mode # "none" => Seen(call[q])'
    BY <1>3 DEF CallInv, Seen
  <1>5. CallInv'
    BY <1>2, <1>3, <1>4 DEF CallInv, Moves, NoCall
  <1> QED BY <1>2, <1>5

\* A process leaves the reconciler, or an activator moves on after a read.
LEMMA MoveStep ==
    ASSUME IInv, IInv', LInv, NEW p \in Procs, NEW l, Moves(p, l),
           Leave(p, l), UNCHANGED <<rows, pub>>
    PROVE  LInv'
  <1>1. /\ CallInv'
        /\ pc'[p] = l /\ job'[p] = NoPublication
        /\ \A q \in Procs \ {p} :
              pc'[q] = pc[q] /\ job'[q] = job[q] /\ call'[q] = call[q]
        /\ l # "idle" => call'[p] = call[p]
    BY MoveCalls DEF LInv
  <1>2. l \notin Reconciling \cup {"comprequest"}
    BY DEF Moves, Reconciling
  <1>3. RowsInv'
    BY DEF LInv, RowsInv
  <1>4. EndInv'
    BY <1>1, <1>2 DEF LInv, EndInv, Ended, IsCurrent, Unchanged
  <1>5. DesiredInv'
    BY <1>1, <1>2 DEF LInv, DesiredInv, AsDesired
  <1>6. \A q \in Procs : Owner(q)' => q # p /\ Owner(q)
    BY <1>1, <1>2 DEF Owner
  <1>7. \A v \in Versions : PublishedAs(v) => PublishedAs(v)'
    BY <1>1, <1>6 DEF PublishedAs
  <1>8. ASSUME l = "request" PROVE PublishedAs(call[p].ver)
    <2>1. pub.sync = "confirmed" /\ pub.pubVer = call[p].ver
      BY <1>8 DEF Moves, ConfirmedFor
    <2>2. \A q \in Procs : ~Owner(q)
      BY <2>1 DEF IInv, OwnerInv
    <2> QED BY <2>1, <2>2 DEF PublishedAs, LInv, DesiredInv, AsDesired
  <1>9. \A q \in Procs : call[q].ver \in Versions /\ pub.desVer \in Versions
    BY DEF IInv, TypeOK, Call, Publication
  <1>10. ActivationInv'
    BY <1>1, <1>7, <1>8, <1>9 DEF LInv, ActivationInv, IsCurrent, Unchanged
  <1> QED BY <1>1, <1>3, <1>4, <1>5, <1>10 DEF LInv

\* The owner writes its result.
LEMMA ResultStep ==
    ASSUME IInv, IInv', LInv, NEW p \in Procs, NEW l, Moves(p, l),
           l # "request", Leave(p, l), pc[p] = "write",
           job[p].rev = pub.rev, pub' = [job[p] EXCEPT !.rev = @ + 1],
           UNCHANGED rows
    PROVE  LInv'
  <1>1. /\ CallInv'
        /\ pc'[p] = l /\ job'[p] = NoPublication
        /\ \A q \in Procs \ {p} :
              pc'[q] = pc[q] /\ job'[q] = job[q] /\ call'[q] = call[q]
        /\ l # "idle" => call'[p] = call[p]
    BY MoveCalls DEF LInv
  <1>2. l \notin Reconciling \cup {"comprequest"}
    BY DEF Moves, Reconciling
  <1>3. RowsInv'
    BY DEF LInv, RowsInv
  <1>4. Owner(p)
    BY DEF Owner, Reconciling
  <1>5. /\ pub'.sync = job[p].sync /\ pub'.pubVer = job[p].pubVer
        /\ pub'.confState = job[p].confState
        /\ pub'.desVer = pub.desVer /\ pub'.desState = pub.desState
        /\ job[p].desVer = pub.desVer /\ job[p].desState = pub.desState
        /\ pub'.sync # "absent"
    BY <1>4 DEF IInv, TypeOK, Publication, OwnerInv, JobInv, Reconciling
  <1>6. EndInv'
    BY <1>1, <1>2, <1>5 DEF LInv, EndInv, Ended, IsCurrent, Unchanged
  <1>7. AsDesired(pub)'
    BY <1>4, <1>5 DEF LInv, DesiredInv, AsDesired, Owner
  <1>8. DesiredInv'
    BY <1>1, <1>2, <1>7 DEF LInv, DesiredInv, AsDesired
  <1>9. \A q \in Procs : ~Owner(q)'
    <2>1. pub'.rev = pub.rev + 1 /\ pub.rev \in Nat
      BY DEF IInv, TypeOK, Publication
    <2> QED BY <1>1, <1>2, <2>1 DEF IInv, TypeOK, Publication, RevisionInv,
                                    Owner
  <1>10. \A v \in Versions : PublishedAs(v) => PublishedAs(v)'
    BY <1>4, <1>5, <1>9 DEF PublishedAs
  <1>11. \A q \in Procs : call[q].ver \in Versions /\ pub.desVer \in Versions
    BY DEF IInv, TypeOK, Call, Publication
  <1>12. ActivationInv'
    BY <1>1, <1>5, <1>10, <1>11 DEF LInv, ActivationInv, IsCurrent, Unchanged
  <1> QED BY <1>1, <1>3, <1>6, <1>8, <1>12 DEF LInv

\* A step inside the reconciler: record j goes on from the claimed one.
Works(p, j, l) ==
    /\ job' = [job EXCEPT ![p] = j]
    /\ pc' = [pc EXCEPT ![p] = l]
    /\ UNCHANGED <<rows, pub, outbox, call>>

\* Record j is for the state that was claimed, and p may go to l with it.
Follows(p, j, l) ==
    /\ j.rev = job[p].rev /\ j.desVer = job[p].desVer
    /\ j.desState = job[p].desState
    /\ AsDesired(j) /\ (l = "recover" => j.desState = "Withdrawn")
    /\ j.sync = "withdrawn" => l = "write"
    /\ l = "mutating" => job[p].rev = pub.rev
    /\ \/ j.pubVer \in {job[p].pubVer, job[p].desVer}
       \/ j.desState = "Withdrawn"

\* Work of a reconciler keeps the invariant.
LEMMA WorkStep ==
    ASSUME IInv, IInv', LInv, NEW p \in Procs, pc[p] \in Reconciling,
           NEW j, NEW l \in Reconciling, Works(p, j, l), Follows(p, j, l)
    PROVE  LInv'
  <1>1. /\ pc'[p] = l /\ job'[p] = j
        /\ \A q \in Procs \ {p} : pc'[q] = pc[q] /\ job'[q] = job[q]
        /\ UNCHANGED <<rows, pub, call>>
    BY DEF Works, IInv, TypeOK
  <1>2. l \notin {"idle"} \cup Activating
    BY DEF Reconciling, Activating
  <1>3. RowsInv'
    BY <1>1 DEF LInv, RowsInv
  <1>4. CallInv'
    BY <1>1, <1>2 DEF LInv, CallInv, Seen, Activating
  <1>5. EndInv'
    BY <1>1, <1>2 DEF LInv, EndInv, Ended, IsCurrent, Unchanged, Activating
  <1>6. DesiredInv'
    BY <1>1 DEF LInv, DesiredInv, AsDesired, Follows
  <1>7. \A q \in Procs : Owner(q)' <=> Owner(q)
    BY <1>1 DEF Owner, Follows
  <1>8. \A v \in Versions :
           pub.desState # "Withdrawn" /\ PublishedAs(v) => PublishedAs(v)'
    BY <1>1, <1>7 DEF PublishedAs, Follows, IInv, OwnerInv
  <1>9. \A q \in Procs : call[q].ver \in Versions /\ pub.desVer \in Versions
    BY DEF IInv, TypeOK, Call, Publication
  <1>10. ASSUME NEW a \in Procs, pc'[a] = "request", IsCurrent(call[a])'
         PROVE  pub.desState # "Withdrawn" /\ PublishedAs(call[a].ver)
    <2>1. pc[a] = "request" /\ IsCurrent(call[a])
      BY <1>1, <1>2, <1>10 DEF IsCurrent, Unchanged, Activating
    <2>2. call[a].status = "accepted"
      BY <2>1 DEF LInv, CallInv
    <2>3. ~Ended
      BY <1>9, <2>1, <2>2, OneLatest DEF Ended, IsCurrent, Unchanged, Terminal
    <2> QED BY <2>1, <2>3 DEF LInv, EndInv, ActivationInv
  <1>11. ActivationInv'
    BY <1>1, <1>8, <1>9, <1>10 DEF LInv, ActivationInv
  <1> QED BY <1>3, <1>4, <1>5, <1>6, <1>11 DEF LInv

\* A claim: the claimer's record is the publication.
LEMMA ClaimedStep ==
    ASSUME IInv, IInv', LInv, NEW p \in Procs, Claim(p)
    PROVE  LInv'
  <1>1. /\ pc'[p] = "claimed" /\ job'[p] = pub'
        /\ \A q \in Procs \ {p} : pc'[q] = pc[q] /\ job'[q] = job[q]
        /\ UNCHANGED <<rows, call>>
        /\ pub'.sync = "processing" /\ pub'.pubVer = pub.pubVer
        /\ pub'.desVer = pub.desVer /\ pub'.desState = pub.desState
    BY DEF Claim, Claimed, Goto, IInv, TypeOK, Publication
  <1>2. RowsInv' /\ CallInv'
    BY <1>1 DEF LInv, RowsInv, CallInv, Seen
  <1>3. EndInv' /\ DesiredInv'
    BY <1>1 DEF LInv, EndInv, Ended, IsCurrent, Unchanged, DesiredInv, AsDesired
  <1>4. \A q \in Procs : Owner(q)' => q = p
    <2>1. Owner(p)'
      BY <1>1 DEF Owner, Reconciling
    <2> QED BY <2>1 DEF Owner, IInv, RevisionInv
  <1>5. \A v \in Versions : PublishedAs(v) => PublishedAs(v)'
    BY <1>1, <1>4 DEF PublishedAs
  <1>6. \A q \in Procs : call[q].ver \in Versions /\ pub.desVer \in Versions
    BY DEF IInv, TypeOK, Call, Publication
  <1>7. ActivationInv'
    BY <1>1, <1>5, <1>6 DEF LInv, ActivationInv, IsCurrent, Unchanged
  <1> QED BY <1>2, <1>3, <1>7 DEF LInv

\* What a request records.
LEMMA RequestFacts ==
    ASSUME IInv, IInv', NEW v \in Versions, NEW s \in ExternalState,
           pub' = Requested(v, s)
    PROVE  /\ pub'.sync = "pending" /\ pub'.desVer = v /\ pub'.desState = s
           /\ pub.sync # "withdrawn" => pub'.pubVer = pub.pubVer
           /\ \A p \in Procs : ~Owner(p)'
  <1>1. /\ pub'.sync = "pending" /\ pub'.desVer = v /\ pub'.desState = s
        /\ pub.sync # "withdrawn" => pub'.pubVer = pub.pubVer
    BY DEF Requested, IInv, TypeOK, Publication
  <1> QED BY <1>1 DEF IInv, OwnerInv

\* An activator requests a publication for a call that is current.
LEMMA RequestedStep ==
    ASSUME IInv, IInv', LInv, NEW a \in Procs, pc[a] \notin Reconciling,
           NEW v \in Versions, NEW s \in ExternalState, NEW mode,
           mode # "none", mode \in {"activate", "backfill"} =>
                            call[a].status = "accepted",
           IsCurrent(call[a]), pub' = Requested(v, s),
           call[a].mode # "none",
           s = "Withdrawn" <=> call[a].status \in Terminal,
           s = "Activated" => pc[a] = "request" /\ v = call[a].ver,
           call[a].status = "accepted" => v = call[a].ver,
           call' = [call EXCEPT ![a].mode = mode],
           Goto(a, "reconcile"), UNCHANGED <<rows, job>>
    PROVE  LInv'
  <1>1. /\ pub'.sync = "pending" /\ pub'.desVer = v /\ pub'.desState = s
        /\ pub.sync # "withdrawn" => pub'.pubVer = pub.pubVer
        /\ \A p \in Procs : ~Owner(p)'
    BY RequestFacts
  <1>2. /\ pc'[a] = "reconcile" /\ call'[a].mode = mode
        /\ call'[a].ver = call[a].ver /\ call'[a].rev = call[a].rev
        /\ call'[a].status = call[a].status
        /\ \A q \in Procs \ {a} : pc'[q] = pc[q] /\ call'[q] = call[q]
    BY DEF Goto, IInv, TypeOK, Call
  <1>3. \A q \in Procs : call[q].ver \in Versions /\ pub.desVer \in Versions
    BY DEF IInv, TypeOK, Call, Publication
  <1>4. RowsInv'
    BY DEF LInv, RowsInv
  <1>5. CallInv'
    BY <1>2 DEF LInv, CallInv, Seen
  <1>6. Ended <=> call[a].status \in Terminal
    BY <1>3, OneLatest DEF Ended, IsCurrent, Unchanged
  <1>7. EndInv'
    <2>1. Ended' <=> Ended
      BY DEF Ended
    <2>2. Ended' <=> pub'.desState = "Withdrawn"
      BY <1>1, <1>6, <2>1
    <2>3. ASSUME NEW q \in Procs, pc'[q] = "comprequest", IsCurrent(call[q])'
          PROVE  call'[q].desired = "Withdrawn" <=> call'[q].status \in Terminal
      <3>1. q # a /\ pc[q] = "comprequest" /\ call'[q] = call[q]
        BY <1>2, <2>3
      <3>2. IsCurrent(call[q])
        BY <2>3, <3>1 DEF IsCurrent, Unchanged
      <3> QED BY <3>1, <3>2 DEF LInv, EndInv
    <2> QED BY <1>1, <2>2, <2>3 DEF EndInv
  <1>8. DesiredInv'
    BY <1>1, <1>2 DEF LInv, DesiredInv, AsDesired, Reconciling
  <1>9. \A q \in Procs : pc[q] = "request" /\ IsCurrent(call[q]) =>
            /\ call[q].ver = call[a].ver /\ v = call[a].ver
            /\ pub.pubVer = call[q].ver /\ pub.sync # "withdrawn"
    <2> SUFFICES ASSUME NEW q \in Procs, pc[q] = "request", IsCurrent(call[q])
                 PROVE  /\ call[q].ver = call[a].ver /\ v = call[a].ver
                        /\ pub.pubVer = call[q].ver /\ pub.sync # "withdrawn"
      OBVIOUS
    <2>1. call[q].ver = call[a].ver /\ call[q].status = call[a].status
      BY <1>3, OneLatest DEF IsCurrent, Unchanged
    <2>2. call[q].status = "accepted"
      BY DEF LInv, CallInv
    <2>3. pub.desState # "Withdrawn"
      BY <1>6, <2>1, <2>2 DEF LInv, EndInv, Terminal
    <2> QED BY <2>1, <2>2, <2>3
            DEF LInv, ActivationInv, PublishedAs, DesiredInv, AsDesired
  <1>10. \A q \in Procs : pc'[q] = "request" /\ IsCurrent(call[q])' =>
             PublishedAs(call[q].ver)'
    <2> SUFFICES ASSUME NEW q \in Procs, pc'[q] = "request", IsCurrent(call[q])'
                 PROVE  PublishedAs(call[q].ver)'
      OBVIOUS
    <2>1. q # a /\ pc[q] = "request" /\ call'[q] = call[q]
      BY <1>2
    <2>2. IsCurrent(call[q])
      BY <2>1 DEF IsCurrent, Unchanged
    <2>3. call[q].ver = v /\ pub'.desVer = v /\ pub'.pubVer = v
      BY <1>1, <1>9, <2>1, <2>2
    <2> QED BY <1>1, <2>1, <2>3 DEF PublishedAs
  <1>11. ASSUME s = "Activated"
         PROVE  /\ PublishedAs(pub.desVer)'
                /\ rows[v].status \in Reserving
                /\ \A w \in Versions : w > v => rows[w].status = "none"
    <2>1. pc[a] = "request" /\ v = call[a].ver /\ pub.pubVer = v
          /\ pub.sync # "withdrawn"
      BY <1>9, <1>11
    <2>2. call[a].status = "accepted"
      BY <2>1 DEF LInv, CallInv
    <2> QED BY <1>1, <2>1, <2>2
            DEF PublishedAs, Reserving, IsCurrent, Unchanged, IsLatest, Exists
  <1>12. ActivationInv'
    BY <1>1, <1>10, <1>11 DEF ActivationInv
  <1> QED BY <1>4, <1>5, <1>7, <1>8, <1>12 DEF LInv

\* An activator reads: its call becomes c.
LEMMA ReadStep ==
    ASSUME IInv, IInv', LInv, NEW a \in Procs, NEW c \in Call,
           pc[a] \notin Reconciling,
           NEW l \in {"getpub", "comppub", "comprequest"},
           call' = [call EXCEPT ![a] = c], Goto(a, l),
           UNCHANGED <<rows, pub, job>>,
           Seen(c), l = "getpub" => c.mode = "activate" /\ c.status = "accepted",
           l # "getpub" => c.mode = "compensate" /\ c.status # "active",
           l = "comprequest" => c.desired # "Activated",
           l = "comprequest" /\ c.status = "accepted" => c.target = c.ver,
           l = "comprequest" /\ IsCurrent(c) =>
              (c.desired = "Withdrawn" <=> c.status \in Terminal)
    PROVE  LInv'
  <1>1. /\ pc'[a] = l /\ call'[a] = c
        /\ \A q \in Procs \ {a} : pc'[q] = pc[q] /\ call'[q] = call[q]
    BY DEF Goto, IInv, TypeOK
  <1>2. RowsInv'
    BY DEF LInv, RowsInv
  <1>3. CallInv'
    BY <1>1 DEF LInv, CallInv, Seen
  <1>4. EndInv'
    BY <1>1 DEF LInv, EndInv, Ended, IsCurrent, Unchanged
  <1>5. \A q \in Procs : pc'[q] \in Reconciling <=> pc[q] \in Reconciling
    BY <1>1 DEF Reconciling
  <1>6. DesiredInv'
    BY <1>1, <1>5 DEF LInv, DesiredInv, AsDesired
  <1>7. \A v \in Versions : PublishedAs(v) => PublishedAs(v)'
    BY <1>5 DEF PublishedAs, Owner
  <1>8. \A q \in Procs : call[q].ver \in Versions /\ pub.desVer \in Versions
    BY DEF IInv, TypeOK, Call, Publication
  <1>9. ActivationInv'
    BY <1>1, <1>7, <1>8 DEF LInv, ActivationInv, IsCurrent, Unchanged
  <1> QED BY <1>2, <1>3, <1>4, <1>6, <1>9 DEF LInv

\* The processes during a write of the rows: none moves, but the activator
\* that writes.
Rests(q) ==
    \/ pc'[q] = pc[q] /\ job'[q] = job[q] /\ call'[q] = call[q]
    \/ /\ pc[q] \notin Reconciling /\ pc'[q] = "idle"
       /\ job'[q] = NoPublication /\ call'[q] = NoCall

\* After a write of the rows no call is current.
LEMMA RowsCalls ==
    ASSUME IInv, LInv, NEW v \in Versions, RowsChange(v),
           \A q \in Procs : Rests(q)
    PROVE  /\ RowsInv' /\ CallInv'
           /\ \A q \in Procs : pc'[q] \in {"request", "comprequest"} =>
                 ~IsCurrent(call[q])'
  <1>1. TypeOK /\ \A q \in Procs : call[q] \in Call
    BY DEF IInv, TypeOK
  <1>2. RowsInv'
    BY <1>1, RowsStatuses DEF LInv
  <1>3. ASSUME NEW q \in Procs, call'[q].mode # "none"
        PROVE  /\ call'[q] = call[q] /\ pc'[q] = pc[q]
               /\ Seen(call[q])' /\ ~IsCurrent(call[q])'
    <2>1. call'[q] = call[q] /\ pc'[q] = pc[q]
      BY <1>3 DEF Rests, NoCall
    <2>2. Seen(call[q])
      BY <1>3, <2>1 DEF LInv, CallInv
    <2>3. /\ Exists(rows', call[q].ver)
          /\ call[q].rev <= rows'[call[q].ver].rev
          /\ call[q].rev = rows'[call[q].ver].rev =>
                call[q].status = rows'[call[q].ver].status
          /\ ~Unchanged(rows', call[q].ver, call[q].rev)
      BY <1>1, <2>2, OutdatedAfter
    <2> QED BY <2>1, <2>3 DEF Seen, IsCurrent, Exists, Unchanged, IsLatest
  <1>4. ASSUME NEW q \in Procs, call'[q].mode = "none"
        PROVE  \/ pc'[q] = "idle"
               \/ call'[q] = call[q] /\ pc'[q] = pc[q]
    BY DEF Rests
  <1>5. CallInv'
    BY <1>3, <1>4 DEF LInv, CallInv
  <1>6. ASSUME NEW q \in Procs, pc'[q] \in {"request", "comprequest"}
        PROVE  ~IsCurrent(call[q])'
    <2>1. call'[q].mode # "none"
      BY <1>5, <1>6 DEF CallInv
    <2> QED BY <1>3, <2>1
  <1> QED BY <1>2, <1>5, <1>6

\* The rows change and no publication is requested: the intent is submitted,
\* modified or activated.
LEMMA RowsStep ==
    ASSUME IInv, IInv', LInv, NEW v \in Versions, IsLatest(rows, v),
           \/ rows[v].status = "draft" /\ rows' = UpdateRow(rows, v, "submitted")
           \/ /\ rows[v].status \in Modifiable
              /\ rows[v].status = "accepted" => v < MaxVersion
              /\ rows' = ReplaceRow(rows, v)
           \/ rows[v].status = "accepted" /\ rows' = UpdateRow(rows, v, "active"),
           \A q \in Procs : Rests(q), UNCHANGED pub
    PROVE  LInv'
  <1>0. RowsChange(v)
    BY DEF RowsChange
  <1>1. /\ RowsInv' /\ CallInv'
        /\ \A q \in Procs : pc'[q] \in {"request", "comprequest"} =>
              ~IsCurrent(call[q])'
    BY <1>0, RowsCalls
  <1>2. TypeOK /\ rows \in [Versions -> Row] /\ IsLatest(rows, v)
        /\ rows[v].status \notin Terminal /\ pub.desVer \in Versions
    BY <1>0, RowsStatuses DEF IInv, LInv, TypeOK, Publication
  <1>3. \A w, u \in Versions : IsLatest(rows', w) /\ IsLatest(rows', u) => w = u
    BY DEF IsLatest, Versions
  <1>4. ~Ended /\ ~Ended'
    <2>1. ~Ended
      BY <1>2, OneLatest DEF Ended
    <2>2. \E w \in Versions : IsLatest(rows', w) /\ rows'[w].status \notin Terminal
      <3>1. CASE IsLatest(rows', v)
        <4>1. rows'[v].status \notin Terminal
          BY <1>2 DEF UpdateRow, ReplaceRow, Terminal, Row, Modifiable
        <4> QED BY <3>1, <4>1
      <3>2. CASE ~IsLatest(rows', v)
        <4>1. /\ v + 1 \in Versions /\ IsLatest(rows', v + 1)
              /\ rows'[v + 1].status = "draft"
          BY <1>0, <1>2, <3>2, LatestAfter
        <4> QED BY <4>1 DEF Terminal
      <3> QED BY <3>1, <3>2
    <2>3. \A w \in Versions : IsLatest(rows, w)' <=> IsLatest(rows', w)
      BY DEF IsLatest, Exists
    <2> QED BY <1>3, <2>1, <2>2, <2>3 DEF Ended
  <1>5. EndInv'
    BY <1>1, <1>4 DEF LInv, EndInv
  <1>6. \A q \in Procs : pc'[q] \in Reconciling =>
            pc'[q] = pc[q] /\ job'[q] = job[q]
    BY DEF Rests, Reconciling
  <1>7. DesiredInv'
    BY <1>6 DEF LInv, DesiredInv, AsDesired
  <1>8. \A u \in Versions : PublishedAs(u) => PublishedAs(u)'
    BY <1>6 DEF PublishedAs, Owner
  <1>9. ASSUME pub.desState = "Activated"
        PROVE  /\ rows'[pub.desVer].status \in Reserving
               /\ \A w \in Versions : w > pub.desVer =>
                    rows'[w].status \in {"none", "draft", "submitted", "review"}
    <2>1. /\ rows[pub.desVer].status \in Reserving
          /\ \A w \in Versions : w > pub.desVer =>
                rows[w].status \in {"none", "draft", "submitted", "review"}
      BY <1>9 DEF LInv, ActivationInv
    <2>2. v >= pub.desVer
      BY <1>2, <2>1 DEF IsLatest, Exists, Reserving, Versions
    <2>3. CASE rows[v].status = "accepted" /\ rows' = ReplaceRow(rows, v)
      <3>1. \A w \in Versions : \/ rows'[w] = rows[w]
                                \/ w > pub.desVer /\ rows'[w].status = "draft"
        BY <1>2, <2>2, <2>3 DEF ReplaceRow, Versions
      <3>2. rows'[pub.desVer] = rows[pub.desVer]
        BY <1>2, <3>1 DEF Versions
      <3> QED BY <2>1, <3>1, <3>2
    <2>4. CASE rows[v].status # "accepted"
      <3>1. v > pub.desVer /\ rows'[v].status \in {"draft", "submitted", "review"}
        <4>1. rows[v].status \in {"draft", "submitted"}
              /\ rows'[v].status \in {"draft", "submitted"}
          BY <1>2, <2>4 DEF UpdateRow, ReplaceRow, Modifiable, Terminal, Row
        <4>2. v # pub.desVer
          BY <2>1, <4>1 DEF Reserving
        <4> QED BY <1>2, <2>2, <4>1, <4>2 DEF Versions
      <3>2. \A w \in Versions \ {v} : rows'[w] = rows[w]
        BY <1>2, <2>4 DEF UpdateRow, ReplaceRow, Terminal
      <3> QED BY <1>2, <2>1, <3>1, <3>2 DEF Versions
    <2>5. CASE rows[v].status = "accepted" /\ rows' = UpdateRow(rows, v, "active")
      <3>1. v = pub.desVer
        BY <1>2, <2>1, <2>2, <2>5 DEF Versions
      <3> QED BY <1>2, <2>1, <2>5, <3>1 DEF UpdateRow, Terminal, Reserving, Versions
    <2> QED BY <2>3, <2>4, <2>5
  <1>10. ActivationInv'
    BY <1>1, <1>2, <1>8, <1>9 DEF LInv, ActivationInv
  <1> QED BY <1>1, <1>5, <1>7, <1>10 DEF LInv

\* The rows change and a publication is requested in the same transaction:
\* the intent is accepted or ends.
LEMMA RowsRequestStep ==
    ASSUME IInv, IInv', LInv, NEW v \in Versions, RowsChange(v),
           NEW s \in {"Accepted", "Withdrawn"},
           s = "Accepted" => rows' = AcceptRow(rows, v),
           s = "Withdrawn" => \E t \in Terminal : rows' = UpdateRow(rows, v, t),
           pub' = Requested(v, s), UNCHANGED <<pc, job, call>>
    PROVE  LInv'
  <1>1. /\ RowsInv' /\ CallInv'
        /\ \A q \in Procs : pc'[q] \in {"request", "comprequest"} =>
              ~IsCurrent(call[q])'
    BY RowsCalls DEF Rests
  <1>2. /\ pub'.sync = "pending" /\ pub'.desState = s
    BY RequestFacts DEF ExternalState
  <1>3. TypeOK /\ rows \in [Versions -> Row] /\ IsLatest(rows, v)
    BY DEF IInv, TypeOK, RowsChange
  <1>4. IsLatest(rows', v) /\ rows'[v].status \in Terminal <=> s = "Withdrawn"
    BY <1>3, RowsStatuses DEF LInv, AcceptRow, SetWithPrior, Terminal
  <1>5. IsLatest(rows', v)
    <2>1. CASE s = "Withdrawn"
      BY <1>4, <2>1
    <2>2. CASE s = "Accepted"
      BY <1>3, <2>2 DEF AcceptRow, SetWithPrior, IsLatest, Exists, Versions
    <2> QED BY <2>1, <2>2
  <1>6. Ended' <=> s = "Withdrawn"
    <2>1. \A w \in Versions : IsLatest(rows', w) => w = v
      BY <1>5 DEF IsLatest, Versions
    <2>2. \A w \in Versions : IsLatest(rows, w)' <=> IsLatest(rows', w)
      BY DEF IsLatest, Exists
    <2> QED BY <1>4, <1>5, <2>1, <2>2 DEF Ended
  <1>7. EndInv'
    BY <1>1, <1>2, <1>6 DEF EndInv
  <1>8. DesiredInv'
    BY <1>2 DEF LInv, DesiredInv, AsDesired
  <1>9. ActivationInv'
    BY <1>1, <1>2 DEF ActivationInv
  <1> QED BY <1>1, <1>7, <1>8, <1>9 DEF LInv

\* The records a reconciling process makes out of its own.
LEMMA FollowsFacts ==
    ASSUME IInv, LInv, NEW p \in Procs, pc[p] \in Reconciling \ {"write"}
    PROVE  /\ \A l \in Reconciling \ {"recover", "mutating"} : Follows(p, job[p], l)
           /\ job[p].rev = pub.rev => Follows(p, job[p], "mutating")
           /\ \A b \in BOOLEAN, l \in Reconciling \ {"recover", "mutating"} :
                 Follows(p, Failed(job[p], b), l)
           /\ \A l \in Reconciling \ {"recover", "mutating"} :
                 Follows(p, WithReceipt(job[p], dss), l)
           /\ Follows(p, ReadBackJob(job[p]), "write")
           /\ job[p].desState = "Withdrawn" =>
                 /\ Follows(p, WithdrawnJob(job[p]), "write")
                 /\ Follows(p, job[p], "recover")
           /\ \A ref \in Reference, t \in {"confirmed", "retrying"} :
                 Follows(p, [PublishedJob(job[p], ref) EXCEPT !.sync = t], "write")
  <1>1. /\ job[p] \in Publication
        /\ job[p].sync \notin {"confirmed", "withdrawn"} /\ AsDesired(job[p])
    BY DEF IInv, LInv, TypeOK, JobInv, DesiredInv
  <1>2. \A l \in Reconciling \ {"recover", "mutating"} :
           /\ Follows(p, job[p], l)
           /\ \A b \in BOOLEAN : Follows(p, Failed(job[p], b), l)
    BY <1>1 DEF Follows, AsDesired, Failed, Publication
  <1>3. \A l \in Reconciling \ {"recover", "mutating"} :
           Follows(p, WithReceipt(job[p], dss), l)
    BY <1>1 DEF Follows, AsDesired, WithReceipt, Publication
  <1>4. Follows(p, ReadBackJob(job[p]), "write")
    BY <1>1 DEF Follows, AsDesired, WithReceipt, Failed, ReadBackJob, Publication
  <1>5. ASSUME job[p].desState = "Withdrawn"
        PROVE  /\ Follows(p, WithdrawnJob(job[p]), "write")
               /\ Follows(p, job[p], "recover")
    BY <1>1, <1>5 DEF Follows, AsDesired, WithdrawnJob, Publication
  <1>6. ASSUME NEW ref \in Reference, NEW t \in {"confirmed", "retrying"}
        PROVE  Follows(p, [PublishedJob(job[p], ref) EXCEPT !.sync = t], "write")
    BY <1>1 DEF Follows, AsDesired, PublishedJob, WithReceipt, Publication
  <1>7. job[p].rev = pub.rev => Follows(p, job[p], "mutating")
    BY <1>1 DEF Follows, AsDesired, Publication
  <1> QED BY <1>2, <1>3, <1>4, <1>5, <1>6, <1>7

\* A reconciliation returns to where its caller goes on.
LEMMA ReturnMoves ==
    ASSUME NEW p \in Procs, NEW ok \in BOOLEAN, call[p].mode \in Modes
    PROVE  /\ Moves(p, ReturnTo(call[p].mode, ok))
           /\ ReturnTo(call[p].mode, ok) \notin {"request", "commit"}
  BY DEF Moves, ReturnTo, Modes

\* What such a step does to the DSS, and what it records of it: nothing or a
\* read, a request left behind, a mutation.
Effect(p, j, l) ==
    \/ /\ UNCHANGED <<dss, ovns, late>>
       /\ j.sync # "confirmed"
       /\ j.ovn = job[p].ovn \/ (dss.state # "absent" /\ j.ovn = dss.ovn)
       /\ j.sync = "withdrawn" \/ l = "recover" =>
             dss.state = "absent" \/ pc[p] = "recover"
    \/ /\ Mutating(p) /\ UNCHANGED <<dss, ovns>>
       /\ Spend("late") /\ late' = late \cup {MutationOf(job[p])}
       /\ j.sync \notin {"confirmed", "withdrawn"} /\ l # "recover"
       /\ j.ovn = job[p].ovn
    \/ /\ Mutating(p) /\ Mutate(MutationOf(job[p])) /\ UNCHANGED late
       /\ l # "recover"
       /\ j.ovn \in {job[p].ovn, ovns + 1}
       /\ j.sync = "withdrawn" => job[p].desState = "Withdrawn"
       /\ j.sync = "confirmed" =>
             job[p].desState # "Withdrawn" /\ j.dssVer = dss.ver + 1

\* The effects of the records a reconciling process makes out of its own.
LEMMA EffectFacts ==
    ASSUME IInv, LInv, NEW p \in Procs, pc[p] \in Reconciling \ {"write"},
           NEW l, l # "recover"
    PROVE  /\ UNCHANGED <<dss, ovns, late>> =>
                 /\ Effect(p, job[p], l)
                 /\ \A b \in BOOLEAN : Effect(p, Failed(job[p], b), l)
                 /\ dss.state # "absent" =>
                       /\ Effect(p, WithReceipt(job[p], dss), l)
                       /\ Effect(p, ReadBackJob(job[p]), l)
                 /\ dss.state = "absent" \/ pc[p] = "recover" =>
                       /\ Effect(p, WithdrawnJob(job[p]), l)
                       /\ Effect(p, job[p], "recover")
           /\ Mutating(p) /\ UNCHANGED late /\ Mutate(MutationOf(job[p])) =>
                 /\ \A b \in BOOLEAN : Effect(p, Failed(job[p], b), l)
                 /\ job[p].desState = "Withdrawn" =>
                       Effect(p, WithdrawnJob(job[p]), l)
           /\ (/\ Mutating(p) /\ UNCHANGED <<dss, ovns>> /\ Spend("late")
               /\ late' = late \cup {MutationOf(job[p])})
                 => Effect(p, Failed(job[p], FALSE), l)
  <1>1. job[p] \in Publication /\ job[p].sync \notin {"confirmed", "withdrawn"}
    BY DEF IInv, LInv, TypeOK, JobInv, DesiredInv
  <1>2. \A b \in BOOLEAN : /\ Failed(job[p], b).ovn = job[p].ovn
                           /\ Failed(job[p], b).sync \notin {"confirmed", "withdrawn"}
    BY <1>1 DEF Failed, Publication
  <1>3. /\ WithReceipt(job[p], dss).ovn = dss.ovn
        /\ WithReceipt(job[p], dss).sync = job[p].sync
    BY <1>1 DEF WithReceipt, Publication
  <1>4. /\ ReadBackJob(job[p]).ovn = dss.ovn
        /\ ReadBackJob(job[p]).sync \notin {"confirmed", "withdrawn"}
    BY <1>1 DEF WithReceipt, ReadBackJob, Failed, Publication
  <1>5. /\ WithdrawnJob(job[p]).ovn = job[p].ovn
        /\ WithdrawnJob(job[p]).sync = "withdrawn"
    BY <1>1 DEF WithdrawnJob, Publication
  <1> QED BY <1>1, <1>2, <1>3, <1>4, <1>5 DEF Effect

\* A step of the reconciler works on, gives up, or writes its result.
Continued(p) ==
    \E j, l : /\ l \in Reconciling
              /\ Works(p, j, l) /\ Follows(p, j, l) /\ Effect(p, j, l)

GivesUp(p) ==
    /\ \E l : Moves(p, l) /\ l \notin {"request", "commit"} /\ Leave(p, l)
    /\ UNCHANGED <<rows, pub, outbox, external>>

Writes(p) ==
    /\ pc[p] = "write" /\ job[p].rev = pub.rev
    /\ pub' = [job[p] EXCEPT !.rev = @ + 1]
    /\ outbox' = Enqueued(Notifications(job[p]))
    /\ UNCHANGED <<rows, external>>
    /\ \E l : Moves(p, l) /\ l \notin {"request", "commit"} /\ Leave(p, l)

\* Every step of the reconciler is of one of these kinds.
LEMMA ReconcileKinds ==
    ASSUME IInv, LInv, NEW p \in Procs, Reconcile(p)
    PROVE  pc[p] \in Reconciling /\ (Continued(p) \/ GivesUp(p) \/ Writes(p))
  <1>1. /\ TypeOK /\ call[p].mode \in Modes /\ job[p] \in Publication
        /\ job \in [Procs -> Publication]
    BY DEF IInv, TypeOK, Call
  <1>2. \A j, l : Step(p, j, l) => Works(p, j, l)
    BY DEF Step, Works, Goto
  <1>3. ASSUME NEW ok \in BOOLEAN, Return(p, ok)
        PROVE  \E l : Moves(p, l) /\ l \notin {"request", "commit"} /\ Leave(p, l)
    BY <1>1, <1>3, ReturnMoves DEF Return
  <1>4. {"ready", "readback", "write"} \subseteq Reconciling \ {"recover", "mutating"}
        /\ {"recover", "mutating"} \subseteq Reconciling
    BY DEF Reconciling
  <1>5. ASSUME pc[p] \in Reconciling \ {"write"}
        PROVE  /\ \A l \in Reconciling \ {"recover", "mutating"} : Follows(p, job[p], l)
               /\ job[p].rev = pub.rev => Follows(p, job[p], "mutating")
               /\ \A b \in BOOLEAN, l \in Reconciling \ {"recover", "mutating"} :
                     Follows(p, Failed(job[p], b), l)
               /\ \A l \in Reconciling \ {"recover", "mutating"} :
                     Follows(p, WithReceipt(job[p], dss), l)
               /\ Follows(p, ReadBackJob(job[p]), "write")
               /\ job[p].desState = "Withdrawn" =>
                     /\ Follows(p, WithdrawnJob(job[p]), "write")
                     /\ Follows(p, job[p], "recover")
    BY <1>5, FollowsFacts
  <1>6. CASE LookUp(p)
    <2>1. pc[p] \in Reconciling \ {"write"} /\ UNCHANGED <<dss, ovns, late>>
      BY <1>6 DEF LookUp, Reconciling, external
    <2>2. job[p].desState = "Withdrawn" /\
          \/ Step(p, job[p], "ready")
          \/ dss.state = "absent" /\ Step(p, WithdrawnJob(job[p]), "write")
          \/ dss.state # "absent" /\ Step(p, WithReceipt(job[p], dss), "ready")
          \/ Step(p, Failed(job[p], FALSE), "write")
      BY <1>6 DEF LookUp
    <2>3. CASE Step(p, job[p], "ready")
      BY <1>2, <1>4, <1>5, <2>1, <2>3, EffectFacts DEF Continued
    <2>4. CASE dss.state = "absent" /\ Step(p, WithdrawnJob(job[p]), "write")
      BY <1>2, <1>4, <1>5, <2>1, <2>2, <2>4, EffectFacts DEF Continued
    <2>5. CASE dss.state # "absent" /\ Step(p, WithReceipt(job[p], dss), "ready")
      BY <1>2, <1>4, <1>5, <2>1, <2>5, EffectFacts DEF Continued
    <2>6. CASE Step(p, Failed(job[p], FALSE), "write")
      BY <1>2, <1>4, <1>5, <2>1, <2>6, EffectFacts DEF Continued
    <2> QED BY <2>2, <2>3, <2>4, <2>5, <2>6
  <1>7. CASE Check(p)
    <2>1. pc[p] \in Reconciling \ {"write"} /\ UNCHANGED <<dss, ovns, late>>
      BY <1>7 DEF Check, Reconciling, external
    <2>2. \/ Step(p, job[p], "ready")
          \/ \E b \in BOOLEAN : Step(p, Failed(job[p], b), "write")
      BY <1>7 DEF Check
    <2> QED BY <1>2, <1>4, <1>5, <2>1, <2>2, EffectFacts DEF Continued
  <1>8. CASE RenewLease(p)
    <2>1. pc[p] \in Reconciling \ {"write"} /\ UNCHANGED <<dss, ovns, late>>
      BY <1>8 DEF RenewLease, Reconciling, external
    <2>2. CASE job[p].rev = pub.rev
      <3>1. Works(p, job[p], "mutating")
        BY <1>1, <1>8, <2>2 DEF RenewLease, Works, Goto
      <3> QED BY <1>4, <1>5, <2>1, <2>2, <3>1, EffectFacts DEF Continued
    <2>3. CASE job[p].rev # pub.rev
      BY <1>3, <1>8, <2>1, <2>3 DEF RenewLease, GivesUp
    <2> QED BY <2>2, <2>3
  <1>9. CASE Publish(p)
    <2> DEFINE m == MutationOf(job[p])
               ref == Mutated(m)
    <2>1. /\ pc[p] \in Reconciling \ {"write"} /\ ref \in Reference /\ Mutating(p)
          /\ UNCHANGED late /\ job[p].desState # "Withdrawn"
      BY <1>1, <1>9, MutationTypes DEF Publish, Reconciling, Mutating
    <2>2. \/ \E t \in {"confirmed", "retrying"} : Mutate(m) /\
                Step(p, [PublishedJob(job[p], ref) EXCEPT !.sync = t], "write")
          \/ Step(p, Failed(job[p], FALSE), "readback") /\ UNCHANGED <<dss, ovns>>
      BY <1>9 DEF Publish, Failed
    <2>3. ref.ovn = ovns + 1 /\ ref.ver = dss.ver + 1
      BY <2>1 DEF Mutated, MutationOf
    <2> HIDE DEF m, ref
    <2>4. CASE \E t \in {"confirmed", "retrying"} : Mutate(m) /\
                Step(p, [PublishedJob(job[p], ref) EXCEPT !.sync = t], "write")
      <3>1. PICK t \in {"confirmed", "retrying"} : Mutate(m) /\
                Step(p, [PublishedJob(job[p], ref) EXCEPT !.sync = t], "write")
        BY <2>4
      <3> DEFINE j == [PublishedJob(job[p], ref) EXCEPT !.sync = t]
      <3>2. Follows(p, j, "write")
        BY <2>1, FollowsFacts
      <3>3. j.ovn = ovns + 1 /\ j.dssVer = dss.ver + 1 /\ j.sync = t
        BY <1>1, <2>3 DEF PublishedJob, WithReceipt, Publication
      <3> HIDE DEF j
      <3>4. Effect(p, j, "write")
        BY <2>1, <3>1, <3>3 DEF Effect, m
      <3> QED BY <1>2, <1>4, <2>1, <3>1, <3>2, <3>4 DEF Continued, j
    <2>5. CASE Step(p, Failed(job[p], FALSE), "readback") /\ UNCHANGED <<dss, ovns>>
      BY <1>2, <1>4, <1>5, <2>1, <2>5, EffectFacts DEF Continued
    <2> QED BY <2>2, <2>4, <2>5
  <1>10. CASE Withdraw(p)
    <2>1. /\ pc[p] \in Reconciling \ {"write"} /\ Mutating(p)
          /\ UNCHANGED late /\ job[p].desState = "Withdrawn"
      BY <1>10 DEF Withdraw, Reconciling, Mutating
    <2>2. CASE /\ Mutate(MutationOf(job[p]))
               /\ Step(p, WithdrawnJob(job[p]), "write")
      BY <1>2, <1>4, <1>5, <2>1, <2>2, EffectFacts DEF Continued
    <2>3. CASE /\ dss.state = "absent" /\ UNCHANGED <<dss, ovns>>
               /\ Step(p, job[p], "recover")
      <3>1. "write" # "recover"
        OBVIOUS
      <3>2. Effect(p, job[p], "recover")
        BY <2>1, <2>3, <3>1, EffectFacts
      <3> QED BY <1>2, <1>4, <1>5, <2>1, <2>3, <3>2 DEF Continued
    <2>4. CASE /\ UNCHANGED <<dss, ovns>>
               /\ Step(p, Failed(job[p], FALSE), "readback")
      BY <1>2, <1>4, <1>5, <2>1, <2>4, EffectFacts DEF Continued
    <2> QED BY <1>10, <2>2, <2>3, <2>4 DEF Withdraw
  <1>11. CASE MutationFails(p)
    <2> DEFINE l == AfterFailure(job[p])
    <2>1. /\ pc[p] \in Reconciling \ {"write"} /\ Mutating(p)
          /\ l \in Reconciling \ {"recover", "mutating"}
      BY <1>11 DEF MutationFails, Reconciling, AfterFailure, Mutating
    <2> HIDE DEF l
    <2>2. \E b \in BOOLEAN :
            /\ Step(p, Failed(job[p], b), l)
            /\ \/ UNCHANGED <<dss, ovns, late>>
               \/ Mutate(MutationOf(job[p])) /\ UNCHANGED late
               \/ /\ b = FALSE /\ Spend("late") /\ UNCHANGED <<dss, ovns>>
                  /\ late' = late \cup {MutationOf(job[p])}
      BY <1>11 DEF MutationFails, external, l
    <2> QED BY <1>2, <1>5, <2>1, <2>2, EffectFacts DEF Continued
  <1>12. CASE ReadBack(p)
    <2>1. pc[p] \in Reconciling \ {"write"} /\ UNCHANGED <<dss, ovns, late>>
      BY <1>12 DEF ReadBack, Reconciling, external
    <2>2. \/ dss.state # "absent" /\ Step(p, ReadBackJob(job[p]), "write")
          \/ Step(p, job[p], "write")
      BY <1>12 DEF ReadBack
    <2> QED BY <1>2, <1>4, <1>5, <2>1, <2>2, EffectFacts DEF Continued
  <1>13. CASE RecoverWithdrawal(p)
    <2>1. /\ pc[p] \in Reconciling \ {"write"} /\ pc[p] = "recover"
          /\ UNCHANGED <<dss, ovns, late>> /\ job[p].desState = "Withdrawn"
      BY <1>13 DEF RecoverWithdrawal, Reconciling, LInv, DesiredInv, external
    <2>2. CASE Step(p, WithdrawnJob(job[p]), "write")
      BY <1>2, <1>4, <1>5, <2>1, <2>2, EffectFacts DEF Continued
    <2>3. CASE Step(p, Failed(job[p], FALSE), "write")
      BY <1>2, <1>4, <1>5, <2>1, <2>3, EffectFacts DEF Continued
    <2> QED BY <1>13, <2>2, <2>3 DEF RecoverWithdrawal
  <1>14. CASE WriteResult(p)
    <2>1. pc[p] \in Reconciling /\ pc[p] = "write" /\ UNCHANGED <<rows, external>>
      BY <1>14 DEF WriteResult, Reconciling
    <2>2. CASE job[p].rev # pub.rev
      BY <1>3, <1>14, <2>1, <2>2 DEF WriteResult, GivesUp
    <2>3. CASE job[p].rev = pub.rev
      <3> DEFINE done == job[p].sync \in {"confirmed", "withdrawn"}
      <3>1. done \in BOOLEAN /\ Return(p, done)
            /\ pub' = [job[p] EXCEPT !.rev = @ + 1]
            /\ outbox' = Enqueued(Notifications(job[p]))
        BY <1>14, <2>3 DEF WriteResult
      <3> HIDE DEF done
      <3> QED BY <1>3, <2>1, <2>3, <3>1 DEF Writes
    <2> QED BY <2>2, <2>3
  <1> QED BY <1>6, <1>7, <1>8, <1>9, <1>10, <1>11, <1>12, <1>13, <1>14
          DEF Reconcile

\* The steps of ActivateIntent and of its compensation.
LEMMA ActivatedStep ==
    ASSUME IInv, IInv', LInv, NEW a \in Procs, BeginActivation(a) \/ Activate(a)
    PROVE  LInv'
  <1>1. /\ TypeOK /\ call[a] \in Call /\ call[a].mode \in Modes
        /\ call \in [Procs -> Call] /\ pub \in Publication
        /\ rows \in [Versions -> Row] /\ job \in [Procs -> Publication]
        /\ pc \in [Procs -> Labels]
    BY DEF IInv, TypeOK, Call, Labels
  <1>2. CallInv /\ RowsInv /\ EndInv /\ ActivationInv
    BY DEF LInv
  <1>3. \A l : Moves(a, l) /\ Proceed(a, l) => LInv'
    BY MoveStep DEF Proceed
  <1>4. Moves(a, "idle")
    BY DEF Moves
  <1>5. \A v \in Versions : IsLatest(rows, v) =>
            rows[v].status \in IntentStatus /\ rows[v].rev \in Nat
    BY <1>1 DEF IsLatest, Exists, Row
  <1>6. CASE BeginActivation(a)
    <2>1. PICK v \in Versions :
            /\ IsLatest(rows, v) /\ rows[v].status = "accepted"
            /\ call' = [call EXCEPT ![a] =
                          [NoCall EXCEPT !.mode = "activate", !.ver = v,
                             !.rev = rows[v].rev, !.status = "accepted"]]
      BY <1>6 DEF BeginActivation
    <2> DEFINE c == [NoCall EXCEPT !.mode = "activate", !.ver = v,
                        !.rev = rows[v].rev, !.status = "accepted"]
    <2>2. c \in Call
      BY <1>5, <2>1, VersionFacts
         DEF NoCall, Call, Modes, IntentStatus, ExternalState
    <2>3. c.mode = "activate" /\ c.ver = v /\ c.rev = rows[v].rev
          /\ c.status = "accepted"
      BY DEF NoCall
    <2>4. Seen(c)
      BY <1>5, <2>1, <2>3 DEF Seen, IsLatest
    <2> HIDE DEF c
    <2>5. pc[a] \notin Reconciling /\ Goto(a, "getpub")
          /\ UNCHANGED <<rows, pub, job>> /\ call' = [call EXCEPT ![a] = c]
      BY <1>6, <2>1 DEF BeginActivation, Reconciling, c
    <2> QED BY <2>2, <2>3, <2>4, <2>5, ReadStep
  <1>7. CASE ReadPublication(a)
    <2>1. call[a].mode \in {"activate", "backfill"}
      BY <1>2, <1>7 DEF ReadPublication, CallInv
    <2>2. \E l \in {"backfill", "request", "commit", "idle"} :
             Proceed(a, l) /\ (l = "request" => ConfirmedFor(call[a].ver))
      BY <1>7 DEF ReadPublication
    <2> QED BY <1>3, <2>1, <2>2 DEF Moves
  <1>8. CASE BackfillAcceptance(a)
    <2>1. pc[a] \notin Reconciling /\ call[a].mode \in {"activate", "backfill"}
          /\ call[a].status = "accepted" /\ call[a].ver \in Versions
      BY <1>1, <1>2, <1>8 DEF BackfillAcceptance, CallInv, Reconciling, Call
    <2>2. CASE ~IsCurrent(call[a]) /\ Proceed(a, "idle")
      BY <1>3, <1>4, <2>2
    <2>3. CASE /\ IsCurrent(call[a])
               /\ RequestPublication(call[a].ver, "Accepted")
               /\ call' = [call EXCEPT ![a].mode = "backfill"]
               /\ Goto(a, "reconcile") /\ UNCHANGED <<rows, job>>
      BY <2>1, <2>3, RequestedStep DEF RequestPublication, ExternalState, Terminal
    <2> QED BY <1>8, <2>2, <2>3 DEF BackfillAcceptance, RequestIfCurrent
  <1>9. CASE RequestActivation(a)
    <2>1. pc[a] \notin Reconciling /\ call[a].mode \in {"activate", "backfill"}
          /\ call[a].status = "accepted" /\ call[a].ver \in Versions
          /\ pc[a] = "request"
      BY <1>1, <1>2, <1>9 DEF RequestActivation, CallInv, Reconciling, Call
    <2>2. CASE ~IsCurrent(call[a]) /\ Proceed(a, "idle")
      BY <1>3, <1>4, <2>2
    <2>3. CASE /\ IsCurrent(call[a])
               /\ RequestPublication(call[a].ver, "Activated")
               /\ call' = [call EXCEPT ![a].mode = "activate"]
               /\ Goto(a, "reconcile") /\ UNCHANGED <<rows, job>>
      BY <2>1, <2>3, RequestedStep DEF RequestPublication, ExternalState, Terminal
    <2> QED BY <1>9, <2>2, <2>3 DEF RequestActivation, RequestIfCurrent
  <1>10. CASE ClaimById(a)
    <2>1. CASE Claim(a)
      BY <2>1, ClaimedStep
    <2>2. CASE Return(a, FALSE) /\ UNCHANGED <<rows, pub>>
      BY <1>1, <2>2, ReturnMoves, MoveStep DEF Return
    <2> QED BY <1>10, <2>1, <2>2 DEF ClaimById
  <1>11. CASE VerifyActivation(a)
    <2>1. call[a].mode \in {"activate", "backfill"}
      BY <1>2, <1>11 DEF VerifyActivation, CallInv
    <2> QED BY <1>3, <1>11, <2>1 DEF VerifyActivation, Moves
  <1>12. CASE CommitActivation(a)
    <2>1. /\ call[a].mode \in {"activate", "backfill"} /\ pc[a] = "commit"
          /\ call[a].status = "accepted" /\ Seen(call[a])
          /\ call[a].ver \in Versions
      BY <1>1, <1>2, <1>12 DEF CommitActivation, CallInv, Call
    <2>2. Moves(a, "compensate")
      BY <2>1 DEF Moves
    <2>3. CASE Leave(a, "compensate") /\ UNCHANGED <<rows, pub>>
      BY <2>2, <2>3, MoveStep
    <2>4. CASE /\ Unchanged(rows, call[a].ver, call[a].rev)
               /\ rows' = UpdateRow(rows, call[a].ver, "active")
               /\ Leave(a, "idle") /\ UNCHANGED pub
      <3>1. IsLatest(rows, call[a].ver) /\ rows[call[a].ver].status = "accepted"
        BY <2>1, <2>4 DEF Unchanged, Seen
      <3>2. \A q \in Procs : Rests(q)
        BY <1>1, <2>1, <2>4 DEF Leave, Rests, Reconciling
      <3> QED BY <2>1, <2>4, <3>1, <3>2, RowsStep
    <2> QED BY <1>12, <2>3, <2>4 DEF CommitActivation, Proceed
  <1>13. CASE CompensateRead(a)
    <2>1. PICK v \in Versions :
            /\ IsLatest(rows, v)
            /\ IF rows[v].status = "active"
               THEN Proceed(a, "idle")
               ELSE /\ call' = [call EXCEPT ![a] =
                          [@ EXCEPT !.mode = "compensate", !.ver = v,
                             !.rev = rows[v].rev, !.status = rows[v].status]]
                    /\ Goto(a, "comppub")
                    /\ UNCHANGED <<rows, pub, lease, external, outbox, job,
                                   budget>>
      BY <1>13 DEF CompensateRead
    <2> DEFINE c == [call[a] EXCEPT !.mode = "compensate", !.ver = v,
                        !.rev = rows[v].rev, !.status = rows[v].status]
    <2>2. c \in Call
      BY <1>1, <1>5, <2>1 DEF Call, Modes
    <2>3. c.mode = "compensate" /\ c.ver = v /\ c.rev = rows[v].rev
          /\ c.status = rows[v].status
      BY <1>1 DEF Call
    <2>4. Seen(c)
      BY <1>5, <2>1, <2>3 DEF Seen, IsLatest
    <2> HIDE DEF c
    <2>5. CASE rows[v].status = "active"
      BY <1>3, <1>4, <2>1, <2>5
    <2>6. CASE rows[v].status # "active"
      <3>1. pc[a] \notin Reconciling /\ Goto(a, "comppub")
            /\ UNCHANGED <<rows, pub, job>> /\ call' = [call EXCEPT ![a] = c]
        BY <1>1, <1>13, <2>1, <2>6 DEF CompensateRead, Reconciling, c
      <3> QED BY <2>2, <2>3, <2>4, <2>6, <3>1, ReadStep
    <2> QED BY <2>5, <2>6
  <1>14. CASE CompensateDecide(a)
    <2> DEFINE unpublished == /\ call[a].status \in {"draft", "submitted", "review"}
                              /\ pub.pubVer = 0
    <2>1. CASE pub.desState # "Activated" \/ unpublished
      BY <1>3, <1>4, <1>14, <2>1 DEF CompensateDecide
    <2>2. CASE ~(pub.desState # "Activated" \/ unpublished)
      <3> DEFINE c == [call[a] EXCEPT !.target = Restored(call[a]).ver,
                                      !.desired = Restored(call[a]).state]
      <3>1. /\ pc[a] = "comppub" /\ pc[a] \notin Reconciling
            /\ call' = [call EXCEPT ![a] = c]
            /\ Goto(a, "comprequest") /\ UNCHANGED <<rows, pub, job>>
        BY <1>1, <1>14, <2>2 DEF CompensateDecide, Reconciling
      <3>2. Restored(call[a]).ver \in Versions
            /\ Restored(call[a]).state \in ExternalState
        BY <1>1, <2>2, VersionFacts
           DEF Restored, Call, Publication, ExternalState
      <3>3. c \in Call
        BY <1>1, <3>2 DEF Call
      <3>4. /\ c.mode = call[a].mode /\ c.ver = call[a].ver
            /\ c.rev = call[a].rev /\ c.status = call[a].status
            /\ c.target = Restored(call[a]).ver
            /\ c.desired = Restored(call[a]).state
        BY <1>1 DEF Call
      <3>5. /\ call[a].mode = "compensate" /\ call[a].status # "active"
            /\ Seen(call[a])
        BY <1>2, <3>1 DEF CallInv
      <3>6. Seen(c)
        BY <3>4, <3>5 DEF Seen
      <3>7. c.desired # "Activated" /\ (c.status = "accepted" => c.target = c.ver)
        BY <3>4 DEF Restored
      <3> HIDE DEF c
      <3>8. ASSUME IsCurrent(c)
            PROVE  c.desired = "Accepted" /\ c.status \notin Terminal
        <4>1. /\ c.ver \in Versions /\ IsLatest(rows, c.ver)
              /\ rows[c.ver].status = c.status
          BY <3>3, <3>8 DEF IsCurrent, Unchanged, Call
        <4>2. c.status \notin Terminal
          BY <1>2, <2>2, <4>1 DEF EndInv, Ended
        <4>3. c.status \in {"draft", "submitted", "review", "accepted"}
          BY <1>2, <1>5, <3>4, <3>5, <4>1, <4>2 DEF RowsInv, IntentStatus, Terminal
        <4>4. c.status # "accepted" => rows[pub.pubVer].status = "accepted"
          <5>1. /\ pub.pubVer = pub.desVer /\ pub.desVer \in Versions
                /\ rows[pub.desVer].status \in Reserving
            BY <1>1, <1>2, <2>2 DEF ActivationInv, PublishedAs, Publication
          <5>2. rows[pub.desVer].status # "active"
            BY <1>2, <3>4, <3>5, <4>1, <5>1, OneLatest DEF RowsInv
          <5> QED BY <5>1, <5>2 DEF Reserving
        <4> QED BY <3>4, <4>2, <4>3, <4>4 DEF Restored
      <3> QED BY <3>1, <3>3, <3>4, <3>5, <3>6, <3>7, <3>8, ReadStep
    <2> QED BY <2>1, <2>2
  <1>15. CASE CompensateRequest(a)
    <2>1. /\ pc[a] \notin Reconciling /\ call[a].mode = "compensate"
          /\ call[a].target \in Versions /\ call[a].desired \in ExternalState
          /\ call[a].status = "accepted" => call[a].target = call[a].ver
          /\ pc[a] = "comprequest"
      BY <1>1, <1>2, <1>15 DEF CompensateRequest, CallInv, Reconciling, Call
    <2>2. CASE ~IsCurrent(call[a]) /\ Proceed(a, "idle")
      BY <1>3, <1>4, <2>2
    <2>3. CASE /\ IsCurrent(call[a])
               /\ RequestPublication(call[a].target, call[a].desired)
               /\ call' = [call EXCEPT ![a].mode = "compensate"]
               /\ Goto(a, "reconcile") /\ UNCHANGED <<rows, job>>
      <3>1. call[a].desired = "Withdrawn" <=> call[a].status \in Terminal
        BY <1>2, <2>1, <2>3 DEF EndInv
      <3>2. call[a].desired # "Activated"
        BY <1>2, <2>1 DEF CallInv
      <3> QED BY <2>1, <2>3, <3>1, <3>2, RequestedStep DEF RequestPublication
    <2> QED BY <1>15, <2>2, <2>3 DEF CompensateRequest, RequestIfCurrent
  <1> QED BY <1>6, <1>7, <1>8, <1>9, <1>10, <1>11, <1>12, <1>13, <1>14, <1>15
          DEF Activate

\* Every step keeps the invariant.
LEMMA LInvStep == IInv /\ LInv /\ [Next]_vars => LInv'
  <1> SUFFICES ASSUME IInv, LInv, [Next]_vars PROVE LInv'
    OBVIOUS
  <1>1. IInv'
    BY InvStep
  <1>2. Workers \subseteq Procs /\ Activators \subseteq Procs
        /\ \A p \in Procs : call[p].mode \in Modes
    BY DEF Procs, IInv, TypeOK, Call
  <1>3. CASE UNCHANGED <<rows, pub, pc, job, call>>
    <2>1. RowsInv' /\ CallInv' /\ EndInv'
      BY <1>3 DEF LInv, RowsInv, CallInv, EndInv, Seen, Ended, IsCurrent,
                  Unchanged
    <2>2. DesiredInv' /\ ActivationInv'
      BY <1>3 DEF LInv, DesiredInv, ActivationInv, AsDesired, PublishedAs,
                  Owner, IsCurrent, Unchanged
    <2> QED BY <2>1, <2>2 DEF LInv
  <1>4. ASSUME NEW v \in Versions, SubmitIntent(v) \/ ModifyIntent(v)
        PROVE  LInv'
    <2>1. (\A q \in Procs : Rests(q)) /\ UNCHANGED pub
      BY <1>4 DEF SubmitIntent, ModifyIntent, local, Rests
    <2> QED BY <1>1, <1>4, <2>1, RowsStep
            DEF SubmitIntent, ModifyIntent, Submittable
  <1>5. ASSUME NEW v \in Versions, AcceptIntent(v) PROVE LInv'
    <2>1. RowsChange(v)
      BY <1>5 DEF AcceptIntent, RowsChange
    <2> QED BY <1>1, <1>5, <2>1, RowsRequestStep
            DEF AcceptIntent, RequestPublication, local
  <1>6. ASSUME NEW v \in Versions, CompleteIntent(v) \/ CancelIntent(v)
        PROVE  LInv'
    <2>1. PICK t \in Terminal : EndIntent(v, t)
      BY <1>6 DEF CompleteIntent, CancelIntent, Terminal
    <2>2. RowsChange(v)
      BY <1>6, <2>1 DEF CompleteIntent, CancelIntent, Completable, Cancelable,
                        EndIntent, RowsChange
    <2> QED BY <1>1, <2>1, <2>2, RowsRequestStep
            DEF EndIntent, RequestPublication, local
  <1>7. CASE \E w \in Workers : ClaimDue(w)
    BY <1>1, <1>2, <1>7, ClaimedStep DEF ClaimDue
  <1>8. CASE \E a \in Activators : BeginActivation(a) \/ Activate(a)
    BY <1>1, <1>2, <1>8, ActivatedStep
  <1>9. ASSUME NEW p \in Procs, Reconcile(p) PROVE LInv'
    <2>1. pc[p] \in Reconciling
      BY <1>9, ReconcileKinds
    <2>2. CASE Continued(p)
      BY <1>1, <2>1, <2>2, WorkStep DEF Continued
    <2>3. CASE GivesUp(p)
      BY <1>1, <2>3, MoveStep DEF GivesUp
    <2>4. CASE Writes(p)
      BY <1>1, <2>4, ResultStep DEF Writes
    <2> QED BY <1>9, <2>2, <2>3, <2>4, ReconcileKinds
  <1>10. ASSUME NEW p \in Procs, Abandon(p) PROVE LInv'
    <2>1. \E l : Moves(p, l) /\ Leave(p, l)
      BY <1>2, <1>10, ReturnMoves DEF Abandon, Return, Moves
    <2> QED BY <1>1, <1>10, <2>1, MoveStep DEF Abandon
  <1>11. CASE ExpireLease \/ (\E m \in late : LateMutation(m)) \/ UNCHANGED vars
    BY <1>3, <1>11 DEF ExpireLease, LateMutation, local, vars
  <1> QED BY <1>4, <1>5, <1>6, <1>7, <1>8, <1>9, <1>10, <1>11
          DEF Next, Lifecycle

\* The invariant holds initially.
LEMMA InitLInv == Init => LInv
  <1> SUFFICES ASSUME Init PROVE LInv
    OBVIOUS
  <1>1. PICK s \in {"draft", "review", "accepted"} :
           rows = [v \in Versions |->
                     IF v = 1 THEN [status |-> s, rev |-> 0] ELSE NoRow]
    BY DEF Init
  <1>2. \A v \in Versions : rows[v].status \in {s, "none"}
    BY <1>1 DEF NoRow
  <1>3. RowsInv
    BY <1>2 DEF RowsInv, IsLatest
  <1>4. CallInv
    BY DEF Init, CallInv, NoCall
  <1>5. EndInv
    BY <1>2 DEF Init, EndInv, Ended, NoPublication, Terminal
  <1>6. DesiredInv
    BY DEF Init, DesiredInv, AsDesired, NoPublication, Reconciling
  <1>7. ActivationInv
    BY DEF Init, ActivationInv, NoPublication
  <1> QED BY <1>3, <1>4, <1>5, <1>6, <1>7 DEF LInv

\* Both invariants hold in every reachable state.
THEOREM LifecycleInvariance == Spec => [](IInv /\ LInv)
  <1>1. Init => IInv /\ LInv
    BY InitIInv, InitLInv
  <1>2. (IInv /\ LInv) /\ [Next]_vars => (IInv /\ LInv)'
    BY InvStep, LInvStep
  <1> QED BY <1>1, <1>2, PTL DEF Spec

\* Once the intent has ended, its desired external state is withdrawal.
THEOREM EndedStaysWithdrawn == Spec => []EndedIsWithdrawn
  <1>1. LInv => EndedIsWithdrawn
    BY DEF LInv, EndInv, Ended, EndedIsWithdrawn
  <1> QED BY <1>1, LifecycleInvariance, PTL

-----------------------------------------------------------------------------
(* The kinds of steps, told by what they do to the publication, the outbox  *)
(* and the DSS.                                                             *)

\* A step that concerns none of them, and starts no reconciliation.
Apart ==
    /\ UNCHANGED <<pub, outbox, dss, ovns, late>>
    /\ \A q \in Procs : pc'[q] \in Reconciling =>
          pc'[q] = pc[q] /\ job'[q] = job[q]

\* A request, by the transaction that changes the rows or by an activator.
Requests ==
    /\ \E v \in Versions, s \in ExternalState : pub' = Requested(v, s)
    /\ UNCHANGED <<outbox, dss, ovns, late, job>>
    /\ \A q \in Procs : pc'[q] \in Reconciling => pc'[q] = pc[q]
    /\ \/ \E v \in Versions : RowsChange(v)
       \/ \E a \in Activators : pc[a] \in {"backfill", "request", "comprequest"}

Claims ==
    \E p \in Procs :
        /\ Claim(p)
        /\ \/ p \in Activators /\ pc[p] = "reconcile"
           \/ pub.sync \in {"pending", "processing", "retrying"}

\* The rows change by one of their writes, given the latest version, or not.
LEMMA RowsKinds ==
    ASSUME IInv, LInv, [Next]_vars
    PROVE  UNCHANGED rows \/ \E v \in Versions : RowsChange(v)
  <1>1. ASSUME NEW v \in Versions,
               \/ SubmitIntent(v) \/ AcceptIntent(v) \/ ModifyIntent(v)
               \/ CompleteIntent(v) \/ CancelIntent(v)
        PROVE  RowsChange(v)
    BY <1>1 DEF SubmitIntent, AcceptIntent, ModifyIntent, CompleteIntent,
                CancelIntent, EndIntent, RowsChange, Submittable, Terminal,
                Completable, Cancelable
  <1>2. ASSUME NEW a \in Activators, Activate(a)
        PROVE  UNCHANGED rows \/ \E v \in Versions : RowsChange(v)
    <2>1. CASE CommitActivation(a)
      <3>1. /\ a \in Procs /\ call[a].ver \in Versions /\ Seen(call[a])
            /\ call[a].status = "accepted"
        BY <2>1 DEF Procs, CommitActivation, IInv, TypeOK, Call, LInv, CallInv
      <3> QED BY <2>1, <3>1
              DEF CommitActivation, Proceed, RowsChange, Unchanged, Seen
    <2>2. CASE ~CommitActivation(a)
      BY <1>2, <2>2
         DEF Activate, ReadPublication, BackfillAcceptance, RequestActivation,
             ClaimById, Claim, VerifyActivation, CompensateRead,
             CompensateDecide, CompensateRequest, RequestIfCurrent, Proceed
    <2> QED BY <2>1, <2>2
  <1>3. ASSUME NEW p \in Procs, Reconcile(p) PROVE UNCHANGED rows
    BY <1>3, ReconcileKinds DEF Continued, Works, GivesUp, Writes
  <1>4. CASE \/ \E w \in Workers : ClaimDue(w)
             \/ \E a \in Activators : BeginActivation(a)
             \/ \E p \in Procs : Abandon(p)
             \/ ExpireLease \/ (\E m \in late : LateMutation(m)) \/ UNCHANGED vars
    BY <1>4 DEF ClaimDue, Claim, BeginActivation, Abandon, ExpireLease,
                LateMutation, vars
  <1> QED BY <1>1, <1>2, <1>3, <1>4 DEF Next, Lifecycle

\* Every step of the system is of one of these kinds.
LEMMA StepKinds ==
    ASSUME IInv, LInv, [Next]_vars
    PROVE  \/ Apart \/ Requests \/ Claims
           \/ \E p \in Procs : pc[p] \in Reconciling /\ Continued(p)
           \/ \E p \in Procs : Writes(p)
           \/ \E m \in late : LateMutation(m)
  <1>1. /\ Workers \subseteq Procs /\ Activators \subseteq Procs
        /\ pc \in [Procs -> Labels] /\ job \in [Procs -> Publication]
        /\ \A p \in Procs : call[p] \in Call /\ call[p].mode \in Modes
    BY DEF Procs, IInv, TypeOK, Labels, Call
  <1>2. CASE \/ UNCHANGED vars \/ ExpireLease
             \/ \E v \in Versions : SubmitIntent(v) \/ ModifyIntent(v)
    BY <1>2 DEF vars, ExpireLease, SubmitIntent, ModifyIntent, external, local,
                Apart
  <1>3. ASSUME NEW v \in Versions,
               AcceptIntent(v) \/ CompleteIntent(v) \/ CancelIntent(v)
        PROVE  Requests
    <2>1. RowsChange(v)
      BY <1>3 DEF AcceptIntent, CompleteIntent, CancelIntent, EndIntent,
                  RowsChange, Terminal, Completable, Cancelable
    <2>2. \E s \in ExternalState : pub' = Requested(v, s)
      BY <1>3 DEF AcceptIntent, CompleteIntent, CancelIntent, EndIntent,
                  RequestPublication, ExternalState
    <2>3. UNCHANGED <<outbox, dss, ovns, late, job, pc>>
      BY <1>3 DEF AcceptIntent, CompleteIntent, CancelIntent, EndIntent,
                  external, local
    <2> QED BY <2>1, <2>2, <2>3 DEF Requests
  <1>4. ASSUME NEW w \in Workers, ClaimDue(w) PROVE Claims
    BY <1>1, <1>4 DEF ClaimDue, Claims
  <1>5. ASSUME NEW p \in Procs, NEW l, l \notin Reconciling,
               Leave(p, l) \/ (Goto(p, l) /\ UNCHANGED job),
               UNCHANGED <<pub, outbox, external>>
        PROVE  Apart
    BY <1>1, <1>5 DEF Leave, Goto, Apart, external
  <1>6. ASSUME NEW a \in Activators, NEW v \in Versions,
               NEW s \in ExternalState, NEW mode,
               pc[a] \in {"backfill", "request", "comprequest"},
               RequestIfCurrent(a, v, s, mode)
        PROVE  Apart \/ Requests
    <2>1. CASE Proceed(a, "idle")
      BY <1>1, <1>5, <2>1 DEF Proceed, Reconciling
    <2>2. CASE /\ RequestPublication(v, s) /\ Goto(a, "reconcile")
               /\ UNCHANGED <<rows, lease, external, outbox, job, budget>>
      BY <1>1, <1>6, <2>2 DEF RequestPublication, Requests, Goto, external,
                              Reconciling
    <2> QED BY <1>6, <2>1, <2>2 DEF RequestIfCurrent
  <1>7. ASSUME NEW a \in Activators, BeginActivation(a) \/ Activate(a)
        PROVE  Apart \/ Requests \/ Claims
    <2>1. a \in Procs /\ call[a] \in Call
      BY <1>1
    <2>2. {"idle", "getpub", "backfill", "request", "verify", "commit",
           "compensate", "comppub", "comprequest"} \cap Reconciling = {}
      BY DEF Reconciling
    <2>3. CASE BeginActivation(a)
      BY <1>5, <2>1, <2>2, <2>3 DEF BeginActivation
    <2>4. CASE ReadPublication(a)
      <3>1. \E l \in {"backfill", "request", "commit", "idle"} : Proceed(a, l)
        BY <2>4 DEF ReadPublication
      <3> QED BY <1>5, <2>1, <2>2, <3>1 DEF Proceed
    <2>5. CASE BackfillAcceptance(a) \/ RequestActivation(a)
               \/ CompensateRequest(a)
      BY <1>6, <2>1, <2>5
         DEF BackfillAcceptance, RequestActivation, CompensateRequest, Call,
             ExternalState
    <2>6. CASE ClaimById(a)
      <3>1. ReturnTo(call[a].mode, FALSE) \notin Reconciling
        BY <2>2 DEF ReturnTo
      <3> QED BY <1>5, <2>1, <2>6, <3>1 DEF ClaimById, Claims, Return
    <2>7. CASE VerifyActivation(a)
      BY <1>5, <2>1, <2>2, <2>7 DEF VerifyActivation, Proceed
    <2>8. CASE CommitActivation(a)
      BY <1>5, <2>1, <2>2, <2>8 DEF CommitActivation, Proceed
    <2>9. CASE CompensateRead(a)
      <3>1. \/ Proceed(a, "idle")
            \/ Goto(a, "comppub") /\ UNCHANGED <<pub, outbox, external, job>>
        BY <2>9 DEF CompensateRead
      <3> QED BY <1>5, <2>1, <2>2, <3>1 DEF Proceed
    <2>10. CASE CompensateDecide(a)
      <3>1. \/ Proceed(a, "idle")
            \/ Goto(a, "comprequest") /\ UNCHANGED <<pub, outbox, external, job>>
        BY <2>10 DEF CompensateDecide
      <3> QED BY <1>5, <2>1, <2>2, <3>1 DEF Proceed
    <2> QED BY <1>7, <2>3, <2>4, <2>5, <2>6, <2>7, <2>8, <2>9, <2>10
            DEF Activate
  <1>8. ASSUME NEW p \in Procs, Reconcile(p)
        PROVE  \/ pc[p] \in Reconciling /\ Continued(p)
               \/ Writes(p) \/ Apart
    <2>1. CASE GivesUp(p)
      <3>1. PICK l : Moves(p, l) /\ Leave(p, l)
        BY <2>1 DEF GivesUp
      <3>2. l \notin Reconciling
        BY <3>1 DEF Moves, Reconciling
      <3> QED BY <1>5, <2>1, <3>1, <3>2 DEF GivesUp
    <2> QED BY <1>8, <2>1, ReconcileKinds
  <1>9. ASSUME NEW p \in Procs, Abandon(p) PROVE Apart
    <2>1. \E l : l \notin Reconciling /\ Leave(p, l)
      BY <1>1, <1>9 DEF Abandon, Return, ReturnTo, Reconciling
    <2> QED BY <1>5, <1>9, <2>1 DEF Abandon
  <1> QED BY <1>2, <1>3, <1>4, <1>7, <1>8, <1>9 DEF Next, Lifecycle

\* An ended intent stays ended.
LEMMA EndedStays ==
    ASSUME IInv, LInv, [Next]_vars, pub.desState = "Withdrawn"
    PROVE  pub'.desState = "Withdrawn"
  <1>1. LInv' /\ Ended
    BY LInvStep DEF LInv, EndInv
  <1>2. UNCHANGED rows
    <2>1. ASSUME NEW v \in Versions, RowsChange(v) PROVE FALSE
      <3>1. rows[v].status \notin Terminal /\ IsLatest(rows, v)
        BY <2>1, RowsStatuses DEF IInv, LInv, RowsChange
      <3> QED BY <1>1, <3>1, OneLatest DEF Ended
    <2> QED BY <2>1, RowsKinds
  <1>3. Ended'
    BY <1>1, <1>2 DEF Ended
  <1> QED BY <1>1, <1>3 DEF LInv, EndInv

\* A result never replaces a desired state requested meanwhile.
THEOREM StaleResults == Spec => StaleResultsRejected
  <1> DEFINE Fresh == <<pub.desVer, pub.desState>>' # <<pub.desVer, pub.desState>>
                         => pub'.sync = "pending"
  <1>1. ASSUME IInv, LInv, [Next]_vars PROVE [Fresh]_vars
    <2>1. pub \in Publication /\ \A p \in Procs : job[p] \in Publication
      BY <1>1 DEF IInv, TypeOK
    <2>2. CASE UNCHANGED pub
      BY <2>2
    <2>3. CASE Requests
      BY <2>1, <2>3 DEF Requests, Requested, Publication
    <2>4. CASE Claims
      BY <2>1, <2>4 DEF Claims, Claim, Claimed, Publication
    <2>5. ASSUME NEW p \in Procs, Writes(p) PROVE Fresh
      BY <1>1, <2>1, <2>5
         DEF Writes, IInv, OwnerInv, Owner, Reconciling, Publication
    <2> QED BY <1>1, <2>2, <2>3, <2>4, <2>5, StepKinds
            DEF Apart, Continued, Works, LateMutation
  <1> QED BY <1>1, LifecycleInvariance, PTL DEF Spec, StaleResultsRejected

-----------------------------------------------------------------------------
(* Announcements.                                                          *)

\* A reference has a version and an OVN.
ReferenceInv == dss.state # "absent" => dss.ver > 0 /\ dss.ovn > 0

\* Until withdrawal is desired nobody deletes the reference, so that its
\* version only grows and is the greatest one announced.
KeptInv ==
    pub.desState # "Withdrawn" =>
        /\ \A m \in late : m.state # "Withdrawn"
        /\ \A p \in Procs : pc[p] \in Reconciling =>
              job[p].desState # "Withdrawn"
        /\ \A n \in outbox : n.dssVer > 0 /\ n.dssVer <= dss.ver

\* What is announced under the version that is confirmed, or about to be.
ConfirmedNotes ==
    /\ \A p \in Procs : Owner(p) /\ job[p].sync = "confirmed" =>
          \A n \in outbox : n.dssVer < job[p].dssVer
    /\ pub.sync = "confirmed" =>
          {n \in outbox : n.dssVer = pub.dssVer}
              = {[dssVer |-> pub.dssVer, ver |-> pub.pubVer]}

\* As long as references are announced and no withdrawal is, their OVN is known.
Pending == outbox # {} /\ \A n \in outbox : n.dssVer > 0

WithdrawalNotes ==
    Pending =>
        /\ pub.ovn # 0 /\ pub.sync # "withdrawn"
        /\ \A p \in Procs : Owner(p) => job[p].ovn # 0

AnnounceInv == ReferenceInv /\ KeptInv /\ ConfirmedNotes /\ WithdrawalNotes

\* What a mutation makes of the reference.
LEMMA MutateFacts ==
    ASSUME TypeOK, NEW m, m.state # "Withdrawn", Mutate(m)
    PROVE  dss'.ver = dss.ver + 1 /\ dss.ver \in Nat /\ dss'.ovn = ovns + 1
           /\ ovns \in Nat
  BY DEF TypeOK, Reference, Mutate, Mutated

\* A step that starts no reconciliation and changes no record keeps the
\* invariant, and so does a late request.
LEMMA QuietNotes ==
    ASSUME IInv, LInv, IInv', LInv', AnnounceInv, [Next]_vars,
           UNCHANGED <<pub, outbox>>, late' \subseteq late,
           \A q \in Procs : pc'[q] \in Reconciling =>
               pc'[q] = pc[q] /\ job'[q] = job[q],
           \/ UNCHANGED <<dss, ovns>>
           \/ \E m \in late : Mutate(m)
    PROVE  AnnounceInv'
  <1>1. TypeOK /\ dss \in Reference /\ outbox \subseteq Notification
    BY DEF IInv, TypeOK
  <1>2. \A m \in late : Mutate(m) =>
           \/ dss'.state = "absent"
           \/ /\ m.state # "Withdrawn" /\ dss'.ver = dss.ver + 1
              /\ dss.ver \in Nat /\ dss'.ovn = ovns + 1 /\ ovns \in Nat
    BY <1>1, MutateFacts DEF Mutate, Mutated, NoReference
  <1>3. ReferenceInv'
    BY <1>2 DEF AnnounceInv, ReferenceInv
  <1>4. KeptInv'
    <2> SUFFICES ASSUME pub.desState # "Withdrawn"
                 PROVE  /\ \A m \in late' : m.state # "Withdrawn"
                        /\ \A p \in Procs : pc'[p] \in Reconciling =>
                              job'[p].desState # "Withdrawn"
                        /\ \A n \in outbox : n.dssVer > 0 /\ n.dssVer <= dss'.ver
      BY DEF KeptInv
    <2>1. /\ \A m \in late : m.state # "Withdrawn"
          /\ \A p \in Procs : pc[p] \in Reconciling =>
                job[p].desState # "Withdrawn"
          /\ \A n \in outbox : n.dssVer > 0 /\ n.dssVer <= dss.ver
      BY DEF AnnounceInv, KeptInv
    <2>2. dss'.ver \in Nat /\ dss.ver \in Nat /\ dss.ver <= dss'.ver
      BY <1>1, <2>1, MutateFacts DEF Reference
    <2>3. \A n \in outbox : n.dssVer \in Nat
      BY <1>1 DEF Notification
    <2> QED BY <2>1, <2>2, <2>3
  <1>5. \A q \in Procs : Owner(q)' => Owner(q) /\ job'[q] = job[q]
    BY DEF Owner
  <1>6. ConfirmedNotes' /\ WithdrawalNotes'
    BY <1>5 DEF AnnounceInv, ConfirmedNotes, WithdrawalNotes, Pending
  <1> QED BY <1>3, <1>4, <1>6 DEF AnnounceInv

\* A request resets the OVN only after a withdrawal, which is announced.
LEMMA RequestNotes ==
    ASSUME IInv, LInv, IInv', LInv', AnnounceInv, [Next]_vars, Requests
    PROVE  AnnounceInv'
  <1>1. PICK v \in Versions, s \in ExternalState : pub' = Requested(v, s)
    BY DEF Requests
  <1>2. /\ pub'.sync = "pending"
        /\ pub.sync # "withdrawn" => pub'.ovn = pub.ovn
        /\ \A p \in Procs : ~Owner(p)'
    <2>1. pub'.sync = "pending" /\ \A p \in Procs : ~Owner(p)'
      BY <1>1, RequestFacts
    <2>2. pub \in Publication
      BY DEF IInv, TypeOK
    <2>3. pub.sync # "withdrawn" => pub'.ovn = pub.ovn
      BY <1>1, <2>2 DEF Publication, Requested
    <2> QED BY <2>1, <2>3
  <1>3. ReferenceInv'
    BY DEF Requests, AnnounceInv, ReferenceInv
  <1>4. KeptInv'
    BY EndedStays DEF Requests, AnnounceInv, KeptInv
  <1>5. ConfirmedNotes'
    BY <1>2 DEF ConfirmedNotes
  <1>6. WithdrawalNotes'
    BY <1>2 DEF Requests, AnnounceInv, WithdrawalNotes, Pending
  <1> QED BY <1>3, <1>4, <1>5, <1>6 DEF AnnounceInv

\* A claim announces nothing.
LEMMA ClaimNotes ==
    ASSUME IInv, LInv, IInv', LInv', AnnounceInv, [Next]_vars, Claims
    PROVE  AnnounceInv'
  <1>1. PICK p \in Procs : Claim(p)
    BY DEF Claims
  <1>2. /\ pc'[p] = "claimed" /\ job'[p] = pub' /\ UNCHANGED <<outbox, external>>
        /\ \A q \in Procs \ {p} : pc'[q] = pc[q] /\ job'[q] = job[q]
        /\ pub'.sync = "processing" /\ pub'.ovn = pub.ovn
        /\ pub'.desState = pub.desState /\ pub'.rev = pub.rev + 1
    BY <1>1 DEF Claim, Claimed, Goto, IInv, TypeOK, Publication
  <1>3. \A q \in Procs : Owner(q)' => q = p
    <2>1. Owner(p)'
      BY <1>2 DEF Owner, Reconciling
    <2> QED BY <2>1 DEF Owner, IInv, RevisionInv
  <1>4. ReferenceInv' /\ KeptInv'
    BY <1>2 DEF AnnounceInv, ReferenceInv, KeptInv, external
  <1>5. ConfirmedNotes' /\ WithdrawalNotes'
    BY <1>2, <1>3 DEF AnnounceInv, ConfirmedNotes, WithdrawalNotes, Pending
  <1> QED BY <1>4, <1>5 DEF AnnounceInv

\* A step inside the reconciler.
LEMMA WorkNotes ==
    ASSUME IInv, LInv, IInv', LInv', AnnounceInv, [Next]_vars,
           NEW p \in Procs, pc[p] \in Reconciling, Continued(p)
    PROVE  AnnounceInv'
  <1>1. PICK j, l : /\ l \in Reconciling
                    /\ Works(p, j, l) /\ Follows(p, j, l) /\ Effect(p, j, l)
    BY DEF Continued
  <1>2. /\ pc'[p] = l /\ job'[p] = j /\ UNCHANGED <<pub, outbox>>
        /\ \A q \in Procs \ {p} : pc'[q] = pc[q] /\ job'[q] = job[q]
    BY <1>1 DEF Works, IInv, TypeOK
  <1>3. /\ TypeOK /\ dss \in Reference /\ outbox \subseteq Notification
        /\ ovns \in Nat /\ job[p] \in Publication
    BY DEF IInv, TypeOK
  <1> DEFINE m == MutationOf(job[p])
  <1>4. m.state = job[p].desState
    BY DEF MutationOf
  <1> HIDE DEF m
  <1>5. Mutate(m) =>
           \/ m.state = "Withdrawn" /\ dss'.state = "absent"
           \/ /\ m.state # "Withdrawn" /\ dss'.ver = dss.ver + 1
              /\ dss.ver \in Nat /\ dss'.ovn = ovns + 1
    BY <1>3, MutateFacts DEF Mutate, Mutated, NoReference
  <1>6. UNCHANGED dss \/ Mutate(m)
    BY <1>1 DEF Effect, m
  <1>7. ReferenceInv'
    BY <1>3, <1>5, <1>6 DEF AnnounceInv, ReferenceInv
  <1>8. KeptInv'
    <2> SUFFICES ASSUME pub.desState # "Withdrawn"
                 PROVE  /\ \A n \in late' : n.state # "Withdrawn"
                        /\ \A q \in Procs : pc'[q] \in Reconciling =>
                              job'[q].desState # "Withdrawn"
                        /\ \A n \in outbox : n.dssVer > 0 /\ n.dssVer <= dss'.ver
      BY <1>2 DEF KeptInv
    <2>1. /\ \A n \in late : n.state # "Withdrawn"
          /\ \A q \in Procs : pc[q] \in Reconciling =>
                job[q].desState # "Withdrawn"
          /\ \A n \in outbox : n.dssVer > 0 /\ n.dssVer <= dss.ver
      BY DEF AnnounceInv, KeptInv
    <2>2. late' \subseteq late \cup {m} /\ m.state # "Withdrawn"
      BY <1>1, <1>4, <2>1 DEF Effect, m
    <2>3. dss'.ver \in Nat /\ dss.ver \in Nat /\ dss.ver <= dss'.ver
      BY <1>3, <1>5, <1>6, <2>2 DEF Reference
    <2>4. \A n \in outbox : n.dssVer \in Nat
      BY <1>3 DEF Notification
    <2>5. j.desState # "Withdrawn"
      BY <1>1, <2>1 DEF Follows
    <2> QED BY <1>2, <2>1, <2>2, <2>3, <2>4, <2>5
  <1>9. \A q \in Procs : Owner(q)' <=> Owner(q)
    BY <1>1, <1>2 DEF Owner, Follows
  <1>10. ASSUME Owner(p), j.sync = "confirmed"
         PROVE  \A n \in outbox : n.dssVer < j.dssVer
    <2>1. job[p].desState # "Withdrawn" /\ j.dssVer = dss.ver + 1
      BY <1>1, <1>10 DEF Effect
    <2>2. pub.desState # "Withdrawn"
      BY <1>10, <2>1 DEF IInv, OwnerInv
    <2>3. \A n \in outbox : n.dssVer <= dss.ver /\ n.dssVer \in Nat
      BY <1>3, <2>2 DEF AnnounceInv, KeptInv, Notification
    <2>4. dss.ver \in Nat
      BY <1>3 DEF Reference
    <2> QED BY <2>1, <2>3, <2>4
  <1>11. ConfirmedNotes'
    BY <1>2, <1>9, <1>10 DEF AnnounceInv, ConfirmedNotes
  <1>12. ASSUME job[p].ovn # 0 PROVE j.ovn # 0
    <2>1. \/ j.ovn = job[p].ovn \/ (dss.state # "absent" /\ j.ovn = dss.ovn)
          \/ j.ovn = ovns + 1
      BY <1>1 DEF Effect
    <2> QED BY <1>3, <1>12, <2>1 DEF AnnounceInv, ReferenceInv, Reference
  <1>13. WithdrawalNotes'
    BY <1>2, <1>9, <1>12 DEF AnnounceInv, WithdrawalNotes, Pending
  <1> QED BY <1>7, <1>8, <1>11, <1>13 DEF AnnounceInv

\* The owner writes its result and enqueues its notification.
LEMMA WriteNotes ==
    ASSUME IInv, LInv, IInv', LInv', AnnounceInv, [Next]_vars,
           NEW p \in Procs, Writes(p)
    PROVE  AnnounceInv'
  <1>1. Owner(p) /\ pc[p] \in Reconciling
    BY DEF Owner, Writes, Reconciling
  <1>2. PICK l : l \notin Reconciling /\ Leave(p, l)
    BY DEF Writes, Moves, Reconciling
  <1>3. /\ pc'[p] = l /\ \A q \in Procs \ {p} : pc'[q] = pc[q] /\ job'[q] = job[q]
        /\ UNCHANGED <<dss, ovns, late>>
    BY <1>2 DEF Writes, Leave, IInv, TypeOK, external
  <1>4. /\ pub'.sync = job[p].sync /\ pub'.ovn = job[p].ovn
        /\ pub'.pubVer = job[p].pubVer /\ pub'.dssVer = job[p].dssVer
        /\ pub'.desState = pub.desState /\ job[p].desState = pub.desState
    BY <1>1 DEF Writes, IInv, TypeOK, Publication, OwnerInv
  <1>5. \A q \in Procs : ~Owner(q)'
    <2>1. pub'.rev = pub.rev + 1 /\ pub.rev \in Nat
      BY DEF Writes, IInv, TypeOK, Publication
    <2> QED BY <1>2, <1>3, <2>1 DEF IInv, TypeOK, Publication, RevisionInv,
                                    Owner
  <1>6. /\ dss \in Reference /\ outbox \subseteq Notification
        /\ job[p] \in Publication
    BY DEF IInv, TypeOK
  <1> DEFINE note == [dssVer |-> job[p].dssVer, ver |-> job[p].pubVer]
  <1>7. ASSUME job[p].sync = "confirmed"
        PROVE  /\ outbox' = outbox \cup {note}
               /\ \A n \in outbox : n.dssVer < note.dssVer
               /\ note.dssVer = dss.ver /\ job[p].ovn = dss.ovn
               /\ dss.state # "absent"
    <2>1. \A n \in outbox : n.dssVer < note.dssVer
      BY <1>1, <1>7 DEF AnnounceInv, ConfirmedNotes
    <2>2. \A n \in outbox : ~SameId(n, note)
      BY <1>6, <2>1 DEF SameId, Notification, Publication
    <2>3. outbox' = outbox \cup {note}
      BY <1>7, <2>2 DEF Writes, Enqueued, Notifications
    <2>4. Holds(job[p])
      BY <1>1, <1>7 DEF IInv, ConfirmedInv
    <2> QED BY <2>1, <2>3, <2>4 DEF Holds
  <1>8. ReferenceInv'
    BY <1>3 DEF AnnounceInv, ReferenceInv
  <1>9. KeptInv'
    <2> SUFFICES ASSUME pub.desState # "Withdrawn"
                 PROVE  /\ \A n \in late' : n.state # "Withdrawn"
                        /\ \A q \in Procs : pc'[q] \in Reconciling =>
                              job'[q].desState # "Withdrawn"
                        /\ \A n \in outbox' : n.dssVer > 0 /\ n.dssVer <= dss.ver
      BY <1>3, <1>4 DEF KeptInv
    <2>1. /\ \A n \in late : n.state # "Withdrawn"
          /\ \A q \in Procs : pc[q] \in Reconciling =>
                job[q].desState # "Withdrawn"
          /\ \A n \in outbox : n.dssVer > 0 /\ n.dssVer <= dss.ver
      BY DEF AnnounceInv, KeptInv
    <2>2. CASE job[p].sync = "confirmed"
      <3>1. note.dssVer > 0 /\ note.dssVer <= dss.ver
        BY <1>6, <1>7, <2>2 DEF AnnounceInv, ReferenceInv, Reference
      <3> QED BY <1>2, <1>3, <1>7, <2>1, <2>2, <3>1
    <2>3. CASE job[p].sync # "confirmed"
      <3>1. job[p].sync # "withdrawn"
        BY <1>1, <1>4 DEF LInv, DesiredInv, AsDesired
      <3>2. outbox' = outbox
        BY <2>3, <3>1 DEF Writes, Enqueued, Notifications
      <3> QED BY <1>2, <1>3, <2>1, <3>2
    <2> QED BY <2>2, <2>3
  <1>10. ConfirmedNotes'
    <2>1. ASSUME job[p].sync = "confirmed"
          PROVE  {n \in outbox' : n.dssVer = job[p].dssVer} = {note}
      <3>1. \A n \in outbox : n.dssVer # job[p].dssVer
        BY <1>6, <1>7, <2>1 DEF Notification, Publication
      <3> QED BY <1>7, <2>1, <3>1
    <2> QED BY <1>4, <1>5, <2>1 DEF ConfirmedNotes
  <1>11. WithdrawalNotes'
    <2> SUFFICES ASSUME Pending'
                 PROVE  job[p].ovn # 0 /\ job[p].sync # "withdrawn"
      BY <1>4, <1>5 DEF WithdrawalNotes
    <2>1. CASE job[p].sync = "confirmed"
      BY <1>6, <1>7, <2>1 DEF AnnounceInv, ReferenceInv, Reference
    <2>2. CASE job[p].sync = "withdrawn" /\ job[p].ovn # 0
      <3> DEFINE gone == [dssVer |-> 0, ver |-> job[p].desVer]
      <3>1. outbox' = outbox \cup
               {n \in {gone} : \A m \in outbox : ~SameId(m, n)}
        BY <2>2 DEF Writes, Enqueued, Notifications
      <3>2. \E n \in outbox' : n.dssVer = 0
        <4>1. CASE \E m \in outbox : SameId(m, gone)
          BY <3>1, <4>1 DEF SameId
        <4>2. CASE \A m \in outbox : ~SameId(m, gone)
          <5>1. gone \in outbox'
            BY <3>1, <4>2
          <5> QED BY <5>1
        <4> QED BY <4>1, <4>2
      <3> QED BY <3>2 DEF Pending
    <2>3. CASE /\ job[p].sync # "confirmed"
               /\ ~(job[p].sync = "withdrawn" /\ job[p].ovn # 0)
      <3>1. outbox' = outbox
        BY <2>3 DEF Writes, Enqueued, Notifications
      <3> QED BY <1>1, <2>3, <3>1 DEF AnnounceInv, WithdrawalNotes, Pending
    <2> QED BY <2>1, <2>2, <2>3
  <1> QED BY <1>8, <1>9, <1>10, <1>11 DEF AnnounceInv

\* Every step keeps the invariant of the announcements.
LEMMA AnnounceStep ==
    IInv /\ LInv /\ AnnounceInv /\ [Next]_vars => AnnounceInv'
  <1> SUFFICES ASSUME IInv, LInv, AnnounceInv, [Next]_vars PROVE AnnounceInv'
    OBVIOUS
  <1>1. IInv' /\ LInv'
    BY InvStep, LInvStep
  <1>2. CASE Apart
    BY <1>1, <1>2, QuietNotes DEF Apart
  <1>3. CASE \E m \in late : LateMutation(m)
    BY <1>1, <1>3, QuietNotes DEF LateMutation, local
  <1> QED BY <1>1, <1>2, <1>3, StepKinds, RequestNotes, ClaimNotes, WorkNotes,
             WriteNotes

\* Peers hear of every change before it is recorded as done.
THEOREM Announced == Spec => []ChangesAreAnnounced
  <1>1. Init => AnnounceInv
    BY DEF Init, AnnounceInv, ReferenceInv, KeptInv, ConfirmedNotes,
           WithdrawalNotes, Pending, NoReference, NoPublication, Owner,
           Reconciling
  <1>2. IInv /\ AnnounceInv => ChangesAreAnnounced
    <2> SUFFICES ASSUME IInv, AnnounceInv PROVE ChangesAreAnnounced
      OBVIOUS
    <2>1. \A n \in outbox : n.dssVer \in Nat
      BY DEF IInv, TypeOK, Notification
    <2> QED BY <2>1 DEF AnnounceInv, ConfirmedNotes, WithdrawalNotes, Pending,
                        ChangesAreAnnounced
  <1>3. Spec => []AnnounceInv
    BY <1>1, AnnounceStep, LifecycleInvariance, PTL DEF Spec
  <1> QED BY <1>2, <1>3, LifecycleInvariance, PTL

-----------------------------------------------------------------------------
(* Withdrawal.                                                             *)

\* Without late requests, a withdrawal that is recorded or about to be leaves
\* no reference.
AbsenceInv ==
    /\ late = {} /\ budget["late"] = 0
    /\ pub.sync = "withdrawn" =>
          dss.state = "absent" /\ \A p \in Procs : ~Mutating(p)
    /\ \A p \in Procs :
          Owner(p) /\ (job[p].sync = "withdrawn" \/ pc[p] = "recover") =>
              dss.state = "absent"

\* A step spends from one bound or from none.
LEMMA BudgetStep ==
    ASSUME [Next]_vars
    PROVE  UNCHANGED budget \/ \E k \in BudgetKinds : Spend(k)
  <1>1. {"faults", "late", "edits", "activations"} = BudgetKinds
    BY DEF BudgetKinds
  <1>2. CASE Lifecycle
    BY <1>1, <1>2 DEF Lifecycle, SubmitIntent, AcceptIntent, ModifyIntent,
                      CompleteIntent, CancelIntent, EndIntent
  <1>3. ASSUME NEW a, BeginActivation(a) \/ Activate(a) \/ ClaimDue(a)
        PROVE  UNCHANGED budget \/ \E k \in BudgetKinds : Spend(k)
    BY <1>1, <1>3
       DEF BeginActivation, Activate, ClaimDue, ReadPublication,
           BackfillAcceptance, RequestActivation, ClaimById, Claim,
           VerifyActivation, CommitActivation, CompensateRead,
           CompensateDecide, CompensateRequest, RequestIfCurrent, Proceed
  <1>4. ASSUME NEW p, LookUp(p) \/ Check(p) \/ RenewLease(p) \/ Publish(p)
                      \/ Withdraw(p) \/ MutationFails(p) \/ ReadBack(p)
                      \/ RecoverWithdrawal(p) \/ WriteResult(p) \/ Abandon(p)
        PROVE  UNCHANGED budget \/ \E k \in BudgetKinds : Spend(k)
    BY <1>1, <1>4
       DEF LookUp, Check, RenewLease, Publish, Withdraw, MutationFails,
           ReadBack, RecoverWithdrawal, WriteResult, Abandon
  <1>5. CASE ExpireLease \/ (\E m \in late : LateMutation(m)) \/ UNCHANGED vars
    BY <1>1, <1>5 DEF ExpireLease, LateMutation, vars
  <1> QED BY <1>2, <1>3, <1>4, <1>5 DEF Next, Reconcile

\* Every step keeps the invariant of withdrawals.
LEMMA AbsenceStep ==
    IInv /\ LInv /\ AbsenceInv /\ [Next]_vars => AbsenceInv'
  <1> SUFFICES ASSUME IInv, LInv, AbsenceInv, [Next]_vars PROVE AbsenceInv'
    OBVIOUS
  <1>1. IInv' /\ LInv'
    BY InvStep, LInvStep
  <1>2. TypeOK /\ pub \in Publication
    BY DEF IInv, TypeOK
  <1>3. budget'["late"] = 0 /\ ~Spend("late")
    <2>1. budget \in [BudgetKinds -> Nat] /\ "late" \in BudgetKinds
          /\ budget["late"] = 0
      BY <1>2 DEF TypeOK, BudgetKinds, AbsenceInv
    <2>2. ~Spend("late")
      BY <2>1 DEF Spend
    <2>3. ASSUME NEW k \in BudgetKinds, Spend(k) PROVE budget'["late"] = 0
      BY <2>1, <2>2, <2>3 DEF Spend
    <2> QED BY <2>1, <2>2, <2>3, BudgetStep
  <1>4. CASE Apart
    <2>1. \A q \in Procs : /\ Mutating(q)' => Mutating(q)
                           /\ Owner(q)' => /\ Owner(q) /\ pc'[q] = pc[q]
                                           /\ job'[q] = job[q]
      BY <1>4 DEF Apart, Mutating, Owner, Reconciling
    <2> QED BY <1>3, <1>4, <2>1 DEF Apart, AbsenceInv
  <1>5. CASE Requests
    <2>1. pub'.sync = "pending" /\ \A p \in Procs : ~Owner(p)'
      BY <1>1, <1>5, RequestFacts DEF Requests
    <2> QED BY <1>3, <1>5, <2>1 DEF Requests, AbsenceInv
  <1>6. CASE Claims
    <2>1. PICK p \in Procs : Claim(p)
      BY <1>6 DEF Claims
    <2>2. /\ pc'[p] = "claimed" /\ job'[p] = pub' /\ UNCHANGED external
          /\ pub'.sync = "processing"
      BY <1>2, <2>1 DEF Claim, Claimed, Goto, TypeOK, Publication
    <2>3. \A q \in Procs : Owner(q)' => q = p
      <3>1. Owner(p)'
        BY <2>2 DEF Owner, Reconciling
      <3> QED BY <1>1, <3>1 DEF Owner, IInv, RevisionInv
    <2> QED BY <1>3, <2>2, <2>3 DEF AbsenceInv, external
  <1>7. ASSUME NEW p \in Procs, pc[p] \in Reconciling, Continued(p)
        PROVE  AbsenceInv'
    <2>1. PICK j, l : /\ l \in Reconciling
                      /\ Works(p, j, l) /\ Follows(p, j, l) /\ Effect(p, j, l)
      BY <1>7 DEF Continued
    <2>2. /\ pc'[p] = l /\ job'[p] = j /\ UNCHANGED <<pub, outbox>>
          /\ \A q \in Procs \ {p} : pc'[q] = pc[q] /\ job'[q] = job[q]
      BY <1>2, <2>1 DEF Works, TypeOK
    <2>3. \A q \in Procs : Owner(q)' <=> Owner(q)
      BY <1>7, <2>1, <2>2 DEF Owner, Follows
    <2>4. late' = {} /\ (UNCHANGED dss \/ Mutating(p))
      BY <1>3, <2>1 DEF Effect, AbsenceInv
    <2>5. ASSUME pub.sync = "withdrawn"
          PROVE  dss'.state = "absent" /\ \A q \in Procs : ~Mutating(q)'
      <3>1. dss.state = "absent" /\ \A q \in Procs : ~Mutating(q)
        BY <2>5 DEF AbsenceInv
      <3>2. ~Owner(p)
        BY <2>5 DEF IInv, OwnerInv
      <3>3. l # "mutating"
        BY <1>7, <2>1, <3>2 DEF Follows, Owner
      <3> QED BY <2>2, <2>4, <3>1, <3>3 DEF Mutating
    <2>6. ASSUME NEW q \in Procs, Owner(q),
                 job'[q].sync = "withdrawn" \/ pc'[q] = "recover"
          PROVE  dss'.state = "absent"
      <3>1. CASE q # p
        <4>1. UNCHANGED dss
          BY <2>4, <2>6, <3>1, MutatorAlone
        <4> QED BY <2>2, <2>6, <3>1, <4>1 DEF AbsenceInv
      <3>2. CASE q = p
        <4>1. CASE UNCHANGED dss /\ (dss.state = "absent" \/ pc[p] = "recover")
          BY <2>6, <3>2, <4>1 DEF AbsenceInv
        <4>2. CASE /\ Mutate(MutationOf(job[p]))
                   /\ job[p].desState = "Withdrawn"
          BY <4>2 DEF Mutate, Mutated, MutationOf, NoReference
        <4> QED BY <1>3, <2>1, <2>2, <2>6, <3>2, <4>1, <4>2 DEF Effect
      <3> QED BY <3>1, <3>2
    <2> QED BY <1>3, <2>2, <2>3, <2>4, <2>5, <2>6 DEF AbsenceInv
  <1>8. ASSUME NEW p \in Procs, Writes(p) PROVE AbsenceInv'
    <2>1. Owner(p)
      BY <1>8 DEF Owner, Writes, Reconciling
    <2>2. PICK l : l \notin Reconciling /\ Leave(p, l)
      BY <1>8 DEF Writes, Moves, Reconciling
    <2>3. /\ pc'[p] = l /\ UNCHANGED <<dss, ovns, late>>
          /\ \A q \in Procs \ {p} : pc'[q] = pc[q] /\ job'[q] = job[q]
      BY <1>2, <1>8, <2>2 DEF Writes, Leave, TypeOK, external
    <2>4. pub'.sync = job[p].sync /\ pub'.rev = pub.rev + 1 /\ pub.rev \in Nat
      BY <1>2, <1>8 DEF Writes, TypeOK, Publication
    <2>5. \A q \in Procs : ~Owner(q)'
      BY <1>2, <2>2, <2>3, <2>4 DEF IInv, TypeOK, Publication, RevisionInv, Owner
    <2>6. \A q \in Procs : ~Mutating(q)'
      BY <2>1, <2>2, <2>3, ProcessesAssumption
         DEF IInv, LeaseInv, Mutating, Procs, Reconciling
    <2> QED BY <1>3, <2>1, <2>3, <2>4, <2>5, <2>6 DEF AbsenceInv
  <1>9. ~\E m \in late : LateMutation(m)
    BY DEF AbsenceInv
  <1> QED BY <1>4, <1>5, <1>6, <1>7, <1>8, <1>9, StepKinds

\* A publication recorded as withdrawn has no reference left in the DSS,
\* provided that no request outlives its call.
THEOREM WithdrawnLeavesNothing ==
    ASSUME MaxLate = 0
    PROVE  Spec => []WithdrawnIsAbsent
  <1>1. Init => AbsenceInv
    BY DEF Init, AbsenceInv, NoPublication, BudgetKinds, Owner, Reconciling
  <1>2. AbsenceInv => WithdrawnIsAbsent
    BY DEF AbsenceInv, WithdrawnIsAbsent
  <1> QED BY <1>1, <1>2, AbsenceStep, LifecycleInvariance, PTL DEF Spec

-----------------------------------------------------------------------------
(* Activation.                                                             *)

\* While a version is active, or about to be, its activation is confirmed,
\* and no activator is at work.
ActivatedAs(v) ==
    pub.sync = "confirmed" /\ pub.confState = "Activated" /\ pub.pubVer = v

ActiveInv ==
    /\ \A v \in Versions : rows[v].status = "active" =>
          ActivatedAs(v) /\ \A a \in Activators : pc[a] = "idle"
    /\ \A a \in Activators :
          pc[a] = "commit" /\ Unchanged(rows, call[a].ver, call[a].rev) =>
              ActivatedAs(call[a].ver)

\* How an activator gets to the commit, and how it starts.
LEMMA ActivatorKinds ==
    ASSUME IInv, LInv, [Next]_vars, NEW a \in Activators
    PROVE  \/ pc'[a] = pc[a] /\ call'[a] = call[a]
           \/ \E v \in Versions : IsLatest(rows, v) /\ rows[v].status = "accepted"
                                  /\ pc'[a] = "getpub" /\ UNCHANGED rows
           \/ pc[a] # "idle" /\ pc'[a] # "commit"
           \/ /\ pc[a] # "idle" /\ call'[a] = call[a] /\ UNCHANGED <<rows, pub>>
              /\ ActivatedAs(call[a].ver)
  <1>1. /\ Workers \subseteq Procs /\ Activators \subseteq Procs /\ a \in Procs
        /\ a \notin Workers
        /\ pc \in [Procs -> Labels] /\ call \in [Procs -> Call]
    BY ProcessesAssumption DEF Procs, IInv, TypeOK, Labels
  <1> DEFINE Stays == pc'[a] = pc[a] /\ call'[a] = call[a]
             Leaves == pc[a] # "idle" /\ pc'[a] # "commit"
             Reads == /\ pc[a] # "idle" /\ call'[a] = call[a]
                      /\ UNCHANGED <<rows, pub>> /\ ActivatedAs(call[a].ver)
  <1>2. ASSUME NEW p \in Procs, NEW l, Leave(p, l) PROVE p = a \/ Stays
    BY <1>1, <1>2 DEF Leave
  <1>3. ASSUME NEW p \in Procs, NEW l, Goto(p, l),
               \/ UNCHANGED call \/ \E c : call' = [call EXCEPT ![p] = c]
        PROVE  p = a \/ Stays
    BY <1>1, <1>3 DEF Goto
  <1>4. ASSUME NEW l, Leave(a, l) PROVE pc'[a] = l
    BY <1>1, <1>4 DEF Leave
  <1>5. ASSUME NEW l, Goto(a, l) PROVE pc'[a] = l
    BY <1>1, <1>5 DEF Goto
  <1>6. CASE Lifecycle \/ ExpireLease \/ (\E m \in late : LateMutation(m))
             \/ UNCHANGED vars
    BY <1>6 DEF Lifecycle, SubmitIntent, AcceptIntent, ModifyIntent,
                CompleteIntent, CancelIntent, EndIntent, ExpireLease,
                LateMutation, local, vars
  <1>7. CASE \E w \in Workers : ClaimDue(w)
    BY <1>1, <1>3, <1>7 DEF ClaimDue, Claim
  <1>8. ASSUME NEW b \in Activators, BeginActivation(b)
        PROVE  \/ Stays
               \/ \E v \in Versions : /\ IsLatest(rows, v)
                                      /\ rows[v].status = "accepted"
                                      /\ pc'[a] = "getpub" /\ UNCHANGED rows
    <2>1. b \in Procs /\ Goto(b, "getpub") /\ UNCHANGED rows
          /\ \E v \in Versions : IsLatest(rows, v) /\ rows[v].status = "accepted"
          /\ \E c : call' = [call EXCEPT ![b] = c]
      BY <1>1, <1>8 DEF BeginActivation
    <2> QED BY <1>3, <1>5, <2>1
  <1>9. ASSUME NEW b \in Activators, NEW v, NEW s, NEW mode,
               RequestIfCurrent(b, v, s, mode), pc[b] # "idle"
        PROVE  Stays \/ Leaves
    <2>1. CASE Proceed(b, "idle")
      BY <1>1, <1>2, <1>4, <1>9, <2>1 DEF Proceed
    <2>2. CASE Goto(b, "reconcile") /\ call' = [call EXCEPT ![b].mode = mode]
      <3>1. \E c : call' = [call EXCEPT ![b] = c]
        BY <2>2
      <3> QED BY <1>1, <1>3, <1>5, <1>9, <2>2, <3>1
    <2> QED BY <1>9, <2>1, <2>2 DEF RequestIfCurrent
  <1>10. ASSUME NEW b \in Activators, Activate(b)
         PROVE  Stays \/ Leaves \/ Reads
    <2>1. b \in Procs
      BY <1>1
    <2>2. CASE ReadPublication(b)
      <3>1. PICK l \in {"backfill", "request", "commit", "idle"} :
               /\ Proceed(b, l) /\ pc[b] # "idle"
               /\ l = "commit" => ActivatedAs(call[b].ver)
        BY <2>2 DEF ReadPublication, ConfirmedFor, ActivatedAs
      <3>2. b = a /\ l = "commit" => call' = call
        BY <3>1 DEF Proceed, Leave
      <3> QED BY <1>2, <1>4, <2>1, <3>1, <3>2 DEF Proceed
    <2>3. CASE BackfillAcceptance(b) \/ RequestActivation(b)
               \/ CompensateRequest(b)
      BY <1>9, <2>3 DEF BackfillAcceptance, RequestActivation, CompensateRequest
    <2>4. CASE ClaimById(b)
      <3>1. pc[b] # "idle" /\ ReturnTo(call[b].mode, FALSE) # "commit"
        BY <2>4 DEF ClaimById, ReturnTo
      <3>2. CASE Claim(b)
        BY <1>3, <1>5, <2>1, <3>1, <3>2 DEF Claim
      <3> QED BY <1>2, <1>4, <2>1, <2>4, <3>1, <3>2 DEF ClaimById, Return
    <2>5. CASE VerifyActivation(b)
      <3>1. PICK l \in {"commit", "idle"} :
               /\ Proceed(b, l) /\ pc[b] # "idle"
               /\ l = "commit" => ActivatedAs(call[b].ver)
        BY <2>5 DEF VerifyActivation, ConfirmedFor, ActivatedAs
      <3>2. b = a /\ l = "commit" => call' = call
        BY <3>1 DEF Proceed, Leave
      <3> QED BY <1>2, <1>4, <2>1, <3>1, <3>2 DEF Proceed
    <2>6. CASE CommitActivation(b)
      <3>1. pc[b] # "idle" /\ \E l \in {"idle", "compensate"} : Leave(b, l)
        BY <2>6 DEF CommitActivation, Proceed
      <3> QED BY <1>2, <1>4, <2>1, <3>1
    <2>7. CASE CompensateRead(b)
      <3>1. /\ pc[b] # "idle"
            /\ \/ Leave(b, "idle")
               \/ /\ Goto(b, "comppub")
                  /\ \E c : call' = [call EXCEPT ![b] = c]
        BY <2>7 DEF CompensateRead, Proceed
      <3> QED BY <1>2, <1>3, <1>4, <1>5, <2>1, <3>1
    <2>8. CASE CompensateDecide(b)
      <3>1. /\ pc[b] # "idle"
            /\ \/ Leave(b, "idle")
               \/ /\ Goto(b, "comprequest")
                  /\ \E c : call' = [call EXCEPT ![b] = c]
        BY <2>8 DEF CompensateDecide, Proceed
      <3> QED BY <1>2, <1>3, <1>4, <1>5, <2>1, <3>1
    <2> QED BY <1>10, <2>2, <2>3, <2>4, <2>5, <2>6, <2>7, <2>8 DEF Activate
  <1>11. ASSUME NEW p \in Procs, Reconcile(p) PROVE Stays \/ Leaves
    <2>1. pc[p] \in Reconciling /\ pc[p] # "idle"
      BY <1>11, ReconcileKinds DEF Reconciling
    <2>2. CASE Continued(p)
      <3>1. PICK l \in Reconciling : pc' = [pc EXCEPT ![p] = l] /\ UNCHANGED call
        BY <2>2 DEF Continued, Works
      <3> QED BY <1>1, <2>1, <3>1 DEF Reconciling
    <2>3. CASE GivesUp(p) \/ Writes(p)
      BY <1>2, <1>4, <2>1, <2>3 DEF GivesUp, Writes
    <2> QED BY <1>11, <2>2, <2>3, ReconcileKinds
  <1>12. ASSUME NEW p \in Procs, Abandon(p) PROVE Stays \/ Leaves
    <2>1. pc[p] # "idle" /\ \E l : l # "commit" /\ Leave(p, l)
      BY <1>12 DEF Abandon, Return, ReturnTo
    <2> QED BY <1>2, <1>4, <2>1
  <1> QED BY <1>6, <1>7, <1>8, <1>10, <1>11, <1>12 DEF Next

\* A version becomes active by the commit of an activation only.
LEMMA NewActive ==
    ASSUME IInv, LInv, [Next]_vars, NEW v \in Versions,
           rows'[v].status = "active", rows[v].status # "active"
    PROVE  \E a \in Activators :
              /\ pc[a] = "commit" /\ call[a].ver = v
              /\ Unchanged(rows, call[a].ver, call[a].rev)
              /\ pc'[a] = "idle" /\ UNCHANGED pub
  <1>1. rows \in [Versions -> Row] /\ pc \in [Procs -> Labels]
    BY DEF IInv, TypeOK, Labels
  <1>2. ~Lifecycle
    <2> SUFFICES ASSUME NEW w \in Versions,
                        \/ SubmitIntent(w) \/ AcceptIntent(w) \/ ModifyIntent(w)
                        \/ CompleteIntent(w) \/ CancelIntent(w)
                 PROVE  FALSE
      BY DEF Lifecycle
    <2>1. CASE SubmitIntent(w)
      BY <1>1, <2>1 DEF SubmitIntent, UpdateRow, Terminal
    <2>2. CASE AcceptIntent(w)
      BY <1>1, <2>2 DEF AcceptIntent, AcceptRow, SetWithPrior
    <2>3. CASE ModifyIntent(w)
      BY <1>1, <2>3 DEF ModifyIntent, ReplaceRow, Modifiable, Row
    <2>4. CASE CompleteIntent(w) \/ CancelIntent(w)
      BY <1>1, <2>4 DEF CompleteIntent, CancelIntent, EndIntent, UpdateRow,
                        SetWithPrior, Terminal
    <2> QED BY <2>1, <2>2, <2>3, <2>4
  <1>3. ~UNCHANGED rows
    OBVIOUS
  <1>4. ASSUME NEW a \in Activators, Activate(a)
        PROVE  /\ pc[a] = "commit" /\ call[a].ver = v
               /\ Unchanged(rows, call[a].ver, call[a].rev)
               /\ pc'[a] = "idle" /\ UNCHANGED pub
    <2>1. CommitActivation(a)
      BY <1>3, <1>4
         DEF Activate, ReadPublication, BackfillAcceptance, RequestActivation,
             ClaimById, Claim, VerifyActivation, CompensateRead,
             CompensateDecide, CompensateRequest, RequestIfCurrent, Proceed
    <2>2. /\ pc[a] = "commit" /\ Unchanged(rows, call[a].ver, call[a].rev)
          /\ rows' = UpdateRow(rows, call[a].ver, "active")
          /\ Leave(a, "idle") /\ UNCHANGED pub
      BY <1>3, <2>1 DEF CommitActivation, Proceed
    <2>3. call[a].ver = v
      BY <1>1, <2>2 DEF UpdateRow, Terminal
    <2> QED BY <1>1, <2>2, <2>3 DEF Leave, Procs
  <1>5. ASSUME NEW p \in Procs, Reconcile(p) PROVE FALSE
    BY <1>3, <1>5, ReconcileKinds DEF Continued, Works, GivesUp, Writes
  <1>6. ~ \/ \E w \in Workers : ClaimDue(w)
          \/ \E a \in Activators : BeginActivation(a)
          \/ \E p \in Procs : Abandon(p)
          \/ ExpireLease \/ (\E m \in late : LateMutation(m)) \/ UNCHANGED vars
    BY <1>3 DEF ClaimDue, Claim, BeginActivation, Abandon, ExpireLease,
                LateMutation, vars
  <1> QED BY <1>2, <1>4, <1>5, <1>6 DEF Next

\* With one activator at a time, every step keeps the invariant of activations.
LEMMA ActiveStep ==
    ASSUME \A a, b \in Activators : a = b
    PROVE  IInv /\ LInv /\ ActiveInv /\ [Next]_vars => ActiveInv'
  <1> SUFFICES ASSUME IInv, LInv, ActiveInv, [Next]_vars PROVE ActiveInv'
    OBVIOUS
  <1>1. IInv' /\ LInv'
    BY InvStep, LInvStep
  <1>2. Activators \subseteq Procs
    BY DEF Procs
  <1>3. ASSUME pub.sync = "confirmed", NEW S, S \in {"idle", "commit"},
               \A a \in Activators : pc[a] = S,
               \A v \in Versions : ~RowsChange(v)
        PROVE  UNCHANGED pub
    <2>1. ~Requests
      BY <1>3 DEF Requests
    <2>2. ~Claims
      BY <1>3 DEF Claims
    <2>3. ~\E p \in Procs : Writes(p)
      BY <1>3 DEF Writes, IInv, OwnerInv, Owner, Reconciling
    <2> QED BY <2>1, <2>2, <2>3, StepKinds
            DEF Apart, Continued, Works, LateMutation
  <1>4. ASSUME NEW v \in Versions, rows'[v].status = "active"
        PROVE  ActivatedAs(v)' /\ \A a \in Activators : pc'[a] = "idle"
    <2>1. CASE rows[v].status # "active"
      <3>1. PICK a \in Activators :
              /\ pc[a] = "commit" /\ call[a].ver = v
              /\ Unchanged(rows, call[a].ver, call[a].rev)
              /\ pc'[a] = "idle" /\ UNCHANGED pub
        BY <1>4, <2>1, NewActive
      <3> QED BY <3>1 DEF ActiveInv, ActivatedAs
    <2>2. CASE rows[v].status = "active"
      <3>1. ActivatedAs(v) /\ \A a \in Activators : pc[a] = "idle"
        BY <2>2 DEF ActiveInv
      <3>2. IsLatest(rows, v)
        BY <2>2 DEF LInv, RowsInv
      <3>3. ASSUME NEW w \in Versions, RowsChange(w) PROVE FALSE
        <4>1. w = v
          BY <3>2, <3>3, OneLatest DEF RowsChange
        <4>2. \E t \in Terminal : rows' = UpdateRow(rows, v, t)
          BY <2>2, <3>3, <4>1 DEF RowsChange, Acceptable, Modifiable
        <4>3. rows'[v].status \in Terminal
          BY <3>3, <4>1, <4>2, RowsStatuses DEF IInv, LInv
        <4> QED BY <1>4, <4>3 DEF Terminal
      <3>4. UNCHANGED pub
        BY <1>3, <3>1, <3>3 DEF ActivatedAs
      <3>5. ASSUME NEW a \in Activators PROVE pc'[a] = "idle"
        <4>1. ~\E w \in Versions : IsLatest(rows, w) /\ rows[w].status = "accepted"
          BY <2>2, <3>2, OneLatest
        <4> QED BY <3>1, <4>1, ActivatorKinds
      <3> QED BY <3>1, <3>4, <3>5 DEF ActivatedAs
    <2> QED BY <2>1, <2>2
  <1>5. ASSUME NEW a \in Activators, pc'[a] = "commit",
               Unchanged(rows, call[a].ver, call[a].rev)'
        PROVE  ActivatedAs(call[a].ver)'
    <2>1. CASE /\ call'[a] = call[a] /\ UNCHANGED <<rows, pub>>
               /\ ActivatedAs(call[a].ver)
      BY <2>1 DEF ActivatedAs
    <2>2. CASE pc[a] = "commit" /\ call'[a] = call[a]
      <3>1. Seen(call[a]) /\ call[a] \in Call
        BY <1>2, <2>2 DEF LInv, CallInv, IInv, TypeOK
      <3>2. \A v \in Versions : ~RowsChange(v)
        <4>1. Unchanged(rows', call[a].ver, call[a].rev)
          BY <1>5, <2>2 DEF Unchanged, IsLatest, Exists
        <4> QED BY <3>1, <4>1, OutdatedAfter DEF IInv
      <3>3. UNCHANGED rows
        BY <3>2, RowsKinds
      <3>4. ActivatedAs(call[a].ver)
        BY <1>5, <2>2, <3>3 DEF ActiveInv, Unchanged
      <3>5. \A b \in Activators : pc[b] = "commit"
        BY <2>2
      <3>6. UNCHANGED pub
        BY <1>3, <3>2, <3>4, <3>5 DEF ActivatedAs
      <3> QED BY <2>2, <3>4, <3>6 DEF ActivatedAs
    <2> QED BY <1>5, <2>1, <2>2, ActivatorKinds
  <1> QED BY <1>4, <1>5 DEF ActiveInv

\* A locally active version is the one the DSS holds as Activated, as long as
\* one ActivateIntent runs at a time.
THEOREM ActiveIsPublished ==
    ASSUME \A a, b \in Activators : a = b
    PROVE  Spec => []ActiveIsActivated
  <1>1. Init => ActiveInv
    BY DEF Init, ActiveInv, NoRow, Procs
  <1>2. IInv /\ ActiveInv => ActiveIsActivated
    BY DEF IInv, ConfirmedInv, Holds, ActiveInv, ActivatedAs, ActiveIsActivated
  <1>3. IInv /\ LInv /\ ActiveInv /\ [Next]_vars => ActiveInv'
    BY ActiveStep
  <1>4. Spec => []ActiveInv
    BY <1>1, <1>3, LifecycleInvariance, PTL DEF Spec
  <1> QED BY <1>2, <1>4, LifecycleInvariance, PTL

=============================================================================
