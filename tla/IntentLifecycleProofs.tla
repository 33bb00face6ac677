----------------------- MODULE IntentLifecycleProofs ------------------------
(***************************************************************************)
(* Proofs about IntentLifecycle, for every number of intents, handlers and *)
(* versions.                                                               *)
(*                                                                         *)
(* The argument: a transaction that writes a row raises its revision, so a *)
(* handler whose revision is still the row's has a copy of the row as it   *)
(* is, and the status it decided by is the one that is overwritten.  What  *)
(* the operators of IntentRows make of the rows of one intent is then a    *)
(* matter of those rows alone.  When requests come one at a time the copy  *)
(* is current until the handler returns, and so is what it has read of the *)
(* volumes and the evidence.                                               *)
(***************************************************************************)
EXTENDS IntentLifecycle, TLAPS

-----------------------------------------------------------------------------
(* The rows of one intent.                                                 *)

\* What holds of the rows of an intent, whoever wrote them.
GoodRows(R) ==
    /\ \A v \in Versions : Exists(R, v) => Exists(R, 1)
    /\ \A v \in Versions : R[v].status = "active" => IsLatest(R, v)
    /\ \A v, w \in Versions :
          R[v].status \in Reserving /\ R[w].status \in Reserving => v = w
    /\ \A v, w \in Versions :
          R[v].status \in Reserving =>
              ~(IsLatest(R, w) /\ R[w].status \in Terminal)

\* Rows are never deleted, and a row that changes gets a higher revision.
Grows(R, S) ==
    \A v \in Versions :
        Exists(R, v) =>
            Exists(S, v) /\ (S[v] = R[v] \/ S[v].rev > R[v].rev)

\* No version becomes active.
NoNewActive(R, S) ==
    \A v \in Versions : S[v].status = "active" => R[v].status = "active"

-----------------------------------------------------------------------------
(* The invariant.                                                          *)

RowsInv == \A i \in Intents : GoodRows(rows[i])

\* What a handler has read: the row is there, and while its revision is the
\* same the operation may start from its status.
Seen(all, r) ==
    /\ r.i \in Intents
    /\ Exists(all[r.i], r.v)
    /\ r.rev <= all[r.i][r.v].rev
    /\ r.rev = all[r.i][r.v].rev => all[r.i][r.v].status \in From(r.op)

\* A handler by where it is.
HandlerOK(all, now, r) ==
    /\ r.pc # "idle" => Seen(all, r)
    /\ r.pc \in {"checks", "findings"} => r.op = "activate"
    /\ r.pc = "record" => r.op = "evaluate"
    /\ r.pc = "record" => r.at <= now[r.i]
    /\ r.pc = "commit" /\ r.op \in {"add", "modify"} => r.at \in Times

HandlerInv == \A h \in Handlers : HandlerOK(rows, clock, handler[h])

\* No evidence is from the future.
EvidenceInv ==
    \A i \in Intents, v \in Versions, k \in Evidence :
        evidence[i][v][k].at <= clock[i]

IInv ==
    /\ TypeOK
    /\ RowsInv
    /\ OneActivePerAircraft
    /\ HandlerInv
    /\ EvidenceInv

\* Evidence is of the volumes there are, or older than one of them.
UpToDate(e, vols) ==
    e.at # 0 => e.saw = vols \/ vols = {} \/ \E t \in vols : t > e.at

\* What a handler has read is so still.
StillSo(all, vols, ev, r) ==
    LET now == vols[r.i][r.v] IN
    /\ Unchanged(all[r.i], r.v, r.rev)
    /\ r.pc = "commit" /\ r.op \in {"add", "modify"} =>
          \A v \in Versions, k \in Evidence : ev[r.i][v][k].at < r.at
    /\ r.pc = "record" => r.saw = now
    /\ r.pc = "checks" => r.saw = now /\ now # {}
    /\ r.pc = "findings" \/ (r.pc = "commit" /\ r.op = "activate") =>
          /\ now # {}
          /\ \E k \in Checks : Fresh(ev[r.i][r.v][k], now)

\* All evidence is.
EvidenceUpToDate ==
    \A i \in Intents, v \in Versions, k \in Evidence :
        UpToDate(evidence[i][v][k], volumes[i][v])

\* When requests come one at a time.
TurnInv ==
    inTurn =>
        /\ \A g, h \in Handlers :
              handler[g].pc # "idle" /\ handler[h].pc # "idle" => g = h
        /\ \A h \in Handlers :
              handler[h].pc # "idle" =>
                  StillSo(rows, volumes, evidence, handler[h])
        /\ EvidenceUpToDate

-----------------------------------------------------------------------------
(* What a write makes of the rows of one intent.                           *)

\* Of two latest versions there is one.
LEMMA OneLatest ==
    ASSUME NEW R \in [Versions -> Row], NEW v \in Versions, NEW w \in Versions,
           IsLatest(R, v), IsLatest(R, w)
    PROVE  v = w
BY DEF IsLatest, Exists, Versions

\* SetWithPrior: the latest version takes a status that is not "none", and
\* the accepted versions before it take one that is not "none" either.
LEMMA SetWithPriorShape ==
    ASSUME NEW R \in [Versions -> Row], NEW v \in Versions,
           NEW own \in IntentStatus, NEW prior \in IntentStatus
    PROVE  LET S == SetWithPrior(R, v, own, prior) IN
           /\ S \in [Versions -> Row]
           /\ S[v] = [status |-> own, rev |-> R[v].rev + 1]
           /\ \A w \in Versions : w < v /\ R[w].status = "accepted" =>
                 S[w] = [status |-> prior, rev |-> R[w].rev + 1]
           /\ \A w \in Versions : w # v /\ ~(w < v /\ R[w].status = "accepted") =>
                 S[w] = R[w]
<1> DEFINE S == SetWithPrior(R, v, own, prior)
<1>1. \A w \in Versions : R[w] \in Row /\ R[w].rev \in Nat
  BY DEF Row
<1>2. S \in [Versions -> Row]
  BY <1>1 DEF SetWithPrior, Row
<1> QED
  BY <1>2 DEF SetWithPrior, Versions

\* A terminal status of the latest version is passed on to the versions that
\* were accepted before, so nothing reserves airspace any more.
LEMMA EndRows ==
    ASSUME NEW R \in [Versions -> Row], GoodRows(R), NEW v \in Versions,
           IsLatest(R, v), R[v].status \in Cancelable, NEW s \in Terminal
    PROVE  LET S == UpdateRow(R, v, s) IN
           /\ S \in [Versions -> Row]
           /\ GoodRows(S) /\ Grows(R, S) /\ NoNewActive(R, S)
<1> DEFINE S == SetWithPrior(R, v, s, s)
<1>1. UpdateRow(R, v, s) = S
  BY DEF UpdateRow
<1>2. s \in IntentStatus /\ s # "none" /\ s \notin Reserving
  BY DEF IntentStatus, Terminal, Reserving
<1>3. /\ S \in [Versions -> Row]
      /\ S[v] = [status |-> s, rev |-> R[v].rev + 1]
      /\ \A w \in Versions : w < v /\ R[w].status = "accepted" =>
            S[w] = [status |-> s, rev |-> R[w].rev + 1]
      /\ \A w \in Versions : w # v /\ ~(w < v /\ R[w].status = "accepted") =>
            S[w] = R[w]
  BY <1>2, SetWithPriorShape
<1> HIDE DEF S
<1>4. \A w \in Versions : R[w].rev \in Nat
  BY DEF Row
<1>5. \A w \in Versions : Exists(S, w) <=> Exists(R, w)
  BY <1>2, <1>3 DEF Exists, IsLatest
<1>6. \A w \in Versions : w > v => R[w].status = "none"
  BY DEF IsLatest, Exists
<1>7. \A w \in Versions : S[w].status \notin Reserving
  <2> TAKE w \in Versions
  <2>1. CASE w = v \/ (w < v /\ R[w].status = "accepted")
    BY <2>1, <1>2, <1>3
  <2>2. CASE w # v /\ ~(w < v /\ R[w].status = "accepted")
    <3>1. R[w].status # "active"
      BY <2>2, OneLatest DEF GoodRows
    <3>2. R[w].status # "accepted"
      BY <2>2, <1>6 DEF Versions
    <3> QED
      BY <2>2, <1>3, <3>1, <3>2 DEF Reserving
  <2> QED
    BY <2>1, <2>2
<1>9. GoodRows(S)
  <2>0. 1 \in Versions
    BY MaxVersionAssumption DEF Versions
  <2>1. \A w \in Versions : Exists(S, w) => Exists(S, 1)
    BY <1>5, <2>0 DEF GoodRows
  <2>2. \A w \in Versions : S[w].status # "active" /\ S[w].status # "accepted"
    BY <1>7 DEF Reserving
  <2> QED
    BY <1>7, <2>1, <2>2 DEF GoodRows
<1>10. Grows(R, S)
  BY <1>3, <1>4, <1>5 DEF Grows
<1>11. NoNewActive(R, S)
  BY <1>7 DEF NoNewActive, Reserving
<1> QED
  BY <1>1, <1>3, <1>9, <1>10, <1>11

\* acceptOperationalIntentTx leaves the version it accepts as the only
\* reservation of the intent.
LEMMA AcceptRows ==
    ASSUME NEW R \in [Versions -> Row], GoodRows(R), NEW v \in Versions,
           IsLatest(R, v), R[v].status \in Acceptable
    PROVE  LET S == AcceptRow(R, v) IN
           /\ S \in [Versions -> Row]
           /\ GoodRows(S) /\ Grows(R, S) /\ NoNewActive(R, S)
<1> DEFINE S == SetWithPrior(R, v, "accepted", "superseded")
<1>1. AcceptRow(R, v) = S
  BY DEF AcceptRow
<1>2. "accepted" \in IntentStatus /\ "superseded" \in IntentStatus
  BY DEF IntentStatus
<1>3. /\ S \in [Versions -> Row]
      /\ S[v] = [status |-> "accepted", rev |-> R[v].rev + 1]
      /\ \A w \in Versions : w < v /\ R[w].status = "accepted" =>
            S[w] = [status |-> "superseded", rev |-> R[w].rev + 1]
      /\ \A w \in Versions : w # v /\ ~(w < v /\ R[w].status = "accepted") =>
            S[w] = R[w]
  BY <1>2, SetWithPriorShape
<1> HIDE DEF S
<1>4. \A w \in Versions : R[w].rev \in Nat
  BY DEF Row
<1>5. \A w \in Versions : Exists(S, w) <=> Exists(R, w)
  BY <1>3 DEF Exists, IsLatest
<1>6. \A w \in Versions : w > v => R[w].status = "none"
  BY DEF IsLatest, Exists
<1>7. \A w \in Versions : w # v => S[w].status \notin Reserving
  <2> TAKE w \in Versions
  <2> HAVE w # v
  <2>1. CASE w < v /\ R[w].status = "accepted"
    BY <2>1, <1>3 DEF Reserving
  <2>2. CASE ~(w < v /\ R[w].status = "accepted")
    <3>1. R[w].status # "active"
      BY <2>2, OneLatest DEF GoodRows
    <3>2. R[w].status # "accepted"
      BY <2>2, <1>6 DEF Versions
    <3> QED
      BY <2>2, <1>3, <3>1, <3>2 DEF Reserving
  <2> QED
    BY <2>1, <2>2
<1>8. IsLatest(S, v)
  BY <1>5 DEF IsLatest
<1>9. GoodRows(S)
  <2>0. 1 \in Versions
    BY MaxVersionAssumption DEF Versions
  <2>1. \A w \in Versions : Exists(S, w) => Exists(S, 1)
    BY <1>5, <2>0 DEF GoodRows
  <2>2. \A w \in Versions : S[w].status # "active"
    BY <1>3, <1>7 DEF Reserving
  <2>3. ASSUME NEW w \in Versions, IsLatest(S, w)
        PROVE  S[w].status \notin Terminal
    <3>1. w = v
      BY <2>3, <1>3, <1>8, OneLatest
    <3> QED
      BY <3>1, <1>3 DEF Terminal
  <2> QED
    BY <1>7, <2>1, <2>2, <2>3 DEF GoodRows
<1>10. Grows(R, S)
  BY <1>3, <1>4, <1>5 DEF Grows
<1>11. NoNewActive(R, S)
  BY <1>3, <1>7 DEF NoNewActive, Reserving
<1> QED
  BY <1>1, <1>3, <1>9, <1>10, <1>11

\* A status of the latest version that is replaced by one that is not terminal:
\* "submitted", or "active" for a version that was accepted.
LEMMA UpdateRows ==
    ASSUME NEW R \in [Versions -> Row], GoodRows(R), NEW v \in Versions,
           IsLatest(R, v), NEW s,
           \/ s = "submitted" /\ R[v].status \in Submittable
           \/ s = "active" /\ R[v].status = "accepted"
    PROVE  /\ UpdateRow(R, v, s) \in [Versions -> Row]
           /\ GoodRows(UpdateRow(R, v, s)) /\ Grows(R, UpdateRow(R, v, s))
           /\ UpdateRow(R, v, s)[v].status = s
           /\ \A w \in Versions : w # v => UpdateRow(R, v, s)[w] = R[w]
<1> DEFINE S == [R EXCEPT ![v] = [status |-> s, rev |-> R[v].rev + 1]]
<1>1. UpdateRow(R, v, s) = S
  BY DEF UpdateRow, Terminal
<1>2. s \in IntentStatus /\ R[v].rev \in Nat /\ s # "none"
  BY DEF IntentStatus, Row
<1>3. /\ S \in [Versions -> Row]
      /\ S[v] = [status |-> s, rev |-> R[v].rev + 1]
      /\ \A w \in Versions : w # v => S[w] = R[w]
  BY <1>2 DEF Row
<1> HIDE DEF S
<1>5. \A w \in Versions : Exists(S, w) <=> Exists(R, w)
  BY <1>2, <1>3 DEF Exists, IsLatest
<1>6. IsLatest(S, v)
  BY <1>5 DEF IsLatest
<1>7. \A w \in Versions : S[w].status \in Reserving => R[w].status \in Reserving
  BY <1>3 DEF Reserving
<1>9. GoodRows(S)
  <2>0. 1 \in Versions
    BY MaxVersionAssumption DEF Versions
  <2>1. \A w \in Versions : Exists(S, w) => Exists(S, 1)
    BY <1>5, <2>0 DEF GoodRows
  <2>2. \A w \in Versions : S[w].status = "active" => IsLatest(S, w)
    BY <1>3, <1>5, <1>6 DEF GoodRows, IsLatest
  <2>3. ASSUME NEW w \in Versions, IsLatest(S, w)
        PROVE  S[w].status \notin Terminal
    <3>1. w = v
      BY <2>3, <1>3, <1>6, OneLatest
    <3> QED
      BY <3>1, <1>3 DEF Terminal
  <2>4. \A x, w \in Versions :
          S[x].status \in Reserving /\ S[w].status \in Reserving => x = w
    BY <1>7 DEF GoodRows
  <2> QED
    BY <2>1, <2>2, <2>3, <2>4 DEF GoodRows
<1>10. Grows(R, S)
  BY <1>2, <1>3, <1>5 DEF Grows
<1> QED
  BY <1>1, <1>3, <1>9, <1>10

\* ReplaceOperationalIntent: the new draft reserves nothing, and the accepted
\* version it changes keeps its reservation.
LEMMA ReplaceRows ==
    ASSUME NEW R \in [Versions -> Row], GoodRows(R), NEW v \in Versions,
           IsLatest(R, v), R[v].status \in Modifiable
    PROVE  LET S == ReplaceRow(R, v) IN
           /\ S \in [Versions -> Row]
           /\ GoodRows(S) /\ Grows(R, S) /\ NoNewActive(R, S)
<1> DEFINE S == ReplaceRow(R, v)
           N == [status |-> "draft", rev |-> 0]
           U == [status |-> R[v].status, rev |-> R[v].rev + 1]
<1>0. 1 \in Versions
  BY MaxVersionAssumption DEF Versions
<1>1. \A w \in Versions : R[w].rev \in Nat /\ R[w] \in Row
  BY DEF Row
<1>2. N \in Row /\ U \in Row
  BY <1>1 DEF Row, IntentStatus
<1>3. CASE R[v].status = "accepted" /\ v + 1 \in Versions
  <2>1. S = [R EXCEPT ![v + 1] = N]
    BY <1>3 DEF ReplaceRow
  <2>2. /\ S \in [Versions -> Row]
        /\ S[v + 1] = N
        /\ \A w \in Versions : w # v + 1 => S[w] = R[w]
    BY <2>1, <1>2, <1>3
  <2>3. R[v + 1].status = "none"
    BY <1>3 DEF IsLatest, Exists, Versions
  <2> HIDE DEF S
  <2>4. \A w \in Versions : Exists(R, w) => S[w] = R[w] /\ Exists(S, w)
    BY <2>2, <2>3 DEF Exists
  <2>5. \A w \in Versions : S[w].status # "draft" => S[w] = R[w]
    BY <2>2
  <2>6. \A w \in Versions : IsLatest(S, w) => w = v + 1
    <3> SUFFICES ASSUME NEW w \in Versions, IsLatest(S, w) PROVE w = v + 1
      OBVIOUS
    <3>1. Exists(S, v + 1)
      BY <2>2 DEF Exists
    <3>2. ~(v + 1 > w)
      BY <3>1, <1>3 DEF IsLatest
    <3>3. w > v + 1 => FALSE
      BY <2>2 DEF IsLatest, Exists, Versions
    <3> QED
      BY <3>2, <3>3 DEF Versions
  <2>7. \A w \in Versions : S[w].status # "active"
    <3> SUFFICES ASSUME NEW w \in Versions, S[w].status = "active" PROVE FALSE
      OBVIOUS
    <3>1. R[w].status = "active"
      BY <2>5
    <3>2. w = v
      BY <3>1, OneLatest DEF GoodRows
    <3> QED
      BY <3>1, <3>2, <1>3
  <2>8. GoodRows(S)
    <3>1. \A w \in Versions : Exists(S, w) => Exists(S, 1)
      BY <1>0, <2>4 DEF GoodRows, IsLatest
    <3>2. \A x, w \in Versions :
            S[x].status \in Reserving /\ S[w].status \in Reserving => x = w
      BY <2>5 DEF GoodRows, Reserving
    <3>3. \A w \in Versions : IsLatest(S, w) => S[w].status \notin Terminal
      BY <2>2, <2>6 DEF Terminal
    <3> QED
      BY <2>7, <3>1, <3>2, <3>3 DEF GoodRows
  <2>9. Grows(R, S)
    BY <2>4 DEF Grows
  <2> QED
    BY <2>2, <2>7, <2>8, <2>9 DEF NoNewActive, S
<1>4. CASE R[v].status = "accepted" /\ v + 1 \notin Versions
  <2>1. S = R
    BY <1>4 DEF ReplaceRow
  <2> QED
    BY <2>1 DEF Grows, NoNewActive
<1>5. CASE R[v].status # "accepted"
  <2>1. S = [R EXCEPT ![v].rev = @ + 1]
    BY <1>5 DEF ReplaceRow
  <2>2. S \in [Versions -> Row] /\ (\A w \in Versions : S[w].status = R[w].status)
    BY <2>1, <1>1 DEF Row
  <2>3. \A w \in Versions : S[w] = R[w] \/ S[w].rev > R[w].rev
    BY <2>1, <1>1
  <2> HIDE DEF S
  <2>4. \A w \in Versions : Exists(S, w) <=> Exists(R, w)
    BY <2>2 DEF Exists
  <2>5. \A w \in Versions : IsLatest(S, w) <=> IsLatest(R, w)
    BY <2>4 DEF IsLatest
  <2>6. GoodRows(S)
    BY <1>0, <2>2, <2>4, <2>5 DEF GoodRows
  <2> QED
    BY <2>2, <2>3, <2>4, <2>6 DEF Grows, NoNewActive, S
<1> QED
  BY <1>3, <1>4, <1>5

\* CreateIntent: the first version, as a draft.
LEMMA CreateRows ==
    ASSUME NEW R \in [Versions -> Row], GoodRows(R), ~Exists(R, 1)
    PROVE  LET S == [R EXCEPT ![1] = [status |-> "draft", rev |-> 0]] IN
           /\ S \in [Versions -> Row]
           /\ GoodRows(S) /\ Grows(R, S) /\ NoNewActive(R, S)
<1> DEFINE S == [R EXCEPT ![1] = [status |-> "draft", rev |-> 0]]
<1>1. 1 \in Versions
  BY MaxVersionAssumption DEF Versions
<1>2. \A w \in Versions : R[w].status = "none"
  BY <1>1 DEF GoodRows, Exists
<1>3. S \in [Versions -> Row]
  BY <1>1 DEF Row, IntentStatus
<1>4. \A w \in Versions : S[w].status \in {"none", "draft"}
  BY <1>1, <1>2
<1>5. Exists(S, 1)
  BY <1>1 DEF Exists
<1>6. Grows(R, S)
  BY <1>2 DEF Grows, Exists
<1> HIDE DEF S
<1>7. GoodRows(S) /\ NoNewActive(R, S)
  BY <1>4, <1>5 DEF GoodRows, NoNewActive, Reserving
<1> QED
  BY <1>3, <1>6, <1>7 DEF S

-----------------------------------------------------------------------------
(* What a step does to the rows.                                           *)

\* A version that becomes active is the one that a handler activates.
Activation ==
    \A i \in Intents, v \in Versions :
        rows'[i][v].status = "active" =>
            \/ rows[i][v].status = "active"
            \/ \E h \in Handlers : /\ ActivateIntent(h)
                                   /\ handler[h].i = i /\ handler[h].v = v

\* The rows stay good, and grow.
RowsStep ==
    /\ rows' \in [Intents -> [Versions -> Row]]
    /\ \A i \in Intents : GoodRows(rows'[i]) /\ Grows(rows[i], rows'[i])
    /\ OneActivePerAircraft'
    /\ Activation

\* The statuses an operation may start from, by operation.
LEMMA FromValues ==
    /\ From("submit") = Submittable /\ From("accept") = Acceptable
    /\ From("modify") = Modifiable /\ From("activate") = {"accepted"}
    /\ From("complete") = Completable /\ From("cancel") = Cancelable
    /\ From("add") = {"draft"} /\ From("evaluate") = IntentStatus
BY DEF From

\* A handler whose copy is current decided by the status that the row has.
LEMMA CurrentStatus ==
    ASSUME IInv, NEW h \in Handlers, handler[h].pc # "idle", Current(handler[h])
    PROVE  LET r == handler[h] IN
           /\ r.i \in Intents /\ r.v \in Versions
           /\ rows[r.i] \in [Versions -> Row] /\ GoodRows(rows[r.i])
           /\ IsLatest(rows[r.i], r.v)
           /\ rows[r.i][r.v].status \in From(r.op)
<1>1. handler[h].v \in Versions
  BY DEF IInv, TypeOK, Handler
<1>2. Seen(rows, handler[h])
  BY DEF IInv, HandlerInv, HandlerOK
<1> QED
  BY <1>1, <1>2 DEF IInv, TypeOK, Seen, Current, Unchanged, RowsInv

\* Rows that no step writes.
LEMMA RowsStay ==
    ASSUME IInv, UNCHANGED rows
    PROVE  RowsStep
BY DEF IInv, TypeOK, RowsInv, RowsStep, Grows, OneActivePerAircraft, Exists,
       Activation

\* A write of the rows of one intent that activates nothing.
LEMMA RowsReplaced ==
    ASSUME IInv, NEW i \in Intents, NEW new \in [Versions -> Row],
           GoodRows(new), Grows(rows[i], new), NoNewActive(rows[i], new),
           rows' = [rows EXCEPT ![i] = new]
    PROVE  RowsStep
<1>1. rows \in [Intents -> [Versions -> Row]] /\ RowsInv
  BY DEF IInv, TypeOK
<1>2. rows' \in [Intents -> [Versions -> Row]]
  BY <1>1
<1>3. rows'[i] = new /\ \A j \in Intents : j # i => rows'[j] = rows[j]
  BY <1>1
<1>4. \A j \in Intents : Grows(rows[j], rows[j])
  BY <1>1 DEF Grows, Exists
<1>5. \A j \in Intents, v \in Versions :
        rows'[j][v].status = "active" => rows[j][v].status = "active"
  BY <1>3 DEF NoNewActive
<1>6. OneActivePerAircraft'
  BY <1>5 DEF IInv, OneActivePerAircraft
<1>7. \A j \in Intents : GoodRows(rows'[j]) /\ Grows(rows[j], rows'[j])
  BY <1>1, <1>3, <1>4 DEF RowsInv
<1> QED
  BY <1>2, <1>5, <1>6, <1>7 DEF RowsStep, Activation

\* A transaction that activates nothing, whether its copy is current or not.
LEMMA WriteRowsStep ==
    ASSUME IInv, NEW h \in Handlers, handler[h].pc = "commit", NEW new,
           WriteRows(h, new),
           Current(handler[h]) =>
               LET R == rows[handler[h].i] IN
               /\ new \in [Versions -> Row]
               /\ GoodRows(new) /\ Grows(R, new) /\ NoNewActive(R, new)
    PROVE  RowsStep
<1>1. CASE Current(handler[h])
  <2>1. handler[h].i \in Intents
    BY <1>1, CurrentStatus
  <2>2. rows' = [rows EXCEPT ![handler[h].i] = new]
    BY <1>1 DEF WriteRows
  <2> QED
    BY <1>1, <2>1, <2>2, RowsReplaced
<1>2. CASE ~Current(handler[h])
  BY <1>2, RowsStay DEF WriteRows
<1> QED
  BY <1>1, <1>2

\* ActivateOperationalIntent: no other version is active, of any intent.
LEMMA ActivateStep ==
    ASSUME IInv, NEW h \in Handlers, ActivateIntent(h)
    PROVE  RowsStep
<1> DEFINE r == handler[h]
           new == UpdateRow(rows[r.i], r.v, "active")
<1>1. r.pc = "commit" /\ r.op = "activate"
  BY DEF ActivateIntent, Commits
<1>2. CASE OtherActive(r) \/ ~Current(r)
  BY <1>2, RowsStay DEF ActivateIntent, WriteRows
<1>3. CASE ~OtherActive(r) /\ Current(r)
  <2>1. /\ r.i \in Intents /\ r.v \in Versions
        /\ rows[r.i] \in [Versions -> Row] /\ GoodRows(rows[r.i])
        /\ IsLatest(rows[r.i], r.v)
        /\ rows[r.i][r.v].status = "accepted"
    BY <1>1, <1>3, CurrentStatus, FromValues
  <2>2. /\ new \in [Versions -> Row]
        /\ GoodRows(new) /\ Grows(rows[r.i], new)
        /\ new[r.v].status = "active"
        /\ \A w \in Versions : w # r.v => new[w] = rows[r.i][w]
    BY <2>1, UpdateRows, SMTT(30)
  <2>3. rows' = [rows EXCEPT ![r.i] = new]
    BY <1>3 DEF ActivateIntent, WriteRows
  <2> HIDE DEF new
  <2>4. rows \in [Intents -> [Versions -> Row]] /\ RowsInv
    BY DEF IInv, TypeOK
  <2>5. rows' \in [Intents -> [Versions -> Row]]
    BY <2>2, <2>3, <2>4
  <2>6. rows'[r.i] = new /\ \A j \in Intents : j # r.i => rows'[j] = rows[j]
    BY <2>1, <2>3, <2>4
  <2>7. \A j \in Intents : Grows(rows[j], rows[j])
    BY DEF Grows, Exists
  <2>8. \A j \in Intents : GoodRows(rows'[j]) /\ Grows(rows[j], rows'[j])
    BY <2>2, <2>4, <2>6, <2>7 DEF RowsInv
  <2>9. \A j \in Intents, w \in Versions :
          rows'[j][w].status = "active" => j = r.i /\ w = r.v
    <3> SUFFICES ASSUME NEW j \in Intents, NEW w \in Versions,
                        rows'[j][w].status = "active", <<j, w>> # <<r.i, r.v>>
                 PROVE  FALSE
      OBVIOUS
    <3>1. rows'[j][w] = rows[j][w]
      BY <2>2, <2>6
    <3> QED
      BY <3>1, <1>3 DEF OtherActive
  <2>10. OneActivePerAircraft'
    BY <2>9 DEF OneActivePerAircraft
  <2> QED
    BY <2>5, <2>8, <2>9, <2>10 DEF RowsStep, Activation
<1> QED
  BY <1>2, <1>3

\* Every step keeps the rows good.
LEMMA RowsChange ==
    ASSUME IInv, Next
    PROVE  RowsStep
<1> DEFINE R(h) == rows[handler[h].i]
           Fine(h, new) == /\ new \in [Versions -> Row]
                           /\ GoodRows(new) /\ Grows(R(h), new)
                           /\ NoNewActive(R(h), new)
<1>1. ASSUME NEW i \in Intents, CreateIntent(i)
      PROVE  RowsStep
  <2> DEFINE new == [rows[i] EXCEPT ![1] = [status |-> "draft", rev |-> 0]]
  <2>1. rows \in [Intents -> [Versions -> Row]] /\ RowsInv
    BY DEF IInv, TypeOK
  <2>2. rows[i] \in [Versions -> Row] /\ GoodRows(rows[i]) /\ ~Exists(rows[i], 1)
    BY <1>1, <2>1 DEF CreateIntent, RowsInv
  <2>3. /\ new \in [Versions -> Row]
        /\ GoodRows(new) /\ Grows(rows[i], new) /\ NoNewActive(rows[i], new)
    BY <2>2, CreateRows
  <2>4. rows' = [rows EXCEPT ![i] = new]
    BY <1>1 DEF CreateIntent
  <2> HIDE DEF new
  <2> QED
    BY <2>3, <2>4, RowsReplaced
<1>2. ASSUME NEW h \in Handlers, SubmitIntent(h)
      PROVE  RowsStep
  <2> DEFINE new == UpdateRow(R(h), handler[h].v, "submitted")
  <2>1. handler[h].pc = "commit" /\ handler[h].op = "submit"
    BY <1>2 DEF SubmitIntent, Commits
  <2>2. ASSUME Current(handler[h])
        PROVE  Fine(h, new)
    <3>1. /\ handler[h].i \in Intents /\ handler[h].v \in Versions
          /\ R(h) \in [Versions -> Row] /\ GoodRows(R(h))
          /\ IsLatest(R(h), handler[h].v)
          /\ R(h)[handler[h].v].status \in Submittable
      BY <2>1, <2>2, CurrentStatus, FromValues
    <3>2. /\ new \in [Versions -> Row] /\ GoodRows(new) /\ Grows(R(h), new)
          /\ new[handler[h].v].status = "submitted"
          /\ \A w \in Versions : w # handler[h].v => new[w] = R(h)[w]
      BY <3>1, UpdateRows, SMTT(30)
    <3> HIDE DEF new
    <3> QED
      BY <3>1, <3>2 DEF NoNewActive
  <2>3. WriteRows(h, new)
    BY <1>2 DEF SubmitIntent, Transition
  <2> HIDE DEF new
  <2> QED
    BY <2>1, <2>2, <2>3, WriteRowsStep
<1>3. ASSUME NEW h \in Handlers, CompleteIntent(h) \/ CancelIntent(h)
      PROVE  RowsStep
  <2>1. PICK s \in Terminal :
          /\ handler[h].pc = "commit" /\ handler[h].op \in {"complete", "cancel"}
          /\ WriteRows(h, UpdateRow(R(h), handler[h].v, s))
    BY <1>3 DEF CompleteIntent, CancelIntent, Commits, Transition, Terminal
  <2> DEFINE new == UpdateRow(R(h), handler[h].v, s)
  <2>2. ASSUME Current(handler[h])
        PROVE  Fine(h, new)
    <3>1. /\ handler[h].i \in Intents /\ handler[h].v \in Versions
          /\ R(h) \in [Versions -> Row] /\ GoodRows(R(h))
          /\ IsLatest(R(h), handler[h].v)
          /\ R(h)[handler[h].v].status \in From(handler[h].op)
      BY <2>1, <2>2, CurrentStatus
    <3>2. R(h)[handler[h].v].status \in Cancelable
      BY <2>1, <3>1, FromValues DEF Completable, Cancelable
    <3> QED
      BY <3>1, <3>2, EndRows
  <2>3. WriteRows(h, new)
    BY <2>1
  <2> HIDE DEF new
  <2> QED
    BY <2>1, <2>2, <2>3, WriteRowsStep
<1>4. ASSUME NEW h \in Handlers, AcceptIntent(h)
      PROVE  RowsStep
  <2> DEFINE new == AcceptRow(R(h), handler[h].v)
  <2>1. handler[h].pc = "commit" /\ handler[h].op = "accept"
    BY <1>4 DEF AcceptIntent, Commits
  <2>2. ASSUME Current(handler[h])
        PROVE  Fine(h, new)
    <3>1. /\ handler[h].i \in Intents /\ handler[h].v \in Versions
          /\ R(h) \in [Versions -> Row] /\ GoodRows(R(h))
          /\ IsLatest(R(h), handler[h].v)
          /\ R(h)[handler[h].v].status \in Acceptable
      BY <2>1, <2>2, CurrentStatus, FromValues
    <3> QED
      BY <3>1, AcceptRows
  <2>3. WriteRows(h, new)
    BY <1>4 DEF AcceptIntent
  <2> HIDE DEF new
  <2> QED
    BY <2>1, <2>2, <2>3, WriteRowsStep
<1>5. ASSUME NEW h \in Handlers, ModifyIntent(h)
      PROVE  RowsStep
  <2> DEFINE new == ReplaceRow(R(h), handler[h].v)
  <2>1. handler[h].pc = "commit" /\ handler[h].op = "modify"
    BY <1>5 DEF ModifyIntent, Commits
  <2>2. ASSUME Current(handler[h])
        PROVE  Fine(h, new)
    <3>1. /\ handler[h].i \in Intents /\ handler[h].v \in Versions
          /\ R(h) \in [Versions -> Row] /\ GoodRows(R(h))
          /\ IsLatest(R(h), handler[h].v)
          /\ R(h)[handler[h].v].status \in Modifiable
      BY <2>1, <2>2, CurrentStatus, FromValues
    <3> QED
      BY <3>1, ReplaceRows
  <2>3. WriteRows(h, new)
    BY <1>5 DEF ModifyIntent
  <2> HIDE DEF new
  <2> QED
    BY <2>1, <2>2, <2>3, WriteRowsStep
<1>6. ASSUME NEW h \in Handlers,
             Read(h) \/ AddOperationalVolume(h) \/ Evaluate(h) \/ Record(h)
                \/ Abandon(h)
      PROVE  UNCHANGED rows
  BY <1>6 DEF Read, Load, ReadVolumes, ReadChecks, ReadFindings,
              AddOperationalVolume, Evaluate, Record, Abandon
<1>7. Restart => UNCHANGED rows
  BY DEF Restart
<1> QED
  BY <1>1, <1>2, <1>3, <1>4, <1>5, <1>6, <1>7, ActivateStep, RowsStay
     DEF Next, Write

-----------------------------------------------------------------------------
(* What a step does to the handlers, the volumes and the evidence.         *)

\* A handler that has returned.
LEMMA IdleOK ==
    /\ Idle \in Handler
    /\ \A all, now : HandlerOK(all, now, Idle)
<1>1. 1 \in Versions /\ 0 \in 0..MaxTime /\ 1 \in Evidence
  BY MaxVersionAssumption, LifecycleAssumption DEF Versions, Evidence
<1>2. Idle \in Handler
  BY <1>1 DEF Idle, Handler, Operations
<1>3. Idle.pc = "idle"
  BY DEF Idle
<1> QED
  BY <1>2, <1>3 DEF HandlerOK

\* The clock only advances.
ClockStep ==
    /\ clock' \in [Intents -> 0..MaxTime]
    /\ \A i \in Intents : clock[i] <= clock'[i]

\* A step that does not read the clock.
LEMMA ClockStays ==
    ASSUME IInv, UNCHANGED clock
    PROVE  ClockStep
<1>1. \A i \in Intents : clock[i] \in Nat
  BY LifecycleAssumption DEF IInv, TypeOK
<1> QED
  BY <1>1 DEF IInv, TypeOK, ClockStep

\* A reading of the clock is later than all before it.
LEMMA ClockTicks ==
    ASSUME IInv, NEW i \in Intents, Tick(i)
    PROVE  /\ ClockStep
           /\ clock'[i] = clock[i] + 1
           /\ clock'[i] \in Times
           /\ \A j \in Intents : j # i => clock'[j] = clock[j]
BY LifecycleAssumption DEF IInv, TypeOK, ClockStep, Tick, Times

\* What a handler has read stays seen while others write.
LEMMA StillOK ==
    ASSUME IInv, RowsStep, ClockStep, NEW r \in Handler, HandlerOK(rows, clock, r)
    PROVE  HandlerOK(rows', clock', r)
<1>1. rows \in [Intents -> [Versions -> Row]]
      /\ rows' \in [Intents -> [Versions -> Row]]
  BY DEF IInv, TypeOK, RowsStep
<1>2. r.v \in Versions /\ r.rev \in Nat /\ r.at \in 0..MaxTime
  BY DEF Handler
<1>3. ASSUME r.pc # "idle"
      PROVE  Seen(rows', r)
  <2>1. Seen(rows, r)
    BY <1>3 DEF HandlerOK
  <2>2. r.i \in Intents /\ Grows(rows[r.i], rows'[r.i])
    BY <2>1 DEF Seen, RowsStep
  <2>3. rows[r.i][r.v].rev \in Nat /\ rows'[r.i][r.v].rev \in Nat
    BY <1>1, <1>2, <2>2 DEF Row
  <2>4. /\ Exists(rows'[r.i], r.v)
        /\ \/ rows'[r.i][r.v] = rows[r.i][r.v]
           \/ rows'[r.i][r.v].rev > rows[r.i][r.v].rev
    BY <1>2, <2>1, <2>2 DEF Seen, Grows
  <2>5. /\ r.rev <= rows[r.i][r.v].rev
        /\ r.rev = rows[r.i][r.v].rev => rows[r.i][r.v].status \in From(r.op)
    BY <2>1 DEF Seen
  <2>6. /\ r.rev <= rows'[r.i][r.v].rev
        /\ r.rev = rows'[r.i][r.v].rev => rows'[r.i][r.v].status \in From(r.op)
    BY <1>2, <2>3, <2>4, <2>5
  <2> QED
    BY <2>2, <2>4, <2>6 DEF Seen
<1>4. ASSUME r.pc = "record"
      PROVE  r.at <= clock'[r.i]
  <2>1. r.i \in Intents /\ r.at <= clock[r.i]
    BY <1>4 DEF HandlerOK, Seen
  <2> QED
    BY <1>2, <2>1, LifecycleAssumption DEF ClockStep, IInv, TypeOK
<1> QED
  BY <1>3, <1>4 DEF HandlerOK

\* Handler h goes on as x, the others as they were.
Continues(h, x) ==
    /\ handler' = [handler EXCEPT ![h] = x]
    /\ x \in Handler
    /\ HandlerOK(rows', clock', x)

\* The first read of an operation.
LEMMA LoadStep ==
    ASSUME IInv, RowsStep, NEW h \in Handlers, NEW op \in Operations,
           NEW i \in Intents, NEW v \in Versions, Load(h, op, i, v)
    PROVE  ClockStep /\ \E x : Continues(h, x)
<1> DEFINE x == [Idle EXCEPT
               !.pc = IF op \in {"activate", "evaluate"} THEN "volumes"
                      ELSE "commit",
               !.op = op, !.i = i, !.v = v, !.rev = rows[i][v].rev,
               !.at = IF op \in {"add", "modify"} THEN clock'[i] ELSE 0]
<1>1. ClockStep /\ (op \in {"add", "modify"} => clock'[i] \in Times)
  BY ClockTicks, ClockStays DEF Load
<1>2. handler' = [handler EXCEPT ![h] = x]
  BY DEF Load, Continue
<1>3. rows[i][v].rev \in Nat /\ rows[i][v] \in Row
  BY DEF IInv, TypeOK, Row
<1>4. Idle \in Handler
  BY IdleOK
<1>5. x.at \in 0..MaxTime
  BY <1>1, LifecycleAssumption DEF Idle, Times
<1>6. x \in Handler
  BY <1>3, <1>4, <1>5 DEF Handler, Idle
<1>7. /\ x.pc \in {"volumes", "commit"} /\ x.op = op /\ x.i = i /\ x.v = v
      /\ x.rev = rows[i][v].rev
      /\ op \in {"add", "modify"} => x.at \in Times
  BY <1>1 DEF Idle
<1> HIDE DEF x
<1>8. rows' = rows /\ IsLatest(rows[i], v) /\ rows[i][v].status \in From(op)
  BY DEF Load
<1>9. Seen(rows', x)
  BY <1>3, <1>7, <1>8 DEF Seen, IsLatest
<1>10. HandlerOK(rows', clock', x)
  BY <1>7, <1>9 DEF HandlerOK
<1> QED
  BY <1>1, <1>2, <1>6, <1>10 DEF Continues

\* The later reads of an activation, and the evaluation.
LEMMA ReadStep ==
    ASSUME IInv, RowsStep, NEW h \in Handlers,
           ReadVolumes(h) \/ ReadChecks(h) \/ ReadFindings(h) \/ Evaluate(h)
    PROVE  ClockStep /\ \E x : Continues(h, x)
<1> DEFINE r == handler[h]
<1>1. r \in Handler /\ HandlerOK(rows, clock, r)
  BY DEF IInv, TypeOK, HandlerInv
<1>2. r.pc # "idle" /\ Seen(rows, r) /\ r.i \in Intents /\ r.v \in Versions
  BY <1>1 DEF ReadVolumes, ReadChecks, ReadFindings, Evaluate, HandlerOK, Seen,
              Handler
<1>3. volumes[r.i][r.v] \subseteq Times
  BY <1>2 DEF IInv, TypeOK
<1>4. ClockStep
  BY <1>2, ClockTicks, ClockStays
     DEF ReadVolumes, ReadChecks, ReadFindings, Evaluate
<1>5. HandlerOK(rows', clock', r)
  BY <1>1, <1>4, StillOK
<1>6. CASE Return(h)
  BY <1>4, <1>6, IdleOK DEF Return, Continues
<1>7. ASSUME ReadVolumes(h), ~Return(h)
      PROVE  \E x : Continues(h, x)
  <2> DEFINE x == [r EXCEPT !.pc = "checks", !.saw = volumes[r.i][r.v]]
  <2>1. handler' = [handler EXCEPT ![h] = x] /\ r.op = "activate"
    BY <1>7 DEF ReadVolumes, Continue
  <2>2. x \in Handler
    BY <1>1, <1>3 DEF Handler
  <2>3. HandlerOK(rows', clock', x)
    BY <1>1, <1>2, <1>5, <2>1 DEF HandlerOK, Seen, Handler
  <2> QED
    BY <2>1, <2>2, <2>3 DEF Continues
<1>8. ASSUME ReadChecks(h), ~Return(h)
      PROVE  \E x : Continues(h, x)
  <2> DEFINE x == [r EXCEPT !.pc = "findings", !.saw = {}]
  <2>1. handler' = [handler EXCEPT ![h] = x] /\ r.pc = "checks"
    BY <1>8 DEF ReadChecks, Continue
  <2>2. x \in Handler
    BY <1>1 DEF Handler
  <2>3. HandlerOK(rows', clock', x)
    BY <1>1, <1>2, <1>5, <2>1 DEF HandlerOK, Seen, Handler
  <2> QED
    BY <2>1, <2>2, <2>3 DEF Continues
<1>9. ASSUME ReadFindings(h), ~Return(h)
      PROVE  \E x : Continues(h, x)
  <2> DEFINE x == [r EXCEPT !.pc = "commit"]
  <2>1. handler' = [handler EXCEPT ![h] = x] /\ r.pc = "findings"
    BY <1>9 DEF ReadFindings, Continue
  <2>2. x \in Handler
    BY <1>1 DEF Handler
  <2>3. HandlerOK(rows', clock', x)
    BY <1>1, <1>2, <1>5, <2>1 DEF HandlerOK, Seen, Handler
  <2> QED
    BY <2>1, <2>2, <2>3 DEF Continues
<1>10. ASSUME Evaluate(h)
       PROVE  \E x : Continues(h, x)
  <2>1. PICK blocking \in SUBSET Checks :
          handler' = [handler EXCEPT ![h] =
              [r EXCEPT !.pc = "record", !.at = clock'[r.i],
                        !.saw = volumes[r.i][r.v], !.blocking = blocking]]
    BY <1>10 DEF Evaluate, Continue
  <2> DEFINE x == [r EXCEPT !.pc = "record", !.at = clock'[r.i],
                            !.saw = volumes[r.i][r.v], !.blocking = blocking]
  <2>2. clock'[r.i] \in 0..MaxTime
    BY <1>2, <1>4 DEF ClockStep
  <2>3. x \in Handler
    BY <1>1, <1>3, <2>2 DEF Handler
  <2>4. r.op = "evaluate" /\ x.pc = "record" /\ x.op = r.op /\ x.i = r.i
        /\ x.v = r.v /\ x.rev = r.rev /\ x.at = clock'[r.i]
    BY <1>1, <1>10 DEF Evaluate, Handler
  <2> HIDE DEF x
  <2>5. Seen(rows', x)
    BY <1>2, <1>5, <2>4 DEF Seen, HandlerOK
  <2>6. HandlerOK(rows', clock', x)
    BY <2>2, <2>4, <2>5, LifecycleAssumption DEF HandlerOK
  <2> QED
    BY <2>1, <2>3, <2>6 DEF Continues, x
<1> QED
  BY <1>4, <1>6, <1>7, <1>8, <1>9, <1>10

\* One row of evidence.
LEMMA RecordStep ==
    ASSUME IInv, RowsStep, NEW h \in Handlers, Record(h)
    PROVE  ClockStep /\ \E x : Continues(h, x)
<1> DEFINE r == handler[h]
           x == [r EXCEPT !.n = r.n + 1]
<1>1. r \in Handler /\ HandlerOK(rows, clock, r)
  BY DEF IInv, TypeOK, HandlerInv
<1>2. ClockStep
  BY ClockStays DEF Record
<1>3. HandlerOK(rows', clock', r)
  BY <1>1, <1>2, StillOK
<1>4. CASE r.n = 3
  BY <1>2, <1>4, IdleOK DEF Record, Return, Continues
<1>5. CASE r.n # 3
  <2>1. handler' = [handler EXCEPT ![h] = x]
    BY <1>5 DEF Record, Continue
  <2>2. r.n + 1 \in Evidence
    BY <1>1, <1>5 DEF Handler, Evidence
  <2>3. x \in Handler
    BY <1>1, <2>2 DEF Handler
  <2>4. HandlerOK(rows', clock', x)
    BY <1>1, <1>3 DEF HandlerOK, Seen, Handler
  <2> QED
    BY <1>2, <2>1, <2>3, <2>4 DEF Continues
<1> QED
  BY <1>4, <1>5

\* Every step advances one handler, or all have returned after it.
LEMMA HandlerChange ==
    ASSUME IInv, Next
    PROVE  /\ ClockStep
           /\ \/ UNCHANGED handler
              \/ handler' = [h \in Handlers |-> Idle]
              \/ \E h \in Handlers : \E x : Continues(h, x)
<1>1. RowsStep
  BY RowsChange
<1>2. ASSUME NEW i \in Intents, CreateIntent(i)
      PROVE  ClockStep /\ UNCHANGED handler
  BY <1>2, ClockStays DEF CreateIntent
<1>3. ASSUME NEW h \in Handlers, Read(h) \/ Evaluate(h) \/ Record(h)
      PROVE  ClockStep /\ \E x : Continues(h, x)
  BY <1>1, <1>3, LoadStep, ReadStep, RecordStep DEF Read
<1>4. ASSUME NEW h \in Handlers, Write(h) \/ Abandon(h)
      PROVE  ClockStep /\ \E x : Continues(h, x)
  <2>1. UNCHANGED clock /\ handler' = [handler EXCEPT ![h] = Idle]
    BY <1>4 DEF Write, Abandon, SubmitIntent, AcceptIntent, ActivateIntent,
                CompleteIntent, CancelIntent, ModifyIntent,
                AddOperationalVolume, Transition, WriteRows, Return
  <2> QED
    BY <2>1, ClockStays, IdleOK DEF Continues
<1>5. Restart => ClockStep /\ handler' = [h \in Handlers |-> Idle]
  BY ClockStays DEF Restart
<1> QED
  BY <1>2, <1>3, <1>4, <1>5 DEF Next

\* Only RecordOperationalVolume and ReplaceOperationalIntent write volumes.
LEMMA VolumeWriters ==
    ASSUME Next
    PROVE  \/ UNCHANGED volumes
           \/ \E h \in Handlers : AddOperationalVolume(h) \/ ModifyIntent(h)
<1>1. ASSUME NEW i \in Intents, CreateIntent(i) PROVE UNCHANGED volumes
  BY <1>1 DEF CreateIntent
<1>2. ASSUME NEW h \in Handlers, Read(h) PROVE UNCHANGED volumes
  BY <1>2 DEF Read, Load, ReadVolumes, ReadChecks, ReadFindings
<1>3. ASSUME NEW h \in Handlers, Write(h)
      PROVE  UNCHANGED volumes \/ AddOperationalVolume(h) \/ ModifyIntent(h)
  <2>1. ASSUME SubmitIntent(h) \/ CompleteIntent(h) \/ CancelIntent(h)
        PROVE  UNCHANGED volumes
    BY <2>1 DEF SubmitIntent, CompleteIntent, CancelIntent, Transition
  <2>2. ASSUME AcceptIntent(h) \/ ActivateIntent(h) PROVE UNCHANGED volumes
    BY <2>2 DEF AcceptIntent, ActivateIntent
  <2> QED
    BY <1>3, <2>1, <2>2 DEF Write
<1>4. ASSUME NEW h \in Handlers, Evaluate(h) \/ Record(h) \/ Abandon(h)
      PROVE  UNCHANGED volumes
  BY <1>4 DEF Evaluate, Record, Abandon
<1>5. Restart => UNCHANGED volumes
  BY DEF Restart
<1> QED
  BY <1>1, <1>2, <1>3, <1>4, <1>5 DEF Next

\* Only the recording of a check writes evidence, and a restart loses it.
LEMMA EvidenceWriters ==
    ASSUME Next
    PROVE  \/ UNCHANGED evidence \/ Restart \/ \E h \in Handlers : Record(h)
<1>1. ASSUME NEW i \in Intents, CreateIntent(i) PROVE UNCHANGED evidence
  BY <1>1 DEF CreateIntent
<1>2. ASSUME NEW h \in Handlers, Read(h) PROVE UNCHANGED evidence
  BY <1>2 DEF Read, Load, ReadVolumes, ReadChecks, ReadFindings
<1>3. ASSUME NEW h \in Handlers, Write(h) PROVE UNCHANGED evidence
  <2>1. ASSUME SubmitIntent(h) \/ CompleteIntent(h) \/ CancelIntent(h)
        PROVE  UNCHANGED evidence
    BY <2>1 DEF SubmitIntent, CompleteIntent, CancelIntent, Transition, WriteRows
  <2>2. ASSUME AcceptIntent(h) \/ ActivateIntent(h) PROVE UNCHANGED evidence
    BY <2>2 DEF AcceptIntent, ActivateIntent, WriteRows
  <2>3. ASSUME ModifyIntent(h) \/ AddOperationalVolume(h)
        PROVE  UNCHANGED evidence
    BY <2>3 DEF ModifyIntent, AddOperationalVolume, WriteRows
  <2> QED
    BY <1>3, <2>1, <2>2, <2>3 DEF Write
<1>4. ASSUME NEW h \in Handlers, Evaluate(h) \/ Abandon(h)
      PROVE  UNCHANGED evidence
  BY <1>4 DEF Evaluate, Abandon
<1> QED
  BY <1>1, <1>2, <1>3, <1>4 DEF Next

\* The evidence with one record written.
Recorded(i, v, n, e) == [evidence EXCEPT ![i][v][n] = e]

\* A record of evidence is written, and no other changes.
LEMMA OneWritten ==
    ASSUME TypeOK,
           NEW i \in Intents, NEW v \in Versions, NEW n \in Evidence, NEW e,
           evidence' = Recorded(i, v, n, e)
    PROVE  \A j \in Intents, w \in Versions, k \in Evidence :
               \/ evidence'[j][w][k] = evidence[j][w][k]
               \/ j = i /\ w = v /\ evidence'[j][w][k] = e
<1> SUFFICES ASSUME NEW j \in Intents, NEW w \in Versions, NEW k \in Evidence
             PROVE  \/ evidence'[j][w][k] = evidence[j][w][k]
                    \/ j = i /\ w = v /\ evidence'[j][w][k] = e
  OBVIOUS
<1>0. evidence \in [Intents -> [Versions -> [Evidence -> EvidenceRecord]]]
  BY DEF TypeOK
<1>1. /\ j # i => evidence'[j] = evidence[j]
      /\ j = i => evidence'[j] = [evidence[j] EXCEPT ![v][n] = e]
  BY <1>0 DEF Recorded
<1>2. evidence[j] \in [Versions -> [Evidence -> EvidenceRecord]]
  BY <1>0
<1>3. CASE j = i
  <2>1. /\ w # v => evidence'[j][w] = evidence[j][w]
        /\ w = v => evidence'[j][w] = [evidence[j][w] EXCEPT ![n] = e]
    BY <1>1, <1>2, <1>3
  <2>2. evidence[j][w] \in [Evidence -> EvidenceRecord]
    BY <1>2
  <2> QED
    BY <1>3, <2>1, <2>2
<1> QED
  BY <1>1, <1>3

\* What is stored has its type, and no evidence is from the future.
LEMMA StoredChange ==
    ASSUME IInv, Next
    PROVE  /\ volumes' \in [Intents -> [Versions -> SUBSET Times]]
           /\ evidence' \in [Intents -> [Versions -> [Evidence -> EvidenceRecord]]]
           /\ EvidenceInv'
<1> DEFINE VolumesType == [Intents -> [Versions -> SUBSET Times]]
           EvidenceType == [Intents -> [Versions -> [Evidence -> EvidenceRecord]]]
<1>1. volumes \in VolumesType /\ evidence \in EvidenceType /\ EvidenceInv
  BY DEF IInv, TypeOK
<1>2. ClockStep
  BY HandlerChange
<1>3. ASSUME UNCHANGED evidence
      PROVE  evidence' \in EvidenceType /\ EvidenceInv'
  <2>1. \A i \in Intents, v \in Versions, k \in Evidence :
          evidence[i][v][k].at \in Nat /\ clock[i] \in Nat /\ clock'[i] \in Nat
    BY <1>1, <1>2, LifecycleAssumption
       DEF EvidenceRecord, IInv, TypeOK, ClockStep
  <2>2. ASSUME NEW i \in Intents, NEW v \in Versions, NEW k \in Evidence
        PROVE  evidence'[i][v][k].at <= clock'[i]
    <3>1. evidence[i][v][k].at <= clock[i] /\ clock[i] <= clock'[i]
      BY <1>1, <1>2 DEF EvidenceInv, ClockStep
    <3> QED
      BY <1>3, <2>1, <3>1
  <2> QED
    BY <1>1, <1>3, <2>2 DEF EvidenceInv
<1>4. ASSUME NEW h \in Handlers, Record(h)
      PROVE  evidence' \in EvidenceType /\ EvidenceInv'
  <2> DEFINE r == handler[h]
             b == IF r.n \in Checks THEN r.n \in r.blocking ELSE r.blocking # {}
             e == [at |-> r.at, blocking |-> b, saw |-> r.saw]
  <2>1. /\ r \in Handler /\ r.i \in Intents /\ r.at <= clock[r.i]
        /\ r.v \in Versions /\ r.n \in Evidence /\ r.at \in 0..MaxTime
        /\ r.saw \in SUBSET Times
    BY <1>4 DEF IInv, TypeOK, HandlerInv, HandlerOK, Seen, Record, Handler
  <2>2. b \in BOOLEAN
    <3>1. (r.n \in r.blocking) \in BOOLEAN /\ (r.blocking # {}) \in BOOLEAN
      OBVIOUS
    <3> QED
      BY <3>1, Zenon
  <2> HIDE DEF b
  <2>3. e \in EvidenceRecord
    BY <2>1, <2>2 DEF EvidenceRecord
  <2>4. evidence' = [evidence EXCEPT ![r.i][r.v][r.n] = e] /\ UNCHANGED clock
    BY <1>4 DEF Record, b
  <2>5. e.at <= clock[r.i]
    BY <2>1
  <2> HIDE DEF e
  <2>6. evidence' \in EvidenceType
    BY <1>1, <2>1, <2>3, <2>4
  <2>7. ASSUME NEW i \in Intents, NEW v \in Versions, NEW k \in Evidence
        PROVE  evidence'[i][v][k].at <= clock[i]
    <3>1. evidence'[i][v][k] = evidence[i][v][k]
          \/ (i = r.i /\ evidence'[i][v][k] = e)
      <4>1. TypeOK
        BY DEF IInv
      <4>2. evidence' = Recorded(r.i, r.v, r.n, e)
        BY <2>4 DEF Recorded
      <4>3. r.i \in Intents /\ r.v \in Versions /\ r.n \in Evidence
        BY <2>1
      <4>4. \A y \in Intents, u \in Versions, l \in Evidence :
              \/ evidence'[y][u][l] = evidence[y][u][l]
              \/ y = r.i /\ u = r.v /\ evidence'[y][u][l] = e
        BY <4>1, <4>2, <4>3, OneWritten, SMTT(30)
      <4> QED
        BY <4>4
    <3> QED
      BY <1>1, <2>5, <3>1 DEF EvidenceInv
  <2> QED
    BY <2>4, <2>6, <2>7 DEF EvidenceInv
<1>5. ASSUME Restart
      PROVE  evidence' \in EvidenceType /\ EvidenceInv'
  <2>1. evidence' = NoEvidenceYet /\ UNCHANGED clock
    BY <1>5 DEF Restart
  <2>2. NoEvidence \in EvidenceRecord /\ NoEvidence.at = 0
    BY LifecycleAssumption DEF NoEvidence, EvidenceRecord
  <2>3. \A i \in Intents : 0 <= clock[i]
    BY LifecycleAssumption DEF IInv, TypeOK
  <2> QED
    BY <2>1, <2>2, <2>3 DEF NoEvidenceYet, EvidenceInv
<1>6. evidence' \in EvidenceType /\ EvidenceInv'
  <2>1. \/ UNCHANGED evidence \/ Restart \/ \E h \in Handlers : Record(h)
    BY EvidenceWriters
  <2> QED
    BY <2>1, <1>3, <1>4, <1>5
<1>7. volumes' \in VolumesType
  <2>1. ASSUME NEW h \in Handlers, AddOperationalVolume(h)
        PROVE  volumes' \in VolumesType
    <3>1. handler[h].at \in Times /\ handler[h].i \in Intents
          /\ handler[h].v \in Versions
      BY <2>1 DEF AddOperationalVolume, Commits, IInv, HandlerInv, HandlerOK,
                  Seen, TypeOK, Handler
    <3> QED
      BY <1>1, <2>1, <3>1 DEF AddOperationalVolume
  <2>2. ASSUME NEW h \in Handlers, ModifyIntent(h)
        PROVE  volumes' \in VolumesType
    <3>1. handler[h].at \in Times /\ handler[h].i \in Intents
          /\ handler[h].v \in Versions
      BY <2>2 DEF ModifyIntent, Commits, IInv, HandlerInv, HandlerOK, Seen,
                  TypeOK, Handler
    <3>2. PICK new \in {{}, {handler[h].at}} :
            volumes' = IF Current(handler[h])
                       THEN [volumes EXCEPT
                               ![handler[h].i][ModifiedVersion(handler[h])] = new]
                       ELSE volumes
      BY <2>2 DEF ModifyIntent
    <3>3. new \in SUBSET Times
      BY <3>1
    <3> QED
      BY <1>1, <3>1, <3>2, <3>3
  <2>3. \/ UNCHANGED volumes
        \/ \E h \in Handlers : AddOperationalVolume(h) \/ ModifyIntent(h)
    BY VolumeWriters
  <2> QED
    BY <1>1, <2>1, <2>2, <2>3
<1> QED
  BY <1>6, <1>7

-----------------------------------------------------------------------------
(* The invariant is inductive.                                             *)

\* The invariant holds at the start.
LEMMA InitIInv == Init => IInv
<1> SUFFICES ASSUME Init PROVE IInv
  OBVIOUS
<1>0. 1 \in Versions /\ 0 \in 0..MaxTime
  BY MaxVersionAssumption, LifecycleAssumption DEF Versions
<1>1. PICK seeded \in SUBSET Intents :
        rows = [i \in Intents |-> [v \in Versions |->
                  IF i \in seeded /\ v = 1
                  THEN [status |-> "review", rev |-> 0] ELSE NoRow]]
  BY DEF Init
<1>2. \A i \in Intents, v \in Versions :
        /\ rows[i][v] \in Row
        /\ rows[i][v].status \in {"review", "none"}
        /\ rows[i][v].status = "review" => v = 1
  BY <1>1 DEF Row, NoRow, IntentStatus
<1>3. rows \in [Intents -> [Versions -> Row]]
  BY <1>1, <1>2
<1>4. RowsInv
  BY <1>0, <1>2 DEF RowsInv, GoodRows, Exists, Reserving
<1>5. OneActivePerAircraft
  BY <1>2 DEF OneActivePerAircraft
<1>6. handler \in [Handlers -> Handler] /\ HandlerInv
  BY IdleOK DEF Init, HandlerInv
<1>7. NoEvidence \in EvidenceRecord /\ NoEvidence.at = 0
  BY <1>0 DEF NoEvidence, EvidenceRecord
<1>8. evidence \in [Intents -> [Versions -> [Evidence -> EvidenceRecord]]]
      /\ EvidenceInv
  BY <1>7 DEF Init, NoEvidenceYet, EvidenceInv
<1>9. volumes \in [Intents -> [Versions -> SUBSET Times]]
      /\ clock \in [Intents -> 0..MaxTime] /\ inTurn \in BOOLEAN
  BY <1>0 DEF Init
<1> QED
  BY <1>3, <1>4, <1>5, <1>6, <1>8, <1>9 DEF IInv, TypeOK

\* Every step keeps the invariant.
LEMMA NextIInv == IInv /\ [Next]_vars => IInv'
<1> SUFFICES ASSUME IInv, [Next]_vars PROVE IInv'
  OBVIOUS
<1>1. CASE Next
  <2>1. RowsStep
    BY <1>1, RowsChange
  <2>2. ClockStep
    BY <1>1, HandlerChange
  <2>3. handler' \in [Handlers -> Handler] /\ HandlerInv'
    <3>1. \A h \in Handlers : handler[h] \in Handler
                             /\ HandlerOK(rows', clock', handler[h])
      BY <2>1, <2>2, StillOK DEF IInv, TypeOK, HandlerInv
    <3>2. CASE UNCHANGED handler
      BY <3>1, <3>2 DEF IInv, TypeOK, HandlerInv
    <3>3. CASE handler' = [h \in Handlers |-> Idle]
      BY <3>3, IdleOK DEF HandlerInv
    <3>4. ASSUME NEW h \in Handlers, NEW x, Continues(h, x)
          PROVE  handler' \in [Handlers -> Handler] /\ HandlerInv'
      <4>1. handler' = [handler EXCEPT ![h] = x] /\ x \in Handler
            /\ HandlerOK(rows', clock', x) /\ handler \in [Handlers -> Handler]
        BY <3>4 DEF Continues, IInv, TypeOK
      <4> QED
        BY <3>1, <4>1 DEF HandlerInv
    <3> QED
      BY <1>1, <3>2, <3>3, <3>4, HandlerChange
  <2>4. inTurn' \in BOOLEAN
    BY <1>1 DEF Next, IInv, TypeOK
  <2>5. TypeOK'
    BY <1>1, <2>1, <2>2, <2>3, <2>4, StoredChange DEF TypeOK, RowsStep, ClockStep
  <2> QED
    BY <1>1, <2>1, <2>3, <2>5, StoredChange DEF IInv, RowsStep, RowsInv
<1>2. CASE UNCHANGED vars
  BY <1>2 DEF vars, IInv, TypeOK, RowsInv, OneActivePerAircraft, HandlerInv,
              EvidenceInv
<1> QED
  BY <1>1, <1>2

\* The invariant holds in every reachable state.
THEOREM LifecycleInvariance == Spec => []IInv
BY InitIInv, NextIInv, PTL DEF Spec

\* Type correctness.
THEOREM LifecycleTypes == Spec => []TypeOK
<1>1. IInv => TypeOK
  BY DEF IInv
<1> QED
  BY <1>1, LifecycleInvariance, PTL

\* At most one version of an intent reserves airspace, and none once its
\* latest version is complete or canceled, whatever handlers race.
THEOREM SingleReservation == Spec => []OneReservation
<1>1. IInv => OneReservation
  BY DEF IInv, RowsInv, GoodRows, OneReservation
<1> QED
  BY <1>1, LifecycleInvariance, PTL

\* A write that supersedes nothing, and that takes an accepted status from the
\* latest version only.
LEMMA NothingGivesWay ==
    ASSUME NEW R, NEW S,
           \A w \in Versions :
               S[w].status # R[w].status =>
                   /\ S[w].status # "superseded"
                   /\ R[w].status = "accepted" => IsLatest(R, w)
    PROVE  GivesWay(R, S)
BY DEF GivesWay

\* SetWithPrior of the latest version, as AcceptRow and UpdateRow use it.
LEMMA PriorGivesWay ==
    ASSUME NEW R \in [Versions -> Row], NEW v \in Versions, IsLatest(R, v),
           NEW own \in IntentStatus, NEW prior \in IntentStatus,
           R[v].status # own, own # "superseded",
           own = IF prior = "superseded" THEN "accepted" ELSE prior
    PROVE  GivesWay(R, SetWithPrior(R, v, own, prior))
<1> DEFINE S == SetWithPrior(R, v, own, prior)
<1>1. /\ S[v] = [status |-> own, rev |-> R[v].rev + 1]
      /\ \A w \in Versions : w < v /\ R[w].status = "accepted" =>
            S[w] = [status |-> prior, rev |-> R[w].rev + 1]
      /\ \A w \in Versions : w # v /\ ~(w < v /\ R[w].status = "accepted") =>
            S[w] = R[w]
  BY SetWithPriorShape
<1> HIDE DEF S
<1>2. S[v].status = own
  BY <1>1
<1>3. ASSUME NEW w \in Versions, w < v, R[w].status = "accepted"
      PROVE  S[w].status = prior
  <2>1. S[w] = [status |-> prior, rev |-> R[w].rev + 1]
    BY <1>1, <1>3
  <2> QED
    BY <2>1
<1>4. SUFFICES ASSUME NEW w \in Versions, S[w].status # R[w].status,
                      \/ S[w].status = "superseded"
                      \/ R[w].status = "accepted" /\ ~IsLatest(R, w)
               PROVE  /\ R[w].status = "accepted"
                      /\ v > w /\ S[v].status # R[v].status
                      /\ S[v].status = IF S[w].status = "superseded"
                                       THEN "accepted" ELSE S[w].status
  BY DEF GivesWay, S
<1>5. w # v
  BY <1>2, <1>4
<1>6. w < v /\ R[w].status = "accepted"
  BY <1>1, <1>4, <1>5
<1> QED
  BY <1>2, <1>3, <1>6 DEF Versions

\* The rows of one intent that are written, and the others that are not.
LEMMA OneGivesWay ==
    ASSUME IInv, NEW h \in Handlers, handler[h].pc = "commit", NEW new,
           WriteRows(h, new),
           Current(handler[h]) => GivesWay(rows[handler[h].i], new)
    PROVE  \A i \in Intents : GivesWay(rows[i], rows'[i])
<1>1. rows \in [Intents -> [Versions -> Row]]
  BY DEF IInv, TypeOK
<1>2. \A i \in Intents : GivesWay(rows[i], rows[i])
  BY NothingGivesWay
<1>3. CASE Current(handler[h])
  <2>1. rows' = [rows EXCEPT ![handler[h].i] = new]
    BY <1>3 DEF WriteRows
  <2>2. \A i \in Intents :
          rows'[i] = IF i = handler[h].i THEN new ELSE rows[i]
    BY <1>1, <2>1
  <2> QED
    BY <1>2, <1>3, <2>2
<1>4. CASE ~Current(handler[h])
  BY <1>2, <1>4 DEF WriteRows
<1> QED
  BY <1>3, <1>4

\* Every step of every handler.
LEMMA NextGivesWay ==
    ASSUME IInv, Next
    PROVE  \A i \in Intents : GivesWay(rows[i], rows'[i])
<1> DEFINE Goal == \A i \in Intents : GivesWay(rows[i], rows'[i])
           R(h) == rows[handler[h].i]
<1>1. rows \in [Intents -> [Versions -> Row]]
  BY DEF IInv, TypeOK
<1>2. ASSUME NEW j \in Intents, CreateIntent(j)
      PROVE  Goal
  <2>1. \A i \in Intents, w \in Versions :
           rows'[i][w].status # rows[i][w].status =>
               rows'[i][w].status = "draft" /\ rows[i][w].status = "none"
    BY <1>1, <1>2 DEF CreateIntent, Exists
  <2> QED
    BY <2>1, NothingGivesWay
<1>3. ASSUME NEW h \in Handlers, NEW s \in {"submitted", "active"},
             handler[h].pc = "commit",
             WriteRows(h, UpdateRow(R(h), handler[h].v, s))
      PROVE  Goal
  <2> DEFINE new == UpdateRow(R(h), handler[h].v, s)
  <2>1. ASSUME Current(handler[h])
        PROVE  GivesWay(R(h), new)
    <3>1. /\ handler[h].v \in Versions /\ R(h) \in [Versions -> Row]
          /\ IsLatest(R(h), handler[h].v)
      BY <1>3, <2>1, CurrentStatus
    <3>2. new = [R(h) EXCEPT ![handler[h].v] =
                    [status |-> s, rev |-> @.rev + 1]]
      BY <1>3 DEF UpdateRow, Terminal
    <3>3. \A w \in Versions : w # handler[h].v => new[w] = R(h)[w]
      BY <3>1, <3>2
    <3>4. new[handler[h].v].status = s
      BY <3>1, <3>2
    <3> HIDE DEF new
    <3> QED
      BY <1>3, <3>1, <3>3, <3>4, NothingGivesWay
  <2>2. WriteRows(h, new)
    BY <1>3
  <2> HIDE DEF new
  <2> QED
    BY <1>3, <2>1, <2>2, OneGivesWay
<1>4. ASSUME NEW h \in Handlers, CompleteIntent(h) \/ CancelIntent(h)
      PROVE  Goal
  <2>1. PICK s \in Terminal :
          /\ handler[h].pc = "commit" /\ handler[h].op \in {"complete", "cancel"}
          /\ WriteRows(h, UpdateRow(R(h), handler[h].v, s))
    BY <1>4 DEF CompleteIntent, CancelIntent, Commits, Transition, Terminal
  <2> DEFINE new == UpdateRow(R(h), handler[h].v, s)
  <2>2. ASSUME Current(handler[h])
        PROVE  GivesWay(R(h), new)
    <3>1. /\ handler[h].v \in Versions /\ R(h) \in [Versions -> Row]
          /\ IsLatest(R(h), handler[h].v)
          /\ R(h)[handler[h].v].status \in From(handler[h].op)
      BY <2>1, <2>2, CurrentStatus
    <3>2. R(h)[handler[h].v].status # s
      BY <2>1, <3>1, FromValues DEF Completable, Cancelable, Terminal
    <3>3. new = SetWithPrior(R(h), handler[h].v, s, s)
      BY <2>1 DEF UpdateRow
    <3>4. s \in IntentStatus /\ s # "superseded"
      BY <2>1 DEF Terminal, IntentStatus
    <3> QED
      BY <3>1, <3>2, <3>3, <3>4, PriorGivesWay
  <2>3. WriteRows(h, new)
    BY <2>1
  <2> HIDE DEF new
  <2> QED
    BY <2>1, <2>2, <2>3, OneGivesWay
<1>5. ASSUME NEW h \in Handlers, AcceptIntent(h)
      PROVE  Goal
  <2> DEFINE new == AcceptRow(R(h), handler[h].v)
  <2>1. handler[h].pc = "commit" /\ handler[h].op = "accept"
    BY <1>5 DEF AcceptIntent, Commits
  <2>2. ASSUME Current(handler[h])
        PROVE  GivesWay(R(h), new)
    <3>1. /\ handler[h].v \in Versions /\ R(h) \in [Versions -> Row]
          /\ IsLatest(R(h), handler[h].v)
          /\ R(h)[handler[h].v].status \in Acceptable
      BY <2>1, <2>2, CurrentStatus, FromValues
    <3>2. R(h)[handler[h].v].status # "accepted"
      BY <3>1 DEF Acceptable
    <3>3. new = SetWithPrior(R(h), handler[h].v, "accepted", "superseded")
      BY DEF AcceptRow
    <3>4. "accepted" \in IntentStatus /\ "superseded" \in IntentStatus
      BY DEF IntentStatus
    <3> QED
      BY <3>1, <3>2, <3>3, <3>4, PriorGivesWay
  <2>3. WriteRows(h, new)
    BY <1>5 DEF AcceptIntent
  <2> HIDE DEF new
  <2> QED
    BY <2>1, <2>2, <2>3, OneGivesWay
<1>6. ASSUME NEW h \in Handlers, ModifyIntent(h)
      PROVE  Goal
  <2> DEFINE new == ReplaceRow(R(h), handler[h].v)
  <2>1. handler[h].pc = "commit"
    BY <1>6 DEF ModifyIntent, Commits
  <2>2. ASSUME Current(handler[h])
        PROVE  GivesWay(R(h), new)
    <3>1. /\ handler[h].v \in Versions /\ R(h) \in [Versions -> Row]
          /\ IsLatest(R(h), handler[h].v)
      BY <2>1, <2>2, CurrentStatus
    <3>2. \A w \in Versions :
             new[w].status # R(h)[w].status =>
                 new[w].status = "draft" /\ w > handler[h].v
      BY <3>1 DEF ReplaceRow, Versions, Row
    <3>3. \A w \in Versions : w > handler[h].v => R(h)[w].status = "none"
      BY <3>1 DEF IsLatest, Exists
    <3> HIDE DEF new
    <3> QED
      BY <3>2, <3>3, NothingGivesWay
  <2>3. WriteRows(h, new)
    BY <1>6 DEF ModifyIntent
  <2> HIDE DEF new
  <2> QED
    BY <2>1, <2>2, <2>3, OneGivesWay
<1>7. UNCHANGED rows => Goal
  BY NothingGivesWay
<1>8. ASSUME NEW h \in Handlers, SubmitIntent(h) \/ ActivateIntent(h)
      PROVE  Goal
  <2>1. handler[h].pc = "commit"
    BY <1>8 DEF SubmitIntent, ActivateIntent, Commits
  <2>2. \/ UNCHANGED rows
        \/ WriteRows(h, UpdateRow(R(h), handler[h].v, "submitted"))
        \/ WriteRows(h, UpdateRow(R(h), handler[h].v, "active"))
    BY <1>8 DEF SubmitIntent, ActivateIntent, Transition
  <2> QED
    BY <1>3, <1>7, <2>1, <2>2
<1>9. ASSUME NEW h \in Handlers,
             Read(h) \/ AddOperationalVolume(h) \/ Evaluate(h) \/ Record(h)
                \/ Abandon(h)
      PROVE  UNCHANGED rows
  BY <1>9 DEF Read, Load, ReadVolumes, ReadChecks, ReadFindings,
              AddOperationalVolume, Evaluate, Record, Abandon
<1>10. Restart => UNCHANGED rows
  BY DEF Restart
<1> QED
  BY <1>2, <1>4, <1>5, <1>6, <1>7, <1>8, <1>9, <1>10 DEF Next, Write

\* A version is superseded only in the step in which a newer one is accepted,
\* and an accepted version under a newer one ends only with that one.
THEOREM NoEarlySupersession == Spec => SupersededByAccepted
<1>1. IInv /\ [Next]_vars =>
        [\A i \in Intents : GivesWay(rows[i], rows'[i])]_vars
  BY NextGivesWay
<1> QED
  BY <1>1, LifecycleInvariance, PTL DEF Spec, SupersededByAccepted

\* Two intents of the aircraft are never active at the same time.
THEOREM SingleActive == Spec => []OneActivePerAircraft
<1>1. IInv => OneActivePerAircraft
  BY DEF IInv
<1> QED
  BY <1>1, LifecycleInvariance, PTL

-----------------------------------------------------------------------------
(* Requests that come one at a time.                                       *)

\* One handler goes on, the others are idle.
LEMMA OneBusy ==
    ASSUME IInv, TurnInv, inTurn, NEW h \in Handlers,
           handler[h].pc # "idle" \/ \A g \in Handlers : handler[g].pc = "idle",
           NEW x, handler' = [handler EXCEPT ![h] = x],
           x.pc # "idle" => StillSo(rows', volumes', evidence', x),
           EvidenceUpToDate'
    PROVE  TurnInv'
<1>1. \A g \in Handlers : g # h => handler[g].pc = "idle"
  BY DEF TurnInv
<1>2. handler'[h] = x /\ \A g \in Handlers : g # h => handler'[g] = handler[g]
  BY DEF IInv, TypeOK
<1>3. \A g \in Handlers : handler'[g].pc # "idle" => g = h
  BY <1>1, <1>2
<1> QED
  BY <1>2, <1>3 DEF TurnInv

\* A handler that is busy: where its request points, and what it relies on.
LEMMA Busy ==
    ASSUME IInv, TurnInv, inTurn, NEW h \in Handlers, handler[h].pc # "idle"
    PROVE  LET r == handler[h] IN
           /\ r \in Handler /\ r.i \in Intents /\ r.v \in Versions
           /\ HandlerOK(rows, clock, r)
           /\ StillSo(rows, volumes, evidence, r)
           /\ EvidenceUpToDate
           /\ Current(r)
           /\ rows[r.i][r.v].status \in From(r.op)
<1>1. StillSo(rows, volumes, evidence, handler[h]) /\ EvidenceUpToDate
  BY DEF TurnInv
<1>2. handler[h] \in Handler /\ HandlerOK(rows, clock, handler[h])
  BY DEF IInv, TypeOK, HandlerInv
<1>3. handler[h].i \in Intents /\ handler[h].v \in Versions
  BY <1>2 DEF HandlerOK, Seen, Handler
<1>4. Current(handler[h])
  BY <1>1 DEF StillSo, Current
<1>5. rows[handler[h].i][handler[h].v].status \in From(handler[h].op)
  BY <1>4, CurrentStatus
<1> QED
  BY <1>1, <1>2, <1>3, <1>4, <1>5

\* The first version of another intent.
LEMMA CreateTurn ==
    ASSUME IInv, TurnInv, inTurn, NEW i \in Intents, CreateIntent(i)
    PROVE  TurnInv'
<1>1. rows' = [rows EXCEPT ![i][1] = [status |-> "draft", rev |-> 0]]
      /\ UNCHANGED <<volumes, evidence, clock, handler>>
  BY DEF CreateIntent
<1>2. ASSUME NEW h \in Handlers, handler[h].pc # "idle"
      PROVE  StillSo(rows', volumes', evidence', handler'[h])
  <2> DEFINE r == handler[h]
  <2>1. r.i \in Intents /\ StillSo(rows, volumes, evidence, r) /\ Current(r)
        /\ r.v \in Versions
    BY <1>2, Busy
  <2>2. Exists(rows[r.i], 1)
    BY <2>1 DEF IInv, RowsInv, GoodRows, Current, Unchanged, IsLatest
  <2>3. rows'[r.i] = rows[r.i]
    BY <1>1, <2>1, <2>2 DEF CreateIntent, IInv, TypeOK
  <2> QED
    BY <1>1, <2>1, <2>3 DEF StillSo
<1>3. EvidenceUpToDate'
  BY <1>1 DEF TurnInv, EvidenceUpToDate
<1> QED
  BY <1>1, <1>2, <1>3 DEF TurnInv

\* A request that starts while no other is under way.
LEMMA LoadTurn ==
    ASSUME IInv, TurnInv, inTurn, NEW h \in Handlers, NEW op \in Operations,
           NEW i \in Intents, NEW v \in Versions, Load(h, op, i, v)
    PROVE  TurnInv'
<1> DEFINE x == [Idle EXCEPT
               !.pc = IF op \in {"activate", "evaluate"} THEN "volumes"
                      ELSE "commit",
               !.op = op, !.i = i, !.v = v, !.rev = rows[i][v].rev,
               !.at = IF op \in {"add", "modify"} THEN clock'[i] ELSE 0]
<1>1. handler' = [handler EXCEPT ![h] = x]
      /\ UNCHANGED <<rows, volumes, evidence>> /\ IsLatest(rows[i], v)
      /\ \A g \in Handlers : handler[g].pc = "idle"
  BY DEF Load, Continue
<1>2. /\ x.pc = IF op \in {"activate", "evaluate"} THEN "volumes" ELSE "commit"
      /\ x.op = op /\ x.i = i /\ x.v = v /\ x.rev = rows[i][v].rev
      /\ op \in {"add", "modify"} => x.at = clock'[i]
  BY DEF Idle
<1> HIDE DEF x
<1>3. ASSUME op \in {"add", "modify"}, NEW w \in Versions, NEW k \in Evidence
      PROVE  evidence[i][w][k].at < x.at
  <2>1. clock'[i] = clock[i] + 1
    BY <1>3, ClockTicks DEF Load
  <2>2. evidence[i][w][k].at <= clock[i] /\ evidence[i][w][k].at \in Nat
        /\ clock[i] \in Nat
    BY LifecycleAssumption DEF IInv, EvidenceInv, TypeOK, EvidenceRecord
  <2> QED
    BY <1>2, <1>3, <2>1, <2>2
<1>4. StillSo(rows', volumes', evidence', x)
  <2>1. Unchanged(rows[i], v, rows[i][v].rev)
    BY <1>1 DEF Unchanged
  <2> QED
    BY <1>1, <1>2, <1>3, <2>1 DEF StillSo
<1>5. EvidenceUpToDate'
  BY <1>1 DEF TurnInv, EvidenceUpToDate
<1> QED
  BY <1>1, <1>4, <1>5, OneBusy

\* The reads of an activation: of the volumes, then of evidence that is no
\* older than the volumes.
LEMMA ReadTurn ==
    ASSUME IInv, TurnInv, inTurn, NEW h \in Handlers,
           ReadVolumes(h) \/ ReadChecks(h) \/ ReadFindings(h)
    PROVE  TurnInv'
<1> DEFINE r == handler[h]
<1>0. r.pc # "idle" /\ UNCHANGED <<rows, volumes, evidence>>
  BY DEF ReadVolumes, ReadChecks, ReadFindings
<1>1. /\ r \in Handler /\ r.i \in Intents /\ r.v \in Versions
      /\ HandlerOK(rows, clock, r)
      /\ StillSo(rows, volumes, evidence, r)
      /\ EvidenceUpToDate
  BY <1>0, Busy
<1>2. EvidenceUpToDate'
  BY <1>0, <1>1 DEF EvidenceUpToDate
<1>3. CASE Return(h)
  BY <1>0, <1>2, <1>3, OneBusy DEF Return, Idle
<1>4. ASSUME ReadVolumes(h), ~Return(h)
      PROVE  TurnInv'
  <2> DEFINE x == [r EXCEPT !.pc = "checks", !.saw = volumes[r.i][r.v]]
  <2>1. handler' = [handler EXCEPT ![h] = x] /\ volumes[r.i][r.v] # {}
    BY <1>4 DEF ReadVolumes, Continue
  <2>2. x.pc = "checks" /\ x.saw = volumes[r.i][r.v] /\ x.i = r.i /\ x.v = r.v
        /\ x.rev = r.rev
    BY <1>1 DEF Handler
  <2> HIDE DEF x
  <2>3. StillSo(rows', volumes', evidence', x)
    BY <1>0, <1>1, <2>1, <2>2 DEF StillSo
  <2> QED
    BY <1>0, <1>2, <2>1, <2>3, OneBusy
<1>5. ASSUME ReadChecks(h), ~Return(h)
      PROVE  TurnInv'
  <2> DEFINE x == [r EXCEPT !.pc = "findings", !.saw = {}]
  <2>1. /\ handler' = [handler EXCEPT ![h] = x] /\ r.pc = "checks"
        /\ \E k \in Checks : Fresh(evidence[r.i][r.v][k], r.saw)
    BY <1>5 DEF ReadChecks, Continue
  <2>2. x.pc = "findings" /\ x.i = r.i /\ x.v = r.v /\ x.rev = r.rev
    BY <1>1 DEF Handler
  <2> HIDE DEF x
  <2>3. StillSo(rows', volumes', evidence', x)
    BY <1>0, <1>1, <2>1, <2>2 DEF StillSo
  <2> QED
    BY <1>0, <1>2, <2>1, <2>3, OneBusy
<1>6. ASSUME ReadFindings(h), ~Return(h)
      PROVE  TurnInv'
  <2> DEFINE x == [r EXCEPT !.pc = "commit"]
  <2>1. handler' = [handler EXCEPT ![h] = x] /\ r.pc = "findings"
        /\ r.op = "activate"
    BY <1>1, <1>6 DEF ReadFindings, Continue, HandlerOK
  <2>2. x.pc = "commit" /\ x.i = r.i /\ x.v = r.v /\ x.rev = r.rev
        /\ x.op = "activate"
    BY <1>1, <2>1 DEF Handler
  <2> HIDE DEF x
  <2>3. StillSo(rows', volumes', evidence', x)
    BY <1>0, <1>1, <2>1, <2>2 DEF StillSo
  <2> QED
    BY <1>0, <1>2, <2>1, <2>3, OneBusy
<1> QED
  BY <1>3, <1>4, <1>5, <1>6

\* The evaluation is of the volumes that are there.
LEMMA EvaluateTurn ==
    ASSUME IInv, TurnInv, inTurn, NEW h \in Handlers, Evaluate(h)
    PROVE  TurnInv'
<1> DEFINE r == handler[h]
<1>0. r.pc # "idle" /\ UNCHANGED <<rows, volumes, evidence>>
  BY DEF Evaluate
<1>1. /\ r \in Handler /\ r.i \in Intents /\ r.v \in Versions
      /\ StillSo(rows, volumes, evidence, r)
      /\ EvidenceUpToDate
  BY <1>0, Busy
<1>2. EvidenceUpToDate'
  BY <1>0, <1>1 DEF EvidenceUpToDate
<1>3. PICK blocking \in SUBSET Checks :
        handler' = [handler EXCEPT ![h] =
            [r EXCEPT !.pc = "record", !.at = clock'[r.i],
                      !.saw = volumes[r.i][r.v], !.blocking = blocking]]
  BY DEF Evaluate, Continue
<1> DEFINE x == [r EXCEPT !.pc = "record", !.at = clock'[r.i],
                          !.saw = volumes[r.i][r.v], !.blocking = blocking]
<1>4. x.pc = "record" /\ x.saw = volumes[r.i][r.v] /\ x.i = r.i /\ x.v = r.v
      /\ x.rev = r.rev
  BY <1>1 DEF Handler
<1>5. handler' = [handler EXCEPT ![h] = x]
  BY <1>3
<1> HIDE DEF x
<1>6. StillSo(rows', volumes', evidence', x)
  BY <1>0, <1>1, <1>4 DEF StillSo
<1> QED
  BY <1>0, <1>2, <1>5, <1>6, OneBusy

\* Evidence of the volumes there are is recorded.
LEMMA RecordTurn ==
    ASSUME IInv, TurnInv, inTurn, NEW h \in Handlers, Record(h)
    PROVE  TurnInv'
<1> DEFINE r == handler[h]
           b == IF r.n \in Checks THEN r.n \in r.blocking ELSE r.blocking # {}
           e == [at |-> r.at, blocking |-> b, saw |-> r.saw]
           x == [r EXCEPT !.n = r.n + 1]
<1>0. r.pc = "record" /\ UNCHANGED <<rows, volumes>>
  BY DEF Record
<1>1. /\ r \in Handler /\ r.i \in Intents /\ r.v \in Versions
      /\ StillSo(rows, volumes, evidence, r)
      /\ EvidenceUpToDate
  BY <1>0, Busy
<1>2. evidence' = [evidence EXCEPT ![r.i][r.v][r.n] = e]
  BY DEF Record
<1>3. e.saw = volumes[r.i][r.v]
  BY <1>0, <1>1 DEF StillSo
<1> HIDE DEF e
<1>4. EvidenceUpToDate'
  <2> SUFFICES ASSUME NEW i \in Intents, NEW v \in Versions, NEW k \in Evidence
               PROVE  UpToDate(evidence'[i][v][k], volumes[i][v])
    BY <1>0 DEF EvidenceUpToDate
  <2>1. \/ evidence'[i][v][k] = evidence[i][v][k]
        \/ i = r.i /\ v = r.v /\ evidence'[i][v][k] = e
    <3>1. r.n \in Evidence
      BY <1>1 DEF Handler
    <3>2. TypeOK
      BY DEF IInv
    <3>3. evidence' = Recorded(r.i, r.v, r.n, e)
      BY <1>2 DEF Recorded
    <3>4. \A y \in Intents, u \in Versions, l \in Evidence :
            \/ evidence'[y][u][l] = evidence[y][u][l]
            \/ y = r.i /\ u = r.v /\ evidence'[y][u][l] = e
      BY <1>1, <3>1, <3>2, <3>3, OneWritten, SMTT(30)
    <3> QED
      BY <3>4
  <2> QED
    BY <1>1, <1>3, <2>1 DEF EvidenceUpToDate, UpToDate
<1>5. CASE Return(h)
  BY <1>0, <1>4, <1>5, OneBusy DEF Return, Idle
<1>6. CASE ~Return(h)
  <2>1. handler' = [handler EXCEPT ![h] = x]
    BY <1>6 DEF Record, Continue
  <2>2. x.pc = "record" /\ x.i = r.i /\ x.v = r.v /\ x.rev = r.rev
        /\ x.saw = r.saw
    BY <1>0, <1>1 DEF Handler
  <2> HIDE DEF x
  <2>3. StillSo(rows', volumes', evidence', x)
    BY <1>0, <1>1, <2>2 DEF StillSo
  <2> QED
    BY <1>0, <1>4, <2>1, <2>3, OneBusy
<1> QED
  BY <1>5, <1>6

\* A new set of volumes holds a time after all evidence, or it is empty.
LEMMA VolumesTurn ==
    ASSUME IInv, TurnInv, inTurn, NEW h \in Handlers,
           AddOperationalVolume(h) \/ ModifyIntent(h)
    PROVE  EvidenceUpToDate'
<1> DEFINE r == handler[h]
<1>0. r.pc = "commit" /\ r.op \in {"add", "modify"} /\ UNCHANGED evidence
  BY DEF AddOperationalVolume, ModifyIntent, Commits, WriteRows
<1>1. /\ r \in Handler /\ r.i \in Intents /\ r.v \in Versions
      /\ StillSo(rows, volumes, evidence, r)
      /\ EvidenceUpToDate
  BY <1>0, Busy
<1>2. \A v \in Versions, k \in Evidence : evidence[r.i][v][k].at < r.at
  BY <1>0, <1>1 DEF StillSo
<1>3. volumes \in [Intents -> [Versions -> SUBSET Times]]
  BY DEF IInv, TypeOK
<1>4. \A i \in Intents, v \in Versions :
        \/ volumes'[i][v] = volumes[i][v]
        \/ i = r.i /\ (volumes'[i][v] = {} \/ r.at \in volumes'[i][v])
  <2>1. CASE AddOperationalVolume(h)
    BY <1>1, <1>3, <2>1 DEF AddOperationalVolume
  <2>2. CASE ModifyIntent(h)
    <3>1. PICK new \in {{}, {r.at}} :
            volumes' = IF Current(r)
                       THEN [volumes EXCEPT ![r.i][ModifiedVersion(r)] = new]
                       ELSE volumes
      BY <2>2 DEF ModifyIntent
    <3> QED
      BY <1>1, <1>3, <3>1
  <2> QED
    BY <2>1, <2>2
<1> SUFFICES ASSUME NEW i \in Intents, NEW v \in Versions, NEW k \in Evidence
             PROVE  UpToDate(evidence[i][v][k], volumes'[i][v])
  BY <1>0 DEF EvidenceUpToDate
<1> QED
  BY <1>1, <1>2, <1>4 DEF EvidenceUpToDate, UpToDate

\* A transaction and a handler that gives up end the request.
LEMMA EndTurn ==
    ASSUME IInv, TurnInv, inTurn, NEW h \in Handlers, Write(h) \/ Abandon(h)
    PROVE  TurnInv'
<1>1. handler[h].pc # "idle" /\ handler' = [handler EXCEPT ![h] = Idle]
  BY DEF Write, Abandon, SubmitIntent, AcceptIntent, ActivateIntent,
         CompleteIntent, CancelIntent, ModifyIntent, AddOperationalVolume,
         Commits, Transition, WriteRows, Return
<1>2. \/ UNCHANGED <<volumes, evidence>>
      \/ AddOperationalVolume(h) \/ ModifyIntent(h)
  BY DEF Write, Abandon, SubmitIntent, AcceptIntent, ActivateIntent,
         CompleteIntent, CancelIntent, Transition, WriteRows
<1>3. EvidenceUpToDate'
  <2>1. CASE UNCHANGED <<volumes, evidence>>
    BY <2>1 DEF TurnInv, EvidenceUpToDate
  <2> QED
    BY <1>2, <2>1, VolumesTurn
<1> QED
  BY <1>1, <1>3, OneBusy DEF Idle

\* After a restart there is neither evidence nor a request.
LEMMA RestartTurn ==
    ASSUME Restart
    PROVE  TurnInv'
<1>1. evidence' = NoEvidenceYet /\ handler' = [h \in Handlers |-> Idle]
  BY DEF Restart
<1>2. EvidenceUpToDate'
  BY <1>1 DEF EvidenceUpToDate, UpToDate, NoEvidenceYet, NoEvidence
<1>3. \A h \in Handlers : handler'[h].pc = "idle"
  BY <1>1 DEF Idle
<1> QED
  BY <1>2, <1>3 DEF TurnInv

\* Every step keeps what holds of requests in turn.
LEMMA NextTurnInv == IInv /\ TurnInv /\ [Next]_vars => TurnInv'
<1> SUFFICES ASSUME IInv, TurnInv, [Next]_vars PROVE TurnInv'
  OBVIOUS
<1>1. CASE UNCHANGED vars
  BY <1>1 DEF vars, TurnInv, EvidenceUpToDate
<1>2. CASE Next /\ ~inTurn
  BY <1>2 DEF Next, TurnInv
<1>3. CASE Next /\ inTurn
  BY <1>3, CreateTurn, LoadTurn, ReadTurn, EvaluateTurn, RecordTurn, EndTurn,
     RestartTurn DEF Next, Read
<1> QED
  BY <1>1, <1>2, <1>3

\* There is no request under way at the start.
LEMMA InitTurnInv == Init => TurnInv
<1> SUFFICES ASSUME Init PROVE TurnInv
  OBVIOUS
<1>1. \A h \in Handlers : handler[h].pc = "idle"
  BY DEF Init, Idle
<1>2. EvidenceUpToDate
  BY DEF Init, EvidenceUpToDate, UpToDate, NoEvidenceYet, NoEvidence
<1> QED
  BY <1>1, <1>2 DEF TurnInv

\* The invariant of requests in turn.
THEOREM TurnInvariance == Spec => [](IInv /\ TurnInv)
<1>1. Init => IInv /\ TurnInv
  BY InitIInv, InitTurnInv
<1>2. IInv /\ TurnInv /\ [Next]_vars => (IInv /\ TurnInv)'
  BY NextIInv, NextTurnInv
<1> QED
  BY <1>1, <1>2, PTL DEF Spec

\* Requests in turn change no volume of a version past draft and submitted.
LEMMA TurnVolumesStay ==
    ASSUME IInv, TurnInv, Next, inTurn
    PROVE  VolumesStay
<1> SUFFICES ASSUME NEW i \in Intents, NEW v \in Versions,
                    rows[i][v].status \notin {"none", "draft", "submitted"}
             PROVE  volumes'[i][v] = volumes[i][v]
  BY DEF VolumesStay
<1>1. volumes \in [Intents -> [Versions -> SUBSET Times]]
  BY DEF IInv, TypeOK
<1>2. ASSUME NEW h \in Handlers, AddOperationalVolume(h)
      PROVE  volumes'[i][v] = volumes[i][v]
  <2>1. handler[h].pc # "idle" /\ handler[h].op = "add"
    BY <1>2 DEF AddOperationalVolume, Commits
  <2>2. handler[h].i \in Intents /\ handler[h].v \in Versions
        /\ rows[handler[h].i][handler[h].v].status = "draft"
    BY <2>1, Busy, FromValues
  <2> QED
    BY <1>1, <1>2, <2>2 DEF AddOperationalVolume
<1>3. ASSUME NEW h \in Handlers, ModifyIntent(h)
      PROVE  volumes'[i][v] = volumes[i][v]
  <2> DEFINE r == handler[h]
             m == ModifiedVersion(r)
  <2>1. r.pc # "idle" /\ r.op = "modify"
    BY <1>3 DEF ModifyIntent, Commits
  <2>2. /\ r.i \in Intents /\ r.v \in Versions /\ IsLatest(rows[r.i], r.v)
        /\ rows[r.i][r.v].status \in Modifiable
    BY <2>1, Busy, FromValues DEF Current, Unchanged
  <2>3. m \in Versions => rows[r.i][m].status \in {"none", "draft", "submitted"}
    <3>1. CASE rows[r.i][r.v].status = "accepted"
      BY <2>2, <3>1 DEF ModifiedVersion, IsLatest, Exists, Versions
    <3>2. CASE rows[r.i][r.v].status # "accepted"
      BY <2>2, <3>2 DEF ModifiedVersion, Modifiable
    <3> QED
      BY <3>1, <3>2
  <2>4. PICK new : volumes' = IF Current(r)
                              THEN [volumes EXCEPT ![r.i][m] = new] ELSE volumes
    BY <1>3 DEF ModifyIntent
  <2> HIDE DEF m
  <2> QED
    BY <1>1, <2>2, <2>3, <2>4
<1>4. \/ UNCHANGED volumes
      \/ \E h \in Handlers : AddOperationalVolume(h) \/ ModifyIntent(h)
  BY VolumeWriters
<1> QED
  BY <1>2, <1>3, <1>4

\* As long as requests come one at a time, the volumes of a version do not
\* change once it has left the draft and submitted statuses.
THEOREM LockedInTurn == Spec => VolumesLockedInTurn
<1>1. IInv /\ TurnInv /\ [Next]_vars => [inTurn => VolumesStay]_vars
  BY TurnVolumesStay
<1> QED
  BY <1>1, TurnInvariance, PTL DEF Spec, VolumesLockedInTurn

\* What activates a version in turn: a commit with fresh evidence.
LEMMA ActivatingStep ==
    ASSUME IInv, TurnInv, Next, inTurn, NEW i \in Intents, NEW v \in Versions,
           rows[i][v].status # "active", rows'[i][v].status = "active"
    PROVE  \E k \in Checks : evidence[i][v][k].at # 0
                             /\ evidence[i][v][k].saw = volumes[i][v]
<1>1. PICK h \in Handlers : ActivateIntent(h) /\ i = handler[h].i
                            /\ v = handler[h].v
  BY RowsChange DEF RowsStep, Activation
<1>2. handler[h].pc = "commit" /\ handler[h].op = "activate"
  BY <1>1 DEF ActivateIntent, Commits
<1>3. StillSo(rows, volumes, evidence, handler[h]) /\ EvidenceUpToDate
  BY <1>2, Busy
<1>4. PICK k \in Checks : Fresh(evidence[i][v][k], volumes[i][v])
                          /\ volumes[i][v] # {}
  BY <1>1, <1>2, <1>3 DEF StillSo
<1>5. UpToDate(evidence[i][v][k], volumes[i][v]) /\ evidence[i][v][k].at \in Nat
  BY <1>3 DEF EvidenceUpToDate, Checks, Evidence, IInv, TypeOK, EvidenceRecord
<1>6. volumes[i][v] \subseteq Nat
  BY DEF IInv, TypeOK, Times
<1> QED
  BY <1>4, <1>5, <1>6 DEF Fresh, UpToDate

\* When requests come one at a time, a version becomes active with volumes
\* that a preflight evaluation has seen, all of them and no others.
THEOREM EvaluatedBeforeActive == Spec => ActivatedWasEvaluated
<1>1. IInv /\ TurnInv /\ [Next]_vars =>
        [\A i \in Intents, v \in Versions :
            inTurn /\ rows[i][v].status # "active" /\ rows'[i][v].status = "active" =>
                \E k \in Checks : evidence[i][v][k].at # 0
                                  /\ evidence[i][v][k].saw = volumes[i][v]]_vars
  BY ActivatingStep
<1> QED
  BY <1>1, TurnInvariance, PTL DEF Spec, ActivatedWasEvaluated

=============================================================================
