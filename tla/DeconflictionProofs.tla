------------------------ MODULE DeconflictionProofs -------------------------
(***************************************************************************)
(* Proofs about Deconfliction, for every number of intents, peers and      *)
(* concurrent checks, every size of the world and every choice of volumes. *)
(*                                                                         *)
(* Geometry first: volumes that truly conflict are selected by the         *)
(* candidate query of either store, are in the area the DSS is asked       *)
(* about, and are not cleared by the comparison of bounding boxes.  Then   *)
(* the checks: a conflicting reservation or reference that was there when  *)
(* the check read its volumes, and still is, is either yet to be read,     *)
(* among the volumes that were read, or a read of it has failed.           *)
(***************************************************************************)
EXTENDS Deconfliction, WellFoundedInduction, TLAPS

-----------------------------------------------------------------------------
(* Least and greatest.                                                     *)

\* A set of natural numbers has a least member.
LEMMA LeastOf ==
    ASSUME NEW S \in SUBSET Nat, S # {}
    PROVE  Min(S) \in S /\ \A y \in S : Min(S) <= y
  <1>1. \E x \in S : \A y \in S : ~(<<y, x>> \in OpToRel(<, Nat))
    BY NatLessThanWellFounded, WFMin
  <1>2. PICK x \in S : \A y \in S : ~(<<y, x>> \in OpToRel(<, Nat))
    BY <1>1
  <1>3. ASSUME NEW y \in S PROVE x <= y
    <2>1. x \in Nat /\ y \in Nat
      BY <1>2
    <2>2. ~(y < x)
      BY <1>2, <2>1 DEF OpToRel
    <2> QED BY <2>1, <2>2
  <1>4. \E z \in S : \A y \in S : z <= y
    BY <1>2, <1>3
  <1> QED BY <1>4 DEF Min

\* A set of natural numbers with a bound has a greatest member.
LEMMA GreatestOf ==
    ASSUME NEW S \in SUBSET Nat, S # {}, NEW n \in Nat, \A y \in S : y <= n
    PROVE  Max(S) \in S /\ \A y \in S : Max(S) >= y
  <1> DEFINE T == {n - y : y \in S}
  <1>1. T \in SUBSET Nat /\ T # {}
    <2>1. \A y \in S : n - y \in Nat
      OBVIOUS
    <2> QED BY <2>1
  <1>2. PICK t \in T : \A u \in T : t <= u
    <2> HIDE DEF T
    <2> QED BY <1>1, LeastOf
  <1>3. PICK x \in S : t = n - x
    BY <1>2
  <1>4. \A y \in S : x >= y
    <2>1. \A y \in S : n - y \in T /\ t <= n - y
      BY <1>2
    <2>2. \A y \in S : y \in Nat /\ x \in Nat
      OBVIOUS
    <2> HIDE DEF T
    <2> QED BY <1>3, <2>1, <2>2
  <1>5. \E z \in S : \A y \in S : z >= y
    BY <1>3, <1>4
  <1> QED BY <1>5 DEF Max

\* The greater and the lesser of two numbers.
LEMMA OfTwo ==
    ASSUME NEW m \in Int, NEW n \in Int
    PROVE  /\ Max({m, n}) = IF m >= n THEN m ELSE n
           /\ Min({m, n}) = IF m <= n THEN m ELSE n
  <1>1. \E x \in {m, n} : \A y \in {m, n} : x >= y
    OBVIOUS
  <1>2. \E x \in {m, n} : \A y \in {m, n} : x <= y
    OBVIOUS
  <1>3. Max({m, n}) \in {m, n} /\ Max({m, n}) >= m /\ Max({m, n}) >= n
    BY <1>1 DEF Max
  <1>4. Min({m, n}) \in {m, n} /\ Min({m, n}) <= m /\ Min({m, n}) <= n
    BY <1>2 DEF Min
  <1> QED BY <1>3, <1>4

-----------------------------------------------------------------------------
(* Volumes.                                                                *)

\* The box of a volume holds its cells.
LEMMA BoxHoldsCells ==
    ASSUME NEW v \in Volume, NEW c \in v.cells
    PROVE  LET b == GeoJSONBounds(v) IN
           /\ c[1] \in Nat /\ c[2] \in Nat /\ c[1] < MaxLon /\ c[2] < MaxLat
           /\ b.minLon \in Nat /\ b.maxLon \in Nat /\ b.minLat \in Nat /\ b.maxLat \in Nat
           /\ b.minLon <= c[1] /\ c[1] + 1 <= b.maxLon
           /\ b.minLat <= c[2] /\ c[2] + 1 <= b.maxLat
  <1> DEFINE X == {d[1] : d \in v.cells}
             X1 == {d[1] + 1 : d \in v.cells}
             Y == {d[2] : d \in v.cells}
             Y1 == {d[2] + 1 : d \in v.cells}
  <1>1. MaxLon \in Nat \ {0} /\ MaxLat \in Nat \ {0}
    BY WorldAssumption
  <1>2. \A d \in v.cells : d[1] \in 0..(MaxLon - 1) /\ d[2] \in 0..(MaxLat - 1)
    BY DEF Volume
  <1>3. /\ X \in SUBSET Nat /\ X1 \in SUBSET Nat /\ Y \in SUBSET Nat /\ Y1 \in SUBSET Nat
        /\ \A x \in X1 : x <= MaxLon
        /\ \A y \in Y1 : y <= MaxLat
    BY <1>1, <1>2
  <1>4. c[1] \in X /\ c[1] + 1 \in X1 /\ c[2] \in Y /\ c[2] + 1 \in Y1
    OBVIOUS
  <1>5. /\ GeoJSONBounds(v).minLon = Min(X) /\ GeoJSONBounds(v).maxLon = Max(X1)
        /\ GeoJSONBounds(v).minLat = Min(Y) /\ GeoJSONBounds(v).maxLat = Max(Y1)
    BY DEF GeoJSONBounds
  <1> HIDE DEF X, X1, Y, Y1
  <1>6. Min(X) \in X /\ Min(X) <= c[1] /\ Min(Y) \in Y /\ Min(Y) <= c[2]
    BY <1>3, <1>4, LeastOf
  <1>7. Max(X1) \in X1 /\ Max(X1) >= c[1] + 1 /\ Max(Y1) \in Y1 /\ Max(Y1) >= c[2] + 1
    BY <1>1, <1>3, <1>4, GreatestOf
  <1>8. c[1] \in Nat /\ c[2] \in Nat /\ c[1] < MaxLon /\ c[2] < MaxLat
    BY <1>1, <1>2
  <1> QED BY <1>3, <1>5, <1>6, <1>7, <1>8

\* Boxes widened by at least the buffers overlap when the footprints meet.
LEMMA BoxesOverlap ==
    ASSUME NEW v \in Volume, NEW w \in Volume, FootprintsMeet(v, w),
           NEW m \in Nat, m >= v.buffer, NEW n \in Nat, n >= w.buffer
    PROVE  BoundsOverlap(Expand(GeoJSONBounds(v), m), Expand(GeoJSONBounds(w), n))
  <1>1. PICK c \in v.cells, d \in w.cells :
          Max({Distance(c[1], d[1]), Distance(c[2], d[2])}) <= 1 + v.buffer + w.buffer
    BY DEF FootprintsMeet
  <1> DEFINE b == GeoJSONBounds(v)
             e == GeoJSONBounds(w)
  <1>2. /\ c[1] \in Nat /\ c[2] \in Nat /\ c[1] < MaxLon /\ c[2] < MaxLat
        /\ b.minLon \in Nat /\ b.maxLon \in Nat /\ b.minLat \in Nat /\ b.maxLat \in Nat
        /\ b.minLon <= c[1] /\ c[1] + 1 <= b.maxLon
        /\ b.minLat <= c[2] /\ c[2] + 1 <= b.maxLat
    BY BoxHoldsCells
  <1>3. /\ d[1] \in Nat /\ d[2] \in Nat /\ d[1] < MaxLon /\ d[2] < MaxLat
        /\ e.minLon \in Nat /\ e.maxLon \in Nat /\ e.minLat \in Nat /\ e.maxLat \in Nat
        /\ e.minLon <= d[1] /\ d[1] + 1 <= e.maxLon
        /\ e.minLat <= d[2] /\ d[2] + 1 <= e.maxLat
    BY BoxHoldsCells
  <1>4. v.buffer \in Int /\ w.buffer \in Int /\ MaxLat \in Nat
    BY WorldAssumption DEF Volume
  <1>5. /\ Distance(c[1], d[1]) \in Int /\ Distance(c[2], d[2]) \in Int
        /\ Distance(c[1], d[1]) >= c[1] - d[1] /\ Distance(c[1], d[1]) >= d[1] - c[1]
        /\ Distance(c[2], d[2]) >= c[2] - d[2] /\ Distance(c[2], d[2]) >= d[2] - c[2]
    BY <1>2, <1>3 DEF Distance
  <1>6. /\ Distance(c[1], d[1]) <= 1 + v.buffer + w.buffer
        /\ Distance(c[2], d[2]) <= 1 + v.buffer + w.buffer
    <2> DEFINE p == Distance(c[1], d[1])
               q == Distance(c[2], d[2])
    <2>1. p \in Int /\ q \in Int /\ Max({p, q}) <= 1 + v.buffer + w.buffer
      BY <1>1, <1>5
    <2> HIDE DEF p, q
    <2>2. p <= 1 + v.buffer + w.buffer /\ q <= 1 + v.buffer + w.buffer
      BY <1>4, <2>1, OfTwo
    <2> QED BY <2>2 DEF p, q
  <1>7. /\ c[1] - d[1] <= 1 + m + n /\ d[1] - c[1] <= 1 + m + n
        /\ c[2] - d[2] <= 1 + m + n /\ d[2] - c[2] <= 1 + m + n
    BY <1>2, <1>3, <1>4, <1>5, <1>6
  <1> HIDE DEF b, e
  <1>8. /\ Expand(b, m).minLon = b.minLon - m /\ Expand(b, m).maxLon = b.maxLon + m
        /\ Expand(e, n).minLon = e.minLon - n /\ Expand(e, n).maxLon = e.maxLon + n
        /\ Expand(b, m).minLat = Max({0, b.minLat - m})
        /\ Expand(e, n).minLat = Max({0, e.minLat - n})
        /\ Expand(b, m).maxLat = Min({MaxLat, b.maxLat + m})
        /\ Expand(e, n).maxLat = Min({MaxLat, e.maxLat + n})
    BY DEF Expand
  <1>9. /\ b.minLat - m \in Int /\ e.minLat - n \in Int
        /\ b.maxLat + m \in Int /\ e.maxLat + n \in Int /\ 0 \in Int /\ MaxLat \in Int
    BY <1>2, <1>3, <1>4
  <1>10. /\ Max({0, b.minLat - m}) = IF 0 >= b.minLat - m THEN 0 ELSE b.minLat - m
         /\ Max({0, e.minLat - n}) = IF 0 >= e.minLat - n THEN 0 ELSE e.minLat - n
         /\ Min({MaxLat, b.maxLat + m}) =
              IF MaxLat <= b.maxLat + m THEN MaxLat ELSE b.maxLat + m
         /\ Min({MaxLat, e.maxLat + n}) =
              IF MaxLat <= e.maxLat + n THEN MaxLat ELSE e.maxLat + n
    BY <1>9, OfTwo
  <1>11. /\ Max({0, b.minLat - m}) <= Min({MaxLat, e.maxLat + n})
         /\ Max({0, e.minLat - n}) <= Min({MaxLat, b.maxLat + m})
    BY <1>2, <1>3, <1>4, <1>7, <1>10
  <1>12. b.minLon - m <= e.maxLon + n /\ e.minLon - n <= b.maxLon + m
    BY <1>2, <1>3, <1>7
  <1>13. BoundsOverlap(Expand(b, m), Expand(e, n))
    BY <1>8, <1>11, <1>12 DEF BoundsOverlap
  <1> QED BY <1>13 DEF b, e

\* Whether two volumes conflict does not depend on which comes first.
LEMMA ConflictIsMutual ==
    ASSUME NEW a \in SUBSET Volume, NEW b \in SUBSET Volume, AnyConflict(a, b)
    PROVE  AnyConflict(b, a)
  <1>1. PICK v \in a, w \in b : TrulyConflict(v, w)
    BY DEF AnyConflict
  <1>2. PICK c \in v.cells, d \in w.cells :
          Max({Distance(c[1], d[1]), Distance(c[2], d[2])}) <= 1 + v.buffer + w.buffer
    BY <1>1 DEF TrulyConflict, FootprintsMeet
  <1>3. c[1] \in Nat /\ c[2] \in Nat /\ d[1] \in Nat /\ d[2] \in Nat
    BY BoxHoldsCells
  <1>4. Distance(c[1], d[1]) = Distance(d[1], c[1]) /\ Distance(c[2], d[2]) = Distance(d[2], c[2])
    BY <1>3 DEF Distance
  <1>5. v.buffer \in Int /\ w.buffer \in Int
    BY DEF Volume
  <1>6. 1 + v.buffer + w.buffer = 1 + w.buffer + v.buffer
    BY <1>5
  <1>7. FootprintsMeet(w, v)
    BY <1>2, <1>4, <1>6 DEF FootprintsMeet
  <1>8. TrulyConflict(w, v)
    BY <1>1, <1>7 DEF TrulyConflict, TimeWindowsOverlap, AltitudeBandsOverlap
  <1> QED BY <1>8 DEF AnyConflict

\* The candidate query of either store selects what conflicts.
LEMMA ConflictIsSelected ==
    ASSUME NEW own, NEW others, AnyConflict(own, others), NEW store
    PROVE  \E w \in others : Selects(store, own, w)
  <1>1. PICK v \in own, w \in others : TrulyConflict(v, w)
    BY DEF AnyConflict
  <1>2. CouldOverlap(own, w)
    BY <1>1 DEF CouldOverlap, TrulyConflict
  <1>3. QuerySelects(own, w)
    BY <1>1 DEF QuerySelects, TrulyConflict
  <1> QED BY <1>2, <1>3 DEF Selects

\* The area the DSS is asked about holds what conflicts.
LEMMA ConflictIsInArea ==
    ASSUME NEW v \in Volume, NEW w \in Volume, TrulyConflict(v, w)
    PROVE  InArea(v, w)
  <1>1. v.buffer \in Int /\ w.buffer \in Int
    BY DEF Volume
  <1>2. /\ Max({0, v.buffer}) \in Nat /\ Max({0, v.buffer}) >= v.buffer
        /\ Max({0, w.buffer}) \in Nat /\ Max({0, w.buffer}) >= w.buffer
    BY <1>1, OfTwo
  <1>3. BoundsOverlap(QueryBox(v), QueryBox(w))
    BY <1>2, BoxesOverlap DEF QueryBox, TrulyConflict
  <1> QED BY <1>3 DEF InArea, TrulyConflict

\* What evaluateVolume says of a volume, and of one with a footprint.
LEMMA Evaluated ==
    ASSUME NEW v \in Volume
    PROVE  /\ EvaluateVolume(v).status \in {"clear", "indeterminate", "potential_conflict"}
           /\ EvaluateVolume(v).status = "clear" =>
                /\ DimensionsUsable(v) /\ v.buffer >= 0
                /\ EvaluateVolume(v).box = Expand(GeoJSONBounds(v), v.buffer)
  <1>1. v.geometry \in {"polygon", "invalid", "uri", "none"} /\ v.buffer \in Int
    BY DEF Volume
  <1>2. CASE ~DimensionsUsable(v)
    BY <1>2 DEF EvaluateVolume
  <1>3. CASE DimensionsUsable(v) /\ v.geometry = "uri"
    BY <1>3 DEF EvaluateVolume
  <1>4. CASE DimensionsUsable(v) /\ v.geometry \in {"none", "invalid"}
    BY <1>4 DEF EvaluateVolume
  <1>5. CASE DimensionsUsable(v) /\ v.geometry = "polygon"
    <2> DEFINE box == Expand(GeoJSONBounds(v), v.buffer)
    <2>1. EvaluateVolume(v) =
            IF v.buffer < 0 \/ CrossesAntimeridian(box)
            THEN [status |-> "indeterminate", box |-> <<>>]
            ELSE [status |-> "clear", box |-> box]
      BY <1>5 DEF EvaluateVolume
    <2> HIDE DEF box
    <2>2. /\ EvaluateVolume(v).status \in {"clear", "indeterminate"}
          /\ EvaluateVolume(v).status = "clear" =>
                ~(v.buffer < 0) /\ EvaluateVolume(v).box = box
      BY <2>1
    <2> QED BY <1>1, <1>5, <2>2 DEF box
  <1> QED BY <1>1, <1>2, <1>3, <1>4, <1>5

\* A conflict is a finding when the own volume can be compared at all.
LEMMA ConflictIsFound ==
    ASSUME NEW v \in Volume, NEW w \in Volume, TrulyConflict(v, w),
           EvaluateVolume(v).status = "clear"
    PROVE  Finding(v, w) \in {"indeterminate", "potential_conflict"}
  <1> DEFINE peer == EvaluateVolume(w)
  <1>1. peer.status \in {"clear", "indeterminate", "potential_conflict"}
    BY Evaluated
  <1>2. peer.status = "clear" => BoundsOverlap(EvaluateVolume(v).box, peer.box)
    <2> SUFFICES ASSUME peer.status = "clear"
                 PROVE  BoundsOverlap(EvaluateVolume(v).box, peer.box)
      OBVIOUS
    <2>1. /\ v.buffer >= 0 /\ w.buffer >= 0 /\ v.buffer \in Int /\ w.buffer \in Int
          /\ EvaluateVolume(v).box = Expand(GeoJSONBounds(v), v.buffer)
          /\ peer.box = Expand(GeoJSONBounds(w), w.buffer)
      BY Evaluated DEF Volume
    <2>2. v.buffer \in Nat /\ w.buffer \in Nat /\ v.buffer >= v.buffer /\ w.buffer >= w.buffer
      BY <2>1
    <2> QED BY <2>1, <2>2, BoxesOverlap DEF TrulyConflict
  <1>3. TimeWindowsOverlap(v, w) /\ AltitudeBandsOverlap(v, w) /\ v.ref = w.ref
    BY DEF TrulyConflict
  <1>4. CASE ~DimensionsUsable(w)
    <2>1. peer.status # "clear"
      BY <1>4, Evaluated
    <2>2. Finding(v, w) = "indeterminate"
      BY <1>4, <2>1 DEF Finding
    <2> QED BY <2>2
  <1>5. CASE DimensionsUsable(w)
    <2>1. Finding(v, w) = IF peer.status = "clear" THEN "potential_conflict" ELSE peer.status
      BY <1>2, <1>3, <1>5 DEF Finding
    <2> HIDE DEF peer
    <2> QED BY <1>1, <2>1
  <1> QED BY <1>4, <1>5

Findings == {"conflict", "indeterminate", "potential_conflict"}

\* A comparison without findings clears volumes that do not conflict.
LEMMA NothingFound ==
    ASSUME NEW own \in SUBSET Volume, NEW others \in SUBSET Volume,
           EvaluateConflicts(own, others) \cap Findings = {}
    PROVE  ~AnyConflict(own, others)
  <1> SUFFICES ASSUME NEW v \in own, NEW w \in others, TrulyConflict(v, w)
               PROVE  EvaluateConflicts(own, others) \cap Findings # {}
    BY DEF AnyConflict
  <1> DEFINE mine == EvaluateVolume(v).status
             of == IF mine # "clear" THEN {mine}
                   ELSE {Finding(v, u) : u \in others} \ {"clear"}
  <1>1. of \subseteq EvaluateConflicts(own, others)
    BY DEF EvaluateConflicts
  <1>2. CASE mine # "clear"
    <2>1. mine \in Findings
      BY <1>2, Evaluated DEF Findings
    <2> QED BY <1>1, <1>2, <2>1
  <1>3. CASE mine = "clear"
    <2>1. Finding(v, w) \in Findings /\ Finding(v, w) # "clear"
      BY <1>3, ConflictIsFound DEF Findings
    <2> QED BY <1>1, <1>3, <2>1
  <1> QED BY <1>2, <1>3

\* A clear posture has no findings.
LEMMA ClearPosture ==
    ASSUME NEW all, Posture(all) = "clear"
    PROVE  all \cap Findings = {}
  <1>1. "conflict" \notin all
    BY DEF Posture
  <1>2. "indeterminate" \notin all
    BY <1>1 DEF Posture
  <1>3. "potential_conflict" \notin all
    BY <1>1, <1>2 DEF Posture
  <1> QED BY <1>1, <1>2, <1>3 DEF Findings

-----------------------------------------------------------------------------
(* The invariant.                                                          *)

Ended == {"superseded", "complete", "canceled"}

\* An active version is the latest, and one version at most is reserved.
GoodRows(R) ==
    /\ \A v \in Versions : R[v].status = "active" => IsLatest(R, v)
    /\ \A v, w \in Versions :
          R[v].status \in Reserving /\ R[w].status \in Reserving => v = w

\* What a write makes of the rows of an intent: none is deleted, a row that
\* changes gets a higher revision, a version that ends stays so, and who has
\* read the latest row before finds it changed.
RowsMove(R, S) ==
    /\ S \in [Versions -> Row] /\ GoodRows(S)
    /\ \A v \in Versions : Exists(R, v) =>
          Exists(S, v) /\ (S[v] = R[v] \/ S[v].rev > R[v].rev)
    /\ \A v \in Versions : ~Exists(R, v) => S[v].status \notin Reserving
    /\ \A v \in Versions : R[v].status \in Ended => S[v].status \in Ended
    /\ \A v \in Versions : R[v].status \in Reserving => S[v].status \in Reserving \cup Ended
    /\ \A v \in Versions : Exists(R, v) =>
          \A n \in Nat : n <= R[v].rev => ~Unchanged(S, v, n)

References == {NoReference} \cup [ver : Nat \ {0}, intent : PeerIntents]

StateTypes ==
    /\ rows \in [LocalIntents -> [Versions -> Row]]
    /\ volumes \in [LocalIntents -> [Versions -> SUBSET Volume]]
    /\ references \in [Peers -> References] /\ served \in [Peers -> References]

Comparing == {"candidates", "hydrate", "select", "query", "details", "finalize"}
Loaded == Comparing \cup {"commit"}

Named == (LocalIntents \cup Peers) \X Nat

Checks ==
    [pc : {"idle", "check"} \cup Loaded, i : LocalIntents \cup {"none"}, ver : Versions,
     rev : Nat, of : Versions, own : SUBSET Volume, todo : SUBSET Named,
     selected : SUBSET (LocalIntents \X Versions),
     picked : SUBSET ((LocalIntents \cup Peers) \X SUBSET Volume),
     found : SUBSET {"indeterminate"}, threats : SUBSET Named]

\* A check has the row it started from, or one that was changed since, and read
\* the volumes of a version that is not older.
Reads(c) ==
    /\ c.pc # "idle" =>
          /\ c.i \in LocalIntents /\ Exists(rows[c.i], c.ver)
          /\ c.rev <= rows[c.i][c.ver].rev
          /\ c.rev = rows[c.i][c.ver].rev => rows[c.i][c.ver].status = "accepted"
    /\ c.pc \in Loaded => Exists(rows[c.i], c.of) /\ c.of >= c.ver
    /\ c.pc = "hydrate" => c.todo \subseteq (LocalIntents \ {c.i}) \X Versions
    /\ c.pc = "details" => c.todo \subseteq Peers \X (Nat \ {0})

\* A reservation with its volumes, or a reference under that version, is still
\* there.
There(x) ==
    IF x[1] \in Peers THEN references[x[1]].ver = x[2]
    ELSE rows[x[1]][x[2]].status \in Reserving /\ x \notin late

VolumesThere(x) ==
    IF x[1] \in Peers THEN PeerVolumes(references[x[1]]) ELSE volumes[x[1]][x[2]]

\* What conflicted when the check read its volumes conflicts as long as it is
\* there, and does not come back when it is gone.
Threat(c, x) ==
    /\ x \in ((LocalIntents \ {c.i}) \X Versions) \cup (Peers \X Nat)
    /\ x[1] \in Peers => setup.dss /\ x[2] > 0 /\ references[x[1]].ver >= x[2]
    /\ x[1] \in LocalIntents => rows[x[1]][x[2]].status \in Reserving \cup Ended
    /\ There(x) /\ c.pc \in Comparing => AnyConflict(c.own, VolumesThere(x))
    /\ There(x) /\ x[1] \in Peers => served[x[1]] = references[x[1]]

\* The check has not come to it yet.
Pending(c, x) ==
    \/ c.pc = "candidates"
    \/ c.pc = "hydrate" /\ (x \in c.todo \/ x \in c.selected \/ x[1] \in Peers)
    \/ c.pc = "select" /\ (x \in c.selected \/ x[1] \in Peers)
    \/ c.pc = "query" /\ x[1] \in Peers
    \/ c.pc = "details" /\ x \in c.todo

Misses(c) ==
    /\ c.pc \in Loaded => \A x \in c.threats : Threat(c, x)
    /\ c.pc \in Comparing /\ "indeterminate" \notin c.found =>
          \A x \in c.threats : There(x) =>
              Pending(c, x) \/ <<x[1], VolumesThere(x)>> \in c.picked
    /\ c.pc = "commit" => \A x \in c.threats : ~There(x)

GoodCheck(c) == c \in Checks /\ Reads(c) /\ Misses(c)

ChecksInv == checker \in [Checkers -> Checks] /\ \A h \in Checkers : GoodCheck(checker[h])

\* The row the check started from has not changed: it would commit.
Current(c) == c.pc \in Loaded /\ Unchanged(rows[c.i], c.ver, c.rev)

\* A conflicting reservation that such a check does not know of came later.  It
\* is not active, and its own checks know of the intent of this one.  Of versions
\* that got a volume late, on either side, nothing is said.
CameLater(c, j, w) ==
    /\ rows[j][w].status = "accepted"
    /\ \A g \in Checkers :
          Current(checker[g]) /\ checker[g].i = j /\ checker[g].ver = w =>
              <<c.i, c.ver>> \in checker[g].threats

Foreseen(c) ==
    Current(c) /\ <<c.i, c.ver>> \notin late =>
        \A j \in LocalIntents \ {c.i}, w \in Versions :
            /\ rows[j][w].status \in Reserving /\ <<j, w>> \notin late
            /\ AnyConflict(volumes[c.i][c.ver], volumes[j][w])
            /\ <<j, w>> \notin c.threats
            => CameLater(c, j, w)

ForeseenInv == \A h \in Checkers : Foreseen(checker[h])

RowsInv == \A i \in LocalIntents : GoodRows(rows[i])

IInv == StateTypes /\ RowsInv /\ ChecksInv /\ ForeseenInv /\ NoConflictingActives

-----------------------------------------------------------------------------
(* Writes of the rows of one intent.                                       *)

\* A write to the latest version that sets its status and ends the accepted
\* versions before it.
LEMMA SetWithPriorMoves ==
    ASSUME NEW R \in [Versions -> Row], GoodRows(R), NEW v \in Versions, IsLatest(R, v),
           NEW own \in IntentStatus, NEW prior \in Ended,
           R[v].status \in Reserving => own \in Reserving \cup Ended,
           R[v].status \notin Ended
    PROVE  RowsMove(R, SetWithPrior(R, v, own, prior))
  <1> DEFINE S == SetWithPrior(R, v, own, prior)
  <1>1. \A w \in Versions : w \in Nat /\ R[w] \in Row /\ R[w].rev \in Nat
    BY DEF Row, Versions
  <1>2. /\ own \in IntentStatus \cup {"none"} /\ own # "none"
        /\ prior \in IntentStatus \cup {"none"} /\ prior # "none"
    BY DEF Ended, IntentStatus
  <1>3. S \in [Versions -> Row]
    BY <1>1, <1>2 DEF SetWithPrior, Row
  <1>4. /\ S[v] = [status |-> own, rev |-> R[v].rev + 1]
        /\ S[v].status = own /\ S[v].rev = R[v].rev + 1
    BY DEF SetWithPrior
  <1>5. \A w \in Versions : w # v =>
          \/ S[w] = R[w] /\ ~(w < v /\ R[w].status = "accepted")
          \/ w < v /\ R[w].status = "accepted" /\ S[w].status = prior
             /\ S[w].rev = R[w].rev + 1
    BY DEF SetWithPrior
  <1>6. \A w \in Versions : w > v => R[w].status = "none"
    BY DEF IsLatest, Exists
  <1> HIDE DEF S
  <1>7. \A w \in Versions : w # v => S[w].status \notin Reserving
    <2> SUFFICES ASSUME NEW w \in Versions, w # v, S[w].status \in Reserving PROVE FALSE
      OBVIOUS
    <2>1. S[w] = R[w] /\ ~(w < v /\ R[w].status = "accepted")
      BY <1>5 DEF Reserving, Ended
    <2>2. CASE w > v
      BY <1>6, <2>1, <2>2 DEF Reserving
    <2>3. CASE w < v
      <3>1. R[w].status = "active"
        BY <2>1, <2>3 DEF Reserving
      <3> QED BY <2>3, <3>1 DEF GoodRows, IsLatest, Exists
    <2> QED BY <1>1, <2>2, <2>3
  <1>8. \A w \in Versions : Exists(S, w) <=> Exists(R, w)
    BY <1>2, <1>4, <1>5 DEF IsLatest, Exists
  <1>9. \A w \in Versions : IsLatest(S, w) <=> w = v
    <2>1. \A w \in Versions : IsLatest(R, w) => w = v
      BY <1>1 DEF IsLatest, Exists
    <2> QED BY <1>8, <2>1 DEF IsLatest
  <1>10. GoodRows(S)
    BY <1>7, <1>9 DEF GoodRows, Reserving
  <1>11. \A w \in Versions : S[w] = R[w] \/ S[w].rev > R[w].rev
    BY <1>1, <1>4, <1>5
  <1>12. \A w \in Versions : Exists(R, w) =>
           \A n \in Nat : n <= R[w].rev => ~Unchanged(S, w, n)
    <2> SUFFICES ASSUME NEW w \in Versions, NEW n \in Nat, n <= R[w].rev,
                        Unchanged(S, w, n)
                 PROVE  FALSE
      OBVIOUS
    <2>1. w = v /\ S[w].rev = n
      BY <1>9 DEF Unchanged
    <2> QED BY <1>1, <1>4, <2>1
  <1>13. \A w \in Versions : ~Exists(R, w) => S[w].status \notin Reserving
    BY <1>7 DEF IsLatest
  <1>14. \A w \in Versions : R[w].status \in Ended => S[w].status \in Ended
    BY <1>5 DEF Ended
  <1>15. \A w \in Versions : R[w].status \in Reserving => S[w].status \in Reserving \cup Ended
    BY <1>4, <1>5
  <1> QED BY <1>3, <1>8, <1>10, <1>11, <1>12, <1>13, <1>14, <1>15 DEF RowsMove, S

\* A write to the latest version that sets its status only.
LEMMA SetAloneMoves ==
    ASSUME NEW R \in [Versions -> Row], GoodRows(R), NEW v \in Versions, IsLatest(R, v),
           NEW s \in {"draft", "submitted", "active"},
           s # "active" => R[v].status \in {"draft", "submitted"},
           s = "active" => R[v].status = "accepted"
    PROVE  /\ RowsMove(R, UpdateRow(R, v, s))
           /\ \A w \in Versions : w # v => UpdateRow(R, v, s)[w] = R[w]
  <1> DEFINE S == UpdateRow(R, v, s)
  <1>0. S = [R EXCEPT ![v] = [status |-> s, rev |-> R[v].rev + 1]]
    BY DEF UpdateRow, Terminal
  <1>1. \A w \in Versions : w \in Nat /\ R[w] \in Row /\ R[w].rev \in Nat
    BY DEF Row, Versions
  <1> HIDE DEF S
  <1>2. s \in IntentStatus \cup {"none"} /\ s # "none" /\ s \notin Ended
    BY DEF IntentStatus, Ended
  <1>3. S \in [Versions -> Row]
    BY <1>0, <1>1, <1>2 DEF Row
  <1>4. S[v].status = s /\ S[v].rev = R[v].rev + 1
    BY <1>0
  <1>5. \A w \in Versions : w # v => S[w] = R[w]
    BY <1>0
  <1>6. \A w \in Versions : Exists(S, w) <=> Exists(R, w)
    BY <1>2, <1>4, <1>5 DEF IsLatest, Exists
  <1>7. \A w \in Versions : IsLatest(S, w) <=> w = v
    <2>1. \A w \in Versions : IsLatest(R, w) => w = v
      BY <1>1 DEF IsLatest, Exists
    <2> QED BY <1>6, <2>1 DEF IsLatest
  <1>8. \A w \in Versions : S[w].status \in Reserving => R[w].status \in Reserving
    BY <1>4, <1>5 DEF Reserving
  <1>9. \A w \in Versions : S[w].status = "active" => w = v
    <2>1. \A w \in Versions : R[w].status = "active" => w = v
      BY <1>1 DEF GoodRows, IsLatest, Exists
    <2> QED BY <1>5, <2>1
  <1>10. GoodRows(S)
    BY <1>7, <1>8, <1>9 DEF GoodRows
  <1>11. \A w \in Versions : S[w] = R[w] \/ S[w].rev > R[w].rev
    BY <1>1, <1>4, <1>5
  <1>12. \A w \in Versions : Exists(R, w) =>
           \A n \in Nat : n <= R[w].rev => ~Unchanged(S, w, n)
    <2> SUFFICES ASSUME NEW w \in Versions, NEW n \in Nat, n <= R[w].rev,
                        Unchanged(S, w, n)
                 PROVE  FALSE
      OBVIOUS
    <2>1. w = v /\ S[w].rev = n
      BY <1>7 DEF Unchanged
    <2> QED BY <1>1, <1>4, <2>1
  <1>13. \A w \in Versions : ~Exists(R, w) => S[w].status \notin Reserving
    BY <1>8 DEF Exists, Reserving
  <1>14. \A w \in Versions : R[w].status \in Ended => S[w].status \in Ended
    BY <1>4, <1>5 DEF Ended
  <1>15. \A w \in Versions : R[w].status \in Reserving => S[w].status \in Reserving \cup Ended
    BY <1>4, <1>5 DEF Reserving
  <1>16. RowsMove(R, S)
    BY <1>3, <1>6, <1>10, <1>11, <1>12, <1>13, <1>14, <1>15 DEF RowsMove
  <1> QED BY <1>5, <1>16 DEF S

\* A new draft after an accepted version.
LEMMA ReplaceMoves ==
    ASSUME NEW R \in [Versions -> Row], GoodRows(R), NEW v \in Versions, IsLatest(R, v),
           R[v].status = "accepted", v < MaxVersion
    PROVE  /\ RowsMove(R, ReplaceRow(R, v))
           /\ v + 1 \in Versions /\ ~Exists(R, v + 1)
           /\ \A w \in Versions : ReplaceRow(R, v)[w].status = "active" =>
                 R[w].status = "active"
  <1> DEFINE S == ReplaceRow(R, v)
             d == v + 1
  <1>0. S = [R EXCEPT ![v + 1] = [status |-> "draft", rev |-> 0]]
    BY DEF ReplaceRow
  <1>1. \A w \in Versions : w \in Nat /\ R[w] \in Row /\ R[w].rev \in Nat
    BY DEF Row, Versions
  <1>2. d \in Versions /\ d > v /\ d = v + 1
    BY MaxVersionAssumption DEF Versions
  <1>3. R[d].status = "none"
    BY <1>2 DEF IsLatest, Exists
  <1> HIDE DEF S, d
  <1>4. S[d].status = "draft"
    BY <1>0, <1>2
  <1>5. \A w \in Versions : w # d => S[w] = R[w]
    BY <1>0, <1>2
  <1>6. S \in [Versions -> Row]
    BY <1>0, <1>1, <1>2 DEF Row, IntentStatus
  <1>7. \A w \in Versions : IsLatest(S, w) => w = d
    <2>1. \A w \in Versions : w > v => ~Exists(R, w)
      BY DEF IsLatest
    <2>2. Exists(S, d)
      BY <1>4 DEF Exists
    <2> QED BY <1>1, <1>2, <1>5, <2>1, <2>2 DEF IsLatest, Exists
  <1>8. \A w \in Versions : S[w].status \in Reserving => w # d /\ S[w] = R[w]
    BY <1>4, <1>5 DEF Reserving
  <1>9. \A w \in Versions : S[w].status # "active"
    <2>1. \A w \in Versions : R[w].status = "active" => w = v
      BY <1>1 DEF GoodRows, IsLatest, Exists
    <2> QED BY <1>4, <1>5, <2>1
  <1>10. GoodRows(S)
    BY <1>8, <1>9 DEF GoodRows
  <1>11. \A w \in Versions : Exists(R, w) => w # d
    BY <1>3 DEF Exists
  <1>12. \A w \in Versions : Exists(R, w) => Exists(S, w) /\ S[w] = R[w]
    BY <1>5, <1>11 DEF Exists
  <1>13. \A w \in Versions : Exists(R, w) => \A n \in Nat : ~Unchanged(S, w, n)
    BY <1>7, <1>11 DEF Unchanged
  <1>14. \A w \in Versions : ~Exists(R, w) => S[w].status \notin Reserving
    BY <1>8 DEF Exists, Reserving
  <1>15. \A w \in Versions :
           R[w].status \in Ended \cup Reserving => Exists(R, w)
    BY DEF Exists, Ended, Reserving
  <1>16. RowsMove(R, S)
    BY <1>6, <1>10, <1>12, <1>13, <1>14, <1>15 DEF RowsMove
  <1>17. ~Exists(R, d)
    BY <1>3 DEF Exists
  <1> QED BY <1>2, <1>9, <1>16, <1>17 DEF S

\* A draft or submitted version is changed in place.
LEMMA ReplaceInPlace ==
    ASSUME NEW R \in [Versions -> Row], GoodRows(R), NEW v \in Versions, IsLatest(R, v),
           R[v].status \in {"draft", "submitted"}
    PROVE  /\ RowsMove(R, ReplaceRow(R, v))
           /\ \A w \in Versions : ReplaceRow(R, v)[w].status = "active" =>
                 R[w].status = "active"
  <1>1. R[v] \in Row
    OBVIOUS
  <1>2. [R[v] EXCEPT !.rev = @ + 1] = [status |-> R[v].status, rev |-> R[v].rev + 1]
    BY <1>1 DEF Row
  <1>3. ReplaceRow(R, v) = UpdateRow(R, v, R[v].status)
    BY <1>2 DEF ReplaceRow, UpdateRow, Terminal
  <1>4. /\ RowsMove(R, UpdateRow(R, v, R[v].status))
        /\ \A w \in Versions : w # v => UpdateRow(R, v, R[v].status)[w] = R[w]
    BY SetAloneMoves
  <1>5. UpdateRow(R, v, R[v].status)[v].status = R[v].status
    BY DEF UpdateRow, Terminal
  <1> QED BY <1>3, <1>4, <1>5

-----------------------------------------------------------------------------
(* Checks while the world goes on.                                         *)

\* Volumes change that no reservation has, or late.
VolumesMove ==
    /\ late \subseteq late'
    /\ \A i \in LocalIntents, v \in Versions :
          rows[i][v].status \in Reserving /\ <<i, v>> \notin late' =>
              volumes'[i][v] = volumes[i][v]

\* The world goes on: rows and volumes move, and references get higher versions.
WorldMoves ==
    /\ \A i \in LocalIntents : rows'[i] = rows[i] \/ RowsMove(rows[i], rows'[i])
    /\ VolumesMove
    /\ \A p \in Peers :
          \/ references'[p].ver > references[p].ver
          \/ references'[p] = references[p] /\ served'[p] \in {served[p], references[p]}
    /\ setup' = setup

\* Versions of references are numbers.
LEMMA ReferenceVersions ==
    ASSUME StateTypes, NEW p \in Peers
    PROVE  /\ references[p].ver \in Nat
           /\ references[p].ver > 0 => PeerVolumes(references[p]) \in SUBSET Volume
  <1>1. references[p] \in References
    BY DEF StateTypes
  <1>2. CASE references[p] = NoReference
    <2>1. references[p].ver = 0
      BY <1>2 DEF NoReference
    <2> QED BY <2>1
  <1>3. CASE references[p] \in [ver : Nat \ {0}, intent : PeerIntents]
    <2>1. references[p].intent \in PeerIntent
      BY <1>3, DeconflictionAssumption
    <2>2. references[p].intent.nominal \in SUBSET Volume
          /\ references[p].intent.off \in SUBSET Volume
      BY <2>1 DEF PeerIntent
    <2> QED BY <1>3, <2>2 DEF PeerVolumes
  <1> QED BY <1>1, <1>2, <1>3 DEF References

\* A name is that of a local intent or of a peer.
LEMMA Names == \A x \in LocalIntents : x \notin Peers
  BY DeconflictionAssumption

\* What is there in the end was there before, and is the same.
LEMMA ThreatStays ==
    ASSUME StateTypes, StateTypes', WorldMoves, NEW c, NEW x, Threat(c, x)
    PROVE  /\ Threat(c, x)'
           /\ There(x)' => There(x) /\ VolumesThere(x)' = VolumesThere(x)
  <1>1. CASE x \in Peers \X Nat
    <2> DEFINE p == x[1]
    <2>1. p \in Peers /\ p \notin LocalIntents /\ x[2] \in Nat
      BY <1>1, Names
    <2>2. setup.dss /\ x[2] > 0 /\ references[p].ver >= x[2] /\ setup' = setup
      BY <2>1 DEF Threat, WorldMoves
    <2>3. references[p].ver \in Nat
      BY <2>1, ReferenceVersions
    <2>4. references'[p].ver \in Nat
      <3>1. references'[p] \in References
        BY <2>1 DEF StateTypes
      <3>2. \A r \in References : r.ver \in Nat
        BY DEF References, NoReference
      <3> QED BY <3>1, <3>2
    <2>5. CASE references'[p].ver > references[p].ver
      <3>1. references'[p].ver > x[2]
        BY <2>1, <2>2, <2>3, <2>4, <2>5
      <3>2. ~There(x)'
        BY <2>1, <2>4, <3>1 DEF There
      <3> QED BY <1>1, <2>1, <2>2, <2>4, <3>1, <3>2 DEF Threat
    <2>6. CASE references'[p] = references[p] /\ served'[p] \in {served[p], references[p]}
      <3>1. /\ There(x)' <=> There(x)
            /\ VolumesThere(x)' = VolumesThere(x)
        BY <2>1, <2>6 DEF There, VolumesThere
      <3> QED BY <1>1, <2>1, <2>2, <2>6, <3>1 DEF Threat
    <2> QED BY <2>1, <2>5, <2>6 DEF WorldMoves
  <1>2. CASE x \in (LocalIntents \ {c.i}) \X Versions
    <2> DEFINE j == x[1]
               w == x[2]
    <2>1. j \in LocalIntents \ {c.i} /\ j \notin Peers /\ w \in Versions
      BY <1>2, Names
    <2>2. rows[j][w].status \in Reserving \cup Ended
      BY <2>1 DEF Threat
    <2>3. /\ rows'[j][w].status \in Reserving \cup Ended
          /\ rows[j][w].status \in Ended => rows'[j][w].status \in Ended
      BY <2>1, <2>2 DEF WorldMoves, RowsMove
    <2>4. There(x)' => There(x)
      BY <2>1, <2>2, <2>3 DEF There, WorldMoves, VolumesMove, Reserving, Ended
    <2>5. There(x)' => VolumesThere(x)' = VolumesThere(x)
      <3> SUFFICES ASSUME There(x)' PROVE volumes'[j][w] = volumes[j][w]
        BY <2>1 DEF VolumesThere
      <3>1. rows[j][w].status \in Reserving /\ x \notin late' /\ x = <<j, w>>
        BY <1>2, <2>1, <2>4 DEF There
      <3> QED BY <2>1, <3>1 DEF WorldMoves, VolumesMove
    <2> QED BY <1>2, <2>1, <2>3, <2>4, <2>5 DEF Threat
  <1> QED BY <1>1, <1>2 DEF Threat

\* A check stays good.
LEMMA ChecksSurvive ==
    ASSUME StateTypes, StateTypes', WorldMoves, NEW c, GoodCheck(c)
    PROVE  GoodCheck(c)'
  <1>1. c \in Checks /\ Reads(c) /\ Misses(c)
    BY DEF GoodCheck
  <1>2. c.pc # "idle" => c.i \in LocalIntents /\ c.ver \in Versions /\ c.of \in Versions
    BY <1>1 DEF Reads, Checks
  <1>3. Reads(c)'
    <2>1. ASSUME c.pc # "idle"
          PROVE  /\ Exists(rows'[c.i], c.ver) /\ c.rev <= rows'[c.i][c.ver].rev
                 /\ c.rev = rows'[c.i][c.ver].rev => rows'[c.i][c.ver].status = "accepted"
      <3> DEFINE R == rows[c.i]
                 S == rows'[c.i]
      <3>1. /\ Exists(R, c.ver) /\ c.rev <= R[c.ver].rev
            /\ c.rev = R[c.ver].rev => R[c.ver].status = "accepted"
        BY <1>1, <2>1 DEF Reads
      <3>2. \/ S = R
            \/ Exists(S, c.ver) /\ (S[c.ver] = R[c.ver] \/ S[c.ver].rev > R[c.ver].rev)
        BY <1>2, <2>1, <3>1 DEF WorldMoves, RowsMove
      <3>3. R[c.ver].rev \in Nat /\ S[c.ver].rev \in Nat /\ c.rev \in Nat
        BY <1>1, <1>2, <2>1 DEF StateTypes, Row, Checks
      <3> HIDE DEF R, S
      <3>4. /\ Exists(S, c.ver) /\ c.rev <= S[c.ver].rev
            /\ c.rev = S[c.ver].rev => S[c.ver].status = "accepted"
        BY <3>1, <3>2, <3>3 DEF Exists
      <3> QED BY <3>4 DEF S
    <2>2. ASSUME c.pc \in Loaded
          PROVE  Exists(rows'[c.i], c.of)
      <3>1. Exists(rows[c.i], c.of) /\ c.pc # "idle"
        BY <1>1, <2>2 DEF Reads, Loaded, Comparing
      <3> QED BY <1>2, <3>1 DEF WorldMoves, RowsMove
    <2> QED BY <1>1, <2>1, <2>2 DEF Reads
  <1>4. ASSUME c.pc \in Loaded, NEW x \in c.threats
        PROVE  /\ Threat(c, x)'
               /\ There(x)' => There(x) /\ VolumesThere(x)' = VolumesThere(x)
    BY <1>1, <1>4, ThreatStays DEF Misses
  <1>5. Misses(c)'
    <2>1. c.pc \in Comparing => c.pc \in Loaded
      BY DEF Loaded
    <2>2. c.pc = "commit" => c.pc \in Loaded
      BY DEF Loaded
    <2>3. \A x : Pending(c, x)' <=> Pending(c, x)
      BY DEF Pending
    <2> QED BY <1>1, <1>4, <2>1, <2>2, <2>3 DEF Misses
  <1> QED BY <1>1, <1>3, <1>5 DEF GoodCheck

\* Nothing but the checks changes.
LEMMA WorldStays ==
    ASSUME UNCHANGED <<rows, volumes, late, references, served, setup>>
    PROVE  WorldMoves
  BY DEF WorldMoves, VolumesMove

-----------------------------------------------------------------------------
(* The steps of a check.                                                   *)

SameCheck(c, m) ==
    /\ m.i = c.i /\ m.ver = c.ver /\ m.rev = c.rev /\ m.of = c.of
    /\ m.threats = c.threats

\* A step of one check that does not load, and changes nothing else.
LEMMA OneCheckStep ==
    ASSUME IInv, NEW h \in Checkers, NEW m, GoodCheck(m),
           checker' = [checker EXCEPT ![h] = m],
           UNCHANGED <<rows, volumes, late, references, served, setup>>,
           m.pc \in Loaded => checker[h].pc \in Loaded /\ SameCheck(checker[h], m)
    PROVE  IInv'
  <1>1. StateTypes /\ RowsInv /\ ChecksInv /\ ForeseenInv /\ NoConflictingActives
    BY DEF IInv
  <1>2. StateTypes' /\ RowsInv' /\ NoConflictingActives'
    BY <1>1 DEF StateTypes, RowsInv, NoConflictingActives
  <1>3. \A c : GoodCheck(c) => GoodCheck(c)'
    BY <1>1, <1>2, WorldStays, ChecksSurvive
  <1>4. /\ m \in Checks /\ checker' \in [Checkers -> Checks]
        /\ \A g \in Checkers : checker'[g] = IF g = h THEN m ELSE checker[g]
    BY <1>1 DEF ChecksInv, GoodCheck
  <1>5. ChecksInv'
    BY <1>1, <1>3, <1>4 DEF ChecksInv
  <1>6. \A c : Current(c)' <=> Current(c)
    BY DEF Current
  <1>7. Current(m) => Current(checker[h]) /\ SameCheck(checker[h], m)
    BY DEF Current, SameCheck
  <1>8. ASSUME NEW g \in Checkers, Current(checker[g])'
        PROVE  Current(checker[g]) /\ SameCheck(checker[g], checker'[g])
    <2>1. Current(checker'[g])
      BY <1>6, <1>8 DEF Current
    <2> QED BY <1>4, <1>7, <2>1 DEF SameCheck
  <1>9. ForeseenInv'
    <2> SUFFICES ASSUME NEW g \in Checkers, Current(checker[g])',
                        <<checker'[g].i, checker'[g].ver>> \notin late,
                        NEW j \in LocalIntents \ {checker'[g].i}, NEW w \in Versions,
                        rows[j][w].status \in Reserving, <<j, w>> \notin late,
                        AnyConflict(volumes[checker'[g].i][checker'[g].ver], volumes[j][w]),
                        <<j, w>> \notin checker'[g].threats
                 PROVE  CameLater(checker[g], j, w)'
      BY DEF ForeseenInv, Foreseen
    <2>1. Current(checker[g]) /\ SameCheck(checker[g], checker'[g])
      BY <1>8
    <2>2. CameLater(checker[g], j, w)
      BY <1>1, <2>1 DEF ForeseenInv, Foreseen, SameCheck
    <2>3. ASSUME NEW d \in Checkers, Current(checker[d])', checker'[d].i = j,
                 checker'[d].ver = w
          PROVE  <<checker'[g].i, checker'[g].ver>> \in checker'[d].threats
      BY <1>8, <2>1, <2>2, <2>3 DEF CameLater, SameCheck
    <2> QED BY <2>2, <2>3 DEF CameLater
  <1> QED BY <1>2, <1>5, <1>9 DEF IInv

\* A check that reads on is good when nothing that is there escapes it.
LEMMA Carried ==
    ASSUME NEW c, GoodCheck(c), c.pc \in Comparing, NEW m \in Checks, m.pc \in Comparing,
           SameCheck(c, m), m.own = c.own,
           m.pc = "hydrate" => m.todo \subseteq (LocalIntents \ {c.i}) \X Versions,
           m.pc = "details" => m.todo \subseteq Peers \X (Nat \ {0}),
           "indeterminate" \notin m.found =>
              \A x \in c.threats : Threat(c, x) /\ There(x) =>
                  Pending(m, x) \/ <<x[1], VolumesThere(x)>> \in m.picked
    PROVE  GoodCheck(m)
  <1>1. Reads(c) /\ c.pc \in Loaded /\ m.pc \in Loaded /\ c.pc # "idle" /\ m.pc # "commit"
    BY DEF GoodCheck, Loaded, Comparing
  <1>2. \A x \in c.threats : Threat(c, x) /\ (Threat(c, x) => Threat(m, x))
    BY <1>1 DEF GoodCheck, Misses, Threat, SameCheck
  <1>3. Reads(m)
    BY <1>1 DEF Reads, SameCheck
  <1>4. Misses(m)
    BY <1>1, <1>2 DEF Misses, SameCheck
  <1> QED BY <1>3, <1>4 DEF GoodCheck

\* What is known of a check that is reading.
LEMMA CheckFacts ==
    ASSUME IInv, NEW h \in Checkers
    PROVE  /\ checker[h] \in Checks /\ GoodCheck(checker[h])
           /\ checker[h].pc \in Comparing =>
                /\ checker[h].i \in LocalIntents
                /\ checker[h].own \in SUBSET Volume
  BY DEF IInv, ChecksInv, GoodCheck, Reads, Checks, Comparing

\* A check that could not read something is good.
LEMMA Failed ==
    ASSUME NEW c, GoodCheck(c), c.pc \in Comparing, NEW m \in Checks, m.pc \in Comparing,
           SameCheck(c, m), m.own = c.own, "indeterminate" \in m.found,
           m.pc = "hydrate" => m.todo \subseteq (LocalIntents \ {c.i}) \X Versions,
           m.pc = "details" => m.todo \subseteq Peers \X (Nat \ {0})
    PROVE  GoodCheck(m)
  BY Carried

\* Where a threat is.
LEMMA ThreatKinds ==
    ASSUME StateTypes, NEW c, NEW x, Threat(c, x), c.pc \in Comparing
    PROVE  \/ /\ x \in (LocalIntents \ {c.i}) \X Versions /\ x[1] \notin Peers
              /\ x = <<x[1], x[2]>>
              /\ There(x) => /\ rows[x[1]][x[2]].status \in Reserving
                             /\ VolumesThere(x) = volumes[x[1]][x[2]]
                             /\ AnyConflict(c.own, volumes[x[1]][x[2]])
           \/ /\ x \in Peers \X Nat /\ x = <<x[1], x[2]>> /\ setup.dss /\ x[2] > 0
              /\ There(x) => /\ references[x[1]].ver = x[2]
                             /\ served[x[1]] = references[x[1]]
                             /\ VolumesThere(x) = PeerVolumes(references[x[1]])
                             /\ PeerVolumes(references[x[1]]) \in SUBSET Volume
                             /\ AnyConflict(c.own, PeerVolumes(references[x[1]]))
  <1>1. CASE x \in (LocalIntents \ {c.i}) \X Versions
    BY <1>1, Names DEF Threat, There, VolumesThere
  <1>2. CASE x \in Peers \X Nat
    BY <1>2, ReferenceVersions DEF Threat, There, VolumesThere
  <1> QED BY <1>1, <1>2 DEF Threat

\* Where the next provider is.
LEMMA NextProvider ==
    AfterLocal \in {"query", "finalize"} /\ (setup.dss => AfterLocal = "query")
  BY DEF AfterLocal

\* Where the local provider reads on.
LEMMA ReadsOn ==
    ASSUME NEW todo, NEW selected, NEW p, p = NextRead(todo, selected)
    PROVE  /\ p \in {"hydrate", "select", "query", "finalize"}
           /\ p = "hydrate" => todo # {}
           /\ todo # {} => p = "hydrate"
           /\ selected # {} => p \in {"hydrate", "select"}
           /\ setup.dss => p # "finalize"
  BY NextProvider DEF NextRead

\* The candidates of the query.
LEMMA FindStep ==
    ASSUME IInv, NEW h \in Checkers, FindCandidates(h)
    PROVE  IInv'
  <1> DEFINE c == checker[h]
             all == {x \in (LocalIntents \ {c.i}) \X Versions :
                       \E w \in volumes[x[1]][x[2]] : Selects(setup.store, c.own, w)}
             p == NextRead(all, {})
             m == [c EXCEPT !.pc = p, !.todo = all]
             n == [c EXCEPT !.pc = AfterLocal, !.found = @ \cup {"indeterminate"}]
  <1>1. /\ c.pc = "candidates" /\ c \in Checks /\ GoodCheck(c)
        /\ UNCHANGED <<rows, volumes, late, references, served, setup>>
        /\ \/ checker' = [checker EXCEPT ![h] = m]
           \/ checker' = [checker EXCEPT ![h] = n]
    BY CheckFacts DEF FindCandidates, ReadStep, NoUse, Use
  <1>2. c.pc \in Comparing /\ c.pc \in Loaded
    BY <1>1, CheckFacts DEF Comparing, Loaded
  <1>3. /\ all \subseteq (LocalIntents \ {c.i}) \X Versions
        /\ all \in SUBSET Named
    BY DEF Named, Versions
  <1>4. \A x \in (LocalIntents \ {c.i}) \X Versions :
          AnyConflict(c.own, volumes[x[1]][x[2]]) => x \in all
    BY ConflictIsSelected
  <1>a. /\ p \in {"query", "finalize", "hydrate"}
        /\ p = "hydrate" \/ (all = {} /\ (setup.dss => p = "query"))
    BY NextProvider DEF NextRead
  <1> HIDE DEF c, all, p
  <1>5. /\ m \in Checks /\ m.pc = p /\ m.todo = all /\ SameCheck(c, m) /\ m.own = c.own
        /\ m.picked = c.picked /\ m.found = c.found
    BY <1>1, <1>3, <1>a DEF Checks, SameCheck, Loaded, Comparing
  <1>6. /\ n \in Checks /\ n.pc \in {"query", "finalize"} /\ SameCheck(c, n)
        /\ n.own = c.own /\ "indeterminate" \in n.found
    BY <1>1, NextProvider DEF Checks, SameCheck, Loaded, Comparing
  <1> HIDE DEF m, n
  <1>7. GoodCheck(n)
    BY <1>1, <1>2, <1>6, Failed DEF Comparing
  <1>8. ASSUME NEW x, Threat(c, x), There(x) PROVE Pending(m, x)
    <2>1. StateTypes
      BY DEF IInv
    <2>2. CASE x \in Peers \X Nat /\ setup.dss
      BY <1>5, <1>a, <2>2 DEF Pending
    <2>3. CASE /\ x \in (LocalIntents \ {c.i}) \X Versions
               /\ AnyConflict(c.own, volumes[x[1]][x[2]])
      <3>1. x \in all
        BY <1>2, <1>4, <2>3
      <3> QED BY <1>5, <1>a, <3>1 DEF Pending
    <2> QED BY <1>2, <1>8, <2>1, <2>2, <2>3, ThreatKinds
  <1>9. GoodCheck(m)
    BY <1>1, <1>2, <1>3, <1>5, <1>8, <1>a, Carried DEF Comparing
  <1> QED BY <1>1, <1>2, <1>5, <1>6, <1>7, <1>9, OneCheckStep DEF c

\* The candidates' rows: of an intent one version at most is reserved, so that
\* the version selected is the one that is there.
LEMMA HydrateStep ==
    ASSUME IInv, NEW h \in Checkers, HydrateCandidate(h)
    PROVE  IInv'
  <1> DEFINE c == checker[h]
             Kept(x) == IF Eligible(rows[x[1]][x[2]].status)
                        THEN {y \in c.selected : y[1] # x[1]} \cup {x}
                        ELSE c.selected
  <1>0. c.pc = "hydrate" /\ c \in Checks /\ GoodCheck(c)
    BY CheckFacts DEF HydrateCandidate
  <1>1. c.pc \in Comparing /\ c.pc \in Loaded
    BY <1>0 DEF Comparing, Loaded
  <1>2. PICK x \in c.todo :
          LET rest == c.todo \ {x}
              kept == Kept(x)
          IN  /\ \/ ReadStep(h, [c EXCEPT !.pc = NextRead(rest, kept),
                                         !.todo = rest, !.selected = kept])
                 \/ ReadStep(h, [c EXCEPT !.pc = NextRead(rest, c.selected),
                                         !.todo = rest,
                                         !.found = @ \cup {"indeterminate"}])
              /\ UNCHANGED setup
    BY DEF HydrateCandidate, NoUse, Use
  <1> DEFINE rest == c.todo \ {x}
             kept == Kept(x)
             p == NextRead(rest, kept)
             q == NextRead(rest, c.selected)
             m == [c EXCEPT !.pc = p, !.todo = rest, !.selected = kept]
             n == [c EXCEPT !.pc = q, !.todo = rest, !.found = @ \cup {"indeterminate"}]
  <1>3. /\ UNCHANGED <<rows, volumes, late, references, served, setup>>
        /\ \/ checker' = [checker EXCEPT ![h] = m]
           \/ checker' = [checker EXCEPT ![h] = n]
    BY <1>2 DEF ReadStep
  <1>4. c.todo \subseteq (LocalIntents \ {c.i}) \X Versions
    BY <1>0 DEF GoodCheck, Reads
  <1>5. /\ rest \subseteq (LocalIntents \ {c.i}) \X Versions
        /\ rest \in SUBSET Named /\ rest = c.todo \ {x}
        /\ x[1] \in LocalIntents /\ x[2] \in Versions /\ x = <<x[1], x[2]>>
    BY <1>4 DEF Named, Versions
  <1>6. /\ p \in {"hydrate", "select", "query", "finalize"}
        /\ rest # {} => p = "hydrate"
        /\ kept # {} => p \in {"hydrate", "select"}
        /\ setup.dss => p # "finalize"
        /\ q \in {"hydrate", "select", "query", "finalize"}
    BY ReadsOn
  <1>7. kept \in SUBSET (LocalIntents \X Versions)
    <2>1. c.selected \in SUBSET (LocalIntents \X Versions)
      BY <1>0 DEF Checks
    <2> QED BY <1>5, <2>1
  <1>8. /\ \A y \in c.selected : y[1] # x[1] => y \in kept
        /\ Eligible(rows[x[1]][x[2]].status) => x \in kept
        /\ ~Eligible(rows[x[1]][x[2]].status) => kept = c.selected
    OBVIOUS
  <1> HIDE DEF c, rest, p, q, kept, Kept
  <1>9. /\ m \in Checks /\ m.pc = p /\ m.todo = rest /\ m.selected = kept
        /\ SameCheck(c, m) /\ m.own = c.own /\ m.picked = c.picked /\ m.found = c.found
    BY <1>0, <1>5, <1>6, <1>7 DEF Checks, SameCheck, Loaded, Comparing
  <1>10. /\ n \in Checks /\ n.pc = q /\ n.todo = rest /\ SameCheck(c, n)
         /\ n.own = c.own /\ "indeterminate" \in n.found
    BY <1>0, <1>5, <1>6 DEF Checks, SameCheck, Loaded, Comparing
  <1> HIDE DEF m, n
  <1>11. GoodCheck(n)
    BY <1>0, <1>1, <1>5, <1>6, <1>10, Failed DEF Comparing
  <1>12. \A y \in rest \cup kept : Pending(m, y)
    BY <1>6, <1>9 DEF Pending
  <1>13. ASSUME NEW y \in c.threats, Threat(c, y), There(y), "indeterminate" \notin c.found
         PROVE  Pending(m, y) \/ <<y[1], VolumesThere(y)>> \in c.picked
    <2>1. StateTypes
      BY DEF IInv
    <2>2. CASE y \in Peers \X Nat /\ setup.dss
      BY <1>6, <1>9, <2>2 DEF Pending
    <2>3. CASE /\ y \in (LocalIntents \ {c.i}) \X Versions /\ y[1] \notin Peers
               /\ y = <<y[1], y[2]>> /\ rows[y[1]][y[2]].status \in Reserving
      <3>1. y \in c.todo \/ y \in c.selected \/ <<y[1], VolumesThere(y)>> \in c.picked
        BY <1>0, <1>1, <1>13, <2>3 DEF GoodCheck, Misses, Pending
      <3>2. CASE y \in c.todo
        <4>1. CASE y = x
          BY <1>8, <1>12, <2>3, <4>1 DEF Eligible, Reserving
        <4>2. CASE y # x
          BY <1>5, <1>12, <3>2, <4>2
        <4> QED BY <4>1, <4>2
      <3>3. CASE y \in c.selected
        <4>1. CASE ~Eligible(rows[x[1]][x[2]].status) \/ y[1] # x[1]
          BY <1>8, <1>12, <3>3, <4>1
        <4>2. CASE Eligible(rows[x[1]][x[2]].status) /\ y[1] = x[1]
          <5>1. GoodRows(rows[x[1]]) /\ y[2] \in Versions
            BY <1>5, <2>3 DEF IInv, RowsInv
          <5>2. y[2] = x[2]
            BY <1>5, <2>3, <4>2, <5>1 DEF GoodRows, Eligible, Reserving
          <5> QED BY <1>5, <1>8, <1>12, <2>3, <4>2, <5>2
        <4> QED BY <4>1, <4>2
      <3> QED BY <3>1, <3>2, <3>3
    <2> QED BY <1>1, <1>13, <2>1, <2>2, <2>3, ThreatKinds
  <1>14. GoodCheck(m)
    BY <1>0, <1>1, <1>5, <1>6, <1>9, <1>13, Carried DEF Comparing
  <1> QED BY <1>1, <1>3, <1>9, <1>10, <1>11, <1>14, OneCheckStep DEF c

\* The volumes of a selected candidate: while it is there, those it had when the
\* check read its own.
LEMMA SelectStep ==
    ASSUME IInv, NEW h \in Checkers, ReadCandidate(h)
    PROVE  IInv'
  <1> DEFINE c == checker[h]
  <1>0. c.pc = "select" /\ c \in Checks /\ GoodCheck(c)
    BY CheckFacts DEF ReadCandidate
  <1>1. c.pc \in Comparing /\ c.pc \in Loaded
    BY <1>0 DEF Comparing, Loaded
  <1>2. PICK x \in c.selected :
          LET rest == c.selected \ {x}
              next == [c EXCEPT !.pc = NextRead({}, rest), !.selected = rest]
          IN  /\ \/ ReadStep(h, [next EXCEPT !.picked = @ \cup
                                    {<<x[1], volumes[x[1]][x[2]]>>}])
                 \/ ReadStep(h, [next EXCEPT !.found = @ \cup {"indeterminate"}])
              /\ UNCHANGED setup
    BY DEF ReadCandidate, NoUse, Use
  <1> DEFINE rest == c.selected \ {x}
             p == NextRead({}, rest)
             next == [c EXCEPT !.pc = p, !.selected = rest]
             kept == c.picked \cup {<<x[1], volumes[x[1]][x[2]]>>}
             e == [next EXCEPT !.picked = @ \cup {<<x[1], volumes[x[1]][x[2]]>>}]
             n == [next EXCEPT !.found = @ \cup {"indeterminate"}]
  <1>3. /\ UNCHANGED <<rows, volumes, late, references, served, setup>>
        /\ \/ checker' = [checker EXCEPT ![h] = e]
           \/ checker' = [checker EXCEPT ![h] = n]
    BY <1>2 DEF ReadStep
  <1>4. c.selected \in SUBSET (LocalIntents \X Versions)
    BY <1>0 DEF Checks
  <1>5. /\ rest \in SUBSET (LocalIntents \X Versions) /\ rest = c.selected \ {x}
        /\ x[1] \in LocalIntents /\ x[2] \in Versions /\ x = <<x[1], x[2]>>
    BY <1>4
  <1>6. /\ p \in {"select", "query", "finalize"}
        /\ rest # {} => p = "select"
        /\ setup.dss => p # "finalize"
    BY ReadsOn
  <1>7. kept \in SUBSET ((LocalIntents \cup Peers) \X SUBSET Volume)
    <2>1. volumes[x[1]][x[2]] \in SUBSET Volume
      BY <1>5 DEF IInv, StateTypes
    <2>2. c.picked \in SUBSET ((LocalIntents \cup Peers) \X SUBSET Volume)
      BY <1>0 DEF Checks
    <2> QED BY <1>5, <2>1, <2>2
  <1>a. c.picked \subseteq kept /\ <<x[1], volumes[x[1]][x[2]]>> \in kept
    OBVIOUS
  <1>b. e = [next EXCEPT !.picked = kept]
    OBVIOUS
  <1> HIDE DEF c, rest, p, kept, e
  <1>8. /\ n \in Checks /\ n.pc = p /\ SameCheck(c, n)
        /\ n.own = c.own /\ "indeterminate" \in n.found
    BY <1>0, <1>5, <1>6 DEF Checks, SameCheck, Loaded, Comparing
  <1>9. /\ e \in Checks /\ e.pc = p /\ e.selected = rest /\ SameCheck(c, e)
        /\ e.own = c.own /\ e.picked = kept /\ e.found = c.found
    BY <1>0, <1>5, <1>6, <1>7, <1>b DEF Checks, SameCheck, Loaded, Comparing
  <1> HIDE DEF next, n
  <1>10. GoodCheck(n)
    BY <1>0, <1>1, <1>6, <1>8, Failed DEF Comparing
  <1>11. ASSUME NEW y \in c.threats, Threat(c, y), There(y), "indeterminate" \notin c.found
         PROVE  Pending(e, y) \/ <<y[1], VolumesThere(y)>> \in e.picked
    <2>1. StateTypes
      BY DEF IInv
    <2>2. CASE y \in Peers \X Nat /\ setup.dss
      BY <1>6, <1>9, <2>2 DEF Pending
    <2>3. CASE y[1] \notin Peers /\ VolumesThere(y) = volumes[y[1]][y[2]]
      <3>1. y \in c.selected \/ <<y[1], VolumesThere(y)>> \in c.picked
        BY <1>0, <1>1, <1>11, <2>3 DEF GoodCheck, Misses, Pending
      <3>2. CASE y \in rest
        BY <1>6, <1>9, <3>2 DEF Pending
      <3>3. CASE y = x
        BY <1>9, <1>a, <2>3, <3>3
      <3>4. CASE <<y[1], VolumesThere(y)>> \in c.picked
        BY <1>9, <1>a, <3>4
      <3> QED BY <1>5, <3>1, <3>2, <3>3, <3>4
    <2> QED BY <1>1, <1>11, <2>1, <2>2, <2>3, ThreatKinds
  <1>12. GoodCheck(e)
    BY <1>0, <1>1, <1>6, <1>9, <1>11, Carried DEF Comparing
  <1> QED BY <1>1, <1>3, <1>8, <1>9, <1>10, <1>12, OneCheckStep DEF c

\* The references of the DSS.
LEMMA QueryStep ==
    ASSUME IInv, NEW h \in Checkers, QueryReferences(h)
    PROVE  IInv'
  <1> DEFINE c == checker[h]
             asked == {v \in c.own : Queryable(v)}
             near == {p \in Peers : /\ references[p].ver > 0
                                    /\ \E v \in asked, w \in PeerVolumes(references[p]) :
                                          InArea(v, w)}
             all == {<<p, references[p].ver>> : p \in near}
             more == IF asked = c.own THEN {} ELSE {"indeterminate"}
             q == IF all = {} THEN "finalize" ELSE "details"
             m == [c EXCEPT !.pc = q, !.todo = all, !.found = @ \cup more]
             n == [c EXCEPT !.pc = "finalize", !.found = @ \cup {"indeterminate"}]
  <1>1. /\ c.pc = "query" /\ c \in Checks /\ GoodCheck(c)
        /\ UNCHANGED <<rows, volumes, late, references, served, setup>>
        /\ \/ checker' = [checker EXCEPT ![h] = m]
           \/ checker' = [checker EXCEPT ![h] = n]
    BY CheckFacts DEF QueryReferences, ReadStep, NoUse, Use
  <1>2. /\ c.pc \in Comparing /\ c.pc \in Loaded
        /\ c.own \in SUBSET Volume
    BY <1>1, CheckFacts DEF Comparing, Loaded
  <1>3. StateTypes
    BY DEF IInv
  <1>4. /\ all \subseteq Peers \X (Nat \ {0})
        /\ all \in SUBSET Named
    BY <1>3, ReferenceVersions DEF Named
  <1>5. ASSUME NEW p \in Peers, references[p].ver > 0, "indeterminate" \notin more,
               PeerVolumes(references[p]) \in SUBSET Volume,
               AnyConflict(c.own, PeerVolumes(references[p]))
        PROVE  <<p, references[p].ver>> \in all
    <2>1. PICK v \in c.own, w \in PeerVolumes(references[p]) : TrulyConflict(v, w)
      BY <1>5 DEF AnyConflict
    <2>2. v \in asked
      BY <1>5, <2>1
    <2>3. v \in Volume /\ w \in Volume
      BY <1>2, <1>5, <2>1
    <2>4. InArea(v, w)
      BY <2>1, <2>3, ConflictIsInArea
    <2> QED BY <1>5, <2>1, <2>2, <2>4
  <1>6. more \in SUBSET {"indeterminate"}
    OBVIOUS
  <1>7. q \in {"finalize", "details"} /\ (q = "details" \/ all = {})
    OBVIOUS
  <1> HIDE DEF c, all, q, more
  <1>8. /\ m \in Checks /\ m.pc = q /\ m.todo = all /\ SameCheck(c, m) /\ m.own = c.own
        /\ m.picked = c.picked /\ m.found = c.found \cup more
    BY <1>1, <1>4, <1>6, <1>7 DEF Checks, SameCheck, Loaded, Comparing
  <1>9. /\ n \in Checks /\ n.pc = "finalize" /\ SameCheck(c, n)
        /\ n.own = c.own /\ "indeterminate" \in n.found
    BY <1>1 DEF Checks, SameCheck, Loaded, Comparing
  <1> HIDE DEF m, n
  <1>10. GoodCheck(n)
    BY <1>1, <1>2, <1>9, Failed DEF Comparing
  <1>11. ASSUME NEW x \in c.threats, Threat(c, x), There(x), "indeterminate" \notin m.found
         PROVE  Pending(m, x) \/ <<x[1], VolumesThere(x)>> \in m.picked
    <2>0. "indeterminate" \notin c.found /\ "indeterminate" \notin more
      BY <1>8, <1>11
    <2>1. Pending(c, x) \/ <<x[1], VolumesThere(x)>> \in c.picked
      BY <1>1, <1>2, <1>11, <2>0 DEF GoodCheck, Misses
    <2>2. CASE x[1] \notin Peers
      BY <1>1, <1>8, <2>1, <2>2 DEF Pending
    <2>3. CASE x[1] \in Peers
      <3>1. /\ x = <<x[1], x[2]>> /\ x[2] > 0 /\ references[x[1]].ver = x[2]
            /\ PeerVolumes(references[x[1]]) \in SUBSET Volume
            /\ AnyConflict(c.own, PeerVolumes(references[x[1]]))
        BY <1>2, <1>3, <1>11, <2>3, ThreatKinds
      <3>2. x \in all
        BY <1>5, <2>0, <2>3, <3>1
      <3> QED BY <1>7, <1>8, <3>2 DEF Pending
    <2> QED BY <2>2, <2>3
  <1>12. GoodCheck(m)
    BY <1>1, <1>2, <1>4, <1>7, <1>8, <1>11, Carried DEF Comparing
  <1> QED BY <1>1, <1>2, <1>8, <1>9, <1>10, <1>12, OneCheckStep DEF c

\* The details of the references: those that are accepted are those of the
\* reference as it is in the DSS.
LEMMA DetailsStep ==
    ASSUME IInv, NEW h \in Checkers, GetDetails(h)
    PROVE  IInv'
  <1> DEFINE c == checker[h]
  <1>0. c.pc = "details" /\ c \in Checks /\ GoodCheck(c)
    BY CheckFacts DEF GetDetails
  <1>1. c.pc \in Comparing /\ c.pc \in Loaded
    BY <1>0, CheckFacts DEF Comparing, Loaded
  <1>2. PICK x \in c.todo :
          LET rest == c.todo \ {x}
              next == [c EXCEPT !.todo = rest,
                         !.pc = IF rest = {} THEN "finalize" ELSE "details"]
          IN  /\ \/ /\ AcceptsDetails(x[1], x[2])
                    /\ ReadStep(h, [next EXCEPT !.picked = @ \cup
                                      {<<x[1], PeerVolumes(served[x[1]])>>}])
                 \/ ReadStep(h, [next EXCEPT !.found = @ \cup {"indeterminate"}])
              /\ UNCHANGED setup
    BY DEF GetDetails, NoUse, Use
  <1> DEFINE rest == c.todo \ {x}
             p == IF rest = {} THEN "finalize" ELSE "details"
             next == [c EXCEPT !.todo = rest, !.pc = p]
             kept == c.picked \cup {<<x[1], PeerVolumes(served[x[1]])>>}
             e == [next EXCEPT !.picked = @ \cup {<<x[1], PeerVolumes(served[x[1]])>>}]
             n == [next EXCEPT !.found = @ \cup {"indeterminate"}]
  <1>3. /\ UNCHANGED <<rows, volumes, late, references, served, setup>>
        /\ \/ AcceptsDetails(x[1], x[2]) /\ checker' = [checker EXCEPT ![h] = e]
           \/ checker' = [checker EXCEPT ![h] = n]
    BY <1>2 DEF ReadStep
  <1>4. c.todo \subseteq Peers \X (Nat \ {0})
    BY <1>0 DEF GoodCheck, Reads
  <1>5. /\ rest \subseteq Peers \X (Nat \ {0})
        /\ rest \in SUBSET Named /\ rest = c.todo \ {x}
        /\ x[1] \in Peers /\ x[2] \in Nat \ {0} /\ x = <<x[1], x[2]>>
    BY <1>4 DEF Named
  <1>6. p \in {"finalize", "details"} /\ (p = "details" \/ rest = {})
    OBVIOUS
  <1>7. ASSUME AcceptsDetails(x[1], x[2])
        PROVE  kept \in SUBSET ((LocalIntents \cup Peers) \X SUBSET Volume)
    <2>1. PeerVolumes(served[x[1]]) \in SUBSET Volume
      <3>1. served[x[1]].ver # 0
        BY <1>5, <1>7 DEF AcceptsDetails
      <3>2. served[x[1]] \in References
        BY <1>5 DEF IInv, StateTypes
      <3>3. served[x[1]].intent \in PeerIntent
        BY <3>1, <3>2, DeconflictionAssumption DEF References, NoReference
      <3> QED BY <3>3 DEF PeerIntent, PeerVolumes
    <2>2. c.picked \in SUBSET ((LocalIntents \cup Peers) \X SUBSET Volume)
      BY <1>0 DEF Checks
    <2> QED BY <1>5, <2>1, <2>2
  <1>a. c.picked \subseteq kept /\ <<x[1], PeerVolumes(served[x[1]])>> \in kept
    OBVIOUS
  <1>b. e = [next EXCEPT !.picked = kept]
    OBVIOUS
  <1> HIDE DEF c, rest, p, kept, e
  <1>8. /\ n \in Checks /\ n.pc = p /\ n.todo = rest /\ SameCheck(c, n)
        /\ n.own = c.own /\ "indeterminate" \in n.found
    BY <1>0, <1>5, <1>6 DEF Checks, SameCheck, Loaded, Comparing
  <1>9. ASSUME AcceptsDetails(x[1], x[2])
        PROVE  /\ e \in Checks /\ e.pc = p /\ e.todo = rest /\ SameCheck(c, e)
               /\ e.own = c.own /\ e.picked = kept /\ e.found = c.found
    BY <1>0, <1>5, <1>6, <1>7, <1>9, <1>b DEF Checks, SameCheck, Loaded, Comparing
  <1> HIDE DEF next, n
  <1>10. GoodCheck(n)
    BY <1>0, <1>1, <1>5, <1>6, <1>8, Failed DEF Comparing
  <1>11. ASSUME AcceptsDetails(x[1], x[2]) PROVE GoodCheck(e)
    <2>1. ASSUME NEW y \in c.threats, Threat(c, y), There(y), "indeterminate" \notin c.found
          PROVE  Pending(e, y) \/ <<y[1], VolumesThere(y)>> \in e.picked
      <3>1. y \in c.todo \/ <<y[1], VolumesThere(y)>> \in c.picked
        BY <1>0, <1>1, <2>1 DEF GoodCheck, Misses, Pending
      <3>2. CASE <<y[1], VolumesThere(y)>> \in c.picked
        BY <1>9, <1>11, <1>a, <3>2
      <3>3. CASE y \in rest
        BY <1>6, <1>9, <1>11, <3>3 DEF Pending
      <3>4. CASE y = x
        <4>1. StateTypes
          BY DEF IInv
        <4>2. served[x[1]] = references[x[1]] /\ VolumesThere(x) = PeerVolumes(references[x[1]])
          BY <1>1, <1>5, <2>1, <3>4, <4>1, ThreatKinds, Names
        <4> QED BY <1>9, <1>11, <1>a, <3>4, <4>2
      <3> QED BY <1>5, <3>1, <3>2, <3>3, <3>4
    <2> QED BY <1>0, <1>1, <1>5, <1>6, <1>9, <1>11, <2>1, Carried DEF Comparing
  <1>12. \E m : /\ GoodCheck(m) /\ SameCheck(c, m) /\ checker' = [checker EXCEPT ![h] = m]
    BY <1>3, <1>8, <1>9, <1>10, <1>11
  <1> QED BY <1>1, <1>3, <1>12, OneCheckStep DEF c

\* A handler that is done, and one that has read the intent.
LEMMA IdleIsGood == IdleChecker \in Checks /\ IdleChecker.pc = "idle" /\ GoodCheck(IdleChecker)
  <1>1. 1 \in Versions
    BY MaxVersionAssumption DEF Versions
  <1>2. IdleChecker \in Checks /\ IdleChecker.pc = "idle"
    BY <1>1 DEF IdleChecker, Checks
  <1>3. Reads(IdleChecker) /\ Misses(IdleChecker)
    BY <1>2 DEF Reads, Misses, Loaded, Comparing
  <1> QED BY <1>2, <1>3 DEF GoodCheck

\* A check goes on to commit only when nothing it knows of is there.
LEMMA FinalizeStep ==
    ASSUME IInv, NEW h \in Checkers, Finalize(h)
    PROVE  IInv'
  <1> DEFINE c == checker[h]
             seen == UNION {x[2] : x \in c.picked}
             all == c.found \cup EvaluateConflicts(c.own, seen)
             m == [IdleChecker EXCEPT !.pc = "commit", !.i = c.i, !.ver = c.ver,
                                      !.rev = c.rev, !.of = c.of, !.threats = c.threats]
  <1>1. /\ c.pc = "finalize" /\ c \in Checks /\ GoodCheck(c)
        /\ UNCHANGED <<rows, volumes, late, references, served, setup>>
        /\ checker' = [checker EXCEPT ![h] =
                         IF Posture(all) = "clear" THEN m ELSE IdleChecker]
    BY CheckFacts DEF Finalize, NoUse
  <1>2. /\ c.pc \in Comparing /\ c.pc \in Loaded
        /\ c.own \in SUBSET Volume
    BY <1>1, CheckFacts DEF Comparing, Loaded
  <1>3. seen \in SUBSET Volume /\ \A y \in c.picked : y[2] \subseteq seen
    <2>1. c.picked \in SUBSET ((LocalIntents \cup Peers) \X SUBSET Volume)
      BY <1>1 DEF Checks
    <2>2. \A y \in c.picked : y[2] \in SUBSET Volume
      BY <2>1
    <2> QED BY <2>2
  <1>4. all = c.found \cup EvaluateConflicts(c.own, seen)
    OBVIOUS
  <1>5. IdleChecker \in Checks /\ IdleChecker.pc = "idle" /\ GoodCheck(IdleChecker)
    BY IdleIsGood
  <1> HIDE DEF c, seen, all
  <1>6. m \in Checks /\ m.pc = "commit" /\ SameCheck(c, m)
    <2>1. /\ c.i \in LocalIntents \cup {"none"} /\ c.ver \in Versions /\ c.rev \in Nat
          /\ c.of \in Versions /\ c.threats \in SUBSET Named
      BY <1>1 DEF Checks
    <2> QED BY <2>1 DEF IdleChecker, Checks, SameCheck, Loaded, Comparing
  <1> HIDE DEF m
  <1>7. ASSUME Posture(all) = "clear", NEW x \in c.threats, There(x) PROVE FALSE
    <2>1. all \cap Findings = {}
      BY <1>7, ClearPosture
    <2>2. "indeterminate" \notin c.found /\ EvaluateConflicts(c.own, seen) \cap Findings = {}
      BY <1>4, <2>1 DEF Findings
    <2>3. ~AnyConflict(c.own, seen)
      BY <1>2, <1>3, <2>2, NothingFound
    <2>4. Threat(c, x) /\ <<x[1], VolumesThere(x)>> \in c.picked
      BY <1>1, <1>2, <1>7, <2>2 DEF GoodCheck, Misses, Pending
    <2>5. AnyConflict(c.own, VolumesThere(x))
      BY <1>2, <1>7, <2>4 DEF Threat
    <2>6. VolumesThere(x) \subseteq seen
      <3> DEFINE y == <<x[1], VolumesThere(x)>>
      <3>1. y \in c.picked /\ y[2] = VolumesThere(x)
        BY <2>4
      <3> QED BY <1>3, <3>1
    <2> QED BY <2>3, <2>5, <2>6 DEF AnyConflict
  <1>8. ASSUME Posture(all) = "clear" PROVE GoodCheck(m)
    <2>1. Reads(c) /\ c.pc # "idle"
      BY <1>1 DEF GoodCheck
    <2>2. Reads(m)
      BY <1>2, <1>6, <2>1 DEF Reads, SameCheck, Comparing
    <2>3. \A x \in c.threats : Threat(c, x) /\ (Threat(c, x) => Threat(m, x))
      <3>1. \A x \in c.threats : Threat(c, x)
        BY <1>1, <1>2 DEF GoodCheck, Misses
      <3>2. m.i = c.i /\ m.pc \notin Comparing
        BY <1>6 DEF SameCheck, Comparing
      <3> QED BY <3>1, <3>2 DEF Threat
    <2>4. Misses(m)
      BY <1>6, <1>7, <1>8, <2>3 DEF Misses, SameCheck, Comparing
    <2> QED BY <1>6, <2>2, <2>4 DEF GoodCheck
  <1>9. CASE Posture(all) = "clear"
    BY <1>1, <1>2, <1>6, <1>8, <1>9, OneCheckStep DEF c
  <1>10. CASE Posture(all) # "clear"
    <2>1. checker' = [checker EXCEPT ![h] = IdleChecker] /\ IdleChecker.pc \notin Loaded
      BY <1>1, <1>5, <1>10 DEF Loaded, Comparing
    <2> QED BY <1>1, <1>5, <2>1, OneCheckStep DEF c
  <1> QED BY <1>9, <1>10

\* ActivateIntent starts.
LEMMA BeginStep ==
    ASSUME IInv, NEW h \in Checkers, NEW i \in LocalIntents, NEW v \in Versions,
           BeginActivation(h, i, v)
    PROVE  IInv'
  <1> DEFINE n == rows[i][v].rev
             m == [IdleChecker EXCEPT !.pc = "check", !.i = i, !.ver = v, !.rev = n]
  <1>1. /\ IsLatest(rows[i], v) /\ rows[i][v].status = "accepted"
        /\ checker' = [checker EXCEPT ![h] = m]
        /\ UNCHANGED <<rows, volumes, late, references, served, setup>>
    BY DEF BeginActivation, ReadStep, Use
  <1>2. n \in Nat /\ n = rows[i][v].rev
    BY DEF IInv, StateTypes, Row
  <1> HIDE DEF n
  <1>3. m \in Checks /\ m.pc = "check" /\ m.i = i /\ m.ver = v /\ m.rev = n
    <2>1. 1 \in Versions
      BY MaxVersionAssumption DEF Versions
    <2> QED BY <1>2, <2>1 DEF IdleChecker, Checks
  <1> HIDE DEF m
  <1>4. Reads(m)
    <2>1. Exists(rows[i], v) /\ n <= n
      BY <1>1, <1>2 DEF IsLatest
    <2> QED BY <1>1, <1>2, <1>3, <2>1 DEF Reads, Loaded, Comparing
  <1>5. Misses(m) /\ m.pc \notin Loaded
    BY <1>3 DEF Misses, Loaded, Comparing
  <1> QED BY <1>1, <1>3, <1>4, <1>5, OneCheckStep DEF GoodCheck

\* The version that is the latest.
LEMMA OneLatest ==
    ASSUME NEW R, NEW v \in Versions, NEW w \in Versions, IsLatest(R, v),
           Exists(R, w)
    PROVE  w <= v /\ (IsLatest(R, w) => w = v)
  <1>1. v \in Nat /\ w \in Nat
    BY DEF Versions
  <1>2. w <= v
    BY <1>1 DEF IsLatest
  <1>3. IsLatest(R, w) => v <= w
    BY <1>1 DEF IsLatest
  <1> QED BY <1>1, <1>2, <1>3

\* What a check that would commit knows of its own intent.
LEMMA CurrentFacts ==
    ASSUME StateTypes, NEW c, GoodCheck(c), Current(c)
    PROVE  /\ c.i \in LocalIntents /\ c.ver \in Versions /\ c.of = c.ver
           /\ rows[c.i][c.ver].status = "accepted"
           /\ IsLatest(rows[c.i], c.ver)
           /\ volumes[c.i][c.ver] \in SUBSET Volume
  <1>1. c.pc \in Loaded /\ c.pc # "idle" /\ c \in Checks /\ Reads(c)
    BY DEF GoodCheck, Current, Loaded, Comparing
  <1>2. c.i \in LocalIntents /\ c.ver \in Versions /\ c.of \in Versions
    BY <1>1 DEF Reads, Checks
  <1>3. IsLatest(rows[c.i], c.ver) /\ rows[c.i][c.ver].rev = c.rev
    BY DEF Current, Unchanged
  <1>4. rows[c.i][c.ver].status = "accepted" /\ c.of >= c.ver /\ Exists(rows[c.i], c.of)
    BY <1>1, <1>3 DEF Reads
  <1>5. c.of = c.ver
    <2>1. c.of <= c.ver /\ c.of \in Nat /\ c.ver \in Nat
      BY <1>2, <1>3, <1>4, OneLatest DEF Versions
    <2> QED BY <1>4, <2>1
  <1> QED BY <1>2, <1>3, <1>4, <1>5 DEF StateTypes

\* The check reads its volumes: it knows every conflicting reservation, and a
\* check that does not know this intent is one this check knows of.
LEMMA LoadStep ==
    ASSUME IInv, NEW h \in Checkers, LoadIntent(h)
    PROVE  IInv'
  <1> DEFINE c == checker[h]
  <1>0. c.pc = "check" /\ c \in Checks /\ GoodCheck(c)
    BY CheckFacts DEF LoadIntent
  <1>1. PICK v \in Versions :
          /\ IsLatest(rows[c.i], v)
          /\ LET own == volumes[c.i][v] IN
             ReadStep(h, [c EXCEPT
                !.pc = IF own = {} THEN "finalize" ELSE "candidates",
                !.of = v, !.own = own,
                !.found = IF own = {} THEN {"indeterminate"} ELSE {},
                !.threats = Threats(c.i, own)])
    BY DEF LoadIntent
  <1> DEFINE own == volumes[c.i][v]
             p == IF own = {} THEN "finalize" ELSE "candidates"
             f == IF own = {} THEN {"indeterminate"} ELSE {}
             t == Threats(c.i, own)
             m == [c EXCEPT !.pc = p, !.of = v, !.own = own, !.found = f, !.threats = t]
  <1>2. /\ UNCHANGED <<rows, volumes, late, references, served, setup>>
        /\ checker' = [checker EXCEPT ![h] = m]
    BY <1>1 DEF ReadStep, LoadIntent, NoUse
  <1>3. StateTypes /\ RowsInv /\ ChecksInv /\ ForeseenInv /\ NoConflictingActives
    BY DEF IInv
  <1>4. c.i \in LocalIntents /\ c.ver \in Versions /\ Exists(rows[c.i], c.ver)
    BY <1>0 DEF GoodCheck, Reads, Checks
  <1>5. own \in SUBSET Volume /\ own = volumes[c.i][v]
    BY <1>3, <1>4 DEF StateTypes
  <1>6. /\ \A x \in t : Threat(m, x)
        /\ t \in SUBSET Named
        /\ \A j \in LocalIntents \ {c.i}, w \in Versions :
              rows[j][w].status \in Reserving /\ AnyConflict(own, volumes[j][w])
              => <<j, w>> \in t
    <2>0. m.i = c.i /\ m.own = own
      BY <1>0 DEF Checks
    <2>1. ASSUME NEW x \in (LocalIntents \ {c.i}) \X Versions,
                 rows[x[1]][x[2]].status \in Reserving,
                 AnyConflict(own, volumes[x[1]][x[2]])
          PROVE  Threat(m, x) /\ x \in Named
      <3>1. x[1] \in LocalIntents /\ x[1] \notin Peers
        BY Names
      <3>2. x \in Named
        BY DEF Named, Versions
      <3>3. VolumesThere(x) = volumes[x[1]][x[2]]
        BY <3>1 DEF VolumesThere
      <3> QED BY <2>0, <2>1, <3>1, <3>2, <3>3 DEF Threat
    <2>2. ASSUME NEW x \in Peers \X (1..MaxPeerVersion), setup.dss,
                 references[x[1]].ver = x[2], served[x[1]] = references[x[1]],
                 AnyConflict(own, PeerVolumes(references[x[1]]))
          PROVE  Threat(m, x) /\ x \in Named
      <3>1. /\ x[1] \in Peers /\ x[1] \notin LocalIntents /\ x[2] \in Nat /\ x[2] > 0
            /\ x \in Peers \X Nat
        BY Names, DeconflictionAssumption
      <3>2. x \in Named
        BY <3>1 DEF Named
      <3>3. VolumesThere(x) = PeerVolumes(references[x[1]])
        BY <3>1 DEF VolumesThere
      <3>4. references[x[1]].ver >= x[2]
        BY <2>2, <3>1
      <3> QED BY <2>0, <2>2, <3>1, <3>2, <3>3, <3>4 DEF Threat
    <2>3. \A x \in t : Threat(m, x) /\ x \in Named
      BY <2>1, <2>2 DEF Threats
    <2>4. \A j \in LocalIntents \ {c.i}, w \in Versions :
              rows[j][w].status \in Reserving /\ AnyConflict(own, volumes[j][w])
              => <<j, w>> \in t
      BY DEF Threats
    <2> QED BY <2>3, <2>4
  <1>7. /\ p = "candidates" \/ (p = "finalize" /\ f = {"indeterminate"})
        /\ f \in SUBSET {"indeterminate"}
    OBVIOUS
  <1> HIDE DEF c, own, p, f, t
  <1>8. /\ m \in Checks /\ m.pc = p /\ m.i = c.i /\ m.ver = c.ver /\ m.rev = c.rev
        /\ m.of = v /\ m.own = own /\ m.found = f /\ m.threats = t
    BY <1>0, <1>5, <1>6, <1>7 DEF Checks, Loaded, Comparing
  <1> HIDE DEF m
  <1>9. p \in Comparing /\ p \in Loaded /\ p # "commit" /\ p # "hydrate" /\ p # "details"
    BY <1>7 DEF Comparing, Loaded
  <1>10. GoodCheck(m)
    <2>1. v >= c.ver /\ Exists(rows[c.i], v)
      <3>1. c.ver <= v /\ c.ver \in Nat /\ v \in Nat
        BY <1>1, <1>4, OneLatest DEF Versions
      <3> QED BY <1>1, <3>1 DEF IsLatest
    <2>2. Reads(m)
      BY <1>0, <1>4, <1>5, <1>8, <1>9, <2>1 DEF GoodCheck, Reads
    <2>3. Misses(m)
      BY <1>6, <1>7, <1>8, <1>9 DEF Misses, Pending
    <2> QED BY <1>8, <2>2, <2>3 DEF GoodCheck
  <1>11. StateTypes' /\ RowsInv' /\ NoConflictingActives'
    BY <1>2, <1>3 DEF StateTypes, RowsInv, NoConflictingActives
  <1>12. \A d : GoodCheck(d) => GoodCheck(d)'
    BY <1>2, <1>3, <1>11, WorldStays, ChecksSurvive
  <1>13. /\ checker' \in [Checkers -> Checks]
         /\ \A g \in Checkers : checker'[g] = IF g = h THEN m ELSE checker[g]
    BY <1>2, <1>3, <1>8 DEF ChecksInv
  <1>14. ChecksInv'
    BY <1>3, <1>10, <1>12, <1>13 DEF ChecksInv
  <1>15. \A d : Current(d)' <=> Current(d)
    BY <1>2 DEF Current
  <1>16. Current(m) => v = c.ver
    BY <1>3, <1>8, <1>10, CurrentFacts
  <1>17. ForeseenInv'
    <2> SUFFICES ASSUME NEW g \in Checkers, Current(checker[g])',
                        <<checker'[g].i, checker'[g].ver>> \notin late,
                        NEW j \in LocalIntents \ {checker'[g].i}, NEW w \in Versions,
                        rows[j][w].status \in Reserving, <<j, w>> \notin late,
                        AnyConflict(volumes[checker'[g].i][checker'[g].ver], volumes[j][w]),
                        <<j, w>> \notin checker'[g].threats
                 PROVE  CameLater(checker[g], j, w)'
      BY <1>2 DEF ForeseenInv, Foreseen
    <2>1. Current(checker'[g])
      BY <1>15 DEF Current
    <2>2. CASE g = h
      <3>1. checker'[g] = m
        BY <1>13, <2>2
      <3>2. volumes[checker'[g].i][checker'[g].ver] = own
        BY <1>5, <1>8, <1>16, <2>1, <3>1
      <3>3. <<j, w>> \in t
        BY <1>6, <1>8, <3>1, <3>2
      <3> QED BY <1>8, <3>1, <3>3
    <2>3. CASE g # h
      <3>1. checker'[g] = checker[g] /\ Current(checker[g]) /\ GoodCheck(checker[g])
        BY <1>3, <1>13, <2>1, <2>3 DEF ChecksInv
      <3> DEFINE a == checker[g].i
                 u == checker[g].ver
      <3>2. CameLater(checker[g], j, w)
        BY <1>3, <3>1 DEF ForeseenInv, Foreseen
      <3>3. /\ a \in LocalIntents /\ u \in Versions /\ rows[a][u].status = "accepted"
            /\ volumes[a][u] \in SUBSET Volume
        BY <1>3, <3>1, CurrentFacts
      <3>4. ASSUME NEW d \in Checkers, Current(checker[d])', checker'[d].i = j,
                   checker'[d].ver = w
            PROVE  <<a, u>> \in checker'[d].threats
        <4>1. Current(checker'[d])
          BY <1>15, <3>4 DEF Current
        <4>2. CASE d # h
          <5>1. checker'[d] = checker[d]
            BY <1>13, <4>2
          <5> QED BY <3>2, <3>4, <4>1, <5>1 DEF CameLater
        <4>3. CASE d = h
          <5>1. checker'[d] = m /\ c.i = j /\ v = w
            BY <1>8, <1>13, <1>16, <3>4, <4>1, <4>3
          <5>2. AnyConflict(own, volumes[a][u])
            <6>1. AnyConflict(volumes[a][u], own)
              BY <1>5, <3>1, <5>1
            <6> QED BY <1>5, <3>3, <6>1, ConflictIsMutual
          <5>3. a \in LocalIntents \ {c.i} /\ rows[a][u].status \in Reserving
            BY <3>1, <3>3, <5>1 DEF Reserving
          <5> QED BY <1>6, <1>8, <3>3, <5>1, <5>2, <5>3
        <4> QED BY <4>2, <4>3
      <3>5. rows'[j][w].status = "accepted" /\ checker'[g].i = a /\ checker'[g].ver = u
        BY <1>2, <3>1, <3>2 DEF CameLater
      <3> HIDE DEF a, u
      <3> QED BY <3>4, <3>5 DEF CameLater
    <2> QED BY <2>2, <2>3
  <1> QED BY <1>11, <1>14, <1>17 DEF IInv

-----------------------------------------------------------------------------
(* Writes, and the rest of the world.                                      *)

\* A version may become active: no active intent conflicts with it, and every
\* other check that would commit a conflicting intent knows of it.
MayActivate(k, w) ==
    /\ rows[k][w].status \in Reserving
    /\ <<k, w>> \notin late => \A j \in LocalIntents \ {k}, u \in Versions :
          rows[j][u].status = "active" /\ <<j, u>> \notin late =>
              ~AnyConflict(volumes[k][w], volumes[j][u])
    /\ <<k, w>> \notin late => \A g \in Checkers :
          /\ Current(checker[g]) /\ checker[g].i # k
          /\ <<checker[g].i, checker[g].ver>> \notin late
          /\ AnyConflict(volumes[checker[g].i][checker[g].ver], volumes[k][w])
          => <<k, w>> \in checker[g].threats

\* A write of the rows of an intent that activates no version but one that may
\* be, and changes no volume of a reservation.
Write(k, S) ==
    /\ RowsMove(rows[k], S)
    /\ rows' = [rows EXCEPT ![k] = S]
    /\ volumes' \in [LocalIntents -> [Versions -> SUBSET Volume]]
    /\ VolumesMove
    /\ UNCHANGED <<late, references, served, setup>>
    /\ checker' \in [Checkers -> Checks]
    /\ \A g \in Checkers : checker'[g] \in {checker[g], IdleChecker}
    /\ \A w \in Versions : S[w].status = "active" =>
          rows[k][w].status = "active" \/ MayActivate(k, w)

\* Such a write keeps the invariant: the checks of that intent will find its row
\* changed.
LEMMA WriteStep ==
    ASSUME IInv, NEW k \in LocalIntents, NEW S, Write(k, S)
    PROVE  IInv'
  <1>0. /\ RowsMove(rows[k], S)
        /\ rows' = [rows EXCEPT ![k] = S]
        /\ volumes' \in [LocalIntents -> [Versions -> SUBSET Volume]]
        /\ VolumesMove
        /\ UNCHANGED <<late, references, served, setup>>
        /\ checker' \in [Checkers -> Checks]
        /\ \A g \in Checkers : checker'[g] \in {checker[g], IdleChecker}
        /\ \A w \in Versions : S[w].status = "active" =>
              rows[k][w].status = "active" \/ MayActivate(k, w)
    BY DEF Write
  <1>1. StateTypes /\ RowsInv /\ ChecksInv /\ ForeseenInv /\ NoConflictingActives
    BY DEF IInv
  <1>2. /\ rows'[k] = S
        /\ \A i \in LocalIntents : i # k => rows'[i] = rows[i]
    BY <1>0, <1>1 DEF StateTypes
  <1>3. S \in [Versions -> Row] /\ GoodRows(S)
    BY <1>0 DEF RowsMove
  <1>4. StateTypes'
    BY <1>0, <1>1, <1>3 DEF StateTypes
  <1>5. RowsInv'
    BY <1>1, <1>2, <1>3 DEF RowsInv
  <1>6. WorldMoves
    BY <1>0, <1>2 DEF WorldMoves
  <1>7. \A c : GoodCheck(c) => GoodCheck(c)'
    BY <1>1, <1>4, <1>6, ChecksSurvive
  <1>8. ChecksInv'
    <2>1. \A g \in Checkers : GoodCheck(checker[g]) /\ GoodCheck(IdleChecker)
      BY <1>1, IdleIsGood DEF ChecksInv
    <2> QED BY <1>0, <1>7, <2>1 DEF ChecksInv
  <1>9. \A i \in LocalIntents, v \in Versions :
          rows[i][v].status \in Reserving /\ <<i, v>> \notin late =>
              volumes'[i][v] = volumes[i][v] /\ volumes[i][v] \in SUBSET Volume
    BY <1>0, <1>1 DEF VolumesMove, StateTypes
  <1>10. \A w \in Versions : S[w].status = "active" => rows[k][w].status \in Reserving
    BY <1>0 DEF MayActivate, Reserving
  <1>11. ASSUME NEW g \in Checkers, Current(checker[g])'
         PROVE  /\ checker'[g] = checker[g] /\ Current(checker[g]) /\ checker[g].i # k
                /\ checker[g].i \in LocalIntents /\ checker[g].ver \in Versions
                /\ rows[checker[g].i][checker[g].ver].status = "accepted"
                /\ <<checker[g].i, checker[g].ver>> \notin late =>
                      volumes'[checker[g].i][checker[g].ver]
                        = volumes[checker[g].i][checker[g].ver]
    <2>1. /\ checker'[g].pc \in Loaded
          /\ Unchanged(rows'[checker'[g].i], checker'[g].ver, checker'[g].rev)
      BY <1>11 DEF Current
    <2>2. checker'[g] = checker[g]
      BY <1>0, <2>1, IdleIsGood DEF Loaded, Comparing
    <2>3. GoodCheck(checker[g]) /\ checker[g].pc # "idle"
      BY <1>1, <2>1, <2>2 DEF ChecksInv, Loaded, Comparing
    <2>4. /\ checker[g].i \in LocalIntents /\ checker[g].ver \in Versions
          /\ checker[g].rev \in Nat
          /\ Exists(rows[checker[g].i], checker[g].ver)
          /\ checker[g].rev <= rows[checker[g].i][checker[g].ver].rev
      BY <2>3 DEF GoodCheck, Reads, Checks
    <2>5. checker[g].i # k
      <3>1. \A v \in Versions, n \in Nat :
              Exists(rows[k], v) /\ n <= rows[k][v].rev => ~Unchanged(S, v, n)
        BY <1>0 DEF RowsMove
      <3>2. Unchanged(rows'[checker[g].i], checker[g].ver, checker[g].rev)
        BY <2>1, <2>2
      <3> QED BY <1>2, <2>4, <3>1, <3>2
    <2>6. Current(checker[g])
      BY <1>2, <2>1, <2>2, <2>4, <2>5 DEF Current
    <2>7. rows[checker[g].i][checker[g].ver].status = "accepted"
      BY <1>1, <2>3, <2>6, CurrentFacts
    <2> QED BY <1>9, <2>2, <2>4, <2>5, <2>6, <2>7 DEF Reserving
  <1>12. NoConflictingActives'
    <2>1. ASSUME NEW w \in Versions, S[w].status = "active", <<k, w>> \notin late,
                 NEW j \in LocalIntents \ {k}, NEW u \in Versions,
                 rows[j][u].status = "active", <<j, u>> \notin late
          PROVE  /\ ~AnyConflict(volumes'[k][w], volumes'[j][u])
                 /\ ~AnyConflict(volumes'[j][u], volumes'[k][w])
      <3>1. /\ volumes'[k][w] = volumes[k][w] /\ volumes[k][w] \in SUBSET Volume
            /\ volumes'[j][u] = volumes[j][u] /\ volumes[j][u] \in SUBSET Volume
        BY <1>9, <1>10, <2>1 DEF Reserving
      <3>2. ~AnyConflict(volumes[k][w], volumes[j][u])
        BY <1>0, <1>1, <2>1 DEF NoConflictingActives, MayActivate
      <3>3. ~AnyConflict(volumes[j][u], volumes[k][w])
        BY <3>1, <3>2, ConflictIsMutual
      <3> QED BY <3>1, <3>2, <3>3
    <2>2. ASSUME NEW i \in LocalIntents \ {k}, NEW j \in LocalIntents \ {k}, i # j,
                 NEW v \in Versions, NEW w \in Versions,
                 rows[i][v].status = "active", rows[j][w].status = "active",
                 <<i, v>> \notin late, <<j, w>> \notin late
          PROVE  ~AnyConflict(volumes'[i][v], volumes'[j][w])
      <3>1. volumes'[i][v] = volumes[i][v] /\ volumes'[j][w] = volumes[j][w]
        BY <1>9, <2>2 DEF Reserving
      <3> QED BY <1>1, <2>2, <3>1 DEF NoConflictingActives
    <2> SUFFICES ASSUME NEW i \in LocalIntents, NEW j \in LocalIntents, i # j,
                        NEW v \in Versions, NEW w \in Versions,
                        rows'[i][v].status = "active", rows'[j][w].status = "active",
                        <<i, v>> \notin late, <<j, w>> \notin late
                 PROVE  ~AnyConflict(volumes'[i][v], volumes'[j][w])
      BY <1>0 DEF NoConflictingActives
    <2>3. CASE i = k
      BY <1>2, <2>1, <2>3
    <2>4. CASE j = k
      BY <1>2, <2>1, <2>4
    <2>5. CASE i # k /\ j # k
      BY <1>2, <2>2, <2>5
    <2> QED BY <2>3, <2>4, <2>5
  <1>13. ForeseenInv'
    <2> SUFFICES ASSUME NEW g \in Checkers, Current(checker[g])',
                        <<checker'[g].i, checker'[g].ver>> \notin late,
                        NEW j \in LocalIntents \ {checker'[g].i}, NEW w \in Versions,
                        rows'[j][w].status \in Reserving, <<j, w>> \notin late,
                        AnyConflict(volumes'[checker'[g].i][checker'[g].ver], volumes'[j][w]),
                        <<j, w>> \notin checker'[g].threats
                 PROVE  CameLater(checker[g], j, w)'
      BY <1>0 DEF ForeseenInv, Foreseen
    <2>1. /\ checker'[g] = checker[g] /\ Current(checker[g]) /\ checker[g].i # k
          /\ <<checker[g].i, checker[g].ver>> \notin late
          /\ volumes'[checker[g].i][checker[g].ver] = volumes[checker[g].i][checker[g].ver]
      BY <1>11
    <2>2. CASE j # k
      <3>1. rows'[j] = rows[j] /\ volumes'[j][w] = volumes[j][w]
        BY <1>2, <1>9, <2>2
      <3>2. CameLater(checker[g], j, w)
        BY <1>1, <2>1, <3>1 DEF ForeseenInv, Foreseen
      <3>3. ASSUME NEW d \in Checkers, Current(checker[d])', checker'[d].i = j,
                   checker'[d].ver = w
            PROVE  <<checker'[g].i, checker'[g].ver>> \in checker'[d].threats
        BY <1>11, <2>1, <3>2, <3>3 DEF CameLater
      <3> QED BY <3>1, <3>2, <3>3 DEF CameLater
    <2>3. CASE j = k
      <3>1. S[w].status \in Reserving
        BY <1>2, <2>3
      <3>2. ASSUME S[w].status = "active" PROVE FALSE
        <4>0. rows[k][w].status \in Reserving /\ volumes'[j][w] = volumes[k][w]
          BY <1>9, <1>10, <2>3, <3>2
        <4>1. CASE rows[k][w].status = "active"
          <5>2. CameLater(checker[g], k, w)
            BY <1>1, <2>1, <2>3, <4>0 DEF ForeseenInv, Foreseen
          <5> QED BY <4>1, <5>2 DEF CameLater
        <4>2. CASE MayActivate(k, w)
          BY <2>1, <2>3, <4>0, <4>2 DEF MayActivate
        <4> QED BY <1>0, <3>2, <4>1, <4>2
      <3>3. rows'[j][w].status = "accepted"
        BY <1>2, <2>3, <3>1, <3>2 DEF Reserving
      <3>4. \A d \in Checkers : Current(checker[d])' => checker'[d].i # k
        BY <1>11
      <3> QED BY <2>3, <3>3, <3>4 DEF CameLater
    <2> QED BY <2>2, <2>3
  <1> QED BY <1>4, <1>5, <1>8, <1>12, <1>13 DEF IInv

\* Submission, acceptance, the end of an intent and a new draft activate nothing.
LEMMA LocalSteps ==
    ASSUME IInv, NEW k \in LocalIntents, NEW v \in Versions,
           SubmitLocal(k, v) \/ AcceptLocal(k, v) \/ EndLocal(k, v) \/ ModifyLocal(k, v)
    PROVE  IInv'
  <1>1. /\ StateTypes /\ rows[k] \in [Versions -> Row] /\ GoodRows(rows[k])
        /\ checker \in [Checkers -> Checks]
        /\ volumes \in [LocalIntents -> [Versions -> SUBSET Volume]]
    BY DEF IInv, StateTypes, RowsInv, ChecksInv
  <1>2. ASSUME NEW S, RowsMove(rows[k], S), SetRows(k, S), UNCHANGED setup,
               \A w \in Versions : S[w].status = "active" => rows[k][w].status = "active",
               volumes' \in [LocalIntents -> [Versions -> SUBSET Volume]], VolumesMove
        PROVE  IInv'
    <2>1. /\ UNCHANGED <<late, references, served, setup>>
          /\ checker' \in [Checkers -> Checks]
          /\ rows' = [rows EXCEPT ![k] = S]
          /\ \A g \in Checkers : checker'[g] \in {checker[g], IdleChecker}
      BY <1>1, <1>2 DEF SetRows
    <2>2. Write(k, S)
      BY <1>2, <2>1 DEF Write
    <2> QED BY <2>2, WriteStep
  <1>a. ASSUME UNCHANGED <<volumes, late>>
        PROVE  volumes' \in [LocalIntents -> [Versions -> SUBSET Volume]] /\ VolumesMove
    BY <1>1, <1>a DEF VolumesMove
  <1>3. CASE SubmitLocal(k, v)
    <2> DEFINE S == UpdateRow(rows[k], v, "submitted")
    <2>1. /\ IsLatest(rows[k], v) /\ rows[k][v].status = "draft"
          /\ SetRows(k, S) /\ UNCHANGED <<volumes, late, setup>>
      BY <1>3 DEF SubmitLocal, Submittable, NoUse, SetRows
    <2>2. RowsMove(rows[k], S) /\ \A w \in Versions : w # v => S[w] = rows[k][w]
      BY <1>1, <2>1, SetAloneMoves
    <2>3. S[v].status = "submitted"
      BY <1>1 DEF UpdateRow, Terminal
    <2> HIDE DEF S
    <2> QED BY <1>2, <1>a, <2>1, <2>2, <2>3
  <1>4. CASE AcceptLocal(k, v)
    <2> DEFINE S == SetWithPrior(rows[k], v, "accepted", "superseded")
    <2>1. /\ IsLatest(rows[k], v) /\ rows[k][v].status \in {"submitted", "review"}
          /\ SetRows(k, S) /\ UNCHANGED <<volumes, late, setup>>
      BY <1>4 DEF AcceptLocal, Acceptable, AcceptRow, NoUse, SetRows
    <2>2. /\ rows[k][v].status \notin Ended
          /\ rows[k][v].status \in Reserving => "accepted" \in Reserving \cup Ended
          /\ "accepted" \in IntentStatus /\ "superseded" \in Ended
      BY <2>1 DEF Ended, Reserving, IntentStatus
    <2>3. RowsMove(rows[k], S)
      BY <1>1, <2>1, <2>2, SetWithPriorMoves
    <2>4. \A w \in Versions : S[w].status = "active" => rows[k][w].status = "active"
      BY DEF SetWithPrior
    <2> HIDE DEF S
    <2> QED BY <1>2, <1>a, <2>1, <2>3, <2>4
  <1>5. CASE EndLocal(k, v)
    <2>1. PICK s \in Terminal :
            /\ IsLatest(rows[k], v) /\ rows[k][v].status \in Cancelable
            /\ SetRows(k, UpdateRow(rows[k], v, s)) /\ UNCHANGED <<volumes, late, setup>>
      BY <1>5 DEF EndLocal, Terminal, Completable, Cancelable, NoUse, SetRows
    <2> DEFINE S == SetWithPrior(rows[k], v, s, s)
    <2>2. UpdateRow(rows[k], v, s) = S
      BY DEF UpdateRow
    <2>3. rows[k][v].status \notin Ended /\ s \in IntentStatus /\ s \in Ended /\ s # "active"
      BY <2>1 DEF Ended, Cancelable, IntentStatus, Terminal
    <2>4. RowsMove(rows[k], S)
      BY <1>1, <2>1, <2>3, SetWithPriorMoves
    <2>5. \A w \in Versions : S[w].status = "active" => rows[k][w].status = "active"
      BY <2>3 DEF SetWithPrior
    <2> HIDE DEF S
    <2> QED BY <1>2, <1>a, <2>1, <2>2, <2>4, <2>5
  <1>6. CASE ModifyLocal(k, v)
    <2> DEFINE S == ReplaceRow(rows[k], v)
               to == IF rows[k][v].status = "accepted" THEN v + 1 ELSE v
    <2>1. /\ IsLatest(rows[k], v) /\ rows[k][v].status \in {"draft", "submitted", "accepted"}
          /\ to <= MaxVersion /\ SetRows(k, S) /\ UNCHANGED <<late, setup>>
      BY <1>6 DEF ModifyLocal, Modifiable, Use, SetRows
    <2>2. PICK new \in ChangedSets \cup {volumes[k][v]} :
            volumes' = [volumes EXCEPT ![k][to] = new]
      BY <1>6 DEF ModifyLocal
    <2>3. /\ RowsMove(rows[k], S) /\ to \in Versions
          /\ rows[k][to].status \notin Reserving
          /\ \A w \in Versions : S[w].status = "active" => rows[k][w].status = "active"
      <3>1. CASE rows[k][v].status = "accepted"
        <4>1. v < MaxVersion
          BY <2>1, <3>1, MaxVersionAssumption DEF Versions
        <4>2. /\ RowsMove(rows[k], S) /\ v + 1 \in Versions /\ ~Exists(rows[k], v + 1)
              /\ \A w \in Versions : S[w].status = "active" => rows[k][w].status = "active"
          BY <1>1, <2>1, <3>1, <4>1, ReplaceMoves
        <4> QED BY <3>1, <4>2 DEF Exists, Reserving
      <3>2. CASE rows[k][v].status \in {"draft", "submitted"}
        <4>1. /\ RowsMove(rows[k], S)
              /\ \A w \in Versions : S[w].status = "active" => rows[k][w].status = "active"
          BY <1>1, <2>1, <3>2, ReplaceInPlace
        <4> QED BY <3>2, <4>1 DEF Reserving
      <3> QED BY <2>1, <3>1, <3>2
    <2>4. new \in SUBSET Volume
      BY <1>1, <2>2, DeconflictionAssumption
    <2> HIDE DEF S, to
    <2>5. volumes' \in [LocalIntents -> [Versions -> SUBSET Volume]]
      BY <1>1, <2>2, <2>3, <2>4
    <2>6. VolumesMove
      BY <1>1, <2>1, <2>2, <2>3 DEF VolumesMove
    <2> QED BY <1>2, <2>1, <2>3, <2>5, <2>6
  <1> QED BY <1>3, <1>4, <1>5, <1>6

\* AddOperationalVolume: of a version that got a volume while it was reserved
\* nothing is said any more, and nothing else depends on the volumes.
LEMMA AddSteps ==
    ASSUME IInv, NEW k \in LocalIntents, NEW v \in Versions,
           BeginAdd(k, v) \/ AddOperationalVolume(k, v)
    PROVE  IInv'
  <1>1. StateTypes /\ RowsInv /\ ChecksInv /\ ForeseenInv /\ NoConflictingActives
    BY DEF IInv
  <1>2. UNCHANGED <<rows, references, served, checker, setup>>
    BY DEF BeginAdd, AddOperationalVolume, Use, NoUse
  <1>3. /\ volumes' \in [LocalIntents -> [Versions -> SUBSET Volume]] /\ VolumesMove
    <2>1. CASE BeginAdd(k, v)
      BY <1>1, <2>1 DEF BeginAdd, StateTypes, VolumesMove
    <2>2. CASE AddOperationalVolume(k, v)
      <3>1. PICK new \in AddedVolumes, old \in {{}} \cup {{w} : w \in volumes[k][v]} :
              volumes' = [volumes EXCEPT ![k][v] = (@ \ old) \cup {new}]
        BY <2>2 DEF AddOperationalVolume
      <3> DEFINE all == (volumes[k][v] \ old) \cup {new}
      <3>2. volumes' = [volumes EXCEPT ![k][v] = all]
        BY <3>1
      <3>3. all \in SUBSET Volume
        BY <1>1, DeconflictionAssumption DEF StateTypes
      <3>4. late' = late \cup {x \in {<<k, v>>} : rows[k][v].status \in Reserving}
        BY <2>2 DEF AddOperationalVolume
      <3> HIDE DEF all
      <3>5. volumes' \in [LocalIntents -> [Versions -> SUBSET Volume]]
        BY <1>1, <3>2, <3>3 DEF StateTypes
      <3>6. /\ \A i \in LocalIntents : i # k => volumes'[i] = volumes[i]
            /\ \A w \in Versions : w # v => volumes'[k][w] = volumes[k][w]
        BY <1>1, <3>2 DEF StateTypes
      <3>7. rows[k][v].status \in Reserving => <<k, v>> \in late'
        BY <3>4
      <3> QED BY <3>4, <3>5, <3>6, <3>7 DEF VolumesMove
    <2> QED BY <2>1, <2>2
  <1>4. StateTypes' /\ RowsInv'
    BY <1>1, <1>2, <1>3 DEF StateTypes, RowsInv
  <1>5. WorldMoves
    BY <1>2, <1>3 DEF WorldMoves
  <1>6. ChecksInv'
    <2>1. \A c : GoodCheck(c) => GoodCheck(c)'
      BY <1>1, <1>4, <1>5, ChecksSurvive
    <2> QED BY <1>1, <1>2, <2>1 DEF ChecksInv
  <1>7. \A i \in LocalIntents, w \in Versions :
          rows[i][w].status \in Reserving /\ <<i, w>> \notin late' =>
              volumes'[i][w] = volumes[i][w] /\ <<i, w>> \notin late
    BY <1>3 DEF VolumesMove
  <1>8. NoConflictingActives'
    BY <1>1, <1>2, <1>7 DEF NoConflictingActives, Reserving
  <1>9. ForeseenInv'
    <2> SUFFICES ASSUME NEW g \in Checkers, Current(checker[g])',
                        <<checker'[g].i, checker'[g].ver>> \notin late',
                        NEW j \in LocalIntents \ {checker'[g].i}, NEW w \in Versions,
                        rows'[j][w].status \in Reserving, <<j, w>> \notin late',
                        AnyConflict(volumes'[checker'[g].i][checker'[g].ver], volumes'[j][w]),
                        <<j, w>> \notin checker'[g].threats
                 PROVE  CameLater(checker[g], j, w)'
      BY DEF ForeseenInv, Foreseen
    <2>1. checker' = checker /\ Current(checker[g])
      BY <1>2 DEF Current
    <2>2. /\ checker[g].i \in LocalIntents /\ checker[g].ver \in Versions
          /\ rows[checker[g].i][checker[g].ver].status \in Reserving
      BY <1>1, <2>1, CurrentFacts DEF ChecksInv, Reserving
    <2>3. CameLater(checker[g], j, w)
      BY <1>1, <1>2, <1>7, <2>1, <2>2 DEF ForeseenInv, Foreseen
    <2> QED BY <1>2, <2>3 DEF CameLater, Current
  <1> QED BY <1>4, <1>6, <1>8, <1>9 DEF IInv

\* The activation.  Of two conflicting intents, the check that read its volumes
\* last knows of the other one: it does not get here while that one is there.
LEMMA CommitStep ==
    ASSUME IInv, NEW h \in Checkers, CommitActivation(h)
    PROVE  IInv'
  <1> DEFINE c == checker[h]
             k == c.i
             v == c.ver
  <1>1. /\ c.pc = "commit" /\ c \in Checks /\ GoodCheck(c)
        /\ checker' = [checker EXCEPT ![h] = IdleChecker]
        /\ UNCHANGED <<volumes, late, references, served, setup>>
    BY CheckFacts DEF CommitActivation, NoUse
  <1>2. StateTypes /\ RowsInv /\ ChecksInv /\ ForeseenInv
    BY DEF IInv
  <1>3. CASE ~Unchanged(rows[k], v, c.rev)
    <2>1. rows' = rows
      BY <1>3 DEF CommitActivation
    <2>2. IdleChecker.pc \notin Loaded /\ GoodCheck(IdleChecker)
      BY IdleIsGood DEF Loaded, Comparing
    <2> QED BY <1>1, <2>1, <2>2, OneCheckStep
  <1>4. CASE Unchanged(rows[k], v, c.rev)
    <2>1. Current(c)
      BY <1>1, <1>4 DEF Current, Loaded
    <2>2. /\ k \in LocalIntents /\ v \in Versions /\ rows[k][v].status = "accepted"
          /\ IsLatest(rows[k], v)
      BY <1>1, <1>2, <2>1, CurrentFacts
    <2>3. ASSUME NEW j \in LocalIntents, NEW u \in Versions,
                 rows[j][u].status \in Reserving, <<j, u>> \notin late
          PROVE  <<j, u>> \notin c.threats
      <3>1. There(<<j, u>>)
        BY <2>3, Names DEF There
      <3> QED BY <1>1, <3>1 DEF GoodCheck, Misses
    <2>4. MayActivate(k, v)
      <3>1. ASSUME NEW j \in LocalIntents \ {k}, NEW u \in Versions, rows[j][u].status = "active",
                   <<k, v>> \notin late, <<j, u>> \notin late,
                   AnyConflict(volumes[k][v], volumes[j][u])
            PROVE  FALSE
        <4>1. rows[j][u].status \in Reserving
          BY <3>1 DEF Reserving
        <4>2. <<j, u>> \notin c.threats
          BY <2>3, <3>1, <4>1
        <4>3. CameLater(c, j, u)
          BY <1>2, <2>1, <3>1, <4>1, <4>2 DEF ForeseenInv, Foreseen
        <4> QED BY <3>1, <4>3 DEF CameLater
      <3>2. ASSUME NEW g \in Checkers, Current(checker[g]), checker[g].i # k,
                   <<checker[g].i, checker[g].ver>> \notin late, <<k, v>> \notin late,
                   AnyConflict(volumes[checker[g].i][checker[g].ver], volumes[k][v]),
                   <<k, v>> \notin checker[g].threats
            PROVE  FALSE
        <4>1. rows[k][v].status \in Reserving /\ k \in LocalIntents \ {checker[g].i}
          BY <2>2, <3>2 DEF Reserving
        <4>2. CameLater(checker[g], k, v)
          BY <1>2, <2>2, <3>2, <4>1 DEF ForeseenInv, Foreseen
        <4>3. <<checker[g].i, checker[g].ver>> \in c.threats
          BY <2>1, <4>2 DEF CameLater
        <4>4. /\ checker[g].i \in LocalIntents /\ checker[g].ver \in Versions
              /\ rows[checker[g].i][checker[g].ver].status = "accepted"
          BY <1>2, <3>2, CurrentFacts DEF ChecksInv
        <4>5. rows[checker[g].i][checker[g].ver].status \in Reserving
          BY <4>4 DEF Reserving
        <4> QED BY <2>3, <3>2, <4>3, <4>4, <4>5
      <3>3. rows[k][v].status \in Reserving
        BY <2>2 DEF Reserving
      <3> QED BY <3>1, <3>2, <3>3 DEF MayActivate
    <2> DEFINE S == UpdateRow(rows[k], v, "active")
    <2>5. rows' = [rows EXCEPT ![k] = S]
      BY <1>4 DEF CommitActivation
    <2>6. rows[k] \in [Versions -> Row] /\ GoodRows(rows[k])
      BY <1>2, <2>2 DEF StateTypes, RowsInv
    <2>7. RowsMove(rows[k], S) /\ \A w \in Versions : w # v => S[w] = rows[k][w]
      BY <2>2, <2>6, SetAloneMoves
    <2> HIDE DEF S, k, v
    <2>8. \A w \in Versions : S[w].status = "active" =>
            rows[k][w].status = "active" \/ MayActivate(k, w)
      BY <2>4, <2>7
    <2>9. /\ checker' \in [Checkers -> Checks]
          /\ \A g \in Checkers : checker'[g] \in {checker[g], IdleChecker}
      BY <1>1, <1>2, IdleIsGood DEF ChecksInv
    <2>10. /\ volumes' \in [LocalIntents -> [Versions -> SUBSET Volume]]
           /\ VolumesMove
      BY <1>1, <1>2 DEF StateTypes, VolumesMove
    <2>11. Write(k, S)
      BY <1>1, <2>5, <2>7, <2>8, <2>9, <2>10 DEF Write
    <2> QED BY <2>2, <2>11, WriteStep
  <1> QED BY <1>3, <1>4

\* Another USS publishes, or serves what it published.
LEMMA PeerSteps ==
    ASSUME IInv, NEW p \in Peers, PeerPublishes(p) \/ PeerServes(p)
    PROVE  IInv'
  <1>1. StateTypes /\ RowsInv /\ ChecksInv /\ ForeseenInv /\ NoConflictingActives
    BY DEF IInv
  <1>2. UNCHANGED <<rows, volumes, late, checker, setup>>
    BY DEF PeerPublishes, PeerServes, NoUse
  <1>3. StateTypes' /\ WorldMoves
    <2>1. CASE PeerPublishes(p)
      <3>1. PICK new \in PeerIntents :
              references' = [references EXCEPT ![p] =
                               [ver |-> references[p].ver + 1, intent |-> new]]
        BY <2>1 DEF PeerPublishes
      <3>2. references[p].ver \in Nat /\ served' = served
        BY <1>1, <2>1, ReferenceVersions DEF PeerPublishes
      <3>3. [ver |-> references[p].ver + 1, intent |-> new] \in References
        BY <3>2 DEF References
      <3>4. references' \in [Peers -> References] /\ references'[p].ver > references[p].ver
        BY <1>1, <3>1, <3>2, <3>3 DEF StateTypes
      <3>5. \A q \in Peers : q # p => references'[q] = references[q]
        BY <1>1, <3>1 DEF StateTypes
      <3> QED BY <1>1, <1>2, <3>2, <3>4, <3>5 DEF StateTypes, WorldMoves, VolumesMove
    <2>2. CASE PeerServes(p)
      <3>1. served' = [served EXCEPT ![p] = references[p]] /\ references' = references
        BY <2>2 DEF PeerServes
      <3>2. served' \in [Peers -> References]
        BY <1>1, <3>1 DEF StateTypes
      <3>3. \A q \in Peers : served'[q] \in {served[q], references[q]}
        BY <1>1, <3>1 DEF StateTypes
      <3> QED BY <1>1, <1>2, <3>1, <3>2, <3>3 DEF StateTypes, WorldMoves, VolumesMove
    <2> QED BY <2>1, <2>2
  <1>4. \A c : GoodCheck(c) => GoodCheck(c)'
    BY <1>1, <1>3, ChecksSurvive
  <1>5. ChecksInv'
    BY <1>1, <1>2, <1>4 DEF ChecksInv
  <1>6. ForeseenInv' /\ RowsInv' /\ NoConflictingActives'
    BY <1>1, <1>2
       DEF ForeseenInv, Foreseen, CameLater, Current, RowsInv, NoConflictingActives
  <1> QED BY <1>3, <1>5, <1>6 DEF IInv

-----------------------------------------------------------------------------
(* The results.                                                            *)

\* Every intent has one draft version and nothing is checked.
LEMMA InitialState == DeconflictionInit => IInv
  <1> SUFFICES ASSUME DeconflictionInit PROVE IInv
    OBVIOUS
  <1>1. 1 \in Versions
    BY MaxVersionAssumption DEF Versions
  <1>2. /\ rows = [i \in LocalIntents |-> [v \in Versions |->
                     IF v = 1 THEN [status |-> "draft", rev |-> 0] ELSE NoRow]]
        /\ references = [p \in Peers |-> NoReference] /\ served = references
        /\ checker = [h \in Checkers |-> IdleChecker]
    BY DEF DeconflictionInit
  <1>3. PICK vs \in [LocalIntents -> VolumeSets] :
          volumes = [i \in LocalIntents |-> [NoVolumes[i] EXCEPT ![1] = vs[i]]]
    BY DEF DeconflictionInit
  <1>4. rows \in [LocalIntents -> [Versions -> Row]]
    <2>1. [status |-> "draft", rev |-> 0] \in Row /\ NoRow \in Row
      BY DEF Row, NoRow, IntentStatus
    <2> QED BY <1>2, <2>1
  <1>5. volumes \in [LocalIntents -> [Versions -> SUBSET Volume]]
    <2>1. \A i \in LocalIntents : vs[i] \in SUBSET Volume
      BY DeconflictionAssumption
    <2>2. \A i \in LocalIntents : NoVolumes[i] \in [Versions -> SUBSET Volume]
      BY DEF NoVolumes
    <2> QED BY <1>1, <1>3, <2>1, <2>2
  <1>6. references \in [Peers -> References] /\ served \in [Peers -> References]
    BY <1>2 DEF References
  <1>7. \A i \in LocalIntents, v \in Versions :
          rows[i][v].status \notin Reserving /\ rows[i][v].status # "active"
    BY <1>2 DEF NoRow, Reserving
  <1>8. RowsInv /\ NoConflictingActives
    BY <1>7 DEF RowsInv, GoodRows, NoConflictingActives
  <1>9. ChecksInv
    BY <1>2, IdleIsGood DEF ChecksInv
  <1>10. ForeseenInv
    BY <1>2, IdleIsGood DEF ForeseenInv, Foreseen, Current, Loaded, Comparing
  <1> QED BY <1>4, <1>5, <1>6, <1>8, <1>9, <1>10 DEF IInv, StateTypes

\* Every step keeps the invariant.
LEMMA NextPreserves == IInv /\ [DeconflictionNext]_deconflictionVars => IInv'
  <1> SUFFICES ASSUME IInv, [DeconflictionNext]_deconflictionVars PROVE IInv'
    OBVIOUS
  <1>1. CASE UNCHANGED deconflictionVars
    <2>0. UNCHANGED <<rows, volumes, late, references, served, checker, setup>>
      BY <1>1 DEF deconflictionVars
    <2>1. StateTypes'
      BY <2>0 DEF IInv, StateTypes
    <2>2. RowsInv'
      BY <2>0 DEF IInv, RowsInv, GoodRows
    <2>3. ChecksInv'
      <3>1. \A x : (There(x)' <=> There(x)) /\ VolumesThere(x)' = VolumesThere(x)
        BY <2>0 DEF There, VolumesThere
      <3>2. \A c, x : Threat(c, x)' <=> Threat(c, x)
        BY <2>0, <3>1 DEF Threat, There, VolumesThere
      <3>3. \A c : Misses(c)' <=> Misses(c)
        BY <2>0, <3>1, <3>2 DEF Misses, Threat, There, VolumesThere
      <3>4. \A c : Reads(c)' <=> Reads(c)
        BY <2>0 DEF Reads
      <3>5. checker \in [Checkers -> Checks] /\ \A h \in Checkers : GoodCheck(checker[h])
        BY DEF IInv, ChecksInv
      <3>6. ASSUME NEW c, GoodCheck(c) PROVE c \in Checks /\ Reads(c)' /\ Misses(c)'
        BY <3>3, <3>4, <3>6 DEF GoodCheck
      <3>7. \A h \in Checkers : Reads(checker[h])' /\ Misses(checker[h])'
        BY <2>0, <3>5, <3>6 DEF Reads, Misses
      <3> QED BY <2>0, <3>5, <3>7 DEF ChecksInv, GoodCheck
    <2>4. ForeseenInv'
      <3>1. \A h \in Checkers : Foreseen(checker[h])
        BY DEF IInv, ForeseenInv
      <3>2. ASSUME NEW h \in Checkers PROVE Foreseen(checker[h])'
        BY <2>0, <3>1 DEF Foreseen, CameLater, Current
      <3> QED BY <3>2 DEF ForeseenInv
    <2>5. NoConflictingActives'
      BY <2>0 DEF IInv, NoConflictingActives
    <2> QED BY <2>1, <2>2, <2>3, <2>4, <2>5 DEF IInv
  <1>2. ASSUME NEW i \in LocalIntents, NEW v \in Versions,
               \/ SubmitLocal(i, v) \/ AcceptLocal(i, v)
               \/ EndLocal(i, v) \/ ModifyLocal(i, v)
               \/ BeginAdd(i, v) \/ AddOperationalVolume(i, v)
        PROVE  IInv'
    BY <1>2, LocalSteps, AddSteps
  <1>3. ASSUME NEW i \in LocalIntents, NEW v \in Versions, NEW h \in Checkers,
               BeginActivation(h, i, v)
        PROVE  IInv'
    BY <1>3, BeginStep
  <1>4. ASSUME NEW p \in Peers, PeerPublishes(p) \/ PeerServes(p) PROVE IInv'
    BY <1>4, PeerSteps
  <1>5. ASSUME NEW h \in Checkers, CheckStep(h) PROVE IInv'
    BY <1>5, LoadStep, FindStep, HydrateStep, SelectStep, QueryStep, DetailsStep,
       FinalizeStep DEF CheckStep
  <1>6. ASSUME NEW h \in Checkers, CommitActivation(h) PROVE IInv'
    BY <1>6, CommitStep
  <1> QED BY <1>1, <1>2, <1>3, <1>4, <1>5, <1>6 DEF DeconflictionNext

\* The invariant holds in every state: the rows and the checks are as above, and
\* a conflicting reservation that a check does not know of came later.
THEOREM DeconflictionInvariance == Spec => []IInv
  BY InitialState, NextPreserves, PTL DEF Spec

\* Two active intents of this USS do not conflict as long as no AddOperationalVolume
\* wrote to them after they were accepted, for any number of concurrent
\* ActivateIntent calls, none of which locks anything.
THEOREM ActivesApart == Spec => []NoConflictingActives
  <1>1. IInv => NoConflictingActives
    BY DEF IInv
  <1> QED BY <1>1, DeconflictionInvariance, PTL

\* A clear check has missed nothing that was there all along, in either store and
\* whatever the peers publish and serve meanwhile.
THEOREM NothingMissed == Spec => []ClearMissesNothing
  <1>1. IInv => ClearMissesNothing
    <2> SUFFICES ASSUME IInv, NEW h \in Checkers, checker[h].pc = "commit",
                        NEW x \in checker[h].threats
                 PROVE  IF x[1] \in Peers THEN references[x[1]].ver # x[2]
                        ELSE rows[x[1]][x[2]].status \notin Reserving \/ x \in late
      BY DEF ClearMissesNothing
    <2>1. ~There(x)
      BY CheckFacts DEF GoodCheck, Misses
    <2> QED BY <2>1 DEF There
  <1> QED BY <1>1, DeconflictionInvariance, PTL

=============================================================================
