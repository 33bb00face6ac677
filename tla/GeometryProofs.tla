--------------------------- MODULE GeometryProofs ---------------------------
(***************************************************************************)
(* Proofs about Geometry, for all polygons over the integer grid and all   *)
(* points with rational coordinates.                                       *)
(*                                                                         *)
(* OneSide is the heart: two points of a line with no edge between them    *)
(* are both inside a ring or both outside.  Their rays to the right differ *)
(* in the edges of which one end lies between the rays, and a closed ring  *)
(* enters and leaves any set of vertices equally often.  A segment that    *)
(* missionPolygonCoversSegment accepts is therefore inside, or on a ring,  *)
(* at all of its points (CoveredSegment): the middle that was tested and   *)
(* the point in question have no break between them, hence no edge.        *)
(*                                                                         *)
(* With vertical and horizontal edges, counting crossings finds exactly    *)
(* the region whose border is the ring, by induction from right to left    *)
(* (RegionIsInside), each cell with its left and lower edge                *)
(* (InsideIsFootprint).                                                    *)
(*                                                                         *)
(* The inductions are over sets: a set of numbers has a least element, a   *)
(* finite set with a strict order a last one.                              *)
(***************************************************************************)
EXTENDS Geometry, FiniteSetTheorems, TLAPS

-----------------------------------------------------------------------------
(* Induction, and the parity of a closed walk.                             *)

\* A set of numbers has a least element.
LEMMA Least ==
    ASSUME NEW T, T \subseteq Nat, T # {}
    PROVE  \E n \in T : \A k \in T : n <= k
  <1>1. PICK R : R = OpToRel(<, Nat) OBVIOUS
  <1>2. \A i, j \in Nat : i < j => <<i, j>> \in R
    BY <1>1 DEF OpToRel
  <1>3. IsWellFoundedOn(R, Nat) BY <1>1, NatLessThanWellFounded
  <1>4. PICK n \in T : \A k \in T : ~(<<k, n>> \in R)
    BY <1>3, WFMin
  <1>5. ASSUME NEW k \in T PROVE n <= k
    <2>1. k \in Nat /\ n \in Nat /\ ~(k < n) BY <1>2, <1>4
    <2> QED BY <2>1
  <1> QED BY <1>5

\* Induction, for a set P: what holds of k, and of a number's successor when it
\* holds of the number, holds of every l from k on.
LEMMA FromStart ==
    ASSUME NEW P, NEW k \in Nat, NEW l \in Nat, k <= l, k \in P,
           \A i \in k..(l - 1) : i \in P => i + 1 \in P
    PROVE  l \in P
  <1> SUFFICES ASSUME l \notin P PROVE FALSE OBVIOUS
  <1>1. PICK T : T = {i \in k..l : i \notin P} OBVIOUS
  <1>2. T \subseteq Nat /\ T # {} BY <1>1
  <1>3. PICK n \in T : \A i \in T : n <= i BY <1>2, Least
  <1>4. n - 1 \in k..(l - 1) /\ n - 1 \in P BY <1>1, <1>3
  <1> QED BY <1>1, <1>3, <1>4

\* The edges of a ring, up to vertex k, with exactly one end in R.
Leaving(ring, R, k) == {i \in 2..k : ~(ring[i - 1] \in R <=> ring[i] \in R)}

\* One edge more, and the parity of the edges that leave R says on which side
\* of R the walk along the ring now is.
LEMMA LeavingStep ==
    ASSUME NEW ring, NEW R, NEW k \in Nat, k >= 1,
           IsFiniteSet(Leaving(ring, R, k)),
           Cardinality(Leaving(ring, R, k)) % 2 = 1 <=>
              ~(ring[1] \in R <=> ring[k] \in R)
    PROVE  /\ IsFiniteSet(Leaving(ring, R, k + 1))
           /\ Cardinality(Leaving(ring, R, k + 1)) % 2 = 1 <=>
                 ~(ring[1] \in R <=> ring[k + 1] \in R)
  <1>1. PICK C : C = Leaving(ring, R, k) OBVIOUS
  <1>2. k + 1 \notin C BY <1>1 DEF Leaving
  <1>3. (k + 1) - 1 = k OBVIOUS
  <1>4. Cardinality(C) \in Nat BY <1>1, FS_CardinalityType
  <1>5. CASE ring[k] \in R <=> ring[k + 1] \in R
    <2>1. Leaving(ring, R, k + 1) = C
      <3>1. \A i \in 2..(k + 1) : i # k + 1 => i \in 2..k OBVIOUS
      <3>2. \A i \in 2..k : i \in 2..(k + 1) /\ i # k + 1 OBVIOUS
      <3> QED BY <1>1, <1>3, <1>5, <3>1, <3>2 DEF Leaving
    <2> QED BY <2>1, <1>1, <1>5
  <1>6. CASE ~(ring[k] \in R <=> ring[k + 1] \in R)
    <2>1. Leaving(ring, R, k + 1) = C \cup {k + 1}
      <3>1. \A i \in 2..(k + 1) : i # k + 1 => i \in 2..k OBVIOUS
      <3>2. \A i \in 2..k : i \in 2..(k + 1) /\ i # k + 1 OBVIOUS
      <3>3. k + 1 \in 2..(k + 1) OBVIOUS
      <3> QED BY <1>1, <1>3, <1>6, <3>1, <3>2, <3>3 DEF Leaving
    <2>2. /\ IsFiniteSet(C \cup {k + 1})
          /\ Cardinality(C \cup {k + 1}) = Cardinality(C) + 1
      BY <1>1, <1>2, FS_AddElement
    <2>3. PICK n \in Nat : n = Cardinality(C) BY <1>4
    <2>4. (n + 1) % 2 = 1 <=> ~(n % 2 = 1) OBVIOUS
    <2>5. Cardinality(C \cup {k + 1}) % 2 = 1 <=> ~(Cardinality(C) % 2 = 1)
      BY <2>2, <2>3, <2>4
    <2> QED BY <2>1, <2>2, <2>5, <1>1, <1>6
  <1> QED BY <1>5, <1>6

\* A closed ring leaves any set as often as it enters it.
LEMMA ClosedRingReturns ==
    ASSUME NEW ring, NEW R, Len(ring) \in Nat, Len(ring) >= 1,
           ring[1] = ring[Len(ring)]
    PROVE  /\ IsFiniteSet(Leaving(ring, R, Len(ring)))
           /\ Cardinality(Leaving(ring, R, Len(ring))) % 2 = 0
  <1>1. PICK P : P = {k \in Nat : k >= 1 /\ IsFiniteSet(Leaving(ring, R, k)) /\
                       (Cardinality(Leaving(ring, R, k)) % 2 = 1 <=>
                           ~(ring[1] \in R <=> ring[k] \in R))}
    OBVIOUS
  <1>2. 1 \in P
    <2>1. Leaving(ring, R, 1) = {} BY DEF Leaving
    <2>2. 0 % 2 # 1 OBVIOUS
    <2>3. /\ IsFiniteSet(Leaving(ring, R, 1))
          /\ ~(Cardinality(Leaving(ring, R, 1)) % 2 = 1)
      BY <2>1, <2>2, FS_EmptySet
    <2> QED BY <1>1, <2>3
  <1>3. \A k \in 1..(Len(ring) - 1) : k \in P => k + 1 \in P
    BY <1>1, LeavingStep
  <1>4. Len(ring) \in P BY <1>2, <1>3, FromStart
  <1>5. Cardinality(Leaving(ring, R, Len(ring))) \in Nat
    BY <1>1, <1>4, FS_CardinalityType
  <1>6. ~(Cardinality(Leaving(ring, R, Len(ring))) % 2 = 1) BY <1>1, <1>4
  <1>7. \A n \in Nat : ~(n % 2 = 1) => n % 2 = 0 OBVIOUS
  <1> QED BY <1>1, <1>4, <1>5, <1>6, <1>7

\* Two sets that differ in an even number of elements are both even or both odd.
LEMMA SameParity ==
    ASSUME NEW X, NEW Y, IsFiniteSet(X), IsFiniteSet(Y),
           Cardinality((X \ Y) \cup (Y \ X)) % 2 = 0
    PROVE  Cardinality(X) % 2 = Cardinality(Y) % 2
  <1>1. /\ IsFiniteSet(X \ Y) /\ IsFiniteSet(Y \ X) /\ IsFiniteSet(X \cap Y)
        /\ Cardinality(X \ Y) = Cardinality(X) - Cardinality(X \cap Y)
        /\ Cardinality(Y \ X) = Cardinality(Y) - Cardinality(Y \cap X)
    BY FS_Difference, FS_Intersection
  <1>2. (X \ Y) \cap (Y \ X) = {} /\ X \cap Y = Y \cap X OBVIOUS
  <1>3. Cardinality((X \ Y) \cup (Y \ X)) = Cardinality(X \ Y) + Cardinality(Y \ X) - 0
    BY <1>1, <1>2, FS_Union, FS_EmptySet
  <1> DEFINE m == Cardinality(X)
  <1> DEFINE n == Cardinality(Y)
  <1> DEFINE b == Cardinality(X \cap Y)
  <1>4. m \in Nat /\ n \in Nat /\ b \in Nat
    BY <1>1, FS_CardinalityType
  <1>5. Cardinality((X \ Y) \cup (Y \ X)) = (m - b) + (n - b)
    <2>1. Cardinality(X \ Y) = m - b /\ Cardinality(Y \ X) = n - b BY <1>1, <1>2
    <2> HIDE DEF m, n, b
    <2> QED BY <2>1, <1>3, <1>4
  <1> HIDE DEF m, n, b
  <1>6. ((m - b) + (n - b)) % 2 = 0 => m % 2 = n % 2 BY <1>4
  <1> QED BY <1>5, <1>6 DEF m, n

-----------------------------------------------------------------------------
(* Two points of a line with no edge between them: the rays from them.      *)

\* The sign of a product.
LEMMA Signs ==
    ASSUME NEW x \in Int, NEW y \in Int
    PROVE  /\ x * y \in Int
           /\ x > 0 /\ y > 0 => x * y > 0
           /\ x < 0 /\ y < 0 => x * y > 0
           /\ x > 0 /\ y < 0 => x * y < 0
           /\ x < 0 /\ y > 0 => x * y < 0
           /\ x = 0 \/ y = 0 => x * y = 0
  OBVIOUS

\* Of an edge from c to d that does not fall, and two points m and p of a line
\* that rises from m to p or stays level: e and f say how far c and d are to the
\* right of the line, al and ga how far d is above m and p, be and de how far m
\* and p are above c, and M and N how far m and p are to the left of the edge.
\* The rays from m and p to the right differ in crossing the edge exactly when
\* one end of the edge lies between the rays.
RaysAgree(e, f, al, be, ga, de, M, N) ==
    ~((be >= 0 /\ al > 0 /\ M > 0) <=> (de >= 0 /\ ga > 0 /\ N > 0))
    <=> ~((be < 0 /\ de >= 0 /\ e > 0) <=> (al > 0 /\ ga <= 0 /\ f > 0))

\* That is so when the edge does not meet the line between m and p.
LEMMA RaySigns ==
    ASSUME NEW e \in Int, NEW f \in Int, NEW al \in Int, NEW be \in Int,
           NEW ga \in Int, NEW de \in Int, NEW M \in Int, NEW N \in Int,
           M = e * al + f * be, N = e * ga + f * de,
           al + be >= 0, ga + de >= 0,
           be >= 0 => de >= 0, al <= 0 => ga <= 0,
           e * f > 0 \/ M * N > 0 \/ (e = 0 /\ f = 0)
    PROVE  RaysAgree(e, f, al, be, ga, de, M, N)
  <1>1. PICK ea \in Int, fb \in Int, eg \in Int, fd \in Int, ef \in Int, MN \in Int :
           /\ ea = e * al /\ fb = f * be /\ eg = e * ga /\ fd = f * de
           /\ ef = e * f /\ MN = M * N
    OBVIOUS
  <1>2. M = ea + fb /\ N = eg + fd BY <1>1
  <1>3. /\ e > 0 /\ al > 0 => ea > 0
        /\ e < 0 /\ al > 0 => ea < 0
        /\ e = 0 => ea = 0
    BY <1>1, Signs
  <1>4. /\ f > 0 /\ be > 0 => fb > 0
        /\ f < 0 /\ be > 0 => fb < 0
        /\ f > 0 /\ be < 0 => fb < 0
        /\ f < 0 /\ be < 0 => fb > 0
        /\ f = 0 \/ be = 0 => fb = 0
    BY <1>1, Signs
  <1>5. /\ e > 0 /\ ga > 0 => eg > 0
        /\ e < 0 /\ ga > 0 => eg < 0
        /\ e > 0 /\ ga < 0 => eg < 0
        /\ e < 0 /\ ga < 0 => eg > 0
        /\ e = 0 \/ ga = 0 => eg = 0
    BY <1>1, Signs
  <1>6. /\ f > 0 /\ de > 0 => fd > 0
        /\ f < 0 /\ de > 0 => fd < 0
        /\ f = 0 \/ de = 0 => fd = 0
    BY <1>1, Signs
  <1>7. ef > 0 => (e > 0 /\ f > 0) \/ (e < 0 /\ f < 0) BY <1>1, Signs
  <1>8. MN > 0 => (M > 0 /\ N > 0) \/ (M < 0 /\ N < 0) BY <1>1, Signs
  <1>9. ef > 0 \/ MN > 0 \/ (e = 0 /\ f = 0) BY <1>1
  <1>10. CASE be >= 0
    BY <1>2, <1>3, <1>4, <1>5, <1>6, <1>7, <1>8, <1>9, <1>10 DEF RaysAgree
  <1>11. CASE be < 0
    BY <1>2, <1>3, <1>4, <1>5, <1>6, <1>7, <1>8, <1>9, <1>11 DEF RaysAgree
  <1> QED BY <1>10, <1>11


\* The identity behind RaySigns.
LEMMA EdgeIdentity ==
    ASSUME NEW a \in Vertices, NEW b \in Vertices, NEW c \in Vertices,
           NEW d \in Vertices, NEW m \in Points, Cross(m, a, b) = 0
    PROVE  Cross(At(c), a, b) * (d[2] * m.q - m.y) + Cross(At(d), a, b) * (m.y - c[2] * m.q)
             = -((b[2] - a[2]) * Cross(m, c, d))
  <1>1. /\ a[1] \in Int /\ a[2] \in Int /\ b[1] \in Int /\ b[2] \in Int
        /\ c[1] \in Int /\ c[2] \in Int /\ d[1] \in Int /\ d[2] \in Int
        /\ m.x \in Int /\ m.y \in Int /\ m.q \in Int
    BY DEF Vertices, Points
  <1> DEFINE u == c[1] - a[1]
             v == c[2] - a[2]
             s == d[1] - a[1]
             t == d[2] - a[2]
             X == m.x - m.q * a[1]
             Y == m.y - m.q * a[2]
             rx == b[1] - a[1]
             ry == b[2] - a[2]
  <1>2. /\ u \in Int /\ v \in Int /\ s \in Int /\ t \in Int /\ X \in Int /\ Y \in Int
        /\ rx \in Int /\ ry \in Int
    BY <1>1
  <1>3. X * ry = Y * rx
    BY <1>1, <1>2 DEF Cross
  <1>4. Cross(At(c), a, b) = u * ry - v * rx /\ Cross(At(d), a, b) = s * ry - t * rx
    BY <1>1, <1>2 DEF Cross, At
  <1>5. d[2] * m.q - m.y = t * m.q - Y /\ m.y - c[2] * m.q = Y - v * m.q
    BY <1>1, <1>2
  <1>6. Cross(m, c, d) = (X - m.q * u) * (t - v) - (Y - m.q * v) * (s - u)
    <2>1. m.x - m.q * c[1] = X - m.q * u /\ m.y - m.q * c[2] = Y - m.q * v
      BY <1>1, <1>2
    <2>2. d[2] - c[2] = t - v /\ d[1] - c[1] = s - u BY <1>1, <1>2
    <2> QED BY <2>1, <2>2 DEF Cross
  <1> HIDE DEF u, v, s, t, X, Y, rx
  <1>7. (u * ry - v * rx) * (t * m.q - Y) + (s * ry - t * rx) * (Y - v * m.q)
          = -(ry * ((X - m.q * u) * (t - v) - (Y - m.q * v) * (s - u)))
    <2> HIDE DEF ry
    <2> DEFINE q == m.q
    <2>0. q \in Int BY <1>1
    <2> HIDE DEF q
    <2>1. (X * ry) * (t - v) = (Y * rx) * (t - v) BY <1>3
    <2>2. -(ry * ((X - q * u) * (t - v) - (Y - q * v) * (s - u)))
            = -((X * ry) * (t - v)) + ry * (q * u * (t - v) + (Y - q * v) * (s - u))
      BY <2>0, <1>2
    <2>3. (u * ry - v * rx) * (t * q - Y) + (s * ry - t * rx) * (Y - v * q)
            = -((Y * rx) * (t - v)) + ry * (q * u * (t - v) + (Y - q * v) * (s - u))
      BY <2>0, <1>2
    <2> QED BY <2>1, <2>2, <2>3 DEF q
  <1> QED BY <1>4, <1>5, <1>6, <1>7

\* The edge from c to d and the part of the line through a and b between m and p
\* have no point in common, or else lie on one line.
Misses(m, p, a, b, c, d) ==
    \/ Cross(At(c), a, b) * Cross(At(d), a, b) > 0
    \/ Cross(m, c, d) * Cross(p, c, d) > 0
    \/ Cross(At(c), a, b) = 0 /\ Cross(At(d), a, b) = 0

\* The vertices between the rays from m and p to the right.
Strip(m, p, a, b) ==
    {v \in Vertices : /\ v[2] * m.q > m.y /\ ~(v[2] * p.q > p.y)
                      /\ Cross(At(v), a, b) > 0}

\* The types, and the sign when the edge is walked the other way.
LEMMA CrossTypes ==
    ASSUME NEW a \in Vertices, NEW b \in Vertices, NEW m \in Points
    PROVE  /\ Cross(m, a, b) \in Int
           /\ Cross(m, b, a) = -Cross(m, a, b)
           /\ m.q \in Int /\ m.q > 0 /\ m.x \in Int /\ m.y \in Int
           /\ a[1] \in Int /\ a[2] \in Int /\ At(a) \in Points
  <1>1. /\ a[1] \in Int /\ a[2] \in Int /\ b[1] \in Int /\ b[2] \in Int
        /\ m.x \in Int /\ m.y \in Int /\ m.q \in Nat \ {0}
    BY DEF Vertices, Points
  <1>2. Cross(m, a, b) \in Int BY <1>1 DEF Cross
  <1>3. Cross(m, b, a) = -Cross(m, a, b) BY <1>1 DEF Cross
  <1>4. At(a) \in Points BY <1>1 DEF At, Points
  <1> QED BY <1>1, <1>2, <1>3, <1>4

\* An edge that does not fall, and a line that rises.
LEMMA RisingEdge ==
    ASSUME NEW a \in Vertices, NEW b \in Vertices, b[2] > a[2],
           NEW c \in Vertices, NEW d \in Vertices, c[2] <= d[2],
           NEW m \in Points, NEW p \in Points, m.y * p.q <= p.y * m.q,
           Cross(m, a, b) = 0, Cross(p, a, b) = 0, Misses(m, p, a, b, c, d)
    PROVE  ~(CrossedByRay(m, c, d) <=> CrossedByRay(p, c, d))
           <=> ~(c \in Strip(m, p, a, b) <=> d \in Strip(m, p, a, b))
  <1> DEFINE e == Cross(At(c), a, b)
             f == Cross(At(d), a, b)
             al == d[2] * m.q - m.y
             be == m.y - c[2] * m.q
             ga == d[2] * p.q - p.y
             de == p.y - c[2] * p.q
             ry == b[2] - a[2]
             K == Cross(m, c, d)
             L == Cross(p, c, d)
             M == e * al + f * be
             N == e * ga + f * de
  <1>1. /\ m.q \in Int /\ m.q > 0 /\ m.y \in Int
        /\ p.q \in Int /\ p.q > 0 /\ p.y \in Int
        /\ c[2] \in Int /\ d[2] \in Int /\ a[2] \in Int /\ b[2] \in Int
        /\ At(c) \in Points /\ At(d) \in Points
    BY CrossTypes
  <1>2. /\ e \in Int /\ f \in Int /\ K \in Int /\ L \in Int BY <1>1, CrossTypes
  <1>3. al \in Int /\ be \in Int /\ ga \in Int /\ de \in Int /\ ry \in Int /\ ry > 0
    BY <1>1
  <1>4. M = -(ry * K) /\ N = -(ry * L) BY EdgeIdentity
  <1>5. al + be >= 0 /\ ga + de >= 0
    <2>1. PICK g \in Int : g = d[2] - c[2] /\ g >= 0 BY <1>1
    <2>2. al + be = g * m.q /\ ga + de = g * p.q BY <1>1, <2>1
    <2>3. g * m.q >= 0 /\ g * p.q >= 0 BY <1>1, <2>1
    <2> QED BY <2>2, <2>3
  <1>6. be >= 0 => de >= 0
    <2>1. de * m.q = (p.y * m.q - m.y * p.q) + be * p.q BY <1>1
    <2>2. be >= 0 => be * p.q >= 0 BY <1>1, <1>3
    <2>3. be >= 0 => de * m.q >= 0
      <3> DEFINE A == p.y * m.q
                 B == m.y * p.q
                 C == be * p.q
      <3>1. A \in Int /\ B \in Int /\ C \in Int /\ B <= A BY <1>1
      <3> HIDE DEF A, B, C
      <3>2. de * m.q = (A - B) + C BY <2>1 DEF A, B, C
      <3>3. be >= 0 => C >= 0 BY <2>2 DEF C
      <3> HIDE DEF de, be
      <3> QED BY <3>1, <3>2, <3>3
    <2> HIDE DEF de, be
    <2>4. ~(de >= 0) => de * m.q < 0 BY <1>1, <1>3
    <2> QED BY <2>3, <2>4, <1>1, <1>3
  <1>7. al <= 0 => ga <= 0
    <2>1. al * p.q = (p.y * m.q - m.y * p.q) + ga * m.q BY <1>1
    <2>2. ga > 0 => ga * m.q > 0 BY <1>1, <1>3
    <2>3. ga > 0 => al * p.q > 0
      <3> DEFINE A == p.y * m.q
                 B == m.y * p.q
                 C == ga * m.q
      <3>1. A \in Int /\ B \in Int /\ C \in Int /\ B <= A BY <1>1
      <3> HIDE DEF A, B, C
      <3>2. al * p.q = (A - B) + C BY <2>1 DEF A, B, C
      <3>3. ga > 0 => C > 0 BY <2>2 DEF C
      <3> HIDE DEF ga, al
      <3> QED BY <3>1, <3>2, <3>3
    <2> HIDE DEF ga, al
    <2>4. al <= 0 => al * p.q <= 0 BY <1>1, <1>3
    <2> QED BY <2>3, <2>4, <1>1, <1>3
  <1>8. M \in Int /\ N \in Int /\ M = e * al + f * be /\ N = e * ga + f * de
    <2> HIDE DEF e, f, al, be, ga, de
    <2> QED BY <1>2, <1>3
  <1>9. (M > 0 <=> K < 0) /\ (N > 0 <=> L < 0) /\ (K * L > 0 => M * N > 0)
    <2> HIDE DEF K, L, M, N, ry
    <2>1. /\ K < 0 => ry * K < 0
          /\ K > 0 => ry * K > 0
          /\ K = 0 => ry * K = 0
          /\ L < 0 => ry * L < 0
          /\ L > 0 => ry * L > 0
          /\ L = 0 => ry * L = 0
      BY <1>2, <1>3, Signs
    <2>2. PICK k \in Int, l \in Int : k = ry * K /\ l = ry * L BY <1>2, <1>3
    <2>3. /\ (M > 0 <=> K < 0) /\ (N > 0 <=> L < 0)
          /\ (M < 0 <=> K > 0) /\ (N < 0 <=> L > 0)
      BY <1>2, <1>4, <1>8, <2>1, <2>2
    <2>4. K * L > 0 => (K > 0 /\ L > 0) \/ (K < 0 /\ L < 0) BY <1>2, Signs
    <2>5. (M > 0 /\ N > 0) \/ (M < 0 /\ N < 0) => M * N > 0 BY <1>8, Signs
    <2> QED BY <2>3, <2>4, <2>5
  <1>10. e * f > 0 \/ M * N > 0 \/ (e = 0 /\ f = 0)
    BY <1>9 DEF Misses
  <1>11. RaysAgree(e, f, al, be, ga, de, M, N)
    <2> HIDE DEF e, f, al, be, ga, de, M, N
    <2> QED BY <1>2, <1>3, <1>5, <1>6, <1>7, <1>8, <1>10, RaySigns
  <1>12. CrossedByRay(m, c, d) <=> be >= 0 /\ al > 0 /\ M > 0
    <2>1. c[2] * m.q > m.y <=> be < 0 BY <1>1
    <2>2. d[2] * m.q > m.y <=> al > 0 BY <1>1
    <2>3. ~(d[2] > c[2]) => ~(be >= 0 /\ al > 0) BY <1>1
    <2>4. be < 0 => al > 0 BY <1>3, <1>5
    <2> HIDE DEF M, al, be
    <2> QED BY <1>9, <2>1, <2>2, <2>3, <2>4, <1>3 DEF CrossedByRay
  <1>13. CrossedByRay(p, c, d) <=> de >= 0 /\ ga > 0 /\ N > 0
    <2>1. c[2] * p.q > p.y <=> de < 0 BY <1>1
    <2>2. d[2] * p.q > p.y <=> ga > 0 BY <1>1
    <2>3. ~(d[2] > c[2]) => ~(de >= 0 /\ ga > 0) BY <1>1
    <2>4. de < 0 => ga > 0 BY <1>3, <1>5
    <2> HIDE DEF N, ga, de
    <2> QED BY <1>9, <2>1, <2>2, <2>3, <2>4, <1>3 DEF CrossedByRay
  <1>14. c \in Strip(m, p, a, b) <=> be < 0 /\ de >= 0 /\ e > 0
    BY <1>1 DEF Strip
  <1>15. d \in Strip(m, p, a, b) <=> al > 0 /\ ga <= 0 /\ f > 0
    BY <1>1 DEF Strip
  <1> HIDE DEF e, f, al, be, ga, de, M, N
  <1> QED BY <1>11, <1>12, <1>13, <1>14, <1>15 DEF RaysAgree

\* An edge may be walked either way, a line seen from either end.
LEMMA MissesEitherWay ==
    ASSUME NEW a \in Vertices, NEW b \in Vertices, NEW c \in Vertices,
           NEW d \in Vertices, NEW m \in Points, NEW p \in Points,
           Misses(m, p, a, b, c, d)
    PROVE  /\ Misses(m, p, a, b, d, c)
           /\ Misses(m, p, b, a, c, d)
           /\ Misses(p, m, a, b, c, d)
  <1> DEFINE e == Cross(At(c), a, b)
             f == Cross(At(d), a, b)
             K == Cross(m, c, d)
             L == Cross(p, c, d)
  <1>1. /\ e \in Int /\ f \in Int /\ K \in Int /\ L \in Int
        /\ Cross(m, d, c) = -K /\ Cross(p, d, c) = -L
        /\ Cross(At(c), b, a) = -e /\ Cross(At(d), b, a) = -f
    BY CrossTypes
  <1>2. e * f > 0 \/ K * L > 0 \/ (e = 0 /\ f = 0) BY DEF Misses
  <1> HIDE DEF e, f, K, L
  <1>3. f * e = e * f /\ (-e) * (-f) = e * f /\ (-K) * (-L) = K * L /\ L * K = K * L
    BY <1>1
  <1>4. -e = 0 <=> e = 0 BY <1>1
  <1>5. -f = 0 <=> f = 0 BY <1>1
  <1>6. f * e > 0 \/ (-K) * (-L) > 0 \/ (f = 0 /\ e = 0) BY <1>2, <1>3
  <1>7. (-e) * (-f) > 0 \/ K * L > 0 \/ (-e = 0 /\ -f = 0) BY <1>2, <1>3, <1>4, <1>5
  <1>8. e * f > 0 \/ L * K > 0 \/ (e = 0 /\ f = 0) BY <1>2, <1>3
  <1>9. Misses(m, p, a, b, d, c) BY <1>1, <1>6 DEF Misses, e, f
  <1>10. Misses(m, p, b, a, c, d) BY <1>1, <1>7 DEF Misses, K, L
  <1>11. Misses(p, m, a, b, c, d) BY <1>8 DEF Misses, e, f, K, L
  <1> QED BY <1>9, <1>10, <1>11

\* A ray crosses an edge whichever way it is walked.
LEMMA CrossedEitherWay ==
    ASSUME NEW c \in Vertices, NEW d \in Vertices, NEW m \in Points
    PROVE  CrossedByRay(m, c, d) <=> CrossedByRay(m, d, c)
  <1> DEFINE K == Cross(m, c, d)
  <1>1. K \in Int /\ Cross(m, d, c) = -K /\ c[2] \in Int /\ d[2] \in Int BY CrossTypes
  <1>2. (K < 0 <=> -K > 0) /\ (K > 0 <=> -K < 0)
    <2> HIDE DEF K
    <2> QED BY <1>1
  <1>3. CASE c[2] = d[2] BY <1>3 DEF CrossedByRay
  <1>4. CASE c[2] < d[2] BY <1>1, <1>2, <1>4 DEF CrossedByRay
  <1>5. CASE c[2] > d[2] BY <1>1, <1>2, <1>5 DEF CrossedByRay
  <1> QED BY <1>1, <1>3, <1>4, <1>5

\* Any edge, and a line that rises.
LEMMA AnyEdge ==
    ASSUME NEW a \in Vertices, NEW b \in Vertices, b[2] > a[2],
           NEW c \in Vertices, NEW d \in Vertices,
           NEW m \in Points, NEW p \in Points, m.y * p.q <= p.y * m.q,
           Cross(m, a, b) = 0, Cross(p, a, b) = 0, Misses(m, p, a, b, c, d)
    PROVE  ~(CrossedByRay(m, c, d) <=> CrossedByRay(p, c, d))
           <=> ~(c \in Strip(m, p, a, b) <=> d \in Strip(m, p, a, b))
  <1>1. c[2] \in Int /\ d[2] \in Int BY CrossTypes
  <1>2. CASE c[2] <= d[2] BY <1>2, RisingEdge
  <1>3. CASE d[2] <= c[2]
    <2>1. Misses(m, p, a, b, d, c) BY MissesEitherWay
    <2>2. ~(CrossedByRay(m, d, c) <=> CrossedByRay(p, d, c))
           <=> ~(d \in Strip(m, p, a, b) <=> c \in Strip(m, p, a, b))
      BY <1>3, <2>1, RisingEdge
    <2> QED BY <2>2, CrossedEitherWay
  <1> QED BY <1>1, <1>2, <1>3

\* The edges of a ring that the ray from p crosses.
Crossings(ring, p) == {i \in 2..Len(ring) : CrossedByRay(p, ring[i - 1], ring[i])}

\* Closed rings over the grid.
Rings == {ring \in Seq(Vertices) : Closed(ring)}

\* A ring is closed and made of vertices.
LEMMA RingFacts ==
    ASSUME NEW ring \in Rings
    PROVE  /\ Len(ring) \in Nat /\ Len(ring) >= 4 /\ ring[1] = ring[Len(ring)]
           /\ \A i \in 1..Len(ring) : ring[i] \in Vertices
           /\ \A i \in 2..Len(ring) : ring[i - 1] \in Vertices /\ ring[i] \in Vertices
  BY DEF Rings, Closed

\* PointInRing counts finitely many crossings.
LEMMA CrossingsFinite ==
    ASSUME NEW ring \in Rings, NEW p
    PROVE  /\ IsFiniteSet(Crossings(ring, p))
           /\ Cardinality(Crossings(ring, p)) \in Nat
           /\ PointInRing(ring, p) <=> Cardinality(Crossings(ring, p)) % 2 = 1
  <1>1. Len(ring) \in Int /\ 2 \in Int BY RingFacts
  <1>2. IsFiniteSet(2..Len(ring)) BY <1>1, FS_Interval
  <1>3. Crossings(ring, p) \in SUBSET (2..Len(ring)) BY DEF Crossings
  <1>4. IsFiniteSet(Crossings(ring, p)) BY <1>2, <1>3, FS_Subset
  <1> QED BY <1>4, FS_CardinalityType DEF PointInRing, Crossings

\* Rays that differ on the edges leaving a set agree on the whole ring.
LEMMA SameSide ==
    ASSUME NEW ring \in Rings, NEW m \in Points, NEW p \in Points, NEW R,
           \A i \in 2..Len(ring) :
              ~(CrossedByRay(m, ring[i - 1], ring[i]) <=>
                CrossedByRay(p, ring[i - 1], ring[i]))
              <=> ~(ring[i - 1] \in R <=> ring[i] \in R)
    PROVE  PointInRing(ring, m) <=> PointInRing(ring, p)
  <1> DEFINE X == Crossings(ring, m)
             Y == Crossings(ring, p)
  <1>1. (X \ Y) \cup (Y \ X) = Leaving(ring, R, Len(ring))
    BY DEF Crossings, Leaving
  <1>2. Cardinality((X \ Y) \cup (Y \ X)) % 2 = 0
    <2>1. Cardinality(Leaving(ring, R, Len(ring))) % 2 = 0
      BY RingFacts, ClosedRingReturns
    <2> QED BY <1>1, <2>1
  <1>3. IsFiniteSet(X) /\ IsFiniteSet(Y) BY CrossingsFinite
  <1> HIDE DEF X, Y
  <1>4. Cardinality(X) % 2 = Cardinality(Y) % 2 BY <1>2, <1>3, SameParity
  <1> QED BY <1>4, CrossingsFinite DEF X, Y

\* Every edge of the ring misses the line between m and p.
RingMisses(ring, m, p, a, b) ==
    \A i \in 2..Len(ring) : Misses(m, p, a, b, ring[i - 1], ring[i])

\* Two points of a rising line, with no edge between them.
LEMMA RisingLine ==
    ASSUME NEW ring \in Rings, NEW m \in Points, NEW p \in Points,
           NEW a \in Vertices, NEW b \in Vertices, b[2] > a[2],
           m.y * p.q <= p.y * m.q,
           Cross(m, a, b) = 0, Cross(p, a, b) = 0, RingMisses(ring, m, p, a, b)
    PROVE  PointInRing(ring, m) <=> PointInRing(ring, p)
  <1> DEFINE R == Strip(m, p, a, b)
  <1>1. ASSUME NEW i \in 2..Len(ring)
        PROVE  ~(CrossedByRay(m, ring[i - 1], ring[i]) <=>
                 CrossedByRay(p, ring[i - 1], ring[i]))
               <=> ~(ring[i - 1] \in R <=> ring[i] \in R)
    <2>1. ring[i - 1] \in Vertices /\ ring[i] \in Vertices BY RingFacts
    <2>2. Misses(m, p, a, b, ring[i - 1], ring[i]) BY DEF RingMisses
    <2> QED BY <2>1, <2>2, AnyEdge
  <1> HIDE DEF R
  <1> QED BY <1>1, SameSide

\* On a level line no ray runs past an edge that the other crosses.
LEMMA LevelEdge ==
    ASSUME NEW a \in Vertices, NEW b \in Vertices, b[2] = a[2], b[1] # a[1],
           NEW c \in Vertices, NEW d \in Vertices,
           NEW m \in Points, NEW p \in Points,
           Cross(m, a, b) = 0, Cross(p, a, b) = 0, Misses(m, p, a, b, c, d)
    PROVE  CrossedByRay(m, c, d) <=> CrossedByRay(p, c, d)
  <1> DEFINE K == Cross(m, c, d)
             L == Cross(p, c, d)
             g == c[2] - a[2]
             h == d[2] - a[2]
             rx == b[1] - a[1]
  <1>1. /\ m.q \in Int /\ m.q > 0 /\ m.x \in Int /\ m.y \in Int
        /\ p.q \in Int /\ p.q > 0 /\ p.x \in Int /\ p.y \in Int
        /\ c[2] \in Int /\ d[2] \in Int /\ a[2] \in Int /\ b[2] \in Int
        /\ a[1] \in Int /\ b[1] \in Int /\ c[1] \in Int /\ d[1] \in Int
        /\ K \in Int /\ L \in Int
    BY CrossTypes
  <1>2. g \in Int /\ h \in Int /\ rx \in Int /\ rx # 0 BY <1>1
  <1>3. m.y = m.q * a[2] /\ p.y = p.q * a[2]
    <2>1. \A x, y \in Int : x * 0 - y * rx = 0 => y = 0 BY <1>2
    <2>2. b[2] - a[2] = 0 BY <1>1
    <2>3. /\ (m.x - m.q * a[1]) * 0 - (m.y - m.q * a[2]) * rx = 0
          /\ (p.x - p.q * a[1]) * 0 - (p.y - p.q * a[2]) * rx = 0
      BY <2>2 DEF Cross
    <2>4. /\ m.x - m.q * a[1] \in Int /\ m.y - m.q * a[2] \in Int
          /\ p.x - p.q * a[1] \in Int /\ p.y - p.q * a[2] \in Int
      BY <1>1
    <2>5. m.y - m.q * a[2] = 0 /\ p.y - p.q * a[2] = 0 BY <2>1, <2>3, <2>4
    <2> QED BY <1>1, <2>5
  <1>4. ASSUME NEW v \in Vertices, NEW n \in Points, n.y = n.q * a[2]
        PROVE  v[2] * n.q > n.y <=> v[2] - a[2] > 0
    <2>0. v[2] \in Int /\ n.q \in Int /\ n.q > 0 BY CrossTypes
    <2>1. PICK k \in Int, q \in Int : k = v[2] - a[2] /\ q = n.q /\ q > 0
      <3>1. v[2] - a[2] \in Int BY <1>1, <2>0
      <3> QED BY <2>0, <3>1
    <2>2. v[2] * n.q - n.y = k * q BY <2>1, <1>4, <1>1, CrossTypes
    <2>3. k * q > 0 <=> k > 0 BY <2>1
    <2>4. v[2] * n.q \in Int /\ n.y \in Int BY CrossTypes
    <2> QED BY <2>1, <2>2, <2>3, <2>4
  <1>5. /\ c[2] * m.q > m.y <=> g > 0
        /\ d[2] * m.q > m.y <=> h > 0
        /\ c[2] * p.q > p.y <=> g > 0
        /\ d[2] * p.q > p.y <=> h > 0
    BY <1>3, <1>4
  <1>6. Cross(At(c), a, b) = -(g * rx) /\ Cross(At(d), a, b) = -(h * rx)
    <2>1. /\ At(c).x = c[1] /\ At(c).y = c[2] /\ At(c).q = 1
          /\ At(d).x = d[1] /\ At(d).y = d[2] /\ At(d).q = 1
      BY DEF At
    <2>2. 1 * a[1] = a[1] /\ 1 * a[2] = a[2] /\ b[2] - a[2] = 0 BY <1>1
    <2>3. /\ Cross(At(c), a, b) = (c[1] - a[1]) * 0 - g * rx
          /\ Cross(At(d), a, b) = (d[1] - a[1]) * 0 - h * rx
      BY <2>1, <2>2, Zenon DEF Cross
    <2>4. c[1] - a[1] \in Int /\ d[1] - a[1] \in Int BY <1>1
    <2>5. \A x, y, z \in Int : x * 0 - y * z = -(y * z) OBVIOUS
    <2> HIDE DEF g, h, rx
    <2> QED BY <1>2, <2>3, <2>4, <2>5
  <1>7. CASE g > 0 <=> h > 0
    BY <1>5, <1>7 DEF CrossedByRay
  <1>8. CASE ~(g > 0 <=> h > 0)
    <2> HIDE DEF g, h, rx, K, L
    <2>1. (-(g * rx)) * (-(h * rx)) = (g * h) * (rx * rx) BY <1>2
    <2>2. g * h <= 0 BY <1>2, <1>8, Signs
    <2>3. rx * rx > 0 BY <1>2
    <2>4. ~((g * h) * (rx * rx) > 0)
      <3>1. PICK x \in Int, y \in Int : x = g * h /\ y = rx * rx /\ y > 0 /\ x <= 0
        BY <1>2, <2>2, <2>3
      <3>2. ~(x * y > 0) BY <3>1, Signs
      <3> QED BY <3>1, <3>2
    <2>5. ~(g * rx = 0 /\ h * rx = 0) BY <1>2, <1>8
    <2>6. ~(-(g * rx) = 0 /\ -(h * rx) = 0) BY <2>5, <1>2
    <2>7. K * L > 0 BY <1>6, <2>1, <2>4, <2>6 DEF Misses, K, L
    <2>8. (K > 0 /\ L > 0) \/ (K < 0 /\ L < 0) BY <1>1, <2>7, Signs
    <2> QED BY <1>5, <1>1, <2>8 DEF CrossedByRay, K, L
  <1> QED BY <1>7, <1>8

\* A part of a straight line that meets no edge of a ring is on one side of it.
LEMMA OneSide ==
    ASSUME NEW ring \in Rings, NEW m \in Points, NEW p \in Points,
           NEW a \in Vertices, NEW b \in Vertices, a # b,
           Cross(m, a, b) = 0, Cross(p, a, b) = 0, RingMisses(ring, m, p, a, b)
    PROVE  PointInRing(ring, m) <=> PointInRing(ring, p)
  <1>1. /\ a[1] \in Int /\ a[2] \in Int /\ b[1] \in Int /\ b[2] \in Int
        /\ m.y * p.q \in Int /\ p.y * m.q \in Int
    BY CrossTypes
  <1>2. /\ RingMisses(ring, p, m, a, b) /\ RingMisses(ring, m, p, b, a)
        /\ RingMisses(ring, p, m, b, a)
    <2>1. ASSUME NEW i \in 2..Len(ring)
          PROVE  /\ Misses(p, m, a, b, ring[i - 1], ring[i])
                 /\ Misses(m, p, b, a, ring[i - 1], ring[i])
                 /\ Misses(p, m, b, a, ring[i - 1], ring[i])
      <3>1. ring[i - 1] \in Vertices /\ ring[i] \in Vertices BY RingFacts
      <3>2. Misses(m, p, a, b, ring[i - 1], ring[i]) BY DEF RingMisses
      <3> QED BY <3>1, <3>2, MissesEitherWay
    <2> QED BY <2>1 DEF RingMisses
  <1>3. Cross(m, b, a) = 0 /\ Cross(p, b, a) = 0
    <2>1. /\ Cross(m, b, a) \in Int /\ Cross(m, a, b) = -Cross(m, b, a)
          /\ Cross(p, b, a) \in Int /\ Cross(p, a, b) = -Cross(p, b, a)
      BY CrossTypes
    <2>2. \A x \in Int : -x = 0 => x = 0 OBVIOUS
    <2> QED BY <2>1, <2>2
  <1>4. CASE b[2] > a[2] BY <1>1, <1>2, <1>4, RisingLine
  <1>5. CASE b[2] < a[2] BY <1>1, <1>2, <1>3, <1>5, RisingLine
  <1>6. CASE b[2] = a[2]
    <2>1. b[1] # a[1] BY <1>6 DEF Vertices
    <2>2. ASSUME NEW i \in 2..Len(ring)
          PROVE  CrossedByRay(m, ring[i - 1], ring[i]) <=>
                 CrossedByRay(p, ring[i - 1], ring[i])
      <3>1. ring[i - 1] \in Vertices /\ ring[i] \in Vertices BY RingFacts
      <3>2. Misses(m, p, a, b, ring[i - 1], ring[i]) BY DEF RingMisses
      <3> QED BY <3>1, <3>2, <2>1, <1>6, LevelEdge
    <2>3. Crossings(ring, m) = Crossings(ring, p) BY <2>2 DEF Crossings
    <2> QED BY <2>3, CrossingsFinite
  <1> QED BY <1>1, <1>4, <1>5, <1>6

-----------------------------------------------------------------------------
(* The parameters along a segment.                                         *)

\* The values of the parameters.
Fractions == Int \X (Nat \ {0})

\* The order of fractions is a strict order, and total up to equal value.
LEMMA Ordered ==
    ASSUME NEW s \in Fractions, NEW t \in Fractions, NEW u \in Fractions
    PROVE  /\ LessThan(s, t) /\ ~LessThan(u, t) => LessThan(s, u)
           /\ ~LessThan(t, s) /\ LessThan(t, u) => LessThan(s, u)
           /\ LessThan(s, t) => ~LessThan(t, s)
  <1>1. /\ s[1] \in Int /\ t[1] \in Int /\ u[1] \in Int
        /\ s[2] \in Int /\ s[2] > 0 /\ t[2] \in Int /\ t[2] > 0 /\ u[2] \in Int /\ u[2] > 0
    BY DEF Fractions
  <1> DEFINE st == s[1] * t[2]
             ts == t[1] * s[2]
             tu == t[1] * u[2]
             ut == u[1] * t[2]
             su == s[1] * u[2]
             us == u[1] * s[2]
  <1>2. /\ st \in Int /\ ts \in Int /\ tu \in Int /\ ut \in Int /\ su \in Int /\ us \in Int
    BY <1>1
  <1>3. /\ su * t[2] = st * u[2] /\ us * t[2] = ut * s[2] /\ ts * u[2] = tu * s[2]
    BY <1>1
  <1> HIDE DEF st, ts, tu, ut, su, us
  <1>4. /\ st < ts => st * u[2] < ts * u[2]
        /\ st <= ts => st * u[2] <= ts * u[2]
        /\ tu < ut => tu * s[2] < ut * s[2]
        /\ tu <= ut => tu * s[2] <= ut * s[2]
        /\ us <= su => us * t[2] <= su * t[2]
    BY <1>1, <1>2
  <1>5. PICK A \in Int, B \in Int, C \in Int :
           A = su * t[2] /\ B = us * t[2] /\ C = ts * u[2]
    BY <1>1, <1>2
  <1>6. /\ st < ts => A < C
        /\ st <= ts => A <= C
        /\ tu < ut => C < B
        /\ tu <= ut => C <= B
        /\ us <= su => B <= A
    BY <1>3, <1>4, <1>5
  <1>7. (st < ts /\ tu <= ut) \/ (st <= ts /\ tu < ut) => su < us
    BY <1>2, <1>5, <1>6
  <1> QED BY <1>2, <1>7 DEF LessThan, st, ts, tu, ut, su, us

\* How far along the segment from a to b the point p of its line is.
Parameter(p, a, b) == <<Dot(p, a, b), p.q * Length2(a, b)>>

\* The types of length and parameter.
LEMMA SegmentTypes ==
    ASSUME NEW a \in Vertices, NEW b \in Vertices, NEW p \in Points
    PROVE  /\ Length2(a, b) \in Nat
           /\ a # b => Length2(a, b) > 0
           /\ Dot(p, a, b) \in Int
           /\ a # b => Parameter(p, a, b) \in Fractions
  <1>1. /\ a[1] \in Int /\ a[2] \in Int /\ b[1] \in Int /\ b[2] \in Int
        /\ p.x \in Int /\ p.y \in Int /\ p.q \in Int /\ p.q > 0
    BY CrossTypes
  <1> DEFINE rx == b[1] - a[1]
             ry == b[2] - a[2]
  <1>2. rx \in Int /\ ry \in Int BY <1>1
  <1>3. Length2(a, b) = rx * rx + ry * ry BY DEF Length2
  <1>4. a # b => rx # 0 \/ ry # 0
    <2>1. a # b => a[1] # b[1] \/ a[2] # b[2] BY DEF Vertices
    <2> QED BY <2>1, <1>1
  <1> HIDE DEF rx, ry
  <1>5. /\ rx * rx \in Int /\ rx * rx >= 0 /\ ry * ry \in Int /\ ry * ry >= 0
        /\ rx # 0 => rx * rx > 0
        /\ ry # 0 => ry * ry > 0
    BY <1>2
  <1>6. Length2(a, b) \in Nat /\ (a # b => Length2(a, b) > 0)
    BY <1>3, <1>4, <1>5
  <1>7. Dot(p, a, b) \in Int BY <1>1 DEF Dot
  <1>8. a # b => p.q * Length2(a, b) \in Nat \ {0}
    <2>1. \A q, l \in Int : q > 0 /\ l > 0 => q * l \in Int /\ q * l > 0 OBVIOUS
    <2>2. a # b => p.q * Length2(a, b) \in Int /\ p.q * Length2(a, b) > 0
      BY <1>1, <1>6, <2>1
    <2> QED BY <2>2
  <1>9. a # b => Parameter(p, a, b) \in Fractions
    BY <1>7, <1>8 DEF Parameter, Fractions
  <1> QED BY <1>6, <1>7, <1>9

\* A point of the line through a and b is a plus its parameter times b - a.
LEMMA OnLine ==
    ASSUME NEW a \in Vertices, NEW b \in Vertices, NEW p \in Points,
           Cross(p, a, b) = 0
    PROVE  /\ (p.x - p.q * a[1]) * Length2(a, b) = (b[1] - a[1]) * Dot(p, a, b)
           /\ (p.y - p.q * a[2]) * Length2(a, b) = (b[2] - a[2]) * Dot(p, a, b)
  <1>1. /\ a[1] \in Int /\ a[2] \in Int /\ b[1] \in Int /\ b[2] \in Int
        /\ p.x \in Int /\ p.y \in Int /\ p.q \in Int /\ p.q > 0
    BY CrossTypes
  <1> DEFINE rx == b[1] - a[1]
             ry == b[2] - a[2]
             X == p.x - p.q * a[1]
             Y == p.y - p.q * a[2]
  <1>2. rx \in Int /\ ry \in Int /\ X \in Int /\ Y \in Int BY <1>1
  <1>3. X * ry = Y * rx BY <1>2 DEF Cross
  <1>4. Length2(a, b) = rx * rx + ry * ry /\ Dot(p, a, b) = X * rx + Y * ry
    BY DEF Length2, Dot
  <1> HIDE DEF rx, ry, X, Y
  <1>5. (X * ry) * ry = (Y * rx) * ry /\ (X * ry) * rx = (Y * rx) * rx BY <1>3
  <1>6. X * (rx * rx + ry * ry) = (X * ry) * ry + X * rx * rx BY <1>2
  <1>7. rx * (X * rx + Y * ry) = (Y * rx) * ry + X * rx * rx BY <1>2
  <1>8. Y * (rx * rx + ry * ry) = (Y * rx) * rx + Y * ry * ry BY <1>2
  <1>9. ry * (X * rx + Y * ry) = (X * ry) * rx + Y * ry * ry BY <1>2
  <1>10. X * Length2(a, b) = rx * Dot(p, a, b) BY <1>4, <1>5, <1>6, <1>7
  <1>11. Y * Length2(a, b) = ry * Dot(p, a, b) BY <1>4, <1>5, <1>8, <1>9
  <1> QED BY <1>10, <1>11 DEF X, Y, rx, ry

\* The denominator and numerators of IntersectionParameters.
Denominator(a, b, c, d) ==
    (b[1] - a[1]) * (d[2] - c[2]) - (b[2] - a[2]) * (d[1] - c[1])
Numerator(a, c, d) ==
    (c[1] - a[1]) * (d[2] - c[2]) - (c[2] - a[2]) * (d[1] - c[1])

\* Where a point of the line is with respect to an edge.
LEMMA EdgeParameter ==
    ASSUME NEW a \in Vertices, NEW b \in Vertices, NEW c \in Vertices,
           NEW d \in Vertices, NEW p \in Points, Cross(p, a, b) = 0
    PROVE  /\ Denominator(a, b, c, d) \in Int /\ Numerator(a, c, d) \in Int
           /\ Length2(a, b) * Cross(p, c, d) =
                Dot(p, a, b) * Denominator(a, b, c, d)
                - p.q * Length2(a, b) * Numerator(a, c, d)
           /\ Cross(At(c), a, b) - Cross(At(d), a, b) = Denominator(a, b, c, d)
  <1>1. /\ a[1] \in Int /\ a[2] \in Int /\ b[1] \in Int /\ b[2] \in Int
        /\ c[1] \in Int /\ c[2] \in Int /\ d[1] \in Int /\ d[2] \in Int
        /\ p.x \in Int /\ p.y \in Int /\ p.q \in Int /\ p.q > 0
    BY CrossTypes
  <1> DEFINE rx == b[1] - a[1]
             ry == b[2] - a[2]
             sx == d[1] - c[1]
             sy == d[2] - c[2]
             u == c[1] - a[1]
             v == c[2] - a[2]
             X == p.x - p.q * a[1]
             Y == p.y - p.q * a[2]
             q == p.q
             L == Length2(a, b)
             D == Dot(p, a, b)
  <1>2. /\ rx \in Int /\ ry \in Int /\ sx \in Int /\ sy \in Int /\ u \in Int /\ v \in Int
        /\ X \in Int /\ Y \in Int /\ q \in Int /\ L \in Int /\ D \in Int
    BY <1>1, SegmentTypes
  <1>3. X * L = rx * D /\ Y * L = ry * D BY OnLine
  <1>4. Cross(p, c, d) = (X - q * u) * sy - (Y - q * v) * sx
    <2>1. p.x - p.q * c[1] = X - q * u /\ p.y - p.q * c[2] = Y - q * v BY <1>1
    <2> QED BY <2>1 DEF Cross
  <1>5. /\ Denominator(a, b, c, d) = rx * sy - ry * sx
        /\ Numerator(a, c, d) = u * sy - v * sx
    BY DEF Denominator, Numerator
  <1>6. Cross(At(c), a, b) - Cross(At(d), a, b) = Denominator(a, b, c, d)
    BY <1>1 DEF Cross, At, Denominator
  <1> HIDE DEF rx, ry, sx, sy, u, v, X, Y, q, L, D
  <1>7. L * ((X - q * u) * sy - (Y - q * v) * sx)
          = (X * L) * sy - (Y * L) * sx - q * L * (u * sy - v * sx)
    BY <1>2
  <1>8. D * (rx * sy - ry * sx) = (rx * D) * sy - (ry * D) * sx BY <1>2
  <1>9. L * Cross(p, c, d) = D * Denominator(a, b, c, d) - q * L * Numerator(a, c, d)
    BY <1>3, <1>4, <1>5, <1>7, <1>8
  <1>10. rx * sy - ry * sx \in Int /\ u * sy - v * sx \in Int BY <1>2
  <1> QED BY <1>5, <1>6, <1>9, <1>10 DEF q, L, D

\* The three cases of missionSegmentIntersectionParameters.
LEMMA Intersections ==
    ASSUME NEW a \in Vertices, NEW b \in Vertices, a # b, NEW c \in Vertices,
           NEW d \in Vertices
    PROVE  /\ Denominator(a, b, c, d) # 0 =>
                \A t : t \in IntersectionParameters(a, b, c, d) <=>
                   /\ t = Fraction(Numerator(a, c, d), Denominator(a, b, c, d))
                   /\ InUnit(t)
                   /\ InUnit(Fraction(Cross(At(c), a, b), Denominator(a, b, c, d)))
           /\ Denominator(a, b, c, d) = 0 /\ Cross(At(c), a, b) = 0 =>
                \A t : t \in IntersectionParameters(a, b, c, d) <=>
                   /\ \E g \in {c, d} : t = <<Dot(At(g), a, b), Length2(a, b)>>
                   /\ InUnit(t)
           /\ Denominator(a, b, c, d) = 0 /\ Cross(At(c), a, b) # 0 =>
                IntersectionParameters(a, b, c, d) = {}
  <1>1. /\ a[1] \in Int /\ a[2] \in Int /\ b[1] \in Int /\ b[2] \in Int
        /\ c[1] \in Int /\ c[2] \in Int /\ d[1] \in Int /\ d[2] \in Int
    BY DEF Vertices
  <1>2. Length2(a, b) # 0
    <2>1. At(a) \in Points BY <1>1 DEF At, Points
    <2> QED BY <2>1, SegmentTypes
  <1>3. Cross(At(c), a, b) = (c[1] - a[1]) * (b[2] - a[2]) - (c[2] - a[2]) * (b[1] - a[1])
    BY <1>1 DEF Cross, At
  <1> DEFINE e == (c[1] - a[1]) * (b[2] - a[2]) - (c[2] - a[2]) * (b[1] - a[1])
             k == Denominator(a, b, c, d)
             t == Fraction(Numerator(a, c, d), k)
             u == Fraction(e, k)
  <1>4. IntersectionParameters(a, b, c, d) =
          CASE k # 0 -> {v \in {t} : InUnit(t) /\ InUnit(u)}
            [] k = 0 /\ e = 0 /\ Length2(a, b) # 0 ->
                 {v \in {<<Dot(At(g), a, b), Length2(a, b)>> : g \in {c, d}} : InUnit(v)}
            [] OTHER -> {}
    BY DEF IntersectionParameters, Denominator, Numerator
  <1>5. Cross(At(c), a, b) = e BY <1>3
  <1> HIDE DEF e, k, t
  <1>6. ASSUME k # 0
        PROVE  \A v : v \in IntersectionParameters(a, b, c, d) <=>
                        v = t /\ InUnit(v) /\ InUnit(u)
    <2>1. IntersectionParameters(a, b, c, d) = {v \in {t} : InUnit(t) /\ InUnit(u)}
      BY <1>4, <1>6
    <2> QED BY <2>1
  <1>7. ASSUME k = 0, e = 0
        PROVE  \A v : v \in IntersectionParameters(a, b, c, d) <=>
                        /\ \E g \in {c, d} : v = <<Dot(At(g), a, b), Length2(a, b)>>
                        /\ InUnit(v)
    <2>1. IntersectionParameters(a, b, c, d) =
            {v \in {<<Dot(At(g), a, b), Length2(a, b)>> : g \in {c, d}} : InUnit(v)}
      BY <1>2, <1>4, <1>7
    <2> QED BY <2>1
  <1>8. ASSUME k = 0, e # 0 PROVE IntersectionParameters(a, b, c, d) = {}
    BY <1>4, <1>8
  <1> QED BY <1>5, <1>6, <1>7, <1>8 DEF k, t

\* t lies between s and u.
Between(t, s, u) ==
    \/ ~LessThan(t, s) /\ ~LessThan(u, t)
    \/ ~LessThan(t, u) /\ ~LessThan(s, t)

\* The denominator of a fraction is made positive.
LEMMA FractionSigns ==
    ASSUME NEW n \in Int, NEW k \in Int, k # 0
    PROVE  /\ Fraction(n, k) \in Fractions
           /\ k > 0 => Fraction(n, k)[1] = n /\ Fraction(n, k)[2] = k
           /\ k < 0 => Fraction(n, k)[1] = -n /\ Fraction(n, k)[2] = -k
  <1>1. CASE k > 0 BY <1>1 DEF Fraction, Fractions
  <1>2. CASE k < 0 BY <1>2 DEF Fraction, Fractions
  <1> QED BY <1>1, <1>2

\* An edge that does not miss the line between two of its points meets it there.
LEMMA Meets ==
    ASSUME NEW a \in Vertices, NEW b \in Vertices, a # b, NEW c \in Vertices,
           NEW d \in Vertices, NEW m \in Points, NEW p \in Points,
           PointOnSegment(m, a, b), PointOnSegment(p, a, b), ~Misses(m, p, a, b, c, d)
    PROVE  \E t \in IntersectionParameters(a, b, c, d) :
              /\ t \in Fractions
              /\ Between(t, Parameter(m, a, b), Parameter(p, a, b))
  <1> DEFINE e == Cross(At(c), a, b)
             f == Cross(At(d), a, b)
             K == Cross(m, c, d)
             J == Cross(p, c, d)
             den == Denominator(a, b, c, d)
             num == Numerator(a, c, d)
             L == Length2(a, b)
             P == Dot(m, a, b)
             Q == Dot(p, a, b)
             t == Fraction(num, den)
  <1>1. /\ e \in Int /\ f \in Int /\ K \in Int /\ J \in Int /\ den \in Int /\ num \in Int
        /\ L \in Int /\ L > 0 /\ P \in Int /\ Q \in Int
        /\ m.q \in Int /\ m.q > 0 /\ p.q \in Int /\ p.q > 0
    BY CrossTypes, SegmentTypes, EdgeParameter DEF PointOnSegment
  <1>2. /\ L * K = P * den - m.q * L * num
        /\ L * J = Q * den - p.q * L * num
        /\ e - f = den
    BY EdgeParameter DEF PointOnSegment
  <1>3. 0 <= P /\ P <= m.q * L /\ 0 <= Q /\ Q <= p.q * L BY DEF PointOnSegment
  <1>4. ~(e * f > 0) /\ ~(K * J > 0) /\ ~(e = 0 /\ f = 0) BY DEF Misses
  <1> HIDE DEF e, f, K, J, den, num, L, P, Q
  <1>5. (e >= 0 /\ f <= 0) \/ (e <= 0 /\ f >= 0) BY <1>1, <1>4, Signs
  <1>6. den # 0 BY <1>1, <1>2, <1>4, <1>5
  <1>7. InUnit(Fraction(e, den))
    <2>1. CASE den > 0 BY <2>1, <1>1, <1>2, <1>5, <1>6, FractionSigns DEF InUnit
    <2>2. CASE den < 0
      <3>1. Fraction(e, den)[1] = -e /\ Fraction(e, den)[2] = -den
        BY <2>2, <1>1, <1>6, FractionSigns
      <3>2. -e >= 0 /\ -e <= -den BY <2>2, <1>1, <1>2, <1>5
      <3> QED BY <3>1, <3>2 DEF InUnit
    <2> QED BY <2>1, <2>2, <1>1, <1>6
  <1>8. PICK n \in Int, k \in Int :
           t = <<n, k>> /\ k > 0 /\ ((n = num /\ k = den) \/ (n = -num /\ k = -den))
    BY <1>1, <1>6 DEF Fraction
  <1>9. t \in Fractions BY <1>1, <1>6, FractionSigns
  <1> HIDE DEF t
  <1> DEFINE A == P * k - n * (m.q * L)
             B == Q * k - n * (p.q * L)
             M == m.q * L
             N == p.q * L
  <1>10. /\ (A = L * K /\ B = L * J) \/ (A = -(L * K) /\ B = -(L * J))
    <2>1. CASE n = num /\ k = den
      <3>1. m.q * L * num = num * (m.q * L) /\ p.q * L * num = num * (p.q * L) BY <1>1
      <3> QED BY <1>2, <2>1, <3>1
    <2>2. CASE n = -num /\ k = -den
      <3>1. /\ P * (-den) - (-num) * (m.q * L) = -(P * den - m.q * L * num)
            /\ Q * (-den) - (-num) * (p.q * L) = -(Q * den - p.q * L * num)
        BY <1>1
      <3> QED BY <1>2, <2>2, <3>1
    <2> QED BY <1>8, <2>1, <2>2
  <1>11. (A <= 0 /\ B >= 0) \/ (A >= 0 /\ B <= 0)
    <2>1. PICK x \in Int, y \in Int : x = L * K /\ y = L * J BY <1>1
    <2>2. /\ K > 0 => x > 0
          /\ K < 0 => x < 0
          /\ K = 0 => x = 0
          /\ J > 0 => y > 0
          /\ J < 0 => y < 0
          /\ J = 0 => y = 0
      BY <1>1, <2>1, Signs
    <2>3. (K >= 0 /\ J <= 0) \/ (K <= 0 /\ J >= 0) BY <1>1, <1>4, Signs
    <2>4. (A = x /\ B = y) \/ (A = -x /\ B = -y) BY <1>10, <2>1
    <2> HIDE DEF A, B
    <2> QED BY <1>1, <2>1, <2>2, <2>3, <2>4
  <1>12. /\ M \in Int /\ M > 0 /\ N \in Int /\ N > 0 /\ A \in Int /\ B \in Int
    BY <1>1
  <1>13. /\ A > 0 <=> LessThan(t, Parameter(m, a, b))
         /\ A < 0 <=> LessThan(Parameter(m, a, b), t)
         /\ B > 0 <=> LessThan(t, Parameter(p, a, b))
         /\ B < 0 <=> LessThan(Parameter(p, a, b), t)
    <2>1. PICK i \in Int, j \in Int, g \in Int, h \in Int :
             i = P * k /\ j = n * M /\ g = Q * k /\ h = n * N
      BY <1>1, <1>12
    <2>2. A = i - j /\ B = g - h BY <2>1
    <2>3. /\ LessThan(t, Parameter(m, a, b)) <=> j < i
          /\ LessThan(Parameter(m, a, b), t) <=> i < j
          /\ LessThan(t, Parameter(p, a, b)) <=> h < g
          /\ LessThan(Parameter(p, a, b), t) <=> g < h
      BY <2>1, <1>8 DEF LessThan, Parameter, P, Q, L
    <2> HIDE DEF A, B
    <2> QED BY <2>1, <2>2, <2>3
  <1>14. Between(t, Parameter(m, a, b), Parameter(p, a, b))
    <2> HIDE DEF A, B
    <2> QED BY <1>11, <1>12, <1>13 DEF Between
  <1>15. n >= 0 /\ n <= k
    <2>1. P * k >= 0 /\ Q * k >= 0 /\ P * k <= M * k /\ Q * k <= N * k
      <3>1. \A x, y \in Int : 0 <= x /\ x <= y => 0 <= x * k /\ x * k <= y * k
        BY <1>8
      <3> QED BY <3>1, <1>1, <1>3, <1>12
    <2>2. n * M >= 0 \/ n * N >= 0
      <3>1. PICK i \in Int, j \in Int, g \in Int, h \in Int :
               i = P * k /\ j = n * M /\ g = Q * k /\ h = n * N
        BY <1>1, <1>12
      <3> QED BY <3>1, <2>1, <1>11
    <2>3. n * M <= M * k \/ n * N <= N * k
      <3>1. PICK i \in Int, j \in Int, g \in Int, h \in Int :
               i = P * k /\ j = n * M /\ g = Q * k /\ h = n * N
        BY <1>1, <1>12
      <3>2. PICK x \in Int, y \in Int : x = M * k /\ y = N * k BY <1>12
      <3>3. A = i - j /\ B = g - h BY <3>1
      <3> HIDE DEF A, B, M, N
      <3> QED BY <3>1, <3>2, <3>3, <2>1, <1>11
    <2> HIDE DEF M, N
    <2>4. n >= 0 BY <2>2, <1>12
    <2>5. \A x \in Int : x > 0 /\ n > k => n * x > x * k BY <1>8
    <2>6. n <= k
      <3>1. n > k => n * M > M * k /\ n * N > N * k BY <1>12, <2>5
      <3>2. n * M \in Int /\ M * k \in Int /\ n * N \in Int /\ N * k \in Int BY <1>12
      <3> QED BY <2>3, <3>1, <3>2
    <2> QED BY <2>4, <2>6
  <1>16. InUnit(t) BY <1>8, <1>15 DEF InUnit
  <1>17. t \in IntersectionParameters(a, b, c, d)
    BY <1>6, <1>7, <1>16, Intersections DEF t, num, den, e
  <1> QED BY <1>9, <1>14, <1>17

\* A factor that is not zero may be cancelled.
LEMMA Cancel ==
    ASSUME NEW l \in Int, l # 0, NEW x \in Int, NEW y \in Int, l * x = l * y
    PROVE  x = y
  <1>1. PICK z \in Int : z = x - y OBVIOUS
  <1>2. l * z = 0
    <2>1. l * (x - y) = l * x - l * y OBVIOUS
    <2>2. l * x \in Int OBVIOUS
    <2> QED BY <1>1, <2>1, <2>2
  <1>3. z = 0 BY <1>2
  <1> QED BY <1>1, <1>3

\* A point on the lines of a segment and of an edge that crosses it.
LEMMA CrossingPoint ==
    ASSUME NEW a \in Vertices, NEW b \in Vertices, NEW c \in Vertices,
           NEW d \in Vertices, NEW p \in Points,
           Cross(p, a, b) = 0, Cross(p, c, d) = 0
    PROVE  Dot(p, c, d) * Denominator(a, b, c, d) =
             p.q * Cross(At(c), a, b) * Length2(c, d)
  <1>1. /\ a[1] \in Int /\ a[2] \in Int /\ b[1] \in Int /\ b[2] \in Int
        /\ c[1] \in Int /\ c[2] \in Int /\ d[1] \in Int /\ d[2] \in Int
        /\ p.x \in Int /\ p.y \in Int /\ p.q \in Int
    BY CrossTypes
  <1> DEFINE rx == b[1] - a[1]
             ry == b[2] - a[2]
             sx == d[1] - c[1]
             sy == d[2] - c[2]
             W == p.x - p.q * c[1]
             Z == p.y - p.q * c[2]
             q == p.q
             e == Cross(At(c), a, b)
  <1>2. /\ rx \in Int /\ ry \in Int /\ sx \in Int /\ sy \in Int
        /\ W \in Int /\ Z \in Int /\ q \in Int /\ e \in Int
    BY <1>1 DEF Cross, At
  <1>3. W * sy = Z * sx BY <1>2 DEF Cross
  <1>4. Z * rx - W * ry = q * e
    <2>1. e = (c[1] - a[1]) * ry - (c[2] - a[2]) * rx BY <1>1 DEF Cross, At
    <2>2. (p.x - p.q * a[1]) * ry - (p.y - p.q * a[2]) * rx
            = q * ((c[1] - a[1]) * ry - (c[2] - a[2]) * rx) + (W * ry - Z * rx)
      BY <1>1
    <2>3. q * e + (W * ry - Z * rx) = 0 BY <2>1, <2>2 DEF Cross
    <2>4. PICK x \in Int, y \in Int, z \in Int : x = q * e /\ y = W * ry /\ z = Z * rx
      BY <1>2
    <2> QED BY <2>3, <2>4
  <1>5. /\ Denominator(a, b, c, d) = rx * sy - ry * sx
        /\ Dot(p, c, d) = W * sx + Z * sy
        /\ Length2(c, d) = sx * sx + sy * sy
    BY DEF Denominator, Dot, Length2
  <1> HIDE DEF rx, ry, sx, sy, W, Z, q, e
  <1>6. W * (rx * sy - ry * sx) = (q * e) * sx
    <2>1. W * (rx * sy - ry * sx) = rx * (W * sy) - W * ry * sx BY <1>2
    <2>2. (Z * rx - W * ry) * sx = rx * (Z * sx) - W * ry * sx BY <1>2
    <2> QED BY <1>3, <1>4, <2>1, <2>2
  <1>7. Z * (rx * sy - ry * sx) = (q * e) * sy
    <2>1. Z * (rx * sy - ry * sx) = Z * rx * sy - ry * (Z * sx) BY <1>2
    <2>2. (Z * rx - W * ry) * sy = Z * rx * sy - ry * (W * sy) BY <1>2
    <2> QED BY <1>3, <1>4, <2>1, <2>2
  <1>8. (W * sx + Z * sy) * (rx * sy - ry * sx)
          = (W * (rx * sy - ry * sx)) * sx + (Z * (rx * sy - ry * sx)) * sy
    BY <1>2
  <1>9. ((q * e) * sx) * sx + ((q * e) * sy) * sy = q * e * (sx * sx + sy * sy)
    BY <1>2
  <1>10. Dot(p, c, d) * Denominator(a, b, c, d) = q * e * Length2(c, d)
    BY <1>5, <1>6, <1>7, <1>8, <1>9
  <1> QED BY <1>10 DEF q, e

\* A point and an edge on the line of a segment.
LEMMA OneLine ==
    ASSUME NEW a \in Vertices, NEW b \in Vertices, a # b, NEW c \in Vertices,
           NEW d \in Vertices, NEW p \in Points, Cross(p, a, b) = 0,
           Cross(At(c), a, b) = 0, Cross(At(d), a, b) = 0
    PROVE  /\ Cross(p, c, d) = 0
           /\ Length2(a, b) * Dot(p, c, d) =
                (Dot(p, a, b) - p.q * Dot(At(c), a, b))
                * (Dot(At(d), a, b) - Dot(At(c), a, b))
           /\ Length2(a, b) * Length2(c, d) =
                (Dot(At(d), a, b) - Dot(At(c), a, b))
                * (Dot(At(d), a, b) - Dot(At(c), a, b))
  <1>1. /\ a[1] \in Int /\ a[2] \in Int /\ b[1] \in Int /\ b[2] \in Int
        /\ c[1] \in Int /\ c[2] \in Int /\ d[1] \in Int /\ d[2] \in Int
        /\ p.x \in Int /\ p.y \in Int /\ p.q \in Int
        /\ At(c) \in Points /\ At(d) \in Points
    BY CrossTypes
  <1> DEFINE rx == b[1] - a[1]
             ry == b[2] - a[2]
             sx == d[1] - c[1]
             sy == d[2] - c[2]
             W == p.x - p.q * c[1]
             Z == p.y - p.q * c[2]
             q == p.q
             L == Length2(a, b)
             C == Dot(At(c), a, b)
             D == Dot(At(d), a, b)
             P == Dot(p, a, b)
  <1>2. /\ rx \in Int /\ ry \in Int /\ sx \in Int /\ sy \in Int
        /\ W \in Int /\ Z \in Int /\ q \in Int /\ L \in Int /\ L > 0
        /\ C \in Int /\ D \in Int /\ P \in Int
    BY <1>1, SegmentTypes
  <1>3. (p.x - q * a[1]) * L = rx * P /\ (p.y - q * a[2]) * L = ry * P BY OnLine
  <1>4. /\ (c[1] - a[1]) * L = rx * C /\ (c[2] - a[2]) * L = ry * C
        /\ (d[1] - a[1]) * L = rx * D /\ (d[2] - a[2]) * L = ry * D
    <2>1. /\ (At(c).x - At(c).q * a[1]) * L = rx * C /\ (At(c).y - At(c).q * a[2]) * L = ry * C
          /\ (At(d).x - At(d).q * a[1]) * L = rx * D /\ (At(d).y - At(d).q * a[2]) * L = ry * D
      BY <1>1, OnLine
    <2>2. /\ At(c).x = c[1] /\ At(c).y = c[2] /\ At(c).q = 1
          /\ At(d).x = d[1] /\ At(d).y = d[2] /\ At(d).q = 1
      BY DEF At
    <2>3. 1 * a[1] = a[1] /\ 1 * a[2] = a[2] BY <1>1
    <2> QED BY <2>1, <2>2, <2>3
  <1>5. W * L = rx * (P - q * C) /\ Z * L = ry * (P - q * C)
    <2>1. /\ W * L = (p.x - q * a[1]) * L - q * ((c[1] - a[1]) * L)
          /\ Z * L = (p.y - q * a[2]) * L - q * ((c[2] - a[2]) * L)
      <3> HIDE DEF L
      <3> QED BY <1>1, <1>2
    <2>2. /\ rx * (P - q * C) = rx * P - q * (rx * C)
          /\ ry * (P - q * C) = ry * P - q * (ry * C)
      <3> HIDE DEF rx, ry, P, q, C
      <3> QED BY <1>2
    <2> QED BY <1>3, <1>4, <2>1, <2>2
  <1>6. sx * L = rx * (D - C) /\ sy * L = ry * (D - C)
    <2>1. /\ sx * L = (d[1] - a[1]) * L - (c[1] - a[1]) * L
          /\ sy * L = (d[2] - a[2]) * L - (c[2] - a[2]) * L
      <3> HIDE DEF L
      <3> QED BY <1>1, <1>2
    <2>2. /\ rx * (D - C) = rx * D - rx * C
          /\ ry * (D - C) = ry * D - ry * C
      <3> HIDE DEF rx, ry, C, D
      <3> QED BY <1>2
    <2> QED BY <1>4, <2>1, <2>2
  <1>7. L = rx * rx + ry * ry BY DEF Length2
  <1>8. /\ Cross(p, c, d) = W * sy - Z * sx /\ Dot(p, c, d) = W * sx + Z * sy
        /\ Length2(c, d) = sx * sx + sy * sy
    BY DEF Cross, Dot, Length2
  <1> DEFINE x == P - q * C
             y == D - C
  <1>9. x \in Int /\ y \in Int BY <1>2
  <1> HIDE DEF rx, ry, sx, sy, W, Z, q, L, C, D, P, x, y
  <1>10. W * L = rx * x /\ Z * L = ry * x /\ sx * L = rx * y /\ sy * L = ry * y
    BY <1>5, <1>6 DEF x, y
  <1>11. L * (L * (W * sy - Z * sx)) = 0
    <2>1. L * (L * (W * sy - Z * sx)) = (W * L) * (sy * L) - (Z * L) * (sx * L) BY <1>2
    <2>2. (rx * x) * (ry * y) - (ry * x) * (rx * y) = 0 BY <1>2, <1>9
    <2> QED BY <1>10, <2>1, <2>2
  <1>12. W * sy - Z * sx = 0
    <2>1. PICK z \in Int : z = W * sy - Z * sx BY <1>2
    <2>2. L * (L * z) = 0 BY <1>11, <2>1
    <2>3. z = 0 BY <1>2, <2>2
    <2> QED BY <2>1, <2>3
  <1>13. L * (W * sx + Z * sy) = x * y
    <2>1. L * (L * (W * sx + Z * sy)) = (W * L) * (sx * L) + (Z * L) * (sy * L) BY <1>2
    <2>2. (rx * x) * (rx * y) + (ry * x) * (ry * y) = (rx * rx + ry * ry) * (x * y)
      BY <1>2, <1>9
    <2>3. L * (L * (W * sx + Z * sy)) = L * (x * y) BY <1>7, <1>10, <2>1, <2>2
    <2>4. L * (W * sx + Z * sy) \in Int /\ x * y \in Int BY <1>2, <1>9
    <2> QED BY <1>2, <2>3, <2>4, Cancel
  <1>14. L * (sx * sx + sy * sy) = y * y
    <2>1. L * (L * (sx * sx + sy * sy)) = (sx * L) * (sx * L) + (sy * L) * (sy * L) BY <1>2
    <2>2. (rx * y) * (rx * y) + (ry * y) * (ry * y) = (rx * rx + ry * ry) * (y * y)
      BY <1>2, <1>9
    <2>3. L * (L * (sx * sx + sy * sy)) = L * (y * y) BY <1>7, <1>10, <2>1, <2>2
    <2>4. L * (sx * sx + sy * sy) \in Int /\ y * y \in Int BY <1>2, <1>9
    <2> QED BY <1>2, <2>3, <2>4, Cancel
  <1>15. Cross(p, c, d) = 0 BY <1>8, <1>12
  <1>16. L * Dot(p, c, d) = x * y /\ L * Length2(c, d) = y * y BY <1>8, <1>13, <1>14
  <1> QED BY <1>15, <1>16 DEF L, x, y, P, q, C, D

\* The parameters of an intersection are fractions.
LEMMA ParametersAreFractions ==
    ASSUME NEW a \in Vertices, NEW b \in Vertices, a # b, NEW c \in Vertices,
           NEW d \in Vertices, NEW t \in IntersectionParameters(a, b, c, d)
    PROVE  t \in Fractions
  <1>1. At(c) \in Points /\ At(d) \in Points /\ At(a) \in Points
    BY DEF Vertices, At, Points
  <1>2. Denominator(a, b, c, d) \in Int /\ Numerator(a, c, d) \in Int
    BY DEF Vertices, Denominator, Numerator
  <1>3. CASE Denominator(a, b, c, d) # 0
    BY <1>2, <1>3, Intersections, FractionSigns
  <1>4. CASE Denominator(a, b, c, d) = 0
    <2>1. PICK g \in {c, d} : t = <<Dot(At(g), a, b), Length2(a, b)>>
      BY <1>4, Intersections
    <2>2. Dot(At(g), a, b) \in Int /\ Length2(a, b) \in Nat /\ Length2(a, b) > 0
      BY <1>1, SegmentTypes
    <2> QED BY <2>1, <2>2 DEF Fractions
  <1> QED BY <1>3, <1>4

\* The numerator and denominator of a fraction give the place on the edge.
LEMMA UnitSigns ==
    ASSUME NEW e \in Int, NEW k \in Int, k # 0
    PROVE  InUnit(Fraction(e, k)) <=> (0 <= e /\ e <= k) \/ (k <= e /\ e <= 0)
  <1>1. CASE k > 0 BY <1>1, FractionSigns DEF InUnit
  <1>2. CASE k < 0
    <2>1. Fraction(e, k)[1] = -e /\ Fraction(e, k)[2] = -k BY <1>2, FractionSigns
    <2>2. -e >= 0 /\ -e <= -k <=> k <= e /\ e <= 0 OBVIOUS
    <2> QED BY <1>2, <2>1, <2>2 DEF InUnit
  <1> QED BY <1>1, <1>2

\* A point with the parameter of an intersection is on the edge.
LEMMA BreakIsOnEdge ==
    ASSUME NEW a \in Vertices, NEW b \in Vertices, a # b, NEW c \in Vertices,
           NEW d \in Vertices, NEW p \in Points, PointOnSegment(p, a, b),
           NEW t \in IntersectionParameters(a, b, c, d),
           ~LessThan(t, Parameter(p, a, b)), ~LessThan(Parameter(p, a, b), t)
    PROVE  PointOnSegment(p, c, d)
  <1> DEFINE e == Cross(At(c), a, b)
             f == Cross(At(d), a, b)
             den == Denominator(a, b, c, d)
             num == Numerator(a, c, d)
             L == Length2(a, b)
             S == Length2(c, d)
             P == Dot(p, a, b)
             Q == Dot(p, c, d)
             q == p.q
             J == Cross(p, c, d)
  <1>1. /\ e \in Int /\ f \in Int /\ den \in Int /\ num \in Int
        /\ L \in Int /\ L > 0 /\ S \in Int /\ S >= 0 /\ P \in Int /\ Q \in Int /\ J \in Int
        /\ q \in Int /\ q > 0 /\ At(c) \in Points /\ At(d) \in Points
    BY CrossTypes, SegmentTypes, EdgeParameter DEF PointOnSegment
  <1>2. L * J = P * den - q * L * num /\ e - f = den
    BY EdgeParameter DEF PointOnSegment
  <1>3. t \in Fractions BY ParametersAreFractions
  <1>4. t[1] * (q * L) = P * t[2]
    <2>1. ~(t[1] * (q * L) < P * t[2]) /\ ~(P * t[2] < t[1] * (q * L))
      BY DEF LessThan, Parameter
    <2>2. t[1] * (q * L) \in Int /\ P * t[2] \in Int BY <1>1, <1>3 DEF Fractions
    <2> QED BY <2>1, <2>2
  <1>5. CASE den # 0
    <2>1. t = Fraction(num, den) /\ InUnit(Fraction(e, den)) BY <1>5, Intersections
    <2>2. (0 <= e /\ e <= den) \/ (den <= e /\ e <= 0) BY <1>1, <1>5, <2>1, UnitSigns
    <2> HIDE DEF e, f, den, num, L, S, P, Q, q, J
    <2>3. (t[1] = num /\ t[2] = den) \/ (t[1] = -num /\ t[2] = -den)
      <3>1. den > 0 \/ den < 0 BY <1>1, <1>5
      <3>2. /\ den > 0 => t[1] = num /\ t[2] = den
            /\ den < 0 => t[1] = -num /\ t[2] = -den
        BY <1>1, <1>5, <2>1, FractionSigns
      <3> QED BY <3>1, <3>2
    <2>4. num * (q * L) = P * den
      <3>1. CASE t[1] = num /\ t[2] = den BY <1>4, <3>1
      <3>2. CASE t[1] = -num /\ t[2] = -den
        <4>1. (-num) * (q * L) = -(num * (q * L)) /\ P * (-den) = -(P * den) BY <1>1
        <4>2. num * (q * L) \in Int /\ P * den \in Int BY <1>1
        <4>3. -(num * (q * L)) = -(P * den) BY <1>4, <3>2, <4>1
        <4> QED BY <4>2, <4>3
      <3> QED BY <2>3, <3>1, <3>2
    <2>5. J = 0
      <3>1. q * L * num = num * (q * L) BY <1>1
      <3>2. P * den \in Int BY <1>1
      <3>3. L * J = 0 BY <1>2, <2>4, <3>1, <3>2
      <3> QED BY <1>1, <3>3
    <2>6. Q * den = q * e * S
      BY <2>5, CrossingPoint DEF PointOnSegment, e, den, S, Q, q, J
    <2>7. Q >= 0 /\ Q <= q * S
      <3>1. PICK g \in Int : g = q * S /\ g >= 0 BY <1>1
      <3>2. Q * den = g * e BY <1>1, <2>6, <3>1
      <3>3. CASE 0 <= e /\ e <= den
        <4>1. g * e >= 0 /\ g * e <= g * den BY <1>1, <3>1, <3>3
        <4>2. Q * den >= 0 /\ Q * den <= g * den BY <3>2, <4>1
        <4>3. den > 0 BY <1>1, <1>5, <3>3
        <4>4. Q < 0 => Q * den < 0 BY <1>1, <4>3
        <4>5. Q > g => Q * den > g * den BY <1>1, <3>1, <4>3
        <4>6. Q * den \in Int /\ g * den \in Int BY <1>1
        <4> QED BY <1>1, <3>1, <4>2, <4>4, <4>5, <4>6
      <3>4. CASE den <= e /\ e <= 0
        <4>1. g * e <= 0 /\ g * e >= g * den BY <1>1, <3>1, <3>4
        <4>2. Q * den <= 0 /\ Q * den >= g * den BY <3>2, <4>1
        <4>3. den < 0 BY <1>1, <1>5, <3>4
        <4>4. Q < 0 => Q * den > 0 BY <1>1, <4>3
        <4>5. Q > g => Q * den < g * den BY <1>1, <3>1, <4>3
        <4>6. Q * den \in Int /\ g * den \in Int BY <1>1
        <4> QED BY <1>1, <3>1, <4>2, <4>4, <4>5, <4>6
      <3> QED BY <2>2, <3>3, <3>4
    <2> QED BY <2>5, <2>7 DEF PointOnSegment, J, Q, q, S
  <1>6. CASE den = 0
    <2>1. e = 0 BY <1>6, Intersections
    <2>2. f = 0
      <3> HIDE DEF e, f, den
      <3> QED BY <1>1, <1>2, <1>6, <2>1
    <2>3. PICK g \in {c, d} : t = <<Dot(At(g), a, b), L>> BY <1>6, <2>1, Intersections
    <2> DEFINE C == Dot(At(c), a, b)
               D == Dot(At(d), a, b)
               G == Dot(At(g), a, b)
    <2>4. C \in Int /\ D \in Int /\ G \in {C, D} /\ G \in Int BY <1>1, <2>3, SegmentTypes
    <2>5. J = 0 /\ L * Q = (P - q * C) * (D - C) /\ L * S = (D - C) * (D - C)
      BY <2>1, <2>2, OneLine DEF PointOnSegment
    <2>6. G * (q * L) = P * L BY <1>4, <2>3
    <2> HIDE DEF e, f, den, num, L, S, P, Q, q, J, C, D, G
    <2>7. P = q * G
      <3>1. L * P = L * (q * G) BY <1>1, <2>4, <2>6
      <3>2. q * G \in Int BY <1>1, <2>4
      <3> QED BY <1>1, <3>1, <3>2, Cancel
    <2>8. Q >= 0 /\ Q <= q * S
      <3>1. CASE G = C
        <4>1. P - q * C = 0 BY <1>1, <2>4, <2>7, <3>1
        <4>2. 0 * (D - C) = 0 BY <2>4
        <4>3. L * Q = 0 BY <2>5, <4>1, <4>2
        <4>4. Q = 0 BY <1>1, <4>3
        <4>5. q * S >= 0 BY <1>1
        <4> QED BY <4>4, <4>5
      <3>2. CASE G = D
        <4>1. P - q * C = q * (D - C) BY <1>1, <2>4, <2>7, <3>2
        <4>2. (q * (D - C)) * (D - C) = q * ((D - C) * (D - C)) BY <1>1, <2>4
        <4>3. L * Q = q * (L * S) BY <2>5, <4>1, <4>2
        <4>4. q * (L * S) = L * (q * S) BY <1>1
        <4>5. q * S \in Int /\ q * S >= 0 BY <1>1
        <4>6. Q = q * S BY <1>1, <4>3, <4>4, <4>5, Cancel
        <4> QED BY <4>5, <4>6
      <3> QED BY <2>4, <3>1, <3>2
    <2> QED BY <2>5, <2>8 DEF PointOnSegment, J, Q, q, S
  <1> QED BY <1>5, <1>6

\* An end of an edge on the line of the segment, between two points of it.
LEMMA EndBetween ==
    ASSUME NEW a \in Vertices, NEW b \in Vertices, a # b, NEW g \in Vertices,
           NEW m \in Points, NEW p \in Points,
           PointOnSegment(m, a, b), PointOnSegment(p, a, b),
           \/ /\ m.q * Dot(At(g), a, b) <= Dot(m, a, b)
              /\ Dot(p, a, b) <= p.q * Dot(At(g), a, b)
           \/ /\ Dot(m, a, b) <= m.q * Dot(At(g), a, b)
              /\ p.q * Dot(At(g), a, b) <= Dot(p, a, b)
    PROVE  /\ InUnit(<<Dot(At(g), a, b), Length2(a, b)>>)
           /\ Between(<<Dot(At(g), a, b), Length2(a, b)>>,
                      Parameter(m, a, b), Parameter(p, a, b))
  <1> DEFINE G == Dot(At(g), a, b)
             L == Length2(a, b)
             M == Dot(m, a, b)
             P == Dot(p, a, b)
             i == m.q
             j == p.q
  <1>1. /\ G \in Int /\ L \in Int /\ L > 0 /\ M \in Int /\ P \in Int
        /\ i \in Int /\ i > 0 /\ j \in Int /\ j > 0
    BY CrossTypes, SegmentTypes
  <1>2. 0 <= M /\ M <= i * L /\ 0 <= P /\ P <= j * L BY <1>1 DEF PointOnSegment
  <1>3. (i * G <= M /\ P <= j * G) \/ (M <= i * G /\ j * G <= P) OBVIOUS
  <1>4. /\ LessThan(<<G, L>>, Parameter(m, a, b)) <=> G * (i * L) < M * L
        /\ LessThan(Parameter(m, a, b), <<G, L>>) <=> M * L < G * (i * L)
        /\ LessThan(<<G, L>>, Parameter(p, a, b)) <=> G * (j * L) < P * L
        /\ LessThan(Parameter(p, a, b), <<G, L>>) <=> P * L < G * (j * L)
    BY DEF LessThan, Parameter
  <1> HIDE DEF G, L, M, P, i, j
  <1>5. G * (i * L) = (i * G) * L /\ G * (j * L) = (j * G) * L BY <1>1
  <1>6. \A x, y \in Int : x <= y => ~(y * L < x * L)
    <2>1. SUFFICES ASSUME NEW x \in Int, NEW y \in Int, x <= y PROVE ~(y * L < x * L)
      OBVIOUS
    <2>2. PICK z \in Int : z = y - x /\ z >= 0 BY <2>1
    <2>3. y * L - x * L = z * L /\ z * L >= 0 BY <1>1, <2>2
    <2>4. y * L \in Int /\ x * L \in Int BY <1>1
    <2> QED BY <2>3, <2>4
  <1>7. i * G \in Int /\ j * G \in Int /\ i * L \in Int /\ j * L \in Int BY <1>1
  <1>8. Between(<<G, L>>, Parameter(m, a, b), Parameter(p, a, b))
    <2>1. CASE i * G <= M /\ P <= j * G
      <3>1. ~(M * L < (i * G) * L) /\ ~((j * G) * L < P * L) BY <1>1, <1>6, <1>7, <2>1
      <3> QED BY <1>4, <1>5, <3>1 DEF Between
    <2>2. CASE M <= i * G /\ j * G <= P
      <3>1. ~((i * G) * L < M * L) /\ ~(P * L < (j * G) * L) BY <1>1, <1>6, <1>7, <2>2
      <3> QED BY <1>4, <1>5, <3>1 DEF Between
    <2> QED BY <1>3, <2>1, <2>2
  <1>9. G >= 0 /\ G <= L
    <2>1. i * G >= 0 \/ j * G >= 0 BY <1>1, <1>2, <1>3, <1>7
    <2>2. i * G <= i * L \/ j * G <= j * L BY <1>1, <1>2, <1>3, <1>7
    <2>3. G >= 0 BY <1>1, <2>1
    <2>4. \A k \in Int : k > 0 /\ k * G <= k * L => G <= L
      <3>1. SUFFICES ASSUME NEW k \in Int, k > 0, k * G <= k * L, G > L PROVE FALSE
        BY <1>1
      <3>2. PICK z \in Int : z = G - L /\ z > 0 BY <1>1, <3>1
      <3>3. k * G - k * L = k * z /\ k * z > 0 BY <1>1, <3>1, <3>2
      <3>4. k * G \in Int /\ k * L \in Int BY <1>1
      <3> QED BY <3>1, <3>3, <3>4
    <2> QED BY <1>1, <2>2, <2>3, <2>4
  <1>10. InUnit(<<G, L>>) BY <1>9 DEF InUnit
  <1> QED BY <1>8, <1>10 DEF G, L

\* Between a point of the segment on an edge and one off it, the edge is
\* crossed or ends.
LEMMA EdgeEndsBetween ==
    ASSUME NEW a \in Vertices, NEW b \in Vertices, a # b, NEW c \in Vertices,
           NEW d \in Vertices, c # d, NEW m \in Points, NEW p \in Points,
           PointOnSegment(m, a, b), PointOnSegment(p, a, b),
           PointOnSegment(m, c, d), ~PointOnSegment(p, c, d)
    PROVE  \E t \in IntersectionParameters(a, b, c, d) :
              Between(t, Parameter(m, a, b), Parameter(p, a, b))
  <1> DEFINE e == Cross(At(c), a, b)
             f == Cross(At(d), a, b)
             den == Denominator(a, b, c, d)
             L == Length2(a, b)
             S == Length2(c, d)
             Q == Dot(m, c, d)
             i == m.q
             j == p.q
  <1>1. /\ e \in Int /\ f \in Int /\ den \in Int
        /\ L \in Int /\ L > 0 /\ S \in Int /\ S > 0 /\ Q \in Int
        /\ i \in Int /\ i > 0 /\ j \in Int /\ j > 0
        /\ At(c) \in Points /\ At(d) \in Points
    BY CrossTypes, SegmentTypes, EdgeParameter DEF PointOnSegment
  <1>2. e - f = den BY EdgeParameter DEF PointOnSegment
  <1>3. Q * den = i * e * S BY CrossingPoint DEF PointOnSegment
  <1>4. 0 <= Q /\ Q <= i * S /\ Cross(m, c, d) = 0 BY <1>1 DEF PointOnSegment
  <1>5. PICK g \in Int : g = i * S /\ g > 0 BY <1>1
  <1>6. Q * den = g * e
    <2> HIDE DEF e, f, den, L, S, Q, i, j
    <2>1. i * e * S = g * e BY <1>1, <1>5
    <2> QED BY <1>3, <2>1
  <1>7. CASE den # 0
    <2>1. (0 <= e /\ f <= 0) \/ (e <= 0 /\ 0 <= f)
      <3> HIDE DEF e, f, den, L, S, Q, i, j
      <3>1. CASE den > 0
        <4>1. Q * den >= 0 /\ Q * den <= g * den BY <1>1, <1>4, <1>5, <3>1
        <4>2. e < 0 => g * e < 0 BY <1>1, <1>5
        <4>3. e > den => g * e > g * den BY <1>1, <1>5
        <4>4. Q * den \in Int /\ g * den \in Int BY <1>1
        <4> QED BY <1>1, <1>2, <1>6, <4>1, <4>2, <4>3, <4>4
      <3>2. CASE den < 0
        <4>1. Q * den <= 0 /\ Q * den >= g * den BY <1>1, <1>4, <1>5, <3>2
        <4>2. e > 0 => g * e > 0 BY <1>1, <1>5
        <4>3. e < den => g * e < g * den BY <1>1, <1>5
        <4>4. Q * den \in Int /\ g * den \in Int BY <1>1
        <4> QED BY <1>1, <1>2, <1>6, <4>1, <4>2, <4>3, <4>4
      <3> QED BY <1>1, <1>7, <3>1, <3>2
    <2>2. ~(e * f > 0) /\ ~(e = 0 /\ f = 0)
      <3> HIDE DEF e, f, den
      <3>1. ~(e * f > 0) BY <1>1, <2>1, Signs
      <3>2. ~(e = 0 /\ f = 0) BY <1>1, <1>2, <1>7
      <3> QED BY <3>1, <3>2
    <2>3. ~Misses(m, m, a, b, c, d)
      <3>1. ~(0 * 0 > 0) OBVIOUS
      <3> QED BY <1>4, <2>2, <3>1 DEF Misses
    <2>4. PICK t \in IntersectionParameters(a, b, c, d) :
             /\ t \in Fractions
             /\ Between(t, Parameter(m, a, b), Parameter(m, a, b))
      BY <2>3, Meets
    <2>5. Parameter(p, a, b) \in Fractions BY SegmentTypes
    <2>6. LessThan(t, Parameter(p, a, b)) => ~LessThan(Parameter(p, a, b), t)
      BY <2>4, <2>5, Ordered
    <2> QED BY <2>4, <2>6 DEF Between
  <1>8. CASE den = 0
    <2>1. e = 0 /\ f = 0
      <3> HIDE DEF e, f, den, L, S, Q, i, j
      <3>1. Q * den = 0 BY <1>1, <1>8
      <3>2. e = 0 BY <1>1, <1>5, <1>6, <3>1
      <3> QED BY <1>1, <1>2, <1>8, <3>2
    <2> DEFINE C == Dot(At(c), a, b)
               D == Dot(At(d), a, b)
               M == Dot(m, a, b)
               P == Dot(p, a, b)
               R == Dot(p, c, d)
               y == D - C
    <2>2. C \in Int /\ D \in Int /\ M \in Int /\ P \in Int /\ R \in Int /\ y \in Int
      BY <1>1, SegmentTypes
    <2>3. /\ Cross(p, c, d) = 0
          /\ L * Q = (M - i * C) * y /\ L * R = (P - j * C) * y /\ L * S = y * y
      BY <2>1, OneLine DEF PointOnSegment
    <2>4. ~(R >= 0 /\ R <= j * S) BY <2>3 DEF PointOnSegment
    <2>5. \/ i * C <= M /\ P <= j * C
          \/ M <= i * C /\ j * C <= P
          \/ i * D <= M /\ P <= j * D
          \/ M <= i * D /\ j * D <= P
      <3>1. y = D - C OBVIOUS
      <3> HIDE DEF e, f, den, L, S, Q, i, j, C, D, M, P, R, y
      <3> DEFINE x == M - i * C
                 z == P - j * C
      <3>2. x \in Int /\ z \in Int BY <1>1, <2>2
      <3>3. x - i * y = M - i * D /\ z - j * y = P - j * D BY <1>1, <2>2, <3>1
      <3>4. L * Q = x * y /\ L * R = z * y BY <2>3
      <3>5. /\ i * C \in Int /\ j * C \in Int /\ i * D \in Int /\ j * D \in Int
            /\ i * y \in Int /\ j * y \in Int
        BY <1>1, <2>2
      <3>6. /\ x >= 0 <=> i * C <= M
            /\ x <= 0 <=> M <= i * C
            /\ z <= 0 <=> P <= j * C
            /\ z >= 0 <=> j * C <= P
        BY <2>2, <3>5
      <3>7. /\ x - i * y >= 0 <=> i * D <= M
            /\ x - i * y <= 0 <=> M <= i * D
            /\ z - j * y <= 0 <=> P <= j * D
            /\ z - j * y >= 0 <=> j * D <= P
        BY <2>2, <3>3, <3>5
      <3> HIDE DEF x, z
      <3>8. y # 0
        <4>1. L * S > 0 BY <1>1
        <4> QED BY <2>2, <2>3, <4>1
      <3>9. x * y >= 0 /\ (x - i * y) * y <= 0
        <4>1. L * Q >= 0 BY <1>1, <1>4
        <4>2. (x - i * y) * y = x * y - i * (y * y) BY <1>1, <2>2, <3>2
        <4>3. (x - i * y) * y = L * (Q - i * S)
          <5>1. L * (Q - i * S) = L * Q - i * (L * S) BY <1>1
          <5> QED BY <2>3, <3>4, <4>2, <5>1
        <4>4. PICK k \in Int : k = Q - i * S /\ k <= 0 BY <1>1, <1>4
        <4>5. L * k <= 0 BY <1>1, <4>4
        <4> QED BY <3>4, <4>1, <4>3, <4>4, <4>5
      <3>10. z * y < 0 \/ (z - j * y) * y > 0
        <4>1. R < 0 => L * R < 0 BY <1>1, <2>2
        <4>2. (z - j * y) * y = z * y - j * (y * y) BY <1>1, <2>2, <3>2
        <4>3. (z - j * y) * y = L * (R - j * S)
          <5>1. L * (R - j * S) = L * R - j * (L * S) BY <1>1, <2>2
          <5> QED BY <2>3, <3>4, <4>2, <5>1
        <4>4. PICK k \in Int : k = R - j * S BY <1>1, <2>2
        <4>5. k > 0 => L * k > 0 BY <1>1, <4>4
        <4>6. j * S \in Int BY <1>1
        <4>7. R < 0 \/ k > 0 BY <2>2, <2>4, <4>4, <4>6
        <4> QED BY <3>4, <4>1, <4>3, <4>4, <4>5, <4>7
      <3>11. PICK u \in Int, v \in Int : u = x - i * y /\ v = z - j * y BY <1>1, <2>2, <3>2
      <3>12. x * y >= 0 /\ u * y <= 0 /\ (z * y < 0 \/ v * y > 0) BY <3>9, <3>10, <3>11
      <3>13. CASE y > 0
        <4>1. x >= 0 BY <2>2, <3>2, <3>12, <3>13
        <4>2. u <= 0 BY <2>2, <3>11, <3>12, <3>13
        <4>3. z < 0 \/ v > 0 BY <2>2, <3>2, <3>11, <3>12, <3>13
        <4> QED BY <3>2, <3>6, <3>7, <3>11, <4>1, <4>2, <4>3
      <3>14. CASE y < 0
        <4>1. x <= 0 BY <2>2, <3>2, <3>12, <3>14
        <4>2. u >= 0 BY <2>2, <3>11, <3>12, <3>14
        <4>3. z > 0 \/ v < 0 BY <2>2, <3>2, <3>11, <3>12, <3>14
        <4> QED BY <3>2, <3>6, <3>7, <3>11, <4>1, <4>2, <4>3
      <3> QED BY <2>2, <3>8, <3>13, <3>14
    <2>6. PICK w \in {c, d} :
             /\ InUnit(<<Dot(At(w), a, b), L>>)
             /\ Between(<<Dot(At(w), a, b), L>>, Parameter(m, a, b), Parameter(p, a, b))
      <3>1. CASE (i * C <= M /\ P <= j * C) \/ (M <= i * C /\ j * C <= P)
        BY <3>1, EndBetween
      <3>2. CASE (i * D <= M /\ P <= j * D) \/ (M <= i * D /\ j * D <= P)
        BY <3>2, EndBetween
      <3> QED BY <2>5, <3>1, <3>2
    <2>7. <<Dot(At(w), a, b), L>> \in IntersectionParameters(a, b, c, d)
      BY <1>8, <2>1, <2>6, Intersections
    <2> QED BY <2>6, <2>7
  <1> QED BY <1>7, <1>8

-----------------------------------------------------------------------------
(* A covered segment stays in the polygon or on its edges.                 *)

\* The image of a finite set is finite.
LEMMA FiniteImage ==
    ASSUME NEW S, IsFiniteSet(S), NEW T, NEW f \in [S -> T],
           \A t \in T : \E x \in S : f[x] = t
    PROVE  IsFiniteSet(T)
  <1>1. f \in Surjection(S, T) BY DEF Surjection
  <1> QED BY <1>1, FS_Surjection

\* A finite set has an element that R relates to no other.
LEMMA LastElement ==
    ASSUME NEW T, IsFiniteSet(T), T # {}, NEW R,
           \A x \in T : <<x, x>> \notin R,
           \A x, y, z \in T : <<x, y>> \in R /\ <<y, z>> \in R => <<x, z>> \in R
    PROVE  \E x \in T : \A y \in T : <<x, y>> \notin R
  <1> DEFINE After(x) == {y \in T : <<x, y>> \in R}
             F == {After(x) : x \in T}
             O == StrictSubsetOrdering(T)
  <1>1. F \subseteq FiniteSubsetsOf(T)
    <2>1. ASSUME NEW A \in F PROVE A \in FiniteSubsetsOf(T)
      <3>1. A \in SUBSET T OBVIOUS
      <3>2. IsFiniteSet(A) BY <3>1, FS_Subset
      <3> QED BY <3>1, <3>2 DEF FiniteSubsetsOf
    <2> QED BY <2>1
  <1>2. F # {}
    <2>1. PICK x \in T : TRUE OBVIOUS
    <2>2. After(x) \in F OBVIOUS
    <2> QED BY <2>2
  <1>3. IsWellFoundedOn(O, FiniteSubsetsOf(T)) BY FS_StrictSubsetOrderingWellFounded
  <1>4. PICK A \in F : \A B \in F : ~(<<B, A>> \in O)
    <2> HIDE DEF F, O
    <2> QED BY <1>1, <1>2, <1>3, WFMin
  <1>5. PICK x \in T : A = After(x) BY <1>4
  <1>6. ASSUME NEW y \in T, <<x, y>> \in R PROVE FALSE
    <2>1. After(y) \subseteq After(x) BY <1>6
    <2>2. y \in After(x) /\ y \notin After(y) BY <1>6
    <2>3. After(y) # After(x) BY <2>2
    <2>4. <<After(y), After(x)>> \in O BY <2>1, <2>3 DEF StrictSubsetOrdering
    <2> QED BY <1>4, <1>5, <2>4
  <1> QED BY <1>6

-----------------------------------------------------------------------------
(* Covered segments.                                                        *)

\* The parameters at which the segment from a to b is cut.
Breaks(polygon, a, b) ==
    {<<0, 1>>, <<1, 1>>} \cup
    UNION {IntersectionParameters(a, b, e[1], e[2]) :
             e \in UNION {Edges(polygon[r]) : r \in 1..Len(polygon)}}

\* An exterior ring and any number of holes.
Polygons == {polygon \in Seq(Rings) : Len(polygon) > 0}

\* A polygon is made of rings, its edges of vertices.
LEMMA PolygonFacts ==
    ASSUME NEW polygon \in Polygons
    PROVE  /\ Len(polygon) \in Nat /\ Len(polygon) >= 1
           /\ \A r \in 1..Len(polygon) : polygon[r] \in Rings
           /\ \A r \in 1..Len(polygon) : \A e \in Edges(polygon[r]) :
                 e[1] \in Vertices /\ e[2] \in Vertices
  <1>1. \A r \in 1..Len(polygon) : polygon[r] \in Rings BY DEF Polygons
  <1>2. ASSUME NEW r \in 1..Len(polygon), NEW e \in Edges(polygon[r])
        PROVE  e[1] \in Vertices /\ e[2] \in Vertices
    <2>1. PICK i \in 2..Len(polygon[r]) : e = <<polygon[r][i - 1], polygon[r][i]>>
      BY DEF Edges
    <2>2. polygon[r][i - 1] \in Vertices /\ polygon[r][i] \in Vertices
      BY <1>1, RingFacts
    <2> QED BY <2>1, <2>2
  <1> QED BY <1>1, <1>2 DEF Polygons

\* The breaks of a segment are finitely many fractions between 0 and 1, and come
\* from its ends and from the edges of the rings.
LEMMA BreaksAreFractions ==
    ASSUME NEW polygon \in Polygons, NEW a \in Vertices, NEW b \in Vertices, a # b
    PROVE  /\ IsFiniteSet(Breaks(polygon, a, b))
           /\ \A t \in Breaks(polygon, a, b) : t \in Fractions /\ InUnit(t)
           /\ \A t \in Breaks(polygon, a, b) :
                 \/ t \in {<<0, 1>>, <<1, 1>>}
                 \/ \E r \in 1..Len(polygon) : \E e \in Edges(polygon[r]) :
                       t \in IntersectionParameters(a, b, e[1], e[2])
           /\ \A r \in 1..Len(polygon) : \A e \in Edges(polygon[r]) :
                 \A t \in IntersectionParameters(a, b, e[1], e[2]) :
                    t \in Breaks(polygon, a, b)
  <1> DEFINE E == UNION {Edges(polygon[r]) : r \in 1..Len(polygon)}
             I(e) == IntersectionParameters(a, b, e[1], e[2])
  <1>1. \A e \in E : e[1] \in Vertices /\ e[2] \in Vertices BY PolygonFacts
  <1>2. IsFiniteSet(E)
    <2>1. ASSUME NEW r \in 1..Len(polygon) PROVE IsFiniteSet(Edges(polygon[r]))
      <3> DEFINE S == 2..Len(polygon[r])
                 T == {<<polygon[r][i - 1], polygon[r][i]>> : i \in S}
                 f == [i \in S |-> <<polygon[r][i - 1], polygon[r][i]>>]
      <3>1. Len(polygon[r]) \in Int BY PolygonFacts, RingFacts
      <3>2. IsFiniteSet(S)
        <4>1. \A n \in Int : IsFiniteSet(2..n) BY FS_Interval
        <4> QED BY <3>1, <4>1
      <3>3. f \in [S -> T] /\ \A t \in T : \E i \in S : f[i] = t OBVIOUS
      <3>4. Edges(polygon[r]) = T BY DEF Edges
      <3> HIDE DEF S, T, f
      <3> QED BY <3>2, <3>3, <3>4, FiniteImage
    <2> DEFINE S == 1..Len(polygon)
               f == [r \in S |-> Edges(polygon[r])]
               T == {Edges(polygon[r]) : r \in S}
    <2>2. IsFiniteSet(S) BY PolygonFacts, FS_Interval
    <2>3. f \in [S -> T] /\ \A t \in T : \E r \in S : f[r] = t OBVIOUS
    <2>4. IsFiniteSet(T)
      <3> HIDE DEF S, T, f
      <3> QED BY <2>2, <2>3, FiniteImage
    <2>5. \A U \in T : IsFiniteSet(U) BY <2>1
    <2>6. E = UNION T OBVIOUS
    <2> HIDE DEF T
    <2> QED BY <2>4, <2>5, <2>6, FS_UNION
  <1>3. ASSUME NEW e \in E PROVE IsFiniteSet(I(e))
    <2> DEFINE c == e[1]
               d == e[2]
               x == Fraction(Numerator(a, c, d), Denominator(a, b, c, d))
               y == <<Dot(At(c), a, b), Length2(a, b)>>
               z == <<Dot(At(d), a, b), Length2(a, b)>>
    <2>1. c \in Vertices /\ d \in Vertices BY <1>1
    <2>2. I(e) \subseteq ({x} \cup {y}) \cup {z}
      <3>1. \A t \in I(e) : t = x \/ t = y \/ t = z
        <4> HIDE DEF c, d
        <4>1. I(e) = IntersectionParameters(a, b, c, d) BY DEF c, d
        <4> QED BY <2>1, <4>1, Intersections
      <3> QED BY <3>1
    <2> HIDE DEF x, y, z, I
    <2>3. IsFiniteSet(({x} \cup {y}) \cup {z}) BY FS_Singleton, FS_AddElement
    <2> QED BY <2>2, <2>3, FS_Subset
  <1>4. IsFiniteSet(UNION {I(e) : e \in E})
    <2> DEFINE f == [e \in E |-> I(e)]
               T == {I(e) : e \in E}
    <2>1. f \in [E -> T] /\ \A t \in T : \E e \in E : f[e] = t OBVIOUS
    <2>2. IsFiniteSet(T)
      <3> HIDE DEF E, T, f
      <3> QED BY <1>2, <2>1, FiniteImage
    <2>3. \A U \in T : IsFiniteSet(U) BY <1>3
    <2> HIDE DEF T
    <2>4. IsFiniteSet(UNION T) BY <2>2, <2>3, FS_UNION
    <2> QED BY <2>4 DEF T
  <1>5. Breaks(polygon, a, b) = {<<0, 1>>, <<1, 1>>} \cup UNION {I(e) : e \in E}
    BY DEF Breaks
  <1>6. IsFiniteSet({<<0, 1>>, <<1, 1>>})
    <2>1. {<<0, 1>>, <<1, 1>>} = {<<0, 1>>} \cup {<<1, 1>>} OBVIOUS
    <2>2. IsFiniteSet({<<0, 1>>}) BY FS_Singleton
    <2>3. IsFiniteSet({<<0, 1>>} \cup {<<1, 1>>}) BY <2>2, FS_AddElement
    <2> QED BY <2>1, <2>3
  <1>7. IsFiniteSet(Breaks(polygon, a, b))
    <2> DEFINE U == UNION {I(e) : e \in E}
               V == {<<0, 1>>, <<1, 1>>}
    <2>1. IsFiniteSet(U) /\ IsFiniteSet(V) /\ Breaks(polygon, a, b) = V \cup U
      BY <1>4, <1>5, <1>6
    <2> HIDE DEF U, V
    <2> QED BY <2>1, FS_Union
  <1>8. ASSUME NEW e \in E, NEW t \in I(e) PROVE t \in Fractions /\ InUnit(t)
    <2>1. e[1] \in Vertices /\ e[2] \in Vertices BY <1>1
    <2> HIDE DEF E
    <2>2. t \in Fractions BY <2>1, ParametersAreFractions
    <2>3. InUnit(t) BY <2>1, Intersections
    <2> QED BY <2>2, <2>3
  <1>9. <<0, 1>> \in Fractions /\ <<1, 1>> \in Fractions /\ InUnit(<<0, 1>>) /\ InUnit(<<1, 1>>)
    BY DEF Fractions, InUnit
  <1>10. \A t \in Breaks(polygon, a, b) :
            t \in {<<0, 1>>, <<1, 1>>} \/ \E e \in E : t \in I(e)
    BY <1>5
  <1>11. \A e \in E : \A t \in I(e) : t \in Breaks(polygon, a, b) BY <1>5
  <1>12. \A t \in Breaks(polygon, a, b) : t \in Fractions /\ InUnit(t)
    <2> HIDE DEF E, I
    <2> QED BY <1>8, <1>9, <1>10
  <1> QED BY <1>7, <1>10, <1>11, <1>12

\* The middle of a stretch between two parameters.
LEMMA MiddleFacts ==
    ASSUME NEW a \in Vertices, NEW b \in Vertices, a # b,
           NEW s \in Fractions, NEW t \in Fractions, InUnit(s), InUnit(t),
           LessThan(s, t)
    PROVE  /\ Middle(a, b, s, t) \in Points
           /\ PointOnSegment(Middle(a, b, s, t), a, b)
           /\ LessThan(s, Parameter(Middle(a, b, s, t), a, b))
           /\ LessThan(Parameter(Middle(a, b, s, t), a, b), t)
  <1>1. /\ a[1] \in Int /\ a[2] \in Int /\ b[1] \in Int /\ b[2] \in Int
        /\ s[1] \in Int /\ s[2] \in Int /\ s[2] > 0
        /\ t[1] \in Int /\ t[2] \in Int /\ t[2] > 0
    BY DEF Vertices, Fractions
  <1> DEFINE m == Middle(a, b, s, t)
             st == s[1] * t[2]
             ts == t[1] * s[2]
             g == s[2] * t[2]
             n == st + ts
             q == 2 * s[2] * t[2]
             rx == b[1] - a[1]
             ry == b[2] - a[2]
             L == Length2(a, b)
  <1>2. /\ m.x = a[1] * q + rx * n /\ m.y = a[2] * q + ry * n /\ m.q = q
        /\ m = [x |-> a[1] * q + rx * n, y |-> a[2] * q + ry * n, q |-> q]
    BY DEF Middle
  <1>3. st \in Int /\ ts \in Int /\ g \in Int /\ g > 0 /\ q = 2 * g BY <1>1
  <1>4. st < ts BY DEF LessThan
  <1>5. 0 <= st /\ st <= g /\ 0 <= ts /\ ts <= g
    <2>1. 0 <= s[1] /\ s[1] <= s[2] /\ 0 <= t[1] /\ t[1] <= t[2] BY <1>1 DEF InUnit
    <2>2. \A x, y, z \in Int : 0 <= x /\ x <= y /\ z > 0 => 0 <= x * z /\ x * z <= y * z
      OBVIOUS
    <2>3. 0 <= st /\ st <= s[2] * t[2] /\ 0 <= ts /\ ts <= t[2] * s[2]
      BY <1>1, <2>1, <2>2
    <2>4. t[2] * s[2] = g BY <1>1
    <2> QED BY <2>3, <2>4
  <1>6. rx \in Int /\ ry \in Int BY <1>1
  <1>7. a[1] * q \in Int /\ a[2] * q \in Int /\ rx * n \in Int /\ ry * n \in Int /\ q \in Int
    BY <1>1, <1>3, <1>6
  <1>8. m \in Points
    <2>1. q \in Nat \ {0} BY <1>3
    <2> QED BY <1>2, <1>7, <2>1 DEF Points
  <1>9. L \in Int /\ L > 0 /\ L = rx * rx + ry * ry BY <1>8, SegmentTypes DEF Length2
  <1>10. m.x - m.q * a[1] = rx * n /\ m.y - m.q * a[2] = ry * n
    <2> HIDE DEF rx, ry, n, q
    <2>1. a[1] * q = q * a[1] /\ a[2] * q = q * a[2] BY <1>1, <1>7
    <2>2. q * a[1] \in Int /\ q * a[2] \in Int BY <1>1, <1>7
    <2> HIDE DEF m
    <2> QED BY <1>2, <1>7, <2>1, <2>2
  <1>11. n \in Int /\ n = st + ts BY <1>3
  <1> HIDE DEF m, st, ts, g, n, q, rx, ry, L
  <1>12. Cross(m, a, b) = 0
    <2>1. Cross(m, a, b) = (rx * n) * ry - (ry * n) * rx BY <1>10 DEF Cross, rx, ry
    <2> QED BY <1>6, <1>11, <2>1
  <1>13. Dot(m, a, b) = n * L
    <2>1. Dot(m, a, b) = (rx * n) * rx + (ry * n) * ry BY <1>10 DEF Dot, rx, ry
    <2>2. (rx * n) * rx + (ry * n) * ry = n * (rx * rx + ry * ry) BY <1>6, <1>11
    <2> QED BY <1>9, <2>1, <2>2
  <1>14. 0 <= n /\ n <= q BY <1>3, <1>5, <1>11
  <1>15. 0 <= n * L /\ n * L <= q * L BY <1>7, <1>9, <1>11, <1>14
  <1>16. PointOnSegment(m, a, b)
    BY <1>2, <1>9, <1>11, <1>12, <1>13, <1>15 DEF PointOnSegment, L
  <1>17. Parameter(m, a, b) = <<n * L, q * L>> BY <1>2, <1>13 DEF Parameter, L
  <1>18. s[1] * (q * L) < (n * L) * s[2]
    <2>1. s[1] * (q * L) = (2 * st) * (s[2] * L)
      <3>1. q = 2 * s[2] * t[2] /\ st = s[1] * t[2] BY DEF q, st
      <3>2. s[1] * ((2 * s[2] * t[2]) * L) = (2 * (s[1] * t[2])) * (s[2] * L) BY <1>1, <1>9
      <3> QED BY <3>1, <3>2
    <2>2. (n * L) * s[2] = n * (s[2] * L) BY <1>1, <1>9, <1>11
    <2>3. PICK k \in Int : k = s[2] * L /\ k > 0 BY <1>1, <1>9
    <2>4. (2 * st) * k < n * k BY <1>3, <1>4, <1>11, <2>3
    <2> QED BY <2>1, <2>2, <2>3, <2>4
  <1>19. (n * L) * t[2] < t[1] * (q * L)
    <2>1. t[1] * (q * L) = (2 * ts) * (t[2] * L)
      <3>1. q = 2 * s[2] * t[2] /\ ts = t[1] * s[2] BY DEF q, ts
      <3>2. t[1] * ((2 * s[2] * t[2]) * L) = (2 * (t[1] * s[2])) * (t[2] * L) BY <1>1, <1>9
      <3> QED BY <3>1, <3>2
    <2>2. (n * L) * t[2] = n * (t[2] * L) BY <1>1, <1>9, <1>11
    <2>3. PICK k \in Int : k = t[2] * L /\ k > 0 BY <1>1, <1>9
    <2>4. n * k < (2 * ts) * k BY <1>3, <1>4, <1>11, <2>3
    <2> QED BY <2>1, <2>2, <2>3, <2>4
  <1>20. LessThan(s, Parameter(m, a, b)) /\ LessThan(Parameter(m, a, b), t)
    BY <1>17, <1>18, <1>19 DEF LessThan
  <1> QED BY <1>8, <1>16, <1>20 DEF m

\* The two ways to write a vertex as a point.
LEMMA SamePoint ==
    ASSUME NEW a \in Vertices, NEW p \in Points, p.x = p.q * a[1], p.y = p.q * a[2],
           NEW c \in Vertices, NEW d \in Vertices
    PROVE  /\ CrossedByRay(p, c, d) <=> CrossedByRay(At(a), c, d)
           /\ PointOnSegment(p, c, d) <=> PointOnSegment(At(a), c, d)
  <1>1. /\ a[1] \in Int /\ a[2] \in Int
        /\ c[1] \in Int /\ c[2] \in Int /\ d[1] \in Int /\ d[2] \in Int
        /\ p.q \in Int /\ p.q > 0 /\ At(a) \in Points
        /\ Cross(At(a), c, d) \in Int
    BY CrossTypes
  <1>2. Dot(At(a), c, d) \in Int /\ Length2(c, d) \in Int BY <1>1, SegmentTypes
  <1>3. At(a).x = a[1] /\ At(a).y = a[2] /\ At(a).q = 1 BY DEF At
  <1> DEFINE q == p.q
             K == Cross(At(a), c, d)
             D == Dot(At(a), c, d)
             S == Length2(c, d)
  <1>4. Cross(p, c, d) = q * K
    <2>1. K = (a[1] - c[1]) * (d[2] - c[2]) - (a[2] - c[2]) * (d[1] - c[1])
      BY <1>1, <1>3 DEF Cross
    <2>2. Cross(p, c, d) = (q * a[1] - q * c[1]) * (d[2] - c[2])
                           - (q * a[2] - q * c[2]) * (d[1] - c[1])
      BY DEF Cross
    <2> QED BY <1>1, <2>1, <2>2
  <1>5. Dot(p, c, d) = q * D
    <2>1. D = (a[1] - c[1]) * (d[1] - c[1]) + (a[2] - c[2]) * (d[2] - c[2])
      BY <1>1, <1>3 DEF Dot
    <2>2. Dot(p, c, d) = (q * a[1] - q * c[1]) * (d[1] - c[1])
                         + (q * a[2] - q * c[2]) * (d[2] - c[2])
      BY DEF Dot
    <2> QED BY <1>1, <2>1, <2>2
  <1>6. ASSUME NEW v \in Int PROVE v * q > q * a[2] <=> v * 1 > a[2]
    <2>1. PICK z \in Int : z = v - a[2] BY <1>1
    <2>2. v * q - q * a[2] = z * q BY <1>1, <2>1
    <2>3. z * q > 0 <=> z > 0 BY <1>1
    <2>4. v * q \in Int /\ q * a[2] \in Int BY <1>1
    <2> QED BY <1>1, <2>1, <2>2, <2>3, <2>4
  <1>7. /\ c[2] * p.q > p.y <=> c[2] * At(a).q > At(a).y
        /\ d[2] * p.q > p.y <=> d[2] * At(a).q > At(a).y
    BY <1>1, <1>3, <1>6
  <1>8. /\ q * K < 0 <=> K < 0
        /\ q * K > 0 <=> K > 0
        /\ q * K = 0 <=> K = 0
        /\ q * D >= 0 <=> D >= 0
        /\ q * D <= q * S <=> D <= 1 * S
    <2>1. q \in Int /\ q > 0 /\ K \in Int /\ D \in Int /\ S \in Int BY <1>1, <1>2
    <2> HIDE DEF q, K, D, S
    <2>2. /\ q * K < 0 <=> K < 0
          /\ q * K > 0 <=> K > 0
          /\ q * K = 0 <=> K = 0
          /\ q * D >= 0 <=> D >= 0
      BY <2>1
    <2>3. q * D <= q * S <=> D <= S
      <3>1. PICK z \in Int : z = S - D BY <2>1
      <3>2. q * S - q * D = q * z BY <2>1, <3>1
      <3>3. q * z >= 0 <=> z >= 0 BY <2>1
      <3>4. q * S \in Int /\ q * D \in Int BY <2>1
      <3> QED BY <2>1, <3>1, <3>2, <3>3, <3>4
    <2>4. 1 * S = S BY <2>1
    <2> QED BY <2>2, <2>3, <2>4
  <1>9. CrossedByRay(p, c, d) <=> CrossedByRay(At(a), c, d)
    <2> HIDE DEF q, K, D, S
    <2> QED BY <1>4, <1>7, <1>8 DEF CrossedByRay, K
  <1>10. PointOnSegment(p, c, d) <=> PointOnSegment(At(a), c, d)
    <2> HIDE DEF K, D, S
    <2> QED BY <1>3, <1>4, <1>5, <1>8 DEF PointOnSegment, K, D, S
  <1> QED BY <1>9, <1>10

\* A covered vertex, in whatever fraction it is written.
LEMMA VertexCovered ==
    ASSUME NEW polygon \in Polygons, NEW a \in Vertices, NEW p \in Points,
           p.x = p.q * a[1], p.y = p.q * a[2], PolygonCoversPoint(polygon, At(a)),
           \A r \in 1..Len(polygon) : ~PointOnRing(polygon[r], p)
    PROVE  PointInPolygon(polygon, p)
  <1>1. ASSUME NEW r \in 1..Len(polygon)
        PROVE  /\ PointOnRing(polygon[r], p) <=> PointOnRing(polygon[r], At(a))
               /\ PointInRing(polygon[r], p) <=> PointInRing(polygon[r], At(a))
    <2>1. polygon[r] \in Rings BY PolygonFacts
    <2>2. \A e \in Edges(polygon[r]) :
             PointOnSegment(p, e[1], e[2]) <=> PointOnSegment(At(a), e[1], e[2])
      BY PolygonFacts, SamePoint
    <2>3. Crossings(polygon[r], p) = Crossings(polygon[r], At(a))
      <3>1. \A i \in 2..Len(polygon[r]) :
               CrossedByRay(p, polygon[r][i - 1], polygon[r][i])
               <=> CrossedByRay(At(a), polygon[r][i - 1], polygon[r][i])
        BY <2>1, RingFacts, SamePoint
      <3> QED BY <3>1 DEF Crossings
    <2> QED BY <2>1, <2>2, <2>3, CrossingsFinite DEF PointOnRing
  <1>2. 1 \in 1..Len(polygon) /\ \A r \in 2..Len(polygon) :
           r \in 1..Len(polygon) /\ \A s \in 2..r : s \in 1..Len(polygon)
    BY PolygonFacts
  <1> QED BY <1>1, <1>2 DEF PolygonCoversPoint, PointInPolygon

\* A point of the segment that is not strictly between its ends is one of them.
LEMMA EndOfSegment ==
    ASSUME NEW a \in Vertices, NEW b \in Vertices, a # b, NEW p \in Points,
           PointOnSegment(p, a, b)
    PROVE  \/ p.x = p.q * a[1] /\ p.y = p.q * a[2]
           \/ p.x = p.q * b[1] /\ p.y = p.q * b[2]
           \/ /\ LessThan(<<0, 1>>, Parameter(p, a, b))
              /\ LessThan(Parameter(p, a, b), <<1, 1>>)
  <1> DEFINE L == Length2(a, b)
             D == Dot(p, a, b)
  <1>1. /\ a[1] \in Int /\ a[2] \in Int /\ b[1] \in Int /\ b[2] \in Int
        /\ p.q \in Int /\ p.q > 0 /\ p.x \in Int /\ p.y \in Int
        /\ L \in Int /\ L > 0 /\ D \in Int
    BY CrossTypes, SegmentTypes
  <1>2. Cross(p, a, b) = 0 /\ 0 <= D /\ D <= p.q * L BY DEF PointOnSegment
  <1>3. /\ (p.x - p.q * a[1]) * L = (b[1] - a[1]) * D
        /\ (p.y - p.q * a[2]) * L = (b[2] - a[2]) * D
    BY <1>2, OnLine
  <1>4. Parameter(p, a, b) = <<D, p.q * L>> BY DEF Parameter
  <1> HIDE DEF L, D
  <1>5. p.q * L \in Int /\ p.q * a[1] \in Int /\ p.q * a[2] \in Int BY <1>1
  <1> DEFINE X == p.x - p.q * a[1]
             Y == p.y - p.q * a[2]
             rx == b[1] - a[1]
             ry == b[2] - a[2]
  <1>9. X \in Int /\ Y \in Int /\ rx \in Int /\ ry \in Int BY <1>1, <1>5
  <1>10. X * L = rx * D /\ Y * L = ry * D BY <1>3
  <1>6. CASE D = 0
    <2>1. X = 0 /\ Y = 0
      <3> HIDE DEF X, Y, rx, ry
      <3>1. \A x \in Int : (x * L = 0 => x = 0) /\ x * 0 = 0 BY <1>1
      <3>2. X * L = rx * 0 /\ Y * L = ry * 0 BY <1>6, <1>10
      <3> QED BY <1>9, <3>1, <3>2
    <2>2. \A x, y \in Int : x - y = 0 => x = y OBVIOUS
    <2>3. p.x = p.q * a[1] /\ p.y = p.q * a[2] BY <1>1, <1>5, <2>1, <2>2
    <2> QED BY <2>3
  <1>7. CASE D = p.q * L
    <2>1. X = rx * p.q /\ Y = ry * p.q
      <3> HIDE DEF X, Y, rx, ry
      <3>1. \A x, y \in Int : x * L = y * L => x = y BY <1>1
      <3>2. \A x \in Int : x * (p.q * L) = (x * p.q) * L /\ x * p.q \in Int BY <1>1
      <3>3. X * L = (rx * p.q) * L /\ Y * L = (ry * p.q) * L BY <1>7, <1>9, <1>10, <3>2
      <3> QED BY <1>9, <3>1, <3>2, <3>3
    <2>2. rx * p.q = p.q * b[1] - p.q * a[1] /\ ry * p.q = p.q * b[2] - p.q * a[2]
      BY <1>1
    <2>3. p.q * b[1] \in Int /\ p.q * b[2] \in Int BY <1>1
    <2>4. \A x, y, z \in Int : x - y = z - y => x = z OBVIOUS
    <2>5. p.x = p.q * b[1] /\ p.y = p.q * b[2] BY <1>1, <1>5, <2>1, <2>2, <2>3, <2>4
    <2> QED BY <2>5
  <1>8. CASE 0 < D /\ D < p.q * L
    <2>1. 0 * (p.q * L) < D * 1 /\ D * 1 < 1 * (p.q * L) BY <1>1, <1>5, <1>8
    <2> QED BY <1>4, <2>1 DEF LessThan
  <1> QED BY <1>1, <1>2, <1>5, <1>6, <1>7, <1>8

\* The last break before a parameter, and the first after it.
LEMMA Neighbours ==
    ASSUME NEW B, IsFiniteSet(B), B \subseteq Fractions, NEW l \in Fractions,
           \E s \in B : LessThan(s, l), \E t \in B : LessThan(l, t)
    PROVE  \E s, t \in B :
              /\ LessThan(s, l) /\ LessThan(l, t)
              /\ \A r \in B : ~LessThan(r, l) \/ ~LessThan(s, r)
              /\ \A r \in B : ~LessThan(l, r) \/ ~LessThan(r, t)
  <1> DEFINE Low == {r \in B : LessThan(r, l)}
             High == {r \in B : LessThan(l, r)}
             Up == {x \in B \X B : LessThan(x[1], x[2])}
             Down == {x \in B \X B : LessThan(x[2], x[1])}
  <1>1. \A x, y, z \in B : LessThan(x, y) /\ LessThan(y, z) => LessThan(x, z)
    BY Ordered
  <1>2. \A x \in B : ~LessThan(x, x) BY Ordered
  <1>3. \A x, y \in B : /\ <<x, y>> \in Up <=> LessThan(x, y)
                        /\ <<x, y>> \in Down <=> LessThan(y, x)
    OBVIOUS
  <1>4. IsFiniteSet(Low) /\ IsFiniteSet(High) BY FS_Subset
  <1>5. Low \subseteq B /\ High \subseteq B /\ Low # {} /\ High # {} OBVIOUS
  <1>6. \E x \in Low : \A y \in Low : <<x, y>> \notin Up
    <2> HIDE DEF Low, High, Up, Down
    <2>1. \A x \in Low : <<x, x>> \notin Up BY <1>2, <1>3, <1>5
    <2>2. \A x, y, z \in Low : <<x, y>> \in Up /\ <<y, z>> \in Up => <<x, z>> \in Up
      BY <1>1, <1>3, <1>5
    <2> QED BY <1>4, <1>5, <2>1, <2>2, LastElement
  <1>7. \E x \in High : \A y \in High : <<x, y>> \notin Down
    <2> HIDE DEF Low, High, Up, Down
    <2>1. \A x \in High : <<x, x>> \notin Down BY <1>2, <1>3, <1>5
    <2>2. \A x, y, z \in High : <<x, y>> \in Down /\ <<y, z>> \in Down => <<x, z>> \in Down
      BY <1>1, <1>3, <1>5
    <2> QED BY <1>4, <1>5, <2>1, <2>2, LastElement
  <1>8. PICK s \in Low : \A y \in Low : <<s, y>> \notin Up BY <1>6
  <1>9. PICK t \in High : \A y \in High : <<t, y>> \notin Down BY <1>7
  <1>10. \A r \in B : LessThan(r, l) => ~LessThan(s, r) BY <1>3, <1>8
  <1>11. \A r \in B : LessThan(l, r) => ~LessThan(r, t) BY <1>3, <1>9
  <1> HIDE DEF Up, Down
  <1> QED BY <1>10, <1>11

\* What missionPolygonCoversSegment is for: it tests two ends and some middles,
\* and yet every point of the segment is inside the polygon or on its edge.
THEOREM CoveredSegment ==
    ASSUME NEW polygon \in Polygons, NoRepeatedVertex(polygon),
           NEW a \in Vertices, NEW b \in Vertices, NEW p \in Points,
           PolygonCoversSegment(polygon, a, b), OnSegment(p, a, b),
           \A r \in 1..Len(polygon) : ~PointOnRing(polygon[r], p)
    PROVE  PointInPolygon(polygon, p)
  <1>1. PolygonCoversPoint(polygon, At(a)) /\ PolygonCoversPoint(polygon, At(b))
    BY DEF PolygonCoversSegment
  <1>2. CASE a = b BY <1>1, <1>2, VertexCovered DEF OnSegment
  <1>3. CASE p.x = p.q * a[1] /\ p.y = p.q * a[2] BY <1>1, <1>3, VertexCovered
  <1>4. CASE p.x = p.q * b[1] /\ p.y = p.q * b[2] BY <1>1, <1>4, VertexCovered
  <1>5. ASSUME a # b, LessThan(<<0, 1>>, Parameter(p, a, b)),
               LessThan(Parameter(p, a, b), <<1, 1>>)
        PROVE  PointInPolygon(polygon, p)
    <2> DEFINE B == Breaks(polygon, a, b)
               l == Parameter(p, a, b)
    <2>1. IsFiniteSet(B) /\ \A t \in B : t \in Fractions /\ InUnit(t)
      BY <1>5, BreaksAreFractions
    <2>2. <<0, 1>> \in B /\ <<1, 1>> \in B BY DEF Breaks
    <2>3. l \in Fractions BY <1>5, SegmentTypes
    <2>4. PointOnSegment(p, a, b) BY DEF OnSegment
    <2>5. ASSUME NEW r \in B PROVE LessThan(r, l) \/ LessThan(l, r)
      <3>1. CASE r \in {<<0, 1>>, <<1, 1>>} BY <1>5, <3>1
      <3>2. ASSUME NEW k \in 1..Len(polygon), NEW e \in Edges(polygon[k]),
                   r \in IntersectionParameters(a, b, e[1], e[2])
            PROVE  LessThan(r, l) \/ LessThan(l, r)
        <4>1. ~PointOnSegment(p, e[1], e[2]) BY DEF PointOnRing
        <4>2. e[1] \in Vertices /\ e[2] \in Vertices BY PolygonFacts
        <4> QED BY <1>5, <2>4, <3>2, <4>1, <4>2, BreakIsOnEdge
      <3> QED BY <1>5, <3>1, <3>2, BreaksAreFractions
    <2>6. \E s, t \in B :
              /\ LessThan(s, l) /\ LessThan(l, t)
              /\ \A r \in B : ~LessThan(r, l) \/ ~LessThan(s, r)
              /\ \A r \in B : ~LessThan(l, r) \/ ~LessThan(r, t)
      <3> HIDE DEF B, l
      <3>1. LessThan(<<0, 1>>, l) /\ LessThan(l, <<1, 1>>) BY <1>5 DEF l
      <3> QED BY <2>1, <2>2, <2>3, <3>1, Neighbours
    <2>7. PICK s \in B, t \in B :
              /\ LessThan(s, l) /\ LessThan(l, t)
              /\ \A r \in B : ~LessThan(r, l) \/ ~LessThan(s, r)
              /\ \A r \in B : ~LessThan(l, r) \/ ~LessThan(r, t)
      BY <2>6
    <2>8. s \in Fractions /\ t \in Fractions /\ InUnit(s) /\ InUnit(t) BY <2>1
    <2>9. ~ \E r \in B : LessThan(s, r) /\ LessThan(r, t)
      <3> HIDE DEF B, l
      <3> QED BY <2>5, <2>7
    <2>10. LessThan(s, t)
      <3> HIDE DEF B, l
      <3> QED BY <2>3, <2>7, <2>8, Ordered
    <2> DEFINE m == Middle(a, b, s, t)
               lm == Parameter(m, a, b)
    <2>11. PolygonCoversPoint(polygon, m)
      <3> HIDE DEF m
      <3>1. \A u, v \in B :
              /\ LessThan(u, v)
              /\ ~ \E r \in B : LessThan(u, r) /\ LessThan(r, v)
              => PolygonCoversPoint(polygon, Middle(a, b, u, v))
        BY DEF PolygonCoversSegment, Breaks
      <3> HIDE DEF B
      <3>2. PolygonCoversPoint(polygon, Middle(a, b, s, t)) BY <2>9, <2>10, <3>1
      <3> QED BY <3>2 DEF m
    <2>12. /\ m \in Points /\ PointOnSegment(m, a, b)
           /\ LessThan(s, lm) /\ LessThan(lm, t)
      <3> HIDE DEF B, l
      <3> QED BY <1>5, <2>8, <2>10, MiddleFacts
    <2>13. lm \in Fractions BY <1>5, <2>12, SegmentTypes
    <2>14. ASSUME NEW x \in B, Between(x, lm, l) PROVE FALSE
      <3> HIDE DEF B, l, lm, m
      <3>1. x \in Fractions BY <2>1
      <3>2. LessThan(s, x)
        <4>1. ~LessThan(x, lm) \/ ~LessThan(x, l) BY <2>14 DEF Between
        <4> QED BY <2>3, <2>7, <2>8, <2>12, <2>13, <3>1, <4>1, Ordered
      <3>3. LessThan(x, t)
        <4>1. ~LessThan(lm, x) \/ ~LessThan(l, x) BY <2>14 DEF Between
        <4> QED BY <2>3, <2>7, <2>8, <2>12, <2>13, <3>1, <4>1, Ordered
      <3> QED BY <2>9, <3>2, <3>3
    <2>15. ASSUME NEW r \in 1..Len(polygon), NEW e \in Edges(polygon[r])
           PROVE  Misses(m, p, a, b, e[1], e[2]) /\ ~PointOnSegment(m, e[1], e[2])
      <3>1. e[1] \in Vertices /\ e[2] \in Vertices /\ e[1] # e[2]
        BY PolygonFacts DEF NoRepeatedVertex
      <3>2. \A x \in IntersectionParameters(a, b, e[1], e[2]) : x \in B
        BY <1>5, BreaksAreFractions
      <3>3. ~PointOnSegment(p, e[1], e[2]) BY DEF PointOnRing
      <3> HIDE DEF B, m
      <3>4. Misses(m, p, a, b, e[1], e[2])
        <4>1. SUFFICES ASSUME ~Misses(m, p, a, b, e[1], e[2]) PROVE FALSE OBVIOUS
        <4>2. \E x \in IntersectionParameters(a, b, e[1], e[2]) : Between(x, lm, l)
          BY <1>5, <2>4, <2>12, <3>1, <4>1, Meets
        <4> QED BY <2>14, <3>2, <4>2
      <3>5. ~PointOnSegment(m, e[1], e[2])
        <4>1. SUFFICES ASSUME PointOnSegment(m, e[1], e[2]) PROVE FALSE OBVIOUS
        <4>2. \E x \in IntersectionParameters(a, b, e[1], e[2]) : Between(x, lm, l)
          BY <1>5, <2>4, <2>12, <3>1, <3>3, <4>1, EdgeEndsBetween
        <4> QED BY <2>14, <3>2, <4>2
      <3> QED BY <3>4, <3>5
    <2> HIDE DEF m
    <2>16. \A r \in 1..Len(polygon) : ~PointOnRing(polygon[r], m)
      BY <2>15 DEF PointOnRing
    <2>17. ASSUME NEW r \in 1..Len(polygon)
           PROVE  PointInRing(polygon[r], m) <=> PointInRing(polygon[r], p)
      <3>1. polygon[r] \in Rings BY PolygonFacts
      <3>2. RingMisses(polygon[r], m, p, a, b)
        <4>1. ASSUME NEW i \in 2..Len(polygon[r])
              PROVE  Misses(m, p, a, b, polygon[r][i - 1], polygon[r][i])
          <5>1. <<polygon[r][i - 1], polygon[r][i]>> \in Edges(polygon[r]) BY DEF Edges
          <5> QED BY <2>15, <5>1
        <4> QED BY <4>1 DEF RingMisses
      <3>3. Cross(m, a, b) = 0 /\ Cross(p, a, b) = 0 BY <2>4, <2>12 DEF PointOnSegment
      <3> QED BY <1>5, <2>12, <3>1, <3>2, <3>3, OneSide
    <2>18. 1 \in 1..Len(polygon) /\ \A r \in 2..Len(polygon) :
             r \in 1..Len(polygon) /\ \A k \in 2..r : k \in 1..Len(polygon)
      BY PolygonFacts
    <2> QED BY <2>11, <2>16, <2>17, <2>18 DEF PolygonCoversPoint, PointInPolygon
  <1>6. a = b \/ (a # b /\ PointOnSegment(p, a, b)) BY DEF OnSegment
  <1> QED BY <1>2, <1>3, <1>4, <1>5, <1>6, EndOfSegment

-----------------------------------------------------------------------------
(* Cells.                                                                   *)

\* The cell of a point.
LEMMA CellOfPoint ==
    ASSUME NEW p \in Points
    PROVE  \E cell \in Vertices : InHalfOpenCell(cell, p)
  <1>1. \A x \in Int, q \in Nat \ {0} :
           x \div q \in Int /\ (x \div q) * q <= x /\ x < (x \div q + 1) * q
    OBVIOUS
  <1>2. p.x \in Int /\ p.y \in Int /\ p.q \in Nat \ {0} BY DEF Points
  <1> DEFINE cell == <<p.x \div p.q, p.y \div p.q>>
  <1>3. cell \in Vertices BY <1>1, <1>2 DEF Vertices
  <1>4. InHalfOpenCell(cell, p) BY <1>1, <1>2 DEF InHalfOpenCell
  <1> QED BY <1>3, <1>4

\* Whether a ray crosses a vertical edge is the same for all points of a cell.
LEMMA CellIsUniform ==
    ASSUME NEW cell \in Vertices, NEW p \in Points, InHalfOpenCell(cell, p),
           NEW c \in Vertices, NEW d \in Vertices, c[1] = d[1] \/ c[2] = d[2]
    PROVE  /\ CrossedByRay(p, c, d) <=>
                 /\ c[1] = d[1] /\ cell[1] < c[1]
                 /\ ~(c[2] > cell[2] <=> d[2] > cell[2])
  <1> DEFINE q == p.q
             i == cell[1]
             j == cell[2]
  <1>1. /\ c[1] \in Int /\ c[2] \in Int /\ d[1] \in Int /\ d[2] \in Int
        /\ i \in Int /\ j \in Int /\ q \in Int /\ q > 0 /\ p.x \in Int /\ p.y \in Int
    BY CrossTypes
  <1>2. i * q <= p.x /\ p.x < (i + 1) * q /\ j * q <= p.y /\ p.y < (j + 1) * q
    BY DEF InHalfOpenCell
  <1> HIDE DEF q, i, j
  <1>3. ASSUME NEW v \in Int PROVE v * q > p.y <=> v > j
    <2>1. v <= j => v * q <= j * q BY <1>1
    <2>2. v >= j + 1 => v * q >= (j + 1) * q BY <1>1
    <2>3. v * q \in Int /\ j * q \in Int /\ (j + 1) * q \in Int BY <1>1
    <2> QED BY <1>1, <1>2, <2>1, <2>2, <2>3
  <1>4. ASSUME NEW v \in Int PROVE p.x < q * v <=> i < v
    <2>1. v <= i => v * q <= i * q BY <1>1
    <2>2. v >= i + 1 => v * q >= (i + 1) * q BY <1>1
    <2>3. v * q \in Int /\ i * q \in Int /\ (i + 1) * q \in Int /\ q * v = v * q BY <1>1
    <2> QED BY <1>1, <1>2, <2>1, <2>2, <2>3
  <1>5. CrossedByRay(p, c, d) <=>
           /\ ~(c[2] > j <=> d[2] > j)
           /\ IF d[2] > c[2] THEN Cross(p, c, d) < 0 ELSE Cross(p, c, d) > 0
    BY <1>1, <1>3 DEF CrossedByRay, q
  <1>6. CASE c[2] = d[2] BY <1>5, <1>6 DEF i, j
  <1>7. CASE c[1] = d[1]
    <2> DEFINE X == p.x - q * c[1]
               Y == d[2] - c[2]
    <2>1. q * c[1] \in Int /\ X \in Int /\ Y \in Int BY <1>1
    <2>2. (p.y - q * c[2]) * (d[1] - c[1]) = 0
      <3>1. d[1] - c[1] = 0 /\ q * c[2] \in Int BY <1>1, <1>7
      <3> QED BY <1>1, <3>1
    <2>3. Cross(p, c, d) = X * Y BY <1>1, <2>1, <2>2 DEF Cross, q
    <2>4. X < 0 <=> i < c[1]
      <3>1. p.x < q * c[1] <=> i < c[1] BY <1>1, <1>4
      <3>2. \A u, w \in Int : u - w < 0 <=> u < w OBVIOUS
      <3> QED BY <1>1, <2>1, <3>1, <3>2
    <2>5. /\ Y > 0 <=> d[2] > c[2]
          /\ ~(c[2] > j <=> d[2] > j) => Y # 0
      BY <1>1
    <2> HIDE DEF X, Y
    <2>6. Y > 0 => (X * Y < 0 <=> X < 0) BY <2>1
    <2>7. Y < 0 => (X * Y > 0 <=> X < 0) BY <2>1
    <2> QED BY <1>5, <1>7, <2>1, <2>3, <2>4, <2>5, <2>6, <2>7 DEF i, j
  <1> QED BY <1>6, <1>7

\* The vertical edges to the right of a cell, in its row.
RightOf(ring, i, j) ==
    {k \in 2..Len(ring) : /\ ring[k - 1][1] = ring[k][1] /\ i < ring[k - 1][1]
                          /\ ~(ring[k - 1][2] > j <=> ring[k][2] > j)}

\* In a cell, counting crossings is counting those edges.
LEMMA CountRightOf ==
    ASSUME NEW ring \in Rings, Rectilinear(ring), NEW cell \in Vertices,
           NEW p \in Points, InHalfOpenCell(cell, p)
    PROVE  PointInRing(ring, p)
           <=> Cardinality(RightOf(ring, cell[1], cell[2])) % 2 = 1
  <1>1. ASSUME NEW k \in 2..Len(ring)
        PROVE  CrossedByRay(p, ring[k - 1], ring[k]) <=>
                 /\ ring[k - 1][1] = ring[k][1] /\ cell[1] < ring[k - 1][1]
                 /\ ~(ring[k - 1][2] > cell[2] <=> ring[k][2] > cell[2])
    <2>1. ring[k - 1] \in Vertices /\ ring[k] \in Vertices BY RingFacts
    <2>2. <<ring[k - 1], ring[k]>> \in Edges(ring) BY DEF Edges
    <2>3. ring[k - 1][1] = ring[k][1] \/ ring[k - 1][2] = ring[k][2]
      BY <2>2 DEF Rectilinear
    <2> QED BY <2>1, <2>3, CellIsUniform
  <1>2. Crossings(ring, p) = RightOf(ring, cell[1], cell[2])
    BY <1>1 DEF Crossings, RightOf
  <1> QED BY <1>2, CrossingsFinite

\* A set of edges of a ring is finite.
LEMMA SubsetsOfEdgesAreFinite ==
    ASSUME NEW ring \in Rings, NEW S \in SUBSET (2..Len(ring))
    PROVE  IsFiniteSet(S) /\ Cardinality(S) \in Nat
  <1>1. IsFiniteSet(2..Len(ring))
    <2>1. Len(ring) \in Int /\ 2 \in Int BY RingFacts
    <2> QED BY <2>1, FS_Interval
  <1>2. IsFiniteSet(S) BY <1>1, FS_Subset
  <1> QED BY <1>2, FS_CardinalityType

\* One column to the left, the walls between the two cells are added.
LEMMA OneColumnLeft ==
    ASSUME NEW ring \in Rings, NEW i \in Int, NEW j \in Int
    PROVE  Cardinality(RightOf(ring, i - 1, j)) % 2 = 1
           <=> ~(Cardinality(RightOf(ring, i, j)) % 2 = 1
                 <=> Cardinality(Walls(ring, i, j)) % 2 = 1)
  <1> DEFINE R == RightOf(ring, i, j)
             W == Walls(ring, i, j)
             Q == RightOf(ring, i - 1, j)
  <1>1. \A k \in 2..Len(ring) : ring[k - 1][1] \in Int /\ ring[k][1] \in Int
    BY RingFacts DEF Vertices
  <1>2. R \cap W = {} BY <1>1 DEF RightOf, Walls
  <1>3. Q = R \cup W
    <2>1. ASSUME NEW k \in 2..Len(ring) PROVE k \in Q <=> k \in R \/ k \in W
      <3>1. i - 1 < ring[k - 1][1] <=> i < ring[k - 1][1] \/ ring[k - 1][1] = i BY <1>1
      <3> QED BY <3>1 DEF RightOf, Walls
    <2>2. R \subseteq 2..Len(ring) /\ W \subseteq 2..Len(ring) /\ Q \subseteq 2..Len(ring)
      BY DEF RightOf, Walls
    <2> HIDE DEF R, W, Q
    <2> QED BY <2>1, <2>2
  <1>4. /\ IsFiniteSet(R) /\ IsFiniteSet(W)
        /\ Cardinality(R) \in Nat /\ Cardinality(W) \in Nat
    <2>1. R \in SUBSET (2..Len(ring)) /\ W \in SUBSET (2..Len(ring)) BY DEF RightOf, Walls
    <2> HIDE DEF R, W
    <2> QED BY <2>1, SubsetsOfEdgesAreFinite
  <1> HIDE DEF R, W, Q
  <1>5. Cardinality(Q) = Cardinality(R) + Cardinality(W)
    <2>1. Cardinality(R \cup W) = Cardinality(R) + Cardinality(W) - Cardinality(R \cap W)
      BY <1>4, FS_Union
    <2>2. Cardinality(R \cap W) = 0 BY <1>2, FS_EmptySet
    <2> QED BY <1>3, <1>4, <2>1, <2>2
  <1>6. \A m, n \in Nat : (m + n) % 2 = 1 <=> ~(m % 2 = 1 <=> n % 2 = 1) OBVIOUS
  <1> QED BY <1>4, <1>5, <1>6 DEF R, W, Q

\* A finite set of integers is bounded.
LEMMA UpperBound ==
    ASSUME NEW S, S \subseteq Int, IsFiniteSet(S)
    PROVE  \E M \in Int : \A x \in S : x <= M
  <1>1. CASE S = {} BY <1>1
  <1>2. CASE S # {}
    <2>1. PICK R : R = {x \in S \X S : x[1] < x[2]} OBVIOUS
    <2>2. \A x, y \in S : <<x, y>> \in R <=> x < y BY <2>1
    <2>3. \A x \in S : <<x, x>> \notin R BY <2>2
    <2>4. \A x, y, z \in S : <<x, y>> \in R /\ <<y, z>> \in R => <<x, z>> \in R BY <2>2
    <2>5. PICK M \in S : \A y \in S : <<M, y>> \notin R BY <1>2, <2>3, <2>4, LastElement
    <2>6. ASSUME NEW y \in S PROVE y <= M
      <3>1. ~(M < y) /\ y \in Int /\ M \in Int BY <2>2, <2>5
      <3> QED BY <3>1
    <2> QED BY <2>6
  <1> QED BY <1>1, <1>2

\* Away from the ring and the region there is neither a wall nor a border.
LEMMA EnclosesEverywhere ==
    ASSUME NEW ring \in Rings, NEW region \in SUBSET Vertices, Encloses(ring, region),
           NEW i \in Int, NEW j \in Int
    PROVE  ~(<<i - 1, j>> \in region <=> <<i, j>> \in region)
           <=> Cardinality(Walls(ring, i, j)) % 2 = 1
  <1> DEFINE columns == Columns(ring, region)
             rows == Rows(ring, region)
  <1>1. ASSUME i \in columns, j \in rows
        PROVE  ~(<<i - 1, j>> \in region <=> <<i, j>> \in region)
               <=> Cardinality(Walls(ring, i, j)) % 2 = 1
    BY <1>1 DEF Encloses
  <1>2. ASSUME NEW k \in Walls(ring, i, j) PROVE i \in columns /\ j \in rows
    <2>1. /\ k \in 2..Len(ring) /\ ring[k - 1][1] = i /\ ring[k][1] = i
          /\ ~(ring[k - 1][2] > j <=> ring[k][2] > j)
      BY DEF Walls
    <2>2. k \in 1..Len(ring) /\ k - 1 \in 1..Len(ring) BY <2>1, RingFacts
    <2>3. ring[k - 1][2] \in Int /\ ring[k][2] \in Int BY <2>2, RingFacts DEF Vertices
    <2>4. j \in ring[k - 1][2]..ring[k][2] \/ j \in ring[k][2]..ring[k - 1][2]
      BY <2>1, <2>3
    <2>5. j \in rows
      <3>1. j \in ring[k - 1][2]..ring[k][2] \cup ring[k][2]..ring[k - 1][2] BY <2>4
      <3> DEFINE between(n) == ring[n - 1][2]..ring[n][2] \cup ring[n][2]..ring[n - 1][2]
      <3>2. rows = {c[2] : c \in region} \cup UNION {between(n) : n \in 2..Len(ring)}
        BY DEF Rows
      <3>3. j \in between(k) BY <3>1
      <3> HIDE DEF between
      <3>4. between(k) \in {between(n) : n \in 2..Len(ring)} BY <2>1
      <3> QED BY <3>2, <3>3, <3>4, Zenon
    <2>6. i \in columns BY <2>1, <2>2 DEF Columns
    <2> QED BY <2>5, <2>6
  <1>3. ASSUME ~(<<i - 1, j>> \in region <=> <<i, j>> \in region)
        PROVE  i \in columns /\ j \in rows
    <2>1. ASSUME NEW c \in region, c = <<i, j>> PROVE i \in columns /\ j \in rows
      <3>1. c[1] = i /\ c[2] = j BY <2>1
      <3>2. c[1] \in {x[1] : x \in region} /\ c[2] \in {x[2] : x \in region} OBVIOUS
      <3>3. j \in rows BY <3>1, <3>2 DEF Rows
      <3>4. i \in columns BY <3>1, <3>2, Zenon DEF Columns
      <3> QED BY <3>3, <3>4
    <2>2. ASSUME NEW c \in region, c = <<i - 1, j>> PROVE i \in columns /\ j \in rows
      <3>1. c[1] + 1 = i /\ c[2] = j BY <2>2
      <3>2. c[1] + 1 \in {x[1] + 1 : x \in region} /\ c[2] \in {x[2] : x \in region}
        OBVIOUS
      <3>3. j \in rows BY <3>1, <3>2 DEF Rows
      <3>4. i \in columns BY <3>1, <3>2, Zenon DEF Columns
      <3> QED BY <3>3, <3>4
    <2> QED BY <1>3, <2>1, <2>2
  <1>4. ASSUME Walls(ring, i, j) = {} PROVE ~(Cardinality(Walls(ring, i, j)) % 2 = 1)
    <2>1. Cardinality(Walls(ring, i, j)) = 0 BY <1>4, FS_EmptySet
    <2> QED BY <2>1
  <1> HIDE DEF columns, rows
  <1> QED BY <1>1, <1>2, <1>3, <1>4

\* The region that a ring encloses, by its borders, is what counting the
\* crossings of a ray finds: from right to left, column by column.
LEMMA RegionIsInside ==
    ASSUME NEW ring \in Rings, NEW region \in SUBSET Vertices, IsFiniteSet(region),
           Encloses(ring, region), NEW i \in Int, NEW j \in Int
    PROVE  Cardinality(RightOf(ring, i, j)) % 2 = 1 <=> <<i, j>> \in region
  <1>1. PICK M \in Int : /\ \A k \in 1..Len(ring) : ring[k][1] <= M
                         /\ \A c \in region : c[1] < M
    <2> DEFINE S == 1..Len(ring)
               T == {ring[k][1] : k \in S}
               f == [k \in S |-> ring[k][1]]
               U == {c[1] : c \in region}
               g == [c \in region |-> c[1]]
    <2>1. IsFiniteSet(S)
      <3>1. Len(ring) \in Int /\ 1 \in Int BY RingFacts
      <3> QED BY <3>1, FS_Interval
    <2>2. /\ f \in [S -> T] /\ \A t \in T : \E k \in S : f[k] = t
          /\ g \in [region -> U] /\ \A t \in U : \E c \in region : g[c] = t
          /\ T \subseteq Int /\ U \subseteq Int
          /\ \A k \in S : ring[k][1] \in T
          /\ \A c \in region : c[1] \in U
      BY RingFacts DEF Vertices
    <2> HIDE DEF S, T, f, U, g
    <2>3. IsFiniteSet(T) /\ IsFiniteSet(U)
      <3>1. f \in [S -> T] /\ \A t \in T : \E k \in S : f[k] = t BY <2>2
      <3>2. g \in [region -> U] /\ \A t \in U : \E c \in region : g[c] = t BY <2>2
      <3>3. IsFiniteSet(T) BY <2>1, <3>1, FiniteImage
      <3>4. IsFiniteSet(U) BY <3>2, FiniteImage
      <3> QED BY <3>3, <3>4
    <2>4. PICK m \in Int : \A x \in T : x <= m BY <2>2, <2>3, UpperBound
    <2>5. PICK n \in Int : \A x \in U : x <= n BY <2>2, <2>3, UpperBound
    <2>6. PICK M \in Int : M >= m /\ M > n
      <3>1. CASE m > n BY <3>1
      <3>2. CASE m <= n
        <4>1. n + 1 \in Int /\ n + 1 >= m /\ n + 1 > n BY <3>2
        <4> QED BY <4>1
      <3> QED BY <3>1, <3>2
    <2>7. \A x \in T : x <= M BY <2>2, <2>4, <2>6
    <2>8. \A x \in U : x < M BY <2>2, <2>5, <2>6
    <2>9. \A k \in S : ring[k][1] <= M BY <2>2, <2>7
    <2>10. \A c \in region : c[1] < M BY <2>2, <2>8
    <2> QED BY <2>9, <2>10 DEF S
  <1> DEFINE Odd(x) == Cardinality(RightOf(ring, x, j)) % 2 = 1
             Holds(x) == Odd(x) <=> <<x, j>> \in region
  <1>2. ASSUME NEW x \in Int, x >= M PROVE Holds(x)
    <2>1. RightOf(ring, x, j) = {}
      <3>1. ASSUME NEW k \in RightOf(ring, x, j) PROVE FALSE
        <4>1. k \in 2..Len(ring) /\ x < ring[k - 1][1] BY DEF RightOf
        <4>2. k - 1 \in 1..Len(ring) BY <4>1, RingFacts
        <4>3. ring[k - 1][1] \in Int /\ ring[k - 1][1] <= M
          BY <1>1, <4>2, RingFacts DEF Vertices
        <4> QED BY <1>2, <4>1, <4>3
      <3> QED BY <3>1
    <2>2. Cardinality(RightOf(ring, x, j)) = 0 BY <2>1, FS_EmptySet
    <2>3. ~Odd(x) BY <2>2
    <2>4. <<x, j>> \notin region
      <3>1. <<x, j>>[1] = x OBVIOUS
      <3> QED BY <1>1, <1>2, <3>1
    <2> QED BY <2>3, <2>4
  <1>3. ASSUME NEW x \in Int, Holds(x) PROVE Holds(x - 1)
    <2>1. Odd(x - 1) <=> ~(Odd(x) <=> Cardinality(Walls(ring, x, j)) % 2 = 1)
      BY OneColumnLeft
    <2>2. ~(<<x - 1, j>> \in region <=> <<x, j>> \in region)
           <=> Cardinality(Walls(ring, x, j)) % 2 = 1
      BY EnclosesEverywhere
    <2> HIDE DEF Odd
    <2> QED BY <1>3, <2>1, <2>2
  <1> HIDE DEF Holds
  <1>4. Holds(i)
    <2>1. CASE i >= M BY <1>2, <2>1
    <2>2. CASE i < M
      <3>1. PICK P : P = {n \in Nat : Holds(M - n)} OBVIOUS
      <3>2. PICK l \in Nat : l = M - i BY <2>2
      <3>3. 0 \in P
        <4>1. M - 0 = M /\ M >= M OBVIOUS
        <4>2. Holds(M - 0) BY <1>2, <4>1
        <4> QED BY <3>1, <4>2
      <3>4. ASSUME NEW n \in 0..(l - 1), n \in P PROVE n + 1 \in P
        <4>1. Holds(M - n) /\ n \in Nat /\ M - n \in Int BY <3>1, <3>4
        <4>2. (M - n) - 1 = M - (n + 1) /\ n + 1 \in Nat BY <4>1
        <4>3. Holds((M - n) - 1) BY <1>3, <4>1
        <4>4. Holds(M - (n + 1)) BY <4>2, <4>3
        <4> QED BY <3>1, <4>2, <4>4
      <3>5. l \in P BY <3>2, <3>3, <3>4, FromStart
      <3>6. M - l = i BY <3>2
      <3> QED BY <3>1, <3>5, <3>6
    <2> QED BY <2>1, <2>2
  <1> QED BY <1>4 DEF Holds, Odd

\* pointInGeoJSONPolygon decides for the cells of the exterior ring that are in
\* no hole, each with its left and lower edge.
THEOREM InsideIsFootprint ==
    ASSUME NEW polygon \in Polygons, NEW cells, Drawn(polygon, cells), NEW p \in Points
    PROVE  PointInPolygon(polygon, p)
           <=> \E c \in Footprint(polygon, cells) : InHalfOpenCell(c, p)
  <1>1. ASSUME NEW c \in Vertices, InHalfOpenCell(c, p), NEW r \in 1..Len(polygon)
        PROVE  PointInRing(polygon[r], p) <=> c \in cells[r]
    <2>1. polygon[r] \in Rings BY PolygonFacts
    <2>2. /\ Rectilinear(polygon[r]) /\ cells[r] \in SUBSET Vertices
          /\ IsFiniteSet(cells[r]) /\ Encloses(polygon[r], cells[r])
      BY DEF Drawn, Vertices
    <2>3. c = <<c[1], c[2]>> /\ c[1] \in Int /\ c[2] \in Int BY DEF Vertices
    <2>4. PointInRing(polygon[r], p) <=> Cardinality(RightOf(polygon[r], c[1], c[2])) % 2 = 1
      BY <1>1, <2>1, <2>2, CountRightOf
    <2>5. Cardinality(RightOf(polygon[r], c[1], c[2])) % 2 = 1 <=> <<c[1], c[2]>> \in cells[r]
      BY <2>1, <2>2, <2>3, RegionIsInside
    <2> QED BY <2>3, <2>4, <2>5
  <1>2. 1 \in 1..Len(polygon) /\ \A r \in 2..Len(polygon) : r \in 1..Len(polygon)
    BY PolygonFacts
  <1>3. ASSUME NEW c \in Vertices, InHalfOpenCell(c, p)
        PROVE  PointInPolygon(polygon, p) <=> c \in Footprint(polygon, cells)
    BY <1>1, <1>2, <1>3 DEF PointInPolygon, Footprint
  <1>4. Footprint(polygon, cells) \subseteq Vertices BY <1>2 DEF Footprint, Drawn, Vertices
  <1> QED BY <1>3, <1>4, CellOfPoint

\* A number between two multiples of q is in a unit of them.
LEMMA UnitOf ==
    ASSUME NEW v \in Int, NEW w \in Int, NEW q \in Int, q > 0, NEW z \in Int,
           \/ v < w /\ q * v <= z /\ z <= q * w
           \/ w < v /\ q * w <= z /\ z <= q * v
    PROVE  \E y \in Stretch(v, w) : y * q <= z /\ z <= (y + 1) * q
  <1>1. ASSUME NEW lo \in Int, NEW hi \in Int, lo < hi, q * lo <= z, z <= q * hi
        PROVE  \E y \in lo..(hi - 1) : y * q <= z /\ z <= (y + 1) * q
    <2>1. PICK j \in Int : j * q <= z /\ z < (j + 1) * q
      <3>1. q \in Nat \ {0} OBVIOUS
      <3>2. z \div q \in Int /\ (z \div q) * q <= z /\ z < (z \div q + 1) * q BY <3>1
      <3> QED BY <3>2
    <2>2. j >= lo
      <3>1. j + 1 <= lo => (j + 1) * q <= lo * q OBVIOUS
      <3>2. lo * q = q * lo /\ q * lo \in Int /\ (j + 1) * q \in Int OBVIOUS
      <3> QED BY <1>1, <2>1, <3>1, <3>2
    <2>3. CASE j < hi
      <3>1. j \in lo..(hi - 1) /\ (j + 1) * q \in Int BY <2>2, <2>3
      <3> QED BY <2>1, <3>1
    <2>4. CASE j >= hi
      <3>1. hi * q <= j * q /\ hi * q = q * hi /\ q * hi \in Int /\ j * q \in Int BY <2>4
      <3>2. z = hi * q BY <1>1, <2>1, <3>1
      <3>3. (hi - 1) + 1 = hi /\ (hi - 1) * q <= hi * q /\ hi - 1 \in lo..(hi - 1) BY <1>1
      <3>4. hi * q <= hi * q BY <3>1
      <3> QED BY <3>2, <3>3, <3>4
    <2> QED BY <2>3, <2>4
  <1> QED BY <1>1 DEF Stretch

\* Along one coordinate, a point of an edge is between its ends.
LEMMA BetweenEnds ==
    ASSUME NEW v \in Int, NEW w \in Int, v # w, NEW q \in Int, q > 0, NEW z \in Int,
           (z - q * v) * (w - v) >= 0,
           (z - q * v) * (w - v) <= q * ((w - v) * (w - v))
    PROVE  \/ v < w /\ q * v <= z /\ z <= q * w
           \/ w < v /\ q * w <= z /\ z <= q * v
  <1> DEFINE Y == w - v
             Z == z - q * v
  <1>1. Y \in Int /\ Y # 0 /\ q * v \in Int /\ q * w \in Int /\ Z \in Int OBVIOUS
  <1>2. q * Y = q * w - q * v OBVIOUS
  <1>3. q * (Y * Y) = (q * Y) * Y BY <1>1
  <1>4. Z * Y >= 0 /\ Z * Y <= (q * Y) * Y BY <1>3
  <1>5. (Y > 0 <=> v < w) /\ (Y < 0 <=> w < v) OBVIOUS
  <1>6. q * Y \in Int BY <1>1
  <1>7. PICK T \in Int : T = q * Y BY <1>6
  <1>8. Z * Y >= 0 /\ Z * Y <= T * Y BY <1>4, <1>7
  <1>9. (Y > 0 => 0 <= Z /\ Z <= T) /\ (Y < 0 => Z <= 0 /\ T <= Z)
    <2> HIDE DEF Y, Z
    <2>1. Y > 0 => 0 <= Z BY <1>1, <1>8
    <2>2. Y < 0 => Z <= 0 BY <1>1, <1>8
    <2>3. PICK U \in Int : U = T - Z BY <1>1
    <2>4. T * Y - Z * Y = U * Y /\ T * Y \in Int /\ Z * Y \in Int BY <1>1, <2>3
    <2>5. U * Y >= 0 BY <1>8, <2>4
    <2>6. (Y > 0 => U >= 0) /\ (Y < 0 => U <= 0) BY <1>1, <2>5
    <2> QED BY <1>1, <2>1, <2>2, <2>3, <2>6
  <1>10. CASE Y > 0
    <2>1. 0 <= z - q * v /\ z - q * v <= q * w - q * v BY <1>2, <1>7, <1>9, <1>10
    <2>2. \A x, y, t \in Int : 0 <= x - y /\ x - y <= t - y => y <= x /\ x <= t OBVIOUS
    <2>3. q * v <= z /\ z <= q * w BY <1>1, <2>1, <2>2
    <2> QED BY <1>5, <1>10, <2>3
  <1>11. CASE Y < 0
    <2>1. z - q * v <= 0 /\ q * w - q * v <= z - q * v BY <1>2, <1>7, <1>9, <1>11
    <2>2. \A x, y, t \in Int : x - y <= 0 /\ t - y <= x - y => x <= y /\ t <= x OBVIOUS
    <2>3. z <= q * v /\ q * w <= z BY <1>1, <2>1, <2>2
    <2> QED BY <1>5, <1>11, <2>3
  <1> QED BY <1>1, <1>10, <1>11

\* A point of a vertical or horizontal edge is at its coordinate and in one of
\* its units.
LEMMA OnRectilinearEdge ==
    ASSUME NEW c \in Vertices, NEW d \in Vertices, c # d, NEW p \in Points,
           PointOnSegment(p, c, d)
    PROVE  /\ c[1] = d[1] =>
                 /\ p.x = p.q * c[1]
                 /\ \E y \in Stretch(c[2], d[2]) : y * p.q <= p.y /\ p.y <= (y + 1) * p.q
           /\ c[2] = d[2] =>
                 /\ p.y = p.q * c[2]
                 /\ \E x \in Stretch(c[1], d[1]) : x * p.q <= p.x /\ p.x <= (x + 1) * p.q
  <1> DEFINE q == p.q
             X == p.x - q * c[1]
             Y == p.y - q * c[2]
             rx == d[1] - c[1]
             ry == d[2] - c[2]
  <1>1. /\ c[1] \in Int /\ c[2] \in Int /\ d[1] \in Int /\ d[2] \in Int
        /\ q \in Int /\ q > 0 /\ p.x \in Int /\ p.y \in Int
        /\ c = <<c[1], c[2]>> /\ d = <<d[1], d[2]>>
    BY CrossTypes DEF Vertices
  <1>2. q * c[1] \in Int /\ q * c[2] \in Int BY <1>1
  <1>3. X \in Int /\ Y \in Int /\ rx \in Int /\ ry \in Int BY <1>1, <1>2
  <1>4. /\ X * ry - Y * rx = 0
        /\ X * rx + Y * ry >= 0
        /\ X * rx + Y * ry <= q * (rx * rx + ry * ry)
    BY DEF PointOnSegment, Cross, Dot, Length2
  <1>5. \A x, y \in Int : x - y = 0 => x = y OBVIOUS
  <1>6. ASSUME c[1] = d[1]
        PROVE  /\ p.x = p.q * c[1]
               /\ \E y \in Stretch(c[2], d[2]) : y * p.q <= p.y /\ p.y <= (y + 1) * p.q
    <2>1. rx = 0 /\ ry # 0 BY <1>1, <1>6
    <2>2. X = 0 /\ Y * ry >= 0 /\ Y * ry <= q * (ry * ry)
      <3> HIDE DEF X, Y, rx, ry, q
      <3>1. X * rx = 0 /\ Y * rx = 0 /\ rx * rx = 0 BY <1>3, <2>1
      <3>2. X * ry = 0 /\ X * ry \in Int /\ Y * ry \in Int BY <1>3, <1>4, <3>1
      <3>3. X = 0 BY <1>3, <2>1, <3>2
      <3>4. ry * ry \in Int /\ 0 + ry * ry = ry * ry /\ 0 + Y * ry = Y * ry BY <1>3, <3>2
      <3> QED BY <1>4, <3>1, <3>3, <3>4
    <2>3. p.x = q * c[1] BY <1>1, <1>2, <1>5, <2>2
    <2>4. c[2] # d[2] BY <1>1, <1>6
    <2>5. \/ c[2] < d[2] /\ q * c[2] <= p.y /\ p.y <= q * d[2]
          \/ d[2] < c[2] /\ q * d[2] <= p.y /\ p.y <= q * c[2]
      <3>1. /\ (p.y - q * c[2]) * (d[2] - c[2]) >= 0
            /\ (p.y - q * c[2]) * (d[2] - c[2]) <= q * ((d[2] - c[2]) * (d[2] - c[2]))
        BY <2>2
      <3> HIDE DEF q
      <3> QED BY <1>1, <2>4, <3>1, BetweenEnds
    <2>6. \E y \in Stretch(c[2], d[2]) : y * q <= p.y /\ p.y <= (y + 1) * q
      <3> HIDE DEF q
      <3> QED BY <1>1, <2>5, UnitOf
    <2> QED BY <2>3, <2>6
  <1>7. ASSUME c[2] = d[2]
        PROVE  /\ p.y = p.q * c[2]
               /\ \E x \in Stretch(c[1], d[1]) : x * p.q <= p.x /\ p.x <= (x + 1) * p.q
    <2>1. ry = 0 /\ rx # 0 BY <1>1, <1>7
    <2>2. Y = 0 /\ X * rx >= 0 /\ X * rx <= q * (rx * rx)
      <3> HIDE DEF X, Y, rx, ry, q
      <3>1. X * ry = 0 /\ Y * ry = 0 /\ ry * ry = 0 BY <1>3, <2>1
      <3>2. Y * rx = 0 /\ X * rx \in Int /\ Y * rx \in Int BY <1>3, <1>4, <3>1
      <3>3. Y = 0 BY <1>3, <2>1, <3>2
      <3>4. rx * rx \in Int /\ rx * rx + 0 = rx * rx /\ X * rx + 0 = X * rx BY <1>3, <3>2
      <3> QED BY <1>4, <3>1, <3>3, <3>4
    <2>3. p.y = q * c[2] BY <1>1, <1>2, <1>5, <2>2
    <2>4. c[1] # d[1] BY <1>1, <1>7
    <2>5. \/ c[1] < d[1] /\ q * c[1] <= p.x /\ p.x <= q * d[1]
          \/ d[1] < c[1] /\ q * d[1] <= p.x /\ p.x <= q * c[1]
      <3>1. /\ (p.x - q * c[1]) * (d[1] - c[1]) >= 0
            /\ (p.x - q * c[1]) * (d[1] - c[1]) <= q * ((d[1] - c[1]) * (d[1] - c[1]))
        BY <2>2
      <3> HIDE DEF q
      <3> QED BY <1>1, <2>4, <3>1, BetweenEnds
    <2>6. \E x \in Stretch(c[1], d[1]) : x * q <= p.x /\ p.x <= (x + 1) * q
      <3> HIDE DEF q
      <3> QED BY <1>1, <2>5, UnitOf
    <2> QED BY <2>3, <2>6
  <1> QED BY <1>6, <1>7

\* A multiple of q is at the end of one unit and the start of the next.
LEMMA EitherSide ==
    ASSUME NEW v \in Int, NEW q \in Int, q > 0, NEW x \in {v - 1, v}
    PROVE  x \in Int /\ x * q <= q * v /\ q * v <= (x + 1) * q
  <1>1. v * q = q * v /\ q * v \in Int OBVIOUS
  <1>2. (v - 1) * q <= v * q /\ v * q <= (v + 1) * q /\ (v - 1) + 1 = v OBVIOUS
  <1>3. CASE x = v BY <1>1, <1>2, <1>3
  <1>4. CASE x = v - 1 BY <1>1, <1>2, <1>4
  <1> QED BY <1>3, <1>4

\* A point on a ring is in a cell of the footprint.
LEMMA EdgeInCells ==
    ASSUME NEW polygon \in Polygons, NoRepeatedVertex(polygon), NEW cells,
           Drawn(polygon, cells), Bordered(polygon, cells), NEW p \in Points,
           NEW r \in 1..Len(polygon), PointOnRing(polygon[r], p)
    PROVE  \E cell \in Footprint(polygon, cells) : InCell(cell, p)
  <1>1. PICK e \in Edges(polygon[r]) : PointOnSegment(p, e[1], e[2]) BY DEF PointOnRing
  <1> DEFINE c == e[1]
             d == e[2]
             F == Footprint(polygon, cells)
  <1>2. c \in Vertices /\ d \in Vertices /\ c # d
    BY PolygonFacts DEF NoRepeatedVertex
  <1>3. p.q \in Int /\ p.q > 0 /\ p.x \in Int /\ p.y \in Int /\ c[1] \in Int /\ c[2] \in Int
    BY <1>2, CrossTypes
  <1>4. /\ c[1] = d[1] => \A y \in Stretch(c[2], d[2]) : \E x \in {c[1] - 1, c[1]} : <<x, y>> \in F
        /\ c[2] = d[2] => \A x \in Stretch(c[1], d[1]) : \E y \in {c[2] - 1, c[2]} : <<x, y>> \in F
    BY DEF Bordered
  <1>5. c[1] = d[1] \/ c[2] = d[2] BY DEF Drawn, Rectilinear
  <1>6. /\ c[1] = d[1] =>
              /\ p.x = p.q * c[1]
              /\ \E y \in Stretch(c[2], d[2]) : y * p.q <= p.y /\ p.y <= (y + 1) * p.q
        /\ c[2] = d[2] =>
              /\ p.y = p.q * c[2]
              /\ \E x \in Stretch(c[1], d[1]) : x * p.q <= p.x /\ p.x <= (x + 1) * p.q
    <2> HIDE DEF c, d
    <2> QED BY <1>1, <1>2, OnRectilinearEdge DEF c, d
  <1> HIDE DEF c, d, F
  <1>7. CASE c[1] = d[1]
    <2>1. PICK y \in Stretch(c[2], d[2]) : y * p.q <= p.y /\ p.y <= (y + 1) * p.q
      BY <1>6, <1>7
    <2>2. PICK x \in {c[1] - 1, c[1]} : <<x, y>> \in F BY <1>4, <1>7, <2>1
    <2>3. x * p.q <= p.q * c[1] /\ p.q * c[1] <= (x + 1) * p.q BY <1>3, EitherSide
    <2>4. InCell(<<x, y>>, p) BY <1>6, <1>7, <2>1, <2>3 DEF InCell
    <2> QED BY <2>2, <2>4 DEF F
  <1>8. CASE c[2] = d[2]
    <2>1. PICK x \in Stretch(c[1], d[1]) : x * p.q <= p.x /\ p.x <= (x + 1) * p.q
      BY <1>6, <1>8
    <2>2. PICK y \in {c[2] - 1, c[2]} : <<x, y>> \in F BY <1>4, <1>8, <2>1
    <2>3. y * p.q <= p.q * c[2] /\ p.q * c[2] <= (y + 1) * p.q BY <1>3, EitherSide
    <2>4. InCell(<<x, y>>, p) BY <1>6, <1>8, <2>1, <2>3 DEF InCell
    <2> QED BY <2>2, <2>4 DEF F
  <1> QED BY <1>5, <1>7, <1>8

\* A point inside is in a cell of the footprint.
LEMMA InsideInCells ==
    ASSUME NEW polygon \in Polygons, NEW cells, Drawn(polygon, cells), NEW p \in Points,
           PointInPolygon(polygon, p)
    PROVE  \E cell \in Footprint(polygon, cells) : InCell(cell, p)
  <1>1. PICK c \in Footprint(polygon, cells) : InHalfOpenCell(c, p) BY InsideIsFootprint
  <1>2. c \in Vertices
    <2>1. 1 \in 1..Len(polygon) BY PolygonFacts
    <2> QED BY <2>1 DEF Footprint, Drawn
  <1>3. p.q \in Int /\ p.x \in Int /\ p.y \in Int /\ c[1] \in Int /\ c[2] \in Int
    BY <1>2, CrossTypes
  <1>4. (c[1] + 1) * p.q \in Int /\ (c[2] + 1) * p.q \in Int BY <1>3
  <1>5. InCell(c, p) BY <1>1, <1>3, <1>4 DEF InCell, InHalfOpenCell
  <1> QED BY <1>5

\* A covered vertex is in the cells.
LEMMA CoveredPointInCells ==
    ASSUME NEW polygon \in Polygons, NoRepeatedVertex(polygon), NEW cells,
           Drawn(polygon, cells), Bordered(polygon, cells),
           NEW a \in Vertices, PolygonCoversPoint(polygon, At(a))
    PROVE  \E cell \in Footprint(polygon, cells) : InCell(cell, At(a))
  <1> DEFINE p == At(a)
  <1>1. p \in Points /\ a[1] \in Int /\ a[2] \in Int BY DEF At, Points, Vertices
  <1>2. p.x = p.q * a[1] /\ p.y = p.q * a[2]
    <2>1. p.x = a[1] /\ p.y = a[2] /\ p.q = 1 BY DEF At
    <2>2. 1 * a[1] = a[1] /\ 1 * a[2] = a[2] BY <1>1
    <2> HIDE DEF p
    <2> QED BY <2>1, <2>2
  <1>3. CASE \E r \in 1..Len(polygon) : PointOnRing(polygon[r], p)
    BY <1>1, <1>3, EdgeInCells
  <1>4. CASE \A r \in 1..Len(polygon) : ~PointOnRing(polygon[r], p)
    <2>1. PointInPolygon(polygon, p)
      <3> HIDE DEF p
      <3>1. PolygonCoversPoint(polygon, At(a)) OBVIOUS
      <3> QED BY <1>1, <1>2, <1>4, <3>1, VertexCovered
    <2> QED BY <1>1, <2>1, InsideInCells
  <1> QED BY <1>3, <1>4

\* A covered segment is in the cells at every one of its points.
THEOREM CoveredSegmentInCells ==
    ASSUME NEW polygon \in Polygons, NoRepeatedVertex(polygon), NEW cells,
           Drawn(polygon, cells), Bordered(polygon, cells),
           NEW a \in Vertices, NEW b \in Vertices, NEW p \in Points,
           PolygonCoversSegment(polygon, a, b), OnSegment(p, a, b)
    PROVE  \E cell \in Footprint(polygon, cells) : InCell(cell, p)
  <1>1. CASE \E r \in 1..Len(polygon) : PointOnRing(polygon[r], p) BY <1>1, EdgeInCells
  <1>2. CASE \A r \in 1..Len(polygon) : ~PointOnRing(polygon[r], p)
    <2>1. PointInPolygon(polygon, p) BY <1>2, CoveredSegment
    <2> QED BY <2>1, InsideInCells
  <1> QED BY <1>1, <1>2

\* The points at which StaysInCells looks are points of the segment.
LEMMA AlongIsOnSegment ==
    ASSUME NEW a \in Vertices, NEW b \in Vertices, NEW n \in Nat \ {0}, NEW k \in 0..n
    PROVE  Along(a, b, k, n) \in Points /\ OnSegment(Along(a, b, k, n), a, b)
  <1> DEFINE p == Along(a, b, k, n)
             rx == b[1] - a[1]
             ry == b[2] - a[2]
  <1>1. /\ a[1] \in Int /\ a[2] \in Int /\ b[1] \in Int /\ b[2] \in Int
        /\ k \in Int /\ n \in Int /\ 0 <= k /\ k <= n
    BY DEF Vertices
  <1>2. rx \in Int /\ ry \in Int BY <1>1
  <1>3. /\ p = [x |-> a[1] * n + rx * k, y |-> a[2] * n + ry * k, q |-> n]
        /\ p.x = a[1] * n + rx * k /\ p.y = a[2] * n + ry * k /\ p.q = n
    BY DEF Along
  <1> HIDE DEF p, rx, ry
  <1>4. /\ a[1] * n \in Int /\ a[2] * n \in Int /\ rx * k \in Int /\ ry * k \in Int
        /\ a[1] * n = n * a[1] /\ a[2] * n = n * a[2]
    BY <1>1, <1>2
  <1>5. p \in Points BY <1>3, <1>4 DEF Points
  <1>6. p.x - p.q * a[1] = rx * k /\ p.y - p.q * a[2] = ry * k BY <1>3, <1>4
  <1>7. Cross(p, a, b) = 0
    <2>1. Cross(p, a, b) = (rx * k) * ry - (ry * k) * rx BY <1>6 DEF Cross, rx, ry
    <2> QED BY <1>1, <1>2, <2>1
  <1> DEFINE L == rx * rx + ry * ry
  <1>8. Length2(a, b) = L /\ L \in Int /\ L >= 0
    <2>1. rx * rx >= 0 /\ ry * ry >= 0 BY <1>2
    <2> QED BY <1>2, <2>1 DEF Length2, rx, ry
  <1>9. Dot(p, a, b) = k * L
    <2>1. Dot(p, a, b) = (rx * k) * rx + (ry * k) * ry BY <1>6 DEF Dot, rx, ry
    <2> QED BY <1>1, <1>2, <2>1
  <1> HIDE DEF L
  <1>10. 0 <= k * L /\ k * L <= n * L BY <1>1, <1>8
  <1>11. PointOnSegment(p, a, b) BY <1>3, <1>7, <1>8, <1>9, <1>10 DEF PointOnSegment
  <1>12. ASSUME a = b PROVE p.x = p.q * a[1] /\ p.y = p.q * a[2]
    <2>1. rx = 0 /\ ry = 0 BY <1>1, <1>12 DEF rx, ry
    <2>2. rx * k = 0 /\ ry * k = 0 BY <1>1, <2>1
    <2> QED BY <1>3, <1>4, <2>2
  <1> QED BY <1>5, <1>11, <1>12 DEF p, OnSegment

=============================================================================
