------------------------------ MODULE Geometry ------------------------------
(***************************************************************************)
(* The plane geometry of the service: whether a GeoJSON polygon holds a    *)
(* telemetry point (conformance_service.go) and whether it covers a route  *)
(* of mission items (memory/spatial.go, the in-memory double of ST_Covers).*)
(*                                                                         *)
(* Vertices of rings and routes lie on an integer grid.  The points in     *)
(* between, which the algorithms compute, are exact fractions               *)
(* [x, y, q] = (x/q, y/q) with q > 0, so that the code's tolerances of     *)
(* 1e-10 and 1e-12 become comparisons with zero.  A ring is a closed       *)
(* sequence of vertices, a polygon a sequence of rings whose first is the  *)
(* exterior and whose others are holes.                                    *)
(*                                                                         *)
(* The reference is independent of all this: the region that a ring of     *)
(* vertical and horizontal edges encloses is a set of unit cells, each     *)
(* named by its lower left corner, whose border is the ring.               *)
(*                                                                         *)
(* Definitions whose comment starts with "Wrong:" are not used by the      *)
(* specifications; each is a plausible mistake in the one that follows it. *)
(***************************************************************************)
EXTENDS Integers, Sequences, FiniteSets

\* Vertices and points; a vertex as a point.
Vertices == Int \X Int
Points == [x : Int, y : Int, q : Nat \ {0}]
At(v) == [x |-> v[1], y |-> v[2], q |-> 1]

\* decodeMissionPolygon and geoJSONBounds refuse anything but polygons whose
\* rings have four or more positions and end where they start.
Closed(ring) == Len(ring) >= 4 /\ ring[1] = ring[Len(ring)]
WellFormed(polygon) ==
    Len(polygon) > 0 /\ \A r \in 1..Len(polygon) : Closed(polygon[r])

Edges(ring) == {<<ring[i - 1], ring[i]>> : i \in 2..Len(ring)}

\* Cross and dot product, times q, of a -> p with a -> b.
Cross(p, a, b) ==
    (p.x - p.q * a[1]) * (b[2] - a[2]) - (p.y - p.q * a[2]) * (b[1] - a[1])
Dot(p, a, b) ==
    (p.x - p.q * a[1]) * (b[1] - a[1]) + (p.y - p.q * a[2]) * (b[2] - a[2])
Length2(a, b) == (b[1] - a[1]) * (b[1] - a[1]) + (b[2] - a[2]) * (b[2] - a[2])

\* missionPointOnSegment: on the line, and neither before a nor behind b.
PointOnSegment(p, a, b) ==
    /\ Cross(p, a, b) = 0
    /\ Dot(p, a, b) >= 0
    /\ Dot(p, a, b) <= p.q * Length2(a, b)

PointOnRing(ring, p) == \E e \in Edges(ring) : PointOnSegment(p, e[1], e[2])

\* Wrong: an end at the height of p is above it for one edge and below it for
\* the next.
CrossedByClosedRay(p, a, b) ==
    /\ (a[2] * p.q >= p.y) # (b[2] * p.q > p.y)
    /\ IF b[2] > a[2] THEN Cross(p, a, b) < 0 ELSE Cross(p, a, b) > 0

\* The ray from p to the right crosses the edge: one end above p, the other
\* not, and p left of the edge.
CrossedByRay(p, a, b) ==
    LET above(v) == v[2] * p.q > p.y
    IN  /\ above(a) # above(b)
        /\ IF b[2] > a[2] THEN Cross(p, a, b) < 0 ELSE Cross(p, a, b) > 0

\* pointInRing and missionPointStrictlyInRing: an odd number of crossings.
\* Of the points on the ring, the left and lower ones count as inside.
PointInRing(ring, p) ==
    Cardinality({i \in 2..Len(ring) : CrossedByRay(p, ring[i - 1], ring[i])})
        % 2 = 1

\* pointInGeoJSONPolygon: in the exterior ring and in no hole.
PointInPolygon(polygon, p) ==
    /\ PointInRing(polygon[1], p)
    /\ \A r \in 2..Len(polygon) : ~PointInRing(polygon[r], p)

-----------------------------------------------------------------------------
(* Mission coverage.                                                       *)

\* missionPolygonCoversPoint: the exterior ring and what it encloses, without
\* the inside of the holes.  The first hole that the point is on decides.
PolygonCoversPoint(polygon, p) ==
    /\ PointOnRing(polygon[1], p) \/ PointInRing(polygon[1], p)
    /\ \A r \in 2..Len(polygon) :
          \/ ~PointInRing(polygon[r], p)
          \/ \E s \in 2..r : PointOnRing(polygon[s], p)

\* Fractions <<n, d>> with d > 0, for the parameters along a segment.
Fraction(n, d) == IF d > 0 THEN <<n, d>> ELSE <<-n, -d>>
LessThan(s, t) == s[1] * t[2] < t[1] * s[2]
InUnit(t) == t[1] >= 0 /\ t[1] <= t[2]

\* missionSegmentIntersectionParameters: where, between 0 and 1, the segment
\* from a to b meets the one from c to d; for collinear segments the
\* parameters of c and d.
IntersectionParameters(a, b, c, d) ==
    LET rx == b[1] - a[1]
        ry == b[2] - a[2]
        sx == d[1] - c[1]
        sy == d[2] - c[2]
        denominator == rx * sy - ry * sx
        numerator == (c[1] - a[1]) * ry - (c[2] - a[2]) * rx
        t == Fraction((c[1] - a[1]) * sy - (c[2] - a[2]) * sx, denominator)
        u == Fraction(numerator, denominator)
    IN  CASE denominator # 0 -> {v \in {t} : InUnit(t) /\ InUnit(u)}
          [] denominator = 0 /\ numerator = 0 /\ Length2(a, b) # 0 ->
                {v \in {<<Dot(At(e), a, b), Length2(a, b)>> : e \in {c, d}} :
                    InUnit(v)}
          [] OTHER -> {}

\* The point of the segment halfway between the parameters s and t.
Middle(a, b, s, t) ==
    LET n == s[1] * t[2] + t[1] * s[2]
        q == 2 * s[2] * t[2]
    IN  [x |-> a[1] * q + (b[1] - a[1]) * n,
         y |-> a[2] * q + (b[2] - a[2]) * n, q |-> q]

\* Wrong: a segment is covered when its ends are.
PolygonCoversEnds(polygon, a, b) ==
    PolygonCoversPoint(polygon, At(a)) /\ PolygonCoversPoint(polygon, At(b))

\* missionPolygonCoversSegment: both ends, and the middle of every stretch
\* between neighbouring intersections with the rings.  (The code also tests
\* the intersections that it finds twice; those are vertices of a ring.)
PolygonCoversSegment(polygon, a, b) ==
    LET breaks == {<<0, 1>>, <<1, 1>>} \cup
                  UNION {IntersectionParameters(a, b, e[1], e[2]) :
                           e \in UNION {Edges(polygon[r]) :
                                          r \in 1..Len(polygon)}}
    IN  /\ PolygonCoversPoint(polygon, At(a))
        /\ PolygonCoversPoint(polygon, At(b))
        /\ \A s, t \in breaks :
              /\ LessThan(s, t)
              /\ ~ \E m \in breaks : LessThan(s, m) /\ LessThan(m, t)
              => PolygonCoversPoint(polygon, Middle(a, b, s, t))

\* CheckMissionCoverage over a route of grid points: the items that are
\* outside, and the items whose segment to the next item leaves the polygon.
CheckMissionCoverage(polygon, route) ==
    [items |-> {i \in 1..Len(route) :
                   ~PolygonCoversPoint(polygon, At(route[i]))},
     segments |-> {i \in 1..(Len(route) - 1) :
                   ~PolygonCoversSegment(polygon, route[i], route[i + 1])}]

-----------------------------------------------------------------------------
(* The reference: segments, and sets of unit cells.                        *)

\* p is a point of the segment, also when the segment is a single point.
OnSegment(p, a, b) ==
    PointOnSegment(p, a, b) /\ (a = b => p.x = p.q * a[1] /\ p.y = p.q * a[2])

\* All edges have a length.
NoRepeatedVertex(polygon) ==
    \A r \in 1..Len(polygon) : \A e \in Edges(polygon[r]) : e[1] # e[2]

Rectilinear(ring) ==
    \A e \in Edges(ring) : e[1][1] = e[2][1] \/ e[1][2] = e[2][2]

\* The edges that pass between the cells <<i - 1, j>> and <<i, j>>.
Walls(ring, i, j) ==
    {k \in 2..Len(ring) : /\ ring[k - 1][1] = i /\ ring[k][1] = i
                          /\ (ring[k - 1][2] > j) # (ring[k][2] > j)}

\* The columns and rows where the ring or the region has something.
Columns(ring, region) ==
    {ring[k][1] : k \in 1..Len(ring)} \cup {c[1] : c \in region} \cup
    {c[1] + 1 : c \in region}
Rows(ring, region) ==
    {c[2] : c \in region} \cup
    UNION {ring[k - 1][2]..ring[k][2] \cup ring[k][2]..ring[k - 1][2] :
             k \in 2..Len(ring)}

\* From one cell to the next, the region begins or ends where the ring passes
\* between them.
Encloses(ring, region) ==
    \A i \in Columns(ring, region), j \in Rows(ring, region) :
       (<<i - 1, j>> \in region) # (<<i, j>> \in region)
       <=> Cardinality(Walls(ring, i, j)) % 2 = 1

\* cells[r] is the region of ring r.
Drawn(polygon, cells) ==
    \A r \in 1..Len(polygon) :
        /\ Rectilinear(polygon[r])
        /\ cells[r] \in SUBSET Vertices /\ IsFiniteSet(cells[r])
        /\ Encloses(polygon[r], cells[r])

\* The cells of the exterior ring that are in no hole.
Footprint(polygon, cells) ==
    {c \in cells[1] : \A r \in 2..Len(polygon) : c \notin cells[r]}

\* The units between two coordinates.  Each unit of an edge has a cell of the
\* footprint on one of its sides, as it does when the rings of a polygon
\* neither overlap nor leave one another.
Stretch(v, w) == (v..(w - 1)) \cup (w..(v - 1))
Bordered(polygon, cells) ==
    \A r \in 1..Len(polygon) : \A e \in Edges(polygon[r]) :
        /\ e[1][1] = e[2][1] => \A y \in Stretch(e[1][2], e[2][2]) :
              \E x \in {e[1][1] - 1, e[1][1]} : <<x, y>> \in Footprint(polygon, cells)
        /\ e[1][2] = e[2][2] => \A x \in Stretch(e[1][1], e[2][1]) :
              \E y \in {e[1][2] - 1, e[1][2]} : <<x, y>> \in Footprint(polygon, cells)

\* p is in the closed cell, or in it without its right and upper edges.
InCell(cell, p) ==
    /\ cell[1] * p.q <= p.x /\ p.x <= (cell[1] + 1) * p.q
    /\ cell[2] * p.q <= p.y /\ p.y <= (cell[2] + 1) * p.q
InHalfOpenCell(cell, p) ==
    /\ cell[1] * p.q <= p.x /\ p.x < (cell[1] + 1) * p.q
    /\ cell[2] * p.q <= p.y /\ p.y < (cell[2] + 1) * p.q

\* The point k/n of the way from a to b.
Along(a, b, k, n) ==
    [x |-> a[1] * n + (b[1] - a[1]) * k, y |-> a[2] * n + (b[2] - a[2]) * k,
     q |-> n]

\* Every point of the segment is in a cell.  A segment enters or leaves a cell
\* only at a coordinate that is whole, so at a multiple of 1/n when n is a
\* multiple of both distances; 1/2n then samples every stretch in between.
StaysInCells(cells, a, b, n) ==
    \A k \in 0..(2 * n) : \E cell \in cells : InCell(cell, Along(a, b, k, 2 * n))

=============================================================================
