-------------------------- MODULE VolumeConflicts ---------------------------
(***************************************************************************)
(* What the deconfliction service finds when it compares operational       *)
(* volumes: the candidate queries of both durable stores, the conversion   *)
(* to and from SCD volumes, and the evaluation of 4D bounding boxes.       *)
(*                                                                         *)
(* The world is a grid of cells MaxLon wide and MaxLat high.  A volume has *)
(* a geometry, the cells of its polygon (named by their lower left corner),*)
(* a buffer, a time window, an altitude band and an altitude reference.    *)
(* A buffer of n widens a bounding box by n on each side: the code widens  *)
(* it by at least as much, because it rounds the length of a degree down.  *)
(*                                                                         *)
(* Definitions whose comment starts with "Wrong:" are not used by the      *)
(* specifications; each is a plausible mistake in the one that follows it. *)
(***************************************************************************)
EXTENDS Integers, FiniteSets, FiniteSetsExt

CONSTANTS
    MaxLon,     \* the antimeridian is at 0 and at MaxLon
    MaxLat      \* the poles are at 0 and at MaxLat

ASSUME WorldAssumption == MaxLon \in Nat \ {0} /\ MaxLat \in Nat \ {0}

\* OperationalVolume.  Time 0 stands for the zero time, "" for no reference.
\* A polygon that is malformed, not closed, or too wide is "invalid".
Volume ==
    [geometry : {"polygon", "invalid", "uri", "none"},
     cells : SUBSET ((0..(MaxLon - 1)) \X (0..(MaxLat - 1))), buffer : Int,
     starts : Nat, ends : Nat, low : Int, high : Int,
     ref : {"MSL", "WGS84", "AGL", ""}]

\* volumeDimensionError and dimensionsUsable: the same conditions twice.
DimensionsUsable(v) ==
    /\ v.starts # 0 /\ v.ends # 0 /\ v.starts < v.ends
    /\ v.low >= 0 /\ v.high > 0 /\ v.low <= v.high
    /\ v.ref # ""

TimeWindowsOverlap(v, w) == v.starts < w.ends /\ w.starts < v.ends
AltitudeBandsOverlap(v, w) == v.low <= w.high /\ w.low <= v.high

-----------------------------------------------------------------------------
(* Bounding boxes.                                                         *)

\* geoJSONBounds: over the exterior ring.
GeoJSONBounds(v) ==
    [minLon |-> Min({c[1] : c \in v.cells}),
     maxLon |-> Max({c[1] + 1 : c \in v.cells}),
     minLat |-> Min({c[2] : c \in v.cells}),
     maxLat |-> Max({c[2] + 1 : c \in v.cells})]

\* Latitudes stop at the poles; longitudes do not wrap around.
Expand(box, n) ==
    [minLon |-> box.minLon - n, maxLon |-> box.maxLon + n,
     minLat |-> Max({0, box.minLat - n}),
     maxLat |-> Min({MaxLat, box.maxLat + n})]
CrossesAntimeridian(box) == box.minLon < 0 \/ box.maxLon > MaxLon

\* Wrong: boxes that share an edge are taken for separate.
BoundsOverlapStrictly(a, b) ==
    /\ a.minLat < b.maxLat /\ b.minLat < a.maxLat
    /\ a.minLon < b.maxLon /\ b.minLon < a.maxLon

BoundsOverlap(a, b) ==
    /\ a.minLat <= b.maxLat /\ b.minLat <= a.maxLat
    /\ a.minLon <= b.maxLon /\ b.minLon <= a.maxLon

\* evaluateVolume: whether the volume can be compared at all, and its box.
EvaluateVolume(v) ==
    LET Says(s) == [status |-> s, box |-> <<>>]
        box == Expand(GeoJSONBounds(v), v.buffer)
    IN  CASE ~DimensionsUsable(v) -> Says("indeterminate")
          [] DimensionsUsable(v) /\ v.geometry = "uri" ->
                Says("potential_conflict")
          [] DimensionsUsable(v) /\ v.geometry \in {"none", "invalid"} ->
                Says("indeterminate")
          [] DimensionsUsable(v) /\ v.geometry = "polygon" ->
                IF v.buffer < 0 \/ CrossesAntimeridian(box)
                THEN Says("indeterminate")
                ELSE [status |-> "clear", box |-> box]

\* evaluateConflicts for one own volume that is usable and one peer volume:
\* the status of the finding, "clear" for none.  A peer volume whose geometry
\* is unknown is compared in time and altitude only.
Finding(v, w) ==
    LET peer == EvaluateVolume(w)
        found == IF peer.status = "clear" THEN "potential_conflict"
                 ELSE peer.status
    IN  CASE ~DimensionsUsable(w) -> "indeterminate"
          [] \/ DimensionsUsable(w) /\ ~TimeWindowsOverlap(v, w)
             \/ /\ peer.status = "clear"
                /\ ~BoundsOverlap(EvaluateVolume(v).box, peer.box) -> "clear"
          [] OTHER -> IF v.ref # w.ref THEN "indeterminate"
                      ELSE IF AltitudeBandsOverlap(v, w) THEN found
                      ELSE "clear"

\* evaluateConflicts: the statuses of all findings of the own volumes.
EvaluateConflicts(own, peers) ==
    UNION {LET mine == EvaluateVolume(v).status
           IN  IF mine # "clear" THEN {mine}
               ELSE {Finding(v, w) : w \in peers} \ {"clear"} : v \in own}

\* maxPosture over the findings, postureForFinding and postureRank.
Posture(findings) ==
    CASE "conflict" \in findings -> "conflict"
      [] "conflict" \notin findings /\ "indeterminate" \in findings ->
            "indeterminate"
      [] findings \cap {"conflict", "indeterminate"} = {}
            /\ "potential_conflict" \in findings -> "potential_conflict"
      [] OTHER -> "clear"

-----------------------------------------------------------------------------
(* The reference: the distance between the cells themselves.               *)

Distance(m, n) == IF m >= n THEN m - n ELSE n - m

\* The polygons, with their buffers, have a point in common.
FootprintsMeet(v, w) ==
    \E c \in v.cells, d \in w.cells :
        Max({Distance(c[1], d[1]), Distance(c[2], d[2])})
            <= 1 + v.buffer + w.buffer

\* The volumes intersect in space and time.
TrulyConflict(v, w) ==
    /\ v.geometry = "polygon" /\ w.geometry = "polygon"
    /\ TimeWindowsOverlap(v, w) /\ AltitudeBandsOverlap(v, w)
    /\ v.ref = w.ref
    /\ FootprintsMeet(v, w)

AnyConflict(own, others) == \E v \in own, w \in others : TrulyConflict(v, w)

-----------------------------------------------------------------------------
(* Candidates: the volumes worth reading.                                  *)

\* couldOverlap of the in-memory store; no target selects everything.
CouldOverlap(own, w) ==
    \/ own = {} \/ ~DimensionsUsable(w)
    \/ \E v \in own : \/ ~DimensionsUsable(v)
                      \/ /\ TimeWindowsOverlap(v, w)
                         /\ v.ref # w.ref \/ AltitudeBandsOverlap(v, w)

\* The PostGIS query: also by distance, unless a footprint is missing.
QuerySelects(own, w) ==
    \E v \in own : /\ TimeWindowsOverlap(v, w)
                   /\ v.ref # w.ref \/ AltitudeBandsOverlap(v, w)
                   /\ \/ v.geometry # "polygon" \/ w.geometry # "polygon"
                      \/ FootprintsMeet(v, w)

\* FindCandidates, by store.
Selects(store, own, w) ==
    IF store = "memory" THEN CouldOverlap(own, w) ELSE QuerySelects(own, w)

-----------------------------------------------------------------------------
(* SCD volumes.                                                            *)

\* toSCDVolume succeeds: what the DSS can be asked about.  A buffer that is
\* not positive is ignored.
QueryBox(v) == Expand(GeoJSONBounds(v), Max({0, v.buffer}))
Queryable(v) ==
    /\ v.ref = "WGS84"
    /\ v.starts # 0 /\ v.ends # 0 /\ v.starts < v.ends
    /\ v.low >= 0 /\ v.low < v.high
    /\ v.geometry = "polygon" /\ ~CrossesAntimeridian(QueryBox(v))

\* The DSS answers an area query with the references it overlaps.
InArea(v, w) ==
    /\ TimeWindowsOverlap(v, w) /\ AltitudeBandsOverlap(v, w)
    /\ BoundsOverlap(QueryBox(v), QueryBox(w))

\* fromSCDVolume and scdGeometryGeoJSON: a W84 band, a time window and one
\* outline that stays clear of the antimeridian; a circle becomes its box.
Readable(w) ==
    w.ref = "WGS84" /\ w.geometry = "polygon" /\ ~CrossesAntimeridian(QueryBox(w))

=============================================================================
