-------------------------- MODULE MCFlightServices --------------------------
(***************************************************************************)
(* The services around a flight, for TLC: mission import and conformance,  *)
(* routing of commands, the connection view and live conformance.  They    *)
(* share no state, so that a behaviour follows one of them (focus) and     *)
(* leaves the others as they are.                                          *)
(***************************************************************************)
EXTENDS Conformance, RelayRouting, ConformanceProjection, TLC

VARIABLE focus

Ring(a, b, c, d) == << <<a, b>>, <<c, b>>, <<c, d>>, <<a, d>>, <<a, b>> >>

\* A volume open to the north: two towers on a base, and the cells of its ring.
Towers ==
    [polygon |-> << << <<0, 0>>, <<3, 0>>, <<3, 3>>, <<2, 3>>, <<2, 1>>,
                       <<1, 1>>, <<1, 3>>, <<0, 3>>, <<0, 0>> >> >>,
     cells |-> << {<<0, 0>>, <<1, 0>>, <<2, 0>>, <<0, 1>>, <<0, 2>>, <<2, 1>>, <<2, 2>>} >>,
     low |-> 4, high |-> 8, starts |-> 1, ends |-> 3, ref |-> "MSL"]
\* A square around a hole.
Yard ==
    [Towers EXCEPT
        !.polygon = << Ring(0, 0, 3, 3), Ring(1, 1, 2, 2) >>,
        !.cells = << (0..2) \X (0..2), {<<1, 1>>} >>]
\* Two halves side by side, one of them late.
West == [Towers EXCEPT !.polygon = << Ring(0, 0, 1, 3) >>, !.cells = << {0} \X (0..2) >>]
East == [Towers EXCEPT !.polygon = << Ring(1, 0, 3, 3) >>, !.cells = << (1..2) \X (0..2) >>,
                       !.starts = 2]

Row0 == [seq |-> 0, current |-> TRUE, command |-> Waypoint, param4 |-> 0,
         plain |-> TRUE, at |-> <<0, 0>>, altitude |-> 5]
At1(k, command, p4, at, alt) ==
    [Row0 EXCEPT !.seq = k, !.current = FALSE, !.command = command, !.param4 = p4,
                 !.at = at, !.altitude = alt]

AcrossTheBase == <<Row0, At1(1, Takeoff, 0, <<0, 2>>, 4), At1(2, Waypoint, 0, <<1, 0>>, 6),
                   At1(3, Land, 0, <<3, 1>>, 8)>>
BetweenTowers == <<Row0, At1(1, Waypoint, 0, <<1, 2>>, 6), At1(2, Land, 1, <<2, 1>>, 6)>>
HalfCentimetre == <<Row0, At1(1, Waypoint, 0, <<0, 0>>, 5)>>
TooMany == AcrossTheBase \o <<At1(4, Waypoint, 0, <<3, 1>>, 8)>>

Request(key, version, source) ==
    [key |-> key, intent |-> "A", flight |-> version, version |-> version,
     source |-> source]

MCRequests ==
    {Request("k1", 1, AcrossTheBase), Request("k1", 1, BetweenTowers),
     Request("k2", 1, HalfCentimetre), Request("k2", 2, AcrossTheBase),
     Request("k2", 1, TooMany),
     [Request("k2", 1, AcrossTheBase) EXCEPT !.flight = 2]}
Sample(id, at, alt, time, named) ==
    [id |-> id, at |-> at, altitude |-> alt, time |-> time, intent |-> named]
P(x, y, q) == [x |-> x, y |-> y, q |-> q]

\* On the route across the base at the height of a corner, on the common edge of
\* the two halves, between the towers and in the hole, and above everything.
MCSamples ==
    {Sample("base", P(1, 2, 2), 6, 1, "A"), Sample("edge", P(1, 1, 1), 6, 2, "A"),
     Sample("middle", P(3, 3, 2), 6, 2, ""), Sample("late", P(1, 1, 2), 6, 4, "")}

MCWindow == [starts |-> 1, ends |-> 3]
MCLastVersion == [A |-> 2, B |-> 1]
Volumes(a1, a2, b1) == [A |-> <<a1, a2>>, B |-> <<b1, {}>>]
MCVolumeChoices ==
    {Volumes({Towers}, {West, East}, {Yard}), Volumes({Yard}, {Towers}, {Yard}),
     Volumes({[Yard EXCEPT !.ref = "AGL"]}, {}, {Towers})}

\* The volumes are what the theorems on missions and verdicts ask for.
ASSUME MCVolumesAssumption ==
    /\ DrawnVolumes(MCVolumeChoices) /\ NoVertexTwice(MCVolumeChoices)
    /\ BorderedVolumes(MCVolumeChoices)

\* The second condition cannot be dropped: with one vertex of its ring written
\* twice, the towers cover the space between them, because every point is on an
\* edge without length (missionPointOnSegment).
ASSUME RepeatedVertexAssumption ==
    LET ring == Towers.polygon[1]
        doubled == << SubSeq(ring, 1, 3) \o SubSeq(ring, 3, Len(ring)) >>
    IN  /\ PolygonCoversPoint(doubled, P(3, 5, 2))
        /\ ~PolygonCoversPoint(Towers.polygon, P(3, 5, 2))

\* Imports and evaluations write nothing the other reads.  It is enough to let
\* the imports come first, for intent A, and to judge flights that took off and
\* flights that the service has no mission of.
Flown ==
    /\ \A h \in Importers : importer[h] = IdleImporter
    /\ \/ \E v \in Versions : flights["A"][v] = "active"
       \/ imports = MaxImports /\ flights["A"] = <<"planned", "none">>
FlightNext ==
    \/ /\ telemetry = AllTelemetry /\ ImportNext
       /\ plan'["B"] = plan["B"] /\ flights'["B"] = flights["B"]
       /\ UNCHANGED conformanceVars
    \/ /\ Flown /\ \E i \in Intents, v \in Versions : AdvancePlan(i, v)
       /\ UNCHANGED <<volumesOf, conformanceVars>>
    \/ Flown /\ ConformanceNext /\ UNCHANGED importVars

MCAssignments == <<"A", "B", "C">>
Live(id, generation, revision, condition) ==
    [id |-> id, generation |-> generation, revision |-> revision,
     condition |-> condition]
MCPublished ==
    {Live("A", 1, 1, "conforming"), Live("A", 1, 2, "suspected"),
     Live("A", 1, 2, "conforming"), Live("A", 2, 1, "non_conforming"),
     Live("B", 1, 1, "conforming"), Live("C", 1, 1, "recovering")}

\* The handlers of all services have the same names.
Renamings == Permutations(Importers)

flightVars == <<importVars, conformanceVars>>

\* The services that are not in focus stay in one of their initial states.  The
\* relays and their addresses are interchangeable at first.
Init ==
    /\ focus \in {"flight", "calls", "view", "projection"}
    /\ ImportInit /\ ConformanceInit /\ RoutingInit /\ ProjectionInit
    /\ actual = [placements |-> [a \in Agents |-> "r1"],
                 relays |-> [r \in Relays |-> IF r = "r1" THEN "x" ELSE "y"]]
    /\ focus # "flight" =>
          ~overlapping /\ volumesOf = CHOOSE f \in VolumeChoices : TRUE
Next ==
    /\ UNCHANGED focus
    /\ \/ focus = "flight" /\ FlightNext /\ UNCHANGED <<routingVars, projectionVars>>
       \/ focus = "calls" /\ RoutingNext /\ UNCHANGED <<flightVars, projectionVars>>
       \/ focus = "view" /\ ViewNext /\ UNCHANGED <<flightVars, projectionVars>>
       \/ focus = "projection" /\ ProjectionNext /\ UNCHANGED <<flightVars, routingVars>>
Spec == Init /\ [][Next]_<<flightVars, routingVars, projectionVars, focus>>

=============================================================================
