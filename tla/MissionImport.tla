--------------------------- MODULE MissionImport ----------------------------
(***************************************************************************)
(* The import of a mission for a planned flight: idempotency key, WPL 110  *)
(* source, binding to flight and intent version, validation against the    *)
(* volume of that version, and the transaction that stores the mission.    *)
(* The handler reads the key, the flight, the intent version, the latest   *)
(* version and the volumes one after the other, while the intent, the      *)
(* flight and other imports go on; only the transaction locks anything.    *)
(*                                                                         *)
(* The intents are those of one aircraft.  Each version has one planned    *)
(* flight, so that a flight is named by the version it is bound to.  A     *)
(* source is its rows; per row the fields that matter here are kept, and   *)
(* "plain" says that all others are well formed, in range and zero.        *)
(* Altitudes are in half centimetres.  The outstanding deployments that    *)
(* also block an import are the concern of MissionDeployment.              *)
(***************************************************************************)
EXTENDS IntentRows, Geometry

CONSTANTS
    Intents,      \* the operational intents of the aircraft
    LastVersion,  \* bound: versions each of them may have
    VolumeChoices,\* bound: the volumes the versions may have
    Window,       \* planned start and end of the intents
    Importers,    \* concurrent ImportMission handlers
    Requests,     \* bound: the import requests clients may send
    MaxItems,     \* maxMissionItems
    MaxImports    \* bound: imports, retries included

Waypoint == 16
Land == 21
Takeoff == 22

\* A WPL row, and a volume: rings, altitudes and time, and the cells of each
\* ring for the properties.
WPLRow == [seq : Nat, current : BOOLEAN, command : Nat, param4 : {0, 1},
           plain : BOOLEAN, at : Vertices, altitude : Int]
Volume == [polygon : Seq(Seq(Vertices)), cells : Seq(SUBSET Vertices),
           low : Int, high : Int, starts : Int, ends : Int, ref : STRING]

ASSUME MissionImportAssumption ==
    /\ LastVersion \in [Intents -> Versions]
    /\ VolumeChoices \subseteq [Intents -> [Versions -> SUBSET Volume]]
    /\ Window \in [starts : Int, ends : Int]
    /\ MaxItems \in Nat /\ MaxImports \in Nat
    /\ \A r \in Requests :
          /\ r.intent \in Intents /\ r.version \in Versions /\ r.flight \in Versions
          /\ r.source \in Seq(WPLRow)

VARIABLES
    plan,       \* operational_intents: per intent and version
    volumesOf,  \* operational_volumes: of each version, fixed once accepted,
                \* if no AddOperationalVolume that found a draft is stalled
                \* (see Deconfliction and VolumesLocked of IntentLifecycle)
    flights,    \* flight_records: the flight bound to each version
    missions,   \* missions, in the order they were stored
    importer,   \* per handler: where it is, its request and what it has read
    imports     \* imports left

importVars == <<plan, volumesOf, flights, missions, importer, imports>>

NoRequest == CHOOSE r \in Requests : TRUE
IdleImporter == [pc |-> "idle", req |-> NoRequest, status |-> "none", answer |-> 0]

\* Version 1 of each intent is accepted and has its flight.
ImportInit ==
    /\ plan = [i \in Intents |-> [v \in Versions |->
                 IF v = 1 THEN [status |-> "accepted", rev |-> 1] ELSE NoRow]]
    /\ volumesOf \in VolumeChoices
    /\ flights = [i \in Intents |-> [v \in Versions |->
                 IF v = 1 THEN "planned" ELSE "none"]]
    /\ missions = << >>
    /\ importer = [h \in Importers |-> IdleImporter]
    /\ imports = MaxImports

-----------------------------------------------------------------------------
(* The intent and its flights, one step per operation (IntentLifecycle and *)
(* MissionDeployment take these apart).                                    *)

\* An intent is activated while no other intent of its aircraft is active.
AdvancePlan(i, v) ==
    LET rows == plan[i]
        Becomes(new) == plan' = [plan EXCEPT ![i] = new]
    IN
    /\ IsLatest(rows, v)
    /\ \/ rows[v].status \in Submittable /\ Becomes(UpdateRow(rows, v, "submitted"))
       \/ rows[v].status \in Acceptable /\ Becomes(AcceptRow(rows, v))
       \/ /\ rows[v].status = "accepted"
          /\ \A j \in Intents, w \in Versions : plan[j][w].status # "active"
          /\ Becomes(UpdateRow(rows, v, "active"))
       \/ /\ rows[v].status = "accepted" /\ v < LastVersion[i]
          /\ Becomes(ReplaceRow(rows, v))
       \/ rows[v].status \in Completable /\ Becomes(UpdateRow(rows, v, "complete"))
    /\ UNCHANGED <<flights, missions, importer, imports>>

\* The version is the current one of its intent, and accepted or active.
Usable(i, v) == IsLatest(plan[i], v) /\ plan[i][v].status \in Reserving

\* CreatePlannedFlight for the current version.
PlanFlight(i, v) ==
    /\ flights[i][v] = "none" /\ Usable(i, v)
    /\ flights' = [flights EXCEPT ![i][v] = "planned"]
    /\ UNCHANGED <<plan, missions, importer, imports>>

\* StartFlight, once its mission is uploaded.  No service ends a flight.
StartFlight(i, v) ==
    /\ flights[i][v] = "planned"
    /\ Usable(i, v) /\ plan[i][v].status = "active"
    /\ \E k \in 1..Len(missions) : /\ missions[k].req.intent = i
                                   /\ missions[k].req.version = v
    /\ \A j \in Intents, w \in Versions : flights[j][w] # "active"
    /\ flights' = [flights EXCEPT ![i][v] = "active"]
    /\ UNCHANGED <<plan, missions, importer, imports>>

-----------------------------------------------------------------------------
(* The source.                                                             *)

\* missionAltitudeCMRoundTrips: what truncation to whole centimetres keeps.
Truncated(a) == IF a >= 0 THEN 2 * (a \div 2) ELSE -2 * ((-a) \div 2)
RoundTrips(a) == Truncated(a) = a

\* parseWPLItem and the checks of parseWPL110 on row k, counted from 0: row 0
\* is HOME metadata, every other row an item that is not current.
RowAccepted(row, k) ==
    /\ row.plain /\ row.seq = k
    /\ row.command \in {Waypoint, Land, Takeoff}
    /\ k = 0 => row.current /\ row.command = Waypoint
    /\ k > 0 => /\ ~row.current
                /\ row.command # Land => row.param4 = 0
                /\ RoundTrips(row.altitude)

Item(row, param4) == [sequence |-> row.seq - 1, command |-> row.command,
                      param4 |-> param4, at |-> row.at, altitude |-> row.altitude]

\* Wrong: LAND keeps the spelling of the source.
CanonicalAsWritten(row) == Item(row, row.param4)

\* The stored item: both spellings of LAND become the one the autopilot keeps.
Canonical(row) == Item(row, IF row.command = Land THEN 1 ELSE 0)

\* parseWPL110: HOME, then one to MaxItems items.  The header line and blank
\* lines are left out.
Parses(source) ==
    /\ Len(source) >= 2
    /\ Len(source) - 1 <= MaxItems
    /\ \A k \in 1..Len(source) : RowAccepted(source[k], k - 1)

Items(source) == [k \in 1..(Len(source) - 1) |-> Canonical(source[k + 1])]

Route(items) == [k \in 1..Len(items) |-> items[k].at]

\* validateMissionAgainstIntent: a single MSL volume, there for the whole
\* window of the intent, whose altitudes and footprint hold the items and the
\* segments between them.
ValidAgainst(volumes, items) ==
    \E v \in volumes :
        /\ volumes = {v}
        /\ v.ref = "MSL"
        /\ v.starts <= Window.starts /\ v.ends >= Window.ends
        /\ \A k \in 1..Len(items) : items[k].altitude \in v.low..v.high
        /\ WellFormed(v.polygon)
        /\ CheckMissionCoverage(v.polygon, Route(items)) = [items |-> {}, segments |-> {}]

-----------------------------------------------------------------------------
(* ImportMission.                                                          *)

\* GetMissionByIdempotencyKey.
WithKey(key) == {k \in 1..Len(missions) : missions[k].key = key}

\* A known key answers with its mission when the request is the same, and is
\* refused when it is not.
AnswerFor(req) ==
    [IdleImporter EXCEPT !.pc = "answered", !.req = req,
       !.answer = CHOOSE k \in WithKey(req.key) : TRUE]
Known(req) ==
    IF \E k \in WithKey(req.key) : missions[k].req = req
    THEN AnswerFor(req) ELSE IdleImporter

Import(h, new) ==
    /\ importer' = [importer EXCEPT ![h] = new]
    /\ UNCHANGED <<plan, flights, missions, imports>>

BeginImport(h, req) ==
    /\ importer[h].pc = "idle" /\ imports > 0
    /\ imports' = imports - 1
    /\ importer' = [importer EXCEPT ![h] =
         CASE WithKey(req.key) # {} -> Known(req)
           [] WithKey(req.key) = {} /\ Parses(req.source) ->
                 [IdleImporter EXCEPT !.pc = "flight", !.req = req]
           [] OTHER -> IdleImporter]
    /\ UNCHANGED <<plan, flights, missions>>

\* The flight of the request is planned, and bound to the requested version.
ReadFlight(h) ==
    LET c == importer[h] IN
    /\ c.pc = "flight"
    /\ Import(h, IF /\ flights[c.req.intent][c.req.flight] = "planned"
                    /\ c.req.flight = c.req.version
                 THEN [c EXCEPT !.pc = "intent"] ELSE IdleImporter)

\* GetOperationalIntentVersion ...
ReadIntentVersion(h) ==
    LET c == importer[h] IN
    /\ c.pc = "intent"
    /\ Import(h, [c EXCEPT !.pc = "latest", 
                      !.status = plan[c.req.intent][c.req.version].status])

\* ... then GetOperationalIntent, which may already be another version.
ReadLatestVersion(h) ==
    LET c == importer[h] IN
    /\ c.pc = "latest"
    /\ Import(h, IF IsLatest(plan[c.req.intent], c.req.version) /\ c.status \in Reserving
                 THEN [c EXCEPT !.pc = "validate"] ELSE IdleImporter)

ValidateMission(h) ==
    LET c == importer[h] IN
    /\ c.pc = "validate"
    /\ Import(h, IF ValidAgainst(volumesOf[c.req.intent][c.req.version],
                                 Items(c.req.source))
                 THEN [c EXCEPT !.pc = "create"] ELSE IdleImporter)

\* Wrong: the key is not looked up again inside the transaction.
CreateWithoutKey(h) ==
    LET c == importer[h] IN
    /\ c.pc = "create"
    /\ missions' = Append(missions, [key |-> c.req.key, req |-> c.req,
                                     items |-> Items(c.req.source)])
    /\ importer' = [importer EXCEPT ![h] =
         [IdleImporter EXCEPT !.pc = "answered", !.req = c.req, !.answer = Len(missions')]]
    /\ UNCHANGED <<plan, flights, imports>>

\* CreateMissionForPlannedFlight: everything that may have changed is checked
\* once more under the locks of flight and intent.
CreateMission(h) ==
    LET c == importer[h]
        ready == /\ flights[c.req.intent][c.req.version] = "planned"
                 /\ Usable(c.req.intent, c.req.version)
        new == [key |-> c.req.key, req |-> c.req, items |-> Items(c.req.source)]
    IN
    /\ c.pc = "create"
    /\ \/ /\ WithKey(c.req.key) # {}
          /\ importer' = [importer EXCEPT ![h] = Known(c.req)]
          /\ UNCHANGED missions
       \/ /\ WithKey(c.req.key) = {}
          /\ ready
          /\ missions' = Append(missions, new)
          /\ importer' = [importer EXCEPT ![h] =
               [IdleImporter EXCEPT !.pc = "answered", !.req = c.req,
                                    !.answer = Len(missions')]]
       \/ /\ WithKey(c.req.key) = {}
          /\ ~ready
          /\ importer' = [importer EXCEPT ![h] = IdleImporter]
          /\ UNCHANGED missions
    /\ UNCHANGED <<plan, flights, imports>>

\* The client has the answer, or has given up waiting for it.
EndImport(h) ==
    /\ importer[h].pc = "answered"
    /\ Import(h, IdleImporter)

FlightRecordNext == \E i \in Intents, v \in Versions : PlanFlight(i, v) \/ StartFlight(i, v)

ImportStep(h) ==
    \/ \E req \in Requests : BeginImport(h, req)
    \/ ReadFlight(h) \/ ReadIntentVersion(h) \/ ReadLatestVersion(h)
    \/ ValidateMission(h) \/ CreateMission(h) \/ EndImport(h)

ImportNext ==
    /\ \/ \E i \in Intents, v \in Versions : AdvancePlan(i, v)
       \/ FlightRecordNext
       \/ \E h \in Importers : ImportStep(h)
    /\ UNCHANGED volumesOf

-----------------------------------------------------------------------------
(* Properties.                                                             *)

\* What the properties take for granted of the volumes: the cells are those of
\* the polygon; its edges have a length; its rings neither overlap nor leave one
\* another.
DrawnVolumes(choices) ==
    \A f \in choices : \A i \in Intents, v \in Versions : \A w \in f[i][v] :
        WellFormed(w.polygon) /\ Drawn(w.polygon, w.cells)
NoVertexTwice(choices) ==
    \A f \in choices : \A i \in Intents, v \in Versions : \A w \in f[i][v] :
        NoRepeatedVertex(w.polygon)
BorderedVolumes(choices) ==
    \A f \in choices : \A i \in Intents, v \in Versions : \A w \in f[i][v] :
        Bordered(w.polygon, w.cells)

\* What the autopilot stores and reads back of an item (ArduPilot).
Onboard(item) ==
    [item EXCEPT !.param4 = IF item.command = Land THEN 1 ELSE @,
                 !.altitude = Truncated(@)]

\* A stored mission is what the aircraft will read back after an upload, so
\* that the digest computed at import can be verified at all; and it stays in
\* the authorised volume along its whole route, not just at its items, and
\* between the authorised altitudes.
MissionStaysInVolume ==
    \A k \in 1..Len(missions) :
        LET items == missions[k].items IN
        /\ \A n \in 1..Len(items) : Onboard(items[n]) = items[n]
        /\ \E volume \in volumesOf[missions[k].req.intent][missions[k].req.version] :
              /\ \A n \in 1..Len(items) : items[n].altitude \in volume.low..volume.high
              /\ \A n \in 1..Len(items) :
                    \E c \in Footprint(volume.polygon, volume.cells) :
                       InCell(c, At(items[n].at))
              /\ \A n \in 1..(Len(items) - 1) :
                    StaysInCells(Footprint(volume.polygon, volume.cells),
                                 items[n].at, items[n + 1].at, 6)

\* However imports race and are retried, a key names one mission, and nobody is
\* answered with the mission of a request that is not their own.
KeyNamesOneRequest ==
    /\ \A j, k \in 1..Len(missions) : missions[j].key = missions[k].key => j = k
    /\ \A h \in Importers : importer[h].pc = "answered" =>
          /\ importer[h].answer # 0
          /\ missions[importer[h].answer].req = importer[h].req

=============================================================================
