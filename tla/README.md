# A TLA+ model of aero-arc-api

aero-arc-api coordinates drone flights: an operator plans an *operational
intent* (an aircraft, a time window, a set of volumes), the API walks it
through a lifecycle, publishes it to a *discovery and synchronization service*
(DSS) so that other operators (USSs) know of it, checks that it is ready, and
deploys a mission to the aircraft through a relay. This directory models the
parts of the program in which several actors change shared state, checks them
with TLC and proves the central results with TLAPS.

Paths below are relative to the repository root.

## 1. Inventory

| component | state it keeps | operations | interacts with |
|---|---|---|---|
| Intent service (`internal/service/intent_service.go`) | none; rows in the durable store | create, add volume, modify, submit, accept, activate (with compensation), complete, cancel | durable store, deconfliction service |
| Durable store, Postgres (`internal/store/durable/postgres`) | `operational_intents` (one row per version, with a revision), volumes, publications, peer notifications, flights, missions, deployments | transactions that compare a revision before they write | everything |
| Durable store, memory (`internal/store/durable/memory`) | the same in maps under one mutex; **also embedded in the Postgres store for preflight evidence and findings** | the same | preflight, intent service |
| Preflight service (`internal/service/preflight`) | none | evaluate: read, then record checks and findings one by one | durable store |
| Publication reconciler (`internal/service/deconfliction/publication.go`) | none; the publication row is outbox entry and confirmed state at once | claim, renew lease, create/update/delete, read back, confirm, deliver notifications | publication store, DSS, peers |
| Deconfliction evaluation (`deconfliction.go`, `conflict.go`, `internal/airspaceprovider/local`) | conflict findings | check: local candidates and DSS references, details of each, comparison of volumes, posture | spatial store, providers |
| InterUSS provider (`internal/airspaceprovider/interuss`) | token cache | SCD calls, conversion and validation of volumes, details and receipts | DSS, peers |
| Fleet service (`internal/service/fleet_service.go`, `mission_import.go`) | flights, missions, batteries, maintenance in the store | plan and start a flight; import a mission; compose dashboards and the connection view | durable store, registry, telemetry |
| Mission deployment (`internal/service/mission_deployment.go`) | deployment rows | create or replay, dispatch, persist the correlated result, expire, read back | durable store, relay control |
| Relay control (`internal/relaycontrol`) | placement cache with TTL, connection pool | ensure/clear operation context, deploy mission; one retry with a fresh placement | registry, relays |
| Registry (`internal/registry`) | relays, agents, placements, live conformance per assignment | register, resolve, publish and read conformance | relay control, fleet service, an external monitor |
| Conformance (`internal/service/conformance_service.go`) | events and a summary per intent version | evaluate a telemetry sample against the volumes | durable store, telemetry store |
| HTTP API, USS endpoints (`internal/httpapi`) | none | routing, decoding, token checks | all services |

What is hard:

* **Read, decide, write.** Every service operation reads a row in one
  transaction and writes it in another. Only the revision that the write
  compares keeps a decision on a stale copy from being carried out, and not
  every write compares it.
* **A leased outbox with a remote side effect.** Several replicas poll the same
  publication row. A DSS call can be lost, answered too late, or processed
  after its caller gave up, and a holder may outlive its lease.
* **A synchronous workflow on top of it.** `ActivateIntent` requests, reconciles,
  verifies, commits and, when the commit is refused, compensates, while workers
  and other handlers do the same.
* **A command to an aircraft.** A mission upload may be carried out long after
  its caller stopped waiting. The durable deployment record fences every other
  change until the outcome is known, across retries, replicas and expiry.
* **Checks that lock nothing.** A deconfliction check reads the candidates, their
  rows, the DSS and the peers one after the other, while any of them changes and
  another intent is being activated.
* **Caches between the command and the aircraft.** A placement is cached, a
  connection shared, and both are dropped by whichever call fails first.
* **Geometry at its edges.** Import accepts a closed polygon, monitoring a
  half-open one; boxes that touch count as overlapping; routes cross notches.
* **Evidence in memory.** Preflight checks survive neither a restart nor a
  request that lands on another replica, and are recorded one at a time.

The properties that make each component correct are listed with the modules
below; `PROJECT.json` lists the hazards line by line.

## 2. Modules

| module | models | used by |
|---|---|---|
| `IntentRows` | the rows of one intent: statuses, revisions, and one operator per transaction of the store (`AcceptRow`, `UpdateRow`, `ReplaceRow`) with its preconditions (`IsLatest`, `Unchanged`) | `IntentLifecycle`, `DSSPublication`, `Deconfliction`, `MissionImport` |
| `IntentLifecycle` | all operations of the intent service and of the preflight service on the intents of one aircraft, each split into reading, deciding and writing | `MCIntentLifecycle` |
| `DSSPublication` | publication of one intent: lifecycle transactions with their publication request, the leased reconciler, the DSS, the outbox, activation and compensation | `PublicationDelivery`, `DSSPublicationStore`, `MCDSSPublication`, `DSSPublicationProofs` |
| `PublicationDelivery` | `DSSPublication` composed with the delivery of its outbox to a subscribed peer | `MCPublicationDelivery`, `PublicationStoreProofs` |
| `PublicationStore` | abstract: the in-memory store's intents, publications and notifications, one operation per step | `DSSPublicationStore` |
| `DSSPublicationStore` | the refinement from `DSSPublication` to `PublicationStore` | `MCDSSPublication` |
| `VolumeConflicts` | operators: candidate queries of both stores, bounding boxes, findings, posture, SCD conversion, and the distance of cells they are compared with | `Deconfliction` |
| `Deconfliction` | the check that gates activation, over both providers, with the lifecycle of local and peer intents around it | `MCDeconfliction` |
| `MissionDeployment` | missions and flights of one aircraft: import, deployment with its dispatch and its correlated or late results, flight start, the fences between them, and the Agent's side of the command | `MissionDeploymentStore`, `MissionDeploymentProofs` |
| `MissionStore` | abstract: the in-memory store's flights, missions and deployments, one operation per step, and what it shows an operator | `MissionDeploymentStore` |
| `MissionDeploymentStore` | the refinement from `MissionDeployment` to `MissionStore` | `MCMissionDeployment` |
| `Geometry` | operators: point in polygon, mission coverage by points and segments, exact over integer vertices, and the sets of cells they are compared with | `MissionImport` |
| `MissionImport` | mission import: source rows, validation, and the handler's reads and transaction against changing intents and flights | `Conformance` |
| `Conformance` | evaluation of telemetry, composed with the missions imported for the same intents | `MCFlightServices` |
| `RelayRouting` | registry, placement cache, connection pool, the call with its two attempts; the goroutines of the connection view | `MCFlightServices` |
| `ConformanceProjection` | live conformance in the registry and its overlay on the dashboard | `MCFlightServices` |
| `DSSPublicationProofs`, `DSSLifecycleProofs`, `PublicationStoreProofs` | proofs about `DSSPublication`, its refinement of `PublicationStore`, and `PublicationDelivery` | |
| `MissionDeploymentProofs` | proofs about `MissionDeployment` and its refinement of `MissionStore` | |
| `IntentLifecycleProofs`, `DeconflictionProofs` | proofs about `IntentLifecycle` and about `VolumeConflicts` and `Deconfliction` | |
| `GeometryProofs` | proofs about the operators of `Geometry` | `FlightServicesProofs` |
| `FlightServicesProofs` | proofs about `ConformanceProjection`, `RelayRouting`, `MissionImport` and `Conformance` | |

### IntentLifecycle

`rows[i][v]` is the row of version `v` of intent `i`: status and revision.
`volumes[i][v]` is the set of `UpdatedAt` times of the version's volumes;
`evidence[i][v]` has the records an evaluation leaves: check 1 stands for the
checks of the aircraft, check 2 for those of the volumes, 3 for the compliance
findings. `handler[h]` is what one HTTP handler has read so far.

| action | code |
|---|---|
| `Load` | the `GetOperationalIntent` every operation starts with, the status check, and the clock reading |
| `ReadVolumes`, `ReadChecks`, `ReadFindings` | the three reads of `activationReadiness` |
| `CreateIntent`, `SubmitIntent`, `AcceptIntent`, `ActivateIntent`, `CompleteIntent`, `CancelIntent`, `ModifyIntent`, `AddOperationalVolume` | the store transaction that ends the operation; a conflict ends it as well |
| `Evaluate`, `Record` | `EvaluateIntent`: volumes and clock are read, then one row at a time is recorded |
| `Abandon` | an error before the write: the store, the request context, a conflicting airspace |
| `Restart` | the replica restarts and its memory is empty |

### DSSPublication

`pub` is the publication row (`rev` its revision, `desVer`/`desState` what is
wanted, `pubVer`/`confState`/`dssVer`/`ovn` what was confirmed or read back,
`sync` its status); `lease` names the holder of `lease_until`; `dss` is the
reference the DSS keeps, with the intent version whose extents it has
(`content`); `late` holds requests that outlived their call; `outbox` is
`peer_notifications`. A process is a worker (one per replica) or a handler
inside `ActivateIntent`; `pc` says which transaction or DSS call comes next,
`job` is its copy of the publication row, `call` what an activation has read.

| action | code |
|---|---|
| `SubmitIntent`, `AcceptIntent`, `ModifyIntent`, `CompleteIntent`, `CancelIntent` | one transaction with the publication request in it (`requestPublicationTx`) |
| `ClaimDue`, `ClaimById` | `ReconcileDue` and `ReconcileIntent` |
| `LookUp`, `Check`, `RenewLease`, `Publish`, `Withdraw`, `MutationFails`, `ReadBack`, `RecoverWithdrawal`, `WriteResult` | `reconcileClaimed`, one step per store transaction or DSS call |
| `ExpireLease`, `Abandon`, `LateMutation` | time, crashes and failing calls, the network |
| `BeginActivation` ... `CommitActivation` | `ActivateIntent` |
| `CompensateRead`, `CompensateDecide`, `CompensateRequest` | `compensatePublishedActivation` |

The DSS is external: `Takes` and `Mutated` say that a create needs the
reference absent, that an update or delete needs the current OVN, and that
every create or update yields a new OVN and the next version; that is all the
reconciler relies on.

### MissionDeployment

One aircraft. `intents[i]` is the latest version of an intent and its status,
`flights[f]` a flight record with the version it is bound to, `missions[f]` the
current mission version. `deps[k]` is the deployment under idempotency key `k`
(`dispatched` is `DispatchStarted`, `ord` the creation order), `phase[k]` where
the clock stands for it: before `expires_at`, before `reconcile_until`, or
after. `job[h]` is what a `DeployCurrentMission` handler has read: the time
(`seen`), the deployment it was given (`dep`), and the status it is about to
write (`want`). `agent` is the Agent's operation context, the mission on board
and its command log; `late` holds commands whose caller is gone.

| action | code |
|---|---|
| `ChangeIntent` | the intent transactions, each behind `rejectOutstandingMissionDeploymentForIntent` |
| `CreatePlannedFlight`, `ImportMission`, `StartFlight` | the transactions of the fleet store; only `CreateFlightRecord` does not look at the intent again, but whatever uses the flight compares its binding |
| `Begin`, `CreateDeployment`, `Rebind` | lookup, clock, admission, and the second validation of `DeployCurrentMission` |
| `ClearContext`, `EnsureContext`, `Dispatch` | the three Relay calls; each is delivered, delivered twice, or unanswered |
| `NoteOutcome`, `MarkDispatch`, `PersistResult` | the compare-and-set writes |
| `Crash`, `Tick`, `LateCommand` | a failing store call or an end of the process, time, the network |

The Agent is external. The model assumes of it what the API relies on: it
deduplicates by command id and a terminal outcome is final, it starts nothing
after `expires_at`, it checks the mission's binding against its context, and it
reports truthfully which mission is on board (it may still call an upload
applied that went wrong).

### PublicationDelivery

Each step of `DSSPublication` queues what it adds to the outbox (`Enqueue`); a
worker that is not reconciling delivers. `queue[n]` is a row of
`peer_notifications`, `courier[w]` what a worker has claimed, `received` the
table of the peer, which is taken to run the same code.

| action | code |
|---|---|
| `ClaimNotification` | `ClaimDuePeerNotifications` |
| `SendNotification` with `Receive` | `DeliverPeerNotification`, and the peer's `handleNotifyUSSOperationalIntentChanged` |
| `RecordDelivery` | `UpdatePeerNotification`, fenced by the claimed revision |
| `ExpireDelivery`, `AbandonDelivery` | time; a crash, or a failing store call |

### PublicationStore and MissionStore

What the services may rely on, as the in-memory store provides it: records in
maps, one lock, a write fenced by a revision the caller was given (`holds`). A
refused call is no step. The services' tests run on that store; that the
transactions of the Postgres store are operations of it, step by step, is what
`ImplementsStore` and `ImplementsMissionStore` say. The mappings turn rows into
sets of records and a process's copy into the revision or record it holds.

### VolumeConflicts and Deconfliction

The world is a grid of cells; a volume is a set of cells with a buffer, a
window, an altitude band and reference, or a geometry that cannot be compared.
`rows`, `volumes` and `findings` are those of the store, `references` the DSS's
references of the peers and `served` what the peers answer, which may lag
behind. `adding` holds the `AddOperationalVolume` requests that found a draft and
have not written yet. `checker[h]` is one `ActivateIntent` with its
`CheckIntent`. Two things no step reads: `threats` is what conflicted when the
check read its volumes, `late` has the versions to which a stalled request wrote
while they reserved airspace.

| action | code |
|---|---|
| `BeginActivation`, `CommitActivation` | `ActivateIntent`: the row it reads, and the transaction that compares its revision |
| `LoadIntent` | `loadIntent` |
| `FindCandidates`, `HydrateCandidate`, `ReadCandidate` | `FindOperationalIntents` of the local provider: the spatial query, the rows of all candidates, then the volumes of the selected ones |
| `QueryReferences`, `GetDetails` | the same of the InterUSS provider, with its validation of details |
| `Finalize` | `evaluateConflicts`, `finalize` and `ReplaceConflictFindings` |
| `BeginAdd`, `AddOperationalVolume` | the check for a draft, and the write that looks at neither status nor revision (`RecordOperationalVolume`) |
| `SubmitLocal`, `AcceptLocal`, `EndLocal`, `ModifyLocal`, `PeerPublishes`, `PeerServes` | what goes on meanwhile |

### Geometry, MissionImport and Conformance

`plan` has the intents of one aircraft, `volumesOf` their volumes, `flights` the
flight bound to each version, `missions` what was imported. An importer goes
through `BeginImport` (key and source), `ReadFlight`, `ReadIntentVersion`,
`ReadLatestVersion`, `ValidateMission` and `CreateMission`, the reads and the
transaction of `ImportMission`. An evaluator goes through `BeginEvaluation`,
`ReadVolumes`, `ReadExisting`, `RecordEvent`, `CountAlerts` and `UpsertSummary`,
the calls of `EvaluateTelemetry`; `FailEvaluation` ends it before any of them.
Volumes and samples are in place, altitude and time; a source is a sequence of
rows of which one flag says that the remaining fields are well formed.

The reference for the geometry is independent of it. A volume comes with a set
of unit cells for each ring, and `Encloses` says what it means that these are
the cells of the ring: going from one cell to the next in a row, the region
begins or ends exactly where the ring passes between them. The *footprint* has
the cells of the exterior ring that are in no hole. `VerdictMatchesCells` and
`MissionStaysInVolume` compare the ray casting and the segment intersections of
the code with it. `OnSegment` is what it says also for a segment that is a
single point, which `missionPointOnSegment` is not (section 3).

`DrawnVolumes`, `NoVertexTwice` and `BorderedVolumes` state the conditions that
the theorems of section 4 put on the volumes; `MCVolumesAssumption` has TLC
evaluate them for the volumes of `flight_services`.

### RelayRouting

`actual` is where agents and relays are, `registry` what it has been told,
`cache` and `pool` what `Service` and `grpcPool` keep, `open` the connections.
`ReadCache`, `ReadPlacement`, `ReadRelays` and `StoreCache` are `resolve`;
`Client`, `Invoke`, `Forget` and `DropConnection` the rest of `call`. In
`StartView`, `TakeLookup`, `FinishLookup`, `SignalDone` and `ShowView` the
goroutines of `lookupPlacements` empty their channel.

### ConformanceProjection

`Deliver` is `PublishConformanceSummary`, whatever arrives in whatever order;
`BeginDashboard`, `ReadBatch` and `MergeDashboard` are `GetConformanceDashboard`
with its batches. `seen` remembers what was shown last. A version has one
assignment here; the code overlays by intent and version and takes the newest of
several assignments, on which no property depends.

## 3. Runs

Every run has `CHECK_DEADLOCK FALSE`: the bounded models stop when users,
versions and disturbances are used up, and so may the system.

| run | instance | shows |
|---|---|---|
| `publication_workers` | 2 workers, 2 versions, 2 disturbances, 1 late request | one mutator at a time; what is confirmed is what the DSS holds and what peers are told, and a withdrawal is announced even if the delete's answer was lost; a stale result never replaces a newer desired state |
| `publication_activation` | 1 worker, 1 activation, 2 versions, 1 edit, 1 disturbance | an active version is held as Activated; an ended intent asks for withdrawal; a recorded withdrawal is true; the transactions implement `PublicationStore` |
| `publication_delivery` | 2 workers, 1 version, 1 disturbance, and either a subscribed peer or an activation | under fairness, every request is worked off, an ended intent loses its reference, and a subscriber knows in the end what is confirmed or withdrawn; what is recorded as delivered was received and stays recorded |
| `lifecycle` | 2 handlers and 2 versions of one intent (3 clock readings); 2 handlers and 2 intents; requests in turn with restarts (4 clock readings) | one reserving version, and none once the intent ended; a version is superseded only in the step that accepts a newer one, and one under a newer version ends only with it; one active intent per aircraft; in turn, volumes locked and activation on evidence of exactly these volumes |
| `mission_switch` | 2 handlers, 2 flights, 3 keys, 3 requests, 1 fault | one open deployment per aircraft, for a planned flight; a started flight has its mission on board, across a change of flights and back; the deployment and mission shown to the operator are the ones that count |
| `mission_progress` | 2 handlers, 2 requests under one key, 2 missions, 2 intent versions, 1 fault, fair handlers | what reaches the aircraft is authorized while mission and intent are replaced; a terminal status and the dispatch marker are never taken back; a terminal outcome that was learned is recorded; every request returns, finitely many of them competing; the transactions implement `MissionStore` |
| `deconfliction` | 2 checks, 2 local intents of 2 versions, 1 peer, 1 failed read, 1 edit (`ModifyIntent` or `AddOperationalVolume`); the in-memory store alone and Postgres with the DSS | two active intents do not conflict while their volumes are locked; a clear check missed no conflict that was there when it began and still is |
| `flight_services` | four cases: 2 imports and 3 evaluations (2 when concurrent, 1 failing) over three arrangements of volumes; 2 callers, 3 calls, 2 relays, 2 moves; 3 lookups by 2 goroutines; 3 assignments in batches of 2, 2 dashboards | stored missions stay in their volume and read back as stored; a key names one request; verdicts agree with the cells and with import; a stale cache costs at most one attempt; no connection leaks; the view is whole; dashboards are complete and never go back |

Four runs show that the program does not do what a document or a message of its
own says (`findings` in `PROJECT.json` quotes both):

* `served_version`: after a lost revision race, and without any fault, a newer
  version is recorded as published although the DSS holds the older one's
  extents (`publication.go:288`).
* `concurrent_activation`: two `ActivateIntent` calls of the same version; the
  compensation of one takes the DSS back to Accepted before the other commits
  `active`. `publication_activation` shows the same property with one call.
* `volume_lock`: the draft status is checked on a copy, and the volume is
  written unfenced. `lifecycle` shows the property for requests in turn
  (`VolumesLockedInTurn`).
* `readback_marker`: the clock is read before the deployment. A retry that read
  it before expiry finds the record another request has just marked as expired,
  takes it for an uncertain dispatch, and sends a command that was never
  dispatched, without the context acknowledgement. `EffectIsAuthorized` holds
  nevertheless: the Agent's own expiry check stops it.

Some properties of passing runs hold only within limits that they or their runs
state, because the code promises no more:

* `WithdrawnIsAbsent` is checked without late requests: a create that outlives
  its call recreates the reference after the withdrawal was recorded
  (`publication.go:206`).
* `VolumesLockedInTurn` and `ActivatedWasEvaluated` are about requests one at a
  time: with two handlers, the freshness of the evidence is decided on clock
  readings taken before the volume is stored (`intent_service.go:701`).
* `SummaryNeverForgets` is about samples handled one at a time: of two
  concurrent evaluations the last writer decides (`conformance_service.go:165`).
  The events themselves are complete in any case.
* `RightRegistrySuffices` excuses a call whose connection another call closes
  while it is in use: only `codes.Unavailable` is retried (`relaycontrol/service.go:247`).
* `MissionStaysInVolume` and `MissionFlownConforms` are about volumes without a
  repeated vertex. An edge without length has every point on it
  (`memory/spatial.go:194`), so the in-memory store takes a volume with a vertex
  written twice to cover everything (`RepeatedVertexAssumption` in
  `MCFlightServices`, which TLC evaluates); PostGIS ignores the repetition, and
  nothing refuses such a ring. The attempt to prove `MissionStaysInVolume` for
  every polygon found this.
* `MissionFlownConforms` excuses the very edge of the volume, where import and
  monitoring differ by design of the two algorithms.
* `NoConflictingActives` and `ClearMissesNothing` are about reservations whose
  volumes are locked. `volume_lock` shows that the code does not enforce that: an
  `AddOperationalVolume` that found a draft may write after acceptance
  (`intent_service.go:263`, `postgres/store.go:720`), and then two active intents
  can conflict. The model has that write; `late` names the versions it changed,
  which the two properties leave out, and without that TLC finds both violated.
* `MissionStaysInVolume` and `MissionFlownConforms` rest on the same lock: in
  `MissionImport` the volumes of an accepted version are fixed. A volume that is
  added late leaves the one a mission was validated against in place, one that
  is written late under the same id does not.
* `RequestsReturn`: the loop that persists a result has no bound
  (`mission_deployment.go:272`). `MaxRequests` makes the writers it competes with
  finitely many; if requests never stopped coming it could lose every time.
* `ClearMissesNothing` says nothing of what appears during the check; that is
  what `NoConflictingActives` is for, among local intents. Against a peer that
  publishes at the same time only the DSS's OVN check helps (`DSSPublication`).

**Bounds.** Versions: two are enough for one version to replace another, for a
stale version to be published and for a terminal status to reach the older
one; the third would repeat the second. Disturbances (`MaxFaults`): a lost
answer followed by a crash or an expired lease is the longest chain a property
depends on; `publication_workers` has both. Processes: fences are pairwise, so
two; symmetry is used among workers, activators, handlers and intents, only in
runs without liveness. Deployments: in `mission_switch` a third key lets the aircraft go back to the
first flight and a third request lets a stalled one meet the deployment after
next; one fault is one unanswered or repeated call or one crash. Geometry: a
grid of three by three cells has a concave outline, a hole, two volumes with a
common edge, and routes through a corner, along an edge and across a notch; four
by three cells are enough for boxes that touch and boxes that overlap although
the cells do not, with and without a buffer. Batches of two over three assignments give a full
and a partial batch; two goroutines for three lookups one that comes back for
more. Calls: the second attempt of one call, a second call that writes its old
placement back in between, and a third that finds it. `MaxTime` bounds
clock readings: one for a volume, one for an evaluation, one for an edit after
it, and one more evaluation. The
theorems below do not depend on any of these bounds.

**Fairness** (`publication_delivery`): weak fairness of `ClaimDue` for each
worker (`RunPublicationWorker` polls on a ticker), of the steps of a
reconciliation or an activation under way (a goroutine runs on; its calls have
timeouts), of the steps of a delivery, and of lease expiry (time passes). Users, disturbances and late
requests have none. `MaxFaults` is finite, so it is assumed that the
disturbances end; without that no retry loop makes progress. In
`mission_progress` the steps of a request under way are weakly fair, for the
same reason; users, the clock and late commands have no fairness.

Every property has a mutant: a definition whose comment starts with `Wrong:`,
a plausible mistake in the definition after it. With it in place TLC finds the
property violated on the same instance.

## 4. Proofs

Every safety invariant, action property and refinement that a passing run
checks is a theorem; liveness is model-checked only. Each theorem holds for
every value of the constants that satisfies the named assumptions, which TLC
evaluates in the runs; none of the bounds of section 3 matters to it. Where a
theorem has a condition of its own, it is part of its statement.

### Publication

`DSSPublicationProofs` proves for every finite or infinite set of workers and
activators, every number of versions, disturbances and late requests, from
`MaxVersionAssumption`, `BoundsAssumption` and `ProcessesAssumption` alone:

* `TypeCorrect`: `Spec => []TypeOK`;
* `MutualExclusion`: `Spec => []OneMutator`;
* `ConfirmedIsHeld`: `Spec => []ConfirmedMatchesDSS`.

None of these is inductive. The invariant `IInv` adds to the types:

* `RevisionInv`: no process carries a revision from the future, no two
  reconciling processes carry the same one. A claim raises the revision, so the
  claimer's is new.
* `LeaseInv`, with the *owner* being the process whose revision is current:
  a mutating process holds the lease, and while there is an owner nobody else
  holds it. This gives mutual exclusion: a claim needs a free lease, a renewal
  needs the current revision.
* `OwnerInv`: the owner's copy has the desired version and state of the row, so
  that what it writes is what is wanted.
* `JobInv`: a copy is called confirmed only between the answer and the write.
* `OvnInv`: no OVN from the future; the OVN of a successful mutation is new.
* `ConfirmedInv`: what is confirmed, or about to be, is what the DSS holds, no
  late request carries its OVN, and nobody mutates while the row is confirmed.

Types need `JobInv`: a confirmed copy has a published version, so the
notification it is announced with has one too. The proof has one lemma per kind
of step (request, claim, quiet step, mutation, write, ...), each told by what
it does to the variables of the invariant, and `InvStep` sorts the actions into
these kinds.

`DSSLifecycleProofs` goes on from there:

* `EndedStaysWithdrawn`: `Spec => []EndedIsWithdrawn`;
* `StaleResults`: `Spec => StaleResultsRejected`;
* `Announced`: `Spec => []ChangesAreAnnounced`;
* `WithdrawnLeavesNothing`: `Spec => []WithdrawnIsAbsent`, if `MaxLate = 0`;
* `ActiveIsPublished`: `Spec => []ActiveIsActivated`, if there is one activator.

Its invariant `LInv` relates calls to rows: a call whose revision is still the
row's has a copy of that row, an ended intent is never current again, and
withdrawal is desired when the intent has ended and at no other time.
`AnnounceInv` adds that DSS versions only grow while the reference is there, so
that what is confirmed next has a version under which nothing was announced. The
two conditions are not for the sake of the
proof: without them the properties are false. A late create recreates a
reference that was withdrawn, and the run `concurrent_activation` shows what two
activations do.

`PublicationStoreProofs` has the refinement, `PublicationStoreRefinement`:
`Spec => ImplementsStore`. Each action is one store operation or a stutter. The
revision that a reconciling process holds is the one it claimed, a write is
always given the latest version, and no two notifications of the outbox have one
id; these are the facts that make a set of records change as the rows do. The
same module proves `DeliveriesAreKept`: `DeliverySpec => DeliveredForGood`. A
claim and a recorded outcome both raise the revision of a notification, so a
worker whose revision still is the row's is about to record on one that is not
delivered.

Two theorems are about the composition of publication and delivery:

* `PublicationWhileDelivering`: `DeliverySpec` implies `[]OneMutator`,
  `[]ConfirmedMatchesDSS`, `[]EndedIsWithdrawn` and `[]ChangesAreAnnounced`. A
  delivery leaves everything of `DSSPublication` alone but the bound on
  disturbances, from which it spends.
* `SubscriberIsTold`: `DeliverySpec => []ToldWhenDelivered`. Whenever all of the
  queue is recorded as delivered, the subscriber has received what is confirmed
  or the withdrawal of what it had heard of. It needs both sides: the queue has
  exactly the outbox, which announces every change before it is recorded as
  done, and what is recorded as delivered was received. This is the safety part
  of `EventuallyTold`; that the queue is delivered in the end is what TLC checks.

### Mission deployment

`MissionDeploymentProofs` proves every safety property of `MissionDeployment`
that a passing run checks, for every number of flights, intents, handlers,
requests, faults and every finite set of keys, from `MissionBoundsAssumption`
and `MissionNamesAssumption`:

* `MissionTypes`, `SingleDeployment` and `StartedWithItsMission`:
  `Spec => []TypeOK`, `[]OneOpenDeployment` and `[]ActiveFlightHasItsMission`;
* `AuthorizedEffects`, `KeptEvidence` and `RecordedOutcomes`:
  `Spec => EffectIsAuthorized`, `EvidenceIsKept` and `KnownOutcomeIsRecorded`.

The inductive invariant (also named `IInv`) adds:

* `RecordInv`, `OrderInv`: a key has no deployment or a complete one; places in
  the creation order are distinct and none exceeds the number of deployments, so
  a new deployment is the latest.
* `OpenInv`: while a deployment is open it is the latest one, and what it was
  admitted on still holds. Every transaction that could change that is fenced.
* `HandlersInv`: a handler's copy is an old state of the record or, if the
  revisions agree, the record itself, and was open; a handler about to dispatch
  has the dispatch on record; a terminal outcome it holds is in the Agent's log.
* `LateInv`, `LogInv`: a deploy command on its way has its dispatch on record; a
  terminal record is in the Agent's log, and the latest verified one is on board.

A command changes what is on board only if the Agent has no entry for it. Then
its record is not terminal (`LogInv`) but dispatched, so it is open, and by
`OpenInv` authorized; being the latest, it cannot overwrite what a later
deployment verified. There is one lemma per action, and one per kind of step
(user, quiet, context command, write, admission, effect) that several share.
The assumptions about the Agent (section 2) are part of `Spec` and hence of
these theorems.

The same module proves what is shown and the refinement:

* `ShownCorrectly`: `Spec => []ShownIsSo`. The open deployment is the only one,
  hence it has the lowest priority number; the latest deployment of a started
  flight is verified, and none is admitted for an active flight.
* `MissionStoreRefinement`: `Spec => ImplementsMissionStore`. By `HandlersInv` a
  copy with the record's revision is the record, so a write takes the held
  record out of the set and puts one in.

### Intents

`IntentLifecycleProofs` proves every property of `IntentLifecycle` that the run
`lifecycle` checks, for every number of intents, versions and handlers:
`LifecycleTypes`, `SingleReservation`, `NoEarlySupersession`, `SingleActive`,
`LockedInTurn` and `EvaluatedBeforeActive`. The first, the second and the fourth rest on `GoodRows`,
what holds of the rows of an intent whoever wrote them, and on `HandlerInv`: a
handler whose revision is the row's has decided by the status that is there, so
that each write is one of a few transformations of rows, and these keep
`GoodRows`. `NoEarlySupersession` is about steps: an accept finds a version that
is not accepted yet, and the rows before it that it supersedes were accepted; a
cancel passes its own status on; every other write touches the latest version
or adds one (`NextGivesWay`). The last two are about behaviours in which requests come one at a
time (`inTurn`, chosen at the start). `TurnInv` says that then everything the
handler under way has read is still so, and that each record of evidence has
seen exactly the volumes of its version or is older than one of them.

`DeconflictionProofs` proves for every size of the world, every choice of
volumes, and every number of intents, peers and concurrent checks:

* `ActivesApart`: `Spec => []NoConflictingActives`;
* `NothingMissed`: `Spec => []ClearMissesNothing`.

It starts with the operators of `VolumeConflicts`. Volumes that truly conflict
are selected by the candidate query of both stores (`ConflictIsSelected`), lie
in the area the DSS is asked about (`ConflictIsInArea`), and are not cleared by
the comparison of boxes (`NothingFound`): a box holds its cells, so boxes
widened by at least the buffers overlap when the footprints meet. The inductive
invariant then says of a check under way (`Misses`): what conflicted when it
read its volumes, and is still there, is yet to be read, was read, or a read has
failed and the check will not be clear. Two facts carry it: of an intent one
version at most is reserved, so keeping the highest eligible version keeps the
one that is there; and accepted details carry the version of the reference.
Rows and volumes are read in different steps, and a version that was selected
may be given other volumes before these are read. In a version that reserves
airspace only a late `AddOperationalVolume` does that, and it puts the version
into `late`; both theorems leave these versions out.

That alone says nothing of two checks that run at the same time. `ForeseenInv`
does: if a check whose row is unchanged does not know of a conflicting
reservation, that reservation came later, is not active yet, and every check
that could activate it knows of this intent (`CameLater`). A check that commits
has none of its known conflicts left, so of two conflicting intents only one can
get there.

### Around a flight

`FlightServicesProofs` has a specification for each service (`ProjectionSpec`,
`RoutingSpec`, `ImportSpec`, `ConformanceSpec`) in which the variables of the
other services may change in any way. The run `flight_services` takes the
services in turn, and its behaviours satisfy these specifications.

* `CompleteDashboards`, `DashboardsAdvance`: what a dashboard has read lies
  between what was shown last and what the registry has.
* `ConnectionsKept`, `CallsSucceed`: the open connections are those of the pool,
  each for one relay; what an undisturbed call was told on its second attempt is
  where the agent is.
* `ViewsAreWhole`: an agent's lookup is in the channel, in the hands of a
  goroutine, or done; a goroutine signals only when the channel is empty, and
  the number of signals is the number of goroutines that are gone.
* `KeysNameRequests`, `MissionsReadBack`: a mission is recorded with its request
  under a key that had none; items that pass validation survive the autopilot's
  rounding and the canonical form of a landing.
* `SummariesNeverForget`: while samples do not overlap, the summary an evaluation
  read is the one it replaces.

The last section of the module takes import and conformance together
(`FlightSpec`), because both judge the same volumes. `VerdictInv` says that what
an evaluator has found out is what the volumes of its version say, and that an
event was recorded for a sample outside all of them; from it, from the invariant
of import and from the results on geometry below follow

* `VerdictsMatchCells`: `FlightSpec => []VerdictMatchesCells`, if
  `DrawnVolumes(VolumeChoices)`;
* `MissionsFlownConform`: `FlightSpec => []MissionFlownConforms`, if
  `NoVertexTwice(VolumeChoices)`;
* `MissionsStayInVolume`: `FlightSpec => []MissionStaysInVolume`, if all three
  conditions on `VolumeChoices` hold.

The conditions are about the volumes that operators draw. `DrawnVolumes` says
that edges are vertical or horizontal and the cells are the ones the rings
enclose: only then there is a set of cells to compare with.
`NoVertexTwice` cannot be dropped (`RepeatedVertexAssumption`). `BorderedVolumes` says
that every unit of an edge has the volume on one of its sides: import accepts
routes along an edge, and a hole outside the exterior ring has edges with no
volume next to them. `MissionsFlownConform` compares two algorithms of the code
and needs no cells, so it holds for edges of any direction.

### Geometry

`GeometryProofs` is about polygons with any number of rings, holes and vertices,
and about all points with rational coordinates:

* `InsideIsFootprint`: `pointInGeoJSONPolygon` accepts exactly the points of
  the footprint, each cell with its left and lower edge. The argument goes along
  a row of cells from right to left: far to the right there is neither a cell
  nor an edge to cross, and from a cell to the next the parity of the crossings
  changes with the walls between them, as the region does.
* `CoveredSegment`: `missionPolygonCoversSegment` tests the ends of a segment and
  the middle of every stretch between neighbouring intersections; every point of
  an accepted segment is inside the polygon or on a ring. Between two points
  that a ring does not separate the parity of the crossings is the same
  (`OneSide`): their rays to the right differ in the edges of which one end
  lies between the rays, and a closed ring enters and leaves any set of vertices
  equally often. A point of the segment that is on no ring lies strictly between two
  neighbouring breaks, nothing of the ring is between it and their middle
  (`BreakIsOnEdge`, `EdgeEndsBetween`), and the middle was tested.
* `CoveredSegmentInCells`: every point of an accepted segment is in a cell of the
  footprint, now with all of its edges. `StaysInCells`, which TLC has to
  evaluate, looks at thirteen of them; the theorem is about all.

The library's induction rules cannot be used here (their parameter is an
operator), so each induction is over a set: the first vertex of a walk or the
first column from the right where the claim fails, the last break before a
point and the first after it. `Least` and `LastElement` say that these exist, by
`WFMin`, `NatLessThanWellFounded` and `FS_StrictSubsetOrderingWellFounded` of
the library.

Assumptions that the proofs made explicit, all evaluated by the runs: in
`RelayRouting`, agents, relays and callers are finite and none of them is named
like the values for "no agent" and "gone"; in `Deconfliction`, no local intent
has the id of a peer's (ids are UUIDs); in `MissionImport`, a source is a finite
sequence of rows, and vertices, altitudes and times are integers; in
`Conformance`, a sample is anywhere with rational coordinates.

### Only model-checked

* Liveness: `EventuallySettled`, `EventuallyWithdrawn`, `EventuallyTold`,
  `RequestsReturn`. Fairness is out of the prover's reach.

## 5. What is left out

* The end of a flight: no service completes or aborts one, so `UpdateFlightRecord`
  has no caller. A second aircraft: the deployment fences are per aircraft.
* Formatting, HTTP, tokens, TLS, the policy on peer URLs, logging,
  configuration.
* The verdict of a preflight requirement (battery, maintenance, authorization):
  a free choice. The reconciler of `DSSPublication` takes the verdict of its
  deconfliction check as a free choice as well; `Deconfliction` has the check.
* Telemetry, replay and conformance history: queries without state of their own.
  Dashboards that only count, and records that are written and read back as they
  are (operators, batteries, maintenance, personnel, evidence).
* Floating point: tolerances become exact comparisons, and the length of a
  degree is one cell.
* Heartbeats and freshness of the registry: they colour dashboards and decide
  nothing.
* Two replicas with separate preflight memories: `IntentLifecycle` has one
  memory that a restart empties, which is the same loss.
* A commit whose outcome the client never learns: the transaction either
  happened (the handler's next step) or did not (`Abandon`).

## 6. Plan

1. The results that hold under conditions, made sharper: which late requests
   `WithdrawnIsAbsent` tolerates, and what two activations keep of
   `ActiveIsActivated`.
2. The requirements of preflight as operators.
