---------------------------- MODULE RelayRouting ----------------------------
(***************************************************************************)
(* How a command reaches an agent: the registry knows which relay an agent *)
(* is connected to and where that relay listens, the relay control service *)
(* caches what the registry said, and a pool keeps one connection per      *)
(* relay.  A call makes at most two attempts, the second with a placement  *)
(* read afresh.  Calls run concurrently; cache and pool have a lock each,  *)
(* held for one access; agents and relays move meanwhile and the registry  *)
(* learns of it later.                                                     *)
(*                                                                         *)
(* Also the connection view of the fleet, which reads the agents and then  *)
(* looks up their placements with a bounded number of goroutines.          *)
(*                                                                         *)
(* The registry is the in-memory client of the repository; what the relays *)
(* and the agents behind it do is external.  Definitions whose comment     *)
(* starts with "Wrong:" are plausible mistakes, not used.                  *)
(***************************************************************************)
EXTENDS Naturals, Sequences, FiniteSets

CONSTANTS
    Agents, Relays, Addresses,
    Called,        \* bound: the agents that are called
    Callers,       \* concurrent calls
    TTL,           \* placementTTL
    Timeout,       \* the time a call may take
    MaxClock,      \* bound: time
    MaxMoves,      \* bound: agents and relays moving, answers lost
    MaxCalls,      \* bound: calls
    MaxEvents,     \* bound: moves, calls and clock ticks together
    Workers        \* maxPlacementLookups

None == "none"

ASSUME RelayRoutingAssumption ==
    /\ TTL \in Nat \ {0} /\ Timeout \in Nat /\ MaxClock \in Nat
    /\ MaxMoves \in Nat /\ MaxCalls \in Nat /\ MaxEvents \in Nat /\ Workers \in Nat \ {0}
    /\ IsFiniteSet(Agents) /\ IsFiniteSet(Relays) /\ IsFiniteSet(Callers)
    /\ Called \subseteq Agents
    /\ None \notin Agents \cup Relays \cup Addresses /\ "gone" \notin Agents

VARIABLES
    registry,   \* what the registry has been told: placements and addresses
    actual,     \* where agents are connected and relays listen
    clock,      \* the clock of the service
    cache,      \* Service.placements
    pool,       \* grpcPool.conns: per relay the address and the connection
    open,       \* the connections that are open
    calls,      \* per caller: where it is and what it has read
    view,       \* composeAircraftConnections
    spent       \* what has been used of the bounds

routingVars == <<registry, actual, clock, cache, pool, open, calls, view, spent>>

NoEntry == [relay |-> None, address |-> None, expires |-> 0]
NoConnection == [address |-> None, conn |-> 0]

\* A call: its agent, deadline and attempt, the placement it uses, its
\* connection, how it ended, and whether the registry has been right and every
\* answer has arrived since it started.
IdleCall ==
    [pc |-> "idle", agent |-> None, deadline |-> 0, attempt |-> 0, at |-> NoEntry,
     conn |-> 0, result |-> None, undisturbed |-> FALSE]

IdleView == [pc |-> "idle", jobs |-> << >>, busy |-> [w \in 1..Workers |-> None],
             done |-> 0, shown |-> [a \in Agents |-> None]]

\* Every agent is connected to some relay, and the registry knows.
RoutingInit ==
    /\ \E r \in Relays, f \in [Relays -> Addresses] :
          /\ \A p, q \in Relays : f[p] = f[q] => p = q
          /\ actual = [placements |-> [a \in Agents |-> r], relays |-> f]
    /\ registry = actual
    /\ clock = 0
    /\ cache = [a \in Agents |-> NoEntry]
    /\ pool = [r \in Relays |-> NoConnection]
    /\ open = {}
    /\ calls = [c \in Callers |-> IdleCall]
    /\ view = IdleView
    /\ spent = [moves |-> 0, calls |-> 0]

-----------------------------------------------------------------------------
(* Agents, relays and time.                                                *)

WithinBounds == spent.moves + spent.calls + clock < MaxEvents
MayMove == spent.moves < MaxMoves /\ WithinBounds

Disturbed == [c \in Callers |-> [calls[c] EXCEPT !.undisturbed = FALSE]]

Move(new) ==
    /\ MayMove
    /\ spent' = [spent EXCEPT !.moves = @ + 1]
    /\ actual' = new
    /\ calls' = Disturbed
    /\ UNCHANGED <<registry, clock, cache, pool, open, view>>

\* An agent disconnects or reconnects elsewhere; a relay restarts elsewhere or
\* stops.
AgentMoves(a) ==
    \E r \in (Relays \cup {None}) \ {actual.placements[a]} :
        Move([actual EXCEPT !.placements[a] = r])
RelayMoves(r) ==
    \E x \in (Addresses \cup {None}) \ {actual.relays[p] : p \in Relays} :
        Move([actual EXCEPT !.relays[r] = x])

\* RegisterAgent (SetLiveAircraftState for an agent that is gone) and
\* RegisterRelay: the registry hears of it.
RegisterAgent(a) ==
    /\ registry.placements[a] # actual.placements[a]
    /\ registry' = [registry EXCEPT !.placements[a] = actual.placements[a]]
    /\ calls' = Disturbed
    /\ UNCHANGED <<actual, clock, cache, pool, open, view, spent>>
RegisterRelay(r) ==
    /\ registry.relays[r] # actual.relays[r]
    /\ registry' = [registry EXCEPT !.relays[r] = actual.relays[r]]
    /\ calls' = Disturbed
    /\ UNCHANGED <<actual, clock, cache, pool, open, view, spent>>

Tick ==
    /\ clock < MaxClock /\ WithinBounds
    /\ clock' = clock + 1
    /\ UNCHANGED <<registry, actual, cache, pool, open, calls, view, spent>>

-----------------------------------------------------------------------------
(* Service.call and Service.resolve.                                       *)

Step(c, new) ==
    /\ calls' = [calls EXCEPT ![c] = new]
    /\ UNCHANGED <<registry, actual, clock, view>>
Reading == UNCHANGED <<cache, pool, open, spent>>

Ended(k, result) == [IdleCall EXCEPT !.pc = "ended", !.result = result,
                                     !.undisturbed = k.undisturbed]
InTime(k) == clock <= k.deadline

StartCall(c, a) ==
    /\ calls[c].pc \in {"idle", "ended"} /\ spent.calls < MaxCalls /\ WithinBounds
    /\ spent' = [spent EXCEPT !.calls = @ + 1]
    /\ Step(c, [IdleCall EXCEPT !.pc = "cache", !.agent = a,
                  !.deadline = clock + Timeout,
                  !.undisturbed = registry = actual /\ actual.placements[a] # None
                                  /\ actual.relays[actual.placements[a]] # None])
    /\ UNCHANGED <<cache, pool, open>>

\* Wrong: the second attempt may use the cache as well.
MayUseCacheAgain(k) == cache[k.agent].relay # None /\ clock < cache[k.agent].expires

\* The first attempt may use an entry that has not expired.
MayUseCache(k) ==
    /\ k.attempt = 0
    /\ cache[k.agent].relay # None /\ clock < cache[k.agent].expires

ReadCache(c) ==
    LET k == calls[c] IN
    /\ k.pc = "cache"
    /\ Step(c, IF MayUseCache(k)
               THEN [k EXCEPT !.pc = "client", !.at = cache[k.agent]]
               ELSE [k EXCEPT !.pc = "placement"])
    /\ Reading

\* GetAgentPlacement; a request that is late or finds nothing ends the call.
ReadPlacement(c) ==
    LET k == calls[c]
        r == registry.placements[k.agent]
    IN
    /\ k.pc = "placement"
    /\ Step(c, IF InTime(k) /\ r # None
               THEN [k EXCEPT !.pc = "relays",
                              !.at = [NoEntry EXCEPT !.relay = r]]
               ELSE Ended(k, IF InTime(k) THEN "no placement" ELSE "timeout"))
    /\ Reading

\* ListRelays and relayAddress.
ReadRelays(c) ==
    LET k == calls[c]
        x == registry.relays[k.at.relay]
    IN
    /\ k.pc = "relays"
    /\ Step(c, IF InTime(k) /\ x # None
               THEN [k EXCEPT !.pc = "store", !.at.address = x,
                              !.at.expires = clock + TTL]
               ELSE Ended(k, IF InTime(k) THEN "no address" ELSE "timeout"))
    /\ Reading

\* The entry is written whatever the cache holds by now.
StoreCache(c) ==
    LET k == calls[c] IN
    /\ k.pc = "store"
    /\ cache' = [cache EXCEPT ![k.agent] = k.at]
    /\ Step(c, [k EXCEPT !.pc = "client"])
    /\ UNCHANGED <<pool, open, spent>>

\* A connection that is neither open nor in use.
NewConnection ==
    CHOOSE n \in 1..(2 * Cardinality(Relays) + Cardinality(Callers) + 1) :
        n \notin open \cup {calls[c].conn : c \in Callers}

\* Wrong: a connection to an old address is forgotten, not closed.
ClientWithoutClose(c) ==
    LET k == calls[c]
        r == k.at.relay
    IN
    /\ k.pc = "client"
    /\ \/ /\ pool[r].address = k.at.address
          /\ Step(c, [k EXCEPT !.pc = "invoke", !.conn = pool[r].conn])
          /\ Reading
       \/ /\ pool[r].address # k.at.address
          /\ pool' = [pool EXCEPT ![r] = [address |-> k.at.address, conn |-> NewConnection]]
          /\ open' = open \cup {NewConnection}
          /\ Step(c, [k EXCEPT !.pc = "invoke", !.conn = NewConnection])
          /\ UNCHANGED <<cache, spent>>

\* grpcPool.Client: the connection of the relay if it goes to that address;
\* otherwise it is closed, also while others use it, and replaced.  Dialling
\* does not wait for the relay.
Client(c) ==
    LET k == calls[c]
        r == k.at.relay
    IN
    /\ k.pc = "client"
    /\ \/ /\ pool[r].address = k.at.address
          /\ Step(c, [k EXCEPT !.pc = "invoke", !.conn = pool[r].conn])
          /\ Reading
       \/ /\ pool[r].address # k.at.address
          /\ pool' = [pool EXCEPT ![r] = [address |-> k.at.address, conn |-> NewConnection]]
          /\ open' = (open \ {pool[r].conn}) \cup {NewConnection}
          /\ Step(c, [k EXCEPT !.pc = "invoke", !.conn = NewConnection])
          /\ UNCHANGED <<cache, spent>>

\* Only codes.Unavailable on the first attempt is worth a second.
MayRetry(k) == k.attempt = 0

Unavailable(k) ==
    IF MayRetry(k) THEN [k EXCEPT !.pc = "forget"]
    ELSE Ended(k, "unavailable")

\* The command travels.  A connection somebody closed refuses it; nothing
\* listens at the address; the relay does not have the agent; the agent
\* executes it; or it takes too long, or the answer is lost on the way.
Invoke(c) ==
    LET k == calls[c]
        reached == /\ InTime(k) /\ k.conn \in open
                   /\ actual.relays[k.at.relay] = k.at.address
    IN
    /\ k.pc = "invoke"
    /\ \/ /\ ~InTime(k)
          /\ Step(c, Ended(k, "timeout")) /\ Reading
       \/ /\ InTime(k) /\ k.conn \notin open
          /\ Step(c, Ended(k, "closing")) /\ Reading
       \/ /\ InTime(k) /\ k.conn \in open /\ ~reached
          /\ Step(c, Unavailable(k)) /\ Reading
       \/ /\ reached /\ actual.placements[k.agent] # k.at.relay
          /\ Step(c, Unavailable(k)) /\ Reading
       \/ /\ reached /\ actual.placements[k.agent] = k.at.relay
          /\ Step(c, Ended(k, "ok")) /\ Reading
       \/ /\ reached /\ MayMove
          /\ spent' = [spent EXCEPT !.moves = @ + 1]
          /\ Step(c, Unavailable([k EXCEPT !.undisturbed = FALSE]))
          /\ UNCHANGED <<cache, pool, open>>

\* invalidate: the entry, whoever wrote it, and then the connection.
Forget(c) ==
    LET k == calls[c] IN
    /\ k.pc = "forget"
    /\ cache' = [cache EXCEPT ![k.agent] = NoEntry]
    /\ Step(c, [k EXCEPT !.pc = "drop"])
    /\ UNCHANGED <<pool, open, spent>>

DropConnection(c) ==
    LET k == calls[c]
        r == k.at.relay
    IN
    /\ k.pc = "drop"
    /\ open' = open \ {pool[r].conn}
    /\ pool' = [pool EXCEPT ![r] = NoConnection]
    /\ Step(c, [k EXCEPT !.pc = "cache", !.attempt = 1])
    /\ UNCHANGED <<cache, spent>>

CallStep(c) ==
    \/ ReadCache(c) \/ ReadPlacement(c) \/ ReadRelays(c) \/ StoreCache(c)
    \/ Client(c) \/ Invoke(c) \/ Forget(c) \/ DropConnection(c)

RoutingNext ==
    \/ \E a \in Called : AgentMoves(a) \/ RegisterAgent(a)
    \/ \E r \in Relays : RelayMoves(r) \/ RegisterRelay(r)
    \/ Tick
    \/ \E c \in Callers : CallStep(c) \/ \E a \in Called : StartCall(c, a)

-----------------------------------------------------------------------------
(* composeAircraftConnections and lookupPlacements.                        *)

ViewStep(new) ==
    /\ view' = new
    /\ UNCHANGED <<registry, actual, clock, cache, pool, open, calls, spent>>

Goroutines(n) == 1..(IF n < Workers THEN n ELSE Workers)

\* ListAgents has answered: one lookup per agent in a closed channel, and the
\* goroutines start.  They take agents in the order of the channel.
StartView(order) ==
    /\ view.pc = "idle"
    /\ ViewStep([IdleView EXCEPT !.pc = "lookup", !.jobs = order])

TakeLookup(w) ==
    /\ view.pc = "lookup" /\ view.busy[w] = None /\ view.jobs # << >>
    /\ ViewStep([view EXCEPT !.jobs = Tail(@), !.busy[w] = Head(view.jobs)])

\* GetAgentPlacement answers, with a relay or with NotFound, or fails.
FinishLookup(w) ==
    /\ view.pc = "lookup" /\ view.busy[w] \in Agents
    /\ LET r == registry.placements[view.busy[w]] IN
       \E x \in {IF r = None THEN "offline" ELSE r, "unavailable"} :
          ViewStep([view EXCEPT !.busy[w] = None, !.shown[view.busy[w]] = x])

\* The channel is empty: the goroutine signals and is gone.
SignalDone(w) ==
    /\ view.pc = "lookup" /\ view.busy[w] = None /\ view.jobs = << >>
    /\ ViewStep([view EXCEPT !.busy[w] = "gone", !.done = @ + 1])

\* Wrong: the first goroutine that is through ends the wait.
ShowFirst(n) ==
    /\ view.pc = "lookup" /\ view.done > 0
    /\ ViewStep([view EXCEPT !.pc = "shown"])

\* One signal per goroutine.
ShowView(n) ==
    /\ view.pc = "lookup" /\ view.done = Cardinality(Goroutines(n))
    /\ ViewStep([view EXCEPT !.pc = "shown"])

EndView == view.pc = "shown" /\ ViewStep(IdleView)

ViewNext ==
    \/ \E a \in Agents : AgentMoves(a) \/ RegisterAgent(a)
    \/ \E order \in {s \in [1..Cardinality(Agents) -> Agents] :
                       \A i, j \in DOMAIN s : s[i] = s[j] => i = j} : StartView(order)
    \/ \E w \in Goroutines(Cardinality(Agents)) :
          TakeLookup(w) \/ FinishLookup(w) \/ SignalDone(w)
    \/ ShowView(Cardinality(Agents)) \/ EndView

-----------------------------------------------------------------------------
(* Properties.                                                             *)

\* A call during which the registry is right and no answer is lost succeeds,
\* however stale the cache was and even if another call, which asked the
\* registry earlier, writes an old placement back between its two attempts;
\* unless it runs out of time or another call closes the connection under it.
RightRegistrySuffices ==
    \A c \in Callers : calls[c].pc = "ended" /\ calls[c].undisturbed
        => calls[c].result \in {"ok", "timeout", "closing"}

\* The view is composed when every agent has been looked up and no goroutine is
\* still going to write its result.
ViewIsWhole ==
    view.pc = "shown" =>
        /\ \A a \in Agents : view.shown[a] # None
        /\ \A w \in 1..Workers : view.busy[w] \notin Agents

\* Every connection that was opened is in the pool or closed: calls that race
\* to replace or drop a connection leak none.
NoLeakedConnection == open = {pool[r].conn : r \in Relays} \ {0}

=============================================================================
