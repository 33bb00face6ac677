------------------------ MODULE PublicationDelivery -------------------------
(***************************************************************************)
(* The delivery of peer notifications, composed with DSSPublication, whose *)
(* outbox it empties.  Each background worker, when it is not reconciling, *)
(* claims a due notification under a lease, sends it, and records the      *)
(* outcome under the revision it claimed.  Requests and answers are lost,  *)
(* workers crash between sending and recording, leases run out under slow  *)
(* workers.  The peer is a USS that runs the same code: it records what it *)
(* is sent, once.                                                          *)
(*                                                                         *)
(* The outbox has one notification per change; the queue has those to one  *)
(* of the subscribers, each of which has rows of its own.                  *)
(***************************************************************************)
EXTENDS DSSPublication

VARIABLES
    queue,      \* peer_notifications: the progress of each one in the outbox
    courier,    \* per worker: the notification it is delivering
    received,   \* received_peer_notifications of the peer
    subscribed  \* whether the peer has subscriptions in the area

deliveryVars == <<queue, courier, received, subscribed>>
allVars == <<vars, deliveryVars>>

Queued == [rev |-> 0, holder |-> "free", delivered |-> FALSE]
Resting == [pc |-> "idle", note |-> [dssVer |-> 0, ver |-> 1], rev |-> 0, ok |-> FALSE]

DeliveryInit ==
    /\ Init
    /\ queue = << >>
    /\ courier = [w \in Workers |-> Resting]
    /\ received = {}
    /\ subscribed \in BOOLEAN

\* Disturbances of deliveries and of reconciliations have one bound.
Trouble == Spend("faults")
unconcerned == <<rows, pub, lease, external, outbox, local>>

\* A worker runs one step of its loop after the other.
Free(w) == pc[w] = "idle" /\ courier[w].pc = "idle"

-----------------------------------------------------------------------------
(* DeliverDuePeerNotifications.                                            *)

\* Wrong: a notification is claimed once, not again after a failure.
DueOnce(n) == queue[n].rev = 0

\* Not delivered, and leased by nobody.  The retry delay is over.
Due(n) == ~queue[n].delivered /\ queue[n].holder = "free"

\* ClaimDuePeerNotifications.
ClaimNotification(w) ==
    /\ Free(w)
    /\ \E n \in DOMAIN queue :
          /\ Due(n)
          /\ queue' = [queue EXCEPT ![n].rev = @ + 1, ![n].holder = w]
          /\ courier' = [courier EXCEPT ![w] =
                [Resting EXCEPT !.pc = "send", !.note = n, !.rev = queue[n].rev + 1]]
    /\ UNCHANGED <<received, subscribed, budget>>

\* handleNotifyUSSOperationalIntentChanged and RecordReceivedPeerNotification:
\* a notification that was received before is not recorded again.
Receive(n) == received' = received \cup {n}

\* DeliverPeerNotification: answered, or the request or its answer is lost.
SendNotification(w) ==
    LET sent(ok) == courier' = [courier EXCEPT ![w].pc = "record", ![w].ok = ok] IN
    /\ courier[w].pc = "send"
    /\ \/ sent(TRUE) /\ Receive(courier[w].note) /\ UNCHANGED budget
       \/ sent(FALSE) /\ Receive(courier[w].note) /\ Trouble
       \/ sent(FALSE) /\ UNCHANGED received /\ Trouble
    /\ UNCHANGED <<queue, subscribed>>

\* Wrong: once sent is taken for delivered.
RecordAsSent(w) ==
    LET c == courier[w] IN
    /\ c.pc = "record"
    /\ queue' = [queue EXCEPT ![c.note] =
                   [rev |-> c.rev + 1, holder |-> "free", delivered |-> TRUE]]
    /\ courier' = [courier EXCEPT ![w] = Resting]
    /\ UNCHANGED <<received, subscribed, budget>>

\* UpdatePeerNotification, refused when somebody claimed meanwhile.
RecordDelivery(w) ==
    LET c == courier[w] IN
    /\ c.pc = "record"
    /\ queue' = IF queue[c.note].rev = c.rev
                THEN [queue EXCEPT ![c.note] =
                        [rev |-> c.rev + 1, holder |-> "free", delivered |-> c.ok]]
                ELSE queue
    /\ courier' = [courier EXCEPT ![w] = Resting]
    /\ UNCHANGED <<received, subscribed, budget>>

\* lease_until passes; under a worker that is still at it, a disturbance.
ExpireDelivery(n) ==
    /\ queue[n].holder # "free"
    /\ IF courier[queue[n].holder].note = n /\ courier[queue[n].holder].pc # "idle"
       THEN Trouble ELSE UNCHANGED budget
    /\ queue' = [queue EXCEPT ![n].holder = "free"]
    /\ UNCHANGED <<courier, received, subscribed>>

\* The worker crashes and starts over, or fails to record the outcome.
AbandonDelivery(w) ==
    /\ courier[w].pc # "idle"
    /\ Trouble
    /\ courier' = [courier EXCEPT ![w] = Resting]
    /\ UNCHANGED <<queue, received, subscribed>>

-----------------------------------------------------------------------------
\* A step of DSSPublication: what it adds to the outbox is queued for the
\* subscriber, if there is one.
Enqueue ==
    /\ queue' = [n \in IF subscribed THEN outbox' ELSE {} |->
                    IF n \in DOMAIN queue THEN queue[n] ELSE Queued]
    /\ UNCHANGED <<courier, received, subscribed>>

\* A worker that delivers reconciles nothing meanwhile.
InTurn == \A w \in Workers : courier[w].pc # "idle" => pc'[w] = "idle"

Courier(w) == ClaimNotification(w) \/ SendNotification(w) \/ RecordDelivery(w)

DeliveryNext ==
    \/ Next /\ Enqueue /\ InTurn
    \/ /\ \/ \E w \in Workers : Courier(w) \/ AbandonDelivery(w)
          \/ \E n \in DOMAIN queue : ExpireDelivery(n)
       /\ UNCHANGED unconcerned

\* The worker loop claims publications and then notifications, and runs on;
\* leases run out.
DeliveryFairness ==
    /\ \A w \in Workers : /\ WF_allVars(ClaimDue(w) /\ Enqueue /\ InTurn)
                          /\ WF_allVars(Courier(w) /\ UNCHANGED unconcerned)
    /\ \A a \in Activators : WF_allVars(Activate(a) /\ Enqueue)
    /\ \A p \in Procs : WF_allVars(Reconcile(p) /\ Enqueue)
    /\ WF_allVars(ExpireLease /\ Enqueue)
    /\ WF_allVars((\E n \in DOMAIN queue : ExpireDelivery(n)) /\ UNCHANGED unconcerned)

DeliverySpec == DeliveryInit /\ [][DeliveryNext]_allVars /\ DeliveryFairness

-----------------------------------------------------------------------------
(* Properties.                                                             *)

\* A notification recorded as delivered has reached the peer and stays
\* delivered: a slow worker whose lease ran out cannot undo what another
\* worker recorded.
DeliveredForGood ==
    [][\A n \in DOMAIN queue : queue[n].delivered =>
          n \in received /\ queue'[n].delivered]_allVars

\* In the end the peer knows: it has heard of the confirmed reference and the
\* version it stands for; and if it ever heard of a reference that is
\* withdrawn, it has heard of the withdrawal.
EventuallyTold ==
    subscribed =>
    <>[](/\ pub.sync = "confirmed" =>
               [dssVer |-> pub.dssVer, ver |-> pub.pubVer] \in received
         /\ pub.sync = "withdrawn" /\ (\E n \in received : n.dssVer > 0) =>
               \E n \in received : n.dssVer = 0)

=============================================================================
