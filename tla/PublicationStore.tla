-------------------------- MODULE PublicationStore --------------------------
(***************************************************************************)
(* What the durable store promises the intent service and the publication  *)
(* reconciler about one intent, as the in-memory store keeps it: maps from *)
(* keys to records, every operation under one lock.  A call that is        *)
(* refused changes nothing and is no step here.                            *)
(*                                                                         *)
(* DSSPublication, whose transactions are those of the Postgres store, is  *)
(* shown to implement this specification (DSSPublicationStore): whatever   *)
(* the services do, the development store would have answered alike, and   *)
(* every write of theirs is one of these atomic operations, fenced by a    *)
(* revision the writer was given.                                          *)
(***************************************************************************)
EXTENDS Integers

CONSTANTS
    Callers,        \* who may hold a claimed publication
    Ended           \* the statuses that end an intent

VARIABLES
    operationalIntents,  \* a set of [version, status, rev], one per version
    publications,        \* no or one publication
    leased,              \* whether LeaseUntil lies in the future
    peerNotifications,   \* the notifications queued so far, with their ids
    holds                \* per caller: the revision it has claimed, or -1

storeVars == <<operationalIntents, publications, leased, peerNotifications, holds>>

Unheld == -1
Release(c) == [holds EXCEPT ![c] = Unheld]

StoreInit ==
    /\ \E s \in {"draft", "review", "accepted"} :
          operationalIntents = {[version |-> 1, status |-> s, rev |-> 0]}
    /\ publications = {}
    /\ leased = FALSE
    /\ peerNotifications = {}
    /\ holds = [c \in Callers |-> Unheld]

-----------------------------------------------------------------------------
(* Operational intents.                                                    *)

\* latestOperationalIntent.
Latest(r) == /\ r \in operationalIntents
             /\ \A other \in operationalIntents : other.version <= r.version

\* The map after the latest record r has been written with a status, and after
\* the accepted versions before it have been given one.
Written(r, status) ==
    (operationalIntents \ {r}) \cup {[r EXCEPT !.status = status, !.rev = @ + 1]}
Retired(records, r, status) ==
    {IF q.version < r.version /\ q.status = "accepted"
     THEN [q EXCEPT !.status = status, !.rev = @ + 1] ELSE q : q \in records}

\* updateOperationalIntentLocked.
Update(status) ==
    \E r \in operationalIntents :
        /\ Latest(r)
        /\ operationalIntents' =
             IF status \in Ended THEN Retired(Written(r, status), r, status)
             ELSE Written(r, status)

\* acceptOperationalIntentLocked.
Accept ==
    \E r \in operationalIntents :
        /\ Latest(r)
        /\ operationalIntents' = Retired(Written(r, "accepted"), r, "superseded")

\* ReplaceOperationalIntent: in place, or as the first revision of the version
\* after the latest.
Replace ==
    \E r \in operationalIntents :
        /\ Latest(r)
        /\ \/ operationalIntents' = Written(r, r.status)
           \/ operationalIntents' = operationalIntents \cup
                {[version |-> r.version + 1, status |-> "draft", rev |-> 0]}

-----------------------------------------------------------------------------
(* Publications.                                                           *)

\* requestPublicationLocked.
Request ==
    \E p \in publications' :
        /\ publications' = {p}
        /\ p.sync = "pending"
        /\ \E r \in operationalIntents' : r.version = p.desVer
        /\ publications = {} => p.rev = 0 /\ p.ovn = 0 /\ p.pubVer = 0
        /\ \A old \in publications :
              LET afresh == old.sync = "withdrawn" /\ p.desState # "Withdrawn" IN
              /\ p.rev = old.rev + 1
              /\ p.confState = old.confState
              /\ <<p.pubVer, p.dssVer, p.ovn>> =
                    IF afresh THEN <<0, 0, 0>> ELSE <<old.pubVer, old.dssVer, old.ovn>>

\* ClaimOperationalIntentPublication, ClaimDueOperationalIntentPublications.
Claim(c) ==
    \E old \in publications :
        /\ ~leased /\ leased'
        /\ publications' = {[old EXCEPT !.rev = @ + 1, !.sync = "processing"]}
        /\ holds' = [holds EXCEPT ![c] = old.rev + 1]

\* RenewOperationalIntentPublicationLease.
Renew(c) ==
    /\ \E p \in publications : p.rev = holds[c]
    /\ leased'
    /\ UNCHANGED <<publications, holds>>

\* UpdateOperationalIntentPublication, ConfirmOperationalIntentPublication and
\* enqueuePeerNotificationsLocked: the caller's record, whatever it says.
Record(c) ==
    \E old \in publications, p \in publications' :
        /\ old.rev = holds[c]
        /\ publications' = {p} /\ p.rev = old.rev + 1
        /\ ~leased'
        /\ holds' = Release(c)

Enqueue ==
    /\ peerNotifications \subseteq peerNotifications'
    /\ \A m, n \in peerNotifications' : m.id = n.id => m = n

\* Time passes; a caller gives up, crashes or is told of a conflict.
LeaseEnds == leased /\ ~leased' /\ UNCHANGED holds
GiveUp(c) == holds[c] # Unheld /\ holds' = Release(c) /\ UNCHANGED leased

-----------------------------------------------------------------------------
Statuses == {"submitted", "active"} \cup Ended

StoreNext ==
    \/ /\ \/ Accept /\ Request
          \/ \E s \in Ended : Update(s) /\ Request
          \/ (\E s \in Statuses : Update(s)) /\ UNCHANGED publications
          \/ Replace /\ UNCHANGED publications
          \/ Request /\ UNCHANGED operationalIntents
       /\ UNCHANGED <<leased, peerNotifications, holds>>
    \/ /\ \E c \in Callers : Claim(c) \/ Renew(c)
       /\ UNCHANGED <<operationalIntents, peerNotifications>>
    \/ /\ \E c \in Callers : Record(c) /\ Enqueue
       /\ UNCHANGED operationalIntents
    \/ /\ LeaseEnds \/ \E c \in Callers : GiveUp(c)
       /\ UNCHANGED <<operationalIntents, publications, peerNotifications>>

StoreSpec == StoreInit /\ [][StoreNext]_storeVars

=============================================================================
