------------------------ MODULE DSSPublicationStore -------------------------
(***************************************************************************)
(* DSSPublication, whose transactions are those of the Postgres store, as  *)
(* an implementation of PublicationStore, the in-memory store.             *)
(***************************************************************************)
EXTENDS DSSPublication, Integers

\* A notification and its id (SameId).
Identified(n) == [id |-> <<n.dssVer, IF n.dssVer = 0 THEN n.ver ELSE 0>>, of |-> n]

\* The rows of the intent as a map, the publication row as a map that may be
\* empty, and the revision each process was given when it claimed.
Store == INSTANCE PublicationStore WITH
    Callers <- Procs,
    Ended <- Terminal,
    operationalIntents <-
        {[version |-> v, status |-> rows[v].status, rev |-> rows[v].rev] :
            v \in {v \in Versions : Exists(rows, v)}},
    publications <- IF pub.sync = "absent" THEN {} ELSE {pub},
    leased <- lease # "free",
    peerNotifications <- {Identified(n) : n \in outbox},
    holds <- [p \in Procs |-> IF pc[p] \in Reconciling THEN job[p].rev ELSE -1]

\* Every transaction of the intent service and the reconciler is one operation
\* of the in-memory store: one lock, the same records, the same fences.  A
\* result is recorded only by the holder of the revision it replaces.
ImplementsStore == Store!StoreSpec

=============================================================================
