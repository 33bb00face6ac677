----------------------------- MODULE IntentRows -----------------------------
(***************************************************************************)
(* The rows of table operational_intents that belong to one intent: one    *)
(* row per version, each with its lifecycle status and the revision that   *)
(* fences concurrent writers.  Every write of the durable store that       *)
(* changes such rows is an operator from the old rows to the new ones; the *)
(* preconditions (latest version, expected revision) are predicates of     *)
(* their own, so that IntentLifecycle and DSSPublication share them.       *)
(* All other columns of a row (times, names, altitudes) are left out: no   *)
(* transition looks at them.                                               *)
(*                                                                         *)
(* Definitions whose comment starts with "Wrong:" are not used by the      *)
(* specifications; each is a plausible mistake in the one that follows it. *)
(***************************************************************************)
EXTENDS Naturals

CONSTANT MaxVersion     \* bound: versions an intent may reach

ASSUME MaxVersionAssumption == MaxVersion \in Nat \ {0}

Versions == 1..MaxVersion

\* domain.IntentStatus, and "none" for a version that has no row.
IntentStatus == {"draft", "submitted", "review", "accepted", "active",
                 "complete", "canceled", "superseded"}

Row == [status : IntentStatus \cup {"none"}, rev : Nat]

NoRow == [status |-> "none", rev |-> 0]

\* The statuses that reserve airspace, and the ones no transition leaves.
Reserving == {"accepted", "active"}
Terminal == {"complete", "canceled"}

\* Statuses each service operation starts from (the "allowed" maps).
Submittable == {"draft"}
Acceptable == {"submitted", "review"}
Modifiable == {"draft", "submitted", "accepted"}
Completable == {"active"}
Cancelable == {"draft", "submitted", "review", "accepted", "active"}

Exists(rows, v) == rows[v].status # "none"

\* GetOperationalIntent: ORDER BY version DESC LIMIT 1.
IsLatest(rows, v) ==
    /\ Exists(rows, v)
    /\ \A w \in Versions : w > v => ~Exists(rows, w)

\* What the transactions compare before they write: the row read earlier is
\* still the latest version and carries the revision that was read.
Unchanged(rows, v, rev) == IsLatest(rows, v) /\ rows[v].rev = rev

\* The older accepted versions take status s (superseded, or the terminal
\* status of the version that ends the intent); every row written gets the
\* next revision.
SetWithPrior(rows, v, own, prior) ==
    [w \in Versions |->
        IF w = v THEN [status |-> own, rev |-> rows[v].rev + 1]
        ELSE IF w < v /\ rows[w].status = "accepted"
             THEN [status |-> prior, rev |-> rows[w].rev + 1]
             ELSE rows[w]]

\* acceptOperationalIntentTx.
AcceptRow(rows, v) == SetWithPrior(rows, v, "accepted", "superseded")

\* Wrong: the end of a version supersedes the accepted one before it.
UpdateRowSupersedes(rows, v, s) ==
    IF s \in Terminal
    THEN SetWithPrior(rows, v, s, "superseded")
    ELSE [rows EXCEPT ![v] = [status |-> s, rev |-> @.rev + 1]]

\* updateOperationalIntentTx and retirePriorAcceptedIntentsTx: a terminal
\* status is passed on to the older accepted versions, any other is not.
UpdateRow(rows, v, s) ==
    IF s \in Terminal
    THEN SetWithPrior(rows, v, s, s)
    ELSE [rows EXCEPT ![v] = [status |-> s, rev |-> @.rev + 1]]

\* ModifyIntent and ReplaceOperationalIntent: an accepted version is left as
\* it is and a new draft version is inserted; a draft or submitted version is
\* changed in place.
ReplaceRow(rows, v) ==
    IF rows[v].status = "accepted"
    THEN [rows EXCEPT ![v + 1] = [status |-> "draft", rev |-> 0]]
    ELSE [rows EXCEPT ![v].rev = @ + 1]

=============================================================================
