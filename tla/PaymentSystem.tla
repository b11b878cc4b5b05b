---------------------------- MODULE PaymentSystem ----------------------------
(***************************************************************************)
(* order-api and the payment workers together, joined by the order topic   *)
(* and the orders table.  order-api is the module OrderApi.  Of the        *)
(* workers only what they commit is kept: an attempt at a job debits the   *)
(* account and writes "success", or writes "failed" or "retrying", or      *)
(* commits nothing.  Jobs are delivered again and ProcessPayment does not  *)
(* look at the order's status, so that nothing bounds the attempts or      *)
(* orders their outcomes, and nothing promises one.                        *)
(*                                                                         *)
(* What neither service shows alone: a job knows its order by the          *)
(* idempotency key, which is not unique in the table, and every status     *)
(* update of a job changes all rows with its key.                          *)
(***************************************************************************)
EXTENDS OrderApi

CONSTANT MaxPaid    \* bound: debits of one job that are counted

ASSUME PaidAssumption == MaxPaid \in Nat \ {0}

VARIABLES
    paid,       \* debits committed for the job of each request
    status      \* status column of its row, "pending" until a job changes it

workerVars == <<paid, status>>
sysVars    == <<vars, workerVars>>

Statuses == {"pending", "retrying", "success", "failed"}

SysTypeOK ==
    /\ TypeOK
    /\ paid \in [Requests -> 0 .. MaxPaid]
    /\ status \in [Requests -> Statuses]

SysInit ==
    /\ Init
    /\ paid = [r \in Requests |-> 0]
    /\ status = [r \in Requests |-> "pending"]

-----------------------------------------------------------------------------
SameKey(r) == {q \in Requests : KeyOf[q] = KeyOf[r]}

\* UPDATE orders SET status ... WHERE idempotency_key: all rows of the key, but
\* for those inserted between the statement and its commit.
UpdateStatus(r, s) ==
    \E later \in SUBSET ((rows \cap SameKey(r)) \ {r}) :
        status' = [q \in Requests |->
            IF q \in (rows \cap SameKey(r)) \ later THEN s ELSE status[q]]

\* An attempt, or the channel handler, commits a status and no debit.
Mark(r, s) ==
    /\ r \in topic
    /\ UpdateStatus(r, s)
    /\ UNCHANGED <<vars, paid>>

\* Marked for a retry, though an earlier delivery may have been paid.
Retry(r) == Mark(r, "retrying")

\* Given up: suspicious, not covered, or retried too often.
Fail(r) == Mark(r, "failed")

\* The debit and the status are committed in one transaction; a redelivered job
\* is debited again.
Pay(r) ==
    /\ r \in topic
    /\ paid' = [paid EXCEPT ![r] = IF @ < MaxPaid THEN @ + 1 ELSE @]
    /\ UpdateStatus(r, "success")
    /\ UNCHANGED vars

\* What an attempt at the job of r commits.
Attempt(r) == Retry(r) \/ Fail(r) \/ Pay(r)

SysNext ==
    \/ Next /\ UNCHANGED workerVars
    \/ \E r \in Requests : Attempt(r)

\* order-api's fairness; the workers may leave a job alone for good.
SysSpec ==
    /\ SysInit /\ [][SysNext]_sysVars
    /\ Fairness

-----------------------------------------------------------------------------
(* Properties. *)

\* A client pays only for a request that was not refused: whatever order-api
\* failed at, and although a commit whose answer was lost leaves a row behind,
\* one told of an error or a conflict is never debited for that request.  Of the
\* requests a waiting client sent with one key, at most one is ever debited
\* (though a redelivered job debits it again).
DebitsAreAccepted ==
    \A r \in Requests : paid[r] > 0 =>
        /\ response[r] \in {"none", "CREATED"}
        /\ KeyOf[r] \in Patient => \A q \in SameKey(r) : paid[q] > 0 => q = r

\* Although a job writes to the rows of all orders with its key, the status of a
\* waiting client's order is changed by attempts at that order's own job alone.
OwnJobWrites ==
    [][\A r \in rows :
          KeyOf[r] \in Patient /\ status'[r] # status[r] => Attempt(r)]_sysVars
=============================================================================
