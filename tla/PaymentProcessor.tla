-------------------------- MODULE PaymentProcessor --------------------------
(***************************************************************************)
(* PaymentProcessorConfig.ProcessPayment (payment_service.go): goroutines  *)
(* of all worker processes, each running one call at a time, over the      *)
(* Redis account lock, the Postgres primary with its transactions and row  *)
(* locks, the read replicas and the unbuffered retry channel.              *)
(*                                                                         *)
(* The caller is left open: any idle goroutine may be called for any order *)
(* at most MaxCalls times, which covers retries, redelivery and several    *)
(* workers with the same job.  PaymentWorker closes it with the real       *)
(* callers.  The verdict of the fraud detector is an input, and the Redis  *)
(* average-amount cache UpdateBalanceAvgCount refreshes belongs to the     *)
(* fraud detector, which reads it; neither is state here.                  *)
(***************************************************************************)
EXTENDS Integers, FiniteSets

CONSTANTS Procs, Orders, Accounts,
          Readers,         \* read replicas
          AccountOf,       \* job.AccountID
          Amount,          \* the decrypted job.Amount
          InitialBalance,
          BadOrders,       \* orders whose amount does not decrypt
          FraudFlags,      \* verdicts the fraud detector may give
          MaxCalls,        \* bound: calls of ProcessPayment per order
          MaxConns,        \* size of the primary's connection pool
          SharedPool,      \* no replica configured: reads use the primary's pool
          LeaseExpires,    \* may the 20s lock TTL pass while its holder works?
          ReplicaLags,     \* may a replica be behind the primary?
          Faults,          \* may a Redis or Postgres command fail?
          Cancels,         \* may the context be cancelled?
          None

ASSUME DataAssumption ==
    /\ AccountOf \in [Orders -> Accounts]
    /\ Amount \in [Orders -> Nat \ {0}]
    /\ InitialBalance \in [Accounts -> Nat]
    /\ BadOrders \subseteq Orders
    /\ FraudFlags \subseteq {"clean", "unknown", "suspicious"}

ASSUME BoundAssumption == MaxCalls \in Nat /\ MaxConns \in Nat \ {0}

ASSUME SwitchAssumption ==
    /\ {LeaseExpires, ReplicaLags, SharedPool, Faults, Cancels} \subseteq BOOLEAN
    /\ SharedPool => ~ReplicaLags

\* pkg.OrderStatus
Status == {"pending", "success", "retrying", "failed"}

\* An accounts row: balance, order_count and avg_order_amount.  Money is in
\* cents: amounts and balances have two decimals.
Record == [balance : Int, count : Nat, avg : Nat]

ASSUME NoneAssumption == None \notin Orders /\ None \notin Status /\ None \notin Record

\* Where a goroutine stands in ProcessPayment.
Sending  == {"sendBusy", "sendFraud", "sendTx"}          \* p.RetryChannel <- job
Critical == {"begin", "check", "fraud", "unknown", "sendFraud", "transact",
             "sendTx", "late", "update", "succeed", "fail", "del"}
InTx     == (Critical \ {"begin"}) \cup {"busy", "sendBusy", "commit"}
Labels   == {"idle", "setnx", "begin", "return"} \cup InTx

VARIABLES
    account,    \* accounts rows on the primary
    status,     \* orders.status on the primary
    replica,    \* accounts rows on each replica
    lock,       \* does the Redis key lock:account:<a> exist?
    pc, job, got, read, result,     \* locals of each goroutine
    txStatus, txAccount, doomed,    \* its transaction: uncommitted writes, aborted?
    cancelled,  \* the shared context
    calls,      \* history: calls per order
    paid,       \* history: committed debits per order
    debited     \* history: total committed debits per account

store  == <<account, status, replica, paid, debited>>
local  == <<job, got, read, result>>
tx     == <<txStatus, txAccount, doomed>>
vars   == <<store, lock, pc, local, tx, cancelled, calls>>

TypeOK ==
    /\ account \in [Accounts -> Record]
    /\ status \in [Orders -> Status]
    /\ replica \in [Readers -> [Accounts -> Record]]
    /\ lock \in [Accounts -> BOOLEAN]
    /\ pc \in [Procs -> Labels]
    /\ job \in [Procs -> Orders \cup {None}]
    /\ \A g \in Procs : pc[g] # "idle" => job[g] \in Orders
    /\ got \in [Procs -> BOOLEAN]
    /\ read \in [Procs -> Record \cup {None}]
    /\ \A g \in Procs : pc[g] \in {"fraud", "transact", "update"} => read[g] # None
    /\ result \in [Procs -> {"ok", "err"}]
    /\ txStatus \in [Procs -> Status \cup {None}]
    /\ txAccount \in [Procs -> Record \cup {None}]
    /\ doomed \in [Procs -> BOOLEAN]
    /\ \A g \in Procs : pc[g] \notin InTx =>
          txStatus[g] = None /\ txAccount[g] = None /\ ~doomed[g]
    /\ cancelled \in BOOLEAN
    /\ calls \in [Orders -> 0 .. MaxCalls]
    /\ paid \in [Orders -> Nat]
    /\ debited \in [Accounts -> Nat]

Fresh(a) == [balance |-> InitialBalance[a], count |-> 0, avg |-> 0]

Init ==
    /\ account = [a \in Accounts |-> Fresh(a)]
    /\ status = [o \in Orders |-> "pending"]
    /\ replica = [r \in Readers |-> [a \in Accounts |-> Fresh(a)]]
    /\ lock = [a \in Accounts |-> FALSE]
    /\ pc = [g \in Procs |-> "idle"]
    /\ job = [g \in Procs |-> None]
    /\ got = [g \in Procs |-> FALSE]
    /\ read = [g \in Procs |-> None]
    /\ result = [g \in Procs |-> "err"]
    /\ txStatus = [g \in Procs |-> None]
    /\ txAccount = [g \in Procs |-> None]
    /\ doomed = [g \in Procs |-> FALSE]
    /\ cancelled = FALSE
    /\ calls = [o \in Orders |-> 0]
    /\ paid = [o \in Orders |-> 0]
    /\ debited = [a \in Accounts |-> 0]

-----------------------------------------------------------------------------
\* Goroutine g moves from label from to label to.
Goto(g, from, to) == pc[g] = from /\ pc' = [pc EXCEPT ![g] = to]

\* A command that takes the context may fail, and must once it is cancelled.
Works == ~cancelled
Fails == Faults \/ cancelled

Acct(g) == AccountOf[job[g]]

\* Row locks: an UPDATE waits for the other transactions that wrote the row.
OrderRowFree(g) ==
    \A h \in Procs \ {g} : job[h] = job[g] => txStatus[h] = None
AccountRowFree(g) ==
    \A h \in Procs \ {g} : txAccount[h] # None => Acct(h) # Acct(g)

\* A connection of the pool is free for one more transaction or statement.
ConnFree == Cardinality({g \in Procs : pc[g] \in InTx}) < MaxConns

\* A read is sent to a reader's own pool, or to the primary's when there is none.
ReadConnFree == SharedPool => ConnFree

\* updateOrderStatus: an error is logged and swallowed, but it aborts the
\* transaction, and every later statement of it fails.
UpdateOrderStatus(g, st) ==
    \/ /\ Works /\ ~doomed[g] /\ OrderRowFree(g)
       /\ txStatus' = [txStatus EXCEPT ![g] = st]
       /\ UNCHANGED doomed
    \/ /\ Fails \/ doomed[g]
       /\ doomed' = [doomed EXCEPT ![g] = TRUE]
       /\ UNCHANGED txStatus

-----------------------------------------------------------------------------
(* ProcessPayment, step by step. *)

Call(g, o) ==
    /\ Goto(g, "idle", "setnx")
    /\ calls[o] < MaxCalls
    /\ calls' = [calls EXCEPT ![o] = @ + 1]
    /\ job' = [job EXCEPT ![g] = o]
    /\ got' = [got EXCEPT ![g] = FALSE]
    /\ result' = [result EXCEPT ![g] = "err"]
    /\ read' = [read EXCEPT ![g] = None]
    /\ UNCHANGED <<store, lock, tx, cancelled>>

\* Mutant of SetNX: an error is logged and the payment goes on.
SetNXFailsOpen(g) ==
    /\ Goto(g, "setnx", "begin")
    /\ \/ Works /\ got' = [got EXCEPT ![g] = ~lock[Acct(g)]]
       \/ Fails /\ got' = [got EXCEPT ![g] = TRUE]
    /\ lock' = [lock EXCEPT ![Acct(g)] = TRUE]
    /\ UNCHANGED <<store, job, read, result, tx, cancelled, calls>>

SetNX(g) ==
    \/ /\ Works
       /\ Goto(g, "setnx", "begin")
       /\ got' = [got EXCEPT ![g] = ~lock[Acct(g)]]
       /\ lock' = [lock EXCEPT ![Acct(g)] = TRUE]
       /\ UNCHANGED <<store, job, read, result, tx, cancelled, calls>>
    \/ /\ Fails        \* the key may have been set before the error
       /\ Goto(g, "setnx", "return")
       /\ \E set \in BOOLEAN : lock' = [lock EXCEPT ![Acct(g)] = @ \/ set]
       /\ UNCHANGED <<store, local, tx, cancelled, calls>>

\* DB.Begin.  On an error the lock, if it was taken, is left behind.
Begin(g) ==
    /\ \/ Works /\ ConnFree /\ got[g] /\ Goto(g, "begin", "check")
       \/ Works /\ ConnFree /\ ~got[g] /\ Goto(g, "begin", "busy")
       \/ Fails /\ Goto(g, "begin", "return")
    /\ UNCHANGED <<store, lock, local, tx, cancelled, calls>>

\* The account is locked by another process: mark the order, then retry.
AccountLocked(g) ==
    /\ Goto(g, "busy", "sendBusy")
    /\ UpdateOrderStatus(g, "retrying")
    /\ UNCHANGED <<store, lock, local, txAccount, cancelled, calls>>

\* Mutant of CheckAccountBalance: the balance is not compared with the amount.
CheckAccountUnfunded(g) ==
    /\ Goto(g, "check", "fraud")
    /\ \E r \in Readers : read' = [read EXCEPT ![g] = replica[r][Acct(g)]]
    /\ UNCHANGED <<store, lock, job, got, result, tx, cancelled, calls>>

Funded(rec, o) == rec.balance - Amount[o] >= 0

\* Decrypt the amount; checkAccountBalance reads the account from a reader,
\* outside the transaction.
CheckAccountBalance(g) ==
    /\ pc[g] = "check"
    /\ \/ /\ Works /\ ReadConnFree
          /\ job[g] \notin BadOrders
          /\ \E r \in Readers :
                LET rec == replica[r][Acct(g)] IN
                \/ /\ Funded(rec, job[g])
                   /\ Goto(g, "check", "fraud")
                   /\ read' = [read EXCEPT ![g] = rec]
                \/ /\ ~Funded(rec, job[g])
                   /\ Goto(g, "check", "fail")
                   /\ UNCHANGED read
       \/ /\ Fails \/ job[g] \in BadOrders
          /\ Goto(g, "check", "fail")
          /\ UNCHANGED read
    /\ UNCHANGED <<store, lock, job, got, result, tx, cancelled, calls>>

\* fraudWG.Wait and the branch of handleFraudResult on the verdict.
HandleFraudResult(g) ==
    /\ \/ "clean" \in FraudFlags /\ Goto(g, "fraud", "transact")
       \/ "unknown" \in FraudFlags /\ Goto(g, "fraud", "unknown")
       \/ "suspicious" \in FraudFlags /\ Goto(g, "fraud", "fail")
    /\ UNCHANGED <<store, lock, local, tx, cancelled, calls>>

FraudUnknown(g) ==
    /\ Goto(g, "unknown", "sendFraud")
    /\ UpdateOrderStatus(g, "retrying")
    /\ UNCHANGED <<store, lock, local, txAccount, cancelled, calls>>

\* processTransaction and the branch of handleTransactionResult.
ProcessTransaction(g) ==
    /\ \/ Goto(g, "transact", "update")
       \/ cancelled /\ Goto(g, "transact", "sendTx")
    /\ UNCHANGED <<store, lock, local, tx, cancelled, calls>>

\* On this branch the status is written only after the job was sent.
TransactionRetry(g) ==
    /\ Goto(g, "late", "del")
    /\ UpdateOrderStatus(g, "retrying")
    /\ UNCHANGED <<store, lock, local, txAccount, cancelled, calls>>

\* Float64ToByte formats total / n with two decimals: the nearest cent.  A tie
\* may go either way, since cents are not exact in binary.
Rounded(total, n) == {c \in 0 .. total : 2 * (c * n - total) \in -n .. n}

\* The row after a debit, with the count and the average computed from rec.
Debited(rec, amount) ==
    {[balance |-> rec.balance - amount, count |-> rec.count + 1, avg |-> c] :
        c \in Rounded(rec.avg * rec.count + amount, rec.count + 1)}

\* Mutant of UpdateBalanceAvgCount: the UPDATE goes to the pool instead of tx,
\* and takes effect whether or not the transaction commits.
UpdateBalanceAutocommit(g) ==
    /\ Goto(g, "update", "succeed")
    /\ \E new \in Debited(read[g], Amount[job[g]]) :
          /\ account' = [account EXCEPT ![Acct(g)] = new]
          /\ txAccount' = [txAccount EXCEPT ![g] = new]
    /\ UNCHANGED <<status, replica, paid, debited, lock, local, txStatus, doomed, cancelled, calls>>

\* Mutant of UpdateBalanceAvgCount: the average is computed from a second read.
UpdateBalanceRereadAvg(g) ==
    /\ Goto(g, "update", "succeed")
    /\ AccountRowFree(g)
    /\ \E new \in Debited(account[Acct(g)], Amount[job[g]]) :
          txAccount' = [txAccount EXCEPT ![g] =
              [new EXCEPT !.balance = read[g].balance - Amount[job[g]]]]
    /\ UNCHANGED <<store, lock, local, txStatus, doomed, cancelled, calls>>

\* UpdateBalanceAvgCount writes values computed from the row read before.
UpdateBalanceAvgCount(g) ==
    /\ pc[g] = "update"
    /\ \/ /\ Works /\ AccountRowFree(g)
          /\ Goto(g, "update", "succeed")
          /\ \E new \in Debited(read[g], Amount[job[g]]) :
                txAccount' = [txAccount EXCEPT ![g] = new]
          /\ UNCHANGED doomed
       \/ /\ Fails    \* encryption (the transaction survives) or the UPDATE
          /\ Goto(g, "update", "fail")
          /\ \E sql \in BOOLEAN : doomed' = [doomed EXCEPT ![g] = @ \/ sql]
          /\ UNCHANGED txAccount
    /\ UNCHANGED <<store, lock, local, txStatus, cancelled, calls>>

Succeed(g) ==
    /\ Goto(g, "succeed", "del")
    /\ UpdateOrderStatus(g, "success")
    /\ result' = [result EXCEPT ![g] = "ok"]
    /\ UNCHANGED <<store, lock, job, got, read, txAccount, cancelled, calls>>

Fail(g) ==
    /\ Goto(g, "fail", "del")
    /\ UpdateOrderStatus(g, "failed")
    /\ UNCHANGED <<store, lock, local, txAccount, cancelled, calls>>

\* The deferred calls run last-in first-out: the lock is deleted, whoever set
\* it, and only then is the transaction committed.
Del(g) ==
    /\ Goto(g, "del", "commit")
    /\ \/ Works /\ lock' = [lock EXCEPT ![Acct(g)] = FALSE]
       \/ Fails /\ UNCHANGED lock
    /\ UNCHANGED <<store, local, tx, cancelled, calls>>

\* The writes of g's transaction reach the primary.
Apply(g) ==
    /\ status' = IF txStatus[g] = None THEN status
                 ELSE [status EXCEPT ![job[g]] = txStatus[g]]
    /\ \/ txAccount[g] = None /\ UNCHANGED <<account, replica, paid, debited>>
       \/ /\ txAccount[g] # None
          /\ account' = [account EXCEPT ![Acct(g)] = txAccount[g]]
          /\ paid' = [paid EXCEPT ![job[g]] = @ + 1]
          /\ debited' = [debited EXCEPT ![Acct(g)] = @ + Amount[job[g]]]
          /\ replica' = IF ReplicaLags THEN replica
                        ELSE [r \in Readers |-> [replica[r] EXCEPT ![Acct(g)] = txAccount[g]]]

\* Mutant of Commit: after a failed commit the status is written once more, on
\* its own.
CommitStatusAnyway(g) ==
    /\ Goto(g, "commit", "return")
    /\ \/ Works /\ ~doomed[g] /\ Apply(g)
       \/ /\ Fails /\ txStatus[g] # None
          /\ status' = [status EXCEPT ![job[g]] = txStatus[g]]
          /\ UNCHANGED <<account, replica, paid, debited>>
    /\ txStatus' = [txStatus EXCEPT ![g] = None]
    /\ txAccount' = [txAccount EXCEPT ![g] = None]
    /\ doomed' = [doomed EXCEPT ![g] = FALSE]
    /\ UNCHANGED <<lock, local, cancelled, calls>>

\* A failed commit is logged; the call returns what it was going to return.  So
\* a commit that was executed and answered with an error is one that worked.
Commit(g) ==
    /\ Goto(g, "commit", "return")
    /\ \/ Works /\ ~doomed[g] /\ Apply(g)
       \/ (Fails \/ doomed[g]) /\ UNCHANGED store
    /\ txStatus' = [txStatus EXCEPT ![g] = None]
    /\ txAccount' = [txAccount EXCEPT ![g] = None]
    /\ doomed' = [doomed EXCEPT ![g] = FALSE]
    /\ UNCHANGED <<lock, local, cancelled, calls>>

\* Mutant of Sent: the commit is deferred after the return for a locked account.
SentNoCommit(g) ==
    /\ \/ Goto(g, "sendBusy", "return")
       \/ Goto(g, "sendFraud", "del")
       \/ Goto(g, "sendTx", "late")
    /\ UNCHANGED <<store, lock, local, tx, cancelled, calls>>

\* Mutant of Sent: handleFraudResult goes on after it has sent the job.
SentGoesOn(g) ==
    /\ \/ Goto(g, "sendBusy", "commit")
       \/ Goto(g, "sendFraud", "transact")
       \/ Goto(g, "sendTx", "late")
    /\ UNCHANGED <<store, lock, local, tx, cancelled, calls>>

\* The retry channel is unbuffered: a sender goes on when its job is taken.
Sent(g) ==
    /\ \/ Goto(g, "sendBusy", "commit")
       \/ Goto(g, "sendFraud", "del")
       \/ Goto(g, "sendTx", "late")
    /\ UNCHANGED <<store, lock, local, tx, cancelled, calls>>

\* The call is over and its locals are gone.
Return(g) ==
    /\ Goto(g, "return", "idle")
    /\ job' = [job EXCEPT ![g] = None]
    /\ got' = [got EXCEPT ![g] = FALSE]
    /\ result' = [result EXCEPT ![g] = "err"]
    /\ read' = [read EXCEPT ![g] = None]
    /\ UNCHANGED <<store, lock, tx, cancelled, calls>>

Run(g) ==
    \/ SetNX(g) \/ Begin(g) \/ AccountLocked(g) \/ CheckAccountBalance(g)
    \/ HandleFraudResult(g) \/ FraudUnknown(g) \/ ProcessTransaction(g)
    \/ TransactionRetry(g) \/ UpdateBalanceAvgCount(g) \/ Succeed(g)
    \/ Fail(g) \/ Del(g) \/ Commit(g)

-----------------------------------------------------------------------------
(* The environment. *)

Holder(a) == {g \in Procs : got[g] /\ pc[g] \in Critical /\ Acct(g) = a}

\* The key reaches its TTL.
Expire(a) ==
    /\ lock[a]
    /\ LeaseExpires \/ Holder(a) = {}
    /\ lock' = [lock EXCEPT ![a] = FALSE]
    /\ UNCHANGED <<store, pc, local, tx, cancelled, calls>>

\* A replica catches up.
Replicate(r, a) ==
    /\ replica[r][a] # account[a]
    /\ replica' = [replica EXCEPT ![r][a] = account[a]]
    /\ UNCHANGED <<account, status, paid, debited, lock, pc, local, tx, cancelled, calls>>

Cancel ==
    /\ Cancels /\ ~cancelled
    /\ cancelled' = TRUE
    /\ UNCHANGED <<store, lock, pc, local, tx, calls>>

Environment ==
    \/ Cancel
    \/ \E a \in Accounts : Expire(a) \/ \E r \in Readers : Replicate(r, a)

\* Every goroutine is idle.
Quiet ==
    /\ \A g \in Procs : pc[g] = "idle"
    /\ UNCHANGED vars

Next ==
    \/ \E g \in Procs :
          Run(g) \/ Sent(g) \/ Return(g) \/ \E o \in Orders : Call(g, o)
    \/ Environment
    \/ Quiet

\* Goroutines keep running and the retry channel keeps being read.
Fairness ==
    \A g \in Procs : WF_vars(Run(g)) /\ WF_vars(Sent(g)) /\ WF_vars(Return(g))

Spec == Init /\ [][Next]_vars /\ Fairness

-----------------------------------------------------------------------------
(* Properties. *)

\* Redis SetNX, the early return and the deferred Del give one goroutine at a
\* time the account, from the lock to its deletion, as long as no lease ends early.
LockExclusion ==
    \A g, h \in Procs :
        /\ g # h /\ got[g] /\ got[h]
        /\ pc[g] \in Critical /\ pc[h] \in Critical
        => Acct(g) # Acct(h)

\* Stale reads, expired leases, early unlocks and failed commits may lose debits
\* but never take money no committed payment accounts for.
NeverOverdebited ==
    \A a \in Accounts : account[a].balance >= InitialBalance[a] - debited[a]

\* No interleaving makes a balance negative: every written balance was computed
\* from a row that covered the amount.
NeverNegative == \A a \in Accounts : account[a].balance >= 0

\* What the average of rec says was spent and what has left the balance differ
\* by no more than the roundings of the average can add up to.
Balanced(rec, a) ==
    LET n     == rec.count
        drift == rec.avg * n + rec.balance - InitialBalance[a]
    IN /\ 4 * drift <= n * (n + 1)
       /\ -4 * drift <= n * (n + 1)

\* Balance, order count and average come from one read and reach the row in one
\* write, so they agree up to rounding, even when an update is lost.
BooksAgree == \A a \in Accounts : Balanced(account[a], a)

\* An order is only ever marked successful by a transaction that also debits.
SuccessIsPaid == \A o \in Orders : status[o] = "success" => paid[o] > 0

\* Row locks, the account lock and the unbuffered retry channel never leave a
\* call waiting for ever while the pool has a connection to spare.
CallsReturn == \A g \in Procs : pc[g] # "idle" ~> pc[g] = "idle"

\* The lock is there "to prevent race conditions": each account has been debited
\* by every payment that was committed against it.
NoLostUpdate ==
    \A a \in Accounts : account[a].balance = InitialBalance[a] - debited[a]
=============================================================================
