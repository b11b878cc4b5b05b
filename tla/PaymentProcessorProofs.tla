----------------------- MODULE PaymentProcessorProofs -----------------------
(***************************************************************************)
(* Proofs about PaymentProcessor for any goroutines, orders, accounts and  *)
(* replicas, and whatever is allowed to fail.                              *)
(***************************************************************************)
EXTENDS PaymentProcessor, TLAPS

USE DataAssumption, BoundAssumption, SwitchAssumption, NoneAssumption

LEMMA LabelFacts ==
    /\ Labels = {"idle", "setnx", "begin", "return", "check", "fraud", "unknown",
                 "sendFraud", "transact", "sendTx", "late", "update", "succeed",
                 "fail", "del", "busy", "sendBusy", "commit"}
    /\ InTx = Labels \ {"idle", "setnx", "begin", "return"}
    /\ Critical = Labels \ {"idle", "setnx", "return", "busy", "sendBusy", "commit"}
  BY DEF Labels, InTx, Critical

-----------------------------------------------------------------------------
(* Type correctness. *)

LEMMA InitType == Init => TypeOK
<1> SUFFICES ASSUME Init
             PROVE  TypeOK
  OBVIOUS
<1>1. \A a \in Accounts : Fresh(a) \in Record
  BY DEF Fresh, Record
<1>2. account \in [Accounts -> Record] /\ replica \in [Readers -> [Accounts -> Record]]
  BY <1>1 DEF Init
<1>3. calls \in [Orders -> 0 .. MaxCalls]
  BY DEF Init
<1>4. pc \in [Procs -> Labels] /\ \A g \in Procs : pc[g] = "idle"
  BY LabelFacts DEF Init
<1>5. status \in [Orders -> Status]
  BY DEF Init, Status
<1>6. \A g \in Procs : txStatus[g] = None /\ txAccount[g] = None /\ ~doomed[g]
  BY DEF Init
<1> QED
  BY <1>2, <1>3, <1>4, <1>5, <1>6 DEF Init, TypeOK

\* What updateOrderStatus does to a transaction.
LEMMA StatusType ==
    ASSUME TypeOK, NEW g \in Procs, NEW st \in Status, UpdateOrderStatus(g, st)
    PROVE  /\ txStatus' \in [Procs -> Status \cup {None}]
           /\ doomed' \in [Procs -> BOOLEAN]
           /\ \A h \in Procs \ {g} : txStatus'[h] = txStatus[h] /\ doomed'[h] = doomed[h]
           /\ txStatus'[g] \in {txStatus[g], st}
<1>1. CASE txStatus' = [txStatus EXCEPT ![g] = st] /\ UNCHANGED doomed
  BY <1>1 DEF TypeOK
<1>2. CASE doomed' = [doomed EXCEPT ![g] = TRUE] /\ UNCHANGED txStatus
  BY <1>2 DEF TypeOK
<1> QED
  BY <1>1, <1>2 DEF UpdateOrderStatus

\* A debit of a row is a row.
LEMMA DebitedRecord ==
    ASSUME NEW rec \in Record, NEW amount \in Nat, NEW new \in Debited(rec, amount)
    PROVE  new \in Record /\ new.balance = rec.balance - amount
<1>1. rec.balance \in Int /\ rec.count \in Nat
  BY DEF Record
<1>2. PICK c \in Rounded(rec.avg * rec.count + amount, rec.count + 1) :
          new = [balance |-> rec.balance - amount, count |-> rec.count + 1, avg |-> c]
  BY DEF Debited
<1>3. c \in Nat
  BY <1>2 DEF Rounded
<1> QED
  BY <1>1, <1>2, <1>3 DEF Record

\* A step that only moves one goroutine to a label its locals are ready for.
LEMMA MoveType ==
    ASSUME TypeOK, NEW g \in Procs, NEW l \in Labels,
           pc' = [pc EXCEPT ![g] = l], pc[g] # "idle",
           l \in {"fraud", "transact", "update"} => read[g] # None,
           l \in InTx \/ pc[g] \notin InTx,
           UNCHANGED <<store, lock, local, tx, cancelled, calls>>
    PROVE  TypeOK'
<1>1. /\ pc' \in [Procs -> Labels] /\ pc'[g] = l
      /\ \A h \in Procs \ {g} : pc'[h] = pc[h]
  BY DEF TypeOK
<1>2. \A h \in Procs : pc'[h] # "idle" => job'[h] \in Orders
  BY <1>1 DEF TypeOK, local
<1>3. \A h \in Procs : pc'[h] \in {"fraud", "transact", "update"} => read'[h] # None
  BY <1>1 DEF TypeOK, local
<1>4. \A h \in Procs : pc'[h] \notin InTx =>
          txStatus'[h] = None /\ txAccount'[h] = None /\ ~doomed'[h]
  BY <1>1 DEF TypeOK, tx
<1> QED
  BY <1>1, <1>2, <1>3, <1>4 DEF TypeOK, store, local, tx

LEMMA RunType ==
    ASSUME TypeOK, NEW g \in Procs, Run(g)
    PROVE  TypeOK'
<1> USE LabelFacts
<1>1. CASE SetNX(g)
  <2>1. Acct(g) \in Accounts
    BY <1>1 DEF TypeOK, SetNX, Goto, Acct
  <2>2. /\ lock' \in [Accounts -> BOOLEAN] /\ got' \in [Procs -> BOOLEAN]
        /\ \E l \in {"begin", "return"} : Goto(g, "setnx", l)
        /\ UNCHANGED <<store, job, read, result, tx, cancelled, calls>>
    BY <1>1, <2>1 DEF TypeOK, SetNX, local
  <2> QED
    BY <2>2 DEF TypeOK, Goto, store, tx
<1>2. CASE Begin(g)
  <2>1. PICK l \in {"check", "busy", "return"} : Goto(g, "begin", l)
    BY <1>2 DEF Begin
  <2> QED
    BY <1>2, <2>1, MoveType DEF Begin, Goto
<1>3. CASE AccountLocked(g)
  BY <1>3, StatusType DEF TypeOK, AccountLocked, Goto, store, local, Status
<1>4. CASE CheckAccountBalance(g)
  <2>1. Acct(g) \in Accounts
    BY <1>4 DEF TypeOK, CheckAccountBalance, Acct
  <2>2. \/ UNCHANGED read /\ Goto(g, "check", "fail")
        \/ /\ \E rec \in Record : read' = [read EXCEPT ![g] = rec]
           /\ Goto(g, "check", "fraud")
    BY <1>4, <2>1 DEF TypeOK, CheckAccountBalance
  <2>3. UNCHANGED <<store, lock, job, got, result, tx, cancelled, calls>>
    BY <1>4 DEF CheckAccountBalance
  <2>4. CASE UNCHANGED read /\ Goto(g, "check", "fail")
    BY <2>3, <2>4 DEF TypeOK, Goto, store, tx
  <2>5. ASSUME NEW rec \in Record, read' = [read EXCEPT ![g] = rec],
               Goto(g, "check", "fraud")
        PROVE  TypeOK'
    BY <2>3, <2>5 DEF TypeOK, Goto, store, tx
  <2> QED
    BY <2>2, <2>4, <2>5
<1>5. CASE HandleFraudResult(g)
  <2>1. PICK l \in Labels : pc' = [pc EXCEPT ![g] = l] /\ l \in InTx \ {"fraud", "update"}
    BY <1>5 DEF HandleFraudResult, Goto
  <2>2. pc[g] = "fraud" /\ read[g] # None
    BY <1>5 DEF HandleFraudResult, Goto, TypeOK
  <2> QED
    BY <1>5, <2>1, <2>2, MoveType DEF HandleFraudResult
<1>6. CASE FraudUnknown(g)
  BY <1>6, StatusType DEF TypeOK, FraudUnknown, Goto, store, local, Status
<1>7. CASE ProcessTransaction(g)
  <2>1. PICK l \in {"update", "sendTx"} : Goto(g, "transact", l)
    BY <1>7 DEF ProcessTransaction
  <2>2. read[g] # None
    BY <2>1 DEF Goto, TypeOK
  <2> QED
    BY <1>7, <2>1, <2>2, MoveType DEF ProcessTransaction, Goto
<1>8. CASE TransactionRetry(g)
  BY <1>8, StatusType DEF TypeOK, TransactionRetry, Goto, store, local, Status
<1>9. CASE UpdateBalanceAvgCount(g)
  <2>1. CASE Works /\ AccountRowFree(g) /\ Goto(g, "update", "succeed") /\ UNCHANGED doomed
             /\ \E new \in Debited(read[g], Amount[job[g]]) :
                   txAccount' = [txAccount EXCEPT ![g] = new]
    <3>1. read[g] \in Record /\ job[g] \in Orders /\ Amount[job[g]] \in Nat
      BY <1>9 DEF TypeOK, UpdateBalanceAvgCount
    <3>2. Debited(read[g], Amount[job[g]]) \subseteq Record
      BY <3>1, DebitedRecord
    <3> QED
      BY <1>9, <2>1, <3>1, <3>2 DEF TypeOK, UpdateBalanceAvgCount, Goto, store, local
  <2>2. CASE /\ Goto(g, "update", "fail") /\ UNCHANGED txAccount
             /\ \E sql \in BOOLEAN : doomed' = [doomed EXCEPT ![g] = @ \/ sql]
    BY <1>9, <2>2 DEF TypeOK, UpdateBalanceAvgCount, Goto, store, local
  <2> QED
    BY <1>9, <2>1, <2>2 DEF UpdateBalanceAvgCount
<1>10. CASE Succeed(g)
  BY <1>10, StatusType DEF TypeOK, Succeed, Goto, store, Status
<1>11. CASE Fail(g)
  BY <1>11, StatusType DEF TypeOK, Fail, Goto, store, local, Status
<1>12. CASE Del(g)
  BY <1>12 DEF TypeOK, Del, Goto, Acct, store, tx, local
<1>13. CASE Commit(g)
  <2>1. job[g] \in Orders /\ Acct(g) \in Accounts /\ Amount[job[g]] \in Nat
    BY <1>13 DEF TypeOK, Commit, Goto, Acct
  <2>2. /\ account' \in [Accounts -> Record]
        /\ replica' \in [Readers -> [Accounts -> Record]]
        /\ status' \in [Orders -> Status]
        /\ paid' \in [Orders -> Nat] /\ debited' \in [Accounts -> Nat]
    <3>1. CASE UNCHANGED store
      BY <3>1 DEF TypeOK, store
    <3>2. CASE Apply(g)
      <4>1. status' \in [Orders -> Status]
        BY <2>1, <3>2 DEF TypeOK, Apply
      <4>2. CASE txAccount[g] = None
        BY <3>2, <4>1, <4>2 DEF TypeOK, Apply
      <4>3. CASE txAccount[g] # None
        <5>1. txAccount[g] \in Record
          BY <4>3 DEF TypeOK
        <5>2. replica' \in [Readers -> [Accounts -> Record]]
          <6>1. \A r \in Readers :
                    [replica[r] EXCEPT ![Acct(g)] = txAccount[g]] \in [Accounts -> Record]
            BY <2>1, <5>1 DEF TypeOK
          <6>2. replica' \in {replica, [r \in Readers |->
                                    [replica[r] EXCEPT ![Acct(g)] = txAccount[g]]]}
            BY <3>2, <4>3 DEF Apply
          <6>3. [r \in Readers |-> [replica[r] EXCEPT ![Acct(g)] = txAccount[g]]]
                    \in [Readers -> [Accounts -> Record]]
            BY <6>1
          <6>4. replica \in [Readers -> [Accounts -> Record]]
            BY DEF TypeOK
          <6> QED
            BY <6>2, <6>3, <6>4, Zenon
        <5>3. account' \in [Accounts -> Record]
          BY <2>1, <3>2, <4>3, <5>1 DEF TypeOK, Apply
        <5>4. paid' \in [Orders -> Nat]
          BY <2>1, <3>2, <4>3 DEF TypeOK, Apply
        <5>5. debited' \in [Accounts -> Nat]
          BY <2>1, <3>2, <4>3 DEF TypeOK, Apply
        <5> QED
          BY <4>1, <5>2, <5>3, <5>4, <5>5
      <4> QED
        BY <4>2, <4>3
    <3> QED
      BY <1>13, <3>1, <3>2 DEF Commit
  <2> QED
    BY <1>13, <2>2 DEF TypeOK, Commit, Goto, local
<1> QED
  BY <1>1, <1>2, <1>3, <1>4, <1>5, <1>6, <1>7, <1>8, <1>9, <1>10, <1>11, <1>12,
     <1>13 DEF Run

LEMMA NextType == TypeOK /\ [Next]_vars => TypeOK'
<1> SUFFICES ASSUME TypeOK, [Next]_vars
             PROVE  TypeOK'
  OBVIOUS
<1> USE LabelFacts
<1>1. ASSUME NEW g \in Procs, Sent(g) \/ Return(g)
      PROVE  TypeOK'
  <2>1. CASE Sent(g)
    BY <2>1 DEF TypeOK, Sent, Goto, store, tx, local
  <2>2. CASE Return(g)
    BY <2>2 DEF TypeOK, Return, Goto, store, tx, local
  <2> QED
    BY <1>1, <2>1, <2>2
<1>2. ASSUME NEW g \in Procs, NEW o \in Orders, Call(g, o)
      PROVE  TypeOK'
  BY <1>2 DEF TypeOK, Call, Goto, store, tx
<1>3. CASE Environment
  <2>1. CASE Cancel
    BY <2>1 DEF TypeOK, Cancel, store, tx, local
  <2>2. ASSUME NEW a \in Accounts, Expire(a)
        PROVE  TypeOK'
    BY <2>2 DEF TypeOK, Expire, store, tx, local
  <2>3. ASSUME NEW a \in Accounts, NEW r \in Readers, Replicate(r, a)
        PROVE  TypeOK'
    BY <2>3 DEF TypeOK, Replicate, tx, local
  <2> QED
    BY <1>3, <2>1, <2>2, <2>3 DEF Environment
<1>4. CASE Quiet \/ UNCHANGED vars
  BY <1>4 DEF TypeOK, Quiet, vars, store, tx, local
<1> QED
  BY <1>1, <1>2, <1>3, <1>4, RunType DEF Next

\* Every variable keeps its type, and no goroutine outside a transaction has
\* uncommitted writes, for every value of the constants.
THEOREM TypeCorrect == Spec => []TypeOK
  BY InitType, NextType, PTL DEF Spec
-----------------------------------------------------------------------------
(* The ledger. *)

\* A row of account a that some committed payments, no more than were committed
\* so far, may have left.
Sound(rec, a) ==
    /\ rec \in Record
    /\ rec.balance >= 0
    /\ Balanced(rec, a)
    /\ rec.balance >= InitialBalance[a] - debited[a]

\* A debit adds one rounding of at most half a cent for each order counted.
LEMMA DebitedBalanced ==
    ASSUME NEW a \in Accounts, NEW rec \in Record, NEW amount \in Nat, Balanced(rec, a),
           NEW new \in Debited(rec, amount)
    PROVE  Balanced(new, a)
<1> DEFINE n == rec.count
           total == rec.avg * n + amount
<1>1. n \in Nat /\ rec.avg \in Nat /\ rec.balance \in Int /\ InitialBalance[a] \in Nat
  BY DEF Record
<1>2. PICK c \in Rounded(total, n + 1) :
          new = [balance |-> rec.balance - amount, count |-> n + 1, avg |-> c]
  BY DEF Debited
<1> DEFINE was == rec.avg * n
           is  == c * (n + 1)
           sq  == n * n
<1>3. c \in Int /\ total \in Int /\ was \in Int /\ is \in Int /\ sq \in Nat
  BY <1>1, <1>2 DEF Rounded
<1>4. 2 * (is - total) <= n + 1 /\ -2 * (is - total) <= n + 1
  BY <1>1, <1>2, <1>3 DEF Rounded
<1>5. /\ 4 * (was + rec.balance - InitialBalance[a]) <= sq + n
      /\ -4 * (was + rec.balance - InitialBalance[a]) <= sq + n
  BY <1>1 DEF Balanced
<1>6. (n + 1) * (n + 1 + 1) = sq + 3 * n + 2
  BY <1>1
<1>7. total = was + amount
  OBVIOUS
<1> HIDE DEF was, is, sq, total
<1>8. /\ 4 * (is + (rec.balance - amount) - InitialBalance[a]) <= sq + 3 * n + 2
      /\ -4 * (is + (rec.balance - amount) - InitialBalance[a]) <= sq + 3 * n + 2
  BY <1>1, <1>3, <1>4, <1>5, <1>7
<1> QED
  BY <1>1, <1>2, <1>6, <1>8 DEF Balanced, is

\* What a goroutine read covers its amount.
SoundRead(g) ==
    /\ job[g] \in Orders
    /\ Sound(read[g], Acct(g))
    /\ read[g].balance >= Amount[job[g]]

\* An uncommitted row is one debit further than the committed ones.
SoundWrite(g) ==
    /\ job[g] \in Orders
    /\ txAccount[g] \in Record
    /\ txAccount[g].balance >= 0
    /\ Balanced(txAccount[g], Acct(g))
    /\ txAccount[g].balance >= InitialBalance[Acct(g)] - debited[Acct(g)] - Amount[job[g]]

\* The inductive invariant: every copy of a row, wherever it has got to, is
\* sound, and a transaction that says "success" also debits.
Ledger ==
    /\ \A a \in Accounts : Sound(account[a], a)
    /\ \A r \in Readers, a \in Accounts : Sound(replica[r][a], a)
    /\ \A g \in Procs : read[g] # None => SoundRead(g)
    /\ \A g \in Procs : txAccount[g] # None => SoundWrite(g)
    /\ \A g \in Procs : txStatus[g] = "success" \/ pc[g] = "succeed" => txAccount[g] # None
    /\ SuccessIsPaid

LEMMA InitLedger == Init => Ledger
<1> SUFFICES ASSUME Init
             PROVE  Ledger
  OBVIOUS
<1>1. \A a \in Accounts : Sound(Fresh(a), a)
  BY DEF Init, Sound, Fresh, Record, Balanced
<1>2. \A g \in Procs : read[g] = None /\ txAccount[g] = None /\ txStatus[g] = None /\ pc[g] = "idle"
  BY DEF Init
<1>3. SuccessIsPaid
  BY DEF Init, SuccessIsPaid
<1>4. \A a \in Accounts, r \in Readers : account[a] = Fresh(a) /\ replica[r][a] = Fresh(a)
  BY DEF Init
<1>5. "success" # None
  BY DEF Status
<1>6. \A a \in Accounts : Sound(account[a], a)
  BY <1>1 DEF Init
<1>7. \A r \in Readers, a \in Accounts : Sound(replica[r][a], a)
  BY <1>1, <1>4
<1> QED
  BY <1>2, <1>3, <1>5, <1>6, <1>7 DEF Ledger

\* A step that neither moves rows nor writes to a transaction keeps the ledger.
LEMMA FrameLedger ==
    ASSUME TypeOK, Ledger, UNCHANGED <<store, job, read, tx>>,
           \A g \in Procs : pc'[g] = "succeed" => pc[g] = "succeed"
    PROVE  Ledger'
  BY DEF TypeOK, Ledger, Sound, SoundRead, SoundWrite, SuccessIsPaid, Acct, store, tx

\* Writing any status but "success", or none, keeps the ledger.
LEMMA StatusLedger ==
    ASSUME TypeOK, Ledger, NEW g \in Procs, NEW st \in Status, UpdateOrderStatus(g, st),
           UNCHANGED <<store, job, read, txAccount>>,
           st = "success" => pc[g] = "succeed",
           \A h \in Procs : pc'[h] = "succeed" => pc[h] = "succeed"
    PROVE  Ledger'
<1>1. \A h \in Procs : txStatus'[h] = "success" => txStatus[h] = "success" \/ pc[h] = "succeed"
  BY StatusType
<1> QED
  BY <1>1 DEF Ledger, Sound, SoundRead, SoundWrite, SuccessIsPaid, Acct, store

LEMMA CheckLedger ==
    ASSUME TypeOK, Ledger, NEW g \in Procs, CheckAccountBalance(g)
    PROVE  Ledger'
<1>1. job[g] \in Orders /\ Acct(g) \in Accounts /\ Amount[job[g]] \in Nat
  BY LabelFacts DEF TypeOK, CheckAccountBalance, Acct
<1>2. UNCHANGED <<store, job, tx>>
  BY DEF CheckAccountBalance
<1>3. \A h \in Procs : pc'[h] = "succeed" => pc[h] = "succeed"
  BY DEF TypeOK, CheckAccountBalance, Goto
<1>4. CASE UNCHANGED read
  BY <1>2, <1>3, <1>4, FrameLedger
<1>5. ASSUME NEW r \in Readers,
             Funded(replica[r][Acct(g)], job[g]),
             read' = [read EXCEPT ![g] = replica[r][Acct(g)]]
      PROVE  Ledger'
  <2>1. SoundRead(g)'
    <3>1. Sound(replica[r][Acct(g)], Acct(g))
      BY <1>1 DEF Ledger
    <3>2. read'[g] = replica[r][Acct(g)]
      BY <1>5 DEF TypeOK
    <3> QED
      BY <1>1, <1>2, <1>5, <3>1, <3>2 DEF SoundRead, Sound, Funded, Acct, store, Record
  <2>2. \A h \in Procs : read'[h] # None => SoundRead(h)'
    <3> SUFFICES ASSUME NEW h \in Procs, h # g, read'[h] # None
                 PROVE  SoundRead(h)'
      BY <2>1
    <3>1. read'[h] = read[h]
      BY <1>5 DEF TypeOK
    <3> QED
      BY <1>2, <3>1 DEF Ledger, SoundRead, Sound, Acct, store
  <2>3. /\ \A a \in Accounts : Sound(account[a], a)'
        /\ \A q \in Readers, a \in Accounts : Sound(replica[q][a], a)'
    BY <1>2 DEF Ledger, Sound, store
  <2>4. \A h \in Procs : txAccount'[h] # None => SoundWrite(h)'
    BY <1>2 DEF Ledger, SoundWrite, Acct, store, tx
  <2>5. \A h \in Procs : txStatus'[h] = "success" \/ pc'[h] = "succeed" => txAccount'[h] # None
    BY <1>2, <1>3 DEF Ledger, tx
  <2>6. SuccessIsPaid'
    BY <1>2 DEF Ledger, SuccessIsPaid, store
  <2> QED
    BY <2>2, <2>3, <2>4, <2>5, <2>6 DEF Ledger
<1> QED
  BY <1>4, <1>5 DEF CheckAccountBalance

LEMMA UpdateLedger ==
    ASSUME TypeOK, Ledger, NEW g \in Procs, UpdateBalanceAvgCount(g)
    PROVE  Ledger'
<1>1. read[g] # None /\ job[g] \in Orders /\ Acct(g) \in Accounts /\ Amount[job[g]] \in Nat
  BY LabelFacts DEF TypeOK, UpdateBalanceAvgCount, Acct
<1>2. UNCHANGED <<store, job, read, txStatus>>
  BY DEF UpdateBalanceAvgCount, local
<1>3. \A h \in Procs \ {g} : pc'[h] = pc[h]
  BY DEF TypeOK, UpdateBalanceAvgCount, Goto
<1>4. /\ \A a \in Accounts : Sound(account[a], a)'
      /\ \A q \in Readers, a \in Accounts : Sound(replica[q][a], a)'
      /\ \A h \in Procs : read'[h] # None => SoundRead(h)'
      /\ SuccessIsPaid'
  BY <1>2 DEF Ledger, SoundRead, Sound, SuccessIsPaid, Acct, store
<1>5. CASE UNCHANGED txAccount /\ Goto(g, "update", "fail")
  <2>1. \A h \in Procs : pc'[h] = "succeed" => pc[h] = "succeed"
    BY <1>3, <1>5 DEF TypeOK, Goto
  <2> QED
    BY <1>2, <1>4, <1>5, <2>1 DEF Ledger, SoundWrite, Acct, store
<1>6. ASSUME NEW new \in Debited(read[g], Amount[job[g]]),
             txAccount' = [txAccount EXCEPT ![g] = new],
             Goto(g, "update", "succeed")
      PROVE  Ledger'
  <2>1. SoundRead(g)
    BY <1>1 DEF Ledger
  <2>2. SoundWrite(g)'
    <3>1. read[g] \in Record /\ InitialBalance[Acct(g)] \in Nat /\ debited[Acct(g)] \in Nat
      BY <1>1, <2>1 DEF SoundRead, Sound, TypeOK
    <3>2. new \in Record /\ new.balance = read[g].balance - Amount[job[g]]
      BY <1>1, <1>6, <3>1, DebitedRecord
    <3>3. read[g].balance \in Int
      BY <3>1 DEF Record
    <3>4. txAccount'[g] = new
      BY <1>6 DEF TypeOK
    <3>5. /\ new.balance >= 0
          /\ new.balance >= InitialBalance[Acct(g)] - debited[Acct(g)] - Amount[job[g]]
      BY <1>1, <2>1, <3>1, <3>2, <3>3 DEF SoundRead, Sound
    <3>6. Balanced(new, Acct(g))
      BY <1>1, <1>6, <2>1, <3>1, DebitedBalanced DEF SoundRead, Sound
    <3> QED
      BY <1>1, <1>2, <3>2, <3>4, <3>5, <3>6 DEF SoundWrite, Acct, store
  <2>3. ASSUME NEW h \in Procs, h # g
        PROVE  txAccount'[h] = txAccount[h]
    BY <1>6, <2>3 DEF TypeOK
  <2>4. \A h \in Procs : txAccount'[h] # None => SoundWrite(h)'
    BY <1>2, <2>2, <2>3 DEF Ledger, SoundWrite, Acct, store
  <2>5. txAccount'[g] # None
    BY <2>2 DEF SoundWrite
  <2>6. \A h \in Procs : txStatus'[h] = "success" \/ pc'[h] = "succeed" => txAccount'[h] # None
    BY <1>2, <1>3, <2>3, <2>5 DEF Ledger
  <2> QED
    BY <1>4, <2>4, <2>6 DEF Ledger
<1> QED
  BY <1>5, <1>6 DEF UpdateBalanceAvgCount

LEMMA CommitLedger ==
    ASSUME TypeOK, Ledger, NEW g \in Procs, Commit(g)
    PROVE  Ledger'
<1>1. job[g] \in Orders /\ Acct(g) \in Accounts /\ Amount[job[g]] \in Nat \ {0}
  BY LabelFacts DEF TypeOK, Commit, Goto, Acct
<1>2. /\ UNCHANGED <<job, read>> /\ txStatus'[g] = None /\ txAccount'[g] = None
      /\ \A h \in Procs \ {g} : txStatus'[h] = txStatus[h] /\ txAccount'[h] = txAccount[h]
      /\ \A h \in Procs : pc'[h] = "succeed" => pc[h] = "succeed" /\ h # g
  BY DEF TypeOK, Commit, Goto, local
<1>3. "success" # None
  BY DEF Status
<1>4. \A h \in Procs : txStatus'[h] = "success" \/ pc'[h] = "succeed" => txAccount'[h] # None
  BY <1>2, <1>3 DEF Ledger
<1>5. CASE UNCHANGED store
  BY <1>2, <1>4, <1>5 DEF Ledger, Sound, SoundRead, SoundWrite, SuccessIsPaid, Acct, store
<1>6. CASE Apply(g)
  <2>1. \A a \in Accounts : debited'[a] \in Nat /\ debited[a] \in Nat /\ debited'[a] >= debited[a]
    BY <1>1, <1>6 DEF TypeOK, Apply
  <2>2. ASSUME NEW a \in Accounts, NEW rec, Sound(rec, a)
        PROVE  Sound(rec, a)'
    <3>1. rec.balance \in Int /\ InitialBalance[a] \in Nat
      BY <2>2 DEF Sound, Record
    <3> QED
      BY <2>1, <2>2, <3>1 DEF Sound
  <2>3. \A h \in Procs : read'[h] # None => SoundRead(h)'
    <3> SUFFICES ASSUME NEW h \in Procs, read'[h] # None
                 PROVE  SoundRead(h)'
      OBVIOUS
    <3>1. SoundRead(h) /\ Acct(h) \in Accounts
      BY <1>2 DEF Ledger, SoundRead, Acct
    <3>2. Sound(read[h], Acct(h))'
      BY <1>2, <2>2, <3>1 DEF SoundRead, Acct, Sound
    <3> QED
      BY <1>2, <3>1, <3>2 DEF SoundRead, Acct
  <2>4. \A h \in Procs : txAccount'[h] # None => SoundWrite(h)'
    <3> SUFFICES ASSUME NEW h \in Procs, txAccount'[h] # None
                 PROVE  SoundWrite(h)'
      OBVIOUS
    <3>1. h # g /\ txAccount'[h] = txAccount[h] /\ SoundWrite(h)
      BY <1>2 DEF Ledger
    <3>2. /\ Acct(h) \in Accounts /\ Amount[job[h]] \in Nat /\ txAccount[h].balance \in Int
          /\ InitialBalance[Acct(h)] \in Nat
      BY <3>1 DEF SoundWrite, Acct, Record
    <3> QED
      BY <1>2, <2>1, <3>1, <3>2 DEF SoundWrite, Acct
  <2>5. CASE txAccount[g] = None
    <3>1. UNCHANGED <<account, replica, paid, debited>>
      BY <1>6, <2>5 DEF Apply
    <3>2. txStatus[g] # "success"
      BY <2>5 DEF Ledger
    <3>3. SuccessIsPaid'
      BY <1>1, <1>6, <3>1, <3>2 DEF TypeOK, Apply, Ledger, SuccessIsPaid
    <3> QED
      BY <1>4, <2>3, <2>4, <3>1, <3>3 DEF Ledger, Sound
  <2>6. CASE txAccount[g] # None
    <3>1. SoundWrite(g) /\ debited'[Acct(g)] = debited[Acct(g)] + Amount[job[g]]
      BY <1>1, <1>6, <2>6 DEF Ledger, TypeOK, Apply
    <3>2. txAccount[g].balance \in Int /\ InitialBalance[Acct(g)] \in Nat
          /\ debited[Acct(g)] \in Nat
      BY <1>1, <2>1, <3>1 DEF SoundWrite, Record
    <3>3. /\ txAccount[g] \in Record
          /\ txAccount[g].balance >= 0
          /\ Balanced(txAccount[g], Acct(g))
          /\ txAccount[g].balance >= InitialBalance[Acct(g)] - debited'[Acct(g)]
      BY <1>1, <3>1, <3>2 DEF SoundWrite
    <3>4. ASSUME NEW a \in Accounts
          PROVE  Sound(account[a], a)'
      <4>1. CASE a = Acct(g)
        <5>1. account'[a] = txAccount[g]
          BY <1>1, <1>6, <2>6, <4>1 DEF TypeOK, Apply
        <5> QED
          BY <3>3, <4>1, <5>1 DEF Sound
      <4>2. CASE a # Acct(g)
        <5>1. account'[a] = account[a]
          BY <1>6, <2>6, <4>2 DEF TypeOK, Apply
        <5>2. Sound(account[a], a) /\ debited'[a] = debited[a]
          BY <1>6, <2>6, <4>2 DEF Ledger, TypeOK, Apply
        <5> QED
          BY <5>1, <5>2 DEF Sound
      <4> QED
        BY <4>1, <4>2
    <3>5. ASSUME NEW r \in Readers, NEW a \in Accounts
          PROVE  Sound(replica[r][a], a)'
      <4>1. CASE replica'[r][a] = replica[r][a]
        <5>1. Sound(replica[r][a], a) /\ replica[r][a].balance \in Int /\ InitialBalance[a] \in Nat
          BY DEF Ledger, Sound, Record
        <5> QED
          BY <2>1, <4>1, <5>1 DEF Sound
      <4>2. CASE a = Acct(g) /\ replica'[r][a] = txAccount[g]
        BY <3>3, <4>2 DEF Sound
      <4>3. \/ replica' = replica
            \/ replica' = [q \in Readers |-> [replica[q] EXCEPT ![Acct(g)] = txAccount[g]]]
        BY <1>6, <2>6 DEF Apply
      <4>4. replica[r] \in [Accounts -> Record]
        BY DEF TypeOK
      <4> QED
        BY <4>1, <4>2, <4>3, <4>4
    <3>6. SuccessIsPaid'
      <4> SUFFICES ASSUME NEW o \in Orders, status'[o] = "success"
                   PROVE  paid'[o] > 0
        BY DEF SuccessIsPaid
      <4>1. CASE o = job[g]
        BY <1>1, <1>6, <2>6, <4>1 DEF TypeOK, Apply
      <4>2. CASE o # job[g]
        BY <1>6, <2>6, <4>2 DEF TypeOK, Apply, Ledger, SuccessIsPaid
      <4> QED
        BY <4>1, <4>2
    <3> QED
      BY <1>4, <2>3, <2>4, <3>4, <3>5, <3>6 DEF Ledger
  <2> QED
    BY <1>6, <2>5, <2>6
<1> QED
  BY <1>5, <1>6 DEF Commit

LEMMA RunLedger ==
    ASSUME TypeOK, Ledger, NEW g \in Procs, Run(g)
    PROVE  Ledger'
<1>1. CASE SetNX(g)
  <2>1. UNCHANGED <<store, job, read, tx>>
    BY <1>1 DEF SetNX, local
  <2>2. \A h \in Procs : pc'[h] = "succeed" => pc[h] = "succeed"
    BY <1>1 DEF TypeOK, SetNX, Goto
  <2> QED
    BY <2>1, <2>2, FrameLedger
<1>2. CASE Begin(g)
  <2>1. \A h \in Procs : pc'[h] = "succeed" => pc[h] = "succeed"
    BY <1>2 DEF TypeOK, Begin, Goto
  <2> QED
    BY <1>2, <2>1, FrameLedger DEF Begin, local
<1>3. CASE AccountLocked(g)
  <2>1. \A h \in Procs : pc'[h] = "succeed" => pc[h] = "succeed"
    BY <1>3 DEF TypeOK, AccountLocked, Goto
  <2>2. "retrying" \in Status
    BY DEF Status
  <2> QED
    BY <1>3, <2>1, <2>2, StatusLedger DEF AccountLocked, local
<1>4. CASE CheckAccountBalance(g)
  BY <1>4, CheckLedger
<1>5. CASE HandleFraudResult(g)
  <2>1. \A h \in Procs : pc'[h] = "succeed" => pc[h] = "succeed"
    BY <1>5 DEF TypeOK, HandleFraudResult, Goto
  <2> QED
    BY <1>5, <2>1, FrameLedger DEF HandleFraudResult, local
<1>6. CASE FraudUnknown(g)
  <2>1. \A h \in Procs : pc'[h] = "succeed" => pc[h] = "succeed"
    BY <1>6 DEF TypeOK, FraudUnknown, Goto
  <2>2. "retrying" \in Status
    BY DEF Status
  <2> QED
    BY <1>6, <2>1, <2>2, StatusLedger DEF FraudUnknown, local
<1>7. CASE ProcessTransaction(g)
  <2>1. \A h \in Procs : pc'[h] = "succeed" => pc[h] = "succeed"
    BY <1>7 DEF TypeOK, ProcessTransaction, Goto
  <2> QED
    BY <1>7, <2>1, FrameLedger DEF ProcessTransaction, local
<1>8. CASE TransactionRetry(g)
  <2>1. \A h \in Procs : pc'[h] = "succeed" => pc[h] = "succeed"
    BY <1>8 DEF TypeOK, TransactionRetry, Goto
  <2>2. "retrying" \in Status
    BY DEF Status
  <2> QED
    BY <1>8, <2>1, <2>2, StatusLedger DEF TransactionRetry, local
<1>9. CASE UpdateBalanceAvgCount(g)
  BY <1>9, UpdateLedger
<1>10. CASE Succeed(g)
  <2>1. \A h \in Procs : pc'[h] = "succeed" => pc[h] = "succeed"
    BY <1>10 DEF TypeOK, Succeed, Goto
  <2>2. "success" \in Status /\ pc[g] = "succeed"
    BY <1>10 DEF Status, Succeed, Goto
  <2> QED
    BY <1>10, <2>1, <2>2, StatusLedger DEF Succeed
<1>11. CASE Fail(g)
  <2>1. \A h \in Procs : pc'[h] = "succeed" => pc[h] = "succeed"
    BY <1>11 DEF TypeOK, Fail, Goto
  <2>2. "failed" \in Status
    BY DEF Status
  <2> QED
    BY <1>11, <2>1, <2>2, StatusLedger DEF Fail, local
<1>12. CASE Del(g)
  <2>1. \A h \in Procs : pc'[h] = "succeed" => pc[h] = "succeed"
    BY <1>12 DEF TypeOK, Del, Goto
  <2> QED
    BY <1>12, <2>1, FrameLedger DEF Del, local
<1>13. CASE Commit(g)
  BY <1>13, CommitLedger
<1> QED
  BY <1>1, <1>2, <1>3, <1>4, <1>5, <1>6, <1>7, <1>8, <1>9, <1>10, <1>11, <1>12,
     <1>13 DEF Run

LEMMA ResetLedger ==
    ASSUME TypeOK, Ledger, NEW g \in Procs,
           (\E o \in Orders : Call(g, o)) \/ Return(g)
    PROVE  Ledger'
<1>1. txStatus[g] = None /\ txAccount[g] = None
  BY LabelFacts DEF TypeOK, Call, Return, Goto
<1>2. UNCHANGED <<store, tx>> /\ read'[g] = None
      /\ \A h \in Procs \ {g} : read'[h] = read[h] /\ job'[h] = job[h]
  BY DEF TypeOK, Call, Return
<1>3. \A h \in Procs : pc'[h] = "succeed" => pc[h] = "succeed"
  BY DEF TypeOK, Call, Return, Goto
<1>4. /\ \A a \in Accounts : Sound(account[a], a)'
      /\ \A q \in Readers, a \in Accounts : Sound(replica[q][a], a)'
      /\ SuccessIsPaid'
  BY <1>2 DEF Ledger, Sound, SuccessIsPaid, store
<1>5. \A h \in Procs : read'[h] # None => SoundRead(h)'
  BY <1>2 DEF Ledger, SoundRead, Sound, Acct, store
<1>6. \A h \in Procs : txAccount'[h] # None => SoundWrite(h)'
  BY <1>1, <1>2 DEF Ledger, SoundWrite, Acct, store, tx
<1>7. \A h \in Procs : txStatus'[h] = "success" \/ pc'[h] = "succeed" => txAccount'[h] # None
  BY <1>2, <1>3 DEF Ledger, tx
<1> QED
  BY <1>4, <1>5, <1>6, <1>7 DEF Ledger

LEMMA NextLedger == TypeOK /\ Ledger /\ [Next]_vars => Ledger'
<1> SUFFICES ASSUME TypeOK, Ledger, [Next]_vars
             PROVE  Ledger'
  OBVIOUS
<1>1. ASSUME NEW g \in Procs, Sent(g)
      PROVE  Ledger'
  <2>1. \A h \in Procs : pc'[h] = "succeed" => pc[h] = "succeed"
    BY <1>1 DEF TypeOK, Sent, Goto
  <2> QED
    BY <1>1, <2>1, FrameLedger DEF Sent, local
<1>2. ASSUME NEW a \in Accounts, NEW r \in Readers, Replicate(r, a)
      PROVE  Ledger'
  <2>1. UNCHANGED <<account, status, paid, debited, pc, job, read, txStatus, txAccount>>
    BY <1>2 DEF Replicate, local, tx
  <2>2. \A q \in Readers, b \in Accounts :
           replica'[q][b] = replica[q][b] \/ replica'[q][b] = account[b]
    BY <1>2 DEF Replicate, TypeOK
  <2>3. \A q \in Readers, b \in Accounts : Sound(replica[q][b], b)'
    BY <2>1, <2>2 DEF Ledger, Sound
  <2> QED
    BY <2>1, <2>3 DEF Ledger, Sound, SoundRead, SoundWrite, SuccessIsPaid, Acct
<1>3. CASE Cancel \/ (\E a \in Accounts : Expire(a)) \/ Quiet \/ UNCHANGED vars
  <2>1. UNCHANGED <<store, pc, job, read, tx>>
    BY <1>3 DEF Cancel, Expire, Quiet, vars, local
  <2> QED
    BY <2>1, FrameLedger
<1> QED
  BY <1>1, <1>2, <1>3, RunLedger, ResetLedger DEF Next, Environment

LEMMA LedgerInvariant == Spec => [](TypeOK /\ Ledger)
  BY InitType, NextType, InitLedger, NextLedger, PTL DEF Spec

\* No balance falls below what the committed payments explain, however stale
\* the replicas, whenever leases end and whatever fails.
THEOREM NeverOverdebitedHolds == Spec => []NeverOverdebited
<1>1. Ledger => NeverOverdebited
  BY DEF Ledger, Sound, NeverOverdebited
<1> QED
  BY <1>1, LedgerInvariant, PTL

\* checkAccountBalance on a possibly stale row is enough to keep every balance
\* of the primary at or above zero.
THEOREM NeverNegativeHolds == Spec => []NeverNegative
<1>1. Ledger => NeverNegative
  BY DEF Ledger, Sound, NeverNegative
<1> QED
  BY <1>1, LedgerInvariant, PTL

\* Balance and order totals of a row always agree, lost updates included.
THEOREM BooksAgreeHolds == Spec => []BooksAgree
<1>1. Ledger => BooksAgree
  BY DEF Ledger, Sound, BooksAgree
<1> QED
  BY <1>1, LedgerInvariant, PTL

\* No order is marked successful without a committed debit for it.
THEOREM SuccessIsPaidHolds == Spec => []SuccessIsPaid
<1>1. Ledger => SuccessIsPaid
  BY DEF Ledger
<1> QED
  BY <1>1, LedgerInvariant, PTL

-----------------------------------------------------------------------------
(* The account lock. *)

\* The inductive strengthening of LockExclusion: past Begin only a goroutine
\* that set the key is critical, and while one is, the key exists.
Locked ==
    /\ \A g \in Procs : pc[g] \in Critical \ {"begin"} => got[g]
    /\ \A g \in Procs : got[g] /\ pc[g] \in Critical => lock[Acct(g)]
    /\ LockExclusion

\* A step in which no goroutine enters the critical section and no key goes.
LEMMA FrameLocked ==
    ASSUME TypeOK, Locked, UNCHANGED <<job, got, lock>>,
           \A g \in Procs : pc'[g] \in Critical => pc[g] \in Critical,
           \A g \in Procs : pc'[g] \in Critical \ {"begin"} => pc[g] \in Critical \ {"begin"} \/ got[g]
    PROVE  Locked'
  BY DEF Locked, LockExclusion, Acct

LEMMA SetNXLocked ==
    ASSUME TypeOK, Locked, NEW g \in Procs, SetNX(g)
    PROVE  Locked'
<1>1. job[g] \in Orders /\ Acct(g) \in Accounts /\ pc[g] = "setnx" /\ UNCHANGED job
  BY LabelFacts DEF TypeOK, SetNX, Goto, Acct, local
<1>2. \A h \in Procs \ {g} : pc'[h] = pc[h] /\ got'[h] = got[h]
  BY DEF TypeOK, SetNX, Goto, local
<1>3. \A a \in Accounts : lock[a] => lock'[a]
  BY <1>1 DEF TypeOK, SetNX
<1>4. CASE pc'[g] = "return"
  <2>1. \A h \in Procs : pc'[h] \in Critical => h # g
    BY <1>4, LabelFacts
  <2>2. \A h \in Procs : Acct(h)' = Acct(h)
    BY <1>1 DEF Acct
  <2>3. \A h \in Procs : pc[h] # "idle" => Acct(h) \in Accounts
    BY DEF TypeOK, Acct
  <2>4. \A h \in Procs : got'[h] /\ pc'[h] \in Critical => lock'[Acct(h)]
    BY <1>2, <1>3, <2>1, <2>3, LabelFacts DEF Locked
  <2>5. \A h \in Procs : pc'[h] \in Critical \ {"begin"} => got'[h]
    BY <1>2, <2>1 DEF Locked
  <2>6. LockExclusion'
    BY <1>2, <2>1, <2>2 DEF Locked, LockExclusion
  <2> QED
    BY <2>2, <2>4, <2>5, <2>6 DEF Locked
<1>5. CASE pc'[g] = "begin" /\ lock'[Acct(g)] /\ (got'[g] => ~lock[Acct(g)])
  <2>1. \A h \in Procs : pc'[h] \in Critical \ {"begin"} => got'[h]
    BY <1>1, <1>2, <1>5 DEF Locked
  <2>2. \A h \in Procs : got'[h] /\ pc'[h] \in Critical => lock'[Acct(h)]
    <3> SUFFICES ASSUME NEW h \in Procs, h # g, got'[h], pc'[h] \in Critical
                 PROVE  lock'[Acct(h)]
      BY <1>5
    <3>1. lock[Acct(h)] /\ Acct(h) \in Accounts
      BY <1>2, LabelFacts DEF Locked, TypeOK, Acct
    <3> QED
      BY <1>3, <3>1
  <2>3. ASSUME NEW h \in Procs, h # g, got'[g], got'[h], pc'[h] \in Critical
        PROVE  Acct(h) # Acct(g)
    BY <1>2, <1>5, <2>3 DEF Locked
  <2>4. LockExclusion'
    BY <1>1, <1>2, <2>3 DEF Locked, LockExclusion, Acct
  <2> QED
    BY <1>1, <2>1, <2>2, <2>4 DEF Locked, Acct
<1>6. pc'[g] = "return" \/ (pc'[g] = "begin" /\ lock'[Acct(g)] /\ (got'[g] => ~lock[Acct(g)]))
  BY <1>1 DEF TypeOK, SetNX, Goto
<1> QED
  BY <1>4, <1>5, <1>6

LEMMA DelLocked ==
    ASSUME TypeOK, Locked, NEW g \in Procs, Del(g)
    PROVE  Locked'
<1>1. job[g] \in Orders /\ Acct(g) \in Accounts /\ got[g] /\ pc[g] \in Critical /\ pc'[g] = "commit"
  BY LabelFacts DEF TypeOK, Locked, Del, Goto, Acct
<1>2. \A h \in Procs \ {g} : pc'[h] = pc[h]
  BY DEF TypeOK, Del, Goto
<1>3. UNCHANGED <<job, got>>
  BY DEF Del, local
<1>4. \A a \in Accounts \ {Acct(g)} : lock'[a] = lock[a]
  BY DEF TypeOK, Del
<1>5. "commit" \notin Critical
  BY LabelFacts
<1>6. ASSUME NEW h \in Procs, got'[h], pc'[h] \in Critical
      PROVE  lock'[Acct(h)]
  <2>1. h # g /\ got[h] /\ pc[h] \in Critical
    BY <1>1, <1>2, <1>3, <1>5, <1>6
  <2>2. Acct(h) # Acct(g)
    BY <1>1, <2>1 DEF Locked, LockExclusion
  <2>3. lock[Acct(h)] /\ Acct(h) \in Accounts
    BY <2>1, LabelFacts DEF Locked, TypeOK, Acct
  <2> QED
    BY <1>4, <2>2, <2>3
<1>7. LockExclusion'
  BY <1>1, <1>2, <1>3, <1>5 DEF Locked, LockExclusion, Acct
<1> QED
  BY <1>1, <1>2, <1>3, <1>5, <1>6, <1>7 DEF Locked, Acct

LEMMA RunLocked ==
    ASSUME TypeOK, Locked, NEW g \in Procs, Run(g)
    PROVE  Locked'
<1>1. CASE SetNX(g)
  BY <1>1, SetNXLocked
<1>2. CASE Begin(g)
  <2>1. UNCHANGED <<job, got, lock>> /\ pc[g] = "begin"
        /\ (pc'[g] \in {"busy", "return"} \/ (pc'[g] = "check" /\ got[g]))
        /\ \A h \in Procs \ {g} : pc'[h] = pc[h]
    BY <1>2 DEF TypeOK, Begin, Goto, local
  <2> QED
    BY <2>1, FrameLocked, LabelFacts
<1>3. CASE Del(g)
  BY <1>3, DelLocked
<1>4. CASE \/ AccountLocked(g) \/ CheckAccountBalance(g) \/ HandleFraudResult(g)
           \/ FraudUnknown(g) \/ ProcessTransaction(g) \/ TransactionRetry(g)
           \/ UpdateBalanceAvgCount(g) \/ Succeed(g) \/ Fail(g) \/ Commit(g)
  <2>1. UNCHANGED <<job, got, lock>>
    BY <1>4 DEF AccountLocked, CheckAccountBalance, HandleFraudResult, FraudUnknown,
       ProcessTransaction, TransactionRetry, UpdateBalanceAvgCount, Succeed, Fail, Commit, local
  <2>2. /\ \A h \in Procs \ {g} : pc'[h] = pc[h]
        /\ pc'[g] \in Critical => pc[g] \in Critical \ {"begin"}
    BY <1>4, LabelFacts DEF TypeOK, Goto, AccountLocked, CheckAccountBalance,
       HandleFraudResult, FraudUnknown, ProcessTransaction, TransactionRetry,
       UpdateBalanceAvgCount, Succeed, Fail, Commit
  <2> QED
    BY <2>1, <2>2, FrameLocked
<1> QED
  BY <1>1, <1>2, <1>3, <1>4 DEF Run

LEMMA NextLocked == ~LeaseExpires /\ TypeOK /\ Locked /\ [Next]_vars => Locked'
<1> SUFFICES ASSUME ~LeaseExpires, TypeOK, Locked, [Next]_vars
             PROVE  Locked'
  OBVIOUS
<1>1. ASSUME NEW g \in Procs, Sent(g)
      PROVE  Locked'
  <2>1. UNCHANGED <<job, got, lock>>
    BY <1>1 DEF Sent, local
  <2>2. /\ \A h \in Procs \ {g} : pc'[h] = pc[h]
        /\ pc'[g] \in Critical => pc[g] \in Critical \ {"begin"}
    BY <1>1, LabelFacts DEF TypeOK, Goto, Sent
  <2> QED
    BY <2>1, <2>2, FrameLocked
<1>2. ASSUME NEW g \in Procs, (\E o \in Orders : Call(g, o)) \/ Return(g)
      PROVE  Locked'
  <2>1. UNCHANGED lock /\ pc'[g] \notin Critical
        /\ \A h \in Procs \ {g} : pc'[h] = pc[h] /\ job'[h] = job[h] /\ got'[h] = got[h]
    BY <1>2, LabelFacts DEF TypeOK, Call, Return, Goto
  <2> QED
    BY <2>1 DEF Locked, LockExclusion, Acct
<1>3. ASSUME NEW a \in Accounts, Expire(a)
      PROVE  Locked'
  <2>1. UNCHANGED <<pc, job, got>> /\ \A b \in Accounts \ {a} : lock'[b] = lock[b]
    BY <1>3 DEF TypeOK, Expire, local
  <2>2. \A g \in Procs : got[g] /\ pc[g] \in Critical => Acct(g) # a /\ Acct(g) \in Accounts
    BY <1>3, LabelFacts DEF Expire, Holder, TypeOK, Acct
  <2> QED
    BY <2>1, <2>2 DEF Locked, LockExclusion, Acct
<1>4. CASE Cancel \/ (\E a \in Accounts, r \in Readers : Replicate(r, a)) \/ Quiet \/ UNCHANGED vars
  <2>1. UNCHANGED <<pc, job, got, lock>>
    BY <1>4 DEF Cancel, Replicate, Quiet, vars, local
  <2> QED
    BY <2>1, FrameLocked
<1> QED
  BY <1>1, <1>2, <1>3, <1>4, RunLocked DEF Next, Environment

\* Mutual exclusion on the account lock, from SetNX to the deferred Del, as long
\* as no lease ends while its holder works: for any number of goroutines and
\* with every command allowed to fail.
THEOREM LockExclusionHolds == ASSUME ~LeaseExpires PROVE Spec => []LockExclusion
<1>1. Init => Locked
  BY LabelFacts DEF Init, Locked, LockExclusion
<1>2. TypeOK /\ Locked /\ [Next]_vars => Locked'
  BY NextLocked
<1>3. Locked => LockExclusion
  BY DEF Locked
<1> QED
  BY <1>1, <1>2, <1>3, InitType, NextType, PTL DEF Spec

-----------------------------------------------------------------------------
(* Where updates are lost. *)

\* A goroutine has a copy of the account's row that it will write back, or has
\* written to its transaction.
Reading(g) == pc[g] \in {"fraud", "transact", "update"}
Working(g) == Reading(g) \/ txAccount[g] # None

\* No two calls work on the row of one account at a time.
NoOverlap ==
    \A g, h \in Procs : g # h /\ Working(g) /\ Working(h) => Acct(g) # Acct(h)

\* The inductive strengthening of NoLostUpdate while nobody overlaps: replicas
\* and the copies that will be written back are up to date.
Exact ==
    /\ \A r \in Readers, a \in Accounts : replica[r][a] = account[a]
    /\ \A g \in Procs : Reading(g) => read[g] = account[Acct(g)]
    /\ \A g \in Procs :
          txAccount[g] # None => txAccount[g].balance = account[Acct(g)].balance - Amount[job[g]]
    /\ NoLostUpdate

LEMMA InitExact == Init => Exact
<1> SUFFICES ASSUME Init
             PROVE  Exact
  OBVIOUS
<1>1. \A a \in Accounts, r \in Readers : account[a] = Fresh(a) /\ replica[r][a] = Fresh(a)
  BY DEF Init
<1>2. \A g \in Procs : ~Reading(g) /\ txAccount[g] = None
  BY DEF Init, Reading
<1>3. NoLostUpdate
  BY <1>1 DEF Init, NoLostUpdate, Fresh
<1> QED
  BY <1>1, <1>2, <1>3 DEF Exact

\* A step that leaves rows and transactions alone, and after which nobody has a
\* copy who had none.
LEMMA FrameExact ==
    ASSUME Exact, UNCHANGED <<account, replica, debited, txAccount>>,
           \A h \in Procs : Reading(h)' => Reading(h) /\ read'[h] = read[h],
           \A h \in Procs : Working(h)' => job'[h] = job[h]
    PROVE  Exact'
<1>1. \A h \in Procs : Reading(h)' => read'[h] = account'[Acct(h)']
  BY DEF Exact, Working, Acct
<1>2. \A h \in Procs : txAccount'[h] # None =>
          txAccount'[h].balance = account'[Acct(h)'].balance - Amount[job'[h]]
  BY DEF Exact, Working, Acct
<1> QED
  BY <1>1, <1>2 DEF Exact, NoLostUpdate

LEMMA CheckExact ==
    ASSUME TypeOK, Exact, NEW g \in Procs, CheckAccountBalance(g)
    PROVE  Exact'
<1>1. /\ Acct(g) \in Accounts
      /\ UNCHANGED <<account, replica, debited, txAccount, job>>
      /\ pc[g] = "check"
  BY DEF TypeOK, CheckAccountBalance, Acct, store, tx
<1>2. \/ pc'[g] = "fail" /\ UNCHANGED read
      \/ pc'[g] = "fraud" /\ \E r \in Readers : read' = [read EXCEPT ![g] = replica[r][Acct(g)]]
  BY DEF TypeOK, CheckAccountBalance, Goto
<1>3. \A h \in Procs \ {g} : pc'[h] = pc[h] /\ read'[h] = read[h]
  BY <1>2 DEF TypeOK, CheckAccountBalance, Goto
<1>4. Reading(g)' => read'[g] = account[Acct(g)]
  BY <1>1, <1>2 DEF TypeOK, Exact, Reading
<1>5. \A h \in Procs : Reading(h)' => read'[h] = account'[Acct(h)']
  BY <1>1, <1>3, <1>4 DEF Exact, Reading, Acct
<1> QED
  BY <1>1, <1>5 DEF Exact, NoLostUpdate, Acct

LEMMA UpdateExact ==
    ASSUME TypeOK, Exact, NEW g \in Procs, UpdateBalanceAvgCount(g)
    PROVE  Exact'
<1>1. /\ job[g] \in Orders /\ Acct(g) \in Accounts /\ Amount[job[g]] \in Nat
      /\ UNCHANGED <<account, replica, debited, read, job>>
      /\ pc[g] = "update"
  BY DEF TypeOK, UpdateBalanceAvgCount, Acct, store, local
<1>2. read[g] \in Record /\ read[g] = account[Acct(g)]
  BY <1>1 DEF TypeOK, Exact, Reading
<1>3. \A h \in Procs : Reading(h)' => Reading(h)
  BY DEF TypeOK, UpdateBalanceAvgCount, Goto, Reading
<1>4. ASSUME NEW h \in Procs, txAccount'[h] # None
      PROVE  txAccount'[h].balance = account[Acct(h)].balance - Amount[job[h]]
  <2>1. CASE txAccount'[h] = txAccount[h]
    BY <1>4, <2>1 DEF Exact
  <2>2. CASE txAccount'[h] # txAccount[h]
    <3>1. h = g /\ txAccount'[g] \in Debited(read[g], Amount[job[g]])
      BY <2>2 DEF TypeOK, UpdateBalanceAvgCount
    <3>2. txAccount'[g].balance = read[g].balance - Amount[job[g]]
      BY <1>1, <1>2, <3>1, DebitedRecord
    <3> QED
      BY <1>2, <3>1, <3>2
  <2> QED
    BY <2>1, <2>2
<1> QED
  BY <1>1, <1>3, <1>4 DEF Exact, NoLostUpdate, Acct

\* The commit of a debit takes the balance one amount further, and by NoOverlap
\* nobody else has a copy of the old row.
LEMMA CommitExact ==
    ASSUME ~ReplicaLags, TypeOK, Exact, NoOverlap, NEW g \in Procs, Commit(g)
    PROVE  Exact'
<1>1. /\ job[g] \in Orders /\ Acct(g) \in Accounts /\ Amount[job[g]] \in Nat
      /\ UNCHANGED <<job, read>> /\ txAccount'[g] = None /\ pc'[g] = "return"
      /\ \A h \in Procs \ {g} : txAccount'[h] = txAccount[h] /\ pc'[h] = pc[h]
  BY LabelFacts DEF TypeOK, Commit, Goto, Acct, local
<1>2. \A h \in Procs : Acct(h)' = Acct(h)
  BY <1>1 DEF Acct
<1>3. \A h \in Procs : (Reading(h)' => h # g /\ Reading(h)) /\ (txAccount'[h] # None => h # g)
  BY <1>1 DEF Reading
<1>4. CASE UNCHANGED <<account, replica, debited>>
  <2>1. \A h \in Procs : Reading(h)' => read'[h] = account'[Acct(h)']
    BY <1>1, <1>2, <1>3, <1>4 DEF Exact
  <2>2. \A h \in Procs : txAccount'[h] # None =>
           txAccount'[h].balance = account'[Acct(h)'].balance - Amount[job'[h]]
    BY <1>1, <1>2, <1>3, <1>4 DEF Exact
  <2> QED
    BY <1>4, <2>1, <2>2 DEF Exact, NoLostUpdate
<1>5. CASE /\ txAccount[g] # None
           /\ account' = [account EXCEPT ![Acct(g)] = txAccount[g]]
           /\ debited' = [debited EXCEPT ![Acct(g)] = @ + Amount[job[g]]]
           /\ replica' = [r \in Readers |-> [replica[r] EXCEPT ![Acct(g)] = txAccount[g]]]
  <2>1. /\ account'[Acct(g)] = txAccount[g]
        /\ \A a \in Accounts \ {Acct(g)} : account'[a] = account[a] /\ debited'[a] = debited[a]
        /\ debited'[Acct(g)] = debited[Acct(g)] + Amount[job[g]]
    BY <1>1, <1>5 DEF TypeOK
  <2>2. \A r \in Readers, a \in Accounts : replica'[r][a] = account'[a]
    BY <1>1, <1>5, <2>1 DEF TypeOK, Exact
  <2>3. ASSUME NEW h \in Procs, h # g, Working(h)
        PROVE  Acct(h) \in Accounts /\ account'[Acct(h)] = account[Acct(h)]
    <3>1. Acct(h) # Acct(g)
      BY <1>5, <2>3 DEF NoOverlap, Working
    <3>2. Acct(h) \in Accounts
      BY <2>3, LabelFacts DEF TypeOK, Working, Reading, Acct
    <3> QED
      BY <2>1, <3>1, <3>2
  <2>4. \A h \in Procs : Reading(h)' => read'[h] = account'[Acct(h)']
    BY <1>1, <1>2, <1>3, <2>3 DEF Exact, Working
  <2>5. \A h \in Procs : txAccount'[h] # None =>
           txAccount'[h].balance = account'[Acct(h)'].balance - Amount[job'[h]]
    BY <1>1, <1>2, <1>3, <2>3 DEF Exact, Working
  <2>6. ASSUME NEW a \in Accounts
        PROVE  account'[a].balance = InitialBalance[a] - debited'[a]
    <3>1. CASE a = Acct(g)
      <4>1. /\ account'[a].balance = account[a].balance - Amount[job[g]]
            /\ debited'[a] = debited[a] + Amount[job[g]]
        BY <1>5, <2>1, <3>1 DEF Exact
      <4>2. account[a].balance = InitialBalance[a] - debited[a]
            /\ InitialBalance[a] \in Nat /\ debited[a] \in Nat
        BY DEF Exact, NoLostUpdate, TypeOK
      <4> QED
        BY <1>1, <4>1, <4>2
    <3>2. CASE a # Acct(g)
      BY <2>1, <3>2 DEF Exact, NoLostUpdate
    <3> QED
      BY <3>1, <3>2
  <2> QED
    BY <2>2, <2>4, <2>5, <2>6 DEF Exact, NoLostUpdate
<1> QED
  BY <1>4, <1>5 DEF Commit, Apply, store

LEMMA NextExact ==
    ~ReplicaLags /\ TypeOK /\ Exact /\ NoOverlap /\ [Next]_vars => Exact'
<1> SUFFICES ASSUME ~ReplicaLags, TypeOK, Exact, NoOverlap, [Next]_vars
             PROVE  Exact'
  OBVIOUS
<1>1. ASSUME NEW g \in Procs,
             \/ SetNX(g) \/ Begin(g) \/ AccountLocked(g) \/ HandleFraudResult(g)
             \/ FraudUnknown(g) \/ ProcessTransaction(g) \/ TransactionRetry(g)
             \/ Succeed(g) \/ Fail(g) \/ Del(g) \/ Sent(g)
      PROVE  Exact'
  <2>1. UNCHANGED <<account, replica, debited, txAccount, read, job>>
    BY <1>1 DEF SetNX, Begin, AccountLocked, HandleFraudResult, FraudUnknown, Del, Sent,
       ProcessTransaction, TransactionRetry, Succeed, Fail, store, local, tx
  <2>2. \A h \in Procs : Reading(h)' => Reading(h)
    BY <1>1 DEF TypeOK, Reading, Goto, SetNX, Begin, AccountLocked, HandleFraudResult,
       FraudUnknown, ProcessTransaction, TransactionRetry, Succeed, Fail, Del, Sent
  <2> QED
    BY <2>1, <2>2, FrameExact
<1>2. ASSUME NEW g \in Procs, (\E o \in Orders : Call(g, o)) \/ Return(g)
      PROVE  Exact'
  <2>1. txAccount[g] = None /\ UNCHANGED <<account, replica, debited, txAccount>>
    BY <1>2, LabelFacts DEF TypeOK, Call, Return, Goto, store, tx
  <2>2. /\ ~Reading(g)'
        /\ \A h \in Procs \ {g} : pc'[h] = pc[h] /\ read'[h] = read[h] /\ job'[h] = job[h]
    BY <1>2 DEF TypeOK, Reading, Call, Return, Goto
  <2>3. \A h \in Procs : Reading(h)' => Reading(h) /\ read'[h] = read[h]
    BY <2>2 DEF Reading
  <2>4. \A h \in Procs : Working(h)' => job'[h] = job[h]
    BY <2>1, <2>2 DEF Working
  <2> QED
    BY <2>1, <2>3, <2>4, FrameExact
<1>3. CASE Cancel \/ (\E a \in Accounts : Expire(a)) \/ Quiet \/ UNCHANGED vars
  <2>1. UNCHANGED <<account, replica, debited, txAccount, read, job, pc>>
    BY <1>3 DEF Cancel, Expire, Quiet, vars, store, local, tx
  <2> QED
    BY <2>1, FrameExact DEF Reading
<1>4. ASSUME NEW a \in Accounts, NEW r \in Readers, Replicate(r, a)
      PROVE  Exact'
  BY <1>4 DEF Replicate, Exact
<1> QED
  BY <1>1, <1>2, <1>3, <1>4, CheckExact, UpdateExact, CommitExact DEF Next, Run, Environment

\* Overlapping calls are the only cause of a lost update when reads are current:
\* in any behaviour in which no two calls work on one account between their read
\* of the row and their commit, every committed debit has reached the balance,
\* whatever leases end early and whatever commands fail.
THEOREM NoOverlapNoLoss ==
    ASSUME ~ReplicaLags
    PROVE  Spec /\ []NoOverlap => []NoLostUpdate
<1>1. TypeOK /\ Exact /\ NoOverlap /\ [Next]_vars => Exact'
  BY NextExact
<1>2. Exact => NoLostUpdate
  BY DEF Exact
<1> QED
  BY <1>1, <1>2, InitExact, InitType, NextType, PTL DEF Spec

\* Nobody works on the row of an account that another call has debited in a
\* transaction it has not committed yet, though its lock is deleted.
CommitsAlone ==
    \A g, h \in Procs :
        /\ g # h /\ pc[g] = "commit" /\ txAccount[g] # None
        /\ Working(h)
        => Acct(g) # Acct(h)

\* A row is in a transaction from the update to the commit.
LEMMA WrittenInvariant ==
    Spec => [](\A g \in Procs : txAccount[g] # None => pc[g] \in {"succeed", "del", "commit"})
<1> DEFINE Written == \A g \in Procs : txAccount[g] # None => pc[g] \in {"succeed", "del", "commit"}
<1>1. Init => Written
  BY DEF Init
<1>2. TypeOK /\ Written /\ [Next]_vars => Written'
  <2> SUFFICES ASSUME TypeOK, Written, [Next]_vars
               PROVE  Written'
    OBVIOUS
  <2>1. ASSUME NEW g \in Procs,
               \/ SetNX(g) \/ Begin(g) \/ AccountLocked(g) \/ CheckAccountBalance(g)
               \/ HandleFraudResult(g) \/ FraudUnknown(g) \/ ProcessTransaction(g)
               \/ TransactionRetry(g) \/ Succeed(g) \/ Fail(g) \/ Del(g) \/ Sent(g)
               \/ Return(g) \/ (\E o \in Orders : Call(g, o))
        PROVE  Written'
    <3>1. UNCHANGED txAccount
      BY <2>1 DEF SetNX, Begin, AccountLocked, CheckAccountBalance, HandleFraudResult,
         FraudUnknown, ProcessTransaction, TransactionRetry, Succeed, Fail, Del, Sent, Return,
         Call, tx
    <3>2. /\ pc[g] \in {"succeed", "del"} => pc'[g] \in {"del", "commit"}
          /\ pc[g] # "commit"
          /\ \A h \in Procs \ {g} : pc'[h] = pc[h]
      BY <2>1 DEF TypeOK, Goto, SetNX, Begin, AccountLocked, CheckAccountBalance,
         HandleFraudResult, FraudUnknown, ProcessTransaction, TransactionRetry, Succeed, Fail,
         Del, Sent, Return, Call
    <3> QED
      BY <3>1, <3>2
  <2>2. ASSUME NEW g \in Procs, UpdateBalanceAvgCount(g)
        PROVE  Written'
    <3>1. /\ pc'[g] = "succeed" \/ (pc'[g] = "fail" /\ UNCHANGED txAccount)
          /\ pc[g] = "update"
          /\ \A h \in Procs \ {g} : pc'[h] = pc[h] /\ txAccount'[h] = txAccount[h]
      BY <2>2 DEF TypeOK, UpdateBalanceAvgCount, Goto
    <3> QED
      BY <3>1
  <2>3. ASSUME NEW g \in Procs, Commit(g)
        PROVE  Written'
    <3>1. /\ txAccount'[g] = None
          /\ \A h \in Procs \ {g} : pc'[h] = pc[h] /\ txAccount'[h] = txAccount[h]
      BY <2>3 DEF TypeOK, Commit, Goto
    <3> QED
      BY <3>1
  <2>4. CASE Environment \/ Quiet \/ UNCHANGED vars
    <3>1. UNCHANGED <<pc, txAccount>>
      BY <2>4 DEF Environment, Cancel, Expire, Replicate, Quiet, vars, tx
    <3> QED
      BY <3>1
  <2> QED
    BY <2>1, <2>2, <2>3, <2>4 DEF Next, Run
<1> QED
  BY <1>1, <1>2, InitType, NextType, PTL DEF Spec

\* With leases that outlive their holders and current reads, the order of the two
\* deferred calls is the only cause of a lost update: it takes a call that reads
\* or writes the row after the other's lock was deleted and before its commit.
THEOREM OnlyEarlyUnlockLoses ==
    ASSUME ~LeaseExpires, ~ReplicaLags
    PROVE  Spec /\ []CommitsAlone => []NoLostUpdate
<1> DEFINE Written == \A g \in Procs : txAccount[g] # None => pc[g] \in {"succeed", "del", "commit"}
<1>1. Locked /\ Written /\ CommitsAlone => NoOverlap
  <2> SUFFICES ASSUME Locked, Written, CommitsAlone, NEW g \in Procs, NEW h \in Procs,
                      g # h, Working(g), Working(h), Acct(g) = Acct(h)
               PROVE  FALSE
    BY DEF NoOverlap
  <2>1. ASSUME NEW k \in Procs, Working(k)
        PROVE  (pc[k] = "commit" /\ txAccount[k] # None) \/ (pc[k] \in Critical /\ got[k])
    BY <2>1, LabelFacts DEF Working, Reading, Locked
  <2>2. (pc[g] # "commit" \/ txAccount[g] = None) /\ (pc[h] # "commit" \/ txAccount[h] = None)
    BY DEF CommitsAlone
  <2> QED
    BY <2>1, <2>2 DEF Locked, LockExclusion
<1>2. Init => Locked
  BY LabelFacts DEF Init, Locked, LockExclusion
<1>3. TypeOK /\ Locked /\ [Next]_vars => Locked'
  BY NextLocked
<1>4. Spec => []Locked
  BY <1>2, <1>3, InitType, NextType, PTL DEF Spec
<1>5. Spec /\ []NoOverlap => []NoLostUpdate
  BY NoOverlapNoLoss
<1> QED
  BY <1>1, <1>4, <1>5, WrittenInvariant, PTL
=============================================================================
