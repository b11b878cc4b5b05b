------------------------ MODULE PaymentWorkerProofs ------------------------
(***************************************************************************)
(* Proofs about PaymentWorker for any goroutines, orders, accounts, retry  *)
(* limit and number of crashes, and whatever is allowed to fail.           *)
(***************************************************************************)
EXTENDS PaymentWorker, PaymentProcessorProofs

USE WorkerAssumption

\* The count of a retry goroutine's job, and none of an order goroutine's: what
\* the jobs in flight need to be retry jobs when they are delivered again.
Counted ==
    \A g \in Procs :
        /\ g \in OrderProcs => retryCount[g] = 0
        /\ g \in RetryProcs /\ pc[g] # "idle" => retryCount[g] \in 1 .. MaxRetryCount

-----------------------------------------------------------------------------
(* Bags. *)

LEMMA BagFacts ==
    /\ \A x : BagToSet(One(x)) = {x} /\ One(x)[x] = 1
    /\ BagToSet(EmptyBag) = {}
    /\ \A A, B : BagToSet(A (+) B) = BagToSet(A) \cup BagToSet(B)
    /\ \A A, B : BagToSet(A (-) B) \subseteq BagToSet(A)
    /\ \A B : \A b \in SomeOf(B) : BagToSet(b) \subseteq BagToSet(B)
<1>1. \A x : BagToSet(One(x)) = {x} /\ One(x)[x] = 1
  BY DEF BagToSet, One, SetToBag
<1>2. BagToSet(EmptyBag) = {}
  BY DEF BagToSet, EmptyBag, SetToBag
<1>3. \A A, B : BagToSet(A (+) B) = BagToSet(A) \cup BagToSet(B)
  BY DEF BagToSet, (+)
<1>4. \A A, B : BagToSet(A (-) B) \subseteq BagToSet(A)
  BY DEF BagToSet, (-)
<1>5. \A B : \A b \in SomeOf(B) : BagToSet(b) \subseteq BagToSet(B)
  BY DEF BagToSet, SomeOf, \sqsubseteq
<1> QED
  BY <1>1, <1>2, <1>3, <1>4, <1>5

LEMMA OneMore ==
    ASSUME NEW B, NEW x
    PROVE  /\ x \notin BagToSet(B) => (B (+) One(x))[x] = 1
           /\ \A y \in BagToSet(B (+) One(x)) : y # x =>
                 y \in BagToSet(B) /\ (B[y] = 1 => (B (+) One(x))[y] = 1)
<1>1. BagToSet(B (+) One(x)) = BagToSet(B) \cup {x}
  BY BagFacts
<1>2. ASSUME x \notin BagToSet(B)
      PROVE  (B (+) One(x))[x] = 1
  BY <1>2 DEF (+), BagToSet, One, SetToBag
<1>3. ASSUME NEW y \in BagToSet(B), y # x, B[y] = 1
      PROVE  (B (+) One(x))[y] = 1
  BY <1>3 DEF (+), BagToSet, One, SetToBag
<1> QED
  BY <1>1, <1>2, <1>3

LEMMA OneLess ==
    ASSUME NEW B, NEW x \in BagToSet(B), B[x] = 1
    PROVE  /\ x \notin BagToSet(B (-) One(x))
           /\ \A y \in BagToSet(B (-) One(x)) :
                 y \in BagToSet(B) /\ (B[y] = 1 => (B (-) One(x))[y] = 1)
<1>1. x \notin BagToSet(B (-) One(x))
  BY DEF (-), BagToSet, One, SetToBag
<1>2. ASSUME NEW y \in BagToSet(B (-) One(x)), B[y] = 1
      PROVE  (B (-) One(x))[y] = 1
  <2>1. y # x
    BY <1>1, <1>2
  <2> QED
    BY <1>2, <2>1 DEF (-), BagToSet, One, SetToBag
<1> QED
  BY <1>1, <1>2, BagFacts

LEMMA InFlight ==
    BagToSet(RetryInFlight) = {RetryJobOf(g) : g \in {h \in RetryProcs : pc[h] # "idle"}}
  BY DEF RetryInFlight, BagOfAll, BagToSet, SetToBag

-----------------------------------------------------------------------------
(* Types, and what the worker does to the state of ProcessPayment. *)

\* The steps of the worker that are not steps of PaymentProcessor.
Ends == (\E g \in Procs : Panic(g)) \/ Crash \/ Exit

LEMMA BaseStep ==
    ASSUME WTypeOK, [WNext]_allVars, ~MaxRetryExceeded, ~Ends
    PROVE  [Next]_vars
<1>1. ASSUME NEW g \in Procs, ProcStep(g) \/ Receive(g) \/ Finish(g)
      PROVE  [Next]_vars
  BY <1>1 DEF ProcStep, Receive, Finish, FinishOrder, FinishRetry, Next
<1>2. ASSUME NEW g \in Procs, Consume(g)
      PROVE  [Next]_vars
  BY <1>2 DEF Consume, ConsumeOrder, ConsumeRetry, Next, WTypeOK, RetryJob
<1>3. CASE \/ \E o \in Orders : RejectOrder(o)
           \/ PublishRetry \/ CloseNext \/ WQuiet \/ UNCHANGED allVars
  BY <1>3 DEF RejectOrder, PublishRetry, CloseNext, WQuiet, allVars
<1>4. CASE Environment
  BY <1>4 DEF Next
<1> QED
  BY <1>1, <1>2, <1>3, <1>4 DEF WNext, Handle, Ends

\* What the end of the process does to the store, and which letters are lost.
LEMMA EndsFacts ==
    ASSUME Ends
    PROVE  /\ ProcessEnds /\ UNCHANGED <<store, lock, calls, reported>>
           /\ \E gone : Redelivery(gone)
           /\ dlq' \subseteq dlq /\ retryDlq' \subseteq retryDlq
           /\ dlq \subseteq dlq' \cup undelivered'
           /\ undelivered \subseteq undelivered' /\ undelivered' \subseteq undelivered \cup dlq
<1>1. ProcessEnds /\ UNCHANGED <<store, lock, calls, reported>>
  BY DEF Ends, Panic, Crash, Exit, ProcessEnds
<1>2. \E gone : Redelivery(gone)
  BY DEF Ends, Panic, Crash, Exit
<1>3. UNCHANGED letters \/ LoseBuffers
  BY DEF Ends, Panic, Crash, Exit
<1> QED
  BY <1>1, <1>2, <1>3 DEF LoseBuffers, Held, letters

LEMMA BaseType ==
    ASSUME WTypeOK, [WNext]_allVars
    PROVE  TypeOK'
<1>1. TypeOK
  BY DEF WTypeOK
<1>2. CASE MaxRetryExceeded
  <2>1. handler.order \in Orders
    BY <1>2 DEF MaxRetryExceeded, WTypeOK
  <2>2. status' \in [Orders -> Status]
    BY <1>1, <1>2, <2>1 DEF MaxRetryExceeded, TypeOK, Status
  <2> QED
    BY <1>1, <1>2, <2>2 DEF MaxRetryExceeded, TypeOK, local, tx
<1>3. CASE Ends
  <2>1. ProcessEnds
    BY <1>3, EndsFacts
  <2>2. UNCHANGED <<store, lock, calls>> /\ cancelled' \in BOOLEAN
    BY <1>1, <2>1 DEF ProcessEnds, TypeOK
  <2>3. /\ pc' \in [Procs -> Labels] /\ \A g \in Procs : pc'[g] = "idle"
        /\ job' \in [Procs -> Orders \cup {None}]
        /\ got' \in [Procs -> BOOLEAN]
        /\ read' \in [Procs -> Record \cup {None}]
        /\ result' \in [Procs -> {"ok", "err"}]
    BY <2>1, LabelFacts DEF ProcessEnds
  <2>4. /\ txStatus' \in [Procs -> Status \cup {None}]
        /\ txAccount' \in [Procs -> Record \cup {None}]
        /\ doomed' \in [Procs -> BOOLEAN]
        /\ \A g \in Procs : txStatus'[g] = None /\ txAccount'[g] = None /\ ~doomed'[g]
    BY <2>1 DEF ProcessEnds
  <2> QED
    BY <1>1, <2>2, <2>3, <2>4 DEF TypeOK, store
<1> QED
  BY <1>1, <1>2, <1>3, BaseStep, NextType

\* The variables of the worker, and the counts.
QueueType ==
    /\ orderTopic \subseteq Orders /\ orderAcked \subseteq Orders
    /\ BagToSet(retryTopic) \subseteq RetryJob
    /\ BagToSet(retryAcked) \subseteq RetryJob

LetterType ==
    /\ dlq \subseteq Orders /\ retryDlq \subseteq Orders /\ reported \subseteq Orders
    /\ undelivered \subseteq Orders

StageType ==
    /\ stage \in 0 .. Down /\ (stage > 0 => cancelled)
    /\ crashes \in 0 .. MaxCrashes

HandlerType == handler = None \/ handler \in [order : Orders, count : 1 .. MaxRetryCount + 1]

CountType == retryCount \in [Procs -> 0 .. MaxRetryCount] /\ Counted

\* The inductive invariant: WTypeOK by its parts, and the counts.
WType == TypeOK /\ QueueType /\ LetterType /\ StageType /\ HandlerType /\ CountType

LEMMA WTypeParts == WType => WTypeOK
  BY DEF WType, WTypeOK, QueueType, LetterType, StageType, HandlerType, CountType

LEMMA CloseFacts ==
    /\ Closed.retryChannel = 6 /\ Closed["orderConsumer"] = 2
    /\ IsClosed("retryChannel") <=> stage >= 6
  BY DEF Closed, IsClosed

LEMMA RunFrame ==
    ASSUME NEW g \in Procs, TypeOK, Run(g)
    PROVE  /\ UNCHANGED <<job, cancelled, calls>>
           /\ \A h \in Procs \ {g} : pc'[h] = pc[h]
           /\ pc[g] # "idle" /\ pc'[g] # "idle"
  BY LabelFacts DEF TypeOK, Run, Goto, SetNX, Begin, AccountLocked, CheckAccountBalance,
     HandleFraudResult, FraudUnknown, ProcessTransaction, TransactionRetry,
     UpdateBalanceAvgCount, Succeed, Fail, Del, Commit, local

LEMMA WNextType ==
    ASSUME WType, [WNext]_allVars
    PROVE  WType'
<1> USE DEF WType
<1>1. WTypeOK /\ TypeOK'
  BY BaseType, WTypeParts
<1>2. ASSUME NEW g \in Procs, ProcStep(g)
      PROVE  WType'
  <2>1. UNCHANGED wvars /\ UNCHANGED cancelled /\ \A h \in Procs : (pc'[h] = "idle") = (pc[h] = "idle")
    BY <1>2, RunFrame DEF ProcStep
  <2> QED
    BY <1>1, <2>1 DEF QueueType, LetterType, StageType, HandlerType, CountType, Counted,
       wvars, queues, letters
<1>3. ASSUME NEW g \in Procs, Receive(g)
      PROVE  WType'
  <2>1. pc[g] # "idle" /\ job[g] \in Orders
    BY <1>3 DEF Receive, Sent, Goto, TypeOK
  <2>2. HandlerType'
    BY <1>3, <2>1 DEF Receive, HandlerType, CountType
  <2>3. UNCHANGED cancelled /\ \A h \in Procs : (pc'[h] = "idle") = (pc[h] = "idle")
    BY <1>3 DEF Receive, Sent, Goto, TypeOK
  <2> QED
    BY <1>1, <1>3, <2>2, <2>3 DEF Receive, QueueType, LetterType, StageType, CountType, Counted,
       queues, letters
<1>4. ASSUME NEW g \in Procs, NEW o \in Orders, ConsumeOrder(g, o)
      PROVE  WType'
  <2>1. UNCHANGED <<cancelled, retryCount>> /\ \A h \in Procs \ {g} : pc'[h] = pc[h]
    BY <1>4 DEF ConsumeOrder, Call, Goto, TypeOK
  <2>2. g \notin RetryProcs
    BY <1>4 DEF ConsumeOrder, OrderProcs
  <2>3. CountType'
    BY <2>1, <2>2 DEF CountType, Counted
  <2> QED
    BY <1>1, <1>4, <2>1, <2>3 DEF ConsumeOrder, QueueType, LetterType, StageType, HandlerType,
       letters
<1>5. ASSUME NEW g \in Procs, NEW m \in BagToSet(retryTopic), ConsumeRetry(g, m)
      PROVE  WType'
  <2>1. m.count \in 1 .. MaxRetryCount
    BY DEF QueueType, RetryJob
  <2>2. UNCHANGED cancelled /\ \A h \in Procs \ {g} : pc'[h] = pc[h]
    BY <1>5 DEF ConsumeRetry, Call, Goto, TypeOK
  <2>3. CountType'
    BY <1>5, <2>1, <2>2 DEF ConsumeRetry, CountType, Counted, OrderProcs
  <2>4. BagToSet(retryTopic') \subseteq RetryJob
    BY <1>5, BagFacts DEF ConsumeRetry, QueueType
  <2> QED
    BY <1>1, <1>5, <2>2, <2>3, <2>4 DEF ConsumeRetry, QueueType, LetterType, StageType,
       HandlerType, letters
<1>6. ASSUME NEW g \in Procs, FinishOrder(g)
      PROVE  WType'
  <2>1. job[g] \in Orders /\ UNCHANGED <<cancelled, retryCount>>
        /\ g \notin RetryProcs /\ \A h \in Procs \ {g} : pc'[h] = pc[h]
    BY <1>6 DEF FinishOrder, Return, Goto, TypeOK, OrderProcs
  <2>2. CountType'
    BY <2>1 DEF CountType, Counted
  <2>3. QueueType'
    BY <1>6, <2>1 DEF FinishOrder, AckOrder, QueueType
  <2>4. LetterType'
    BY <1>6, <2>1 DEF FinishOrder, SendToDLQ, LetterType, letters
  <2> QED
    BY <1>1, <1>6, <2>1, <2>2, <2>3, <2>4 DEF FinishOrder, StageType, HandlerType
<1>7. ASSUME NEW g \in Procs, FinishRetry(g)
      PROVE  WType'
  <2>1. job[g] \in Orders /\ UNCHANGED cancelled /\ g \in RetryProcs /\ pc'[g] = "idle"
        /\ pc[g] # "idle" /\ \A h \in Procs \ {g} : pc'[h] = pc[h]
    BY <1>7 DEF FinishRetry, Return, Goto, TypeOK
  <2>2. CountType'
    BY <1>7, <2>1 DEF FinishRetry, CountType, Counted
  <2>3. RetryJobOf(g) \in RetryJob
    BY <2>1 DEF RetryJobOf, RetryJob, CountType, Counted
  <2>4. QueueType'
    BY <1>7, <2>3, BagFacts DEF FinishRetry, AckRetry, QueueType
  <2>5. LetterType'
    BY <1>7, <2>1 DEF FinishRetry, SendToRetryDLQ, LetterType, letters
  <2> QED
    BY <1>1, <1>7, <2>1, <2>2, <2>4, <2>5 DEF FinishRetry, StageType, HandlerType
<1>8. ASSUME NEW o \in Orders, RejectOrder(o)
      PROVE  WType'
  <2>1. UNCHANGED vars
    BY <1>8 DEF RejectOrder
  <2>2. QueueType'
    BY <1>8 DEF RejectOrder, AckOrder, QueueType
  <2>3. LetterType'
    BY <1>8 DEF RejectOrder, SendToDLQ, LetterType
  <2> QED
    BY <1>1, <1>8, <2>1, <2>2, <2>3 DEF RejectOrder, StageType, HandlerType, CountType,
       Counted, vars
<1>9. CASE PublishRetry
  <2>1. handler \in RetryJob
    BY <1>9 DEF PublishRetry, HandlerType, RetryJob
  <2>2. QueueType'
    BY <1>9, <2>1, BagFacts DEF PublishRetry, QueueType
  <2> QED
    BY <1>1, <1>9, <2>2 DEF PublishRetry, LetterType, StageType, HandlerType, CountType,
       Counted, vars, letters
<1>10. CASE MaxRetryExceeded
  <2>1. handler.order \in Orders
    BY <1>10 DEF MaxRetryExceeded, HandlerType
  <2>2. LetterType'
    BY <1>10, <2>1 DEF MaxRetryExceeded, SendToRetryDLQ, LetterType
  <2> QED
    BY <1>1, <1>10, <2>2 DEF MaxRetryExceeded, QueueType, StageType, HandlerType, CountType,
       Counted, queues
<1>11. CASE Environment /\ UNCHANGED wvars
  <2>1. UNCHANGED pc /\ (cancelled => cancelled')
    BY <1>11 DEF Environment, Cancel, Expire, Replicate
  <2> QED
    BY <1>1, <1>11, <2>1 DEF QueueType, LetterType, StageType, HandlerType, CountType,
       Counted, wvars, queues, letters
<1>12. CASE CloseNext
  <2>1. StageType'
    BY <1>12, CloseFacts DEF CloseNext, StageType, Down, vars
  <2> QED
    BY <1>1, <1>12, <2>1 DEF CloseNext, QueueType, LetterType, HandlerType, CountType,
       Counted, queues, letters, vars
<1>13. CASE Ends
  <2>1. ProcessEnds
    BY <1>13, EndsFacts
  <2>0. PICK gone : Redelivery(gone)
    BY <1>13, EndsFacts
  <2>2. CountType' /\ HandlerType' /\ LetterType'
    <3>1. CountType' /\ HandlerType'
      BY <2>1 DEF ProcessEnds, CountType, Counted, HandlerType
    <3>2. LetterType'
      BY <1>13, EndsFacts DEF LetterType
    <3> QED
      BY <3>1, <3>2
  <2>3. StageType'
    <3>1. stage >= 6 \/ crashes < MaxCrashes
      BY <1>13, CloseFacts DEF Ends, Crash, Panic, Exit
    <3>2. stage \in 0 .. 7 /\ crashes \in 0 .. MaxCrashes /\ (stage > 0 => cancelled)
      BY DEF StageType, Down
    <3>3. CASE crashes < MaxCrashes
      BY <2>1, <3>2, <3>3 DEF ProcessEnds, StageType, Down
    <3>4. CASE ~(crashes < MaxCrashes)
      BY <2>1, <3>1, <3>2, <3>4 DEF ProcessEnds, StageType, Down
    <3> QED
      BY <3>3, <3>4
  <2>4. BagToSet(RetryInFlight) \subseteq RetryJob
    <3>1. \A g \in RetryProcs : pc[g] # "idle" => RetryJobOf(g) \in RetryJob
      BY DEF RetryJobOf, RetryJob, CountType, Counted, TypeOK
    <3> QED
      BY <3>1, InFlight
  <2>5. BagToSet(retryTopic') \subseteq RetryJob /\ BagToSet(retryAcked') \subseteq RetryJob
    <3>1. PICK again \in SomeOf(retryAcked) :
              /\ retryTopic' = (retryTopic (-) gone) (+) RetryInFlight (+) again
              /\ retryAcked' = retryAcked (-) again
      BY <2>0 DEF Redelivery
    <3>2. BagToSet(again) \subseteq RetryJob
      BY BagFacts DEF QueueType
    <3>3. BagToSet(retryTopic') \subseteq
              (BagToSet(retryTopic) \cup BagToSet(RetryInFlight)) \cup BagToSet(again)
      BY <3>1, BagFacts
    <3>4. BagToSet(retryAcked') \subseteq BagToSet(retryAcked)
      BY <3>1, BagFacts
    <3> QED
      BY <2>4, <3>2, <3>3, <3>4 DEF QueueType
  <2>6. orderTopic' \subseteq Orders /\ orderAcked' \subseteq Orders
    BY <2>0 DEF Redelivery, QueueType
  <2> QED
    BY <1>1, <2>2, <2>3, <2>5, <2>6 DEF QueueType
<1>14. CASE WQuiet \/ UNCHANGED allVars
  BY <1>1, <1>14 DEF WQuiet, allVars, wvars, vars, queues, letters, QueueType, LetterType,
     StageType, HandlerType, CountType, Counted
<1> QED
  BY <1>2, <1>3, <1>4, <1>5, <1>6, <1>7, <1>8, <1>9, <1>10, <1>11, <1>12, <1>13, <1>14
     DEF WNext, Consume, Finish, Handle, Ends

LEMMA WInitType == WInit => WType
<1> SUFFICES ASSUME WInit
             PROVE  WType
  OBVIOUS
<1>1. TypeOK
  BY InitType DEF WInit
<1>2. QueueType
  BY BagFacts DEF WInit, QueueType
<1>3. CountType
  BY DEF WInit, CountType, Counted, Init, OrderProcs
<1>4. LetterType /\ StageType /\ HandlerType
  BY DEF WInit, LetterType, StageType, HandlerType, Down
<1> QED
  BY <1>1, <1>2, <1>3, <1>4 DEF WType

LEMMA WTypeInvariant == WSafety => []WType
  BY WInitType, WNextType, PTL DEF WSafety

\* Whatever fails, is redelivered or ends the process, every variable of the
\* worker keeps its type: a retry message counts from 1 to the maximum, and
\* nothing is closed before the context is cancelled.
THEOREM WTypeCorrect == WSafety => []WTypeOK
  BY WTypeInvariant, WTypeParts, PTL

-----------------------------------------------------------------------------
(* What PaymentProcessor promises still holds when the worker calls it. *)

LEMMA WNextLedger ==
    ASSUME WTypeOK, Ledger, [WNext]_allVars
    PROVE  Ledger'
<1>1. TypeOK
  BY DEF WTypeOK
<1>2. CASE MaxRetryExceeded
  <2>1. UNCHANGED <<account, replica, paid, debited, pc, job, read, txStatus, txAccount>>
    BY <1>2 DEF MaxRetryExceeded, local, tx
  <2>2. \A o \in Orders : status'[o] = "success" => status[o] = "success"
    BY <1>1, <1>2 DEF MaxRetryExceeded, TypeOK
  <2>3. SuccessIsPaid'
    BY <2>1, <2>2 DEF Ledger, SuccessIsPaid
  <2> QED
    BY <2>1, <2>3 DEF Ledger, Sound, SoundRead, SoundWrite, Acct
<1>3. CASE Ends
  <2>1. UNCHANGED store
        /\ \A g \in Procs : read'[g] = None /\ txAccount'[g] = None /\ txStatus'[g] = None
                            /\ pc'[g] = "idle"
    BY <1>3, EndsFacts DEF ProcessEnds
  <2>2. None # "success"
    BY NoneAssumption DEF Status
  <2>3. SuccessIsPaid'
    BY <2>1 DEF Ledger, SuccessIsPaid, store
  <2> QED
    BY <2>1, <2>2, <2>3 DEF Ledger, Sound, store
<1> QED
  BY <1>1, <1>2, <1>3, BaseStep, NextLedger

\* The money is safe in the whole worker: whatever is retried, redelivered or
\* interrupted by a crash, a panic or the shutdown, no balance falls below zero
\* or below what the committed payments explain, the books of every account
\* agree, and an order marked successful was paid.
THEOREM WorkerLedger ==
    WSafety => [](NeverNegative /\ NeverOverdebited /\ BooksAgree /\ SuccessIsPaid)
<1>1. WInit => Ledger
  BY InitLedger DEF WInit
<1>2. Ledger => NeverNegative /\ NeverOverdebited /\ BooksAgree /\ SuccessIsPaid
  BY DEF Ledger, Sound, NeverNegative, NeverOverdebited, BooksAgree
<1> QED
  BY <1>1, <1>2, WNextLedger, WTypeCorrect, PTL DEF WSafety

\* A crash leaves the Redis key behind and no goroutine in the critical section,
\* so the lock still excludes after a restart, as long as no lease ends early.
THEOREM WorkerLockExclusion == ASSUME ~LeaseExpires PROVE WSafety => []LockExclusion
<1>1. WInit => Locked
  BY LabelFacts DEF WInit, Init, Locked, LockExclusion
<1>2. ASSUME WTypeOK, Locked, [WNext]_allVars
      PROVE  Locked'
  <2>1. TypeOK
    BY <1>2 DEF WTypeOK
  <2>2. CASE MaxRetryExceeded
    BY <1>2, <2>1, <2>2, FrameLocked DEF MaxRetryExceeded, local
  <2>3. CASE Ends
    <3>1. \A g \in Procs : pc'[g] = "idle"
      BY <2>3, EndsFacts DEF ProcessEnds
    <3> QED
      BY <3>1, LabelFacts DEF Locked, LockExclusion
  <2> QED
    BY <1>2, <2>1, <2>2, <2>3, BaseStep, NextLocked
<1>3. Locked => LockExclusion
  BY DEF Locked
<1> QED
  BY <1>1, <1>2, <1>3, WTypeCorrect, PTL DEF WSafety

-----------------------------------------------------------------------------
(* No job is dropped unseen. *)

\* An acknowledged message was reported or a letter was produced for it, and one
\* that is not acknowledged is on the topic or with a goroutine.
Accounted ==
    /\ orderAcked \subseteq dlq \cup reported \cup undelivered
    /\ \A o \in Orders \ orderAcked :
          o \in orderTopic \/ \E g \in OrderProcs : pc[g] # "idle" /\ job[g] = o

LEMMA FrameAccounted ==
    ASSUME Accounted, UNCHANGED <<orderTopic, orderAcked>>,
           dlq \subseteq dlq', reported \subseteq reported', undelivered \subseteq undelivered',
           \A g \in OrderProcs : pc[g] # "idle" => pc'[g] # "idle" /\ job'[g] = job[g]
    PROVE  Accounted'
<1>1. (orderAcked \subseteq dlq \cup reported \cup undelivered)'
  BY DEF Accounted
<1>2. ASSUME NEW o \in Orders \ orderAcked, o \notin orderTopic
      PROVE  \E g \in OrderProcs : pc'[g] # "idle" /\ job'[g] = o
  BY <1>2 DEF Accounted
<1> QED
  BY <1>1, <1>2 DEF Accounted

\* The message of o is acknowledged, or waits for the next start.
LEMMA AckAccounted ==
    ASSUME Accounted, NEW o \in Orders, NEW rest, AckOrder(o, rest),
           orderTopic \subseteq rest \cup {o},
           \/ o \in reported' /\ reported \subseteq reported' /\ UNCHANGED letters
           \/ SendToDLQ(o) /\ UNCHANGED reported,
           \A g \in OrderProcs : pc[g] # "idle" /\ job[g] # o => pc'[g] # "idle" /\ job'[g] = job[g]
    PROVE  Accounted'
<1>1. dlq \subseteq dlq' /\ reported \subseteq reported' /\ undelivered \subseteq undelivered'
      /\ o \in dlq' \cup reported' \cup undelivered'
  BY DEF SendToDLQ, letters
<1>2. orderAcked \subseteq orderAcked' /\ orderAcked' \subseteq orderAcked \cup {o}
      /\ (o \in orderAcked' \/ o \in orderTopic') /\ rest \subseteq orderTopic'
  BY DEF AckOrder
<1>3. (orderAcked \subseteq dlq \cup reported \cup undelivered)'
  BY <1>1, <1>2 DEF Accounted
<1>4. ASSUME NEW q \in Orders \ orderAcked', q \notin orderTopic'
      PROVE  \E g \in OrderProcs : pc'[g] # "idle" /\ job'[g] = q
  <2>1. q # o /\ q \notin orderTopic /\ q \notin orderAcked
    BY <1>2, <1>4
  <2> QED
    BY <2>1 DEF Accounted
<1> QED
  BY <1>3, <1>4 DEF Accounted

LEMMA NextAccounted ==
    ASSUME WTypeOK, Accounted, [WNext]_allVars
    PROVE  Accounted'
<1>0. TypeOK
  BY DEF WTypeOK
<1>1. ASSUME NEW g \in Procs, ProcStep(g)
      PROVE  Accounted'
  BY <1>0, <1>1, RunFrame, FrameAccounted DEF ProcStep, wvars, queues, letters, OrderProcs
<1>2. ASSUME NEW g \in Procs, Receive(g)
      PROVE  Accounted'
  <2>1. UNCHANGED job /\ \A h \in Procs : pc[h] # "idle" => pc'[h] # "idle"
    BY <1>0, <1>2 DEF Receive, Sent, Goto, local, TypeOK
  <2> QED
    BY <1>2, <2>1, FrameAccounted DEF Receive, queues, letters, OrderProcs
<1>3. ASSUME NEW g \in Procs, NEW o \in Orders, ConsumeOrder(g, o)
      PROVE  Accounted'
  <2>1. /\ g \in OrderProcs /\ pc[g] = "idle" /\ pc'[g] # "idle" /\ job'[g] = o
        /\ \A h \in Procs \ {g} : pc'[h] = pc[h] /\ job'[h] = job[h]
    BY <1>0, <1>3 DEF ConsumeOrder, Call, Goto, TypeOK
  <2>2. (orderAcked \subseteq dlq \cup reported \cup undelivered)'
    BY <1>3 DEF ConsumeOrder, letters, Accounted
  <2>3. ASSUME NEW q \in Orders \ orderAcked, q \notin orderTopic'
        PROVE  \E h \in OrderProcs : pc'[h] # "idle" /\ job'[h] = q
    <3>1. CASE q = o
      BY <2>1, <3>1
    <3>2. CASE q # o
      BY <1>3, <2>1, <2>3, <3>2 DEF ConsumeOrder, Accounted, OrderProcs
    <3> QED
      BY <3>1, <3>2
  <2> QED
    BY <1>3, <2>2, <2>3 DEF ConsumeOrder, Accounted
<1>4. ASSUME NEW g \in Procs, NEW m \in BagToSet(retryTopic), ConsumeRetry(g, m)
      PROVE  Accounted'
  <2>1. \A h \in OrderProcs : pc'[h] = pc[h] /\ job'[h] = job[h]
    BY <1>0, <1>4 DEF ConsumeRetry, Call, Goto, TypeOK, OrderProcs
  <2> QED
    BY <1>4, <2>1, FrameAccounted DEF ConsumeRetry, letters
<1>5. ASSUME NEW g \in Procs, FinishOrder(g)
      PROVE  Accounted'
  <2>1. job[g] \in Orders /\ \A h \in Procs \ {g} : pc'[h] = pc[h] /\ job'[h] = job[h]
    BY <1>0, <1>5 DEF FinishOrder, Return, Goto, TypeOK
  <2>2. \A h \in OrderProcs : pc[h] # "idle" /\ job[h] # job[g] => pc'[h] # "idle" /\ job'[h] = job[h]
    BY <2>1 DEF OrderProcs
  <2>3. \/ job[g] \in reported' /\ reported \subseteq reported' /\ UNCHANGED letters
        \/ SendToDLQ(job[g]) /\ UNCHANGED reported
    BY <1>5 DEF FinishOrder
  <2>4. AckOrder(job[g], orderTopic)
    BY <1>5 DEF FinishOrder
  <2> QED
    BY <2>1, <2>2, <2>3, <2>4, AckAccounted
<1>6. ASSUME NEW g \in Procs, FinishRetry(g)
      PROVE  Accounted'
  <2>1. \A h \in OrderProcs : pc'[h] = pc[h] /\ job'[h] = job[h]
    BY <1>0, <1>6 DEF FinishRetry, Return, Goto, TypeOK, OrderProcs
  <2> QED
    BY <1>6, <2>1, FrameAccounted DEF FinishRetry, SendToRetryDLQ, letters
<1>7. ASSUME NEW o \in Orders, RejectOrder(o)
      PROVE  Accounted'
  BY <1>7, AckAccounted DEF RejectOrder, vars, local
<1>8. CASE PublishRetry \/ CloseNext \/ WQuiet \/ UNCHANGED allVars
  BY <1>8, FrameAccounted DEF PublishRetry, CloseNext, WQuiet, allVars, wvars, vars, local, queues,
     letters
<1>9. CASE MaxRetryExceeded
  BY <1>9, FrameAccounted DEF MaxRetryExceeded, SendToRetryDLQ, local, queues
<1>10. CASE Environment /\ UNCHANGED wvars
  <2>1. UNCHANGED <<pc, job>>
    BY <1>10 DEF Environment, Cancel, Expire, Replicate, local
  <2> QED
    BY <1>10, <2>1, FrameAccounted DEF wvars, queues, letters
<1>11. CASE Ends
  <2>0. PICK gone : Redelivery(gone)
    BY <1>11, EndsFacts
  <2>1. UNCHANGED reported /\ dlq \subseteq dlq' \cup undelivered' /\ undelivered \subseteq undelivered'
    BY <1>11, EndsFacts
  <2>2. PICK again \in SUBSET orderAcked :
            /\ orderTopic' = (Orders \ orderAcked) \cup again
            /\ orderAcked' = orderAcked \ again
    BY <2>0 DEF Redelivery
  <2>3. Orders \ orderAcked' \subseteq orderTopic'
    BY <2>2
  <2> QED
    BY <2>1, <2>2, <2>3 DEF Accounted
<1> QED
  BY <1>1, <1>2, <1>3, <1>4, <1>5, <1>6, <1>7, <1>8, <1>9, <1>10, <1>11
     DEF WNext, Consume, Finish, Handle, Ends

\* The dead letter of its own message is the only thing a job can be lost with:
\* wherever a crash, a panic or the shutdown falls between the debit, the letter
\* and the acknowledgement, and whichever produces fail or die in a buffer, an
\* order nobody has any more was reported or dead-lettered, unless that letter
\* never reached its queue.
THEOREM LostIsDeadLetteredHolds == WSafety => []LostIsDeadLettered
<1>1. WInit => Accounted
  BY DEF WInit, Accounted
<1>2. Accounted => LostIsDeadLettered
  BY DEF Accounted, LostIsDeadLettered, Kept, Tracked, OrderProcs
<1> QED
  BY <1>1, <1>2, NextAccounted, WTypeCorrect, PTL DEF WSafety

-----------------------------------------------------------------------------
(* One job per order. *)

\* Where a call may still send its job to the retry channel.
CanSend == {"setnx", "begin", "busy", "sendBusy", "check", "fraud", "unknown",
            "sendFraud", "transact", "sendTx"}

\* Goroutine g has the job of its order: it may still retry or settle it.
Live(g) ==
    \/ pc[g] \in CanSend \cup {"update", "succeed", "fail"}
    \/ txAccount[g] # None
    \/ txStatus[g] \in {"success", "failed"}

Settled(o) == status[o] \in {"success", "failed"}
Handled(o) == handler # None /\ handler.order = o
Queued(o)  == \E m \in BagToSet(retryTopic) : m.order = o

\* Order o was called as often as the count of its job says, and its job is in
\* one place: a message, a live goroutine, the handler or a retry message.  A
\* settled order has none, and no transaction writes to it.
OneJob(o) ==
    /\ o \in orderTopic => calls[o] = 0
    /\ Handled(o) => calls[o] = handler.count /\ ~Queued(o)
    /\ \A m \in BagToSet(retryTopic) :
          m.order = o => calls[o] = m.count /\ retryTopic[m] = 1
    /\ \A g \in Procs : job[g] = o /\ Live(g) =>
          /\ calls[o] = retryCount[g] + 1
          /\ ~Handled(o) /\ ~Queued(o)
          /\ \A h \in Procs \ {g} : job[h] = o => ~Live(h)
    /\ paid[o] = IF status[o] = "success" THEN 1 ELSE 0
    /\ Settled(o) =>
          /\ calls[o] > 0 /\ ~Handled(o) /\ ~Queued(o)
          /\ \A g \in Procs : job[g] = o => ~Live(g) /\ txStatus[g] = None

\* What g's transaction will commit: a debit exactly with a success.
TxOf(g) ==
    /\ pc[g] \in {"del", "commit"} /\ txAccount[g] # None /\ ~doomed[g] =>
          txStatus[g] = "success"
    /\ txStatus[g] = "success" \/ pc[g] = "succeed" => txAccount[g] # None
    /\ txAccount[g] # None => pc[g] \in {"succeed", "del", "commit"}
    /\ txStatus[g] \in {"success", "failed"} => pc[g] \in {"del", "commit"}
    /\ txStatus[g] # "pending"
    /\ pc[g] \in {"sendTx", "late"} => cancelled

\* No two transactions write to the same order.
TxSound ==
    /\ \A g \in Procs : TxOf(g)
    /\ \A g, h \in Procs :
          g # h /\ txStatus[g] # None /\ txStatus[h] # None => job[g] # job[h]

\* Until something is delivered twice.  After the cancellation messages may be
\* given back, but no call starts and nothing commits any more.
JobsInv ==
    /\ crashes = 0 /\ ~cancelled => TxSound /\ \A o \in Orders : OneJob(o)
    /\ crashes = 0 => \A o \in Orders : calls[o] <= MaxRetryCount + 1 /\ paid[o] <= 1

\* A step that gives nobody the job of order o and does not settle it.
Stay(o) ==
    /\ o \in orderTopic' => o \in orderTopic
    /\ Handled(o)' => Handled(o) /\ UNCHANGED handler
    /\ \A m \in BagToSet(retryTopic') : m.order = o =>
          m \in BagToSet(retryTopic) /\ (retryTopic[m] = 1 => retryTopic'[m] = 1)
    /\ calls'[o] = calls[o] /\ paid'[o] = paid[o]
    /\ status'[o] = status[o] \/ (status'[o] = "retrying" /\ ~Settled(o))
    /\ \A g \in Procs : job'[g] = o /\ Live(g)' =>
          job[g] = o /\ Live(g) /\ retryCount'[g] = retryCount[g]
    /\ \A g \in Procs : job'[g] = o /\ txStatus'[g] # None =>
          job[g] = o /\ (txStatus[g] # None \/ Live(g))

LEMMA StayJob ==
    ASSUME NEW o \in Orders, OneJob(o), Stay(o)
    PROVE  OneJob(o)'
<1>1. Queued(o)' => Queued(o)
  BY DEF Stay, Queued
<1>2. Settled(o)' => Settled(o)
  BY DEF Stay, Settled
<1>3. (o \in orderTopic => calls[o] = 0)'
  BY DEF Stay, OneJob
<1>4. (Handled(o) => calls[o] = handler.count /\ ~Queued(o))'
  BY <1>1 DEF Stay, OneJob
<1>5. (\A m \in BagToSet(retryTopic) : m.order = o => calls[o] = m.count /\ retryTopic[m] = 1)'
  BY DEF Stay, OneJob
<1>6. ASSUME NEW g \in Procs, job'[g] = o, Live(g)'
      PROVE  (/\ calls[o] = retryCount[g] + 1
              /\ ~Handled(o) /\ ~Queued(o)
              /\ \A h \in Procs \ {g} : job[h] = o => ~Live(h))'
  <2>1. job[g] = o /\ Live(g) /\ retryCount'[g] = retryCount[g]
    BY <1>6 DEF Stay
  <2>2. /\ calls[o] = retryCount[g] + 1
        /\ ~Handled(o) /\ ~Queued(o)
        /\ \A h \in Procs \ {g} : job[h] = o => ~Live(h)
    BY <2>1 DEF OneJob
  <2> QED
    BY <1>1, <2>1, <2>2 DEF Stay
<1>7. paid'[o] = IF status'[o] = "success" THEN 1 ELSE 0
  BY DEF Stay, OneJob, Settled
<1>8. ASSUME Settled(o)'
      PROVE  (/\ calls[o] > 0 /\ ~Handled(o) /\ ~Queued(o)
              /\ \A g \in Procs : job[g] = o => ~Live(g) /\ txStatus[g] = None)'
  <2>1. /\ calls[o] > 0 /\ ~Handled(o) /\ ~Queued(o)
        /\ \A g \in Procs : job[g] = o => ~Live(g) /\ txStatus[g] = None
    BY <1>2, <1>8 DEF OneJob
  <2> QED
    BY <1>1, <2>1 DEF Stay
<1> QED
  BY <1>3, <1>4, <1>5, <1>6, <1>7, <1>8 DEF OneJob

\* Nothing but goroutine g has changed, and it has got no job.
LEMMA FrameJobs ==
    ASSUME \A o \in Orders : OneJob(o), NEW g \in Procs,
           UNCHANGED <<orderTopic, retryTopic, handler, retryCount, job, calls, status, paid>>,
           \A h \in Procs \ {g} : pc'[h] = pc[h] /\ txStatus'[h] = txStatus[h] /\ txAccount'[h] = txAccount[h],
           Live(g)' => Live(g),
           txStatus'[g] # None => txStatus[g] # None \/ Live(g)
    PROVE  \A o \in Orders : OneJob(o)'
<1>1. \A h \in Procs \ {g} : Live(h)' <=> Live(h)
  BY DEF Live
<1>2. ASSUME NEW o \in Orders
      PROVE  Stay(o)
  BY <1>1 DEF Stay, Handled
<1> QED
  BY <1>2, StayJob

LEMMA StatusNone ==
    None \notin {"pending", "success", "retrying", "failed"}
  BY NoneAssumption DEF Status

\* The statuses of the other transactions stay, and g's is one it may write.
LEMMA FrameTx ==
    ASSUME TxSound, NEW g \in Procs, TxOf(g)', UNCHANGED <<job, cancelled>>,
           \A h \in Procs \ {g} : /\ pc'[h] = pc[h] /\ txStatus'[h] = txStatus[h]
                                  /\ txAccount'[h] = txAccount[h] /\ doomed'[h] = doomed[h],
           txStatus'[g] # None => txStatus[g] # None \/ OrderRowFree(g)
    PROVE  TxSound'
<1>1. \A h \in Procs : TxOf(h)'
  <2>1. \A h \in Procs \ {g} : TxOf(h)'
    BY DEF TxSound, TxOf
  <2> QED
    BY <2>1
<1>2. ASSUME NEW h \in Procs, NEW k \in Procs, h # k, txStatus'[h] # None, txStatus'[k] # None
      PROVE  job'[h] # job'[k]
  BY <1>2 DEF TxSound, OrderRowFree
<1> QED
  BY <1>1, <1>2 DEF TxSound

\* updateOrderStatus on the way to a label where the transaction may carry st.
LEMMA UpdateTx ==
    ASSUME TypeOK, ~cancelled, UNCHANGED cancelled, NEW g \in Procs, TxOf(g),
           NEW st \in {"success", "retrying", "failed"}, UpdateOrderStatus(g, st),
           UNCHANGED txAccount, pc'[g] \in {"sendBusy", "sendFraud", "del"},
           st # "retrying" => pc'[g] = "del",
           st = "success" <=> pc[g] = "succeed",
           pc[g] \in {"busy", "unknown", "succeed", "fail"}
    PROVE  /\ TxOf(g)'
           /\ \A h \in Procs \ {g} : txStatus'[h] = txStatus[h] /\ doomed'[h] = doomed[h]
           /\ txStatus'[g] # None => txStatus[g] # None \/ OrderRowFree(g)
<1>1. st \in Status
  BY DEF Status
<1>2. \A h \in Procs \ {g} : txStatus'[h] = txStatus[h] /\ doomed'[h] = doomed[h]
  BY <1>1, StatusType
<1>3. \/ txStatus'[g] = st /\ OrderRowFree(g)
      \/ txStatus'[g] = txStatus[g] /\ doomed'[g]
  BY DEF UpdateOrderStatus, TypeOK
<1>4. TxOf(g)'
  BY <1>3, StatusNone DEF TxOf
<1> QED
  BY <1>2, <1>3, <1>4

\* A step of ProcessPayment before the commit moves only its own goroutine, and
\* starts from a place where the goroutine had the job already.
LEMMA RunJobs ==
    ASSUME WType, ~cancelled, TxSound, \A o \in Orders : OneJob(o),
           NEW g \in Procs, ProcStep(g), ~Commit(g)
    PROVE  TxSound' /\ \A o \in Orders : OneJob(o)'
<1>1. TypeOK /\ Run(g) /\ TxOf(g)
  BY DEF WType, TxSound, ProcStep
<1>2. /\ UNCHANGED <<job, cancelled, calls, status, paid>>
      /\ UNCHANGED <<orderTopic, retryTopic, handler, retryCount>>
      /\ \A h \in Procs \ {g} : pc'[h] = pc[h]
  <2>1. UNCHANGED <<status, paid>>
    BY <1>1 DEF Run, SetNX, Begin, AccountLocked, CheckAccountBalance,
       HandleFraudResult, FraudUnknown, ProcessTransaction, TransactionRetry,
       UpdateBalanceAvgCount, Succeed, Fail, Del, store
  <2> QED
    BY <1>1, <2>1, RunFrame DEF ProcStep, wvars, queues
<1> DEFINE Goal ==
      /\ TxOf(g)'
      /\ \A h \in Procs \ {g} : /\ txStatus'[h] = txStatus[h]
                                /\ txAccount'[h] = txAccount[h] /\ doomed'[h] = doomed[h]
      /\ Live(g)' => Live(g)
      /\ txStatus'[g] # None => txStatus[g] # None \/ (OrderRowFree(g) /\ Live(g))
<1> SUFFICES Goal
  <2>1. ASSUME Goal
        PROVE  TxSound'
    BY <1>2, <2>1, FrameTx
  <2>2. ASSUME Goal
        PROVE  \A o \in Orders : OneJob(o)'
    BY <1>2, <2>2, FrameJobs
  <2> QED
    BY <2>1, <2>2
<1>3. CASE SetNX(g) \/ Begin(g) \/ CheckAccountBalance(g) \/ HandleFraudResult(g)
           \/ ProcessTransaction(g)
  <2>1. UNCHANGED tx
    BY <1>3 DEF SetNX, Begin, CheckAccountBalance, HandleFraudResult, ProcessTransaction
  <2>2. pc[g] \in CanSend \ {"sendTx"}
        /\ pc'[g] \in Labels \ {"succeed", "sendTx", "late", "del", "commit"}
    BY <1>1, <1>3, LabelFacts DEF SetNX, Begin, CheckAccountBalance, HandleFraudResult,
       ProcessTransaction, Goto, TypeOK, CanSend
  <2> QED
    BY <1>1, <2>1, <2>2, StatusNone DEF tx, TxOf, Live, CanSend
<1>4. CASE AccountLocked(g) \/ FraudUnknown(g)
  <2>1. UNCHANGED txAccount /\ UpdateOrderStatus(g, "retrying")
        /\ pc[g] \in {"busy", "unknown"} /\ pc'[g] \in {"sendBusy", "sendFraud", "del"}
    BY <1>1, <1>4 DEF AccountLocked, FraudUnknown, Goto, TypeOK
  <2> QED
    BY <1>1, <1>2, <2>1, UpdateTx DEF Live, CanSend
<1>5. CASE Succeed(g)
  <2>1. UNCHANGED txAccount /\ UpdateOrderStatus(g, "success")
        /\ pc[g] = "succeed" /\ pc'[g] = "del"
    BY <1>1, <1>5 DEF Succeed, Goto, TypeOK
  <2> QED
    BY <1>1, <1>2, <2>1, UpdateTx DEF Live, CanSend
<1>6. CASE Fail(g)
  <2>1. UNCHANGED txAccount /\ UpdateOrderStatus(g, "failed")
        /\ pc[g] = "fail" /\ pc'[g] = "del"
    BY <1>1, <1>6 DEF Fail, Goto, TypeOK
  <2> QED
    BY <1>1, <1>2, <2>1, UpdateTx DEF Live, CanSend
<1>7. CASE TransactionRetry(g)
  BY <1>1, <1>7 DEF TransactionRetry, Goto, TxOf
<1>8. CASE UpdateBalanceAvgCount(g)
  <2>1. read[g] \in Record /\ job[g] \in Orders /\ Amount[job[g]] \in Nat
    BY <1>1, <1>8, LabelFacts, DataAssumption DEF TypeOK, UpdateBalanceAvgCount
  <2>2. Debited(read[g], Amount[job[g]]) \subseteq Record
    BY <2>1, DebitedRecord
  <2>3. pc[g] = "update" /\ UNCHANGED txStatus
    BY <1>8 DEF UpdateBalanceAvgCount
  <2>4. CASE pc'[g] = "succeed" /\ UNCHANGED doomed
             /\ \E new \in Debited(read[g], Amount[job[g]]) :
                   txAccount' = [txAccount EXCEPT ![g] = new]
    <3>1. txAccount'[g] # None /\ \A h \in Procs \ {g} : txAccount'[h] = txAccount[h]
      BY <1>1, <2>2, <2>4, NoneAssumption DEF TypeOK
    <3> QED
      BY <1>1, <2>3, <2>4, <3>1, StatusNone DEF TxOf, Live
  <2>5. CASE pc'[g] = "fail" /\ UNCHANGED txAccount
             /\ \A h \in Procs \ {g} : doomed'[h] = doomed[h]
    BY <1>1, <2>3, <2>5, StatusNone DEF TxOf, Live
  <2>6. \/ pc'[g] = "succeed" /\ UNCHANGED doomed
             /\ \E new \in Debited(read[g], Amount[job[g]]) :
                   txAccount' = [txAccount EXCEPT ![g] = new]
        \/ pc'[g] = "fail" /\ UNCHANGED txAccount
             /\ \A h \in Procs \ {g} : doomed'[h] = doomed[h]
    BY <1>1, <1>8 DEF UpdateBalanceAvgCount, Goto, TypeOK
  <2> QED
    BY <2>4, <2>5, <2>6
<1>9. CASE Del(g)
  <2>1. UNCHANGED tx /\ pc[g] = "del" /\ pc'[g] = "commit"
    BY <1>1, <1>9 DEF Del, Goto, TypeOK
  <2> QED
    BY <1>1, <2>1 DEF TxOf, Live, CanSend, tx
<1> QED
  BY <1>1, <1>3, <1>4, <1>5, <1>6, <1>7, <1>8, <1>9 DEF Run

\* What a commit that works does to the order and to its books: the life cycle
\* steps of OrderLifecycle.
LEMMA CommitEffect ==
    ASSUME TypeOK, ~cancelled, TxSound, \A o \in Orders : OneJob(o),
           NEW g \in Procs, Commit(g)
    PROVE  /\ job[g] \in Orders
           /\ \/ UNCHANGED <<status, paid>>
              \/ /\ status' = [status EXCEPT ![job[g]] = txStatus[g]]
                 /\ ~Settled(job[g])
                 /\ \/ txStatus[g] \in {"retrying", "failed"} /\ UNCHANGED paid
                    \/ txStatus[g] = "success" /\ paid' = [paid EXCEPT ![job[g]] = @ + 1]
<1>1. job[g] \in Orders /\ pc[g] = "commit" /\ TxOf(g)
  BY LabelFacts DEF Commit, Goto, TypeOK, TxSound
<1>2. CASE UNCHANGED store
  BY <1>1, <1>2 DEF store
<1>3. CASE ~doomed[g] /\ Apply(g)
  <2>1. CASE txStatus[g] = None
    <3>1. txAccount[g] = None
      BY <1>1, <1>3, <2>1, StatusNone DEF TxOf
    <3> QED
      BY <1>1, <1>3, <2>1, <3>1 DEF Apply
  <2>2. CASE txStatus[g] # None
    <3>1. ~Settled(job[g])
      BY <1>1, <2>2 DEF OneJob
    <3>2. status' = [status EXCEPT ![job[g]] = txStatus[g]]
      BY <1>3, <2>2 DEF Apply
    <3>3. txStatus[g] \in {"success", "retrying", "failed"}
      BY <1>1, <2>2 DEF TypeOK, Status, TxOf
    <3>4. txStatus[g] = "success" <=> txAccount[g] # None
      BY <1>1, <1>3 DEF TxOf
    <3> QED
      BY <1>1, <1>3, <3>1, <3>2, <3>3, <3>4 DEF Apply
  <2> QED
    BY <2>1, <2>2
<1> QED
  BY <1>2, <1>3 DEF Commit

\* An order nobody has the job of is settled.
LEMMA SettleJob ==
    ASSUME NEW o \in Orders, OneJob(o), ~Settled(o), calls[o] > 0,
           UNCHANGED <<orderTopic, retryTopic, retryCount, job, calls>>,
           ~Handled(o)', ~Queued(o),
           \A g \in Procs : job[g] = o => ~Live(g)' /\ txStatus'[g] = None,
           \/ status'[o] = "failed" /\ paid'[o] = paid[o]
           \/ status'[o] = "success" /\ paid'[o] = paid[o] + 1
    PROVE  OneJob(o)'
<1>1. paid[o] = 0
  BY DEF OneJob, Settled
<1>2. ~Queued(o)'
  BY DEF Queued
<1>3. \A m \in BagToSet(retryTopic') : m.order # o
  BY DEF Queued
<1>4. o \notin orderTopic'
  BY DEF OneJob
<1> QED
  BY <1>1, <1>2, <1>3, <1>4 DEF OneJob, Settled

LEMMA CommitJobs ==
    ASSUME WType, ~cancelled, TxSound, \A o \in Orders : OneJob(o),
           NEW g \in Procs, ProcStep(g), Commit(g)
    PROVE  TxSound' /\ \A o \in Orders : OneJob(o)'
<1>1. TypeOK /\ TxOf(g)
  BY DEF WType, TxSound
<1>2. /\ UNCHANGED <<job, cancelled, calls, orderTopic, retryTopic, handler, retryCount>>
      /\ \A h \in Procs \ {g} : /\ pc'[h] = pc[h] /\ txStatus'[h] = txStatus[h]
                                /\ txAccount'[h] = txAccount[h] /\ doomed'[h] = doomed[h]
      /\ pc[g] = "commit" /\ pc'[g] = "return"
      /\ txStatus'[g] = None /\ txAccount'[g] = None
  BY <1>1 DEF ProcStep, Commit, Goto, TypeOK, local, wvars, queues
<1>3. TxOf(g)' /\ ~Live(g)'
  BY <1>2, StatusNone DEF TxOf, Live, CanSend
<1>4. TxSound'
  BY <1>2, <1>3, FrameTx
<1>5. CASE UNCHANGED <<status, paid>>
  BY <1>2, <1>3, <1>4, <1>5, FrameJobs
<1>6. CASE /\ status' = [status EXCEPT ![job[g]] = txStatus[g]]
           /\ job[g] \in Orders /\ ~Settled(job[g])
           /\ \/ txStatus[g] \in {"retrying", "failed"} /\ UNCHANGED paid
              \/ txStatus[g] = "success" /\ paid' = [paid EXCEPT ![job[g]] = @ + 1]
  <2>0. PICK o \in Orders : o = job[g]
    BY <1>6
  <2>1. \A h \in Procs \ {g} : Live(h)' <=> Live(h)
    BY <1>2 DEF Live
  <2>2. status'[o] = txStatus[g] /\ \A q \in Orders \ {o} : status'[q] = status[q] /\ paid'[q] = paid[q]
    BY <1>1, <1>6, <2>0 DEF TypeOK
  <2>3. ASSUME NEW q \in Orders \ {o}
        PROVE  OneJob(q)'
    <3>1. Stay(q)
      BY <1>2, <1>3, <2>0, <2>1, <2>2 DEF Stay, Handled
    <3> QED
      BY <3>1, StayJob
  <2>4. CASE txStatus[g] = "retrying"
    <3>1. Stay(o)
      BY <1>2, <1>3, <1>6, <2>0, <2>1, <2>2, <2>4 DEF Stay, Handled
    <3> QED
      BY <1>4, <1>6, <2>3, <3>1, StayJob
  <2>5. CASE txStatus[g] \in {"success", "failed"}
    <3>1. Live(g)
      BY <2>5 DEF Live
    <3>2. /\ calls[o] = retryCount[g] + 1 /\ ~Handled(o) /\ ~Queued(o)
          /\ \A h \in Procs \ {g} : job[h] = o => ~Live(h)
      BY <2>0, <3>1 DEF OneJob
    <3>3. calls[o] > 0
      BY <3>2 DEF WType, CountType
    <3>4. \A h \in Procs : job[h] = o => ~Live(h)' /\ txStatus'[h] = None
      <4>1. \A h \in Procs \ {g} : job[h] = o => txStatus[h] = None
        BY <2>0, <2>5, StatusNone DEF TxSound
      <4> QED
        BY <1>2, <1>3, <2>0, <2>1, <3>2, <4>1
    <3>5. \/ status'[o] = "failed" /\ paid'[o] = paid[o]
          \/ status'[o] = "success" /\ paid'[o] = paid[o] + 1
      BY <1>1, <1>6, <2>0, <2>2, <2>5 DEF TypeOK
    <3>6. ~Handled(o)'
      BY <1>2, <3>2 DEF Handled
    <3>7. OneJob(o)'
      BY <1>2, <1>6, <2>0, <3>2, <3>3, <3>4, <3>5, <3>6, SettleJob
    <3> QED
      BY <1>4, <2>3, <3>7
  <2> QED
    BY <1>6, <2>4, <2>5
<1> QED
  BY <1>1, <1>5, <1>6, CommitEffect

\* The handler takes the job over from the goroutine that sends it.
LEMMA ReceiveJobs ==
    ASSUME WType, ~cancelled, TxSound, \A o \in Orders : OneJob(o),
           NEW g \in Procs, Receive(g)
    PROVE  TxSound' /\ \A o \in Orders : OneJob(o)'
<1>1. TypeOK /\ TxOf(g)
  BY DEF WType, TxSound
<1>2. /\ UNCHANGED <<job, cancelled, calls, orderTopic, retryTopic, retryCount, status, paid, tx>>
      /\ \A h \in Procs \ {g} : pc'[h] = pc[h]
      /\ pc[g] \in {"sendBusy", "sendFraud"} /\ pc'[g] \in {"del", "commit"}
      /\ handler' = [order |-> job[g], count |-> retryCount[g] + 1]
  BY <1>1 DEF Receive, Sent, Goto, TypeOK, TxOf, local, store, queues
<1>3. PICK o \in Orders : o = job[g]
  BY <1>1, <1>2 DEF TypeOK
<1>4. TxOf(g)' /\ ~Live(g)'
  BY <1>1, <1>2, StatusNone DEF TxOf, Live, CanSend, tx
<1>5. TxSound'
  BY <1>2, <1>4, FrameTx DEF tx
<1>6. \A h \in Procs \ {g} : Live(h)' <=> Live(h)
  BY <1>2 DEF Live, tx
<1>7. ASSUME NEW q \in Orders \ {o}
      PROVE  OneJob(q)'
  <2>1. Stay(q)
    BY <1>2, <1>3, <1>4, <1>6 DEF Stay, Handled, tx
  <2> QED
    BY <2>1, StayJob
<1>8. OneJob(o)'
  <2>1. /\ calls[o] = retryCount[g] + 1 /\ ~Queued(o) /\ ~Settled(o)
        /\ \A h \in Procs \ {g} : job[h] = o => ~Live(h)
    BY <1>2, <1>3 DEF OneJob, Live, CanSend
  <2>2. ~Queued(o)' /\ ~Settled(o)'
    BY <1>2, <2>1 DEF Queued, Settled
  <2>3. \A m \in BagToSet(retryTopic') : m.order # o
    BY <2>2 DEF Queued
  <2>4. \A h \in Procs : job'[h] = o => ~Live(h)'
    BY <1>2, <1>3, <1>4, <1>6, <2>1
  <2>5. calls'[o] = handler'.count
    BY <1>2, <2>1
  <2> QED
    BY <1>2, <2>2, <2>3, <2>4, <2>5 DEF OneJob
<1> QED
  BY <1>5, <1>7, <1>8

\* A goroutine takes the job of o from the topic: nobody else had it.
LEMMA TakeJobs ==
    ASSUME WType, ~cancelled, TxSound, \A o \in Orders : OneJob(o),
           NEW g \in Procs, NEW o \in Orders, Call(g, o),
           ~Handled(o), ~Settled(o), \A h \in Procs : job[h] = o => ~Live(h),
           calls[o] = retryCount'[g],
           UNCHANGED handler, \A h \in Procs \ {g} : retryCount'[h] = retryCount[h],
           orderTopic' \subseteq orderTopic \ {o},
           \A m \in BagToSet(retryTopic') :
               m.order # o /\ m \in BagToSet(retryTopic) /\ (retryTopic[m] = 1 => retryTopic'[m] = 1)
    PROVE  TxSound' /\ \A q \in Orders : OneJob(q)'
<1>1. TypeOK /\ TxOf(g)
  BY DEF WType, TxSound
<1>2. /\ UNCHANGED <<cancelled, status, paid, tx>>
      /\ \A h \in Procs \ {g} : pc'[h] = pc[h] /\ job'[h] = job[h]
      /\ pc[g] = "idle" /\ pc'[g] = "setnx" /\ job'[g] = o
      /\ calls'[o] = calls[o] + 1 /\ \A q \in Orders \ {o} : calls'[q] = calls[q]
  BY <1>1 DEF Call, Goto, TypeOK, store
<1>3. txStatus[g] = None /\ txAccount[g] = None
  BY <1>1, <1>2, LabelFacts DEF TypeOK
<1>4. TxSound'
  <2>1. \A h \in Procs : TxOf(h)'
    BY <1>2, <1>3, StatusNone DEF TxSound, TxOf, tx
  <2>2. ASSUME NEW h \in Procs, NEW k \in Procs, h # k, txStatus'[h] # None, txStatus'[k] # None
        PROVE  job'[h] # job'[k]
    BY <1>2, <1>3, <2>2 DEF TxSound, tx
  <2> QED
    BY <2>1, <2>2 DEF TxSound
<1>5. \A h \in Procs \ {g} : Live(h)' <=> Live(h)
  BY <1>2 DEF Live, tx
<1>6. ASSUME NEW q \in Orders \ {o}
      PROVE  OneJob(q)'
  <2>1. Stay(q)
    BY <1>2, <1>3, <1>5 DEF Stay, Handled, tx
  <2> QED
    BY <2>1, StayJob
<1>7. OneJob(o)'
  <2>1. ~Queued(o)' /\ ~Handled(o)' /\ ~Settled(o)' /\ o \notin orderTopic'
    BY <1>2 DEF Queued, Handled, Settled
  <2>2. \A h \in Procs \ {g} : job'[h] = o => ~Live(h)'
    BY <1>2, <1>5
  <2>3. paid'[o] = IF status'[o] = "success" THEN 1 ELSE 0
    BY <1>2 DEF OneJob
  <2> QED
    BY <1>2, <2>1, <2>2, <2>3 DEF OneJob
<1> QED
  BY <1>4, <1>6, <1>7

LEMMA ConsumeJobs ==
    ASSUME WType, ~cancelled, TxSound, \A o \in Orders : OneJob(o),
           \A o \in Orders : calls[o] <= MaxRetryCount + 1,
           NEW g \in Procs, Consume(g)
    PROVE  /\ TxSound' /\ \A o \in Orders : OneJob(o)'
           /\ \A o \in Orders : calls'[o] <= MaxRetryCount + 1
<1>0. TypeOK /\ MaxRetryCount \in Nat
  BY DEF WType
<1>1. ASSUME NEW o \in Orders, ConsumeOrder(g, o)
      PROVE  /\ TxSound' /\ \A q \in Orders : OneJob(q)'
             /\ \A q \in Orders : calls'[q] <= MaxRetryCount + 1
  <2>1. Call(g, o) /\ o \in orderTopic /\ g \in OrderProcs
        /\ UNCHANGED <<handler, retryCount, retryTopic>> /\ orderTopic' = orderTopic \ {o}
    BY <1>1 DEF ConsumeOrder
  <2>2. calls[o] = 0 /\ retryCount[g] = 0 /\ retryCount \in [Procs -> 0 .. MaxRetryCount]
    BY <2>1 DEF OneJob, WType, CountType, Counted
  <2>3. ~Handled(o)
    BY <2>2 DEF OneJob, Handled, WType, HandlerType
  <2>4. \A m \in BagToSet(retryTopic) : m.order # o
    BY <2>2 DEF OneJob, WType, QueueType, RetryJob
  <2>5. ~Settled(o) /\ \A h \in Procs : job[h] = o => ~Live(h)
    BY <2>2 DEF OneJob
  <2>6. \A m \in BagToSet(retryTopic') :
            m.order # o /\ m \in BagToSet(retryTopic) /\ (retryTopic[m] = 1 => retryTopic'[m] = 1)
    BY <2>1, <2>4
  <2>7. calls'[o] = 1 /\ \A q \in Orders \ {o} : calls'[q] = calls[q]
    BY <1>0, <2>1, <2>2 DEF Call, TypeOK
  <2>8. \A q \in Orders : calls'[q] <= MaxRetryCount + 1
    BY <1>0, <2>7
  <2>9. TxSound' /\ \A q \in Orders : OneJob(q)'
    BY <2>1, <2>2, <2>3, <2>5, <2>6, TakeJobs
  <2> QED
    BY <2>8, <2>9
<1>2. ASSUME NEW m \in BagToSet(retryTopic), ConsumeRetry(g, m)
      PROVE  /\ TxSound' /\ \A q \in Orders : OneJob(q)'
             /\ \A q \in Orders : calls'[q] <= MaxRetryCount + 1
  <2>1. m \in RetryJob /\ m.order \in Orders /\ m.count \in 1 .. MaxRetryCount
    BY DEF WType, QueueType, RetryJob
  <2>2. PICK o \in Orders : o = m.order
    BY <2>1
  <2>3. Call(g, o) /\ UNCHANGED <<handler, orderTopic>>
        /\ retryTopic' = retryTopic (-) One(m) /\ retryCount' = [retryCount EXCEPT ![g] = m.count]
    BY <1>2, <2>2 DEF ConsumeRetry
  <2>4. calls[o] = m.count /\ retryTopic[m] = 1 /\ Queued(o)
    BY <2>2 DEF OneJob, Queued
  <2>5. ~Handled(o) /\ ~Settled(o) /\ o \notin orderTopic /\ \A h \in Procs : job[h] = o => ~Live(h)
    BY <2>1, <2>4 DEF OneJob
  <2>6. calls[o] = retryCount'[g] /\ \A h \in Procs \ {g} : retryCount'[h] = retryCount[h]
    BY <2>3, <2>4 DEF WType, CountType
  <2>7. ASSUME NEW n \in BagToSet(retryTopic')
        PROVE  n.order # o /\ n \in BagToSet(retryTopic) /\ (retryTopic[n] = 1 => retryTopic'[n] = 1)
    <3>1. n # m /\ n \in BagToSet(retryTopic) /\ (retryTopic[n] = 1 => retryTopic'[n] = 1)
      BY <2>3, <2>4, OneLess
    <3>2. ASSUME n.order = o
          PROVE  FALSE
      <4>1. n \in RetryJob /\ n.count = m.count
        BY <2>4, <3>1, <3>2 DEF OneJob, WType, QueueType
      <4> QED
        BY <2>1, <2>2, <3>1, <3>2, <4>1 DEF RetryJob
    <3> QED
      BY <3>1, <3>2
  <2>8. calls'[o] = m.count + 1 /\ \A q \in Orders \ {o} : calls'[q] = calls[q]
    BY <1>0, <2>3, <2>4 DEF Call, TypeOK
  <2>9. \A q \in Orders : calls'[q] <= MaxRetryCount + 1
    BY <1>0, <2>1, <2>8
  <2>10. TxSound' /\ \A q \in Orders : OneJob(q)'
    BY <2>3, <2>5, <2>6, <2>7, TakeJobs
  <2> QED
    BY <2>9, <2>10
<1> QED
  BY <1>1, <1>2 DEF Consume

LEMMA FinishJobs ==
    ASSUME WType, ~cancelled, TxSound, \A o \in Orders : OneJob(o),
           NEW g \in Procs, Finish(g)
    PROVE  TxSound' /\ \A o \in Orders : OneJob(o)'
<1>1. TypeOK /\ stage = 0
  BY DEF WType, StageType, Down
<1>2. ~IsClosed("orderConsumer") /\ ~IsClosed("retryConsumer")
  BY <1>1 DEF IsClosed, Closed
<1>3. UNCHANGED <<orderTopic, retryTopic, handler>> /\ Return(g)
      /\ \A h \in Procs \ {g} : retryCount'[h] = retryCount[h]
  BY <1>2 DEF Finish, FinishOrder, FinishRetry, AckOrder, AckRetry, WType, CountType
<1>4. /\ UNCHANGED <<cancelled, calls, status, paid, tx>>
      /\ \A h \in Procs \ {g} : pc'[h] = pc[h] /\ job'[h] = job[h]
      /\ pc[g] = "return" /\ pc'[g] = "idle" /\ job'[g] = None
  BY <1>1, <1>3 DEF Return, Goto, TypeOK, store
<1>5. txStatus[g] = None /\ txAccount[g] = None
  BY <1>1, <1>4, LabelFacts DEF TypeOK
<1>6. TxSound'
  <2>1. \A h \in Procs : TxOf(h)'
    BY <1>4, <1>5, StatusNone DEF TxSound, TxOf, tx
  <2>2. ASSUME NEW h \in Procs, NEW k \in Procs, h # k, txStatus'[h] # None, txStatus'[k] # None
        PROVE  job'[h] # job'[k]
    BY <1>4, <1>5, <2>2 DEF TxSound, tx
  <2> QED
    BY <2>1, <2>2 DEF TxSound
<1>7. \A h \in Procs \ {g} : Live(h)' <=> Live(h)
  BY <1>4 DEF Live, tx
<1>8. ASSUME NEW q \in Orders
      PROVE  OneJob(q)'
  <2>1. Stay(q)
    BY <1>3, <1>4, <1>7, NoneAssumption DEF Stay, Handled, tx
  <2> QED
    BY <2>1, StayJob
<1> QED
  BY <1>6, <1>8

\* The handler publishes the job it has.
LEMMA PublishJobs ==
    ASSUME WType, TxSound, \A o \in Orders : OneJob(o), PublishRetry
    PROVE  TxSound' /\ \A o \in Orders : OneJob(o)'
<1>1. /\ UNCHANGED <<pc, job, tx, cancelled, calls, status, paid, orderTopic, retryCount>>
      /\ handler # None /\ handler' = None
  BY DEF PublishRetry, vars, local, store
<1>2. TxSound'
  BY <1>1 DEF TxSound, TxOf, tx
<1>3. \A h \in Procs : Live(h)' <=> Live(h)
  BY <1>1 DEF Live, tx
<1>4. ~\E q \in Orders : Handled(q)'
  BY <1>1 DEF Handled
<1>5. CASE UNCHANGED retryTopic
  <2>1. \A q \in Orders : Stay(q)
    BY <1>1, <1>3, <1>4, <1>5 DEF Stay, tx
  <2> QED
    BY <1>2, <2>1, StayJob
<1>6. CASE retryTopic' = retryTopic (+) One(handler)
  <2>1. PICK o \in Orders : o = handler.order
    BY <1>1 DEF WType, HandlerType
  <2>2. /\ calls[o] = handler.count /\ ~Queued(o) /\ ~Settled(o)
        /\ \A h \in Procs : job[h] = o => ~Live(h)
    BY <1>1, <2>1 DEF OneJob, Handled
  <2>3. handler \notin BagToSet(retryTopic)
    BY <2>1, <2>2 DEF Queued
  <2>4. /\ retryTopic'[handler] = 1
        /\ \A m \in BagToSet(retryTopic') : m # handler =>
              m \in BagToSet(retryTopic) /\ (retryTopic[m] = 1 => retryTopic'[m] = 1)
    BY <1>6, <2>3, OneMore
  <2>5. ASSUME NEW q \in Orders \ {o}
        PROVE  OneJob(q)'
    <3>1. Stay(q)
      BY <1>1, <1>3, <1>4, <2>1, <2>4 DEF Stay, tx
    <3> QED
      BY <3>1, StayJob
  <2>6. OneJob(o)'
    <3>1. ASSUME NEW m \in BagToSet(retryTopic'), m.order = o
          PROVE  calls'[o] = m.count /\ retryTopic'[m] = 1
      BY <1>1, <2>2, <2>4, <3>1 DEF Queued
    <3>2. ~Handled(o)' /\ ~Settled(o)' /\ \A h \in Procs : job'[h] = o => ~Live(h)'
      BY <1>1, <1>3, <1>4, <2>2 DEF Settled
    <3>3. /\ o \in orderTopic' => calls'[o] = 0
          /\ paid'[o] = IF status'[o] = "success" THEN 1 ELSE 0
      BY <1>1 DEF OneJob
    <3> QED
      BY <3>1, <3>2, <3>3 DEF OneJob
  <2> QED
    BY <1>2, <2>5, <2>6
<1> QED
  BY <1>5, <1>6 DEF PublishRetry

\* The handler gives the job up and marks the order failed.
LEMMA MaxRetryJobs ==
    ASSUME WType, TxSound, \A o \in Orders : OneJob(o), MaxRetryExceeded
    PROVE  TxSound' /\ \A o \in Orders : OneJob(o)'
<1>1. /\ UNCHANGED <<pc, job, tx, cancelled, calls, paid, orderTopic, retryTopic, retryCount>>
      /\ handler # None /\ handler' = None
  BY DEF MaxRetryExceeded, local, queues
<1>2. TxSound'
  BY <1>1 DEF TxSound, TxOf, tx
<1>3. \A h \in Procs : Live(h)' <=> Live(h)
  BY <1>1 DEF Live, tx
<1>4. \A q \in Orders : ~Handled(q)'
  BY <1>1 DEF Handled
<1>5. CASE UNCHANGED status
  <2>1. \A q \in Orders : Stay(q)
    BY <1>1, <1>3, <1>4, <1>5 DEF Stay, tx
  <2> QED
    BY <1>2, <2>1, StayJob
<1>6. CASE /\ status' = [status EXCEPT ![handler.order] = "failed"]
           /\ \A g \in Procs : job[g] = handler.order => txStatus[g] = None
  <2>1. PICK o \in Orders : o = handler.order
    BY <1>1 DEF WType, HandlerType
  <2>2. /\ calls[o] = handler.count /\ ~Queued(o) /\ ~Settled(o)
        /\ \A h \in Procs : job[h] = o => ~Live(h)
    BY <1>1, <2>1 DEF OneJob, Handled
  <2>3. calls[o] > 0
    BY <1>1, <2>2 DEF WType, HandlerType
  <2>4. status'[o] = "failed" /\ \A q \in Orders \ {o} : status'[q] = status[q]
    BY <1>6, <2>1 DEF WType, TypeOK
  <2>5. ASSUME NEW q \in Orders \ {o}
        PROVE  OneJob(q)'
    <3>1. Stay(q)
      BY <1>1, <1>3, <1>4, <2>4 DEF Stay, tx
    <3> QED
      BY <3>1, StayJob
  <2>6. \A g \in Procs : job[g] = o => ~Live(g)' /\ txStatus'[g] = None
    BY <1>1, <1>3, <1>6, <2>1, <2>2 DEF tx
  <2>7. OneJob(o)'
    BY <1>1, <1>4, <2>2, <2>3, <2>4, <2>6, SettleJob
  <2> QED
    BY <1>2, <2>5, <2>7
<1> QED
  BY <1>5, <1>6 DEF MaxRetryExceeded

\* Every other step, up to the cancellation.
LEMMA QuietJobs ==
    ASSUME WType, TxSound, \A o \in Orders : OneJob(o), ~cancelled',
           \/ \E o \in Orders : RejectOrder(o)
           \/ Environment /\ UNCHANGED wvars
           \/ CloseNext \/ WQuiet \/ UNCHANGED allVars
    PROVE  TxSound' /\ \A o \in Orders : OneJob(o)'
<1>1. /\ UNCHANGED <<pc, job, tx, cancelled, calls, status, paid, retryTopic, handler, retryCount>>
      /\ orderTopic' \subseteq orderTopic
  <2>1. CASE \E o \in Orders : RejectOrder(o)
    BY <2>1 DEF RejectOrder, AckOrder, vars, local, store
  <2>2. CASE Environment /\ UNCHANGED wvars
    BY <2>2 DEF Environment, Cancel, Expire, Replicate, local, store, wvars, queues
  <2>3. CASE CloseNext \/ WQuiet \/ UNCHANGED allVars
    BY <2>3 DEF CloseNext, WQuiet, allVars, vars, local, store, wvars, queues
  <2> QED
    BY <2>1, <2>2, <2>3
<1>2. TxSound'
  BY <1>1 DEF TxSound, TxOf, tx
<1>3. \A h \in Procs : Live(h)' <=> Live(h)
  BY <1>1 DEF Live, tx
<1>4. \A q \in Orders : Stay(q)
  BY <1>1, <1>3 DEF Stay, Handled, tx
<1> QED
  BY <1>2, <1>4, StayJob

\* Until the cancellation only the consumers call ProcessPayment, and after it
\* nobody does and nothing commits.
LEMMA CallsAndPaid ==
    ASSUME WType, [WNext]_allVars
    PROVE  /\ UNCHANGED calls \/ (~cancelled /\ \E g \in Procs : Consume(g))
           /\ \/ UNCHANGED <<status, paid>>
              \/ ~cancelled /\ \E g \in Procs : ProcStep(g) /\ Commit(g)
              \/ ~cancelled /\ MaxRetryExceeded
<1>1. ASSUME NEW g \in Procs, ProcStep(g)
      PROVE  UNCHANGED calls /\ (UNCHANGED <<status, paid>> \/ (~cancelled /\ Commit(g)))
  BY <1>1 DEF ProcStep, Run, SetNX, Begin, AccountLocked, CheckAccountBalance,
     HandleFraudResult, FraudUnknown, ProcessTransaction, TransactionRetry,
     UpdateBalanceAvgCount, Succeed, Fail, Del, Commit, Works, store
<1>2. ASSUME NEW g \in Procs, Consume(g)
      PROVE  UNCHANGED <<status, paid>> /\ ~cancelled
  BY <1>2 DEF Consume, ConsumeOrder, ConsumeRetry, Call, store
<1>3. ASSUME NEW g \in Procs, Receive(g) \/ Finish(g)
      PROVE  UNCHANGED <<calls, status, paid>>
  BY <1>3 DEF Receive, Finish, FinishOrder, FinishRetry, Sent, Return, store
<1>4. CASE \/ \E o \in Orders : RejectOrder(o)
           \/ PublishRetry \/ CloseNext \/ WQuiet \/ UNCHANGED allVars
  BY <1>4 DEF RejectOrder, PublishRetry, CloseNext, WQuiet, allVars, vars, store
<1>5. CASE Environment
  BY <1>5 DEF Environment, Cancel, Expire, Replicate, store
<1>6. CASE MaxRetryExceeded
  BY <1>6 DEF MaxRetryExceeded, Works
<1>7. CASE Ends
  BY <1>7, EndsFacts DEF store
<1> QED
  BY <1>1, <1>2, <1>3, <1>4, <1>5, <1>6, <1>7 DEF WNext, Handle, Ends

\* Only Cancel cancels the context, and only the end of the process renews it.
LEMMA CancelFrame ==
    ASSUME WType, [WNext]_allVars, ~Ends
    PROVE  UNCHANGED cancelled \/ (Cancel /\ ~cancelled)
<1>1. ASSUME NEW g \in Procs, ProcStep(g)
      PROVE  UNCHANGED cancelled
  BY <1>1, RunFrame DEF ProcStep, WType
<1>2. ASSUME NEW g \in Procs, Receive(g) \/ Consume(g) \/ Finish(g)
      PROVE  UNCHANGED cancelled
  BY <1>2 DEF Receive, Consume, ConsumeOrder, ConsumeRetry, Finish, FinishOrder, FinishRetry,
     Sent, Call, Return
<1>3. CASE \/ \E o \in Orders : RejectOrder(o)
           \/ PublishRetry \/ MaxRetryExceeded \/ CloseNext \/ WQuiet \/ UNCHANGED allVars
  BY <1>3 DEF RejectOrder, PublishRetry, MaxRetryExceeded, CloseNext, WQuiet, allVars, vars
<1>4. CASE Environment
  BY <1>4 DEF Environment, Cancel, Expire, Replicate
<1> QED
  BY <1>1, <1>2, <1>3, <1>4 DEF WNext, Handle, Ends

\* Before anything was cancelled or redelivered nothing is closed, so the process
\* ends only by a crash.
LEMMA NextJobs ==
    ASSUME WType, JobsInv, [WNext]_allVars
    PROVE  JobsInv'
<1> SUFFICES ASSUME crashes' = 0
             PROVE  JobsInv'
  BY DEF JobsInv
<1>1. crashes \in Nat /\ stage \in 0 .. 7 /\ (stage > 0 => cancelled)
  BY DEF WType, StageType, Down
<1>2. UNCHANGED crashes \/ Ends
  BY DEF WNext, ProcStep, Receive, Consume, ConsumeOrder, ConsumeRetry, Finish, FinishOrder,
     FinishRetry, RejectOrder, Handle, PublishRetry, MaxRetryExceeded, CloseNext, WQuiet, Ends,
     wvars, allVars
<1>3. CASE Ends
  <2>1. ProcessEnds
    BY <1>3, EndsFacts
  <2>2. UNCHANGED <<crashes, cancelled, calls, paid>>
    BY <1>1, <2>1 DEF ProcessEnds, store
  <2>3. cancelled
    BY <1>1, <1>3, <2>1, <2>2, CloseFacts DEF Ends, Crash, Panic, Exit, ProcessEnds
  <2> QED
    BY <2>2, <2>3 DEF JobsInv
<1>4. CASE UNCHANGED crashes /\ cancelled /\ ~Ends
  <2>1. UNCHANGED <<calls, status, paid>>
    BY <1>4, CallsAndPaid
  <2>2. cancelled'
    BY <1>4, CancelFrame
  <2> QED
    BY <1>4, <2>1, <2>2 DEF JobsInv
<1>5. CASE UNCHANGED crashes /\ ~cancelled /\ cancelled' /\ ~Ends
  <2>1. Cancel
    BY <1>5, CancelFrame
  <2> QED
    BY <1>5, <2>1 DEF Cancel, store, JobsInv
<1>6. CASE UNCHANGED crashes /\ ~cancelled /\ ~cancelled' /\ ~Ends
  <2>1. TxSound /\ \A o \in Orders : OneJob(o) /\ calls[o] <= MaxRetryCount + 1
    BY <1>6 DEF JobsInv
  <2>2. TxSound' /\ \A o \in Orders : OneJob(o)'
    BY <1>6, <2>1, RunJobs, CommitJobs, ReceiveJobs, ConsumeJobs, FinishJobs, PublishJobs,
       MaxRetryJobs, QuietJobs DEF WNext, Handle, Ends
  <2>3. \A o \in Orders : calls'[o] <= MaxRetryCount + 1
    BY <1>6, <2>1, ConsumeJobs, CallsAndPaid
  <2>4. \A o \in Orders : paid'[o] <= 1
    BY <2>2 DEF OneJob
  <2> QED
    BY <2>2, <2>3, <2>4 DEF JobsInv
<1> QED
  BY <1>2, <1>3, <1>4, <1>5, <1>6 DEF WType, TypeOK

LEMMA InitJobs == WInit => JobsInv
<1> SUFFICES ASSUME WInit
             PROVE  JobsInv
  OBVIOUS
<1>1. \A g \in Procs : pc[g] = "idle" /\ job[g] = None /\ txStatus[g] = None /\ txAccount[g] = None
  BY DEF WInit, Init
<1>2. \A o \in Orders : calls[o] = 0 /\ paid[o] = 0 /\ status[o] = "pending"
  BY DEF WInit, Init
<1>3. TxSound
  BY <1>1, StatusNone DEF TxSound, TxOf
<1>4. BagToSet(retryTopic) = {} /\ handler = None
  BY BagFacts DEF WInit
<1>5. \A o \in Orders : OneJob(o)
  BY <1>1, <1>2, <1>4, NoneAssumption DEF OneJob, Handled, Queued, Settled
<1> QED
  BY <1>2, <1>3, <1>5 DEF JobsInv

LEMMA JobsInvariant == WSafety => [](WType /\ JobsInv)
  BY WInitType, WNextType, InitJobs, NextJobs, PTL DEF WSafety

\* Whatever fails, and wherever the shutdown comes, an order is tried at most
\* MaxRetryCount + 1 times before something is delivered twice.
THEOREM AttemptsBoundedHolds == WSafety => []AttemptsBounded
<1>1. JobsInv => AttemptsBounded
  BY DEF JobsInv, AttemptsBounded
<1> QED
  BY <1>1, JobsInvariant, PTL

\* Message, retry message, handler and goroutines never have the job of an order
\* at the same time, so no two of them debit it.
THEOREM PaidOnceHolds == WSafety => []PaidOnce
<1>1. JobsInv => PaidOnce
  BY DEF JobsInv, PaidOnce
<1> QED
  BY <1>1, JobsInvariant, PTL

-----------------------------------------------------------------------------
(* The life cycle of an order. *)

LEMMA LifecycleStep ==
    ASSUME WType, JobsInv, crashes = 0, [WNext]_allVars
    PROVE  [Lifecycle!Next]_(Lifecycle!vars)
<1> USE DEF Lifecycle!Next, Lifecycle!vars, Lifecycle!MarkRetrying, Lifecycle!Settle,
            Lifecycle!SettleSuccess, Lifecycle!SettleFailed, Lifecycle!Open
<1>1. CASE UNCHANGED <<status, paid>>
  BY <1>1
<1>2. ASSUME ~cancelled, NEW g \in Procs, Commit(g), ~UNCHANGED <<status, paid>>
      PROVE  Lifecycle!Next
  <2>1. TypeOK /\ TxSound /\ \A o \in Orders : OneJob(o)
    BY <1>2 DEF WType, JobsInv
  <2>2. PICK o \in Orders : o = job[g]
    BY <1>2, <2>1, CommitEffect
  <2>3. /\ status' = [status EXCEPT ![o] = txStatus[g]]
        /\ ~Settled(o)
        /\ \/ txStatus[g] \in {"retrying", "failed"} /\ UNCHANGED paid
           \/ txStatus[g] = "success" /\ paid' = [paid EXCEPT ![o] = @ + 1]
    BY <1>2, <2>1, <2>2, CommitEffect
  <2>4. status[o] \in {"pending", "retrying"}
    BY <2>1, <2>3 DEF TypeOK, Status, Settled
  <2> QED
    BY <2>3, <2>4
<1>3. ASSUME ~cancelled, MaxRetryExceeded, ~UNCHANGED <<status, paid>>
      PROVE  Lifecycle!Next
  <2>1. TypeOK /\ \A o \in Orders : OneJob(o)
    BY <1>3 DEF WType, JobsInv
  <2>2. PICK o \in Orders : o = handler.order /\ handler # None
    BY <1>3 DEF MaxRetryExceeded, WType, HandlerType
  <2>3. status' = [status EXCEPT ![o] = "failed"] /\ UNCHANGED paid
    BY <1>3, <2>2 DEF MaxRetryExceeded
  <2>4. ~Settled(o)
    BY <2>1, <2>2 DEF OneJob, Handled
  <2>5. status[o] \in {"pending", "retrying"}
    BY <2>1, <2>4 DEF TypeOK, Status, Settled
  <2> QED
    BY <2>3, <2>5
<1> QED
  BY <1>1, <1>2, <1>3, CallsAndPaid

\* The worker implements the life cycle of an order, as long as nothing is
\* delivered twice: for any number of orders and goroutines, with every command
\* allowed to fail, leases that end early, and a shutdown at any time, an order
\* is settled at most once, and debited exactly when it is settled successfully.
THEOREM LifecycleSafe == ASSUME MaxCrashes = 0 PROVE WSafety => Lifecycle!Safety
<1>1. WInit => Lifecycle!Init
  BY DEF WInit, Init, Lifecycle!Init
<1>2. WType => crashes = 0
  BY DEF WType, StageType
<1>3. WType /\ JobsInv /\ [WNext]_allVars => [Lifecycle!Next]_(Lifecycle!vars)
  BY <1>2, LifecycleStep
<1> QED
  BY <1>1, <1>3, JobsInvariant, PTL DEF WSafety, Lifecycle!Safety

-----------------------------------------------------------------------------
(* What a report of success is worth. *)

\* The step is not one in which a call that is going to return nil swallows the
\* error of its commit, or of the commit of a transaction a swallowed error of the
\* status update has aborted.
NotSwallowed ==
    \A g \in Procs : Commit(g) /\ result[g] = "ok" => ~doomed[g] /\ Apply(g)

\* A call that is going to return nil has the success in its transaction, unless
\* that is aborted, or has committed it.
HonestCall(g) ==
    result[g] = "ok" =>
        \/ pc[g] \in {"del", "commit"} /\ (doomed[g] \/ txStatus[g] = "success")
        \/ pc[g] = "return" /\ status[job[g]] = "success"

Honest == ReportedIsSuccess /\ \A g \in Procs : HonestCall(g)

ReportInv == crashes = 0 => Honest

\* An order that was settled by a success stays successful until something is
\* delivered twice.
LEMMA SuccessStays ==
    ASSUME WType, JobsInv, crashes = 0, [WNext]_allVars,
           NEW o \in Orders, status[o] = "success"
    PROVE  status'[o] = "success"
<1>1. CASE UNCHANGED <<status, paid>>
  BY <1>1
<1>2. ASSUME ~cancelled, NEW g \in Procs, Commit(g)
      PROVE  status'[o] = "success"
  <2>1. TypeOK /\ TxSound /\ \A q \in Orders : OneJob(q)
    BY <1>2 DEF WType, JobsInv
  <2>2. job[g] \in Orders
        /\ (UNCHANGED status \/ (~Settled(job[g]) /\ status' = [status EXCEPT ![job[g]] = txStatus[g]]))
    BY <1>2, <2>1, CommitEffect
  <2> QED
    BY <2>1, <2>2 DEF Settled, TypeOK
<1>3. ASSUME ~cancelled, MaxRetryExceeded
      PROVE  status'[o] = "success"
  <2>1. TypeOK /\ OneJob(o)
    BY <1>3 DEF WType, JobsInv
  <2>2. handler.order # o
    BY <1>3, <2>1 DEF MaxRetryExceeded, OneJob, Handled, Settled
  <2> QED
    BY <1>3, <2>1, <2>2 DEF MaxRetryExceeded, TypeOK
<1> QED
  BY <1>1, <1>2, <1>3, CallsAndPaid

LEMMA RunHonest ==
    ASSUME TypeOK, \A h \in Procs : HonestCall(h), NEW g \in Procs, Run(g),
           Commit(g) /\ result[g] = "ok" => ~doomed[g] /\ Apply(g),
           \A o \in Orders : status[o] = "success" => status'[o] = "success"
    PROVE  \A h \in Procs : HonestCall(h)'
<1>1. /\ UNCHANGED job
      /\ \A h \in Procs \ {g} :
            /\ pc'[h] = pc[h] /\ result'[h] = result[h]
            /\ txStatus'[h] = txStatus[h] /\ doomed'[h] = doomed[h]
      /\ pc[g] # "idle"
  BY DEF Run, Goto, SetNX, Begin, AccountLocked, CheckAccountBalance,
     HandleFraudResult, FraudUnknown, ProcessTransaction, TransactionRetry,
     UpdateBalanceAvgCount, Succeed, Fail, Del, Commit, UpdateOrderStatus, TypeOK, tx, local
<1>2. ASSUME NEW h \in Procs \ {g}
      PROVE  HonestCall(h)'
  BY <1>1 DEF HonestCall, TypeOK
<1>3. HonestCall(g)'
  <2>1. CASE Succeed(g)
    BY <2>1 DEF Succeed, UpdateOrderStatus, Goto, TypeOK, HonestCall
  <2>2. CASE Del(g)
    BY <2>2 DEF Del, Goto, TypeOK, HonestCall, local, tx
  <2>3. CASE Commit(g) /\ result[g] = "ok"
    <3>1. pc[g] = "commit" /\ pc'[g] = "return" /\ ~doomed[g] /\ Apply(g)
      BY <2>3 DEF Commit, Goto, TypeOK
    <3>2. txStatus[g] = "success" /\ job[g] \in Orders
      BY <1>1, <2>3, <3>1 DEF HonestCall, TypeOK
    <3>3. status' = [status EXCEPT ![job[g]] = "success"]
      BY <3>1, <3>2, StatusNone DEF Apply, Status
    <3> QED
      BY <1>1, <3>1, <3>2, <3>3 DEF TypeOK, HonestCall
  <2>4. CASE ~Succeed(g) /\ ~Del(g) /\ ~(Commit(g) /\ result[g] = "ok")
    <3>1. result'[g] = result[g]
          /\ (result[g] = "ok" => pc[g] \notin {"del", "commit", "return"})
      BY <2>4 DEF Run, Goto, SetNX, Begin, AccountLocked, CheckAccountBalance,
         HandleFraudResult, FraudUnknown, ProcessTransaction, TransactionRetry,
         UpdateBalanceAvgCount, Fail, Commit, local
    <3> QED
      BY <3>1 DEF HonestCall
  <2> QED
    BY <2>1, <2>2, <2>3, <2>4
<1> QED
  BY <1>2, <1>3

LEMMA NextReport ==
    ASSUME WType, JobsInv, ReportInv, [WNext]_allVars, [NotSwallowed]_allVars
    PROVE  ReportInv'
<1> SUFFICES ASSUME crashes' = 0
             PROVE  Honest'
  BY DEF ReportInv
<1>1. crashes \in Nat /\ TypeOK /\ reported \subseteq Orders
  BY DEF WType, StageType, LetterType
<1>2. UNCHANGED crashes \/ Ends
  BY DEF WNext, ProcStep, Receive, Consume, ConsumeOrder, ConsumeRetry, Finish, FinishOrder,
     FinishRetry, RejectOrder, Handle, PublishRetry, MaxRetryExceeded, CloseNext, WQuiet, Ends,
     wvars, allVars
<1>3. crashes = 0
  <2>1. CASE Ends
    <3>1. crashes' = crashes + 1 \/ UNCHANGED crashes
      BY <2>1, EndsFacts DEF ProcessEnds
    <3> QED
      BY <1>1, <3>1
  <2> QED
    BY <1>2, <2>1
<1>4. ReportedIsSuccess /\ \A g \in Procs : HonestCall(g)
  BY <1>3 DEF ReportInv, Honest
<1>5. \A o \in Orders : status[o] = "success" => status'[o] = "success"
  BY <1>3, SuccessStays
<1>6. UNCHANGED reported => ReportedIsSuccess'
  BY <1>1, <1>4, <1>5 DEF ReportedIsSuccess
<1>7. ASSUME NEW g \in Procs, UNCHANGED tx, result'[g] # "ok",
             \A h \in Procs \ {g} : pc'[h] = pc[h] /\ job'[h] = job[h] /\ result'[h] = result[h]
      PROVE  \A h \in Procs : HonestCall(h)'
  BY <1>1, <1>4, <1>5, <1>7 DEF HonestCall, TypeOK, tx
<1>8. ASSUME UNCHANGED <<pc, local, tx, reported>>
      PROVE  Honest'
  <2>1. \A g \in Procs : HonestCall(g)'
    BY <1>1, <1>4, <1>5, <1>8 DEF HonestCall, TypeOK, local, tx
  <2> QED
    BY <1>6, <1>8, <2>1 DEF Honest
<1>9. ASSUME NEW g \in Procs, ProcStep(g)
      PROVE  Honest'
  <2>1. Run(g) /\ UNCHANGED reported
    BY <1>9 DEF ProcStep, wvars
  <2>2. ~UNCHANGED allVars
    BY <1>1, <2>1, LabelFacts DEF allVars, vars, Run, Goto, SetNX, Begin, AccountLocked,
       CheckAccountBalance, HandleFraudResult, FraudUnknown, ProcessTransaction,
       TransactionRetry, UpdateBalanceAvgCount, Succeed, Fail, Del, Commit, TypeOK
  <2>3. Commit(g) /\ result[g] = "ok" => ~doomed[g] /\ Apply(g)
    BY <2>2 DEF NotSwallowed
  <2>4. \A h \in Procs : HonestCall(h)'
    BY <1>1, <1>4, <1>5, <2>1, <2>3, RunHonest
  <2> QED
    BY <1>6, <2>1, <2>4 DEF Honest
<1>10. ASSUME NEW g \in Procs, Receive(g)
       PROVE  Honest'
  <2>1. /\ UNCHANGED <<local, tx, reported>> /\ pc[g] \in {"sendBusy", "sendFraud", "sendTx"}
        /\ \A h \in Procs \ {g} : pc'[h] = pc[h]
    BY <1>1, <1>10 DEF Receive, Sent, Goto, TypeOK
  <2>2. result'[g] # "ok"
    BY <1>4, <2>1 DEF HonestCall, local
  <2>3. \A h \in Procs : HonestCall(h)'
    BY <1>7, <2>1, <2>2 DEF local
  <2> QED
    BY <1>6, <2>1, <2>3 DEF Honest
<1>11. ASSUME NEW g \in Procs, Consume(g)
       PROVE  Honest'
  <2>1. /\ UNCHANGED <<tx, reported>> /\ result'[g] # "ok"
        /\ \A h \in Procs \ {g} : pc'[h] = pc[h] /\ job'[h] = job[h] /\ result'[h] = result[h]
    BY <1>1, <1>11 DEF Consume, ConsumeOrder, ConsumeRetry, Call, Goto, TypeOK
  <2> QED
    BY <1>6, <1>7, <2>1 DEF Honest
<1>12. ASSUME NEW g \in Procs, Finish(g)
       PROVE  Honest'
  <2>1. /\ UNCHANGED tx /\ result'[g] # "ok" /\ pc[g] = "return"
        /\ \A h \in Procs \ {g} : pc'[h] = pc[h] /\ job'[h] = job[h] /\ result'[h] = result[h]
    BY <1>1, <1>12 DEF Finish, FinishOrder, FinishRetry, Return, Goto, TypeOK
  <2>2. \/ UNCHANGED reported
        \/ result[g] = "ok" /\ reported' = reported \cup {job[g]}
    BY <1>12 DEF Finish, FinishOrder, FinishRetry
  <2>3. result[g] = "ok" => status[job[g]] = "success" /\ job[g] \in Orders
    BY <1>1, <1>4, <2>1 DEF HonestCall, TypeOK
  <2>4. ReportedIsSuccess'
    BY <1>1, <1>4, <1>5, <2>2, <2>3 DEF ReportedIsSuccess
  <2> QED
    BY <1>7, <2>1, <2>4 DEF Honest
<1>13. CASE \/ \E o \in Orders : RejectOrder(o)
            \/ Handle \/ CloseNext \/ WQuiet \/ UNCHANGED allVars
  BY <1>8, <1>13 DEF RejectOrder, Handle, PublishRetry, MaxRetryExceeded, CloseNext, WQuiet,
     allVars, wvars, vars
<1>14. CASE Environment /\ UNCHANGED wvars
  BY <1>8, <1>14 DEF Environment, Cancel, Expire, Replicate, wvars
<1>15. CASE Ends
  <2>1. ProcessEnds /\ UNCHANGED reported
    BY <1>15, EndsFacts
  <2>2. \A g \in Procs : HonestCall(g)'
    BY <2>1 DEF ProcessEnds, HonestCall
  <2> QED
    BY <1>6, <2>1, <2>2 DEF Honest
<1> QED
  BY <1>9, <1>10, <1>11, <1>12, <1>13, <1>14, <1>15 DEF WNext, Ends

\* Until something is delivered twice, the only way in which an order reported as
\* paid is not a success is the error of a status update or commit that
\* ProcessPayment logs and swallows: without such a step the comment "Successfully
\* processed, commit the offset" is true, for any orders, goroutines and retries,
\* whatever else fails, whichever leases end early and wherever the worker stops.
THEOREM OnlySwallowedErrorsMislead ==
    WSafety /\ [][NotSwallowed]_allVars => [](crashes = 0 => ReportedIsSuccess)
<1>1. WInit => ReportInv
  BY DEF WInit, Init, ReportInv, Honest, HonestCall, ReportedIsSuccess
<1>2. WType /\ JobsInv /\ ReportInv /\ [WNext]_allVars /\ [NotSwallowed]_allVars => ReportInv'
  BY NextReport
<1>3. ReportInv => (crashes = 0 => ReportedIsSuccess)
  BY DEF ReportInv, Honest
<1> QED
  BY <1>1, <1>2, <1>3, JobsInvariant, PTL DEF WSafety

\* No transaction is aborted and the context is not cancelled.
Unaborted == ~cancelled /\ \A g \in Procs : ~doomed[g]

LEMMA NextUnaborted ==
    ASSUME ~Faults, ~Cancels, WType, Unaborted, [WNext]_allVars
    PROVE  Unaborted' /\ [NotSwallowed]_allVars
<1>1. TypeOK /\ ~Fails /\ ~cancelled /\ \A g \in Procs : ~doomed[g]
  BY DEF WType, Fails, Unaborted
<1>2. ASSUME Ends
      PROVE  Unaborted'
  <2>1. ProcessEnds
    BY <1>2, EndsFacts
  <2>2. ~cancelled'
    BY <1>1, <2>1 DEF ProcessEnds
  <2>3. \A g \in Procs : ~doomed'[g]
    BY <2>1, Zenon DEF ProcessEnds
  <2> QED
    BY <2>2, <2>3 DEF Unaborted
<1>3. ASSUME ~Ends
      PROVE  Unaborted'
  <2>1. ~cancelled'
    BY <1>1, <1>3, CancelFrame DEF Cancel
  <2>2. ASSUME NEW g \in Procs, Run(g)
        PROVE  \A h \in Procs : ~doomed'[h]
    BY <1>1, <2>2 DEF Run, SetNX, Begin, AccountLocked, CheckAccountBalance,
       HandleFraudResult, FraudUnknown, ProcessTransaction, TransactionRetry,
       UpdateBalanceAvgCount, Succeed, Fail, Del, Commit, UpdateOrderStatus, TypeOK, tx
  <2>3. UNCHANGED doomed \/ \E g \in Procs : Run(g)
    BY <1>3 DEF WNext, ProcStep, Receive, Sent, Consume, ConsumeOrder, ConsumeRetry, Call,
       Finish, FinishOrder, FinishRetry, Return, RejectOrder, Handle, PublishRetry,
       MaxRetryExceeded, Environment, Cancel, Expire, Replicate, CloseNext, WQuiet, Ends,
       allVars, vars, tx
  <2> QED
    BY <1>1, <2>1, <2>2, <2>3 DEF Unaborted
<1>4. NotSwallowed
  BY <1>1 DEF NotSwallowed, Commit
<1> QED
  BY <1>2, <1>3, <1>4

\* In particular the comment is true as long as no command, statement or commit
\* fails and the worker is not stopped, whichever leases end early and whichever
\* produces fail.
THEOREM ReportedIsSuccessWithoutFaults ==
    ASSUME ~Faults, ~Cancels
    PROVE  WSafety => [](crashes = 0 => ReportedIsSuccess)
<1>1. WInit => Unaborted
  BY DEF WInit, Init, Unaborted
<1>2. WType /\ Unaborted /\ [WNext]_allVars => Unaborted' /\ [NotSwallowed]_allVars
  BY NextUnaborted
<1>3. WSafety => [][NotSwallowed]_allVars
  BY <1>1, <1>2, WTypeInvariant, PTL DEF WSafety
<1> QED
  BY <1>3, OnlySwallowedErrorsMislead, PTL
=============================================================================
