---------------------------- MODULE PaymentWorker ----------------------------
(***************************************************************************)
(* One payment-worker process: PaymentProcessor called by the order        *)
(* consumer (kafka_order_handler.go) and by the retry consumer             *)
(* (kafka_retry_handler.go), with the retry channel handler between        *)
(* them, the order and retry topics, the two dead letter queues, and the   *)
(* shutdown main performs once its context is cancelled.                   *)
(*                                                                         *)
(* Procs are the semaphore slots: RetryProcs those of the retry consumer,  *)
(* the others those of the order consumer.  Every order has one message on *)
(* the order topic from the start; delivery order is left open, since each *)
(* message gets its own goroutine.  The backoff before a retry (module     *)
(* Backoff) only delays it.  Which acknowledged messages a restarted       *)
(* worker sees again is what CommitManager allows: any of them.            *)
(***************************************************************************)
EXTENDS PaymentProcessor, Bags

CONSTANTS RetryProcs,     \* slots of the retry consumer
          MaxRetryCount,  \* Config.MaxRetryCount
          Garbled,        \* orders whose message does not decode or validate
          ProduceFails,   \* may Produce, or the delivery it promises, fail?
          MaxCrashes      \* bound: restarts of the process

ASSUME WorkerAssumption ==
    /\ RetryProcs \subseteq Procs
    /\ MaxRetryCount \in 1 .. 5
    /\ Garbled \subseteq Orders
    /\ ProduceFails \in BOOLEAN
    /\ MaxCrashes \in Nat

VARIABLES
    orderTopic,   \* orders whose message is still to be delivered
    orderAcked,   \* orders whose message was acknowledged
    retryTopic,   \* bag of retry jobs still to be delivered
    retryAcked,   \* bag of retry jobs acknowledged
    retryCount,   \* RetryCount of the job each goroutine works on
    handler,      \* the job the retry channel handler works on
    dlq, retryDlq,
    reported,     \* history: orders whose ProcessPayment returned nil
    undelivered,  \* history: orders whose letter never reached the DLQ
    crashes,
    stage         \* how far the shutdown has come

queues  == <<orderTopic, orderAcked, retryTopic, retryAcked>>
letters == <<dlq, retryDlq, undelivered>>
wvars   == <<queues, letters, handler, retryCount, reported, crashes, stage>>
allVars == <<vars, wvars>>

\* What main has closed, in order: closeOrderConsumer, redisCloser (no command
\* works any more after the cancellation), closeRetryHandler, the retry channel.
Closed == [dlqProducer |-> 1, orderConsumer |-> 2, retryProducer |-> 3,
           dlqRetryProducer |-> 4, retryConsumer |-> 5, retryChannel |-> 6]
Down   == 7       \* main has returned, or the process died while stopping

IsClosed(c) == stage >= Closed[c]

OrderProcs == Procs \ RetryProcs

RetryJob == [order : Orders, count : 1 .. MaxRetryCount]

WTypeOK ==
    /\ TypeOK
    /\ orderTopic \subseteq Orders /\ orderAcked \subseteq Orders
    /\ BagToSet(retryTopic) \subseteq RetryJob
    /\ BagToSet(retryAcked) \subseteq RetryJob
    /\ retryCount \in [Procs -> 0 .. MaxRetryCount]
    /\ handler = None \/ handler \in [order : Orders, count : 1 .. MaxRetryCount + 1]
    /\ dlq \subseteq Orders /\ retryDlq \subseteq Orders /\ reported \subseteq Orders
    /\ undelivered \subseteq Orders
    /\ stage \in 0 .. Down /\ (stage > 0 => cancelled)
    /\ crashes \in 0 .. MaxCrashes

WInit ==
    /\ Init
    /\ orderTopic = Orders
    /\ orderAcked = {}
    /\ retryTopic = EmptyBag
    /\ retryAcked = EmptyBag
    /\ retryCount = [g \in Procs |-> 0]
    /\ handler = None
    /\ dlq = {} /\ retryDlq = {} /\ reported = {} /\ undelivered = {}
    /\ crashes = 0 /\ stage = 0

One(x) == SetToBag({x})

\* sendToDLQ and sendToRetryDLQ hand the letter to a producer, which delivers it
\* in the background (unless the process crashes first: LoseBuffers).  The letter
\* is gone when the producer is closed, and when Produce or the delivery fails,
\* which is at most logged.
SendToDLQ(o) ==
    /\ \/ ~IsClosed("dlqProducer") /\ dlq' = dlq \cup {o} /\ UNCHANGED undelivered
       \/ /\ ProduceFails \/ IsClosed("dlqProducer")
          /\ undelivered' = undelivered \cup {o} /\ UNCHANGED dlq
    /\ UNCHANGED retryDlq

SendToRetryDLQ(o) ==
    /\ \/ ~IsClosed("dlqRetryProducer") /\ retryDlq' = retryDlq \cup {o}
       \/ (ProduceFails \/ IsClosed("dlqRetryProducer")) /\ UNCHANGED retryDlq
    /\ UNCHANGED <<dlq, undelivered>>

\* CommitManager.Ack for the message of order o, which is not in rest.  A
\* closed consumer commits nothing: the message waits for the next start.
AckOrder(o, rest) ==
    \/ /\ ~IsClosed("orderConsumer")
       /\ orderAcked' = orderAcked \cup {o} /\ orderTopic' = rest
    \/ /\ IsClosed("orderConsumer")
       /\ orderTopic' = rest \cup {o} /\ UNCHANGED orderAcked

AckRetry(m) ==
    \/ /\ ~IsClosed("retryConsumer")
       /\ retryAcked' = retryAcked (+) One(m) /\ UNCHANGED retryTopic
    \/ /\ IsClosed("retryConsumer")
       /\ retryTopic' = retryTopic (+) One(m) /\ UNCHANGED retryAcked

-----------------------------------------------------------------------------
(* The order consumer. *)

\* processMessage of a good message calls ProcessPayment.
ConsumeOrder(g, o) ==
    /\ g \in OrderProcs /\ o \in orderTopic \ Garbled
    /\ ~cancelled
    /\ Call(g, o)
    /\ orderTopic' = orderTopic \ {o}
    /\ UNCHANGED <<orderAcked, retryTopic, retryAcked, letters, handler, retryCount, reported, crashes, stage>>

\* A message that does not decode or validate goes to the DLQ and is skipped.
\* The context is checked first, so it may have been cancelled since.
RejectOrder(o) ==
    /\ o \in orderTopic \cap Garbled
    /\ \E g \in OrderProcs : pc[g] = "idle"     \* a semaphore slot
    /\ stage # Down
    /\ SendToDLQ(o)
    /\ AckOrder(o, orderTopic \ {o})
    /\ UNCHANGED <<vars, retryTopic, retryAcked, handler, retryCount, reported, crashes, stage>>

\* ProcessPayment has returned: any error sends the job to the DLQ, and the
\* message is acknowledged in every case.
FinishOrder(g) ==
    /\ g \in OrderProcs
    /\ Return(g)
    /\ \/ /\ result[g] = "ok"
          /\ reported' = reported \cup {job[g]}
          /\ UNCHANGED letters
       \/ /\ result[g] = "err"
          /\ SendToDLQ(job[g])
          /\ UNCHANGED reported
    /\ AckOrder(job[g], orderTopic)
    /\ UNCHANGED <<retryTopic, retryAcked, handler, retryCount, crashes, stage>>

-----------------------------------------------------------------------------
(* The retry channel and its handler. *)

\* Mutant of Receive: the retry count is not incremented on later retries.
ReceiveOnce(g) ==
    /\ handler = None
    /\ Sent(g)
    /\ handler' = [order |-> job[g], count |-> 1]
    /\ UNCHANGED <<queues, letters, retryCount, reported, crashes, stage>>

\* The handler takes a job from a sender and increments its retry count.  Once
\* the context is cancelled its select may also return instead.
Receive(g) ==
    /\ handler = None
    /\ ~IsClosed("retryChannel")
    /\ Sent(g)
    /\ handler' = [order |-> job[g], count |-> retryCount[g] + 1]
    /\ UNCHANGED <<queues, letters, retryCount, reported, crashes, stage>>

\* Mutant of PublishRetry: an off-by-one in the comparison with the maximum.
PublishOneMore ==
    /\ handler # None
    /\ handler.count <= MaxRetryCount + 1
    /\ retryTopic' = retryTopic (+) One(handler)
    /\ handler' = None
    /\ UNCHANGED <<vars, orderTopic, orderAcked, retryAcked, letters, retryCount, reported, crashes, stage>>

\* Within the limit: publish to the retry topic, by a producer as above; a failed
\* produce is logged.
PublishRetry ==
    /\ handler # None
    /\ handler.count <= MaxRetryCount
    /\ \/ ~IsClosed("retryProducer") /\ retryTopic' = retryTopic (+) One(handler)
       \/ (ProduceFails \/ IsClosed("retryProducer")) /\ UNCHANGED retryTopic
    /\ handler' = None
    /\ UNCHANGED <<vars, orderTopic, orderAcked, retryAcked, letters, retryCount, reported, crashes, stage>>

\* Mutant of MaxRetryExceeded: the order is dead-lettered but not marked failed.
DeadLetterOnly ==
    /\ handler # None
    /\ handler.count > MaxRetryCount
    /\ SendToRetryDLQ(handler.order)
    /\ handler' = None
    /\ UNCHANGED <<vars, queues, retryCount, reported, crashes, stage>>

\* Mutant of MaxRetryExceeded: the handler returns instead of going on with the
\* next job.
MaxRetryStops ==
    /\ handler # None
    /\ handler.count > MaxRetryCount
    /\ Works /\ ConnFree
    /\ \A g \in Procs : job[g] = handler.order => txStatus[g] = None
    /\ status' = [status EXCEPT ![handler.order] = "failed"]
    /\ SendToRetryDLQ(handler.order)
    /\ UNCHANGED <<account, replica, paid, debited, lock, pc, local, tx, cancelled, calls>>
    /\ UNCHANGED <<handler, queues, retryCount, reported, crashes, stage>>

\* checkIfMaxRetryLimitExceeded: mark the order failed in a statement of its
\* own, which needs a connection and waits for the row, and dead-letter it.
MaxRetryExceeded ==
    /\ handler # None
    /\ handler.count > MaxRetryCount
    /\ \/ /\ Works /\ ConnFree
          /\ \A g \in Procs : job[g] = handler.order => txStatus[g] = None
          /\ status' = [status EXCEPT ![handler.order] = "failed"]
       \/ Fails /\ UNCHANGED status
    /\ SendToRetryDLQ(handler.order)
    /\ handler' = None
    /\ UNCHANGED <<account, replica, paid, debited, lock, pc, local, tx, cancelled, calls>>
    /\ UNCHANGED <<queues, retryCount, reported, crashes, stage>>

-----------------------------------------------------------------------------
(* The retry consumer. *)

\* processRetryMessage, after the backoff.  Its own check of the maximum never
\* fires: PublishRetry only publishes jobs within the limit.
ConsumeRetry(g, m) ==
    /\ g \in RetryProcs /\ BagIn(m, retryTopic)
    /\ m.count <= MaxRetryCount
    /\ ~cancelled
    /\ Call(g, m.order)
    /\ retryTopic' = retryTopic (-) One(m)
    /\ retryCount' = [retryCount EXCEPT ![g] = m.count]
    /\ UNCHANGED <<orderTopic, orderAcked, retryAcked, letters, handler, reported, crashes, stage>>

RetryJobOf(g) == [order |-> job[g], count |-> retryCount[g]]

FinishRetry(g) ==
    /\ g \in RetryProcs
    /\ Return(g)
    /\ \/ /\ result[g] = "ok"
          /\ reported' = reported \cup {job[g]}
          /\ UNCHANGED letters
       \/ /\ result[g] = "err"
          /\ SendToRetryDLQ(job[g])
          /\ UNCHANGED reported
    /\ AckRetry(RetryJobOf(g))
    /\ retryCount' = [retryCount EXCEPT ![g] = 0]
    /\ UNCHANGED <<orderTopic, orderAcked, handler, crashes, stage>>

-----------------------------------------------------------------------------
(* Crashes and the shutdown. *)

\* The jobs goroutines of the retry consumer have not acknowledged.
RetryInFlight ==
    BagOfAll(RetryJobOf, SetToBag({g \in RetryProcs : pc[g] # "idle"}))

\* Goroutines and channel are gone, open transactions are rolled back, and
\* Redis keys stay until their TTL.  The process is started again, up to the
\* bound.
ProcessEnds ==
    /\ stage # Down
    /\ pc' = [g \in Procs |-> "idle"]
    /\ txStatus' = [g \in Procs |-> None]
    /\ txAccount' = [g \in Procs |-> None]
    /\ doomed' = [g \in Procs |-> FALSE]
    /\ job' = [g \in Procs |-> None]
    /\ got' = [g \in Procs |-> FALSE]
    /\ read' = [g \in Procs |-> None]
    /\ result' = [g \in Procs |-> "err"]
    /\ retryCount' = [g \in Procs |-> 0]
    /\ handler' = None
    /\ \/ /\ crashes < MaxCrashes
          /\ crashes' = crashes + 1
          /\ cancelled' = FALSE /\ stage' = 0
       \/ /\ crashes = MaxCrashes
          /\ stage' = Down
          /\ UNCHANGED <<crashes, cancelled>>
    /\ UNCHANGED <<store, lock, calls, reported>>

\* Mutant of Redelivery: the offset of a message is committed when it is read.
RedeliverNothing(gone) == UNCHANGED queues

\* Bags with some of the jobs of bag B.
SomeOf(B) ==
    {b \in UNION {[S -> UNION {1 .. B[m] : m \in S}] : S \in SUBSET BagToSet(B)} :
        b \sqsubseteq B}

\* The consumers see every unacknowledged message again, and some acknowledged
\* ones; the retry jobs in gone never reached their topic.  (That is what
\* CommitManager gives for every offset but 0: see its NoSkip.)
Redelivery(gone) ==
    /\ \E again \in SUBSET orderAcked :
          /\ orderTopic' = (Orders \ orderAcked) \cup again
          /\ orderAcked' = orderAcked \ again
    /\ \E again \in SomeOf(retryAcked) :
          /\ retryTopic' = (retryTopic (-) gone) (+) RetryInFlight (+) again
          /\ retryAcked' = retryAcked (-) again

\* The letters a producer may still hold: none once it was flushed and closed.
\* (After a second crash this includes letters of the process before it.)
Held(producer, queue) == IF IsClosed(producer) THEN {} ELSE queue

\* A crash takes what librdkafka has not delivered of the letters.
LoseBuffers ==
    \E gone \in SUBSET Held("dlqProducer", dlq),
       retryGone \in SUBSET Held("dlqRetryProducer", retryDlq) :
          /\ dlq' = dlq \ gone
          /\ undelivered' = undelivered \cup gone
          /\ retryDlq' = retryDlq \ retryGone

Crash ==
    /\ crashes < MaxCrashes
    /\ ProcessEnds
    /\ LoseBuffers
    /\ \E gone \in SomeOf(IF IsClosed("retryProducer") THEN EmptyBag ELSE retryTopic) :
          Redelivery(gone)

\* Mutant of CloseNext: the retry channel is left open.
CloseAllButChannel ==
    /\ cancelled /\ stage < Closed.retryConsumer
    /\ stage' = stage + 1
    /\ UNCHANGED <<vars, queues, letters, handler, retryCount, reported, crashes>>

\* main, after cancel(): the next thing is closed, a producer after a Flush.
CloseNext ==
    /\ cancelled /\ stage < Closed.retryChannel
    /\ stage' = stage + 1
    /\ UNCHANGED <<vars, queues, letters, handler, retryCount, reported, crashes>>

\* A goroutine blocked on the retry channel when it is closed panics, and the
\* process with it: what it defers runs with a cancelled context, in vain.
Panic(g) ==
    /\ IsClosed("retryChannel") /\ pc[g] \in Sending
    /\ ProcessEnds /\ Redelivery(EmptyBag)
    /\ UNCHANGED letters

\* main returns after the deferred disconnect(), which waits for the pool's
\* connections to be given back.
Exit ==
    /\ IsClosed("retryChannel")
    /\ \A g \in Procs : pc[g] \notin InTx
    /\ ProcessEnds /\ Redelivery(EmptyBag)
    /\ UNCHANGED letters

\* Nobody is working, and nothing is left to deliver or the worker is stopping.
WQuiet ==
    /\ \A g \in Procs : pc[g] = "idle"
    /\ handler = None
    /\ cancelled \/ (orderTopic = {} /\ retryTopic = EmptyBag)
    /\ UNCHANGED allVars

Handle == PublishRetry \/ MaxRetryExceeded

Consume(g) ==
    \/ \E o \in Orders : ConsumeOrder(g, o)
    \/ \E m \in BagToSet(retryTopic) : ConsumeRetry(g, m)

Finish(g) == FinishOrder(g) \/ FinishRetry(g)

ProcStep(g) == Run(g) /\ UNCHANGED wvars

WNext ==
    \/ \E g \in Procs : ProcStep(g) \/ Receive(g) \/ Consume(g) \/ Finish(g)
    \/ \E o \in Orders : RejectOrder(o)
    \/ Handle
    \/ Environment /\ UNCHANGED wvars
    \/ Crash
    \/ CloseNext
    \/ \E g \in Procs : Panic(g)
    \/ Exit
    \/ WQuiet

\* What a shutdown alone rests on: goroutines run, and so does main.
ShutdownFairness ==
    /\ \A g \in Procs : WF_allVars(ProcStep(g))
    /\ WF_allVars(CloseNext)
    /\ WF_allVars(Exit \/ \E g \in Procs : Panic(g))

\* The Go scheduler runs every goroutine that can run, the consumers keep
\* reading, the handler keeps receiving until the context is cancelled, main
\* goes on with the shutdown, and a key nobody deletes reaches its TTL.
WFairness ==
    /\ ShutdownFairness
    /\ \A g \in Procs :
          /\ WF_allVars(Finish(g))
          /\ WF_allVars(~cancelled /\ Receive(g))
    /\ \A o \in Orders :
          /\ WF_allVars(\E g \in Procs : ConsumeOrder(g, o))
          /\ WF_allVars(\E g \in Procs, m \in BagToSet(retryTopic) :
                            m.order = o /\ ConsumeRetry(g, m))
          /\ WF_allVars(~cancelled /\ RejectOrder(o))
    /\ WF_allVars(Handle)
    /\ \A a \in Accounts : WF_allVars(Expire(a) /\ UNCHANGED wvars)

WSafety == WInit /\ [][WNext]_allVars

WSpec == WSafety /\ WFairness

WShutdownSpec == WSafety /\ ShutdownFairness

-----------------------------------------------------------------------------
(* Properties. *)

\* While nothing is redelivered, an order is tried once for its message and at
\* most MaxRetryCount times more, however its attempts fail.
AttemptsBounded == crashes = 0 => \A o \in Orders : calls[o] <= MaxRetryCount + 1

\* The worker implements the life cycle of an order: one settlement, a debit
\* exactly with a success, and an end for every order.
Lifecycle == INSTANCE OrderLifecycle WITH Readable <- Orders \ Garbled
ImplementsLifecycle == Lifecycle!Spec

\* Someone still has the job of order o: a topic, the handler or a goroutine
\* that has not returned.
Tracked(o) ==
    \/ o \in orderTopic
    \/ \E m \in BagToSet(retryTopic) : m.order = o
    \/ handler # None /\ handler.order = o
    \/ \E g \in Procs : pc[g] # "idle" /\ job[g] = o

\* The job of o is not lost: someone has it, it is in a dead letter queue, or
\* its payment was reported as made.
Kept(o) == Tracked(o) \/ o \in dlq \cup retryDlq \cup reported

\* However commands, statements, commits and the context fail, and wherever a
\* crash, a panic or the shutdown ends the process, an order whose job nobody has
\* any more was reported as paid or is in a dead letter queue, unless the letter
\* sendToDLQ had produced for it was lost: refused by a closed producer, failed,
\* or still buffered when the process crashed.  Nothing else loses a job, not even
\* a retry job or a retry letter lost in that way.  (Messages are taken to be
\* redelivered until acknowledged, which is not so at offset 0.)
LostIsDeadLettered == \A o \in Orders : Kept(o) \/ o \in undelivered

\* As long as Kafka delivers nothing twice, an order is debited at most once,
\* although its message, its retries and the channel handler overlap and every
\* command may fail.  (A redelivered message is paid again.)
PaidOnce == crashes = 0 => \A o \in Orders : paid[o] <= 1

\* A shutdown comes to an end although goroutines wait for row locks, for
\* connections and on the retry channel nobody reads any more.
ShutdownEnds == cancelled ~> (stage = Down \/ ~cancelled)

\* A job sent to the retry channel is taken by the handler, which "reads failed
\* jobs from the in-memory retry channel ... and publishes to the retry topic".
SendsReceived == \A g \in Procs : pc[g] \in Sending ~> pc[g] \notin Sending

\* The comment before the Ack of a call that returned nil: "Successfully
\* processed, commit the offset".
ReportedIsSuccess == \A o \in reported : status[o] = "success"
=============================================================================
