---------------------------- MODULE CommitManager ----------------------------
(***************************************************************************)
(* pkg/kafka/commit_manager.go, driven by the consumer loops of the        *)
(* payment worker (KafkaOrderConfig.Start / KafkaRetryConfig               *)
(* .startRetryConsumer), for one partition of one topic.                   *)
(*                                                                         *)
(* Each worker process owns a private CommitManager.  Its consumer loop    *)
(* reads messages in offset order, hands each one to a goroutine bounded   *)
(* by a semaphore, and the goroutine acknowledges its offset when it is    *)
(* finished, so acknowledgements arrive in any order.  The manager turns   *)
(* them into commits of the contiguous prefix.  The group coordinator may  *)
(* move the partition to another worker at any time; a worker may be       *)
(* cancelled (graceful shutdown) or restarted, which loses its manager.    *)
(***************************************************************************)
EXTENDS Integers, FiniteSets

CONSTANTS Workers,      \* processes of the consumer group
          Slots,        \* semaphore slots of one process
          LogEnd,       \* the partition holds the offsets 0 .. LogEnd-1
          CommitsFail,  \* may CommitOffsets return an error?
          WorkersFail,  \* may workers be cancelled, restarted?
          Rebalances,   \* may the partition move to another worker?
          None          \* "no offset"

ASSUME LogEndAssumption == LogEnd \in Nat
ASSUME FaultAssumption  == {CommitsFail, WorkersFail, Rebalances} \subseteq BOOLEAN
ASSUME WorkersAssumption == Workers # {}

Offsets == 0 .. LogEnd - 1

ASSUME NoneAssumption == None \notin Offsets

VARIABLES
    high,       \* CommitManager.high of each worker, default 0
    done,       \* CommitManager.done of each worker
    held,       \* the message a consumer loop has read and not yet spawned
    slot,       \* the offset each goroutine slot is processing
    stopping,   \* worker context cancelled
    owner,      \* the worker the partition is assigned to
    position,   \* next offset the owner's consumer reads
    committed,  \* offset stored by the broker; 0 when there is none
    acked,      \* history: offsets acknowledged by some worker, ever
    session,    \* history: offsets acknowledged in the life of this worker
    failed      \* history: a CommitOffsets of this worker has failed

manager == <<high, done, session, failed>>
loop    == <<held, slot, stopping>>
broker  == <<owner, position, committed, acked>>
vars    == <<manager, loop, broker>>

TypeOK ==
    /\ high \in [Workers -> {0} \cup Offsets]
    /\ done \in [Workers -> SUBSET Offsets]
    /\ held \in [Workers -> Offsets \cup {None}]
    /\ slot \in [Workers -> [Slots -> Offsets \cup {None}]]
    /\ stopping \in [Workers -> BOOLEAN]
    /\ owner \in Workers
    /\ position \in 0 .. LogEnd
    /\ committed \in 0 .. LogEnd
    /\ acked \in SUBSET Offsets
    /\ session \in [Workers -> SUBSET Offsets]
    /\ failed \in [Workers -> BOOLEAN]

Init ==
    /\ high = [w \in Workers |-> 0]
    /\ done = [w \in Workers |-> {}]
    /\ held = [w \in Workers |-> None]
    /\ slot = [w \in Workers |-> [s \in Slots |-> None]]
    /\ stopping = [w \in Workers |-> FALSE]
    /\ owner \in Workers
    /\ position = 0
    /\ committed = 0
    /\ acked = {}
    /\ session = [w \in Workers |-> {}]
    /\ failed = [w \in Workers |-> FALSE]

-----------------------------------------------------------------------------
(* The consumer loop. *)

\* ReadMessage: one message is fetched before a semaphore slot is awaited.
ReadMessage(w) ==
    /\ owner = w
    /\ held[w] = None
    /\ position < LogEnd
    /\ held' = [held EXCEPT ![w] = position]
    /\ position' = position + 1
    /\ UNCHANGED <<manager, slot, stopping, owner, committed, acked>>

\* A semaphore slot is free: the goroutine is spawned, and is past its check of
\* the context unless it is cancelled first.
Acquire(w, s) ==
    /\ ~stopping[w]
    /\ held[w] # None
    /\ slot[w][s] = None
    /\ slot' = [slot EXCEPT ![w][s] = held[w]]
    /\ held' = [held EXCEPT ![w] = None]
    /\ UNCHANGED <<manager, stopping, broker>>

\* The context is cancelled by a shutdown signal.
Cancel(w) ==
    /\ WorkersFail
    /\ ~stopping[w]
    /\ stopping' = [stopping EXCEPT ![w] = TRUE]
    /\ UNCHANGED <<manager, held, slot, broker>>

\* The message the loop holds is dropped: by the loop, which takes the ctx.Done()
\* case, or by a goroutine it still spawns, which returns at its first check.
DropHeld(w) ==
    /\ stopping[w]
    /\ held[w] # None
    /\ held' = [held EXCEPT ![w] = None]
    /\ UNCHANGED <<manager, slot, stopping, broker>>

\* A running goroutine finds the context cancelled, at its first check or at the
\* one after the backoff, and returns without an Ack.
Abandon(w, s) ==
    /\ stopping[w]
    /\ slot[w][s] # None
    /\ slot' = [slot EXCEPT ![w][s] = None]
    /\ UNCHANGED <<manager, held, stopping, broker>>

-----------------------------------------------------------------------------
(* CommitManager.Ack, atomic under its mutex. *)

\* Mutant of IsNext: the highest acknowledged offset, gaps or not.
IsHighest(h, d, next) ==
    /\ next >= h
    /\ next = h \/ next \in d
    /\ \A o \in d : o <= next

\* Mutant of IsNext: an "if" in place of the loop.
IsNextOnce(h, d, next) ==
    next = IF h + 1 \in d THEN h + 1 ELSE h

\* What the scan loop arrives at: the last offset contiguous with h in d.
IsNext(h, d, next) ==
    /\ next >= h
    /\ (h + 1) .. next \subseteq d
    /\ next + 1 \notin d

\* What the scan loop deletes from d on its way to next.
Scanned(h, d, next) == d \ ((h + 1) .. next)

\* Mutant of CommitOk: adds one to an offset that is already the next to read.
CommitBeyond(w, next) ==
    /\ committed' = next + 2
    /\ high' = [high EXCEPT ![w] = next]
    /\ failed' = failed

\* Mutant of CommitOk: commits the last processed offset, not the one after it.
CommitSame(w, next) ==
    /\ committed' = next
    /\ high' = [high EXCEPT ![w] = next]
    /\ failed' = failed

\* CommitOffsets(next + 1) succeeds.
CommitOk(w, next) ==
    /\ committed' = next + 1
    /\ high' = [high EXCEPT ![w] = next]
    /\ failed' = failed

\* CommitOffsets returns an error, before or after the broker stored the
\* offset.  The scanned offsets are gone from done and high is not moved.
CommitError(w, next) ==
    /\ CommitsFail
    /\ committed' \in {committed, next + 1}
    /\ high' = high
    /\ failed' = [failed EXCEPT ![w] = TRUE]

Ack(w, s) ==
    /\ slot[w][s] # None
    /\ LET off == slot[w][s]
           d   == done[w] \cup {off}
       IN \E next \in high[w] .. LogEnd :
             /\ IsNext(high[w], d, next)
             /\ done' = [done EXCEPT ![w] = Scanned(high[w], d, next)]
             /\ \/ next > high[w] /\ CommitOk(w, next)
                \/ next > high[w] /\ CommitError(w, next)
                \/ next = high[w] /\ UNCHANGED <<committed, high, failed>>
             /\ acked' = acked \cup {off}
             /\ session' = [session EXCEPT ![w] = @ \cup {off}]
    /\ slot' = [slot EXCEPT ![w][s] = None]
    /\ UNCHANGED <<held, stopping, owner, position>>

-----------------------------------------------------------------------------
(* The consumer group. *)

\* The coordinator gives the partition to w, whose consumer starts at the
\* committed offset.  The previous owner keeps its manager and goroutines.
Rebalance(w) ==
    /\ Rebalances
    /\ owner # w
    /\ owner' = w
    /\ position' = committed
    /\ UNCHANGED <<manager, loop, committed, acked>>

\* Mutant of Restart: the consumer starts at the earliest offset again.
RestartFromEarliest(w) ==
    /\ WorkersFail /\ owner = w
    /\ high' = [high EXCEPT ![w] = 0]
    /\ done' = [done EXCEPT ![w] = {}]
    /\ session' = [session EXCEPT ![w] = {}]
    /\ failed' = [failed EXCEPT ![w] = FALSE]
    /\ held' = [held EXCEPT ![w] = None]
    /\ slot' = [slot EXCEPT ![w] = [s \in Slots |-> None]]
    /\ stopping' = [stopping EXCEPT ![w] = FALSE]
    /\ position' = 0
    /\ UNCHANGED <<owner, committed, acked>>

\* Worker w dies and comes back with an empty manager.  When it owned the
\* partition, the partition is reassigned at the committed offset.
Restart(w) ==
    /\ WorkersFail
    /\ high' = [high EXCEPT ![w] = 0]
    /\ done' = [done EXCEPT ![w] = {}]
    /\ session' = [session EXCEPT ![w] = {}]
    /\ failed' = [failed EXCEPT ![w] = FALSE]
    /\ held' = [held EXCEPT ![w] = None]
    /\ slot' = [slot EXCEPT ![w] = [s \in Slots |-> None]]
    /\ stopping' = [stopping EXCEPT ![w] = FALSE]
    /\ \/ /\ owner = w
          /\ owner' \in Workers
          /\ position' = committed
       \/ owner # w /\ UNCHANGED <<owner, position>>
    /\ UNCHANGED <<committed, acked>>

\* Nothing left to do: every offset was read and no goroutine is running.
Idle ==
    /\ position >= LogEnd
    /\ \A w \in Workers : held[w] = None /\ \A s \in Slots : slot[w][s] = None
    /\ UNCHANGED vars

Next ==
    \/ \E w \in Workers :
          \/ ReadMessage(w) \/ Cancel(w) \/ DropHeld(w)
          \/ Rebalance(w) \/ Restart(w)
          \/ \E s \in Slots : Acquire(w, s) \/ Abandon(w, s) \/ Ack(w, s)
    \/ Idle

\* The loops and goroutines of a live worker keep running; faults need not
\* happen.  A slot that is free again takes the held message eventually.
Fairness ==
    \A w \in Workers :
        /\ WF_vars(ReadMessage(w))
        /\ WF_vars(\E s \in Slots : Acquire(w, s))
        /\ \A s \in Slots : WF_vars(Ack(w, s))

Spec == Init /\ [][Next]_vars /\ Fairness

-----------------------------------------------------------------------------
(* Properties. *)

\* Every offset the broker counts as committed, from 1 on, was acknowledged by
\* some worker: a crash, a rebalance, a failed commit or acknowledgements in
\* any order never make a later offset's Ack skip an unfinished message.
NoSkip == \A o \in 1 .. committed - 1 : o \in acked

\* In a worker none of whose commits failed, high is exactly the end of the
\* contiguous run 1..high of its acknowledgements, and done still holds every
\* acknowledged offset beyond it.
ExactPrefix ==
    \A w \in Workers : ~failed[w] =>
        /\ 1 .. high[w] \subseteq session[w]
        /\ high[w] + 1 \notin session[w]
        /\ session[w] \ (0 .. high[w]) \subseteq done[w]

\* The manager of w knows the broker's offset.
Informed(w) ==
    /\ ~failed[w]
    /\ committed = IF high[w] = 0 THEN 0 ELSE high[w] + 1

\* While one process consumes the partition, the broker's offset is moved only by
\* a manager that knows it: none of its commits failed, and high is the offset
\* before it, or the broker has none.  So a process that is restarted at a stored
\* offset, whose new manager waits for offset 1, and one whose commit has failed
\* commit nothing more for the rest of their lives, whatever they acknowledge.
StaleNeverCommits ==
    [][committed' # committed => \A w \in Workers : Informed(w)]_vars

\* The committed offset never moves backwards while a single process consumes
\* the partition, whatever order its goroutines acknowledge in.
CommitMonotone == [][committed' >= committed]_vars

\* The comment on the retry consumer's early return: "avoid commiting, allow
\* re-delivery".  The message a cancelled goroutine gives up was finished by
\* somebody else or is not below the committed offset.
AbandonedIsRedelivered ==
    [][\A w \in Workers, s \in Slots :
          Abandon(w, s) => slot[w][s] \in acked \/ slot[w][s] >= committed]_vars
=============================================================================
