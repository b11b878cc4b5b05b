------------------------- MODULE CommitManagerProofs -------------------------
(***************************************************************************)
(* Proofs about CommitManager for any number of workers, semaphore slots   *)
(* and offsets, and whatever faults are allowed.                           *)
(***************************************************************************)
EXTENDS CommitManager, NatInduction, TLAPS

\* What relates one worker's manager to its acknowledgements.  high + 1 is never
\* left in done, not even by a failed commit, and until a commit fails nothing
\* acknowledged beyond high has left done.
Managed(w) ==
    /\ 1 .. high[w] \subseteq session[w]
    /\ done[w] \subseteq session[w]
    /\ session[w] \subseteq acked
    /\ high[w] + 1 \notin done[w]
    /\ ~failed[w] => session[w] \ (0 .. high[w]) \subseteq done[w]

\* The inductive invariant: NoSkip alone does not say why the prefix a manager
\* is about to commit has been acknowledged.
Inv ==
    /\ TypeOK
    /\ \A w \in Workers : Managed(w)
    /\ NoSkip

USE LogEndAssumption, FaultAssumption, WorkersAssumption, NoneAssumption

LEMMA InitInv == Init => Inv
  BY DEF Init, Inv, TypeOK, Managed, NoSkip, Offsets

\* Ack keeps the types, apart from what CommitOffsets decides.
LEMMA AckInv ==
    ASSUME NEW w \in Workers, NEW s \in Slots, Inv, Ack(w, s)
    PROVE  Inv'
<1> DEFINE off == slot[w][s]
           d == done[w] \cup {off}
<1>1. PICK next \in high[w] .. LogEnd :
         /\ IsNext(high[w], d, next)
         /\ done' = [done EXCEPT ![w] = Scanned(high[w], d, next)]
         /\ \/ next > high[w] /\ CommitOk(w, next)
            \/ next > high[w] /\ CommitError(w, next)
            \/ next = high[w] /\ UNCHANGED <<committed, high, failed>>
         /\ acked' = acked \cup {off}
         /\ session' = [session EXCEPT ![w] = @ \cup {off}]
  BY DEF Ack
<1>2. off \in Offsets
  BY DEF Ack, Inv, TypeOK
<1>3. /\ high[w] \in Nat /\ next \in Nat /\ next >= high[w]
      /\ next > high[w] => next \in Offsets
  <2>1. high[w] \in Nat /\ d \subseteq Offsets
    BY <1>2 DEF Inv, TypeOK, Offsets
  <2>2. next > high[w] => next \in (high[w] + 1) .. next
    BY <2>1
  <2> QED
    BY <1>1, <2>1, <2>2 DEF IsNext
<1>4. UNCHANGED <<held, stopping, owner, position>>
      /\ slot' = [slot EXCEPT ![w][s] = None]
  BY DEF Ack
<1>5. /\ high' \in [Workers -> {0} \cup Offsets] /\ committed' \in 0 .. LogEnd
      /\ failed' \in [Workers -> BOOLEAN]
      /\ high'[w] \in {high[w], next}
      /\ ~failed'[w] => high'[w] = next /\ ~failed[w]
      /\ \A v \in Workers \ {w} : high'[v] = high[v] /\ failed'[v] = failed[v]
      /\ committed' \in {committed, next + 1}
  <2>1. /\ high \in [Workers -> {0} \cup Offsets] /\ committed \in 0 .. LogEnd
        /\ failed \in [Workers -> BOOLEAN]
    BY DEF Inv, TypeOK
  <2>2. CASE next > high[w] /\ CommitOk(w, next)
    BY <1>3, <2>1, <2>2 DEF CommitOk, Offsets
  <2>3. CASE next > high[w] /\ CommitError(w, next)
    BY <1>3, <2>1, <2>3 DEF CommitError, Offsets
  <2>4. CASE next = high[w] /\ UNCHANGED <<committed, high, failed>>
    BY <1>3, <2>1, <2>4
  <2> QED
    BY <1>1, <2>2, <2>3, <2>4
<1>6. TypeOK'
  <2>1. done' \in [Workers -> SUBSET Offsets]
    BY <1>1, <1>2 DEF Inv, TypeOK, Scanned
  <2>2. session' \in [Workers -> SUBSET Offsets] /\ acked' \in SUBSET Offsets
    BY <1>1, <1>2 DEF Inv, TypeOK
  <2>3. slot' \in [Workers -> [Slots -> Offsets \cup {None}]]
    BY <1>4 DEF Inv, TypeOK
  <2> QED
    BY <1>4, <1>5, <2>1, <2>2, <2>3 DEF Inv, TypeOK
<1>7. 1 .. next \subseteq session'[w]
  <2> SUFFICES ASSUME NEW o \in 1 .. next
               PROVE  o \in session'[w]
    OBVIOUS
  <2>1. session'[w] = session[w] \cup {off}
    BY <1>1 DEF Inv, TypeOK
  <2>2. o \in 1 .. high[w] \/ o \in (high[w] + 1) .. next
    BY <1>3
  <2>3. o \in 1 .. high[w] => o \in session[w]
    BY DEF Inv, Managed
  <2>4. o \in (high[w] + 1) .. next => o \in session[w] \cup {off}
    BY <1>1 DEF Inv, Managed, IsNext
  <2> QED
    BY <2>1, <2>2, <2>3, <2>4
<1>8. Managed(w)'
  <2>1. session'[w] = session[w] \cup {off} /\ done'[w] = Scanned(high[w], d, next)
    BY <1>1 DEF Inv, TypeOK
  <2>2. 1 .. high'[w] \subseteq session'[w]
    BY <1>3, <1>5, <1>7
  <2>3. done'[w] \subseteq session'[w] /\ session'[w] \subseteq acked'
    BY <1>1, <2>1 DEF Inv, Managed, Scanned
  <2>4. high'[w] + 1 \notin done'[w]
    BY <1>1, <1>3, <1>5, <2>1 DEF Scanned, IsNext
  <2>5. ~failed'[w] => session'[w] \ (0 .. high'[w]) \subseteq done'[w]
    <3> SUFFICES ASSUME ~failed'[w], NEW o \in session'[w], o \notin 0 .. next
                 PROVE  o \in done'[w]
      BY <1>5
    <3>1. o \in Int /\ o \notin (high[w] + 1) .. next /\ o \notin 0 .. high[w]
      BY <1>2, <1>3, <2>1 DEF Inv, TypeOK, Offsets
    <3>2. o \in d
      BY <1>5, <2>1, <3>1 DEF Inv, Managed
    <3> QED
      BY <2>1, <3>1, <3>2 DEF Scanned
  <2> QED
    BY <2>2, <2>3, <2>4, <2>5 DEF Managed
<1>9. ASSUME NEW v \in Workers, v # w
      PROVE  Managed(v)'
  <2>1. /\ high'[v] = high[v] /\ failed'[v] = failed[v]
        /\ done'[v] = done[v] /\ session'[v] = session[v]
    BY <1>1, <1>5, <1>9 DEF Inv, TypeOK
  <2>2. acked \subseteq acked' /\ Managed(v)
    BY <1>1 DEF Inv
  <2> QED
    BY <2>1, <2>2 DEF Managed
<1>10. NoSkip'
  <2>1. session'[w] \subseteq acked' /\ acked \subseteq acked'
    BY <1>1, <1>8 DEF Managed
  <2> SUFFICES ASSUME NEW o \in 1 .. committed' - 1
               PROVE  o \in acked'
    BY DEF NoSkip
  <2>2. CASE committed' = committed
    BY <2>1, <2>2 DEF Inv, NoSkip
  <2>3. CASE committed' = next + 1
    BY <1>3, <1>7, <2>1, <2>3
  <2> QED
    BY <1>5, <2>2, <2>3
<1> QED
  BY <1>6, <1>8, <1>9, <1>10 DEF Inv

\* A new manager has nothing to be wrong about; the others are not touched.
LEMMA RestartInv ==
    ASSUME NEW w \in Workers, Inv, Restart(w)
    PROVE  Inv'
<1>1. TypeOK'
  BY DEF Inv, TypeOK, Restart
<1>2. ASSUME NEW v \in Workers
      PROVE  Managed(v)'
  <2>1. CASE v = w
    BY <2>1 DEF Inv, TypeOK, Managed, Restart
  <2>2. CASE v # w
    BY <2>2 DEF Inv, TypeOK, Managed, Restart
  <2> QED
    BY <2>1, <2>2
<1>3. NoSkip'
  BY DEF Inv, NoSkip, Restart
<1> QED
  BY <1>1, <1>2, <1>3 DEF Inv

\* A step that leaves the managers, the committed offset and the history alone
\* only has its types to keep.
LEMMA FrameInv ==
    ASSUME Inv, TypeOK', UNCHANGED <<manager, committed, acked>>
    PROVE  Inv'
  BY DEF Inv, Managed, NoSkip, manager

LEMMA NextInv == Inv /\ [Next]_vars => Inv'
<1> SUFFICES ASSUME Inv, [Next]_vars
             PROVE  Inv'
  OBVIOUS
<1>1. ASSUME NEW w \in Workers, ReadMessage(w)
      PROVE  Inv'
  <2>1. position \in Offsets
    BY <1>1 DEF Inv, TypeOK, ReadMessage, Offsets
  <2>2. TypeOK'
    BY <1>1, <2>1 DEF Inv, TypeOK, ReadMessage, manager
  <2> QED
    BY <1>1, <2>2, FrameInv DEF ReadMessage
<1>2. ASSUME NEW w \in Workers, Cancel(w)
      PROVE  Inv'
  BY <1>2, FrameInv DEF Inv, TypeOK, Cancel, manager, broker
<1>3. ASSUME NEW w \in Workers, DropHeld(w)
      PROVE  Inv'
  BY <1>3, FrameInv DEF Inv, TypeOK, DropHeld, manager, broker
<1>4. ASSUME NEW w \in Workers, Rebalance(w)
      PROVE  Inv'
  BY <1>4, FrameInv DEF Inv, TypeOK, Rebalance, manager, loop
<1>5. ASSUME NEW w \in Workers, NEW s \in Slots, Acquire(w, s)
      PROVE  Inv'
  BY <1>5, FrameInv DEF Inv, TypeOK, Acquire, manager, broker
<1>6. ASSUME NEW w \in Workers, NEW s \in Slots, Abandon(w, s)
      PROVE  Inv'
  BY <1>6, FrameInv DEF Inv, TypeOK, Abandon, manager, broker
<1>7. CASE Idle \/ UNCHANGED vars
  BY <1>7, FrameInv DEF Inv, TypeOK, Idle, vars, manager, loop, broker
<1> QED
  BY <1>1, <1>2, <1>3, <1>4, <1>5, <1>6, <1>7, AckInv, RestartInv DEF Next

\* The inductive invariant holds in every reachable state of the consumer group.
THEOREM Invariance == Spec => []Inv
  BY InitInv, NextInv, PTL DEF Spec

\* Every variable keeps its type, for any number of workers, slots and offsets.
THEOREM TypeCorrect == Spec => []TypeOK
  BY Invariance, PTL DEF Inv

\* No commit ever covers an offset from 1 on that nobody acknowledged, whatever
\* the order of acknowledgements, restarts, rebalances and failed commits.
THEOREM NoSkipHolds == Spec => []NoSkip
  BY Invariance, PTL DEF Inv

\* Ack commits exactly the contiguous prefix of the worker's acknowledgements
\* and forgets none beyond it, until one of its commits fails.
THEOREM ExactPrefixHolds == Spec => []ExactPrefix
<1>1. Inv => ExactPrefix
  <2> SUFFICES ASSUME Inv, NEW w \in Workers, ~failed[w]
               PROVE  /\ 1 .. high[w] \subseteq session[w]
                      /\ high[w] + 1 \notin session[w]
                      /\ session[w] \ (0 .. high[w]) \subseteq done[w]
    BY DEF ExactPrefix
  <2>1. Managed(w) /\ high[w] \in Nat
    BY DEF Inv, TypeOK, Offsets
  <2>2. high[w] + 1 \notin 0 .. high[w]
    BY <2>1
  <2> QED
    BY <2>1, <2>2 DEF Managed
<1> QED
  BY <1>1, Invariance, PTL

\* A message that is given up and not delivered again is the one at offset 0: any
\* other was acknowledged by somebody or is not below the committed offset.
AbandonedIsRedeliveredFromOne ==
    [][\A w \in Workers, s \in Slots :
          Abandon(w, s) => \/ slot[w][s] \in acked
                           \/ slot[w][s] >= committed
                           \/ slot[w][s] = 0]_vars

\* What the retry consumer's comment promises ("avoid commiting, allow
\* re-delivery") holds of every offset but the first, whatever fails: it is only
\* the default 0 of high, taken for an acknowledged offset, that loses a message.
THEOREM AbandonedIsRedeliveredFromOneHolds == Spec => AbandonedIsRedeliveredFromOne
<1>1. Inv => \A w \in Workers, s \in Slots :
                Abandon(w, s) => \/ slot[w][s] \in acked
                                 \/ slot[w][s] >= committed
                                 \/ slot[w][s] = 0
  <2> SUFFICES ASSUME Inv, NEW w \in Workers, NEW s \in Slots, Abandon(w, s),
                      slot[w][s] # 0, ~(slot[w][s] >= committed)
               PROVE  slot[w][s] \in acked
    OBVIOUS
  <2>1. slot[w][s] \in Offsets /\ committed \in Nat
    BY DEF Inv, TypeOK, Abandon
  <2>2. slot[w][s] \in 1 .. committed - 1
    BY <2>1 DEF Offsets
  <2> QED
    BY <2>2 DEF Inv, NoSkip
<1> QED
  BY <1>1, Invariance, PTL DEF AbandonedIsRedeliveredFromOne

-----------------------------------------------------------------------------
(* The scan of done. *)

\* The loop of Ack, given by what it arrives at, ends for any set of offsets, at
\* one place only: the end of the run that starts at h.
LEMMA ScanEnds ==
    ASSUME NEW h \in Nat, h <= LogEnd, NEW d \in SUBSET Offsets
    PROVE  \E next \in h .. LogEnd :
              IsNext(h, d, next) /\ \A m \in Nat : IsNext(h, d, m) => m = next
<1> DEFINE T == {n \in Nat : n >= h /\ n + 1 \notin d}
<1>1. LogEnd \in T
  BY DEF Offsets
<1>2. PICK next \in T : \A n \in T : next <= n
  <2>1. T \in SUBSET Nat /\ T # {}
    BY <1>1
  <2> HIDE DEF T
  <2> QED
    BY <2>1, LeastNat
<1>3. next \in h .. LogEnd
  BY <1>1, <1>2
<1>4. IsNext(h, d, next)
  <2> SUFFICES ASSUME NEW o \in (h + 1) .. next
               PROVE  o \in d
    BY <1>2 DEF IsNext
  <2>1. o - 1 \in Nat /\ o - 1 >= h /\ o - 1 < next /\ (o - 1) + 1 = o
    BY <1>3
  <2>2. o - 1 \notin T
    BY <1>2, <2>1
  <2> QED
    BY <2>1, <2>2
<1>5. ASSUME NEW m \in Nat, IsNext(h, d, m)
      PROVE  m = next
  <2>1. m \in T
    BY <1>5 DEF IsNext
  <2>2. next <= m
    BY <1>2, <2>1
  <2>3. CASE next < m
    <3>1. next + 1 \in (h + 1) .. m
      BY <1>3, <2>3
    <3> QED
      BY <1>2, <1>5, <3>1 DEF IsNext
  <2> QED
    BY <1>3, <2>2, <2>3
<1> QED
  BY <1>3, <1>4, <1>5

\* The scan of every acknowledgement that a goroutine may make has exactly one
\* outcome.
AckDetermined ==
    \A w \in Workers, s \in Slots :
        slot[w][s] # None =>
            LET d == done[w] \cup {slot[w][s]}
            IN  \E next \in high[w] .. LogEnd :
                   /\ IsNext(high[w], d, next)
                   /\ \A m \in Nat : IsNext(high[w], d, m) => m = next

\* Whatever was acknowledged, lost, restarted and redelivered before, Ack has
\* somewhere to scan to and no choice: the next offset to commit is a function of
\* what was acknowledged.
THEOREM AckDeterminedHolds == Spec => []AckDetermined
<1>1. Inv => AckDetermined
  <2> SUFFICES ASSUME Inv, NEW w \in Workers, NEW s \in Slots, slot[w][s] # None
               PROVE  \E next \in high[w] .. LogEnd :
                         /\ IsNext(high[w], done[w] \cup {slot[w][s]}, next)
                         /\ \A m \in Nat :
                               IsNext(high[w], done[w] \cup {slot[w][s]}, m) => m = next
    BY DEF AckDetermined
  <2> DEFINE d == done[w] \cup {slot[w][s]}
  <2>1. d \in SUBSET Offsets /\ high[w] \in Nat
    BY DEF Inv, TypeOK, Offsets
  <2>2. high[w] <= LogEnd
    <3>1. CASE high[w] = 0
      BY <3>1
    <3>2. CASE high[w] > 0
      <4>1. high[w] \in 1 .. high[w]
        BY <2>1, <3>2
      <4>2. high[w] \in Offsets
        BY <4>1 DEF Inv, TypeOK, Managed
      <4> QED
        BY <4>2 DEF Offsets
    <3> QED
      BY <2>1, <3>1, <3>2
  <2> HIDE DEF d
  <2>3. \E next \in high[w] .. LogEnd :
           IsNext(high[w], d, next) /\ \A m \in Nat : IsNext(high[w], d, m) => m = next
    BY <2>1, <2>2, ScanEnds
  <2> QED
    BY <2>3 DEF d
<1> QED
  BY <1>1, Invariance, PTL

-----------------------------------------------------------------------------
(* A single consumer. *)

\* The offsets a consumer has read and not yet acknowledged.
InHand(w) == ({held[w]} \cup {slot[w][s] : s \in Slots}) \ {None}

\* In one life of a process its consumer reads every offset at most once, from
\* the committed one on, so no offset is acknowledged twice.
ReadOnce(w) ==
    /\ \A o \in InHand(w) : o < position /\ o \notin session[w]
    /\ \A s \in Slots : slot[w][s] # None => slot[w][s] # held[w]
    /\ \A s, t \in Slots : s # t /\ slot[w][s] # None => slot[w][s] # slot[w][t]
    /\ \A o \in session[w] : o < position

\* Why a manager that does not know the broker's offset cannot move it.  After a failed commit the offset
\* after high was acknowledged and cannot be again, so the manager never commits
\* any more.  Before the first commit of a life either the broker has no offset,
\* or the consumer started beyond offset 1, which the scan waits for in vain.
Agreed(w) ==
    /\ committed # 1
    /\ failed[w] => high[w] + 1 \in session[w]
    /\ ~failed[w] /\ high[w] > 0 => committed = high[w] + 1
    /\ ~failed[w] /\ high[w] = 0 /\ committed > 0 =>
          position > 1 /\ 1 \notin InHand(w) \cup session[w]

SingleInv == \A w \in Workers : ReadOnce(w) /\ Agreed(w)

LEMMA SingleInit == Init => SingleInv
  BY DEF Init, SingleInv, ReadOnce, Agreed, InHand

\* Ack of the only consumer.
LEMMA SingleAck ==
    ASSUME NEW w, Workers = {w}, NEW s \in Slots, Inv, SingleInv, Ack(w, s)
    PROVE  /\ SingleInv' /\ committed' >= committed
           /\ committed' # committed => Informed(w)
<1> DEFINE off == slot[w][s]
           d == done[w] \cup {off}
<1>1. PICK next \in high[w] .. LogEnd :
         /\ IsNext(high[w], d, next)
         /\ \/ next > high[w] /\ CommitOk(w, next)
            \/ next > high[w] /\ CommitError(w, next)
            \/ next = high[w] /\ UNCHANGED <<committed, high, failed>>
  BY DEF Ack
<1>2. /\ session' = [session EXCEPT ![w] = @ \cup {off}]
      /\ slot' = [slot EXCEPT ![w][s] = None]
      /\ UNCHANGED <<held, position>>
  BY DEF Ack
<1>3. /\ high[w] \in Nat /\ next \in Nat /\ committed \in Nat /\ position \in Nat
      /\ high \in [Workers -> Nat] /\ failed \in [Workers -> BOOLEAN]
      /\ w \in Workers /\ session[w] \subseteq Offsets
  BY DEF Inv, TypeOK, Offsets
<1>4. off \in Offsets /\ off \notin session[w] /\ off < position
  BY DEF Ack, Inv, TypeOK, SingleInv, ReadOnce, InHand
<1>5. session'[w] = session[w] \cup {off}
  BY <1>2, <1>3 DEF Inv, TypeOK
<1>6. slot'[w][s] = None /\ \A t \in Slots \ {s} : slot'[w][t] = slot[w][t] /\ slot[w][t] # off
  BY <1>2, <1>3, <1>4 DEF Inv, TypeOK, SingleInv, ReadOnce
<1>7. held'[w] = held[w] /\ held[w] # off
  BY <1>2, <1>3, <1>4 DEF SingleInv, ReadOnce
<1>8. ReadOnce(w)'
  <2>1. ASSUME NEW o \in InHand(w)'
        PROVE  o \in InHand(w) /\ o # off
    BY <1>6, <1>7, <2>1 DEF InHand
  <2>2. \A o \in InHand(w)' : o < position' /\ o \notin session'[w]
    BY <1>2, <1>3, <1>5, <2>1 DEF SingleInv, ReadOnce
  <2>3. \A o \in session'[w] : o < position'
    BY <1>2, <1>3, <1>4, <1>5 DEF SingleInv, ReadOnce
  <2>4. \A t \in Slots : slot'[w][t] # None => slot'[w][t] # held'[w]
    BY <1>3, <1>6, <1>7 DEF SingleInv, ReadOnce
  <2>5. \A t, u \in Slots : t # u /\ slot'[w][t] # None => slot'[w][t] # slot'[w][u]
    BY <1>3, <1>6 DEF SingleInv, ReadOnce
  <2> QED
    BY <2>2, <2>3, <2>4, <2>5 DEF ReadOnce
<1>9. next > high[w] => high[w] + 1 \in session'[w] /\ high[w] + 1 \in d
  BY <1>1, <1>3, <1>5 DEF Inv, Managed, IsNext
<1>10. failed[w] => next = high[w]
  BY <1>1, <1>3, <1>4, <1>9 DEF SingleInv, Agreed, Inv, Managed
<1>11. next > high[w] => committed <= next /\ Informed(w)
  <2> SUFFICES ASSUME next > high[w]
               PROVE  committed <= next /\ Informed(w)
    OBVIOUS
  <2>1. CASE high[w] > 0
    BY <1>3, <1>10, <2>1 DEF SingleInv, Agreed, Informed
  <2>2. CASE high[w] = 0
    <3>1. 1 \in InHand(w) \cup session[w]
      BY <1>3, <1>4, <1>9, <2>2 DEF InHand, Inv, Managed
    <3> QED
      BY <1>3, <1>10, <2>2, <3>1 DEF SingleInv, Agreed, Informed
  <2> QED
    BY <1>3, <2>1, <2>2
<1>12. committed' >= committed /\ (committed' # committed => Informed(w))
  BY <1>1, <1>3, <1>11 DEF CommitOk, CommitError
<1>13. Agreed(w)'
  <2>1. CASE next > high[w] /\ CommitOk(w, next)
    BY <1>3, <1>10, <2>1 DEF CommitOk, Agreed
  <2>2. CASE next > high[w] /\ CommitError(w, next)
    BY <1>3, <1>9, <2>2 DEF CommitError, Agreed, SingleInv
  <2>3. CASE next = high[w] /\ UNCHANGED <<committed, high, failed>>
    <3>1. InHand(w)' \cup session'[w] \subseteq InHand(w) \cup session[w]
      BY <1>4, <1>5, <1>6, <1>7 DEF InHand
    <3> QED
      BY <1>2, <1>3, <1>5, <2>3, <3>1 DEF Agreed, SingleInv
  <2> QED
    BY <1>1, <2>1, <2>2, <2>3
<1> QED
  BY <1>8, <1>12, <1>13 DEF SingleInv

LEMMA SingleNext ==
    ASSUME NEW w, Workers = {w}, Inv, SingleInv, [Next]_vars
    PROVE  /\ SingleInv' /\ committed' >= committed
           /\ committed' # committed => Informed(w)
<1> USE DEF SingleInv
<1>1. /\ w \in Workers /\ committed \in Nat /\ position \in Nat /\ high[w] \in Nat
      /\ owner = w /\ session[w] \subseteq Offsets
      /\ ReadOnce(w) /\ Agreed(w)
  BY DEF Inv, TypeOK, Offsets
<1>2. CASE ReadMessage(w)
  <2>1. /\ held'[w] = position /\ held[w] = None /\ position' = position + 1
        /\ UNCHANGED <<slot, session, high, failed, committed>>
    BY <1>1, <1>2 DEF ReadMessage, Inv, TypeOK, manager
  <2>2. InHand(w)' \subseteq InHand(w) \cup {position}
    BY <2>1 DEF InHand
  <2>3. \A o \in InHand(w) \cup session[w] : o \in Nat /\ o < position
    BY <1>1 DEF ReadOnce, InHand, Inv, TypeOK, Offsets
  <2>4. \A s \in Slots : slot[w][s] # None => slot[w][s] \in InHand(w)
    BY DEF InHand
  <2>5. ReadOnce(w)'
    BY <1>1, <2>1, <2>2, <2>3, <2>4 DEF ReadOnce
  <2>6. Agreed(w)'
    BY <1>1, <2>1, <2>2 DEF Agreed
  <2> QED
    BY <1>1, <2>1, <2>5, <2>6
<1>3. ASSUME NEW s \in Slots, Acquire(w, s)
      PROVE  SingleInv' /\ committed' = committed
  <2>1. /\ slot'[w][s] = held[w] /\ held[w] # None /\ held'[w] = None
        /\ \A t \in Slots \ {s} : slot'[w][t] = slot[w][t]
        /\ UNCHANGED <<session, high, failed, committed, position>>
    BY <1>1, <1>3 DEF Acquire, Inv, TypeOK, manager, broker
  <2>2. InHand(w)' \subseteq InHand(w)
    BY <2>1 DEF InHand
  <2>3. ReadOnce(w)'
    BY <1>1, <2>1, <2>2 DEF ReadOnce
  <2> QED
    BY <1>1, <2>1, <2>2, <2>3 DEF Agreed
<1>4. ASSUME InHand(w)' \subseteq InHand(w), held'[w] \in {held[w], None},
             \A s \in Slots : slot'[w][s] \in {slot[w][s], None},
             UNCHANGED <<session, high, failed, committed, position>>
      PROVE  SingleInv' /\ committed' = committed
  <2>1. ReadOnce(w)'
    BY <1>1, <1>4 DEF ReadOnce
  <2> QED
    BY <1>1, <1>4, <2>1 DEF Agreed
<1>5. CASE Cancel(w) \/ DropHeld(w) \/ Idle \/ UNCHANGED vars
  <2>1. /\ held'[w] \in {held[w], None} /\ UNCHANGED slot
        /\ UNCHANGED <<session, high, failed, committed, position>>
    BY <1>1, <1>5 DEF Cancel, DropHeld, Idle, Inv, TypeOK, vars, manager, loop, broker
  <2> QED
    BY <1>1, <1>4, <2>1 DEF InHand
<1>6. ASSUME NEW s \in Slots, Abandon(w, s)
      PROVE  SingleInv' /\ committed' = committed
  <2>1. /\ \A t \in Slots : slot'[w][t] \in {slot[w][t], None} /\ UNCHANGED held
        /\ UNCHANGED <<session, high, failed, committed, position>>
    BY <1>1, <1>6 DEF Abandon, Inv, TypeOK, manager, broker
  <2> QED
    BY <1>4, <2>1 DEF InHand
<1>7. CASE Restart(w)
  <2>1. /\ held'[w] = None /\ session'[w] = {} /\ high'[w] = 0 /\ ~failed'[w]
        /\ \A s \in Slots : slot'[w][s] = None
        /\ position' = committed /\ UNCHANGED committed
    BY <1>1, <1>7 DEF Restart, Inv, TypeOK
  <2>2. InHand(w)' = {}
    BY <2>1 DEF InHand
  <2> QED
    BY <1>1, <2>1, <2>2 DEF ReadOnce, Agreed
<1>8. ~Rebalance(w)
  BY <1>1 DEF Rebalance
<1> QED
  BY <1>1, <1>2, <1>3, <1>5, <1>6, <1>7, <1>8, SingleAck DEF Next

\* The offset stored for a single process is moved only by a manager that knows
\* it: after a restart at a stored offset, or a failed commit, a process commits
\* nothing for the rest of its life.
THEOREM StaleNeverCommitsHolds ==
    ASSUME NEW c, Workers = {c}
    PROVE  Spec => StaleNeverCommits
<1>1. Inv /\ SingleInv /\ [Next]_vars => SingleInv'
  BY SingleNext
<1>2. Inv /\ SingleInv /\ [Next]_vars =>
         [committed' # committed => \A w \in Workers : Informed(w)]_vars
  BY SingleNext
<1> QED
  BY <1>1, <1>2, Invariance, SingleInit, PTL DEF Spec, StaleNeverCommits

\* The offset a single process has committed never moves back, not even after
\* failed commits and restarts.
THEOREM CommitMonotoneHolds ==
    ASSUME NEW w, Workers = {w}
    PROVE  Spec => CommitMonotone
<1>1. Inv /\ SingleInv /\ [Next]_vars => SingleInv'
  BY SingleNext
<1>2. Inv /\ SingleInv /\ [Next]_vars => [committed' >= committed]_vars
  BY SingleNext
<1> QED
  BY <1>1, <1>2, Invariance, SingleInit, PTL DEF Spec, CommitMonotone
=============================================================================
