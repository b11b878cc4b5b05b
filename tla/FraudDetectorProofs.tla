------------------------ MODULE FraudDetectorProofs ------------------------
(***************************************************************************)
(* Proofs about FraudDetector for any number of analyses, accounts and     *)
(* payments, any window, burst and timeouts, and whatever faults.          *)
(***************************************************************************)
EXTENDS FraudDetector, FiniteSetTheorems, TLAPS

USE AnalysisAssumption, TimeAssumption, SwitchAssumption, NoneAssumption

\* Calls that may send a request without waiting any more: they have a token, or
\* the time of their reservation has come.
Granted ==
    {x \in Analyses : \/ stage[x] = "connect"
                      \/ stage[x] \in {"wait", "throttled"} /\ act[x] <= 0}

Positive(n) == IF n > 0 THEN n ELSE 0

\* The limiter: lastEvent is when its debt is paid, reservations are for
\* different times up to then (which is why Cancel gives back at most one token,
\* and only that of the last one), and what may be sent at once is covered by
\* the allowance.
RateInv ==
    /\ lastEvent = Positive(-tokens)
    /\ \A x \in Analyses : act[x] <= lastEvent
    /\ \A x, y \in Analyses : x # y /\ act[x] >= 0 => act[x] # act[y]
    /\ allowance >= Cardinality(Granted) + Positive(tokens)

\* The counter is never below the orders Redis counted within the window.
CounterCovers ==
    \A a \in Accounts : velocity[a] >= Cardinality(Recent(a))

\* A counted order keeps the counter of its account from expiring before it
\* leaves the window itself.
VelocityInv ==
    /\ \A x \in Analyses : counted[x] # None =>
          \/ velocityTtl[AccountOf[x]] = 0
          \/ velocityTtl[AccountOf[x]] + counted[x] >= VelocityWindow
    /\ CounterCovers

-----------------------------------------------------------------------------
(* Types. *)

LEMMA ClientType == Client.timeout \in Nat \ {0}
  BY DEF Client

LEMMA CapType == Cardinality(Analyses) \in Nat /\ AllowanceCap \in Nat
  BY FS_CardinalityType DEF AllowanceCap

LEMMA TypeInit == Init => TypeOK
<1> SUFFICES ASSUME Init
             PROVE  TypeOK
  OBVIOUS
<1>1. /\ stage \in [Analyses -> Stages] /\ 0 \in Versions
      /\ deadline \in [Analyses -> 0 .. Client.timeout]
  BY ClientType DEF Init, Stages, Versions
<1>2. act \in [Analyses -> Nat \cup {-1}]
  BY DEF Init
<1>3. tokens \in Int /\ tokens <= Burst /\ allowance \in Int /\ allowance <= AllowanceCap
  BY CapType DEF Init, AllowanceCap
<1>4. /\ velocity \in [Accounts -> Nat] /\ velocityTtl \in [Accounts -> 0 .. VelocityWindow]
      /\ \A a \in Accounts : velocityTtl[a] > 0 => velocity[a] > 0
      /\ averageTtl \in [Accounts -> 0 .. DeviationCacheTTL]
  BY DEF Init
<1>5. /\ average \in [Accounts -> Versions \cup {None}]
      /\ uncommitted \in [Accounts -> Versions \cup {None}]
      /\ committed \in [Accounts -> Versions] /\ written \in [Accounts -> Versions]
      /\ versions \in [Accounts -> SUBSET Versions]
  BY <1>1 DEF Init
<1> QED
  BY <1>1, <1>2, <1>3, <1>4, <1>5 DEF Init, TypeOK

\* Where a call stands and what it answers are typed whatever it does.
LEMMA GotoType ==
    ASSUME TypeOK, NEW x \in Analyses, NEW from, NEW to \in Stages, Goto(x, from, to)
    PROVE  stage' \in [Analyses -> Stages]
  BY DEF TypeOK, Goto

LEMMA AnswerType ==
    ASSUME TypeOK, NEW x \in Analyses, NEW from,
           NEW verdict \in {"clean", "suspicious", "unknown"}, Answer(x, from, verdict)
    PROVE  /\ stage' \in [Analyses -> Stages]
           /\ flag' \in [Analyses -> {"clean", "suspicious", "unknown", None}]
  BY GotoType DEF TypeOK, Answer, Stages

LEMMA CacheType ==
    ASSUME TypeOK, NEW a \in Accounts, NEW v \in Versions \cup {None}, SetAverage(a, v)
    PROVE  /\ average' \in [Accounts -> Versions \cup {None}]
           /\ averageTtl' \in [Accounts -> 0 .. DeviationCacheTTL]
  BY DEF TypeOK, SetAverage, cache

LEMMA CancelType ==
    ASSUME TypeOK, NEW x \in Analyses, CancelReservation(x)
    PROVE  tokens' \in Int /\ tokens' <= Burst /\ lastEvent' \in Nat
  BY DEF TypeOK, CancelReservation, AtMost, limiter

LEMMA StepType ==
    ASSUME TypeOK, NEW x \in Analyses, Step(x) \/ FetchAverage(x)
    PROVE  TypeOK'
<1> USE DEF calls, counter, cache, limiter, rows
<1>0. AccountOf[x] \in Accounts
  OBVIOUS
<1>1. CASE Analyze(x)
  <2>1. /\ stage' \in [Analyses -> Stages]
        /\ flag' \in [Analyses -> {"clean", "suspicious", "unknown", None}]
    BY <1>1, GotoType, AnswerType DEF Analyze, TypeOK, Stages
  <2> QED
    BY <1>1, <2>1 DEF Analyze, TypeOK
<1>2. CASE ComputeVelocity(x)
  <2>1. stage' \in [Analyses -> Stages]
    BY <1>2, GotoType DEF ComputeVelocity, CountOrder, CountFails, Stages
  <2>2. /\ velocity' \in [Accounts -> Nat] /\ velocityTtl' \in [Accounts -> 0 .. VelocityWindow]
        /\ \A a \in Accounts : velocityTtl'[a] > 0 => velocity'[a] > 0
    BY <1>0, <1>2 DEF ComputeVelocity, CountOrder, CountFails, TypeOK
  <2>3. counted' \in [Analyses -> 0 .. VelocityWindow - 1 \cup {None}]
    BY <1>2 DEF ComputeVelocity, CountOrder, CountFails, TypeOK
  <2> QED
    BY <1>2, <2>1, <2>2, <2>3 DEF ComputeVelocity, CountOrder, CountFails, TypeOK
<1>3. CASE GetAverage(x)
  <2>1. stage' \in [Analyses -> Stages]
    BY <1>3, GotoType DEF GetAverage, Stages
  <2> QED
    BY <1>3, <2>1 DEF GetAverage, TypeOK
<1>4. CASE FetchAverage(x)
  <2>1. stage' \in [Analyses -> Stages]
    BY <1>4, GotoType DEF FetchAverage, Stages
  <2>2. fetched' \in [Analyses -> Versions \cup {None}]
    BY <1>0, <1>4 DEF FetchAverage, TypeOK
  <2> QED
    BY <1>4, <2>1, <2>2 DEF FetchAverage, TypeOK
<1>5. CASE Refill(x)
  <2>1. stage' \in [Analyses -> Stages]
    BY <1>5, GotoType DEF Refill, Stages
  <2>2. fetched[x] \in Versions \cup {None} /\ fetched' \in [Analyses -> Versions \cup {None}]
    BY <1>5 DEF Refill, TypeOK
  <2>3. /\ average' \in [Accounts -> Versions \cup {None}]
        /\ averageTtl' \in [Accounts -> 0 .. DeviationCacheTTL]
    BY <1>0, <1>5, <2>2, CacheType DEF Refill
  <2> QED
    BY <1>5, <2>1, <2>2, <2>3 DEF Refill, TypeOK
<1>6. CASE Reserve(x)
  <2> DEFINE left == tokens - 1
             delay == IF left < 0 THEN -left ELSE 0
  <2>1. left \in Int /\ left <= Burst /\ delay \in Nat
    BY DEF TypeOK
  <2>2. stage' \in [Analyses -> Stages]
    BY <1>6, GotoType DEF Reserve, Stages
  <2>3. deadline' \in [Analyses -> 0 .. Client.timeout]
    BY <1>6, ClientType DEF Reserve, TypeOK
  <2>4. act' \in [Analyses -> Nat \cup {-1}] /\ tokens' = left /\ lastEvent' = delay
    BY <1>6, <2>1 DEF Reserve, TypeOK
  <2> QED
    BY <1>6, <2>1, <2>2, <2>3, <2>4 DEF Reserve, TypeOK
<1>7. CASE Throttled(x)
  <2>1. /\ stage' \in [Analyses -> Stages]
        /\ flag' \in [Analyses -> {"clean", "suspicious", "unknown", None}]
    BY <1>7, AnswerType DEF Throttled
  <2>2. tokens' \in Int /\ tokens' <= Burst /\ lastEvent' \in Nat
    BY <1>7, CancelType DEF Throttled
  <2>3. act' \in [Analyses -> Nat \cup {-1}]
    BY <1>7 DEF Throttled, TypeOK
  <2> QED
    BY <1>7, <2>1, <2>2, <2>3 DEF Throttled, TypeOK
<1>8. CASE WaitCancelled(x)
  <2>1. /\ stage' \in [Analyses -> Stages]
        /\ flag' \in [Analyses -> {"clean", "suspicious", "unknown", None}]
    BY <1>8, AnswerType DEF WaitCancelled
  <2>2. tokens' \in Int /\ tokens' <= Burst /\ lastEvent' \in Nat
    BY <1>8, CancelType DEF WaitCancelled
  <2>3. act' \in [Analyses -> Nat \cup {-1}]
    BY <1>8 DEF WaitCancelled, TypeOK
  <2> QED
    BY <1>8, <2>1, <2>2, <2>3 DEF WaitCancelled, TypeOK
<1>9. CASE Waited(x)
  <2>1. stage' \in [Analyses -> Stages]
    BY <1>9, GotoType DEF Waited, Stages
  <2>2. act' \in [Analyses -> Nat \cup {-1}] /\ deadline' \in [Analyses -> 0 .. Client.timeout]
    BY <1>9, ClientType DEF Waited, TypeOK
  <2> QED
    BY <1>9, <2>1, <2>2 DEF Waited, TypeOK
<1>10. CASE Connect(x)
  <2>1. stage' \in [Analyses -> Stages]
    BY <1>10, GotoType DEF Connect, Stages
  <2>2. allowance' \in Int /\ allowance' <= AllowanceCap
    BY <1>10, CapType DEF Connect, TypeOK
  <2> QED
    BY <1>10, <2>1, <2>2 DEF Connect, TypeOK
<1> QED
  BY <1>1, <1>2, <1>3, <1>4, <1>5, <1>6, <1>7, <1>8, <1>9, <1>10 DEF Step

LEMMA CallEndsType ==
    ASSUME TypeOK, NEW x \in Analyses, CallEnds(x)
    PROVE  TypeOK'
<1>1. PICK verdict \in {"clean", "suspicious", "unknown"}, from \in {"connect", "call"} :
         Answer(x, from, verdict)
  BY DEF CallEnds, CallML, CallFails, Predictions
<1>2. /\ deadline' = [deadline EXCEPT ![x] = 0]
      /\ UNCHANGED <<cancelled, shared, fetched, act, counted, allowance, counter, cache, limiter, rows>>
  BY DEF CallEnds, CallML, CallFails
<1>3. /\ stage' \in [Analyses -> Stages]
      /\ flag' \in [Analyses -> {"clean", "suspicious", "unknown", None}]
  BY <1>1, AnswerType
<1>4. deadline' \in [Analyses -> 0 .. Client.timeout]
  BY <1>2, ClientType DEF TypeOK
<1> QED
  BY <1>2, <1>3, <1>4 DEF TypeOK, counter, cache, limiter, rows

LEMMA PaymentType ==
    ASSUME TypeOK, NEW a \in Accounts, Payment(a)
    PROVE  TypeOK'
<1> USE DEF calls, counter, cache, limiter, rows
<1>1. CASE UpdateAverage(a)
  <2>1. written[a] + 1 \in Versions
    BY <1>1 DEF UpdateAverage, TypeOK, Versions
  <2>2. /\ average' \in [Accounts -> Versions \cup {None}]
        /\ averageTtl' \in [Accounts -> 0 .. DeviationCacheTTL]
    BY <1>1, <2>1, CacheType DEF UpdateAverage
  <2>3. written' \in [Accounts -> Versions] /\ uncommitted' \in [Accounts -> Versions \cup {None}]
    BY <1>1, <2>1 DEF UpdateAverage, TypeOK
  <2> QED
    BY <1>1, <2>2, <2>3 DEF UpdateAverage, TypeOK
<1>2. CASE CommitAverage(a)
  <2>1. uncommitted[a] \in Versions
    BY <1>2 DEF CommitAverage, TypeOK
  <2>2. /\ committed' \in [Accounts -> Versions]
        /\ versions' \in [Accounts -> SUBSET Versions]
        /\ uncommitted' \in [Accounts -> Versions \cup {None}]
    BY <1>2, <2>1 DEF CommitAverage, TypeOK
  <2> QED
    BY <1>2, <2>2 DEF CommitAverage, TypeOK
<1>3. CASE RollbackAverage(a)
  BY <1>3 DEF RollbackAverage, TypeOK
<1> QED
  BY <1>1, <1>2, <1>3 DEF Payment

LEMMA TickType == TypeOK /\ Tick => TypeOK'
<1> SUFFICES ASSUME TypeOK, Tick
             PROVE  TypeOK'
  OBVIOUS
<1>1. /\ velocity' \in [Accounts -> Nat] /\ velocityTtl' \in [Accounts -> 0 .. VelocityWindow]
      /\ \A a \in Accounts : velocityTtl'[a] > 0 => velocity'[a] > 0
  BY DEF Tick, TypeOK, Earlier
<1>2. /\ average' \in [Accounts -> Versions \cup {None}]
      /\ averageTtl' \in [Accounts -> 0 .. DeviationCacheTTL]
  BY DEF Tick, TypeOK, Earlier
<1>3. tokens' \in Int /\ tokens' <= Burst /\ lastEvent' \in Nat
  BY DEF Tick, TypeOK, Earlier, AtMost
<1>4. act' \in [Analyses -> Nat \cup {-1}]
  <2>1. \A x \in Analyses : (IF act[x] < 0 THEN -1 ELSE act[x] - 1) \in Nat \cup {-1}
    BY DEF TypeOK
  <2> QED
    BY <2>1 DEF Tick
<1>5. deadline' \in [Analyses -> 0 .. Client.timeout]
  BY ClientType DEF Tick, TypeOK, Earlier
<1>6. counted' \in [Analyses -> 0 .. VelocityWindow - 1 \cup {None}]
  BY DEF Tick, TypeOK
<1>7. allowance' \in Int /\ allowance' <= AllowanceCap
  BY CapType DEF Tick, TypeOK, AtMost
<1> QED
  BY <1>1, <1>2, <1>3, <1>4, <1>5, <1>6, <1>7 DEF Tick, TypeOK, rows

LEMMA TypeNext == TypeOK /\ [Next]_vars => TypeOK'
<1>1. TypeOK /\ (Cancel \/ UNCHANGED vars) => TypeOK'
  BY DEF TypeOK, Cancel, vars, calls, counter, cache, limiter, rows
<1> QED
  BY <1>1, StepType, CallEndsType, PaymentType, TickType DEF Next

\* Every variable keeps its type, whatever fails and however long time passes.
THEOREM TypeCorrect == Spec => []TypeOK
  BY TypeInit, TypeNext, PTL DEF Spec

-----------------------------------------------------------------------------
(* Sets of calls. *)

LEMMA CallsCard ==
    ASSUME NEW S \in SUBSET Analyses, NEW T \in SUBSET S
    PROVE  /\ IsFiniteSet(S) /\ Cardinality(S) \in Nat
           /\ Cardinality(T) \in Nat /\ Cardinality(T) <= Cardinality(S)
           /\ Cardinality(S) <= Cardinality(Analyses)
<1>1. IsFiniteSet(S) /\ Cardinality(S) <= Cardinality(Analyses)
  BY FS_Subset
<1>2. IsFiniteSet(T) /\ Cardinality(T) <= Cardinality(S)
  BY <1>1, FS_Subset
<1> QED
  BY <1>1, <1>2, FS_CardinalityType

LEMMA OneMore ==
    ASSUME NEW S \in SUBSET Analyses, NEW x \in Analyses, NEW T \in SUBSET (S \cup {x})
    PROVE  Cardinality(T) <= Cardinality(S) + 1
<1>1. IsFiniteSet(S) /\ Cardinality(S) \in Nat
  BY CallsCard
<1>2. Cardinality(S \cup {x}) = IF x \in S THEN Cardinality(S) ELSE Cardinality(S) + 1
  BY <1>1, FS_AddElement
<1>3. Cardinality(T) <= Cardinality(S \cup {x}) /\ Cardinality(T) \in Nat
      /\ Cardinality(S \cup {x}) \in Nat
  <2>1. S \cup {x} \in SUBSET Analyses
    OBVIOUS
  <2> QED
    BY <2>1, CallsCard
<1> QED
  BY <1>1, <1>2, <1>3

LEMMA OneLess ==
    ASSUME NEW S \in SUBSET Analyses, NEW x \in S, NEW T \in SUBSET (S \ {x})
    PROVE  Cardinality(T) <= Cardinality(S) - 1
<1>1. IsFiniteSet(S) /\ Cardinality(S) \in Nat
  BY CallsCard
<1>2. Cardinality(S \ {x}) = Cardinality(S) - 1
  BY <1>1, FS_RemoveElement
<1>3. Cardinality(T) <= Cardinality(S \ {x}) /\ Cardinality(T) \in Nat
  <2>1. S \ {x} \in SUBSET Analyses
    OBVIOUS
  <2> QED
    BY <2>1, CallsCard
<1> QED
  BY <1>1, <1>2, <1>3

-----------------------------------------------------------------------------
(* The rate limiter. *)

LEMMA RateInit == Init => RateInv
<1> SUFFICES ASSUME Init
             PROVE  RateInv
  OBVIOUS
<1>1. Granted = {}
  BY DEF Init, Granted
<1>2. tokens \in Nat /\ allowance = tokens /\ lastEvent = 0 /\ \A x \in Analyses : act[x] = -1
  BY DEF Init
<1>3. Cardinality(Granted) = 0
  BY <1>1, FS_EmptySet
<1> QED
  BY <1>2, <1>3 DEF RateInv, Positive

\* A step that only ends calls, or moves those without a reservation.
LEMMA RateFrame ==
    ASSUME TypeOK, RateInv, Granted' \subseteq Granted,
           UNCHANGED <<tokens, lastEvent, act, allowance>>
    PROVE  RateInv'
<1>1. Granted \in SUBSET Analyses
  BY DEF Granted
<1>2. Cardinality(Granted') <= Cardinality(Granted)
      /\ Cardinality(Granted) \in Nat /\ Cardinality(Granted') \in Nat
  BY <1>1, CallsCard
<1> QED
  BY <1>2, CapType DEF RateInv, TypeOK, Positive

\* Reserve takes a token, or the time after all reservations.
LEMMA ReserveRate ==
    ASSUME TypeOK, RateInv, NEW x \in Analyses, Reserve(x)
    PROVE  RateInv'
<1>1. /\ tokens \in Int /\ allowance \in Int /\ allowance' = allowance
      /\ tokens' = tokens - 1 /\ lastEvent' = Positive(-tokens')
  BY DEF Reserve, TypeOK, Positive
<1>2. /\ stage[x] = "reserve"
      /\ tokens > 0 => stage'[x] = "connect" /\ act'[x] = -1
      /\ tokens <= 0 => stage'[x] \in {"wait", "throttled"} /\ act'[x] = 1 - tokens
      /\ \A y \in Analyses \ {x} : stage'[y] = stage[y] /\ act'[y] = act[y]
  BY <1>1 DEF Reserve, Goto, TypeOK
<1>3. \A y \in Analyses : act[y] \in Int /\ act[y] <= Positive(-tokens)
  BY DEF RateInv, TypeOK
<1>4. \A y \in Analyses : act'[y] <= lastEvent'
  BY <1>1, <1>2, <1>3 DEF Positive
<1>5. ASSUME NEW y \in Analyses, NEW z \in Analyses, y # z, act'[y] >= 0
      PROVE  act'[y] # act'[z]
  BY <1>1, <1>2, <1>3, <1>5 DEF RateInv, Positive
<1>6. allowance >= Cardinality(Granted') + Positive(tokens')
  <2>1. /\ Granted \in SUBSET Analyses /\ Cardinality(Granted) \in Nat
        /\ Granted' \in SUBSET Analyses /\ Cardinality(Granted') \in Nat
    BY CallsCard DEF Granted
  <2>2. CASE tokens > 0
    <3>1. Granted' \subseteq Granted \cup {x}
      BY <1>2 DEF Granted
    <3>2. Cardinality(Granted') <= Cardinality(Granted) + 1
      BY <2>1, <3>1, OneMore
    <3> QED
      BY <1>1, <2>1, <2>2, <3>2 DEF RateInv, Positive
  <2>3. CASE tokens <= 0
    <3>1. Granted' \subseteq Granted
      BY <1>1, <1>2, <2>3 DEF Granted
    <3>2. Cardinality(Granted') <= Cardinality(Granted)
      BY <2>1, <3>1, CallsCard
    <3> QED
      BY <1>1, <2>1, <2>3, <3>2 DEF RateInv, Positive
  <2> QED
    BY <1>1, <2>2, <2>3
<1> QED
  BY <1>1, <1>4, <1>5, <1>6 DEF RateInv

\* A call that gives up before its request: the token of the last reservation
\* goes back, and the call no longer counts.
LEMMA GiveUpRate ==
    ASSUME TypeOK, RateInv, NEW x \in Analyses, stage[x] \in {"throttled", "wait"},
           stage' = [stage EXCEPT ![x] = "done"],
           CancelReservation(x), act' = [act EXCEPT ![x] = -1], UNCHANGED allowance
    PROVE  RateInv'
<1>1. /\ tokens \in Int /\ allowance \in Int /\ lastEvent \in Nat /\ tokens <= Burst
      /\ lastEvent = Positive(-tokens) /\ Burst \in Nat
      /\ act[x] \in Nat \cup {-1} /\ act[x] <= lastEvent
  BY DEF TypeOK, RateInv
<1>2. /\ act'[x] = -1 /\ stage'[x] = "done"
      /\ \A y \in Analyses \ {x} : act'[y] = act[y] /\ stage'[y] = stage[y]
  BY DEF TypeOK
<1>3. \A y, z \in Analyses : y # z /\ act'[y] >= 0 => act'[y] # act'[z]
  BY <1>2 DEF RateInv
<1>4. /\ Granted \in SUBSET Analyses /\ Cardinality(Granted) \in Nat
      /\ Granted' \in SUBSET Analyses /\ Cardinality(Granted') \in Nat
      /\ Granted' \subseteq Granted \ {x}
  <2>1. Granted' \subseteq Granted \ {x}
    BY <1>2 DEF Granted
  <2> QED
    BY <2>1, CallsCard DEF Granted
<1>5. Cardinality(Granted') <= Cardinality(Granted)
  BY <1>4, CallsCard
<1>6. CASE UNCHANGED limiter
  <2>1. \A y \in Analyses : act'[y] <= lastEvent'
    BY <1>1, <1>2, <1>6 DEF RateInv, limiter
  <2> QED
    BY <1>1, <1>3, <1>4, <1>5, <1>6, <2>1 DEF RateInv, limiter, Positive
<1>7. CASE ~UNCHANGED limiter
  <2>1. /\ act[x] >= 0 /\ act[x] = lastEvent
        /\ tokens' = AtMost(tokens + 1, Burst)
        /\ lastEvent' = IF act[x] >= 1 THEN act[x] - 1 ELSE lastEvent
    BY <1>1, <1>7 DEF CancelReservation
  <2>2. lastEvent' = Positive(-tokens')
    BY <1>1, <2>1 DEF AtMost, Positive
  <2>3. \A y \in Analyses \ {x} : act[y] \in Int /\ act[y] <= lastEvent /\ act[y] # act[x]
    BY <2>1 DEF RateInv, TypeOK
  <2>4. \A y \in Analyses : act'[y] <= lastEvent'
    BY <1>1, <1>2, <2>1, <2>3
  <2>5. allowance >= Cardinality(Granted') + Positive(tokens')
    <3>1. CASE act[x] = 0
      <4>1. x \in Granted
        BY <3>1 DEF Granted
      <4>2. Cardinality(Granted') <= Cardinality(Granted) - 1
        BY <1>4, <4>1, OneLess
      <4> QED
        BY <1>1, <1>4, <2>1, <4>2 DEF RateInv, Positive, AtMost
    <3>2. CASE act[x] > 0
      BY <1>1, <1>4, <1>5, <2>1, <3>2 DEF RateInv, Positive, AtMost
    <3> QED
      BY <1>1, <2>1, <3>1, <3>2
  <2> QED
    BY <1>3, <2>2, <2>4, <2>5 DEF RateInv
<1> QED
  BY <1>6, <1>7

LEMMA WaitedRate ==
    ASSUME TypeOK, RateInv, NEW x \in Analyses, Waited(x)
    PROVE  RateInv'
<1>1. /\ stage[x] = "wait" /\ act[x] <= 0 /\ act'[x] = -1 /\ stage'[x] = "connect"
      /\ \A y \in Analyses \ {x} : act'[y] = act[y] /\ stage'[y] = stage[y]
      /\ UNCHANGED <<tokens, lastEvent, allowance>>
  BY DEF Waited, Goto, TypeOK, limiter
<1>2. Granted' = Granted
  BY <1>1 DEF Granted
<1>3. lastEvent \in Nat
  BY DEF TypeOK
<1> QED
  BY <1>1, <1>2, <1>3 DEF RateInv

\* Connect sends the request of a call that was granted.
LEMMA ConnectRate ==
    ASSUME TypeOK, RateInv, NEW x \in Analyses, Connect(x)
    PROVE  RateInv'
<1>1. /\ stage[x] = "connect" /\ stage'[x] = "call" /\ allowance' = allowance - 1
      /\ \A y \in Analyses \ {x} : stage'[y] = stage[y]
      /\ UNCHANGED <<tokens, lastEvent, act>> /\ allowance \in Int /\ tokens \in Int
  BY DEF Connect, Goto, TypeOK, limiter
<1>2. Granted' \subseteq Granted \ {x} /\ x \in Granted /\ Granted \in SUBSET Analyses
  BY <1>1 DEF Granted
<1>3. /\ Cardinality(Granted') <= Cardinality(Granted) - 1
      /\ Cardinality(Granted) \in Nat /\ Cardinality(Granted') \in Nat
  BY <1>2, OneLess, CallsCard
<1>4. allowance' >= Cardinality(Granted') + Positive(tokens')
  BY <1>1, <1>3 DEF RateInv, Positive
<1> QED
  BY <1>1, <1>4 DEF RateInv

\* A tick pays for one token, or for the one reservation it falls due.
LEMMA TickRate ==
    ASSUME TypeOK, RateInv, Tick
    PROVE  RateInv'
<1>1. /\ tokens \in Int /\ tokens <= Burst /\ lastEvent = Positive(-tokens)
      /\ Burst \in Nat /\ allowance \in Int /\ allowance <= AllowanceCap
      /\ \A x \in Analyses : act[x] \in Nat \cup {-1} /\ act[x] <= lastEvent
  BY DEF TypeOK, RateInv
<1>2. /\ tokens' = AtMost(tokens + 1, Burst) /\ lastEvent' = Earlier(lastEvent)
      /\ allowance' = AtMost(allowance + 1, AllowanceCap) /\ stage' = stage
      /\ \A x \in Analyses : act'[x] = IF act[x] < 0 THEN -1 ELSE act[x] - 1
  BY DEF Tick
<1>3. lastEvent' = Positive(-tokens') /\ Positive(tokens') <= Positive(tokens) + 1
  BY <1>1, <1>2 DEF AtMost, Earlier, Positive
<1>4. \A x \in Analyses : act'[x] <= lastEvent'
  BY <1>1, <1>2 DEF Earlier, Positive
<1>5. \A x, y \in Analyses : x # y /\ act'[x] >= 0 => act'[x] # act'[y]
  BY <1>1, <1>2 DEF RateInv
<1>6. /\ Granted \in SUBSET Analyses /\ Cardinality(Granted) \in Nat
      /\ Granted' \in SUBSET Analyses /\ Cardinality(Granted') \in Nat
      /\ Cardinality(Granted') <= Cardinality(Analyses)
  BY CallsCard DEF Granted
<1>7. Cardinality(Granted') + Positive(tokens') <= Cardinality(Granted) + Positive(tokens) + 1
  <2>1. CASE \E x \in Analyses : act[x] = 1
    <3>1. PICK x \in Analyses : act[x] = 1
      BY <2>1
    <3>2. Granted' \subseteq Granted \cup {x}
      BY <1>1, <1>2, <3>1 DEF Granted, RateInv
    <3>3. Cardinality(Granted') <= Cardinality(Granted) + 1
      BY <1>6, <3>2, OneMore
    <3>4. tokens < 0 /\ Positive(tokens') = 0 /\ Positive(tokens) = 0
      BY <1>1, <1>2, <3>1 DEF Positive, AtMost
    <3> QED
      BY <1>6, <3>3, <3>4
  <2>2. CASE \A x \in Analyses : act[x] # 1
    <3>1. Granted' \subseteq Granted
      BY <1>1, <1>2, <2>2 DEF Granted
    <3>2. Cardinality(Granted') <= Cardinality(Granted)
      BY <1>6, <3>1, CallsCard
    <3> QED
      BY <1>1, <1>2, <1>3, <1>6, <3>2 DEF Positive, AtMost
  <2> QED
    BY <2>1, <2>2
<1>8. allowance' >= Cardinality(Granted') + Positive(tokens')
  <2>1. CASE allowance + 1 > AllowanceCap
    BY <1>1, <1>2, <1>6, <2>1, CapType DEF AtMost, Positive, AllowanceCap
  <2>2. CASE allowance + 1 <= AllowanceCap
    <3>1. allowance' = allowance + 1
      BY <1>1, <1>2, <2>2, CapType DEF AtMost
    <3>2. Positive(tokens) \in Int /\ Positive(tokens') \in Int
      BY <1>1, <1>2 DEF Positive, AtMost
    <3> QED
      BY <1>1, <1>6, <1>7, <3>1, <3>2 DEF RateInv
  <2> QED
    BY <1>1, <2>1, <2>2, CapType
<1> QED
  BY <1>3, <1>4, <1>5, <1>8 DEF RateInv

LEMMA RateNext == TypeOK /\ RateInv /\ [Next]_vars => RateInv'
<1> SUFFICES ASSUME TypeOK, RateInv, [Next]_vars
             PROVE  RateInv'
  OBVIOUS
<1> USE DEF calls, counter, cache, limiter, rows
<1>1. ASSUME NEW x \in Analyses, NEW from \in Stages \ {"wait", "throttled"},
             NEW to \in Stages \ {"wait", "throttled", "connect"}, Goto(x, from, to),
             UNCHANGED <<tokens, lastEvent, act, allowance>>
      PROVE  RateInv'
  <2>1. Granted' \subseteq Granted
    BY <1>1 DEF Granted, Goto, TypeOK
  <2> QED
    BY <1>1, <2>1, RateFrame
<1>2. ASSUME NEW x \in Analyses,
             Analyze(x) \/ ComputeVelocity(x) \/ GetAverage(x) \/ FetchAverage(x) \/ Refill(x)
      PROVE  RateInv'
  <2>1. /\ \/ Goto(x, "start", "velocity") \/ Goto(x, "start", "done")
           \/ Goto(x, "velocity", "deviation")
           \/ Goto(x, "deviation", "reserve") \/ Goto(x, "deviation", "fetch")
           \/ Goto(x, "fetch", "refill") \/ Goto(x, "fetch", "reserve")
           \/ Goto(x, "refill", "reserve")
        /\ UNCHANGED <<tokens, lastEvent, act, allowance>>
    BY <1>2 DEF Analyze, Answer, ComputeVelocity, CountOrder, CountFails, GetAverage, FetchAverage, Refill
  <2> QED
    BY <1>1, <2>1 DEF Stages
<1>3. ASSUME NEW x \in Analyses, CallEnds(x)
      PROVE  RateInv'
  <2>1. /\ Goto(x, "connect", "done") \/ Goto(x, "call", "done")
        /\ UNCHANGED <<tokens, lastEvent, act, allowance>>
    BY <1>3 DEF CallEnds, CallML, CallFails, Answer
  <2> QED
    BY <1>1, <2>1 DEF Stages
<1>4. ASSUME NEW x \in Analyses, Throttled(x) \/ WaitCancelled(x)
      PROVE  RateInv'
  BY <1>4, GiveUpRate DEF Throttled, WaitCancelled, Answer, Goto
<1>5. ASSUME \/ \E a \in Accounts : Payment(a)
             \/ Cancel \/ UNCHANGED vars
      PROVE  RateInv'
  <2>1. UNCHANGED <<stage, tokens, lastEvent, act, allowance>>
    BY <1>5 DEF Payment, UpdateAverage, CommitAverage, RollbackAverage, Cancel, vars
  <2>2. Granted' \subseteq Granted
    BY <2>1 DEF Granted
  <2> QED
    BY <2>1, <2>2, RateFrame
<1> QED
  BY <1>2, <1>3, <1>4, <1>5, ReserveRate, WaitedRate, ConnectRate, TickRate DEF Next, Step

\* The limiter's bookkeeping, in every reachable state.
THEOREM RateInvariance == Spec => [](TypeOK /\ RateInv)
  BY TypeInit, RateInit, TypeNext, RateNext, PTL DEF Spec

\* The pod never sends the ML service more requests than the burst and the rate
\* allow, although throttled and cancelled calls give their tokens back.
THEOREM CallsWithinRateHolds == Spec => []CallsWithinRate
<1>1. TypeOK /\ RateInv => CallsWithinRate
  <2> SUFFICES ASSUME TypeOK, RateInv
               PROVE  CallsWithinRate
    OBVIOUS
  <2>1. Cardinality(Granted) \in Nat
    BY CallsCard DEF Granted
  <2> QED
    BY <2>1 DEF TypeOK, RateInv, CallsWithinRate, Positive
<1> QED
  BY <1>1, RateInvariance, PTL

-----------------------------------------------------------------------------
(* The velocity counter. *)

\* The recent orders of an account are finitely many, before a step and after it.
LEMMA RecentCard ==
    ASSUME NEW a \in Accounts
    PROVE  /\ Recent(a) \in SUBSET Analyses /\ Cardinality(Recent(a)) \in Nat
           /\ Recent(a)' \in SUBSET Analyses /\ Cardinality(Recent(a)') \in Nat
<1>1. Recent(a) \in SUBSET Analyses /\ Recent(a)' \in SUBSET Analyses
  BY DEF Recent
<1> QED
  BY <1>1, CallsCard

LEMMA VelocityInit == Init => VelocityInv
<1> SUFFICES ASSUME Init, NEW a \in Accounts
             PROVE  velocity[a] >= Cardinality(Recent(a))
  BY DEF Init, VelocityInv, CounterCovers
<1>1. Recent(a) = {}
  BY DEF Init, Recent
<1> QED
  BY <1>1, FS_EmptySet DEF Init

\* INCR counts at least as much as the history does, and EXPIRE only prolongs.
LEMMA ComputeVelocityInv ==
    ASSUME TypeOK, VelocityInv, NEW x \in Analyses, ComputeVelocity(x)
    PROVE  VelocityInv'
<1> DEFINE a == AccountOf[x]
<1>1. /\ a \in Accounts /\ velocity[a] \in Nat /\ VelocityWindow \in Nat
      /\ \A b \in Accounts \ {a} : velocity'[b] = velocity[b] /\ velocityTtl'[b] = velocityTtl[b]
      /\ \A y \in Analyses \ {x} : counted'[y] = counted[y]
      /\ velocityTtl'[a] \in {velocityTtl[a], VelocityWindow}
      /\ \/ velocity'[a] = velocity[a] + 1 /\ velocityTtl'[a] = VelocityWindow /\ counted'[x] = 0
         \/ velocity'[a] \in {velocity[a], velocity[a] + 1} /\ counted'[x] = counted[x]
  BY DEF ComputeVelocity, CountOrder, CountFails, TypeOK
<1>2. ASSUME NEW y \in Analyses, counted'[y] # None
      PROVE  \/ velocityTtl'[AccountOf[y]] = 0
             \/ velocityTtl'[AccountOf[y]] + counted'[y] >= VelocityWindow
  <2>1. CASE counted'[y] = counted[y]
    <3>1. counted[y] \in Nat /\ AccountOf[y] \in Accounts
      BY <1>2, <2>1 DEF TypeOK
    <3> QED
      BY <1>1, <1>2, <2>1, <3>1 DEF VelocityInv
  <2>2. CASE counted'[y] # counted[y]
    BY <1>1, <2>2
  <2> QED
    BY <2>1, <2>2
<1>3. ASSUME NEW b \in Accounts
      PROVE  velocity'[b] >= Cardinality(Recent(b)')
  <2>0. velocity[b] >= Cardinality(Recent(b)) /\ velocity[b] \in Nat
    BY DEF VelocityInv, CounterCovers, TypeOK
  <2>1. CASE counted' = counted \/ b # a
    <3>1. Recent(b)' = Recent(b)
      BY <1>1, <2>1 DEF Recent
    <3> QED
      BY <1>1, <2>0, <3>1, RecentCard
  <2>2. CASE b = a /\ counted' # counted
    <3>1. Recent(b)' \subseteq Recent(b) \cup {x}
      BY <1>1 DEF Recent
    <3>2. Cardinality(Recent(b)') <= Cardinality(Recent(b)) + 1
      BY <3>1, RecentCard, OneMore
    <3>3. velocity'[b] = velocity[b] + 1
      BY <2>2 DEF ComputeVelocity, CountOrder, CountFails, TypeOK
    <3> QED
      BY <2>0, <3>2, <3>3, RecentCard
  <2> QED
    BY <2>1, <2>2
<1> QED
  BY <1>2, <1>3 DEF VelocityInv, CounterCovers

\* The counter is only forgotten together with every order it counts.
LEMMA TickVelocity ==
    ASSUME TypeOK, VelocityInv, Tick
    PROVE  VelocityInv'
<1>1. /\ \A b \in Accounts :
            /\ velocity[b] \in Nat /\ velocityTtl[b] \in Nat
            /\ velocity'[b] = IF velocityTtl[b] = 1 THEN 0 ELSE velocity[b]
            /\ velocityTtl'[b] = IF velocityTtl[b] = 0 THEN 0 ELSE velocityTtl[b] - 1
      /\ VelocityWindow \in Nat
  BY DEF Tick, TypeOK, Earlier
<1>2. ASSUME NEW y \in Analyses, counted'[y] # None
      PROVE  /\ counted[y] # None /\ counted'[y] = counted[y] + 1
             /\ counted[y] \in Nat /\ counted[y] <= VelocityWindow - 2
             /\ AccountOf[y] \in Accounts
  BY <1>2 DEF Tick, TypeOK
<1>3. ASSUME NEW y \in Analyses, counted'[y] # None
      PROVE  \/ velocityTtl'[AccountOf[y]] = 0
             \/ velocityTtl'[AccountOf[y]] + counted'[y] >= VelocityWindow
  BY <1>1, <1>2, <1>3 DEF VelocityInv
<1>4. ASSUME NEW b \in Accounts
      PROVE  velocity'[b] >= Cardinality(Recent(b)')
  <2>1. CASE velocityTtl[b] = 1
    <3>1. ASSUME NEW y \in Recent(b)'
          PROVE  FALSE
      <4>1. y \in Analyses /\ AccountOf[y] = b /\ counted'[y] # None
        BY <3>1 DEF Recent
      <4>2. velocityTtl[b] + counted[y] >= VelocityWindow
        BY <1>2, <2>1, <4>1 DEF VelocityInv
      <4> QED
        BY <1>1, <1>2, <2>1, <4>1, <4>2
    <3>2. Recent(b)' = {}
      BY <3>1
    <3> QED
      BY <1>1, <2>1, <3>2, FS_EmptySet
  <2>2. CASE velocityTtl[b] # 1
    <3>1. Recent(b)' \subseteq Recent(b)
      BY <1>2 DEF Recent
    <3>2. Cardinality(Recent(b)') <= Cardinality(Recent(b))
      BY <3>1, RecentCard, CallsCard
    <3>3. velocity[b] >= Cardinality(Recent(b))
      BY DEF VelocityInv, CounterCovers
    <3> QED
      BY <1>1, <2>2, <3>2, <3>3, RecentCard
  <2> QED
    BY <2>1, <2>2
<1> QED
  BY <1>3, <1>4 DEF VelocityInv, CounterCovers

LEMMA VelocityNext == TypeOK /\ VelocityInv /\ [Next]_vars => VelocityInv'
<1> SUFFICES ASSUME TypeOK, VelocityInv, [Next]_vars
             PROVE  VelocityInv'
  OBVIOUS
<1>1. UNCHANGED <<velocity, velocityTtl, counted>> => VelocityInv'
  BY DEF VelocityInv, CounterCovers, Recent
<1>2. ASSUME NEW x \in Analyses,
             (Step(x) /\ ~ComputeVelocity(x)) \/ FetchAverage(x) \/ CallEnds(x)
      PROVE  UNCHANGED <<velocity, velocityTtl, counted>>
  BY <1>2 DEF Step, Analyze, GetAverage, FetchAverage, Refill, Reserve, Throttled, Waited,
              WaitCancelled, Connect, CallEnds, CallML, CallFails, counter
<1>3. ASSUME \/ \E a \in Accounts : Payment(a)
             \/ Cancel \/ UNCHANGED vars
      PROVE  UNCHANGED <<velocity, velocityTtl, counted>>
  BY <1>3 DEF Payment, UpdateAverage, CommitAverage, RollbackAverage, Cancel, vars,
              counter, calls
<1> QED
  BY <1>1, <1>2, <1>3, ComputeVelocityInv, TickVelocity DEF Next

\* An order whose pipeline answers is judged on a velocity that covers the orders
\* Redis counted within the window, whichever pipelines fail half-way and
\* whenever keys expire.  (One whose pipeline fails is judged on the fallback.)
THEOREM JudgedOnWindowHolds == Spec => JudgedOnWindow
<1>1. Spec => [](TypeOK /\ VelocityInv)
  BY TypeInit, VelocityInit, TypeNext, VelocityNext, PTL DEF Spec
<1>2. TypeOK /\ VelocityInv /\ [Next]_vars =>
         [\A x \in Analyses : CountOrder(x) =>
             velocity'[AccountOf[x]] >= Cardinality(Recent(AccountOf[x])')]_vars
  <2> SUFFICES ASSUME TypeOK, VelocityInv, [Next]_vars, NEW x \in Analyses
               PROVE  velocity'[AccountOf[x]] >= Cardinality(Recent(AccountOf[x])')
    OBVIOUS
  <2>1. VelocityInv' /\ AccountOf[x] \in Accounts
    BY VelocityNext
  <2> QED
    BY <2>1 DEF VelocityInv, CounterCovers
<1> QED
  BY <1>1, <1>2, PTL DEF Spec, JudgedOnWindow
=============================================================================
