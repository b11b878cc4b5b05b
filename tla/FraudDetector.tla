---------------------------- MODULE FraudDetector ----------------------------
(***************************************************************************)
(* FraudDetectorConfig.Analyze (fraud_detection_service.go): the goroutine *)
(* ProcessPayment starts for each payment.  It counts the account's orders *)
(* in Redis, compares the amount with the account's average (cached in     *)
(* Redis, refilled from a read replica), waits for a token of the pod's    *)
(* rate limiter and asks the ML service through a pooled HTTP client       *)
(* (http_client.go), the deadline of which is all that ends a call the     *)
(* service does not answer.                                                *)
(*                                                                         *)
(* The other writer of the average is ProcessPayment, which refreshes the  *)
(* cache in UpdateBalanceAvgCount before its transaction commits: those    *)
(* steps are UpdateAverage, CommitAverage and RollbackAverage.  Averages   *)
(* are told apart by the payment that computed them: version 0 is the one  *)
(* the accounts row starts with.                                           *)
(*                                                                         *)
(* Time passes in ticks; one tick is the time the limiter takes to gain a  *)
(* token (1/MlRateLimitPerSec).  Points in time are kept relative to now,  *)
(* so that the clock needs no bound.                                       *)
(***************************************************************************)
EXTENDS Integers, FiniteSets

CONSTANTS Analyses,          \* calls of Analyze
          Accounts,
          AccountOf,         \* job.AccountID of each call
          VelocityWindow,    \* in ticks
          DeviationCacheTTL, \* in ticks
          Burst,             \* Config.MaxReplicaRateLimit
          MaxThrottleWait,   \* Config.MlRequestMaxThrottleWait, in ticks
          ClientTimeout,     \* option WithClientTimeout, in ticks
          MaxConnsPerHost,   \* option WithMaxConnsPerHost
          MaxConns,          \* connections of a database pool
          MaxPayments,       \* bound: payments per account that write an average
          Faults,            \* may Redis, the database or the ML service fail?
          Cancels,           \* may the context be cancelled?
          None

ASSUME AnalysisAssumption ==
    /\ IsFiniteSet(Analyses)
    /\ AccountOf \in [Analyses -> Accounts]

ASSUME TimeAssumption ==
    /\ {VelocityWindow, DeviationCacheTTL, Burst, MaxConns} \subseteq Nat \ {0}
    /\ {MaxThrottleWait, MaxPayments} \subseteq Nat
    /\ {ClientTimeout, MaxConnsPerHost} \subseteq Int

ASSUME SwitchAssumption == {Faults, Cancels} \subseteq BOOLEAN

ASSUME NoneAssumption == None \notin Int

VARIABLES
    cancelled,
    shared,                   \* no replica is configured: reads use the primary's pool
    stage, flag,              \* of each call: where it stands, the status it sent
    velocity, velocityTtl,    \* the counter; 0: no key; TTL 0: it does not expire
    average, averageTtl,      \* the cached average
    fetched,                  \* the average a call read from the database
    tokens, lastEvent, act,   \* rate.Limiter; timeToAct of reservations, -1: passed
    deadline,                 \* time a request to the ML service has left
    uncommitted,              \* average written by a running transaction
    committed, versions,      \* average of the row; all it has had
    written,                  \* how many payments have computed an average
    counted,                  \* history: time since Redis executed INCR and EXPIRE for an
                              \* order, within the window
    allowance                 \* history: requests the burst and the rate still allow

calls    == <<stage, flag, fetched, act, deadline, counted, allowance>>
counter  == <<velocity, velocityTtl>>
cache    == <<average, averageTtl>>
limiter  == <<tokens, lastEvent>>
rows     == <<uncommitted, committed, versions, written>>
vars     == <<cancelled, shared, calls, counter, cache, limiter, rows>>

Stages == {"start", "velocity", "deviation", "fetch", "refill", "reserve",
           "throttled", "wait", "connect", "call", "done"}
Versions == 0 .. MaxPayments

\* NewHTTPClient: sanitizeClientConfig replaces what is not positive by the
\* library's default, 2s and 128 connections in the code.
Client ==
    LET Sanitized(option, default) == IF option <= 0 THEN default ELSE option
    IN  [timeout |-> Sanitized(ClientTimeout, 2),
         conns   |-> Sanitized(MaxConnsPerHost, 128)]

\* More than the calls that are left could use up.
AllowanceCap == Burst + Cardinality(Analyses)

TypeOK ==
    /\ cancelled \in BOOLEAN /\ shared \in BOOLEAN
    /\ stage \in [Analyses -> Stages]
    /\ flag \in [Analyses -> {"clean", "suspicious", "unknown", None}]
    /\ velocity \in [Accounts -> Nat]
    /\ velocityTtl \in [Accounts -> 0 .. VelocityWindow]
    /\ \A a \in Accounts : velocityTtl[a] > 0 => velocity[a] > 0
    /\ average \in [Accounts -> Versions \cup {None}]
    /\ averageTtl \in [Accounts -> 0 .. DeviationCacheTTL]
    /\ fetched \in [Analyses -> Versions \cup {None}]
    /\ tokens \in Int /\ tokens <= Burst
    /\ lastEvent \in Nat
    /\ act \in [Analyses -> Nat \cup {-1}]
    /\ deadline \in [Analyses -> 0 .. Client.timeout]
    /\ uncommitted \in [Accounts -> Versions \cup {None}]
    /\ committed \in [Accounts -> Versions]
    /\ versions \in [Accounts -> SUBSET Versions]
    /\ written \in [Accounts -> Versions]
    /\ counted \in [Analyses -> 0 .. VelocityWindow - 1 \cup {None}]
    /\ allowance \in Int /\ allowance <= AllowanceCap

\* Analyses of other accounts may have taken tokens before.
Init ==
    /\ cancelled = FALSE
    /\ shared \in BOOLEAN
    /\ stage = [x \in Analyses |-> "start"]
    /\ flag = [x \in Analyses |-> None]
    /\ velocity = [a \in Accounts |-> 0]
    /\ velocityTtl = [a \in Accounts |-> 0]
    /\ average = [a \in Accounts |-> None]
    /\ averageTtl = [a \in Accounts |-> 0]
    /\ fetched = [x \in Analyses |-> None]
    /\ tokens \in 0 .. Burst
    /\ lastEvent = 0
    /\ act = [x \in Analyses |-> -1]
    /\ deadline = [x \in Analyses |-> 0]
    /\ uncommitted = [a \in Accounts |-> None]
    /\ committed = [a \in Accounts |-> 0]
    /\ versions = [a \in Accounts |-> {0}]
    /\ written = [a \in Accounts |-> 0]
    /\ counted = [x \in Analyses |-> None]
    /\ allowance = tokens

-----------------------------------------------------------------------------
Goto(x, from, to) == stage[x] = from /\ stage' = [stage EXCEPT ![x] = to]

\* The status is sent on the channel and the WaitGroup released.
Answer(x, from, verdict) ==
    /\ Goto(x, from, "done")
    /\ flag' = [flag EXCEPT ![x] = verdict]

Works == ~cancelled
Fails == Faults \/ cancelled

AtMost(n, m) == IF n > m THEN m ELSE n

-----------------------------------------------------------------------------
(* Analyze. *)

\* The check of the context at the beginning.
Analyze(x) ==
    /\ \/ Works /\ Goto(x, "start", "velocity") /\ UNCHANGED flag
       \/ cancelled /\ Answer(x, "start", "unknown")
    /\ UNCHANGED <<cancelled, shared, fetched, act, deadline, counted, allowance, counter, cache, limiter, rows>>

\* Mutant of CountOrder: the TTL is rounded down to less than the window.
CountOrderShortWindow(x) ==
    LET a == AccountOf[x] IN
    /\ Works /\ Goto(x, "velocity", "deviation")
    /\ velocity' = [velocity EXCEPT ![a] = @ + 1]
    /\ velocityTtl' = [velocityTtl EXCEPT ![a] = VelocityWindow - 1]
    /\ counted' = [counted EXCEPT ![x] = 0]
    /\ UNCHANGED <<cancelled, shared, flag, fetched, act, deadline, allowance, cache, limiter, rows>>

\* computeVelocity: INCR and EXPIRE in one pipeline.  The order is judged on what
\* INCR returns, the new value of the counter.
CountOrder(x) ==
    LET a == AccountOf[x] IN
    /\ Works /\ Goto(x, "velocity", "deviation")
    /\ velocity' = [velocity EXCEPT ![a] = @ + 1]
    /\ velocityTtl' = [velocityTtl EXCEPT ![a] = VelocityWindow]
    /\ counted' = [counted EXCEPT ![x] = 0]
    /\ UNCHANGED <<cancelled, shared, flag, fetched, act, deadline, allowance, cache, limiter, rows>>

\* The pipeline returns an error: the order is judged on the fallback, 1, and
\* none, the first or both of the commands were executed.
CountFails(x) ==
    LET a == AccountOf[x]
        incr   == velocity' = [velocity EXCEPT ![a] = @ + 1]
        expire == /\ velocityTtl' = [velocityTtl EXCEPT ![a] = VelocityWindow]
                  /\ counted' = [counted EXCEPT ![x] = 0]
    IN /\ Fails /\ Goto(x, "velocity", "deviation")
       /\ \/ incr /\ expire
          \/ incr /\ UNCHANGED <<velocityTtl, counted>>
          \/ UNCHANGED <<velocity, velocityTtl, counted>>
       /\ UNCHANGED <<cancelled, shared, flag, fetched, act, deadline, allowance, cache, limiter, rows>>

ComputeVelocity(x) == CountOrder(x) \/ CountFails(x)

\* computeDeviation asks Redis.  An error is logged; the deviation is then 0.
GetAverage(x) ==
    /\ \/ Works /\ average[AccountOf[x]] # None /\ Goto(x, "deviation", "reserve")
       \/ Works /\ average[AccountOf[x]] = None /\ Goto(x, "deviation", "fetch")
       \/ Fails /\ Goto(x, "deviation", "reserve")
    /\ UNCHANGED <<cancelled, shared, flag, fetched, act, deadline, counted, allowance, counter, cache, limiter, rows>>

\* The calls whose payment may be waiting for them, in an open transaction.
Awaited == {x \in Analyses : stage[x] \notin {"start", "done"}}

\* A read is sure to find a connection.  Readers of their own are held by nobody
\* who waits; the shared pool is held by the transactions of awaited calls.
ReadConnFree == shared => Cardinality(Awaited) < MaxConns

\* After a miss the account is read.  FindByID has no deadline: it waits for a
\* connection until the context is cancelled.  (An awaited call may have lost its
\* payment, and with it the transaction, to a failed balance check, so that a
\* connection may be free that is not sure to be.)  The primary answers with the
\* committed average, a replica with any the row has had.
FetchAverage(x) ==
    /\ \/ /\ Works /\ Goto(x, "fetch", "refill")
          /\ \E v \in IF shared THEN {committed[AccountOf[x]]} ELSE versions[AccountOf[x]] :
                fetched' = [fetched EXCEPT ![x] = v]
       \/ Fails /\ Goto(x, "fetch", "reserve") /\ UNCHANGED fetched
    /\ UNCHANGED <<cancelled, shared, flag, act, deadline, counted, allowance, counter, cache, limiter, rows>>

\* Redis SET with a TTL; its error is ignored.
SetAverage(a, v) ==
    \/ /\ Works
       /\ average' = [average EXCEPT ![a] = v]
       /\ averageTtl' = [averageTtl EXCEPT ![a] = DeviationCacheTTL]
    \/ Fails /\ UNCHANGED cache

\* Mutant of Refill: the entry is cached without a TTL.
RefillForever(x) ==
    /\ Goto(x, "refill", "reserve")
    /\ average' = [average EXCEPT ![AccountOf[x]] = fetched[x]]
    /\ averageTtl' = [averageTtl EXCEPT ![AccountOf[x]] = 0]
    /\ fetched' = [fetched EXCEPT ![x] = None]
    /\ UNCHANGED <<cancelled, shared, flag, act, deadline, counted, allowance, counter, limiter, rows>>

\* The end of computeDeviation after a cache miss.
Refill(x) ==
    /\ Goto(x, "refill", "reserve")
    /\ SetAverage(AccountOf[x], fetched[x])
    /\ fetched' = [fetched EXCEPT ![x] = None]
    /\ UNCHANGED <<cancelled, shared, flag, act, deadline, counted, allowance, counter, limiter, rows>>

\* ReserveN(now, 1), which is OK since the burst is at least 1, and the
\* comparison of the delay with the longest wait.
Reserve(x) ==
    LET left  == tokens - 1
        delay == IF left < 0 THEN -left ELSE 0
    IN /\ \/ delay > MaxThrottleWait /\ Goto(x, "reserve", "throttled")
          \/ delay \in 1 .. MaxThrottleWait /\ Goto(x, "reserve", "wait")
          \/ delay = 0 /\ Goto(x, "reserve", "connect")
       /\ deadline' = [deadline EXCEPT ![x] = IF delay = 0 THEN Client.timeout ELSE 0]
       /\ tokens' = left
       /\ act' = [act EXCEPT ![x] = IF delay = 0 THEN -1 ELSE delay]
       /\ lastEvent' = delay
       /\ UNCHANGED <<cancelled, shared, flag, fetched, counted, allowance, counter, cache, rows>>

\* Mutant of CancelReservation: the token is given back without the limit.
CancelReservationUncapped(x) ==
    /\ tokens' = tokens + 1
    /\ UNCHANGED lastEvent

\* Reservation.Cancel: gives back the token unless its time has passed or a
\* later reservation was made.
CancelReservation(x) ==
    LET restore == 1 - (lastEvent - act[x]) IN
    \/ /\ act[x] < 0 \/ restore <= 0
       /\ UNCHANGED limiter
    \/ /\ act[x] >= 0 /\ restore > 0
       /\ tokens' = AtMost(tokens + restore, Burst)
       /\ lastEvent' = IF act[x] = lastEvent /\ act[x] >= 1 THEN act[x] - 1 ELSE lastEvent

\* The wait would be too long: cancel the reservation and fail fast.
Throttled(x) ==
    /\ Answer(x, "throttled", "unknown")
    /\ CancelReservation(x)
    /\ act' = [act EXCEPT ![x] = -1]
    /\ UNCHANGED <<cancelled, shared, fetched, deadline, counted, allowance, counter, cache, rows>>

\* Mutant of Waited: the timer is not awaited.
WaitedNot(x) ==
    /\ Goto(x, "wait", "connect")
    /\ act' = [act EXCEPT ![x] = -1]
    /\ deadline' = [deadline EXCEPT ![x] = Client.timeout]
    /\ UNCHANGED <<cancelled, shared, flag, fetched, counted, allowance, counter, cache, limiter, rows>>

\* The timer of a waiting call has fired.
Waited(x) ==
    /\ act[x] <= 0
    /\ Goto(x, "wait", "connect")
    /\ act' = [act EXCEPT ![x] = -1]
    /\ deadline' = [deadline EXCEPT ![x] = Client.timeout]
    /\ UNCHANGED <<cancelled, shared, flag, fetched, counted, allowance, counter, cache, limiter, rows>>

\* The context is cancelled during the wait.
WaitCancelled(x) ==
    /\ cancelled
    /\ Answer(x, "wait", "unknown")
    /\ CancelReservation(x)
    /\ act' = [act EXCEPT ![x] = -1]
    /\ UNCHANGED <<cancelled, shared, fetched, deadline, counted, allowance, counter, cache, rows>>

\* predict answers 200 with isFraud for any score, or with an error status.
Predictions == {"clean", "suspicious"}

\* A connection of the pool becomes free for the request, which is sent.
Connect(x) ==
    /\ Works
    /\ Cardinality({y \in Analyses : stage[y] = "call"}) < Client.conns
    /\ Goto(x, "connect", "call")
    /\ allowance' = allowance - 1
    /\ UNCHANGED <<cancelled, shared, flag, fetched, act, deadline, counted, counter, cache, limiter, rows>>

\* The service answers and the verdict is decoded.
CallML(x) ==
    /\ \E v \in Predictions : Answer(x, "call", v)
    /\ deadline' = [deadline EXCEPT ![x] = 0]
    /\ UNCHANGED <<cancelled, shared, fetched, act, counted, allowance, counter, cache, limiter, rows>>


\* The request ends without a verdict: its deadline, which covers the wait for
\* a connection, has passed, the context is cancelled, or there is an error, a
\* status other than 200 or a body that does not decode.
CallFails(x) ==
    /\ Fails \/ deadline[x] = 0
    /\ \E from \in {"connect", "call"} : Answer(x, from, "unknown")
    /\ deadline' = [deadline EXCEPT ![x] = 0]
    /\ UNCHANGED <<cancelled, shared, fetched, act, counted, allowance, counter, cache, limiter, rows>>

Step(x) ==
    \/ Analyze(x) \/ ComputeVelocity(x) \/ GetAverage(x) \/ Refill(x)
    \/ Reserve(x) \/ Throttled(x) \/ Waited(x) \/ WaitCancelled(x)
    \/ Connect(x)

\* The service may be silent, and errors need not happen.
CallEnds(x) == CallML(x) \/ CallFails(x)

-----------------------------------------------------------------------------
(* The payments of an account, one at a time: the UPDATE locks the row. *)

\* UpdateBalanceAvgCount: the UPDATE, then the new average is cached.
UpdateAverage(a) ==
    /\ uncommitted[a] = None
    /\ written[a] < MaxPayments
    /\ written' = [written EXCEPT ![a] = @ + 1]
    /\ uncommitted' = [uncommitted EXCEPT ![a] = written[a] + 1]
    /\ SetAverage(a, written[a] + 1)
    /\ UNCHANGED <<cancelled, shared, calls, counter, limiter, committed, versions>>

\* The deferred commit of the transaction.
CommitAverage(a) ==
    /\ uncommitted[a] # None /\ Works
    /\ committed' = [committed EXCEPT ![a] = uncommitted[a]]
    /\ versions' = [versions EXCEPT ![a] = @ \cup {uncommitted[a]}]
    /\ uncommitted' = [uncommitted EXCEPT ![a] = None]
    /\ UNCHANGED <<cancelled, shared, calls, counter, cache, limiter, written>>

\* The commit fails: the row keeps its average, the cache does not.
RollbackAverage(a) ==
    /\ uncommitted[a] # None /\ Fails
    /\ uncommitted' = [uncommitted EXCEPT ![a] = None]
    /\ UNCHANGED <<cancelled, shared, calls, counter, cache, limiter, committed, versions, written>>

-----------------------------------------------------------------------------
(* Time and shutdown. *)

Earlier(t) == IF t <= 0 THEN 0 ELSE t - 1

\* TTLs run down, expired keys disappear and the limiter gains a token.
Tick ==
    /\ velocity' = [a \in Accounts |-> IF velocityTtl[a] = 1 THEN 0 ELSE velocity[a]]
    /\ velocityTtl' = [a \in Accounts |-> Earlier(velocityTtl[a])]
    /\ average' = [a \in Accounts |-> IF averageTtl[a] = 1 THEN None ELSE average[a]]
    /\ averageTtl' = [a \in Accounts |-> Earlier(averageTtl[a])]
    /\ tokens' = AtMost(tokens + 1, Burst)
    /\ lastEvent' = Earlier(lastEvent)
    /\ act' = [x \in Analyses |-> IF act[x] < 0 THEN -1 ELSE act[x] - 1]
    /\ deadline' = [x \in Analyses |-> Earlier(deadline[x])]
    /\ counted' = [x \in Analyses |->
          IF counted[x] \in 0 .. VelocityWindow - 2 THEN counted[x] + 1 ELSE None]
    /\ allowance' = AtMost(allowance + 1, AllowanceCap)
    /\ UNCHANGED <<cancelled, shared, stage, flag, fetched, rows>>

Cancel ==
    /\ Cancels /\ ~cancelled
    /\ cancelled' = TRUE
    /\ UNCHANGED <<shared, calls, counter, cache, limiter, rows>>

Payment(a) == UpdateAverage(a) \/ CommitAverage(a) \/ RollbackAverage(a)

Next ==
    \/ \E x \in Analyses : Step(x) \/ FetchAverage(x) \/ CallEnds(x)
    \/ \E a \in Accounts : Payment(a)
    \/ Tick
    \/ Cancel

\* Goroutines keep running and time passes; payments need not arrive, the ML
\* service need not answer, so that only a deadline is certain to end a request,
\* and a read that finds no connection free waits for one.
Fairness ==
    /\ WF_vars(Tick)
    /\ \A x \in Analyses :
          /\ WF_vars(Step(x))
          /\ WF_vars((ReadConnFree \/ cancelled) /\ FetchAverage(x))
          /\ WF_vars((deadline[x] = 0 \/ cancelled) /\ CallFails(x))

Spec == Init /\ [][Next]_vars /\ Fairness

-----------------------------------------------------------------------------
(* Properties. *)

\* The orders of account a that Redis counted within the last VelocityWindow.
Recent(a) ==
    {x \in Analyses : AccountOf[x] = a /\ counted[x] # None}

\* An order whose pipeline answers is judged on a velocity no lower than the
\* orders of its account Redis counted within the last VelocityWindow, itself
\* and those whose own pipeline reported an error included: no failure, expired
\* key or other analysis makes the counter forget one.  It says nothing of an
\* order whose pipeline reports an error, which is judged on the fallback, 1; and
\* one that Redis did not count, or counted without the EXPIRE, need not be in
\* anybody's velocity.
JudgedOnWindow ==
    [][\A x \in Analyses : CountOrder(x) =>
          velocity'[AccountOf[x]] >= Cardinality(Recent(AccountOf[x])')]_vars

\* Since the start the pod has sent the ML service no more requests than the
\* burst and the rate allow, although throttled and cancelled calls give
\* their tokens back.
CallsWithinRate == allowance >= 0

\* Every connection of the shared pool may be held by a transaction that waits
\* for an analysis, and all analyses under way wait for a connection.
Starved ==
    /\ ~ReadConnFree
    /\ \A x \in Awaited : stage[x] = "fetch"


\* A cached average the row does not have, left by a failed commit or a stale
\* refill, does not last.
CacheHeals ==
    \A a \in Accounts :
        average[a] # committed[a] ~> average[a] \in {None, committed[a]}
=============================================================================
