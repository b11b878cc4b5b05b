------------------------------- MODULE Backoff -------------------------------
(***************************************************************************)
(* CalculateExponentialBackoffWithJitter (backoff.go): the delays the      *)
(* retry channel handler may give the retry number count of a job.  The    *)
(* configuration admits at most five retries (config.go, MaxRetryCount),   *)
(* so count is one of 1 .. 5.  Durations are positive, for which Go's      *)
(* division and \div agree.                                                *)
(***************************************************************************)
EXTENDS Integers, Sequences

Counts == 1 .. 5

\* base * 2^(count - 1)
BaseDelay(count, base) == base * <<1, 2, 4, 8, 16>>[count]

\* The argument of rand.Int63n, which panics unless it is positive.
JitterBound(count, base) == BaseDelay(count, base) \div 4

Jitters(count, base) ==
    {r - BaseDelay(count, base) \div 8 : r \in 0 .. JitterBound(count, base) - 1}

Capped(delay, max) == IF delay > max THEN max ELSE delay

Delays(count, base, max) ==
    {Capped(BaseDelay(count, base) + j, max) : j \in Jitters(count, base)}

-----------------------------------------------------------------------------

\* A retry never waits less than the one before it, however the dice fall: the
\* jitter is smaller than the doubling, and the cap keeps the order.
Grows(count, base, max) ==
    \A d \in Delays(count, base, max), e \in Delays(count + 1, base, max) : d <= e

\* Every delay is positive, within the cap, and computed without overflow of a
\* number of at most maxInt.
Sound(count, base, max, maxInt) ==
    /\ JitterBound(count, base) > 0
    /\ BaseDelay(count, base) <= maxInt
    /\ \A j \in Jitters(count, base) : BaseDelay(count, base) + j <= maxInt
    /\ \A d \in Delays(count, base, max) : d \in 1 .. max
=============================================================================
