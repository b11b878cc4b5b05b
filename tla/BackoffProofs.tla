---------------------------- MODULE BackoffProofs ----------------------------
(* The backoff is sound and never shrinks, for every configuration.          *)
EXTENDS Backoff, TLAPS

\* The base delay for each of the counts.
LEMMA BaseDelays ==
    ASSUME NEW base \in Nat
    PROVE  /\ BaseDelay(1, base) = base
           /\ BaseDelay(2, base) = 2 * base
           /\ BaseDelay(3, base) = 4 * base
           /\ BaseDelay(4, base) = 8 * base
           /\ BaseDelay(5, base) = 16 * base
  BY DEF BaseDelay

\* For every base delay from 4ns up to 1/18 of the largest duration and every
\* count the configuration admits, Int63n does not panic, nothing overflows
\* and the delay is positive and within the cap.
THEOREM BackoffSound ==
    ASSUME NEW base \in Nat, base >= 4,
           NEW max \in Nat, max > 0,
           NEW maxInt \in Nat, 18 * base <= maxInt,
           NEW count \in Counts
    PROVE  Sound(count, base, max, maxInt)
<1> DEFINE b == BaseDelay(count, base)
<1>1. b \in Nat /\ b >= 4 /\ b <= 16 * base
  BY BaseDelays DEF Counts
<1>2. JitterBound(count, base) = b \div 4
  BY DEF JitterBound
<1> HIDE DEF b
<1>3. b \div 4 \in Nat /\ b \div 8 \in Nat /\ b \div 4 > 0
      /\ 4 * (b \div 4) <= b /\ 8 * (b \div 8) <= b
  BY <1>1
<1>4. ASSUME NEW j \in Jitters(count, base)
      PROVE  j \in Int /\ b + j >= 1 /\ b + j <= maxInt
  <2>1. PICK r \in 0 .. (b \div 4) - 1 : j = r - b \div 8
    BY <1>2, <1>4 DEF Jitters, b
  <2>2. j \in Int /\ j <= b \div 4 /\ j >= -(b \div 8)
    BY <1>3, <2>1
  <2>3. b + j >= 1
    BY <1>1, <1>3, <2>2
  <2>4. b + j <= b + b \div 4 - b \div 8
    BY <1>1, <1>3, <2>1
  <2>5. b \div 4 - b \div 8 <= b \div 8 + 1
    BY <1>1
  <2>6. b + j <= maxInt
    BY <1>1, <1>3, <2>2, <2>4, <2>5
  <2> QED BY <2>2, <2>3, <2>6
<1>5. ASSUME NEW d \in Delays(count, base, max)
      PROVE  d \in 1 .. max
  <2>1. PICK j \in Jitters(count, base) : d = Capped(b + j, max)
    BY <1>5 DEF Delays, b
  <2> QED BY <1>1, <1>4, <2>1 DEF Capped
<1>6. b <= maxInt
  BY <1>1
<1> QED BY <1>2, <1>3, <1>4, <1>5, <1>6 DEF Sound, b

\* For every base delay and cap the backoffs of a job never shrink.
THEOREM BackoffGrows ==
    ASSUME NEW base \in Nat, NEW max \in Nat, NEW count \in 1 .. 4
    PROVE  Grows(count, base, max)
<1> DEFINE b == BaseDelay(count, base)
           c == BaseDelay(count + 1, base)
<1>1. b \in Nat /\ c = 2 * b
  BY BaseDelays
<1> HIDE DEF b, c
<1>2. SUFFICES ASSUME NEW d \in Delays(count, base, max),
                      NEW e \in Delays(count + 1, base, max)
               PROVE  d <= e
  BY DEF Grows
<1>3. PICK j \in Jitters(count, base) : d = Capped(b + j, max)
  BY DEF Delays, b
<1>4. PICK k \in Jitters(count + 1, base) : e = Capped(c + k, max)
  BY DEF Delays, c
<1>5. PICK r \in 0 .. (b \div 4) - 1 : j = r - b \div 8
  BY DEF Jitters, JitterBound, b
<1>6. PICK s \in 0 .. (c \div 4) - 1 : k = s - c \div 8
  BY DEF Jitters, JitterBound, c
<1>7. b + j <= c + k
  <2>1. b + j <= b + b \div 4 - b \div 8 - 1 /\ b + j \in Int
    BY <1>1, <1>5
  <2>2. c + k >= c - c \div 8 /\ c + k \in Int
    BY <1>1, <1>6
  <2>3. b + b \div 4 - b \div 8 - 1 <= 2 * b - (2 * b) \div 8
    BY <1>1
  <2> QED BY <1>1, <2>1, <2>2, <2>3
<1> QED BY <1>1, <1>3, <1>4, <1>5, <1>6, <1>7 DEF Capped
=============================================================================
