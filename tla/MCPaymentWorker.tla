--------------------------- MODULE MCPaymentWorker ---------------------------
(* Instances of PaymentWorker: two orders on one account and a third whose  *)
(* message is unreadable.                                                    *)
EXTENDS PaymentWorker, Backoff, TLC

CONSTANTS o1, o2, o3, a1

MCAccountOf == [o \in Orders |-> a1]
MCAmount == [o \in Orders |-> IF o = o1 THEN 1 ELSE 2]
MCInitialBalance == [a \in Accounts |-> 2]

\* The backoff over bounded inputs, with 100 in the role of the largest number.
ASSUME BackoffChecked ==
    \A base \in 4 .. 5, max \in {1, 7, 40, 90} :
        /\ \A count \in Counts : Sound(count, base, max, 100)
        /\ \A count \in Counts \ {5} : Grows(count, base, max)

Symmetry == Permutations(OrderProcs) \cup Permutations(RetryProcs)
=============================================================================
