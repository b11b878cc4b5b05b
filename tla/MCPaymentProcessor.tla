------------------------- MODULE MCPaymentProcessor -------------------------
(* Instances of PaymentProcessor: orders of different amounts on one account *)
(* that cannot pay for them all.                                             *)
EXTENDS PaymentProcessor, TLC

CONSTANTS o1, o2, a1

MCAccountOf == [o \in Orders |-> a1]

MCAmount == [o \in Orders |-> IF o = o1 THEN 1 ELSE 2]
MCInitialBalance == [a \in Accounts |-> 4]

Symmetry == Permutations(Procs)
=============================================================================
