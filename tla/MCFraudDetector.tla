--------------------------- MODULE MCFraudDetector ---------------------------
(* Instances of FraudDetector: all payments are of one account.             *)
EXTENDS FraudDetector

CONSTANT a1

MCAccountOf == [x \in Analyses |-> a1]
=============================================================================
