--------------------------- MODULE MCPaymentSystem ---------------------------
(* Two requests of a patient client with one key and two that race with      *)
(* another.                                                                  *)
EXTENDS PaymentSystem

CONSTANTS r1, r2, r3, r4, k1, k2

MCKeyOf == [r \in Requests |-> IF r \in {r1, r2} THEN k1 ELSE k2]
=============================================================================
