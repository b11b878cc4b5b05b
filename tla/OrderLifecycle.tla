--------------------------- MODULE OrderLifecycle ---------------------------
(***************************************************************************)
(* What the payment worker promises about an order, without saying how: it *)
(* may be marked for retry any number of times, is settled at most once,   *)
(* debits its account exactly when it is settled successfully, and, for    *)
(* every order whose message is readable, is settled in the end.           *)
(***************************************************************************)
EXTENDS Naturals

CONSTANTS Orders, Readable

VARIABLES status, paid

vars == <<status, paid>>

Open(o) == status[o] \in {"pending", "retrying"}

Init ==
    /\ status = [o \in Orders |-> "pending"]
    /\ paid = [o \in Orders |-> 0]

MarkRetrying(o) ==
    /\ Open(o)
    /\ status' = [status EXCEPT ![o] = "retrying"]
    /\ UNCHANGED paid

SettleSuccess(o) ==
    /\ Open(o)
    /\ status' = [status EXCEPT ![o] = "success"]
    /\ paid' = [paid EXCEPT ![o] = @ + 1]

SettleFailed(o) ==
    /\ Open(o)
    /\ status' = [status EXCEPT ![o] = "failed"]
    /\ UNCHANGED paid

Settle(o) == SettleSuccess(o) \/ SettleFailed(o)

Next == \E o \in Orders : MarkRetrying(o) \/ Settle(o)

Safety == Init /\ [][Next]_vars

Spec == Safety /\ \A o \in Readable : WF_vars(Settle(o))
=============================================================================
