---------------------------- MODULE MCOrderSeeder ----------------------------
(* Three users in pages of two, and more orders than the channel holds. *)
EXTENDS OrderSeeder

CONSTANTS w1, w2

MCWorkers == {w1, w2}
=============================================================================
