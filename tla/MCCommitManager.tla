--------------------------- MODULE MCCommitManager ---------------------------
(* Instances of CommitManager for TLC.  Workers and slots are anonymous.     *)
EXTENDS CommitManager, TLC

Symmetry == Permutations(Workers) \cup Permutations(Slots)
=============================================================================
