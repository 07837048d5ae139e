------------------------------ MODULE MCSyncUser ------------------------------
(* TLC instances of SyncUser. *)
EXTENDS SyncUser, TLC

Symmetry ==
    Permutations(Run) \cup Permutations(Platform) \cup Permutations(Cal)
=============================================================================
