----------------------------- MODULE MCTaskQueue -----------------------------
(* TLC instances of TaskQueue. *)
EXTENDS TaskQueue, TLC

Symmetry ==
    Permutations(Node) \cup Permutations(Task)
        \cup Permutations(Msg \ BadMsg) \cup Permutations(Handler)
=============================================================================
