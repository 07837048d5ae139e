---------------------------- MODULE BoundedMutex ----------------------------
(***************************************************************************)
(* What a lock with a time to live promises its users: a run enters only   *)
(* if the runs inside are no more than the leases lost so far, so with no  *)
(* lost lease it enters alone.  A lease is lost when it ends under a run   *)
(* that is still inside; a run may leave at any time.                      *)
(***************************************************************************)
EXTENDS Naturals, FiniteSets

CONSTANT Run

VARIABLES inside, lost

bvars == <<inside, lost>>

BInit == inside = {} /\ lost = 0

Enter(r) ==
    /\ r \notin inside /\ Cardinality(inside) <= lost
    /\ inside' = inside \cup {r}
    /\ UNCHANGED lost

Leave(r) ==
    /\ r \in inside
    /\ inside' = inside \ {r}
    /\ UNCHANGED lost

Lose(r) ==
    /\ r \in inside
    /\ lost' = lost + 1
    /\ UNCHANGED inside

BNext == \E r \in Run : Enter(r) \/ Leave(r) \/ Lose(r)

BSpec == BInit /\ [][BNext]_bvars
=============================================================================
