---------------------------- MODULE AtLeastOnce ----------------------------
(***************************************************************************)
(* What the task queue promises the publisher of a task: an accepted task  *)
(* stays queued until it is resolved (its handler succeeded, its last      *)
(* retry failed, or a retry was sent where no broker listens), and it may  *)
(* be delivered again after that.                                          *)
(***************************************************************************)
CONSTANT Task

VARIABLES accepted, queued, resolved

avars == <<accepted, queued, resolved>>

AInit == accepted = {} /\ queued = {} /\ resolved = {}

Accept(t) ==
    /\ t \notin accepted
    /\ accepted' = accepted \cup {t}
    /\ queued' = queued \cup {t}
    /\ UNCHANGED resolved

Resolve(t) ==
    /\ t \in accepted
    /\ resolved' = resolved \cup {t}
    /\ UNCHANGED <<accepted, queued>>

Retire(t) ==
    /\ t \in resolved
    /\ queued' = queued \ {t}
    /\ UNCHANGED <<accepted, resolved>>

Redeliver(t) ==
    /\ t \in resolved
    /\ queued' = queued \cup {t}
    /\ UNCHANGED <<accepted, resolved>>

ANext == \E t \in Task : Accept(t) \/ Resolve(t) \/ Retire(t) \/ Redeliver(t)

ASpec == AInit /\ [][ANext]_avars
=============================================================================
