--------------------------- MODULE MCCalendarAccess ---------------------------
(* CalendarAccess on small instances; the requests of a kind, the logins   *)
(* and the tokens are interchangeable.                                     *)
EXTENDS CalendarAccess, TLC

Symmetry == Permutations(Login) \cup Permutations(Callback) \cup Permutations(Grant)
=============================================================================
