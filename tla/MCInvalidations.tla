--------------------------- MODULE MCInvalidations ---------------------------
(* One page, whose account and another one change. With one socket per     *)
(* user, a connection that was left behind blocks the next one.             *)
EXTENDS Invalidations

CONSTANTS o1, o2, t1

TabOwner == [t \in {t1} |-> o1]
=============================================================================
