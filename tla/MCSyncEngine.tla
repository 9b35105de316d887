---------------------------- MODULE MCSyncEngine ----------------------------
(* Two tabs of one account and two edits.                                  *)
EXTENDS SyncEngine

CONSTANTS t1, t2, e1, e2
=============================================================================
