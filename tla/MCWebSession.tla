---------------------------- MODULE MCWebSession ----------------------------
(* Two web requests and a revoker over one session.  They are model values, *)
(* but not a symmetry set, as the run checks liveness.                      *)
EXTENDS WebSession
=============================================================================
