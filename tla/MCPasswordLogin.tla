-------------------------- MODULE MCPasswordLogin --------------------------
(* Two logins at a time over three accounts, of which two fit the limiter. *)
EXTENDS PasswordLogin, TLC

LoginSymmetry == Permutations(Logins) \cup Permutations(Accounts)
=============================================================================
