----------------------------- MODULE MCTenancy -----------------------------
(* Two accounts that compete for an engagement, two web requests that share *)
(* a pool of two connections, and a revoker with one.                       *)
EXTENDS Tenancy, TLC

TenancySymmetry ==
    Permutations(Users) \cup Permutations(Requests) \cup Permutations(Pool)
=============================================================================
