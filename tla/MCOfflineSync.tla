----------------------------- MODULE MCOfflineSync -----------------------------
(* One note, edited by this browser profile and by another device that      *)
(* updates its first version.                                               *)
EXTENDS OfflineSync, TLC

CONSTANTS me, other, k1, mine, theirs

Update == [client |-> other, id |-> 1, key |-> k1, action |-> "put",
           base |-> 1, value |-> theirs]
OnlyUpdate == {Update}
TabSymmetry == Permutations(Tabs)
Ids == 1..(2 * MaxEdits)
=============================================================================
