------------------------------ MODULE MCSyncTxn ------------------------------
(* Two concurrent requests: a client that creates and then updates a note   *)
(* in one batch, its retry, and a second client that deletes the note or    *)
(* reuses a mutation id.                                                    *)
EXTENDS SyncTxn, TLC

CONSTANTS c1, c2, k1, n1, n2

Put(c, i, b, n) ==
    [client |-> c, id |-> i, key |-> k1, action |-> "put", base |-> b, value |-> n]
Del(c, i, b) == [Put(c, i, b, None) EXCEPT !.action = "delete"]

Create == Put(c1, "i1", None, n1)
Update == Put(c1, "i2", 1, n2)
Other  == Put(c1, "i2", 1, n1)     \* reuses i2
Bare   == Put(c2, "i1", None, None) \* lacks its value
Remove == Del(c2, "i2", 1)

TxnMutations == {Create, Update, Other, Bare, Remove}
TxnBatches == {<<Create, Update>>, <<Other>>, <<Bare, Remove>>}
TxnIds == {"i1", "i2"}
HandlerSymmetry == Permutations(Handlers)
=============================================================================
