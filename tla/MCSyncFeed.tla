------------------------------ MODULE MCSyncFeed ------------------------------
(* A history of one record (created, updated, deleted) and of a second one, *)
(* read in pages of one and two rows.                                       *)
EXTENDS SyncFeed, TLC

CONSTANTS c1, k1, k2, n1, n2

Put(i, k, b, n) ==
    [client |-> c1, id |-> i, key |-> k, action |-> "put", base |-> b, value |-> n]

FeedMutations ==
    {Put("i1", k1, None, n1), Put("i2", k1, 1, n2),
     [Put("i3", k1, 2, None) EXCEPT !.action = "delete"], Put("i4", k2, None, n1)}

FeedIds == {m.id : m \in FeedMutations}
=============================================================================
