---------------------------- MODULE MCSyncService ----------------------------
(* A small account: two clients race on one record and share another.       *)
EXTENDS SyncService, TLC

CONSTANTS c1, c2, i1, i2, k1, k2, n1, n2, big

Put(c, i, k, b, n) ==
    [client |-> c, id |-> i, key |-> k, action |-> "put", base |-> b, value |-> n]
Del(c, i, k, b, n) ==
    [client |-> c, id |-> i, key |-> k, action |-> "delete", base |-> b, value |-> n]

\* Creations, updates and deletions by both clients, a mutation id reused
\* with other content, a stale base, an oversized note and a malformed
\* deletion.
SmallMutations ==
    {Put(c1, i1, k1, None, n1), Put(c1, i2, k1, 1, n2), Put(c1, i2, k1, 1, n1),
     Del(c1, "i3", k1, 2, None), Put(c2, i1, k1, None, n2),
     Del(c2, i2, k1, 1, None), Put(c2, "i3", k1, 2, n1),
     Put(c1, "i4", k2, None, big), Del(c2, "i4", k2, None, None),
     Del(c2, "i5", k2, None, n1), Put(c2, "i6", k2, None, n1)}

SmallIds == {i1, i2, "i3", "i4", "i5", "i6"}
=============================================================================
