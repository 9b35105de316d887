----------------------------- MODULE SyncService -----------------------------
(***************************************************************************)
(* What POST /api/v1/sync/mutations promises, with every request applied   *)
(* in one step: the tables sync_clock, sync_record, sync_change and        *)
(* sync_receipt of one account, and apply_mutation on them.  SyncTxn       *)
(* models the same handler statement by statement and implements this.     *)
(***************************************************************************)
EXTENDS SyncProtocol

CONSTANT Mutations   \* the requests that clients may send

ASSUME MutationsAssumption == Mutations \subseteq Mutation

VARIABLES
    clock,     \* sync_clock.cursor; a missing row reads as 0
    records,   \* sync_record: [Keys -> Record or None]
    changes,   \* sync_change: a set of rows
    receipts,  \* sync_receipt: [Clients \X MutationIds -> Receipt or None]
    outcomes   \* history: every (request, result) the service has decided

tables == <<clock, records, changes, receipts>>
serviceVars == <<clock, records, changes, receipts, outcomes>>

ReceiptFor(m) == receipts[<<m.client, m.id>>]
Fresh(m) == ReceiptFor(m) = None
Entry(m, result) == [request |-> m, result |-> result]

TypeOK ==
    /\ clock \in Nat
    /\ records \in [Keys -> Record \cup {None}]
    /\ changes \subseteq Change
    /\ receipts \in [Clients \X MutationIds -> Receipt \cup {None}]
    /\ outcomes \subseteq Receipt

Init ==
    /\ clock = 0
    /\ records = [k \in Keys |-> None]
    /\ changes = {}
    /\ receipts = [p \in Clients \X MutationIds |-> None]
    /\ outcomes = {}

\* Mutant of Settle: the receipt is not stored.
SettleUnrecorded(m, result) ==
    /\ outcomes' = outcomes \cup {Entry(m, result)}
    /\ UNCHANGED receipts

\* store_receipt, and the answer that goes back.
Settle(m, result) ==
    /\ receipts' = [receipts EXCEPT ![<<m.client, m.id>>] = Entry(m, result)]
    /\ outcomes' = outcomes \cup {Entry(m, result)}

\* Mutant of Replay: the answer is computed again.
ReplayRecomputed(m) ==
    /\ ~Fresh(m)
    /\ ReceiptFor(m).request = m
    /\ outcomes' = outcomes \cup {Entry(m, Answer(m, records[m.key]))}
    /\ UNCHANGED tables

\* The same request again: the stored answer.
Replay(m) ==
    /\ ~Fresh(m)
    /\ ReceiptFor(m).request = m
    /\ outcomes' = outcomes \cup {Entry(m, ReceiptFor(m).result)}
    /\ UNCHANGED tables

\* Mutant of RefuseReuse: the refusal replaces the receipt.
RefuseReuseOverwriting(m) ==
    /\ ~Fresh(m)
    /\ ReceiptFor(m).request # m
    /\ Settle(m, Reused)
    /\ UNCHANGED <<clock, records, changes>>

\* A known mutation id with other content.
RefuseReuse(m) ==
    /\ ~Fresh(m)
    /\ ReceiptFor(m).request # m
    /\ outcomes' = outcomes \cup {Entry(m, Reused)}
    /\ UNCHANGED tables

RefuseInvalid(m) ==
    /\ Fresh(m)
    /\ ~Valid(m)
    /\ Settle(m, Invalid)
    /\ UNCHANGED <<clock, records, changes>>

\* The Gone and Conflict arms.
Refuse(m) ==
    /\ Fresh(m)
    /\ Valid(m)
    /\ ~Applies(m, records[m.key])
    /\ Settle(m, Answer(m, records[m.key]))
    /\ UNCHANGED <<clock, records, changes>>

\* Mutants of LogRow: the cursor is read before it is advanced; a deletion
\* is logged as an ordinary change.
LogRowBeforeAdvance(m) ==
    [cursor   |-> clock,
     snapshot |-> Snap(m.key, After(m, records[m.key]))]

LogRowUndeleted(m) ==
    [cursor   |-> clock + 1,
     snapshot |-> Snap(m.key, [After(m, records[m.key]) EXCEPT !.deleted = FALSE])]

\* write_change.
LogRow(m) ==
    [cursor   |-> clock + 1,
     snapshot |-> Snap(m.key, After(m, records[m.key]))]

\* The two arms that write the record and append to the change log.
Apply(m) ==
    /\ Fresh(m)
    /\ Valid(m)
    /\ Applies(m, records[m.key])
    /\ clock' = clock + 1
    /\ records' = [records EXCEPT ![m.key] = After(m, records[m.key])]
    /\ changes' = changes \cup {LogRow(m)}
    /\ Settle(m, Answer(m, records[m.key]))

Push(m) ==
    \/ Replay(m)
    \/ RefuseReuse(m)
    \/ RefuseInvalid(m)
    \/ Refuse(m)
    \/ Apply(m)

Next == \E m \in Mutations : Push(m)

Spec == Init /\ [][Next]_serviceVars

-----------------------------------------------------------------------------
(* What the service promises.                                              *)

\* The log has one row for every cursor up to the clock, and none beyond:
\* a reader that has seen position p has nothing left to see below p
\* (service.rs: "a commit-ordered cursor").
LogIsDense ==
    /\ \A row \in changes : row.cursor <= clock
    /\ \A c \in 1..clock : \E row \in changes : row.cursor = c
    /\ \A r1, r2 \in changes : r1.cursor = r2.cursor => r1 = r2

\* Along the cursor, the versions of one record are strictly increasing,
\* and nothing follows its tombstone.
VersionsFollowCursor ==
    \A r1, r2 \in changes :
        /\ r1.snapshot.key = r2.snapshot.key
        /\ r1.cursor < r2.cursor
        => /\ r1.snapshot.version < r2.snapshot.version
           /\ ~r1.snapshot.deleted

\* A stored record is what the last change of its key says, so that a
\* reader of the log ends up with the tables' contents.
RecordIsLastChange ==
    \A k \in Keys :
        IF records[k] = None
        THEN \A row \in changes : row.snapshot.key # k
        ELSE /\ \E row \in changes : row.snapshot = Snap(k, records[k])
             /\ \A row \in changes :
                    row.snapshot.key = k =>
                    row.snapshot.version <= records[k].version

\* Exactly once: applied receipts and log rows are in bijection, so that no
\* retry, duplicate or reordering of a request applies it twice and no row
\* exists that no client was promised.
AppliedExactlyOnce ==
    LET applied == {p \in Clients \X MutationIds :
                      receipts[p] # None /\ receipts[p].result.status = "applied"}
    IN  /\ \A p \in applied :
              \E row \in changes : row.snapshot = receipts[p].result.record
        /\ \A row \in changes :
              \E p \in applied : row.snapshot = receipts[p].result.record
        /\ \A p, q \in applied :
              receipts[p].result.record = receipts[q].result.record => p = q

\* Two answers to one request never differ, however often it is retried and
\* whatever else happened in between.
AnswersAgree ==
    \A o1, o2 \in outcomes : o1.request = o2.request => o1.result = o2.result

\* No step rewrites history: a receipt, a log row and a tombstone stay, and
\* a version never goes back ("deleted record IDs cannot be reused").
HistoryIsKept ==
    [][/\ changes \subseteq changes'
       /\ \A p \in Clients \X MutationIds :
             receipts[p] # None => receipts'[p] = receipts[p]
       /\ \A k \in Keys :
             records[k] # None =>
                /\ records'[k] # None
                /\ records'[k].version >= records[k].version
                /\ records[k].deleted => records'[k] = records[k]]_serviceVars
=============================================================================
