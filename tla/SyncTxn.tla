------------------------------ MODULE SyncTxn ------------------------------
(***************************************************************************)
(* The handlers of src/src/sync/service.rs, one database statement per     *)
(* step, under READ COMMITTED (the transactions set no isolation level).   *)
(* push_mutations runs one transaction per operation of the batch;         *)
(* apply_mutation locks the clock row, reads the receipt and the record,   *)
(* stages its writes and commits.  pull_changes reads the clock and the    *)
(* rows in two statements.  A handler may fail at any step, which rolls    *)
(* its transaction back, and it may die after the commit, before anyone    *)
(* hears of it.                                                            *)
(*                                                                         *)
(* The variables of SyncService hold what is committed, and the devices    *)
(* take the steps of SyncFeed, which this module implements: a mutation    *)
(* takes effect when its transaction commits, and the content of a page    *)
(* is settled when the clock is read.                                      *)
(***************************************************************************)
EXTENDS SyncFeed, Sequences

CONSTANTS
    Batches,    \* the non-empty sequences of mutations sent in one body
    Handlers    \* concurrent mutation requests, on any replica

ASSUME TxnAssumption ==
    /\ \A b \in Batches : b \in Seq(Mutations) /\ b # << >>
    /\ None \notin Handlers
    /\ None \notin [record : Record, cursor : Version]
    /\ None \notin [high : Nat, last : Nat]

VARIABLES
    lock,      \* the handler whose transaction locks the clock row, or None
    handler,   \* [Handlers -> the state of a request]
    reading,   \* [Devices -> a pull between its two statements, or None]
    notified,  \* cursors of the NOTIFY messages PostgreSQL has released
    hinted     \* cursors given to the local broadcast channel

txnVars == <<feedVars, lock, handler, reading, notified, hinted>>

\* An idle handler, and one that starts the transaction of its first
\* outstanding operation.
Idle == [pc |-> "idle", todo |-> << >>, results |-> << >>]
Beginning(todo, results) == [pc |-> "begin", todo |-> todo, results |-> results]

At(h, label) == handler[h].pc = label
Current(h) == Head(handler[h].todo)

Goto(h, label) == [handler[h] EXCEPT !.pc = label]

\* Mutant of Staged: no receipt is staged.
StagedUnrecorded(h, result, store, write) ==
    [pc |-> "commit", todo |-> handler[h].todo, results |-> handler[h].results,
     result |-> result, store |-> FALSE, write |-> write]

\* A transaction ready to commit: its answer, whether a receipt is staged,
\* and the change staged with it (None if it changes no record).
Staged(h, result, store, write) ==
    [pc |-> "commit", todo |-> handler[h].todo, results |-> handler[h].results,
     result |-> result, store |-> store, write |-> write]

TxnInit ==
    /\ FeedInit
    /\ lock = None
    /\ handler = [h \in Handlers |-> Idle]
    /\ reading = [d \in Devices |-> None]
    /\ notified = {}
    /\ hinted = {}

Local(h, state) ==
    /\ handler' = [handler EXCEPT ![h] = state]
    /\ UNCHANGED <<feedVars, reading, notified, hinted>>

\* A batch arrives (again, if the client retries it).
Receive(h, batch) ==
    /\ At(h, "idle")
    /\ Local(h, Beginning(batch, << >>))
    /\ UNCHANGED lock

\* INSERT ... ON CONFLICT DO NOTHING, then SELECT ... FOR UPDATE on the
\* clock row: waits for the transaction that holds it.
LockClock(h) ==
    /\ At(h, "begin")
    /\ lock = None
    /\ lock' = h
    /\ Local(h, [pc |-> "locked", todo |-> handler[h].todo,
                 results |-> handler[h].results, clock |-> clock])

\* The receipt lookup, and the two early returns behind it.
ReadReceipt(h) ==
    LET m == Current(h)
    IN  /\ At(h, "locked")
        /\ Local(h,
             IF Fresh(m)
             THEN IF Valid(m)
                  THEN Goto(h, "admitted")
                  ELSE Staged(h, Invalid, TRUE, None)
             ELSE Staged(h, IF ReceiptFor(m).request = m THEN ReceiptFor(m).result ELSE Reused,
                         FALSE, None))
        /\ UNCHANGED lock

\* SELECT ... FOR UPDATE of the record, the match, and the staged writes:
\* record, clock, change, NOTIFY and receipt.
ReadRecord(h) ==
    LET m == Current(h)
        stored == records[m.key]
    IN  /\ At(h, "admitted")
        /\ Local(h, Staged(h, Answer(m, stored), TRUE,
                       IF Applies(m, stored)
                       THEN [record |-> After(m, stored),
                             cursor |-> handler[h].clock + 1]
                       ELSE None))
        /\ UNCHANGED lock

Commit(h) ==
    LET m == Current(h)
        s == handler[h]
    IN  /\ At(h, "commit")
        /\ lock' = None
        /\ receipts' = IF s.store
                       THEN [receipts EXCEPT ![<<m.client, m.id>>] =
                                Entry(m, s.result)]
                       ELSE receipts
        /\ outcomes' = outcomes \cup {Entry(m, s.result)}
        /\ IF s.write = None
           THEN UNCHANGED <<clock, records, changes, notified>>
           ELSE /\ clock' = s.write.cursor
                /\ records' = [records EXCEPT ![m.key] = s.write.record]
                /\ changes' = changes \cup
                      {[cursor   |-> s.write.cursor,
                        snapshot |-> Snap(m.key, s.write.record)]}
                /\ notified' = notified \cup {s.write.cursor}
        /\ handler' = [handler EXCEPT ![h] =
              [pc |-> "committed", todo |-> Tail(s.todo),
               results |-> Append(s.results, Entry(m, s.result)),
               hint |-> IF s.write = None THEN {} ELSE {s.write.cursor}]]
        /\ UNCHANGED <<deviceVars, reading, hinted>>

\* hub.invalidate, then the next operation of the batch or the response.
Continue(h) ==
    LET s == handler[h]
    IN  /\ At(h, "committed")
        /\ hinted' = hinted \cup s.hint
        /\ handler' = [handler EXCEPT ![h] =
                          IF s.todo = << >> THEN Goto(h, "reply")
                          ELSE Beginning(s.todo, s.results)]
        /\ UNCHANGED <<feedVars, lock, reading, notified>>

\* The response leaves; what happens to it is the client's concern.
Respond(h) ==
    /\ At(h, "reply")
    /\ Local(h, Idle)
    /\ UNCHANGED lock

\* Mutant of Fail: a failing commit is hinted.
FailHinting(h) ==
    /\ ~At(h, "idle")
    /\ lock' = IF lock = h THEN None ELSE lock
    /\ handler' = [handler EXCEPT ![h] = Idle]
    /\ hinted' = IF At(h, "commit") /\ handler[h].write # None
                 THEN hinted \cup {handler[h].write.cursor}
                 ELSE hinted
    /\ UNCHANGED <<feedVars, reading, notified>>

\* A database error, a dropped connection or a dead process: an open
\* transaction rolls back, the rest of the batch is not attempted, and the
\* client hears of none of the results.
Fail(h) ==
    /\ ~At(h, "idle")
    /\ lock' = IF lock = h THEN None ELSE lock
    /\ Local(h, Idle)

\* The first statement of pull_changes. The size at which the page will
\* end is settled here, as the rows of its window never change.
PullClock(d) ==
    LET high == HighWater(cursor[d], clock)
    IN  /\ page[d] = None
        /\ reading[d] = None
        /\ \E last \in PageEnds(cursor[d], high, changes) :
              reading' = [reading EXCEPT ![d] = [high |-> high, last |-> last]]
        /\ UNCHANGED <<feedVars, lock, handler, notified, hinted>>

\* Mutant of PullRows: the rows are read without the high water.
PullRowsToNow(d) ==
    /\ reading[d] # None
    /\ page' = [page EXCEPT ![d] = PageUpTo(cursor[d], clock, changes, clock)]
    /\ reading' = [reading EXCEPT ![d] = None]
    /\ UNCHANGED <<serviceVars, cursor, confirmed, lock, handler, notified, hinted>>

\* The second: the rows, as committed by now.
PullRows(d) ==
    /\ reading[d] # None
    /\ page' = [page EXCEPT ![d] =
          PageUpTo(cursor[d], reading[d].high, changes, reading[d].last)]
    /\ reading' = [reading EXCEPT ![d] = None]
    /\ UNCHANGED <<serviceVars, cursor, confirmed, lock, handler, notified, hinted>>

\* The pull request dies between its statements.
PullFails(d) ==
    /\ reading[d] # None
    /\ reading' = [reading EXCEPT ![d] = None]
    /\ UNCHANGED <<feedVars, lock, handler, notified, hinted>>

\* What the device does with an answer, as in SyncFeed.
Device(d) ==
    /\ reading[d] = None
    /\ Deliver(d) \/ Lose(d) \/ Reset(d)
    /\ UNCHANGED <<lock, handler, reading, notified, hinted>>

Step(h) ==
    \/ LockClock(h)
    \/ ReadReceipt(h)
    \/ ReadRecord(h)
    \/ Commit(h)
    \/ Continue(h)
    \/ Respond(h)

TxnNext ==
    \/ \E h \in Handlers :
          \/ \E batch \in Batches : Receive(h, batch)
          \/ Step(h)
          \/ Fail(h)
    \/ \E d \in Devices : PullClock(d) \/ PullRows(d) \/ PullFails(d) \/ Device(d)

TxnSpec == TxnInit /\ [][TxnNext]_txnVars

-----------------------------------------------------------------------------

\* The pull of SyncFeed is in flight from the first statement on.
InFlight ==
    [d \in Devices |->
        IF reading[d] = None
        THEN page[d]
        ELSE PageUpTo(cursor[d], reading[d].high, changes, reading[d].last)]

Feed == INSTANCE SyncFeed WITH page <- InFlight

\* Interleaved, failing transactions under READ COMMITTED behave as if every
\* mutation and every page were handled in one step.
ImplementsFeed == Feed!FeedSpec

\* A hint never runs ahead of its commit, so that a device that pulls
\* because of it finds the change; and every committed change is notified,
\* although the local hint may be lost with the handler.
HintsFollowCommits ==
    /\ hinted \subseteq {row.cursor : row \in changes}
    /\ notified = {row.cursor : row \in changes}

\* A batch is applied front to back: when the handler works on an operation,
\* or answers, the ones before it are settled for good, with the results
\* the handler will report.
BatchPrefixSettled ==
    \A h \in Handlers : \A n \in 1..Len(handler[h].results) :
        LET r == handler[h].results[n]
        IN  /\ ReceiptFor(r.request) # None
            /\ r.result \in {ReceiptFor(r.request).result, Reused}
            /\ r.result = Reused <=> ReceiptFor(r.request).request # r.request

\* The clock row is locked exactly while a transaction that will release it
\* is past the lock, whatever fails; and what that transaction has read is
\* still what is committed.
ReadsAreStable ==
    \A h \in Handlers :
        /\ lock = h <=> handler[h].pc \in {"locked", "admitted", "commit"}
        /\ At(h, "locked") => handler[h].clock = clock
        /\ At(h, "admitted") => Fresh(Current(h)) /\ handler[h].clock = clock
        /\ At(h, "commit") =>
              /\ handler[h].store <=> Fresh(Current(h))
              /\ handler[h].write # None =>
                    /\ handler[h].write.cursor = clock + 1
                    /\ Applies(Current(h), records[Current(h).key])
=============================================================================
