------------------------------ MODULE SyncFeed ------------------------------
(***************************************************************************)
(* The service together with the devices that follow its change log        *)
(* through GET /api/v1/sync/changes: pull_changes on the server, pullOnce, *)
(* applyChanges and resetPullCursor on the device.  A page is in flight    *)
(* between the two and may be lost; a device has one pull outstanding (the *)
(* leader lock of engine.ts).                                              *)
(***************************************************************************)
EXTENDS SyncService

CONSTANT Devices

ASSUME FeedAssumption == None \notin Cursor

VARIABLES
    cursor,    \* [Devices -> Cursor or None]: accountState.pullCursor
    confirmed, \* [Devices -> [Keys -> Snapshot or None]]: records.confirmed
    page       \* [Devices -> page or None]: the answer in flight

deviceVars == <<cursor, confirmed, page>>
feedVars == <<serviceVars, deviceVars>>

FeedInit ==
    /\ Init
    /\ cursor = [d \in Devices |-> None]
    /\ confirmed = [d \in Devices |-> [k \in Keys |-> None]]
    /\ page = [d \in Devices |-> None]

FeedPush(m) == Push(m) /\ UNCHANGED deviceVars

\* The server answers a pull of device d.
Pull(d) ==
    LET high == HighWater(cursor[d], clock)
    IN  /\ page[d] = None
        /\ \E last \in PageEnds(cursor[d], high, changes) :
              page' = [page EXCEPT ![d] =
                          PageUpTo(cursor[d], high, changes, last)]
        /\ UNCHANGED <<serviceVars, cursor, confirmed>>

\* Mutant of Merge: versions are not compared.
MergeUnchecked(old, k, rows) ==
    LET ofKey == {row \in rows : row.snapshot.key = k}
    IN  IF ofKey = {}
        THEN old
        ELSE (CHOOSE row \in ofKey : \A other \in ofKey :
                 other.snapshot.version <= row.snapshot.version).snapshot

\* applyChanges over the rows of a page in cursor order: a row is skipped
\* unless its version is greater than the confirmed one, so what is left is
\* the row of the greatest version, or what was there.
Merge(old, k, rows) ==
    LET newer == {row \in rows : /\ row.snapshot.key = k
                                 /\ old # None => row.snapshot.version > old.version}
    IN  IF newer = {}
        THEN old
        ELSE (CHOOSE row \in newer : \A other \in newer :
                 other.snapshot.version <= row.snapshot.version).snapshot

Deliver(d) ==
    /\ page[d] # None
    /\ confirmed' = [confirmed EXCEPT ![d] =
                        [k \in Keys |-> Merge(confirmed[d][k], k, page[d].rows)]]
    /\ cursor' = [cursor EXCEPT ![d] = page[d].next]
    /\ page' = [page EXCEPT ![d] = None]
    /\ UNCHANGED serviceVars

\* The response is lost, or the sync was aborted while it was on its way.
Lose(d) ==
    /\ page[d] # None
    /\ page' = [page EXCEPT ![d] = None]
    /\ UNCHANGED <<serviceVars, cursor, confirmed>>

\* The server refuses the saved cursor (its key was rotated): the device
\* replays the log from the beginning over the records it has.
Reset(d) ==
    /\ page[d] = None
    /\ cursor[d] # None
    /\ cursor' = [cursor EXCEPT ![d] = None]
    /\ UNCHANGED <<serviceVars, confirmed, page>>

FeedNext ==
    \/ \E m \in Mutations : FeedPush(m)
    \/ \E d \in Devices : Pull(d) \/ Deliver(d) \/ Lose(d) \/ Reset(d)

FeedSpec == FeedInit /\ [][FeedNext]_feedVars

\* The engine pulls at every wake, poll and hint, and a network that keeps
\* answering eventually lets a page through.
FairFeedSpec ==
    /\ FeedSpec
    /\ \A d \in Devices : WF_feedVars(Pull(d)) /\ SF_feedVars(Deliver(d))

-----------------------------------------------------------------------------
(* What following the log promises.                                        *)

\* Pagination skips nothing: whatever was committed at or below a device's
\* position, the device has seen, or something newer of the same record.
NothingSkipped ==
    \A d \in Devices : \A row \in changes :
        row.cursor <= Position(cursor[d]) =>
        /\ confirmed[d][row.snapshot.key] # None
        /\ confirmed[d][row.snapshot.key].version >= row.snapshot.version

\* The last change of a record at or below a position of the log.
AsOf(k, high) ==
    LET upTo == {row \in changes : row.snapshot.key = k /\ row.cursor <= high}
    IN  IF upTo = {}
        THEN None
        ELSE (CHOOSE row \in upTo : \A other \in upTo :
                 other.cursor <= row.cursor).snapshot

\* A device whose position is the clock holds exactly the server's records;
\* and an answer that says "caught up", after which the device stops pulling
\* (syncPass), brings each record to where it stood at the end of the window
\* of its pull, whatever the device knew before and wherever the page was cut.
CaughtUpMeansEqual ==
    \A d \in Devices :
        /\ Position(cursor[d]) = clock =>
              confirmed[d] = [k \in Keys |-> Snap(k, records[k])]
        /\ page[d] # None /\ page[d].caughtUp =>
              \A k \in Keys : Merge(confirmed[d][k], k, page[d].rows)
                                 = AsOf(k, page[d].next.highWater)

\* A device's view of a record only moves forward, and a tombstone it has
\* seen stays, even when the whole log is replayed to it.
ConfirmedMovesForward ==
    [][\A d \in Devices, k \in Keys :
          confirmed[d][k] # None =>
          /\ confirmed'[d][k] # None
          /\ confirmed'[d][k].version >= confirmed[d][k].version
          /\ confirmed[d][k].deleted => confirmed'[d][k] = confirmed[d][k]]_feedVars

\* Every committed change eventually reaches every device, provided cursor
\* resets stop.
EveryChangeArrives ==
    \A d \in Devices :
        <>[][~Reset(d)]_feedVars =>
        \A c \in 1..Cardinality(Mutations) :
            (clock >= c) ~> (Position(cursor[d]) >= c)
=============================================================================
