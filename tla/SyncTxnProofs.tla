--------------------------- MODULE SyncTxnProofs ---------------------------
(***************************************************************************)
(* First the properties of SyncFeed, proved for every set of devices and   *)
(* every page size: whatever pages are lost, delivered late or read while  *)
(* the log grows, following the log skips nothing.  Then that the handlers *)
(* of SyncTxn, statement by statement, implement SyncFeed: proved for      *)
(* every set of handlers, batches and devices, together with the           *)
(* properties of the hints and of the batches.                             *)
(***************************************************************************)
EXTENDS SyncTxn, SyncServiceProofs, NaturalsInduction, WellFoundedInduction

-----------------------------------------------------------------------------
(* The log and its devices: the inductive invariant of SyncFeed.           *)

\* A device's position never lies beyond the log.
CursorsInLog ==
    /\ cursor \in [Devices -> Cursor \cup {None}]
    /\ \A d \in Devices : Position(cursor[d]) <= clock

\* Whatever a device has confirmed was committed, under its key.
ConfirmedInLog ==
    /\ confirmed \in [Devices -> [Keys -> Snapshot \cup {None}]]
    /\ \A d \in Devices, k \in Keys :
          confirmed[d][k] # None =>
          \E row \in changes : row.snapshot = confirmed[d][k] /\ row.snapshot.key = k

\* The rows of log between two positions.
Between(low, high) == {row \in changes : low < row.cursor /\ row.cursor <= high}

\* A page in flight holds everything between the position of its device and
\* the position it will move the device to.  As its end is at or below the
\* clock, this stays so while the log grows.
PagesContiguous ==
    /\ DOMAIN page = Devices
    /\ \A d \in Devices :
          page[d] # None =>
          /\ page[d].next \in Cursor
          /\ page[d].next.position <= clock
          /\ Position(cursor[d]) <= page[d].next.position
          /\ page[d].rows = Between(Position(cursor[d]), page[d].next.position)

\* What a device has confirmed was committed at or below a position.
ConfirmedBelow(d, high) ==
    \A k \in Keys :
        confirmed[d][k] # None =>
        \E row \in changes :
            row.snapshot = confirmed[d][k] /\ row.snapshot.key = k /\ row.cursor <= high

\* A window ends in the log, and not before the position in it or anything
\* its device has confirmed.
WindowSound(d, position, high) ==
    position <= high /\ high <= clock /\ ConfirmedBelow(d, high)

WindowsSound ==
    \A d \in Devices :
        /\ cursor[d] # None => WindowSound(d, cursor[d].position, cursor[d].highWater)
        /\ page[d] # None =>
              /\ WindowSound(d, page[d].next.position, page[d].next.highWater)
              /\ page[d].caughtUp = (page[d].next.position >= page[d].next.highWater)

\* The part about the devices, and the whole invariant.
Followed == CursorsInLog /\ ConfirmedInLog /\ PagesContiguous /\ NothingSkipped
FeedInv == LogInv /\ Followed

-----------------------------------------------------------------------------
(* Lemmas about the operators.                                             *)

\* A position is a number.
LEMMA PositionType ==
    ASSUME NEW cur \in Cursor \cup {None} PROVE Position(cur) \in Nat
    BY FeedAssumption DEF Position, Cursor

\* The rows of the log are well-formed.
LEMMA RowType ==
    ASSUME LogInv, NEW row \in changes
    PROVE  /\ row.cursor \in Nat
           /\ 0 < row.cursor
           /\ row.cursor <= clock
           /\ clock \in Nat
           /\ row.snapshot \in Snapshot
           /\ row.snapshot # None
           /\ row.snapshot.key \in Keys
           /\ row.snapshot.version \in Nat
    BY AbsentAssumption DEF LogInv, TypeOK, LogIsDense, Change, Snapshot, Version

\* A row of a record with the greater version is the later one.
LEMMA LaterRow ==
    ASSUME LogInv, NEW r1 \in changes, NEW r2 \in changes,
           r1.snapshot.key = r2.snapshot.key
    PROVE  /\ r1.snapshot.version < r2.snapshot.version => ~r1.snapshot.deleted
           /\ r1.snapshot.version = r2.snapshot.version => r1 = r2
           /\ r1.cursor <= r2.cursor => r1.snapshot.version <= r2.snapshot.version
    <1>1. /\ r1.cursor \in Nat /\ r2.cursor \in Nat
          /\ r1.snapshot.version \in Nat /\ r2.snapshot.version \in Nat
        BY RowType
    <1>2. CASE r1.cursor < r2.cursor
        BY <1>1, <1>2 DEF LogInv, VersionsFollowCursor
    <1>3. CASE r2.cursor < r1.cursor
        <2>1. r2.snapshot.version < r1.snapshot.version
            BY <1>3 DEF LogInv, VersionsFollowCursor
        <2>. QED  BY <1>1, <1>3, <2>1
    <1>4. CASE r1.cursor = r2.cursor
        <2>1. r1 = r2
            BY <1>4 DEF LogInv, LogIsDense
        <2>. QED  BY <1>1, <2>1
    <1>. QED  BY <1>1, <1>2, <1>3, <1>4

\* Among some rows of the log there is a last one.
LEMMA LastRow ==
    ASSUME LogInv, NEW rows \in SUBSET changes, rows # {}
    PROVE  \E last \in rows : \A row \in rows : row.cursor <= last.cursor
    <1>. DEFINE Distances == {clock - row.cursor : row \in rows}
                Less == OpToRel(<, Nat)
    <1>1. Distances \subseteq Nat /\ Distances # {}
        BY RowType
    <1>2. PICK least \in Distances : \A other \in Distances : <<other, least>> \notin Less
        BY <1>1, NatLessThanWellFounded, WFMin
    <1>3. PICK last \in rows : least = clock - last.cursor
        BY <1>2
    <1>4. ASSUME NEW row \in rows PROVE row.cursor <= last.cursor
        <2>1. clock - row.cursor \in Distances
            OBVIOUS
        <2>2. ~(clock - row.cursor < clock - last.cursor)
            BY <1>1, <1>2, <1>3, <2>1 DEF OpToRel
        <2>. QED  BY <2>2, RowType
    <1>. QED  BY <1>4

\* Merging some rows of the log into what a device knows of a record leaves
\* what was there, or a newer row of the record; and nothing newer than the
\* result was among the rows.
LEMMA MergeTakesNewest ==
    ASSUME LogInv, NEW rows \in SUBSET changes, NEW k \in Keys,
           NEW old \in Snapshot \cup {None}
    PROVE  /\ \/ Merge(old, k, rows) = old
              \/ \E row \in rows :
                    /\ row.snapshot.key = k
                    /\ Merge(old, k, rows) = row.snapshot
                    /\ old # None => row.snapshot.version > old.version
           /\ \A row \in rows :
                 row.snapshot.key = k =>
                 /\ Merge(old, k, rows) # None
                 /\ Merge(old, k, rows).version >= row.snapshot.version
    <1>. DEFINE newer == {row \in rows :
                             /\ row.snapshot.key = k
                             /\ old # None => row.snapshot.version > old.version}
                Newest(row) == \A other \in newer :
                                  other.snapshot.version <= row.snapshot.version
    <1>1. CASE newer = {}
        <2>1. Merge(old, k, rows) = old
            BY <1>1 DEF Merge
        <2>2. \A row \in rows :
                 row.snapshot.key = k =>
                 /\ old # None
                 /\ ~(row.snapshot.version > old.version)
            BY <1>1
        <2>3. old # None => old.version \in Nat
            BY DEF Snapshot, Version
        <2>. QED  BY <2>1, <2>2, <2>3, RowType
    <1>2. CASE newer # {}
        <2>. DEFINE chosen == CHOOSE row \in newer : Newest(row)
        <2>1. \E row \in newer : Newest(row)
            <3>1. PICK last \in newer : \A row \in newer : row.cursor <= last.cursor
                BY <1>2, LastRow
            <3>2. Newest(last)
                BY <3>1, LaterRow
            <3>. QED  BY <3>2
        <2>2. chosen \in newer /\ Newest(chosen)
            BY <2>1
        <2>3. Merge(old, k, rows) = chosen.snapshot
            BY <1>2 DEF Merge
        <2>4. ASSUME NEW row \in rows, row.snapshot.key = k
              PROVE  chosen.snapshot.version >= row.snapshot.version
            <3>1. chosen \in changes /\ chosen.snapshot.version \in Nat
                BY <2>2, RowType
            <3>2. row.snapshot.version \in Nat
                BY RowType
            <3>3. CASE row \in newer
                BY <2>2, <3>1, <3>2, <3>3
            <3>4. CASE row \notin newer
                <4>1. old # None /\ ~(row.snapshot.version > old.version)
                    BY <2>4, <3>4
                <4>2. chosen.snapshot.version > old.version
                    BY <2>2, <4>1
                <4>3. old.version \in Nat
                    BY <4>1 DEF Snapshot, Version
                <4>4. \A a, b, c \in Nat : a > b /\ ~(c > b) => a >= c
                    OBVIOUS
                <4>. QED  BY <3>1, <3>2, <4>1, <4>2, <4>3, <4>4
            <3>. QED  BY <3>3, <3>4
        <2>5. chosen.snapshot # None
            BY <2>2, RowType
        <2>. HIDE DEF chosen
        <2>. QED  BY <2>2, <2>3, <2>4, <2>5
    <1>. QED  BY <1>1, <1>2

\* However the page ends, it holds all rows between the position asked from
\* and the position it moves to, which is in the log.
LEMMA PageIsContiguous ==
    ASSUME LogInv, NEW cur \in Cursor \cup {None}, Position(cur) <= clock,
           NEW high \in Nat, NEW last \in PageEnds(cur, high, changes)
    PROVE  /\ last \in Nat
           /\ last <= clock
           /\ Position(cur) <= last
           /\ PageUpTo(cur, high, changes, last).next \in Cursor
           /\ PageUpTo(cur, high, changes, last).next.position = last
           /\ PageUpTo(cur, high, changes, last).rows = Between(Position(cur), last)
    <1>. DEFINE window == Window(cur, high, changes)
    <1>p. Position(cur) \in Nat
        BY PositionType
    <1>1. CASE window = {}
        <2>1. last = Position(cur)
            BY <1>1 DEF PageEnds
        <2>2. \A row \in changes : ~(Position(cur) < row.cursor /\ row.cursor <= last)
            BY <1>p, <2>1, RowType
        <2>3. {row \in window : row.cursor <= last} = Between(Position(cur), last)
            BY <1>1, <2>2 DEF Between
        <2>. QED  BY <1>p, <2>1, <2>3 DEF PageUpTo, Cursor
    <1>2. CASE window # {}
        <2>1. last \in {row.cursor : row \in window}
            BY <1>2 DEF PageEnds
        <2>2. PICK end \in window : last = end.cursor
            BY <2>1
        <2>3. /\ end \in changes
              /\ Position(cur) < last
              /\ last <= high
            BY <2>2 DEF Window
        <2>4. last \in Nat /\ last <= clock
            BY <2>2, <2>3, RowType
        <2>5. {row \in window : row.cursor <= last} = Between(Position(cur), last)
            BY <2>3, <2>4, RowType DEF Window, Between
        <2>. QED  BY <1>p, <2>3, <2>4, <2>5 DEF PageUpTo, Cursor
    <1>. QED  BY <1>1, <1>2

\* The window of a pull ends at a number.
LEMMA HighWaterType ==
    ASSUME LogInv, NEW cur \in Cursor \cup {None}
    PROVE  HighWater(cur, clock) \in Nat
    BY DEF HighWater, Cursor, LogInv, TypeOK

\* The log only grows, beyond the clock: what was between two positions at
\* or below the clock stays the same.
LEMMA LogGrows ==
    ASSUME LogInv, [AnyPush]_serviceVars
    PROVE  /\ clock \in Nat /\ clock' \in Nat
           /\ clock <= clock'
           /\ changes \subseteq changes'
           /\ \A row \in changes' : row \in changes \/ row.cursor = clock + 1
           /\ \A low, high \in Nat :
                 high <= clock => Between(low, high)' = Between(low, high)
    <1>c. clock \in Nat
        BY DEF LogInv, TypeOK
    <1>1. /\ clock' = clock \/ clock' = clock + 1
          /\ changes \subseteq changes'
          /\ \A row \in changes' : row \in changes \/ row.cursor = clock + 1
        <2>1. ASSUME NEW m \in Mutation, Apply(m)
              PROVE  /\ clock' = clock + 1
                     /\ changes' = changes \cup {LogRow(m)}
                     /\ LogRow(m).cursor = clock + 1
            BY <2>1, NewRow
        <2>. QED  BY <2>1, OnlyApplyWrites
    <1>2. ASSUME NEW low \in Nat, NEW high \in Nat, high <= clock
          PROVE  Between(low, high)' = Between(low, high)
        BY <1>c, <1>1, <1>2 DEF Between
    <1>. QED  BY <1>c, <1>1, <1>2

-----------------------------------------------------------------------------
(* The invariant is inductive.                                             *)

\* A device that has pulled nothing follows the empty log.
LEMMA FollowedInit == FeedInit => Followed
    <1>. SUFFICES ASSUME FeedInit PROVE Followed
        OBVIOUS
    <1>1. CursorsInLog
        BY DEF FeedInit, Init, CursorsInLog, Position
    <1>2. ConfirmedInLog
        BY DEF FeedInit, Init, ConfirmedInLog
    <1>3. PagesContiguous
        BY DEF FeedInit, PagesContiguous
    <1>4. NothingSkipped
        BY DEF FeedInit, Init, NothingSkipped
    <1>. QED  BY <1>1, <1>2, <1>3, <1>4 DEF Followed

\* A request of any client leaves every device where it was in the log.
LEMMA PushStep ==
    ASSUME FeedInv, [AnyPush]_serviceVars, UNCHANGED deviceVars
    PROVE  Followed'
    <1>d. cursor' = cursor /\ confirmed' = confirmed /\ page' = page
        BY DEF deviceVars
    <1>g. /\ clock \in Nat /\ clock' \in Nat
          /\ clock <= clock'
          /\ changes \subseteq changes'
          /\ \A row \in changes' : row \in changes \/ row.cursor = clock + 1
          /\ \A low, high \in Nat :
                high <= clock => Between(low, high)' = Between(low, high)
        BY LogGrows DEF FeedInv
    <1>p. \A d \in Devices : /\ Position(cursor[d]) \in Nat
                             /\ Position(cursor[d]) <= clock
        BY PositionType DEF FeedInv, Followed, CursorsInLog
    <1>1. CursorsInLog'
        BY <1>d, <1>g, <1>p DEF FeedInv, Followed, CursorsInLog, Position
    <1>2. ConfirmedInLog'
        BY <1>d, <1>g DEF FeedInv, Followed, ConfirmedInLog
    <1>3. PagesContiguous'
        <2>1. ASSUME NEW d \in Devices, page[d] # None
              PROVE  /\ page[d].next \in Cursor
                     /\ page[d].next.position <= clock'
                     /\ Position(cursor[d]) <= page[d].next.position
                     /\ page[d].rows = Between(Position(cursor[d]), page[d].next.position)'
            <3>1. /\ page[d].next \in Cursor
                  /\ page[d].next.position <= clock
                  /\ Position(cursor[d]) <= page[d].next.position
                  /\ page[d].rows = Between(Position(cursor[d]), page[d].next.position)
                BY <2>1 DEF FeedInv, Followed, PagesContiguous
            <3>2. page[d].next.position \in Nat
                BY <3>1 DEF Cursor
            <3>3. page[d].rows = {row \in changes' : /\ Position(cursor[d]) < row.cursor
                                                     /\ row.cursor <= page[d].next.position}
                BY <1>g, <1>p, <3>1, <3>2 DEF Between
            <3>. QED  BY <1>d, <1>g, <3>1, <3>2, <3>3 DEF Between
        <2>. QED  BY <1>d, <2>1 DEF FeedInv, Followed, PagesContiguous, Between, Position
    <1>4. NothingSkipped'
        <2>1. ASSUME NEW d \in Devices, NEW row \in changes',
                     row.cursor <= Position(cursor[d])
              PROVE  row \in changes
            BY <1>g, <1>p, <2>1
        <2>. QED  BY <1>d, <2>1 DEF FeedInv, Followed, NothingSkipped, Position
    <1>. QED  BY <1>1, <1>2, <1>3, <1>4 DEF Followed

\* An answer of the server is contiguous with the position it was asked from.
LEMMA PullStep ==
    ASSUME FeedInv, NEW d \in Devices, Pull(d)
    PROVE  Followed'
    <1>. DEFINE high == HighWater(cursor[d], clock)
    <1>1. PICK last \in PageEnds(cursor[d], high, changes) :
             page' = [page EXCEPT ![d] = PageUpTo(cursor[d], high, changes, last)]
        BY DEF Pull
    <1>u. /\ UNCHANGED serviceVars
          /\ cursor' = cursor /\ confirmed' = confirmed
          /\ clock' = clock /\ changes' = changes
        BY DEF Pull, serviceVars
    <1>2. LET answer == PageUpTo(cursor[d], high, changes, last)
          IN  /\ answer.next \in Cursor
              /\ answer.next.position <= clock
              /\ Position(cursor[d]) <= answer.next.position
              /\ answer.rows = Between(Position(cursor[d]), answer.next.position)
        <2>1. cursor[d] \in Cursor \cup {None} /\ Position(cursor[d]) <= clock
            BY DEF FeedInv, Followed, CursorsInLog
        <2>2. high \in Nat
            BY <2>1, HighWaterType DEF FeedInv
        <2>. HIDE DEF high
        <2>. QED  BY <1>1, <2>1, <2>2, PageIsContiguous DEF FeedInv
    <1>. HIDE DEF high
    <1>3. PagesContiguous'
        BY <1>1, <1>2, <1>u DEF FeedInv, Followed, PagesContiguous, Between
    <1>4. CursorsInLog' /\ ConfirmedInLog' /\ NothingSkipped'
        BY <1>u DEF FeedInv, Followed, CursorsInLog, ConfirmedInLog, NothingSkipped
    <1>. QED  BY <1>3, <1>4 DEF Followed

\* What the delivery of a page does to what its device has confirmed.
LEMMA DeliverMerges ==
    ASSUME FeedInv, NEW d \in Devices, Deliver(d)
    PROVE  /\ confirmed' \in [Devices -> [Keys -> Snapshot \cup {None}]]
           /\ \A e \in Devices : e # d => confirmed'[e] = confirmed[e]
           /\ page[d].rows = Between(Position(cursor[d]), page[d].next.position)
           /\ \A k \in Keys :
                 /\ \/ confirmed'[d][k] = confirmed[d][k]
                    \/ \E row \in page[d].rows :
                          /\ row.snapshot.key = k
                          /\ confirmed'[d][k] = row.snapshot
                          /\ confirmed[d][k] # None =>
                                row.snapshot.version > confirmed[d][k].version
                 /\ \A row \in page[d].rows :
                       row.snapshot.key = k =>
                       /\ confirmed'[d][k] # None
                       /\ confirmed'[d][k].version >= row.snapshot.version
    <1>. DEFINE merged == [k \in Keys |-> Merge(confirmed[d][k], k, page[d].rows)]
    <1>1. page[d].rows = Between(Position(cursor[d]), page[d].next.position)
        BY DEF Deliver, FeedInv, Followed, PagesContiguous
    <1>2. confirmed \in [Devices -> [Keys -> Snapshot \cup {None}]]
        BY DEF FeedInv, Followed, ConfirmedInLog
    <1>3. confirmed' = [confirmed EXCEPT ![d] = merged]
        BY DEF Deliver
    <1>4. page[d].rows \in SUBSET changes
        BY <1>1 DEF Between
    <1>5. ASSUME NEW k \in Keys
          PROVE  /\ \/ merged[k] = confirmed[d][k]
                    \/ \E row \in page[d].rows :
                          /\ row.snapshot.key = k
                          /\ merged[k] = row.snapshot
                          /\ confirmed[d][k] # None =>
                                row.snapshot.version > confirmed[d][k].version
                 /\ \A row \in page[d].rows :
                       row.snapshot.key = k =>
                       /\ merged[k] # None
                       /\ merged[k].version >= row.snapshot.version
        <2>1. confirmed[d][k] \in Snapshot \cup {None}
            BY <1>2
        <2>2. merged[k] = Merge(confirmed[d][k], k, page[d].rows)
            OBVIOUS
        <2>. HIDE DEF merged
        <2>. QED  BY <1>4, <2>1, <2>2, MergeTakesNewest DEF FeedInv
    <1>6. merged \in [Keys -> Snapshot \cup {None}]
        <2>1. \A k \in Keys : merged[k] \in Snapshot \cup {None}
            <3>. HIDE DEF merged
            <3>. QED  BY <1>2, <1>4, <1>5, RowType DEF FeedInv
        <2>. QED  BY <2>1
    <1>. HIDE DEF merged
    <1>7. confirmed'[d] = merged
        BY <1>2, <1>3
    <1>8. /\ confirmed' \in [Devices -> [Keys -> Snapshot \cup {None}]]
          /\ \A e \in Devices : e # d => confirmed'[e] = confirmed[e]
        BY <1>2, <1>3, <1>6
    <1>. QED  BY <1>1, <1>5, <1>7, <1>8

\* A page that arrives moves its device along the log and skips nothing.
LEMMA DeliverStep ==
    ASSUME FeedInv, NEW d \in Devices, Deliver(d)
    PROVE  Followed'
    <1>. DEFINE low == Position(cursor[d])
                end == page[d].next.position
    <1>u. /\ clock' = clock /\ changes' = changes
          /\ cursor' = [cursor EXCEPT ![d] = page[d].next]
          /\ page' = [page EXCEPT ![d] = None]
        BY DEF Deliver, serviceVars
    <1>n. /\ page[d].next \in Cursor
          /\ end \in Nat
          /\ end <= clock
          /\ low <= end
        BY DEF Deliver, FeedInv, Followed, PagesContiguous, Cursor
    <1>c. /\ cursor \in [Devices -> Cursor \cup {None}]
          /\ confirmed \in [Devices -> [Keys -> Snapshot \cup {None}]]
          /\ \A e \in Devices : Position(cursor[e]) <= clock
        BY DEF FeedInv, Followed, CursorsInLog, ConfirmedInLog
    <1>l. low \in Nat
        BY <1>c, PositionType
    <1>e. /\ cursor'[d] = page[d].next
          /\ \A e \in Devices : e # d => cursor'[e] = cursor[e]
          /\ Position(cursor'[d]) = end
        BY <1>u, <1>n, <1>c, FeedAssumption DEF Position
    <1>m. /\ confirmed' \in [Devices -> [Keys -> Snapshot \cup {None}]]
          /\ \A e \in Devices : e # d => confirmed'[e] = confirmed[e]
          /\ page[d].rows = Between(low, end)
          /\ \A k \in Keys :
                /\ \/ confirmed'[d][k] = confirmed[d][k]
                   \/ \E row \in page[d].rows :
                         /\ row.snapshot.key = k
                         /\ confirmed'[d][k] = row.snapshot
                         /\ confirmed[d][k] # None =>
                               row.snapshot.version > confirmed[d][k].version
                /\ \A row \in page[d].rows :
                      row.snapshot.key = k =>
                      /\ confirmed'[d][k] # None
                      /\ confirmed'[d][k].version >= row.snapshot.version
        BY DeliverMerges
    <1>. HIDE DEF low, end
    <1>1. CursorsInLog'
        <2>1. cursor' \in [Devices -> Cursor \cup {None}]
            BY <1>u, <1>n, <1>c
        <2>2. \A e \in Devices : Position(cursor'[e]) <= clock
            BY <1>n, <1>c, <1>e
        <2>. QED  BY <1>u, <2>1, <2>2 DEF CursorsInLog, Position
    <1>2. ConfirmedInLog'
        <2>1. ASSUME NEW e \in Devices, NEW k \in Keys, confirmed'[e][k] # None
              PROVE  \E row \in changes :
                        row.snapshot = confirmed'[e][k] /\ row.snapshot.key = k
            <3>1. CASE confirmed'[e][k] = confirmed[e][k]
                BY <2>1, <3>1 DEF FeedInv, Followed, ConfirmedInLog
            <3>2. CASE confirmed'[e][k] # confirmed[e][k]
                <4>1. e = d
                    BY <1>m, <3>2
                <4>2. page[d].rows \subseteq changes
                    BY <1>m DEF Between
                <4>. QED  BY <1>m, <3>2, <4>1, <4>2
            <3>. QED  BY <3>1, <3>2
        <2>. QED  BY <1>u, <1>m, <2>1 DEF ConfirmedInLog
    <1>3. PagesContiguous'
        BY <1>u, <1>e DEF FeedInv, Followed, PagesContiguous, Between
    <1>4. NothingSkipped'
        <2>1. ASSUME NEW e \in Devices, NEW row \in changes,
                     row.cursor <= Position(cursor'[e])
              PROVE  /\ confirmed'[e][row.snapshot.key] # None
                     /\ confirmed'[e][row.snapshot.key].version >= row.snapshot.version
            <3>. DEFINE k == row.snapshot.key
            <3>k. /\ k \in Keys /\ row.snapshot.version \in Nat
                  /\ row.cursor \in Nat
                BY RowType DEF FeedInv
            <3>1. CASE e # d
                BY <1>e, <1>m, <2>1, <3>1 DEF FeedInv, Followed, NothingSkipped
            <3>2. CASE e = d /\ row \in page[d].rows
                BY <1>m, <3>k, <3>2
            <3>3. CASE e = d /\ row \notin page[d].rows
                <4>1. row.cursor <= low
                    BY <1>l, <1>n, <1>e, <1>m, <2>1, <3>k, <3>3 DEF Between
                <4>2. /\ confirmed[d][k] # None
                      /\ confirmed[d][k].version >= row.snapshot.version
                    BY <4>1 DEF low, FeedInv, Followed, NothingSkipped
                <4>3. confirmed[d][k].version \in Nat
                    BY <1>c, <3>k, <4>2 DEF Snapshot, Version
                <4>4. CASE confirmed'[d][k] = confirmed[d][k]
                    BY <3>3, <4>2, <4>4
                <4>5. ASSUME NEW taken \in page[d].rows,
                             confirmed'[d][k] = taken.snapshot,
                             taken.snapshot.version > confirmed[d][k].version
                      PROVE  /\ confirmed'[d][k] # None
                             /\ confirmed'[d][k].version >= row.snapshot.version
                    <5>1. taken \in changes
                        BY <1>m, <4>5 DEF Between
                    <5>2. taken.snapshot # None /\ taken.snapshot.version \in Nat
                        BY <5>1, RowType DEF FeedInv
                    <5>. QED  BY <3>k, <4>2, <4>3, <4>5, <5>2
                <4>. QED  BY <1>m, <3>k, <3>3, <4>2, <4>4, <4>5
            <3>. QED  BY <3>1, <3>2, <3>3
        <2>. QED  BY <1>u, <2>1 DEF NothingSkipped, Position
    <1>. QED  BY <1>1, <1>2, <1>3, <1>4 DEF Followed

\* A lost page, and a device that starts over, take nothing from what the
\* device knows.
LEMMA LoseOrResetStep ==
    ASSUME FeedInv, NEW d \in Devices, Lose(d) \/ Reset(d)
    PROVE  Followed'
    <1>u. /\ clock' = clock /\ changes' = changes
          /\ confirmed' = confirmed
        BY DEF Lose, Reset, serviceVars
    <1>1. CASE Lose(d)
        <2>1. cursor' = cursor /\ page' = [page EXCEPT ![d] = None]
            BY <1>1 DEF Lose
        <2>2. PagesContiguous'
            BY <1>u, <2>1 DEF FeedInv, Followed, PagesContiguous, Between
        <2>. QED  BY <1>u, <2>1, <2>2
                  DEF FeedInv, Followed, CursorsInLog, ConfirmedInLog, NothingSkipped
    <1>2. CASE Reset(d)
        <2>1. /\ page[d] = None
              /\ cursor' = [cursor EXCEPT ![d] = None]
              /\ page' = page
            BY <1>2 DEF Reset
        <2>2. cursor \in [Devices -> Cursor \cup {None}]
            BY DEF FeedInv, Followed, CursorsInLog
        <2>3. /\ Position(cursor'[d]) = 0
              /\ \A e \in Devices : e # d => cursor'[e] = cursor[e]
            BY <2>1, <2>2 DEF Position
        <2>4. CursorsInLog'
            BY <1>u, <2>1, <2>2, <2>3
               DEF FeedInv, LogInv, TypeOK, Followed, CursorsInLog, Position
        <2>5. PagesContiguous'
            BY <1>u, <2>1, <2>3 DEF FeedInv, Followed, PagesContiguous, Between
        <2>6. NothingSkipped'
            <3>1. \A row \in changes : ~(row.cursor <= 0)
                BY RowType DEF FeedInv
            <3>2. ASSUME NEW e \in Devices, NEW row \in changes,
                         row.cursor <= Position(cursor'[e])
                  PROVE  e # d /\ row.cursor <= Position(cursor[e])
                BY <2>3, <3>1, <3>2
            <3>. QED  BY <1>u, <3>2 DEF FeedInv, Followed, NothingSkipped, Position
        <2>. QED  BY <1>u, <2>4, <2>5, <2>6 DEF FeedInv, Followed, ConfirmedInLog
    <1>. QED  BY <1>1, <1>2

\* No step of a client, the server or a device breaks the invariant.
LEMMA FeedStep == FeedInv /\ [FeedNext]_feedVars => FeedInv'
    <1>. SUFFICES ASSUME FeedInv, [FeedNext]_feedVars PROVE FeedInv'
        OBVIOUS
    <1>1. [AnyPush]_serviceVars
        BY MutationsAssumption
        DEF FeedNext, FeedPush, AnyPush, Pull, Deliver, Lose, Reset, feedVars
    <1>2. LogInv'
        BY <1>1, LogStep DEF FeedInv
    <1>3. Followed'
        <2>1. CASE UNCHANGED feedVars
            BY <1>1, <2>1, PushStep DEF feedVars
        <2>2. ASSUME NEW m \in Mutations, FeedPush(m) PROVE Followed'
            BY <1>1, <2>2, PushStep DEF FeedPush
        <2>3. ASSUME NEW d \in Devices, Pull(d) \/ Deliver(d) \/ Lose(d) \/ Reset(d)
              PROVE  Followed'
            BY <2>3, PullStep, DeliverStep, LoseOrResetStep
        <2>. QED  BY <2>1, <2>2, <2>3 DEF FeedNext
    <1>. QED  BY <1>2, <1>3 DEF FeedInv

\* So it holds of every state of the service and its devices.
LEMMA FeedAlways == FeedSpec => []FeedInv
    <1>1. FeedInit => LogInv
        BY LogInit DEF FeedInit
    <1>2. FeedInit => FeedInv
        BY <1>1, FollowedInit DEF FeedInv
    <1>. QED  BY <1>2, FeedStep, PTL DEF FeedSpec

-----------------------------------------------------------------------------
(* What following the log promises.                                        *)

\* Pagination skips nothing, whatever is lost, delivered late or committed
\* between the pages (pull_changes, applyChanges).
THEOREM NothingIsEverSkipped == FeedSpec => []NothingSkipped
    BY FeedAlways, PTL DEF FeedInv, Followed

\* What a device has confirmed of a record is what the server stores of it,
\* if the device has followed the log to its end.
LEMMA FollowedToTheEnd ==
    ASSUME FeedInv, NEW d \in Devices, Position(cursor[d]) = clock, NEW k \in Keys
    PROVE  confirmed[d][k] = Snap(k, records[k])
    <1>c. confirmed[d][k] # None =>
             \E row \in changes : row.snapshot = confirmed[d][k] /\ row.snapshot.key = k
        BY DEF FeedInv, Followed, ConfirmedInLog
    <1>1. CASE records[k] = None
        <2>1. \A row \in changes : row.snapshot.key # k
            BY <1>1 DEF FeedInv, LogInv, RecordIsLastChange
        <2>. QED  BY <1>c, <1>1, <2>1 DEF Snap
    <1>2. CASE records[k] # None
        <2>1. PICK last \in changes : last.snapshot = Snap(k, records[k])
            BY <1>2 DEF FeedInv, LogInv, RecordIsLastChange
        <2>2. records[k] \in Record
            BY <1>2 DEF FeedInv, LogInv, TypeOK
        <2>3. last.snapshot.key = k /\ last.snapshot.version = records[k].version
            BY <1>2, <2>1, <2>2, SnapType
        <2>4. last.cursor <= Position(cursor[d])
            BY RowType DEF FeedInv
        <2>5. /\ confirmed[d][k] # None
              /\ confirmed[d][k].version >= last.snapshot.version
            BY <2>3, <2>4 DEF FeedInv, Followed, NothingSkipped
        <2>6. PICK row \in changes : row.snapshot = confirmed[d][k] /\ row.snapshot.key = k
            BY <1>c, <2>5
        <2>7. row.snapshot.version <= records[k].version
            BY <1>2, <2>6 DEF FeedInv, LogInv, RecordIsLastChange
        <2>8. row.snapshot.version = last.snapshot.version
            BY <2>3, <2>5, <2>6, <2>7, RowType DEF FeedInv
        <2>9. row = last
            BY <2>3, <2>6, <2>8, LaterRow DEF FeedInv
        <2>. QED  BY <2>1, <2>6, <2>9
    <1>. QED  BY <1>1, <1>2

\* A log that grows leaves every window as it is.
LEMMA WindowStays ==
    ASSUME LogInv, [AnyPush]_serviceVars, NEW d \in Devices, confirmed'[d] = confirmed[d],
           NEW position, NEW high \in Nat, WindowSound(d, position, high)
    PROVE  WindowSound(d, position, high)'
    <1>1. clock \in Nat /\ clock' \in Nat /\ clock <= clock' /\ changes \subseteq changes'
        BY LogGrows
    <1>2. position <= high /\ high <= clock /\ ConfirmedBelow(d, high)
        BY DEF WindowSound
    <1>3. high <= clock'
        BY <1>1, <1>2
    <1>4. ConfirmedBelow(d, high)'
        BY <1>1, <1>2 DEF ConfirmedBelow
    <1>. QED  BY <1>2, <1>3, <1>4 DEF WindowSound

\* The window of a pull is sound wherever its page ends.
LEMMA PullWindowSound ==
    ASSUME FeedInv, WindowsSound, NEW d \in Devices,
           NEW last \in PageEnds(cursor[d], HighWater(cursor[d], clock), changes)
    PROVE  WindowSound(d, last, HighWater(cursor[d], clock))
    <1>. DEFINE high == HighWater(cursor[d], clock)
    <1>1. /\ cursor[d] \in Cursor \cup {None} /\ Position(cursor[d]) <= clock
          /\ Position(cursor[d]) \in Nat /\ clock \in Nat
        BY PositionType DEF FeedInv, Followed, CursorsInLog, LogInv, TypeOK
    <1>2. ConfirmedBelow(d, clock)
        BY RowType DEF ConfirmedBelow, FeedInv, Followed, ConfirmedInLog
    <1>3. Position(cursor[d]) <= high /\ high <= clock /\ ConfirmedBelow(d, high)
        <2>1. CASE high = clock
            BY <1>1, <1>2, <2>1
        <2>2. CASE high # clock
            <3>1. cursor[d] # None /\ high = cursor[d].highWater
                BY <2>2 DEF HighWater
            <3>. HIDE DEF high
            <3>. QED  BY <3>1 DEF WindowsSound, WindowSound, Position
        <2>. QED  BY <2>1, <2>2
    <1>. HIDE DEF high
    <1>4. last <= high
        <2>1. \/ last = Position(cursor[d])
              \/ \E row \in Window(cursor[d], high, changes) : last = row.cursor
            BY DEF PageEnds, high
        <2>. QED  BY <1>3, <2>1 DEF Window
    <1>. QED  BY <1>3, <1>4 DEF WindowSound, high

\* An answer of the server carries its window.
LEMMA PullWindows ==
    ASSUME FeedInv, WindowsSound, NEW d \in Devices, Pull(d)
    PROVE  WindowsSound'
    <1>. DEFINE high == HighWater(cursor[d], clock)
    <1>1. PICK last \in PageEnds(cursor[d], high, changes) :
             page' = [page EXCEPT ![d] = PageUpTo(cursor[d], high, changes, last)]
        BY DEF Pull
    <1>u. /\ cursor' = cursor /\ confirmed' = confirmed
          /\ clock' = clock /\ changes' = changes
        BY DEF Pull, serviceVars
    <1>2. WindowSound(d, last, high)
        BY <1>1, PullWindowSound
    <1>. HIDE DEF high
    <1>3. /\ page'[d].next.position = last
          /\ page'[d].next.highWater = high
          /\ page'[d].caughtUp = (last >= high)
          /\ \A e \in Devices : e # d => page'[e] = page[e]
        BY <1>1 DEF PageUpTo, FeedInv, Followed, PagesContiguous
    <1>4. \A e \in Devices : \A position, end :
             WindowSound(e, position, end)' <=> WindowSound(e, position, end)
        BY <1>u DEF WindowSound, ConfirmedBelow
    <1>. QED  BY <1>u, <1>2, <1>3, <1>4 DEF WindowsSound

\* What a page adds lies in its window.
LEMMA DeliverWindows ==
    ASSUME FeedInv, WindowsSound, NEW d \in Devices, Deliver(d)
    PROVE  WindowsSound'
    <1>. DEFINE next == page[d].next
    <1>u. /\ clock' = clock /\ changes' = changes
          /\ cursor' = [cursor EXCEPT ![d] = next]
          /\ page' = [page EXCEPT ![d] = None]
          /\ page[d] # None
        BY DEF Deliver, serviceVars
    <1>1. /\ next \in Cursor /\ next.position \in Nat /\ next.highWater \in Nat
          /\ WindowSound(d, next.position, next.highWater)
        BY <1>u DEF WindowsSound, FeedInv, Followed, PagesContiguous, Cursor
    <1>2. /\ cursor'[d] = next
          /\ \A e \in Devices : e # d => cursor'[e] = cursor[e]
          /\ page'[d] = None
          /\ \A e \in Devices : e # d => page'[e] = page[e]
        BY <1>u DEF FeedInv, Followed, PagesContiguous, CursorsInLog
    <1>. HIDE DEF next
    <1>3. /\ \A e \in Devices : e # d => confirmed'[e] = confirmed[e]
          /\ \A k \in Keys :
                \/ confirmed'[d][k] = confirmed[d][k]
                \/ \E row \in changes : /\ row.snapshot.key = k
                                        /\ confirmed'[d][k] = row.snapshot
                                        /\ row.cursor <= next.position
        BY DeliverMerges DEF Between, next
    <1>4. ASSUME NEW k \in Keys, confirmed'[d][k] # None
          PROVE  \E row \in changes : /\ row.snapshot = confirmed'[d][k]
                                      /\ row.snapshot.key = k
                                      /\ row.cursor <= next.highWater
        <2>1. CASE confirmed'[d][k] = confirmed[d][k]
            BY <1>1, <1>4, <2>1 DEF WindowSound, ConfirmedBelow
        <2>2. ASSUME NEW row \in changes, row.cursor <= next.position
              PROVE  row.cursor <= next.highWater
            BY <1>1, <2>2, RowType DEF WindowSound, FeedInv
        <2>. QED  BY <1>3, <2>1, <2>2
    <1>5. WindowSound(d, cursor[d].position, cursor[d].highWater)'
        <2>1. ConfirmedBelow(d, cursor[d].highWater)'
            BY <1>u, <1>2, <1>4 DEF ConfirmedBelow
        <2>. QED  BY <1>u, <1>1, <1>2, <2>1 DEF WindowSound
    <1>6. \A e \in Devices : \A position, end :
             e # d => (WindowSound(e, position, end)' <=> WindowSound(e, position, end))
        BY <1>u, <1>3 DEF WindowSound, ConfirmedBelow
    <1>. QED  BY <1>2, <1>5, <1>6 DEF WindowsSound

\* No step of a client, the server or a device makes a window unsound.
LEMMA WindowsStep == FeedInv /\ WindowsSound /\ [FeedNext]_feedVars => WindowsSound'
    <1>. SUFFICES ASSUME FeedInv, WindowsSound, [FeedNext]_feedVars PROVE WindowsSound'
        OBVIOUS
    <1>1. ASSUME [AnyPush]_serviceVars, UNCHANGED deviceVars PROVE WindowsSound'
        <2>1. cursor' = cursor /\ confirmed' = confirmed /\ page' = page
            BY <1>1 DEF deviceVars
        <2>2. \A d \in Devices :
                 /\ cursor[d] # None => cursor[d].highWater \in Nat
                 /\ page[d] # None => page[d].next.highWater \in Nat
            BY DEF FeedInv, Followed, CursorsInLog, PagesContiguous, Cursor
        <2>. QED  BY <1>1, <2>1, <2>2, WindowStays DEF WindowsSound, FeedInv
    <1>2. ASSUME NEW m \in Mutations, FeedPush(m) PROVE WindowsSound'
        BY <1>1, <1>2, MutationsAssumption DEF FeedPush, AnyPush
    <1>3. ASSUME NEW d \in Devices, Lose(d) \/ Reset(d) PROVE WindowsSound'
        <2>1. /\ clock' = clock /\ changes' = changes /\ confirmed' = confirmed
              /\ \A e \in Devices : /\ cursor'[e] \in {cursor[e], None}
                                    /\ page'[e] \in {page[e], None}
            BY <1>3 DEF Lose, Reset, serviceVars, FeedInv, Followed, CursorsInLog,
                        PagesContiguous
        <2>2. \A e \in Devices : \A position, end :
                 WindowSound(e, position, end)' <=> WindowSound(e, position, end)
            BY <2>1 DEF WindowSound, ConfirmedBelow
        <2>. QED  BY <2>1, <2>2 DEF WindowsSound
    <1>4. CASE UNCHANGED feedVars
        BY <1>1, <1>4 DEF feedVars
    <1>. QED  BY <1>2, <1>3, <1>4, PullWindows, DeliverWindows DEF FeedNext

\* What a page that says "caught up" makes of a record is where the record
\* stood at the end of the window.
LEMMA CaughtUpPage ==
    ASSUME FeedInv, WindowsSound, NEW d \in Devices, page[d] # None, page[d].caughtUp,
           NEW k \in Keys
    PROVE  Merge(confirmed[d][k], k, page[d].rows) = AsOf(k, page[d].next.highWater)
    <1>. DEFINE high == page[d].next.highWater
                low == Position(cursor[d])
                old == confirmed[d][k]
                merged == Merge(old, k, page[d].rows)
                upTo == {row \in changes : row.snapshot.key = k /\ row.cursor <= high}
    <1>1. /\ page[d].next \in Cursor
          /\ page[d].rows = Between(low, page[d].next.position)
          /\ page[d].next.position <= high
          /\ page[d].next.position >= high
          /\ ConfirmedBelow(d, high)
        BY DEF WindowsSound, WindowSound, FeedInv, Followed, PagesContiguous
    <1>2. high \in Nat /\ page[d].rows = Between(low, high)
        BY <1>1 DEF Cursor
    <1>3. low \in Nat
        BY PositionType DEF FeedInv, Followed, CursorsInLog
    <1>4. /\ old \in Snapshot \cup {None}
          /\ old # None => \E row \in upTo : row.snapshot = old
        BY <1>1 DEF FeedInv, Followed, ConfirmedInLog, ConfirmedBelow
    <1>. HIDE DEF high, low
    <1>5. page[d].rows \subseteq changes
        BY <1>2 DEF Between
    <1>6. /\ \/ merged = old
             \/ \E row \in page[d].rows : /\ row.snapshot.key = k
                                          /\ merged = row.snapshot
                                          /\ old # None => row.snapshot.version > old.version
          /\ \A row \in page[d].rows :
                row.snapshot.key = k => /\ merged # None
                                        /\ merged.version >= row.snapshot.version
        BY <1>4, <1>5, MergeTakesNewest DEF FeedInv
    <1>7. AsOf(k, high) = IF upTo = {} THEN None
                          ELSE (CHOOSE row \in upTo : \A other \in upTo :
                                   other.cursor <= row.cursor).snapshot
        BY DEF AsOf
    <1>. HIDE DEF old, merged
    <1>8. merged # None => \E row \in upTo : row.snapshot = merged
        BY <1>2, <1>4, <1>5, <1>6 DEF Between
    <1>9. CASE upTo = {}
        BY <1>7, <1>8, <1>9 DEF merged, old, high
    <1>10. CASE upTo # {}
        <2>. DEFINE last == CHOOSE row \in upTo : \A other \in upTo : other.cursor <= row.cursor
        <2>1. last \in upTo /\ \A other \in upTo : other.cursor <= last.cursor
            <3>1. upTo \in SUBSET changes
                OBVIOUS
            <3>. HIDE DEF upTo
            <3>2. \E row \in upTo : \A other \in upTo : other.cursor <= row.cursor
                BY <1>10, <3>1, LastRow DEF FeedInv
            <3>. QED  BY <3>2
        <2>. HIDE DEF last
        <2>2. /\ last \in changes /\ last.snapshot.key = k /\ last.cursor <= high
              /\ last.snapshot.version \in Nat /\ last.cursor \in Nat
            BY <2>1, RowType DEF FeedInv
        <2>3. merged # None /\ merged.version >= last.snapshot.version
            <3>1. CASE last \in page[d].rows
                BY <1>6, <2>2, <3>1
            <3>2. CASE last \notin page[d].rows
                <4>1. last.cursor <= low
                    BY <1>2, <1>3, <2>2, <3>2 DEF Between
                <4>2. old # None /\ old.version >= last.snapshot.version
                    BY <2>2, <4>1 DEF low, old, FeedInv, Followed, NothingSkipped
                <4>3. old.version \in Nat
                    BY <1>4, <4>2 DEF Snapshot, Version
                <4>4. ASSUME NEW row \in page[d].rows, merged = row.snapshot,
                             row.snapshot.version > old.version
                      PROVE  merged # None /\ merged.version >= last.snapshot.version
                    <5>1. row.snapshot # None /\ row.snapshot.version \in Nat
                        BY <1>5, RowType DEF FeedInv
                    <5>. QED  BY <2>2, <4>2, <4>3, <4>4, <5>1
                <4>. QED  BY <1>6, <4>2, <4>4
            <3>. QED  BY <3>1, <3>2
        <2>4. PICK row \in upTo : row.snapshot = merged
            BY <1>8, <2>3
        <2>5. /\ row \in changes /\ row.snapshot.key = k /\ row.cursor <= last.cursor
              /\ row.snapshot.version \in Nat
            BY <2>1, <2>4, RowType DEF FeedInv
        <2>6. row.snapshot.version <= last.snapshot.version
            BY <2>2, <2>5, LaterRow DEF FeedInv
        <2>7. row.snapshot.version = last.snapshot.version
            BY <2>2, <2>3, <2>4, <2>5, <2>6
        <2>8. row = last
            BY <2>2, <2>5, <2>7, LaterRow DEF FeedInv
        <2>9. AsOf(k, high) = last.snapshot
            BY <1>7, <1>10 DEF last
        <2>. QED  BY <2>4, <2>8, <2>9 DEF merged, old, high
    <1>. QED  BY <1>9, <1>10

LEMMA CaughtUp ==
    FeedInv /\ WindowsSound => CaughtUpMeansEqual
    <1>. SUFFICES ASSUME FeedInv, WindowsSound, NEW d \in Devices
                  PROVE  /\ Position(cursor[d]) = clock =>
                               confirmed[d] = [k \in Keys |-> Snap(k, records[k])]
                         /\ page[d] # None /\ page[d].caughtUp =>
                               \A k \in Keys : Merge(confirmed[d][k], k, page[d].rows)
                                                  = AsOf(k, page[d].next.highWater)
        BY DEF CaughtUpMeansEqual
    <1>1. ASSUME Position(cursor[d]) = clock
          PROVE  confirmed[d] = [k \in Keys |-> Snap(k, records[k])]
        <2>1. \A k \in Keys : confirmed[d][k] = Snap(k, records[k])
            BY <1>1, FollowedToTheEnd
        <2>2. confirmed[d] \in [Keys -> Snapshot \cup {None}]
            BY DEF FeedInv, Followed, ConfirmedInLog
        <2>. QED  BY <2>1, <2>2
    <1>. QED  BY <1>1, CaughtUpPage

\* A device whose position is the clock holds exactly the server's records,
\* tombstones included; and an answer says "caught up" only if, with it, the
\* device holds every record as it stood at the end of the answer's window.
THEOREM CaughtUpAlwaysMeansEqual == FeedSpec => []CaughtUpMeansEqual
    <1>1. FeedInit => WindowsSound
        BY DEF FeedInit, WindowsSound
    <1>2. FeedSpec => []WindowsSound
        BY <1>1, WindowsStep, FeedAlways, PTL DEF FeedSpec
    <1>. QED  BY <1>2, CaughtUp, FeedAlways, PTL

\* A device's view of a record never goes back, and a tombstone it has seen
\* stays, even when the log is replayed to it from the beginning.
THEOREM ConfirmedAlwaysMovesForward == FeedSpec => ConfirmedMovesForward
    <1>. DEFINE Forward ==
            \A d \in Devices, k \in Keys :
               confirmed[d][k] # None =>
               /\ confirmed'[d][k] # None
               /\ confirmed'[d][k].version >= confirmed[d][k].version
               /\ confirmed[d][k].deleted => confirmed'[d][k] = confirmed[d][k]
    <1>1. ASSUME FeedInv, FeedNext PROVE Forward
        <2>. SUFFICES ASSUME NEW e \in Devices, NEW k \in Keys, confirmed[e][k] # None
                      PROVE  /\ confirmed'[e][k] # None
                             /\ confirmed'[e][k].version >= confirmed[e][k].version
                             /\ confirmed[e][k].deleted =>
                                   confirmed'[e][k] = confirmed[e][k]
            OBVIOUS
        <2>1. /\ confirmed[e][k] \in Snapshot
              /\ confirmed[e][k].version \in Nat
            BY <1>1 DEF FeedInv, Followed, ConfirmedInLog, Snapshot, Version
        <2>2. CASE confirmed'[e] = confirmed[e]
            BY <2>1, <2>2
        <2>3. ASSUME NEW d \in Devices, Deliver(d), e = d
              PROVE  \/ confirmed'[e][k] = confirmed[e][k]
                     \/ \E row \in changes :
                           /\ row.snapshot.key = k
                           /\ confirmed'[e][k] = row.snapshot
                           /\ row.snapshot.version > confirmed[e][k].version
            <3>1. page[d].rows \subseteq changes
                BY <1>1, <2>3, DeliverMerges DEF Between
            <3>. QED  BY <1>1, <2>3, <3>1, DeliverMerges
        <2>4. ASSUME NEW row \in changes,
                     row.snapshot.key = k,
                     confirmed'[e][k] = row.snapshot,
                     row.snapshot.version > confirmed[e][k].version
              PROVE  /\ confirmed'[e][k] # None
                     /\ confirmed'[e][k].version >= confirmed[e][k].version
                     /\ ~confirmed[e][k].deleted
            <3>1. PICK seen \in changes :
                     seen.snapshot = confirmed[e][k] /\ seen.snapshot.key = k
                BY <1>1 DEF FeedInv, Followed, ConfirmedInLog
            <3>2. row.snapshot # None /\ row.snapshot.version \in Nat
                BY <1>1, RowType DEF FeedInv
            <3>3. ~seen.snapshot.deleted
                BY <1>1, <2>1, <2>4, <3>1, <3>2, LaterRow DEF FeedInv
            <3>. QED  BY <2>1, <2>4, <3>1, <3>2, <3>3
        <2>5. CASE \A d \in Devices : ~Deliver(d)
            <3>1. confirmed' = confirmed
                BY <1>1, <2>5 DEF FeedNext, FeedPush, Pull, Lose, Reset, deviceVars
            <3>. QED  BY <2>2, <3>1
        <2>6. ASSUME NEW d \in Devices, Deliver(d)
              PROVE  e # d => confirmed'[e] = confirmed[e]
            BY <1>1, <2>6, DeliverMerges
        <2>7. CASE confirmed'[e][k] = confirmed[e][k]
            BY <2>1, <2>7
        <2>. QED  BY <2>2, <2>3, <2>4, <2>5, <2>6, <2>7
    <1>2. FeedInv /\ [FeedNext]_feedVars => [Forward]_feedVars
        BY <1>1
    <1>3. FeedSpec => [][Forward]_feedVars
        BY <1>2, FeedAlways, PTL DEF FeedSpec
    <1>. QED  BY <1>3 DEF ConfirmedMovesForward

-----------------------------------------------------------------------------
(* The handlers: the inductive invariant of SyncTxn.                       *)

\* What a handler holds at each of its program points.
InTransaction == {"locked", "admitted", "commit"}

Write == [record : Record, cursor : Version]

HandlerState ==
    [pc : {"idle", "begin"}, todo : Seq(Mutations), results : Seq(Receipt)]
    \cup [pc : {"locked", "admitted"}, todo : Seq(Mutations), results : Seq(Receipt),
          clock : Nat]
    \cup [pc : {"commit"}, todo : Seq(Mutations), results : Seq(Receipt),
          result : Result, store : BOOLEAN, write : Write \cup {None}]
    \cup [pc : {"committed", "reply"}, todo : Seq(Mutations), results : Seq(Receipt),
          hint : SUBSET Nat]

\* A transaction ready to commit has decided what apply_mutation decides in
\* one step on what is committed now.
Decided(h) ==
    LET m == Current(h)
        s == handler[h]
    IN  /\ s.store = Fresh(m)
        /\ ~Fresh(m) =>
              /\ s.write = None
              /\ s.result = IF ReceiptFor(m).request = m
                            THEN ReceiptFor(m).result ELSE Reused
        /\ Fresh(m) /\ ~Valid(m) => s.write = None /\ s.result = Invalid
        /\ Fresh(m) /\ Valid(m) =>
              /\ s.result = Answer(m, records[m.key])
              /\ ~Applies(m, records[m.key]) => s.write = None
              /\ Applies(m, records[m.key]) =>
                    s.write = [record |-> After(m, records[m.key]), cursor |-> clock + 1]

\* A result a handler will report is settled for good.
Settled(r) ==
    /\ ReceiptFor(r.request) # None
    /\ r.result \in {ReceiptFor(r.request).result, Reused}
    /\ r.result = Reused <=> ReceiptFor(r.request).request # r.request

\* The cursors of the log.
Logged == {row.cursor : row \in changes}

\* The clock row is locked exactly while a transaction that will release it
\* is past the lock; what that transaction has read is still committed.
HandlerSound(h) ==
    /\ handler[h].pc \in {"begin"} \cup InTransaction => handler[h].todo # << >>
    /\ lock = h <=> handler[h].pc \in InTransaction
    /\ handler[h].pc \in {"locked", "admitted"} => handler[h].clock = clock
    /\ handler[h].pc = "admitted" => Fresh(Current(h)) /\ Valid(Current(h))
    /\ handler[h].pc = "commit" => Decided(h)
    /\ \A n \in 1..Len(handler[h].results) : Settled(handler[h].results[n])
    /\ handler[h].pc \in {"committed", "reply"} => handler[h].hint \subseteq Logged

HandlersSound ==
    /\ handler \in [Handlers -> HandlerState]
    /\ \A h \in Handlers : HandlerSound(h)

\* A pull between its two statements has settled where its page will end: no
\* later than the clock it read, and so below whatever is committed since.
ReadingsSound ==
    /\ reading \in [Devices -> [high : Nat, last : Nat] \cup {None}]
    /\ \A d \in Devices :
          reading[d] # None =>
          /\ page[d] = None
          /\ reading[d].last <= clock
          /\ Position(cursor[d]) <= reading[d].last
          /\ reading[d].last <= reading[d].high \/ reading[d].last = Position(cursor[d])

\* No receipt holds the refusal of a reused id.
ReceiptsAreAnswers ==
    \A p \in Clients \X MutationIds : receipts[p] # None => receipts[p].result # Reused

TxnInv ==
    /\ FeedInv
    /\ HandlersSound
    /\ ReadingsSound
    /\ ReceiptsAreAnswers
    /\ HintsFollowCommits

-----------------------------------------------------------------------------
(* Lemmas.                                                                 *)

\* A handler at a program point holds what belongs to it.
LEMMA StateAt ==
    ASSUME HandlersSound, NEW h \in Handlers
    PROVE  /\ handler[h] \in HandlerState
           /\ handler[h].todo \in Seq(Mutations)
           /\ handler[h].results \in Seq(Receipt)
           /\ handler[h].pc \in {"idle", "begin"} =>
                 handler[h] \in [pc : {"idle", "begin"}, todo : Seq(Mutations),
                                results : Seq(Receipt)]
           /\ handler[h].pc \in {"locked", "admitted"} =>
                 handler[h] \in [pc : {"locked", "admitted"}, todo : Seq(Mutations),
                                results : Seq(Receipt), clock : Nat]
           /\ handler[h].pc = "commit" =>
                 handler[h] \in [pc : {"commit"}, todo : Seq(Mutations),
                                results : Seq(Receipt), result : Result,
                                store : BOOLEAN, write : Write \cup {None}]
           /\ handler[h].pc \in {"committed", "reply"} =>
                 handler[h] \in [pc : {"committed", "reply"}, todo : Seq(Mutations),
                                results : Seq(Receipt), hint : SUBSET Nat]
    <1>1. handler[h] \in HandlerState
        BY DEF HandlersSound
    <1>. QED  BY <1>1 DEF HandlerState

\* The operation a handler works on is one a client sent.
LEMMA CurrentType ==
    ASSUME HandlersSound, TypeOK, NEW h \in Handlers,
           handler[h].pc \in {"begin"} \cup InTransaction
    PROVE  /\ Current(h) \in Mutations
           /\ Current(h) \in Mutation
           /\ Current(h).key \in Keys
           /\ records[Current(h).key] \in Record \cup {None}
           /\ <<Current(h).client, Current(h).id>> \in Clients \X MutationIds
           /\ ReceiptFor(Current(h)) \in Receipt \cup {None}
           /\ Tail(handler[h].todo) \in Seq(Mutations)
    <1>1. handler[h].todo \in Seq(Mutations) /\ handler[h].todo # << >>
        BY StateAt DEF HandlersSound, HandlerSound
    <1>2. Current(h) \in Mutations /\ Tail(handler[h].todo) \in Seq(Mutations)
        BY <1>1 DEF Current
    <1>3. Current(h) \in Mutation
        BY <1>2, MutationsAssumption
    <1>. QED  BY <1>2, <1>3 DEF Mutation, TypeOK, ReceiptFor

\* No mutation is answered with the refusal of a reused id.
LEMMA AnswersAreNotReused ==
    /\ Invalid # Reused
    /\ \A m, stored : Answer(m, stored) # Reused
    BY DEF Invalid, Reused, Answer

\* A result that is settled stays settled while receipts are kept.
LEMMA SettledStays ==
    ASSUME TypeOK, NEW r \in Receipt, Settled(r),
           \A p \in Clients \X MutationIds : receipts[p] # None => receipts'[p] = receipts[p]
    PROVE  Settled(r)'
    <1>1. <<r.request.client, r.request.id>> \in Clients \X MutationIds
        BY DEF Receipt, Mutation
    <1>. QED  BY <1>1 DEF Settled, ReceiptFor

\* A handler that takes no part in a step stays sound if receipts and log rows
\* are kept, and if either the tables stay or it holds no lock.
LEMMA BystanderStep ==
    ASSUME HandlersSound, TypeOK, NEW g \in Handlers,
           handler'[g] = handler[g],
           lock' = g <=> lock = g,
           \A p \in Clients \X MutationIds : receipts[p] # None => receipts'[p] = receipts[p],
           changes \subseteq changes',
           \/ clock' = clock /\ records' = records /\ receipts' = receipts
           \/ lock # g
    PROVE  HandlerSound(g)'
    <1>1. HandlerSound(g)
        BY DEF HandlersSound
    <1>2. Logged \subseteq Logged'
        BY DEF Logged
    <1>3. \A n \in 1..Len(handler[g].results) : Settled(handler[g].results[n])'
        <2>1. handler[g].results \in Seq(Receipt)
            BY StateAt
        <2>2. \A n \in 1..Len(handler[g].results) : handler[g].results[n] \in Receipt
            BY <2>1
        <2>. QED  BY <1>1, <2>2, SettledStays DEF HandlerSound
    <1>4. CASE handler[g].pc \notin InTransaction
        BY <1>1, <1>2, <1>3, <1>4 DEF HandlerSound, InTransaction
    <1>5. CASE handler[g].pc \in InTransaction
        <2>1. clock' = clock /\ records' = records /\ receipts' = receipts
            BY <1>1, <1>5 DEF HandlerSound
        <2>2. Current(g)' = Current(g)
            BY DEF Current
        <2>3. /\ Fresh(Current(g))' <=> Fresh(Current(g))
              /\ Decided(g)' <=> Decided(g)
              /\ Valid(Current(g))' <=> Valid(Current(g))
            BY <2>1, <2>2 DEF Fresh, ReceiptFor, Decided, Valid
        <2>. QED  BY <1>1, <1>2, <1>3, <1>5, <2>1, <2>3 DEF HandlerSound, InTransaction
    <1>. QED  BY <1>4, <1>5

-----------------------------------------------------------------------------
(* Steps of a handler that leave the tables alone.                         *)

\* What such a step has to show: that its own handler is sound afterwards,
\* and that it takes nobody else's lock.
LEMMA LocalStep ==
    ASSUME TxnInv, NEW h \in Handlers, NEW state \in HandlerState,
           handler' = [handler EXCEPT ![h] = state],
           UNCHANGED <<feedVars, reading, notified>>,
           hinted' \subseteq Logged,
           \A g \in Handlers : g # h => (lock' = g <=> lock = g),
           HandlerSound(h)'
    PROVE  TxnInv'
    <1>1. FeedInv'
        <2>1. [FeedNext]_feedVars
            OBVIOUS
        <2>. QED  BY <2>1, FeedStep DEF TxnInv
    <1>u. /\ clock' = clock /\ records' = records /\ changes' = changes
          /\ receipts' = receipts /\ cursor' = cursor /\ page' = page
        BY DEF feedVars, serviceVars, deviceVars
    <1>2. HandlersSound'
        <2>1. handler \in [Handlers -> HandlerState]
            BY DEF TxnInv, HandlersSound
        <2>2. handler' \in [Handlers -> HandlerState]
            BY <2>1
        <2>3. \A g \in Handlers : g # h => handler'[g] = handler[g]
            BY <2>1
        <2>4. HandlersSound /\ TypeOK
            BY DEF TxnInv, FeedInv, LogInv
        <2>5. \A g \in Handlers : g # h => HandlerSound(g)'
            BY <1>u, <2>3, <2>4, BystanderStep
        <2>6. \A g \in Handlers : HandlerSound(g)'
            BY <2>5
        <2>. QED  BY <2>2, <2>6 DEF HandlersSound
    <1>3. ReadingsSound'
        BY <1>u DEF TxnInv, ReadingsSound, Position
    <1>4. ReceiptsAreAnswers'
        BY <1>u DEF TxnInv, ReceiptsAreAnswers
    <1>5. HintsFollowCommits'
        BY <1>u DEF TxnInv, HintsFollowCommits, Logged
    <1>. QED  BY <1>1, <1>2, <1>3, <1>4, <1>5 DEF TxnInv

\* The results a handler has collected stay settled while the tables stay.
LEMMA ResultsStay ==
    ASSUME HandlersSound, NEW h \in Handlers, UNCHANGED feedVars,
           handler'[h].results = handler[h].results
    PROVE  (\A n \in 1..Len(handler[h].results) : Settled(handler[h].results[n]))'
    <1>1. \A n \in 1..Len(handler[h].results) : Settled(handler[h].results[n])
        BY DEF HandlersSound, HandlerSound
    <1>2. receipts' = receipts
        BY DEF feedVars, serviceVars
    <1>. QED  BY <1>1, <1>2 DEF Settled, ReceiptFor

\* A batch arrives.
LEMMA ReceiveStep ==
    ASSUME TxnInv, NEW h \in Handlers, NEW batch \in Batches, Receive(h, batch)
    PROVE  TxnInv'
    <1>. DEFINE state == Beginning(batch, << >>)
    <1>1. state \in HandlerState
        BY TxnAssumption DEF Beginning, HandlerState
    <1>2. state.pc = "begin" /\ state.todo # << >> /\ state.results = << >>
        BY TxnAssumption DEF Beginning
    <1>. HIDE DEF state
    <1>3. /\ handler[h].pc = "idle"
          /\ handler' = [handler EXCEPT ![h] = state]
          /\ UNCHANGED <<feedVars, reading, notified, hinted, lock>>
        BY DEF Receive, Local, At, state
    <1>4. handler'[h] = state
        BY <1>3 DEF TxnInv, HandlersSound
    <1>5. HandlerSound(h)'
        <2>1. lock' # h
            BY <1>3 DEF TxnInv, HandlersSound, HandlerSound, InTransaction
        <2>2. Len(state.results) = 0
            BY <1>2
        <2>. QED  BY <1>2, <1>4, <2>1, <2>2 DEF HandlerSound, InTransaction
    <1>. QED  BY <1>1, <1>3, <1>5, LocalStep DEF TxnInv, HintsFollowCommits, Logged

\* A handler locks the clock row and reads it.
LEMMA LockClockStep ==
    ASSUME TxnInv, NEW h \in Handlers, LockClock(h)
    PROVE  TxnInv'
    <1>. DEFINE state == [pc |-> "locked", todo |-> handler[h].todo,
                          results |-> handler[h].results, clock |-> clock]
    <1>s. HandlersSound /\ TypeOK
        BY DEF TxnInv, FeedInv, LogInv
    <1>1. state \in HandlerState
        BY <1>s, StateAt DEF HandlerState, TypeOK
    <1>2. /\ state.pc = "locked"
          /\ state.todo = handler[h].todo
          /\ state.results = handler[h].results
          /\ state.clock = clock
        OBVIOUS
    <1>. HIDE DEF state
    <1>3. /\ handler[h].pc = "begin" /\ lock = None /\ lock' = h
          /\ handler' = [handler EXCEPT ![h] = state]
          /\ UNCHANGED <<feedVars, reading, notified, hinted>>
        BY DEF LockClock, Local, At, state
    <1>4. handler'[h] = state
        BY <1>3, <1>s DEF HandlersSound
    <1>5. clock' = clock
        BY <1>3 DEF feedVars, serviceVars
    <1>6. HandlerSound(h)'
        <2>1. handler[h].todo # << >>
            BY <1>3, <1>s DEF HandlersSound, HandlerSound
        <2>2. (\A n \in 1..Len(handler[h].results) : Settled(handler[h].results[n]))'
            BY <1>s, <1>2, <1>3, <1>4, ResultsStay
        <2>. QED  BY <1>2, <1>3, <1>4, <1>5, <2>1, <2>2 DEF HandlerSound, InTransaction
    <1>7. \A g \in Handlers : g # h => (lock' = g <=> lock = g)
        BY <1>3, TxnAssumption
    <1>. QED  BY <1>1, <1>3, <1>6, <1>7, LocalStep DEF TxnInv, HintsFollowCommits, Logged

\* A transaction that has decided its operation is ready to commit.
LEMMA StagedStep ==
    ASSUME TxnInv, NEW h \in Handlers, NEW result \in Result, NEW store \in BOOLEAN,
           NEW write \in Write \cup {None},
           handler[h].pc \in {"locked", "admitted"},
           Local(h, Staged(h, result, store, write)), UNCHANGED lock,
           LET m == Current(h)
           IN  /\ store = Fresh(m)
               /\ ~Fresh(m) =>
                     /\ write = None
                     /\ result = IF ReceiptFor(m).request = m
                                 THEN ReceiptFor(m).result ELSE Reused
               /\ Fresh(m) /\ ~Valid(m) => write = None /\ result = Invalid
               /\ Fresh(m) /\ Valid(m) =>
                     /\ result = Answer(m, records[m.key])
                     /\ ~Applies(m, records[m.key]) => write = None
                     /\ Applies(m, records[m.key]) =>
                           write = [record |-> After(m, records[m.key]),
                                    cursor |-> clock + 1]
    PROVE  TxnInv'
    <1>. DEFINE state == Staged(h, result, store, write)
    <1>s. HandlersSound /\ TypeOK
        BY DEF TxnInv, FeedInv, LogInv
    <1>1. state \in HandlerState
        BY <1>s, StateAt DEF HandlerState, Staged
    <1>2. /\ state.pc = "commit"
          /\ state.todo = handler[h].todo
          /\ state.results = handler[h].results
          /\ state.result = result
          /\ state.store = store
          /\ state.write = write
        BY DEF Staged
    <1>3. /\ handler' = [handler EXCEPT ![h] = state]
          /\ UNCHANGED <<feedVars, reading, notified, hinted, lock>>
        BY DEF Local
    <1>. HIDE DEF state
    <1>4. handler'[h] = state
        BY <1>3, <1>s DEF HandlersSound
    <1>5. clock' = clock /\ records' = records /\ receipts' = receipts
        BY <1>3 DEF feedVars, serviceVars
    <1>6. Current(h)' = Current(h)
        BY <1>2, <1>4 DEF Current
    <1>7. Decided(h)'
        BY <1>2, <1>4, <1>5, <1>6 DEF Decided, Fresh, ReceiptFor
    <1>8. HandlerSound(h)'
        <2>1. handler[h].todo # << >> /\ lock = h
            BY <1>s DEF HandlersSound, HandlerSound, InTransaction
        <2>2. (\A n \in 1..Len(handler[h].results) : Settled(handler[h].results[n]))'
            BY <1>s, <1>2, <1>3, <1>4, ResultsStay
        <2>. QED  BY <1>2, <1>3, <1>4, <1>7, <2>1, <2>2 DEF HandlerSound, InTransaction
    <1>. QED  BY <1>1, <1>3, <1>8, LocalStep DEF TxnInv, HintsFollowCommits, Logged

\* The receipt lookup finds the answer, refuses the request or admits it.
LEMMA ReadReceiptStep ==
    ASSUME TxnInv, NEW h \in Handlers, ReadReceipt(h)
    PROVE  TxnInv'
    <1>. DEFINE m == Current(h)
    <1>s. HandlersSound /\ TypeOK
        BY DEF TxnInv, FeedInv, LogInv
    <1>1. handler[h].pc = "locked" /\ lock' = lock
        BY DEF ReadReceipt, At
    <1>2. ReceiptFor(m) \in Receipt \cup {None}
        BY <1>s, <1>1, CurrentType DEF InTransaction
    <1>3. CASE Fresh(m) /\ Valid(m)
        <2>. DEFINE state == Goto(h, "admitted")
        <2>1. handler[h] \in [pc : {"locked", "admitted"}, todo : Seq(Mutations),
                              results : Seq(Receipt), clock : Nat]
            BY <1>s, <1>1, StateAt
        <2>2. /\ state \in [pc : {"locked", "admitted"}, todo : Seq(Mutations),
                            results : Seq(Receipt), clock : Nat]
              /\ state.pc = "admitted"
              /\ state.todo = handler[h].todo
              /\ state.results = handler[h].results
              /\ state.clock = handler[h].clock
            BY <2>1 DEF Goto
        <2>3. /\ handler' = [handler EXCEPT ![h] = state]
              /\ UNCHANGED <<feedVars, reading, notified, hinted, lock>>
            BY <1>3 DEF ReadReceipt, Local
        <2>. HIDE DEF state
        <2>4. handler'[h] = state
            BY <2>3, <1>s DEF HandlersSound
        <2>5. clock' = clock /\ receipts' = receipts
            BY <2>3 DEF feedVars, serviceVars
        <2>6. Current(h)' = m
            BY <2>2, <2>4 DEF Current
        <2>7. Fresh(Current(h))' /\ Valid(Current(h))'
            BY <1>3, <2>5, <2>6 DEF Fresh, ReceiptFor, Valid
        <2>8. HandlerSound(h)'
            <3>1. handler[h].todo # << >> /\ lock = h /\ handler[h].clock = clock
                BY <1>s, <1>1 DEF HandlersSound, HandlerSound, InTransaction
            <3>2. (\A n \in 1..Len(handler[h].results) : Settled(handler[h].results[n]))'
                BY <1>s, <2>2, <2>3, <2>4, ResultsStay
            <3>. QED  BY <2>2, <2>3, <2>4, <2>5, <2>7, <3>1, <3>2
                      DEF HandlerSound, InTransaction
        <2>9. state \in HandlerState
            BY <2>2 DEF HandlerState
        <2>. QED  BY <2>3, <2>8, <2>9, LocalStep DEF TxnInv, HintsFollowCommits, Logged
    <1>4. CASE Fresh(m) /\ ~Valid(m)
        <2>1. Local(h, Staged(h, Invalid, TRUE, None))
            BY <1>4 DEF ReadReceipt
        <2>2. Invalid \in Result
            BY DEF Invalid, Result, Status
        <2>. QED  BY <1>1, <1>4, <2>1, <2>2, StagedStep
    <1>5. CASE ~Fresh(m)
        <2>. DEFINE found == IF ReceiptFor(m).request = m THEN ReceiptFor(m).result ELSE Reused
        <2>1. Local(h, Staged(h, found, FALSE, None))
            BY <1>5 DEF ReadReceipt
        <2>2. ReceiptFor(m) \in Receipt
            BY <1>2, <1>5 DEF Fresh
        <2>3. found \in Result
            BY <2>2 DEF Receipt, Reused, Result, Status
        <2>4. FALSE = Fresh(m)
            BY <1>5 DEF Fresh
        <2>. QED  BY <1>1, <1>5, <2>1, <2>3, <2>4, StagedStep
    <1>. QED  BY <1>3, <1>4, <1>5

\* The record read, and the writes staged.
LEMMA ReadRecordStep ==
    ASSUME TxnInv, NEW h \in Handlers, ReadRecord(h)
    PROVE  TxnInv'
    <1>. DEFINE m == Current(h)
                stored == records[m.key]
                write == IF Applies(m, stored)
                         THEN [record |-> After(m, stored), cursor |-> handler[h].clock + 1]
                         ELSE None
    <1>s. HandlersSound /\ TypeOK
        BY DEF TxnInv, FeedInv, LogInv
    <1>1. handler[h].pc = "admitted" /\ lock' = lock
        BY DEF ReadRecord, At
    <1>2. /\ m \in Mutation
          /\ stored \in Record \cup {None}
        BY <1>s, <1>1, CurrentType DEF InTransaction
    <1>3. Fresh(m) /\ Valid(m) /\ handler[h].clock = clock
        BY <1>s, <1>1 DEF HandlersSound, HandlerSound
    <1>4. Answer(m, stored) \in Result
        BY <1>2, <1>3, AnswerType
    <1>5. write \in Write \cup {None}
        BY <1>2, <1>3, <1>s, AfterType DEF Write, Version, TypeOK
    <1>6. Local(h, Staged(h, Answer(m, stored), TRUE, write))
        BY DEF ReadRecord
    <1>7. TRUE = Fresh(m)
        BY <1>3 DEF Fresh
    <1>8. /\ ~Applies(m, stored) => write = None
          /\ Applies(m, stored) => write = [record |-> After(m, stored), cursor |-> clock + 1]
        BY <1>3
    <1>. HIDE DEF write
    <1>. QED  BY <1>1, <1>3, <1>4, <1>5, <1>6, <1>7, <1>8, StagedStep

\* A handler that ends its work, or whose transaction rolls back, is idle
\* and holds no lock.
LEMMA IdleStep ==
    ASSUME TxnInv, NEW h \in Handlers, Local(h, Idle),
           lock' = IF lock = h THEN None ELSE lock
    PROVE  TxnInv'
    <1>1. Idle \in HandlerState
        BY DEF Idle, HandlerState
    <1>2. Idle.pc = "idle" /\ Len(Idle.results) = 0
        BY DEF Idle
    <1>3. /\ handler' = [handler EXCEPT ![h] = Idle]
          /\ UNCHANGED <<feedVars, reading, notified, hinted>>
        BY DEF Local
    <1>4. handler'[h] = Idle
        BY <1>3 DEF TxnInv, HandlersSound
    <1>5. /\ lock' # h
          /\ \A g \in Handlers : g # h => (lock' = g <=> lock = g)
        BY TxnAssumption
    <1>6. HandlerSound(h)'
        BY <1>2, <1>4, <1>5 DEF HandlerSound, InTransaction
    <1>. QED  BY <1>1, <1>3, <1>5, <1>6, LocalStep DEF TxnInv, HintsFollowCommits, Logged

\* The handler hints what it committed, and goes on with its batch.
LEMMA ContinueStep ==
    ASSUME TxnInv, NEW h \in Handlers, Continue(h)
    PROVE  TxnInv'
    <1>. DEFINE state == IF handler[h].todo = << >> THEN Goto(h, "reply")
                         ELSE Beginning(handler[h].todo, handler[h].results)
    <1>s. HandlersSound /\ TypeOK
        BY DEF TxnInv, FeedInv, LogInv
    <1>1. handler[h].pc = "committed"
        BY DEF Continue, At
    <1>2. handler[h] \in [pc : {"committed", "reply"}, todo : Seq(Mutations),
                          results : Seq(Receipt), hint : SUBSET Nat]
        BY <1>s, <1>1, StateAt
    <1>3. /\ handler' = [handler EXCEPT ![h] = state]
          /\ hinted' = hinted \cup handler[h].hint
          /\ UNCHANGED <<feedVars, lock, reading, notified>>
        BY DEF Continue
    <1>4. /\ state \in HandlerState
          /\ state.results = handler[h].results
          /\ state.pc = "begin" => state.todo # << >>
          /\ state.pc \in {"begin", "reply"}
          /\ state.pc = "reply" => state.hint = handler[h].hint
        <2>1. CASE handler[h].todo = << >>
            <3>1. /\ Goto(h, "reply") \in [pc : {"committed", "reply"}, todo : Seq(Mutations),
                                           results : Seq(Receipt), hint : SUBSET Nat]
                  /\ Goto(h, "reply").pc = "reply"
                  /\ Goto(h, "reply").results = handler[h].results
                  /\ Goto(h, "reply").hint = handler[h].hint
                BY <1>2 DEF Goto
            <3>. QED  BY <2>1, <3>1 DEF HandlerState
        <2>2. CASE handler[h].todo # << >>
            BY <1>2, <2>2 DEF Beginning, HandlerState
        <2>. QED  BY <2>1, <2>2
    <1>. HIDE DEF state
    <1>5. handler'[h] = state
        BY <1>3, <1>s DEF HandlersSound
    <1>6. lock # h /\ handler[h].hint \subseteq Logged
        BY <1>s, <1>1 DEF HandlersSound, HandlerSound, InTransaction
    <1>7. Logged' = Logged
        BY <1>3 DEF feedVars, serviceVars, Logged
    <1>8. HandlerSound(h)'
        <2>1. (\A n \in 1..Len(handler[h].results) : Settled(handler[h].results[n]))'
            BY <1>s, <1>3, <1>4, <1>5, ResultsStay
        <2>. QED  BY <1>3, <1>4, <1>5, <1>6, <1>7, <2>1 DEF HandlerSound, InTransaction
    <1>9. hinted' \subseteq Logged
        BY <1>3, <1>6 DEF TxnInv, HintsFollowCommits, Logged
    <1>. QED  BY <1>3, <1>4, <1>8, <1>9, LocalStep

-----------------------------------------------------------------------------
(* The commit.                                                             *)

\* A commit does to the tables what the service of SyncFeed does in one step,
\* and logs exactly the cursor it hints and notifies.
LEMMA CommitIsPush ==
    ASSUME TxnInv, NEW h \in Handlers, Commit(h)
    PROVE  /\ Push(Current(h))
           /\ Logged' = Logged \cup (IF handler[h].write = None THEN {}
                                      ELSE {handler[h].write.cursor})
    <1>. DEFINE m == Current(h)
                s == handler[h]
                stored == records[m.key]
    <1>s. HandlersSound /\ TypeOK
        BY DEF TxnInv, FeedInv, LogInv
    <1>1. s.pc = "commit"
        BY DEF Commit, At
    <1>2. Decided(h)
        BY <1>s, <1>1 DEF HandlersSound, HandlerSound
    <1>3. m \in Mutation /\ stored \in Record \cup {None}
        BY <1>s, <1>1, CurrentType DEF InTransaction
    <1>4. /\ receipts' = IF s.store
                         THEN [receipts EXCEPT ![<<m.client, m.id>>] = Entry(m, s.result)]
                         ELSE receipts
          /\ outcomes' = outcomes \cup {Entry(m, s.result)}
        BY DEF Commit
    <1>5. s.write = None => UNCHANGED <<clock, records, changes>> /\ Logged' = Logged
        BY DEF Commit, Logged
    <1>6. CASE ~Fresh(m)
        <2>1. s.store = FALSE /\ s.write = None
            BY <1>2, <1>6 DEF Decided, Fresh
        <2>2. CASE ReceiptFor(m).request = m
            <3>1. s.result = ReceiptFor(m).result
                BY <1>2, <1>6, <2>2 DEF Decided
            <3>2. Replay(m)
                BY <1>4, <1>5, <1>6, <2>1, <2>2, <3>1 DEF Replay, tables
            <3>. QED  BY <1>5, <2>1, <3>2 DEF Push
        <2>3. CASE ReceiptFor(m).request # m
            <3>1. s.result = Reused
                BY <1>2, <1>6, <2>3 DEF Decided
            <3>2. RefuseReuse(m)
                BY <1>4, <1>5, <1>6, <2>1, <2>3, <3>1 DEF RefuseReuse, tables
            <3>. QED  BY <1>5, <2>1, <3>2 DEF Push
        <2>. QED  BY <2>2, <2>3
    <1>7. CASE Fresh(m)
        <2>1. s.store
            BY <1>2, <1>7 DEF Decided, Fresh
        <2>2. Settle(m, s.result)
            BY <1>4, <2>1 DEF Settle
        <2>3. CASE ~Valid(m)
            <3>1. s.write = None /\ s.result = Invalid
                BY <1>2, <1>7, <2>3 DEF Decided
            <3>2. RefuseInvalid(m)
                BY <1>5, <1>7, <2>2, <2>3, <3>1 DEF RefuseInvalid
            <3>. QED  BY <1>5, <3>1, <3>2 DEF Push
        <2>4. CASE Valid(m) /\ ~Applies(m, stored)
            <3>1. s.write = None /\ s.result = Answer(m, stored)
                BY <1>2, <1>7, <2>4 DEF Decided
            <3>2. Refuse(m)
                BY <1>5, <1>7, <2>2, <2>4, <3>1 DEF Refuse
            <3>. QED  BY <1>5, <3>1, <3>2 DEF Push
        <2>5. CASE Valid(m) /\ Applies(m, stored)
            <3>1. /\ s.write = [record |-> After(m, stored), cursor |-> clock + 1]
                  /\ s.result = Answer(m, stored)
                BY <1>2, <1>7, <2>5 DEF Decided
            <3>2. s.write # None
                <4>1. After(m, stored) \in Record
                    BY <1>3, <2>5, AfterType
                <4>2. s.write \in [record : Record, cursor : Version]
                    BY <1>s, <3>1, <4>1 DEF TypeOK, Version
                <4>. QED  BY <4>2, TxnAssumption
            <3>3. /\ s.write.record = After(m, stored)
                  /\ s.write.cursor = clock + 1
                BY <3>1
            <3>4. /\ clock' = s.write.cursor
                  /\ records' = [records EXCEPT ![m.key] = s.write.record]
                  /\ changes' = changes \cup
                        {[cursor |-> s.write.cursor, snapshot |-> Snap(m.key, s.write.record)]}
                BY <3>2 DEF Commit
            <3>5. changes' = changes \cup {LogRow(m)}
                BY <3>3, <3>4 DEF LogRow
            <3>6. Apply(m)
                BY <1>7, <2>2, <2>5, <3>1, <3>3, <3>4, <3>5 DEF Apply
            <3>7. Logged' = Logged \cup {s.write.cursor}
                <4>. DEFINE new == [cursor   |-> s.write.cursor,
                                    snapshot |-> Snap(m.key, s.write.record)]
                <4>1. changes' = changes \cup {new} /\ new.cursor = s.write.cursor
                    BY <3>4
                <4>. HIDE DEF new
                <4>. QED  BY <4>1 DEF Logged
            <3>. QED  BY <3>2, <3>6, <3>7 DEF Push
        <2>. QED  BY <2>3, <2>4, <2>5
    <1>. QED  BY <1>6, <1>7

\* The result a commit makes known is settled by it; no receipt is replaced.
LEMMA CommitSettles ==
    ASSUME TxnInv, NEW h \in Handlers, Commit(h)
    PROVE  /\ \A p \in Clients \X MutationIds :
                 receipts[p] # None => receipts'[p] = receipts[p]
           /\ Entry(Current(h), handler[h].result) \in Receipt
           /\ LET r == Entry(Current(h), handler[h].result)
                  held == receipts'[<<r.request.client, r.request.id>>]
              IN  /\ held # None
                  /\ r.result \in {held.result, Reused}
                  /\ r.result = Reused <=> held.request # r.request
           /\ ReceiptsAreAnswers'
    <1>. DEFINE m == Current(h)
                s == handler[h]
                here == <<m.client, m.id>>
    <1>s. HandlersSound /\ TypeOK
        BY DEF TxnInv, FeedInv, LogInv
    <1>1. s.pc = "commit"
        BY DEF Commit, At
    <1>2. Decided(h)
        BY <1>s, <1>1 DEF HandlersSound, HandlerSound
    <1>3. /\ m \in Mutation
          /\ here \in Clients \X MutationIds
          /\ ReceiptFor(m) \in Receipt \cup {None}
        BY <1>s, <1>1, CurrentType DEF InTransaction
    <1>4. s.result \in Result
        BY <1>s, <1>1, StateAt
    <1>5. /\ Entry(m, s.result) \in Receipt
          /\ Entry(m, s.result).request = m
          /\ Entry(m, s.result).result = s.result
          /\ Entry(m, s.result) # None
        BY <1>3, <1>4, AbsentAssumption DEF Entry, Receipt
    <1>6. receipts' = IF s.store
                      THEN [receipts EXCEPT ![here] = Entry(m, s.result)]
                      ELSE receipts
        BY DEF Commit
    <1>7. CASE ~Fresh(m)
        <2>1. /\ receipts' = receipts
              /\ s.result = IF ReceiptFor(m).request = m THEN ReceiptFor(m).result ELSE Reused
            BY <1>2, <1>6, <1>7 DEF Decided, Fresh
        <2>2. ReceiptFor(m) # None /\ ReceiptFor(m).result # Reused
            BY <1>3, <1>7 DEF Fresh, ReceiptFor, TxnInv, ReceiptsAreAnswers
        <2>. QED  BY <1>5, <2>1, <2>2 DEF TxnInv, ReceiptsAreAnswers, ReceiptFor
    <1>8. CASE Fresh(m)
        <2>r. s.store
            BY <1>2, <1>8 DEF Decided, Fresh
        <2>a. s.result = Invalid \/ s.result = Answer(m, records[m.key])
            BY <1>2, <1>8 DEF Decided
        <2>1. /\ s.store
              /\ s.result # Reused
              /\ receipts[here] = None
            BY <2>r, <2>a, <1>8, AnswersAreNotReused DEF Fresh, ReceiptFor
        <2>2. /\ receipts'[here] = Entry(m, s.result)
              /\ \A p \in Clients \X MutationIds : p # here => receipts'[p] = receipts[p]
            BY <1>3, <1>6, <1>s, <2>1 DEF TypeOK
        <2>3. ReceiptsAreAnswers'
            BY <1>5, <2>1, <2>2 DEF TxnInv, ReceiptsAreAnswers
        <2>4. \A p \in Clients \X MutationIds :
                 receipts[p] # None => receipts'[p] = receipts[p]
            BY <2>1, <2>2
        <2>. QED  BY <1>5, <2>1, <2>2, <2>3, <2>4
    <1>. QED  BY <1>7, <1>8

\* A commit keeps everything sound.
LEMMA CommitStep ==
    ASSUME TxnInv, NEW h \in Handlers, Commit(h)
    PROVE  TxnInv'
    <1>. DEFINE m == Current(h)
                s == handler[h]
                hint == IF s.write = None THEN {} ELSE {s.write.cursor}
                entry == Entry(m, s.result)
                state == [pc |-> "committed", todo |-> Tail(s.todo),
                          results |-> Append(s.results, entry), hint |-> hint]
    <1>s. HandlersSound /\ TypeOK
        BY DEF TxnInv, FeedInv, LogInv
    <1>1. s.pc = "commit" /\ lock = h
        BY <1>s DEF Commit, At, HandlersSound, HandlerSound, InTransaction
    <1>2. m \in Mutations /\ Tail(s.todo) \in Seq(Mutations)
        BY <1>s, <1>1, CurrentType DEF InTransaction
    <1>3. /\ Push(m)
          /\ Logged' = Logged \cup hint
        BY CommitIsPush
    <1>4. /\ \A p \in Clients \X MutationIds :
                receipts[p] # None => receipts'[p] = receipts[p]
          /\ entry \in Receipt
          /\ LET held == receipts'[<<entry.request.client, entry.request.id>>]
             IN  /\ held # None
                 /\ entry.result \in {held.result, Reused}
                 /\ entry.result = Reused <=> held.request # entry.request
          /\ ReceiptsAreAnswers'
        BY CommitSettles
    <1>5. s \in [pc : {"commit"}, todo : Seq(Mutations), results : Seq(Receipt),
                 result : Result, store : BOOLEAN, write : Write \cup {None}]
        BY <1>s, <1>1, StateAt
    <1>6. /\ state.pc = "committed"
          /\ state.hint = hint
          /\ state.results = Append(s.results, entry)
          /\ state \in HandlerState
        <2>1. hint \in SUBSET Nat
            BY <1>5 DEF Write, Version
        <2>2. Append(s.results, entry) \in Seq(Receipt)
            <3>. HIDE DEF entry
            <3>. QED  BY <1>4, <1>5
        <2>. HIDE DEF hint, entry
        <2>. QED  BY <1>2, <2>1, <2>2 DEF HandlerState
    <1>7. /\ lock' = None
          /\ handler' = [handler EXCEPT ![h] = state]
          /\ notified' = notified \cup hint
          /\ UNCHANGED <<deviceVars, reading, hinted>>
        BY DEF Commit
    <1>. HIDE DEF state, entry, hint
    <1>8. handler \in [Handlers -> HandlerState]
        BY <1>s DEF HandlersSound
    <1>9. /\ handler' \in [Handlers -> HandlerState]
          /\ handler'[h] = state
          /\ \A g \in Handlers : g # h => handler'[g] = handler[g]
        BY <1>6, <1>7, <1>8
    <1>g. /\ clock \in Nat /\ clock' \in Nat
          /\ clock <= clock'
          /\ changes \subseteq changes'
        <2>1. [AnyPush]_serviceVars
            BY <1>2, <1>3, MutationsAssumption DEF AnyPush
        <2>. QED  BY <2>1, LogGrows DEF TxnInv, FeedInv
    <1>10. FeedInv'
        <2>1. [FeedNext]_feedVars
            BY <1>2, <1>3, <1>7 DEF FeedNext, FeedPush
        <2>. QED  BY <2>1, FeedStep DEF TxnInv
    <1>11. HandlersSound'
        <2>1. ASSUME NEW g \in Handlers, g # h PROVE HandlerSound(g)'
            <3>1. handler'[g] = handler[g] /\ lock # g /\ lock' # g
                BY <1>1, <1>7, <1>9, <2>1, TxnAssumption
            <3>. QED  BY <1>s, <1>4, <1>g, <3>1, BystanderStep
        <2>2. HandlerSound(h)'
            <3>1. lock' # h
                BY <1>7, TxnAssumption
            <3>2. ASSUME NEW n \in 1..Len(state.results)
                  PROVE  LET r == state.results[n]
                             held == receipts'[<<r.request.client, r.request.id>>]
                         IN  /\ held # None
                             /\ r.result \in {held.result, Reused}
                             /\ r.result = Reused <=> held.request # r.request
                <4>1. s.results \in Seq(Receipt)
                    BY <1>5
                <4>2. /\ Len(state.results) = Len(s.results) + 1
                      /\ state.results[Len(s.results) + 1] = entry
                      /\ \A i \in 1..Len(s.results) : state.results[i] = s.results[i]
                    BY <1>4, <1>6, <4>1
                <4>3. CASE n = Len(s.results) + 1
                    <5>1. state.results[n] = entry
                        BY <4>2, <4>3
                    <5>. QED  BY <1>4, <5>1
                <4>4. CASE n \in 1..Len(s.results)
                    <5>1. s.results[n] \in Receipt /\ state.results[n] = s.results[n]
                        BY <4>1, <4>2, <4>4
                    <5>2. Settled(s.results[n])
                        BY <1>s, <4>4 DEF HandlersSound, HandlerSound
                    <5>3. <<s.results[n].request.client, s.results[n].request.id>>
                             \in Clients \X MutationIds
                        BY <5>1 DEF Receipt, Mutation
                    <5>. QED  BY <1>4, <5>1, <5>2, <5>3 DEF Settled, ReceiptFor
                <4>5. Len(s.results) \in Nat
                    BY <4>1
                <4>6. n = Len(s.results) + 1 \/ n \in 1..Len(s.results)
                    BY <4>2, <4>5
                <4>. QED  BY <4>3, <4>4, <4>6
            <3>3. (\A n \in 1..Len(handler[h].results) : Settled(handler[h].results[n]))'
                BY <1>9, <3>2 DEF Settled, ReceiptFor
            <3>4. handler'[h].hint \subseteq Logged'
                BY <1>3, <1>6, <1>9
            <3>. QED  BY <1>6, <1>9, <3>1, <3>3, <3>4 DEF HandlerSound, InTransaction
        <2>. QED  BY <1>9, <2>1, <2>2 DEF HandlersSound
    <1>12. ReadingsSound'
        <2>1. cursor' = cursor /\ page' = page /\ reading' = reading
            BY <1>7 DEF deviceVars
        <2>2. \A d \in Devices : reading[d] # None => reading[d].last \in Nat
            BY DEF TxnInv, ReadingsSound
        <2>3. \A d \in Devices : reading[d] # None => reading[d].last <= clock'
            BY <1>g, <2>2 DEF TxnInv, ReadingsSound
        <2>. QED  BY <2>1, <2>3 DEF TxnInv, ReadingsSound, Position
    <1>13. HintsFollowCommits'
        BY <1>3, <1>7 DEF TxnInv, HintsFollowCommits, Logged
    <1>. QED  BY <1>4, <1>10, <1>11, <1>12, <1>13 DEF TxnInv

-----------------------------------------------------------------------------
(* The pulls.                                                              *)

\* A reading covers everything between the position of its device and the end
\* of the page it will make, now and later.
LEMMA ReadingIsContiguous ==
    ASSUME LogInv, CursorsInLog, ReadingsSound, NEW d \in Devices, reading[d] # None
    PROVE  LET answer == PageUpTo(cursor[d], reading[d].high, changes, reading[d].last)
           IN  /\ reading[d].high \in Nat /\ reading[d].last \in Nat
               /\ answer.next \in Cursor
               /\ answer.next.position = reading[d].last
               /\ answer.rows = Between(Position(cursor[d]), reading[d].last)
    <1>. DEFINE high == reading[d].high
                last == reading[d].last
                low == Position(cursor[d])
    <1>1. reading[d] \in [high : Nat, last : Nat]
        BY DEF ReadingsSound
    <1>2. high \in Nat /\ last \in Nat
        BY <1>1
    <1>3. low \in Nat
        BY PositionType DEF CursorsInLog
    <1>4. last <= high \/ last = low
        BY DEF ReadingsSound
    <1>. HIDE DEF high, last
    <1>5. \A row \in changes :
             low < row.cursor /\ row.cursor <= last => row.cursor <= high
        BY <1>2, <1>3, <1>4, RowType
    <1>6. {row \in Window(cursor[d], high, changes) : row.cursor <= last} = Between(low, last)
        BY <1>5 DEF Window, Between
    <1>7. PageUpTo(cursor[d], high, changes, last).next = [position |-> last, highWater |-> high]
        BY DEF PageUpTo
    <1>8. PageUpTo(cursor[d], high, changes, last).rows = Between(low, last)
        BY <1>6 DEF PageUpTo
    <1>9. /\ PageUpTo(cursor[d], high, changes, last).next \in Cursor
          /\ PageUpTo(cursor[d], high, changes, last).next.position = last
        BY <1>2, <1>7 DEF Cursor
    <1>. QED  BY <1>2, <1>8, <1>9 DEF high, last

\* The steps of the devices and of their pulls touch no handler.
LEMMA PullsLeaveHandlers ==
    ASSUME TxnInv, UNCHANGED <<serviceVars, lock, handler, notified, hinted>>
    PROVE  /\ LogInv' /\ HandlersSound' /\ ReceiptsAreAnswers' /\ HintsFollowCommits'
           /\ clock' = clock /\ changes' = changes
    <1>u. /\ clock' = clock /\ records' = records /\ changes' = changes
          /\ receipts' = receipts
        BY DEF serviceVars
    <1>1. LogInv'
        <2>1. [AnyPush]_serviceVars
            OBVIOUS
        <2>. QED  BY <2>1, LogStep DEF TxnInv, FeedInv
    <1>2. HandlersSound'
        <2>1. HandlersSound /\ TypeOK
            BY DEF TxnInv, FeedInv, LogInv
        <2>2. \A h \in Handlers : HandlerSound(h)'
            BY <1>u, <2>1, BystanderStep
        <2>. QED  BY <2>1, <2>2 DEF HandlersSound
    <1>3. ReceiptsAreAnswers' /\ HintsFollowCommits'
        BY <1>u DEF TxnInv, ReceiptsAreAnswers, HintsFollowCommits
    <1>. QED  BY <1>u, <1>1, <1>2, <1>3

\* The first statement of a pull.
LEMMA PullClockStep ==
    ASSUME TxnInv, NEW d \in Devices, PullClock(d)
    PROVE  TxnInv'
    <1>. DEFINE high == HighWater(cursor[d], clock)
    <1>1. PICK last \in PageEnds(cursor[d], high, changes) :
             reading' = [reading EXCEPT ![d] = [high |-> high, last |-> last]]
        BY DEF PullClock
    <1>u. /\ UNCHANGED <<serviceVars, lock, handler, notified, hinted>>
          /\ UNCHANGED feedVars
          /\ cursor' = cursor /\ page' = page /\ page[d] = None
        BY DEF PullClock, feedVars, deviceVars
    <1>2. cursor[d] \in Cursor \cup {None} /\ Position(cursor[d]) <= clock
        BY DEF TxnInv, FeedInv, Followed, CursorsInLog
    <1>3. high \in Nat
        BY <1>2, HighWaterType DEF TxnInv, FeedInv
    <1>. HIDE DEF high
    <1>4. last \in Nat /\ last <= clock /\ Position(cursor[d]) <= last
        BY <1>1, <1>2, <1>3, PageIsContiguous DEF TxnInv, FeedInv
    <1>5. last <= high \/ last = Position(cursor[d])
        BY <1>1 DEF PageEnds, Window
    <1>6. LogInv' /\ HandlersSound' /\ ReceiptsAreAnswers' /\ HintsFollowCommits' /\ clock' = clock
        BY <1>u, PullsLeaveHandlers
    <1>7. ReadingsSound'
        <2>1. /\ [high |-> high, last |-> last] \in [high : Nat, last : Nat]
              /\ [high |-> high, last |-> last].last = last
              /\ [high |-> high, last |-> last].high = high
            BY <1>3, <1>4
        <2>. DEFINE new == [high |-> high, last |-> last]
        <2>. HIDE DEF new
        <2>2. /\ new \in [high : Nat, last : Nat] /\ new.last = last /\ new.high = high
              /\ reading' = [reading EXCEPT ![d] = new]
            BY <1>1, <2>1 DEF new
        <2>3. reading' \in [Devices -> [high : Nat, last : Nat] \cup {None}]
            BY <2>2 DEF TxnInv, ReadingsSound
        <2>4. /\ reading'[d] = new
              /\ \A e \in Devices : e # d => reading'[e] = reading[e]
            BY <2>2 DEF TxnInv, ReadingsSound
        <2>5. \A e \in Devices :
                 reading'[e] # None =>
                 /\ page[e] = None
                 /\ reading'[e].last <= clock
                 /\ Position(cursor[e]) <= reading'[e].last
                 /\ \/ reading'[e].last <= reading'[e].high
                    \/ reading'[e].last = Position(cursor[e])
            BY <1>u, <1>4, <1>5, <2>2, <2>4 DEF TxnInv, ReadingsSound
        <2>. QED  BY <1>u, <1>6, <2>3, <2>5 DEF ReadingsSound, Position
    <1>8. FeedInv'
        <2>1. [FeedNext]_feedVars
            BY <1>u
        <2>. QED  BY <2>1, FeedStep DEF TxnInv
    <1>. QED  BY <1>6, <1>7, <1>8 DEF TxnInv

\* The second statement, and a pull that dies before it.
LEMMA PullEndsStep ==
    ASSUME TxnInv, NEW d \in Devices, PullRows(d) \/ PullFails(d)
    PROVE  TxnInv'
    <1>u. /\ UNCHANGED <<serviceVars, lock, handler, notified, hinted>>
          /\ cursor' = cursor /\ confirmed' = confirmed
          /\ reading[d] # None
          /\ reading' = [reading EXCEPT ![d] = None]
        BY DEF PullRows, PullFails, feedVars, deviceVars
    <1>1. /\ LogInv' /\ HandlersSound' /\ ReceiptsAreAnswers' /\ HintsFollowCommits'
          /\ clock' = clock /\ changes' = changes
        BY <1>u, PullsLeaveHandlers
    <1>2. PagesContiguous' /\ (\A e \in Devices : e # d => page'[e] = page[e])
        <2>1. CASE PullRows(d)
            <3>. DEFINE answer == PageUpTo(cursor[d], reading[d].high, changes, reading[d].last)
            <3>1. page' = [page EXCEPT ![d] = answer]
                BY <2>1 DEF PullRows
            <3>2. /\ answer.next \in Cursor
                  /\ answer.next.position = reading[d].last
                  /\ answer.rows = Between(Position(cursor[d]), reading[d].last)
                BY <1>u, ReadingIsContiguous DEF TxnInv, FeedInv, Followed
            <3>3. /\ reading[d].last <= clock
                  /\ Position(cursor[d]) <= reading[d].last
                BY <1>u DEF TxnInv, ReadingsSound
            <3>. HIDE DEF answer
            <3>. QED  BY <1>1, <1>u, <3>1, <3>2, <3>3
                      DEF TxnInv, FeedInv, Followed, PagesContiguous, Between
        <2>2. CASE PullFails(d)
            <3>1. page' = page
                BY <2>2 DEF PullFails, feedVars, deviceVars
            <3>. QED  BY <1>1, <1>u, <3>1
                      DEF TxnInv, FeedInv, Followed, PagesContiguous, Between
        <2>. QED  BY <2>1, <2>2
    <1>3. FeedInv'
        BY <1>1, <1>2, <1>u DEF TxnInv, FeedInv, Followed, CursorsInLog, ConfirmedInLog, NothingSkipped
    <1>4. ReadingsSound'
        BY <1>1, <1>2, <1>u DEF TxnInv, ReadingsSound, Position
    <1>. QED  BY <1>1, <1>3, <1>4 DEF TxnInv

\* What a device does with an answer.
LEMMA DeviceStep ==
    ASSUME TxnInv, NEW d \in Devices, Device(d)
    PROVE  TxnInv'
    <1>1. /\ reading[d] = None
          /\ Deliver(d) \/ Lose(d) \/ Reset(d)
          /\ UNCHANGED <<serviceVars, lock, handler, reading, notified, hinted>>
        BY DEF Device, Deliver, Lose, Reset
    <1>2. /\ LogInv' /\ HandlersSound' /\ ReceiptsAreAnswers' /\ HintsFollowCommits'
          /\ clock' = clock
        BY <1>1, PullsLeaveHandlers
    <1>3. FeedInv'
        <2>1. [FeedNext]_feedVars
            BY <1>1 DEF FeedNext
        <2>. QED  BY <2>1, FeedStep DEF TxnInv
    <1>4. \A e \in Devices : e # d => cursor'[e] = cursor[e] /\ page'[e] = page[e]
        BY <1>1 DEF Deliver, Lose, Reset, TxnInv, FeedInv, Followed, CursorsInLog, PagesContiguous
    <1>5. ReadingsSound'
        BY <1>1, <1>2, <1>4 DEF TxnInv, ReadingsSound, Position
    <1>. QED  BY <1>2, <1>3, <1>5 DEF TxnInv

\* The invariant is inductive.
LEMMA TxnStep == TxnInv /\ [TxnNext]_txnVars => TxnInv'
    <1>. SUFFICES ASSUME TxnInv, [TxnNext]_txnVars PROVE TxnInv'
        OBVIOUS
    <1>1. CASE UNCHANGED txnVars
        <2>1. /\ UNCHANGED <<serviceVars, lock, handler, notified, hinted>>
              /\ UNCHANGED feedVars
              /\ cursor' = cursor /\ page' = page /\ reading' = reading
            BY <1>1 DEF txnVars, feedVars, deviceVars
        <2>2. /\ LogInv' /\ HandlersSound' /\ ReceiptsAreAnswers' /\ HintsFollowCommits'
              /\ clock' = clock
            BY <2>1, PullsLeaveHandlers
        <2>3. FeedInv'
            <3>1. [FeedNext]_feedVars
                BY <2>1
            <3>. QED  BY <3>1, FeedStep DEF TxnInv
        <2>4. ReadingsSound'
            BY <2>1, <2>2 DEF TxnInv, ReadingsSound, Position
        <2>. QED  BY <2>2, <2>3, <2>4 DEF TxnInv
    <1>2. ASSUME NEW h \in Handlers, NEW batch \in Batches, Receive(h, batch) PROVE TxnInv'
        BY <1>2, ReceiveStep
    <1>3. ASSUME NEW h \in Handlers, Step(h) PROVE TxnInv'
        <2>1. CASE Respond(h)
            <3>1. handler[h].pc = "reply" /\ lock' = lock /\ Local(h, Idle)
                BY <2>1 DEF Respond, At
            <3>2. lock # h
                BY <3>1 DEF TxnInv, HandlersSound, HandlerSound, InTransaction
            <3>. QED  BY <3>1, <3>2, IdleStep
        <2>. QED  BY <1>3, <2>1, LockClockStep, ReadReceiptStep, ReadRecordStep,
                     CommitStep, ContinueStep DEF Step
    <1>4. ASSUME NEW h \in Handlers, Fail(h) PROVE TxnInv'
        BY <1>4, IdleStep DEF Fail
    <1>5. ASSUME NEW d \in Devices,
                 PullClock(d) \/ PullRows(d) \/ PullFails(d) \/ Device(d)
          PROVE  TxnInv'
        BY <1>5, PullClockStep, PullEndsStep, DeviceStep
    <1>. QED  BY <1>1, <1>2, <1>3, <1>4, <1>5 DEF TxnNext

\* An account nobody has written to, with idle handlers, is sound.
LEMMA TxnInitInv == TxnInit => TxnInv
    <1>. SUFFICES ASSUME TxnInit PROVE TxnInv
        OBVIOUS
    <1>1. FeedInv
        BY LogInit, FollowedInit DEF TxnInit, FeedInit, FeedInv
    <1>2. HandlersSound
        <2>1. Idle \in HandlerState /\ Idle.pc = "idle" /\ Len(Idle.results) = 0
            BY DEF Idle, HandlerState
        <2>2. \A h \in Handlers : handler[h] = Idle /\ lock # h
            BY TxnAssumption DEF TxnInit
        <2>. QED  BY <2>1, <2>2 DEF TxnInit, HandlersSound, HandlerSound, InTransaction
    <1>3. ReadingsSound
        BY DEF TxnInit, ReadingsSound
    <1>4. ReceiptsAreAnswers /\ HintsFollowCommits
        BY DEF TxnInit, FeedInit, Init, ReceiptsAreAnswers, HintsFollowCommits
    <1>. QED  BY <1>1, <1>2, <1>3, <1>4 DEF TxnInv

LEMMA TxnAlways == TxnSpec => []TxnInv
    BY TxnInitInv, TxnStep, PTL DEF TxnSpec

-----------------------------------------------------------------------------
(* What the handlers promise.                                              *)

\* No hint runs ahead of its commit, and every committed change is notified,
\* whichever statements fail (hub.invalidate, pg_notify).
THEOREM HintsAlwaysFollowCommits == TxnSpec => []HintsFollowCommits
    BY TxnAlways, PTL DEF TxnInv

\* Whatever a handler has to report of its batch is settled for good, before
\* it works on the next operation (push_mutations).
THEOREM BatchPrefixIsAlwaysSettled == TxnSpec => []BatchPrefixSettled
    <1>1. TxnInv => BatchPrefixSettled
        BY DEF TxnInv, HandlersSound, HandlerSound, Settled, BatchPrefixSettled
    <1>. QED  BY <1>1, TxnAlways, PTL

\* The clock row is locked exactly while a transaction that will release it
\* is past the lock, and its reads are still what is committed.
THEOREM ReadsAreAlwaysStable == TxnSpec => []ReadsAreStable
    <1>1. TxnInv => ReadsAreStable
        <2>. SUFFICES ASSUME TxnInv, NEW h \in Handlers
                      PROVE  /\ lock = h <=> handler[h].pc \in {"locked", "admitted", "commit"}
                             /\ At(h, "locked") => handler[h].clock = clock
                             /\ At(h, "admitted") =>
                                   Fresh(Current(h)) /\ handler[h].clock = clock
                             /\ At(h, "commit") =>
                                   /\ handler[h].store <=> Fresh(Current(h))
                                   /\ handler[h].write # None =>
                                         /\ handler[h].write.cursor = clock + 1
                                         /\ Applies(Current(h), records[Current(h).key])
            BY DEF ReadsAreStable
        <2>1. HandlerSound(h)
            BY DEF TxnInv, HandlersSound
        <2>2. ASSUME At(h, "commit")
              PROVE  /\ handler[h].store <=> Fresh(Current(h))
                     /\ handler[h].write # None =>
                           /\ handler[h].write.cursor = clock + 1
                           /\ Applies(Current(h), records[Current(h).key])
            <3>1. Decided(h)
                BY <2>1, <2>2 DEF HandlerSound, At
            <3>2. handler[h].store <=> Fresh(Current(h))
                BY <3>1 DEF Decided, Fresh
            <3>3. handler[h].write # None =>
                     /\ Fresh(Current(h)) /\ Valid(Current(h))
                     /\ Applies(Current(h), records[Current(h).key])
                BY <3>1 DEF Decided
            <3>4. handler[h].write # None =>
                     handler[h].write = [record |-> After(Current(h), records[Current(h).key]),
                                         cursor |-> clock + 1]
                BY <3>1, <3>3 DEF Decided
            <3>. QED  BY <3>2, <3>3, <3>4
        <2>. QED  BY <2>1, <2>2 DEF HandlerSound, InTransaction, At
    <1>. QED  BY <1>1, TxnAlways, PTL

-----------------------------------------------------------------------------
(* The refinement.                                                         *)

\* The request step of SyncFeed, as its instance Feed sees it.
LEMMA SamePush == ASSUME NEW m, Push(m) PROVE Feed!Push(m)
    <1>1. /\ \A stored : Feed!Applies(m, stored) <=> Applies(m, stored)
          /\ \A stored : Feed!IsGone(m, stored) <=> IsGone(m, stored)
          /\ \A stored : Feed!After(m, stored) = After(m, stored)
          /\ \A k, stored : Feed!Snap(k, stored) = Snap(k, stored)
          /\ Feed!Valid(m) <=> Valid(m)
          /\ Feed!Fresh(m) <=> Fresh(m)
          /\ Feed!ReceiptFor(m) = ReceiptFor(m)
          /\ \A result : Feed!Entry(m, result) = Entry(m, result)
          /\ Feed!Reused = Reused /\ Feed!Invalid = Invalid
        BY DEF Feed!Applies, Applies, Feed!IsGone, IsGone, Feed!After, After,
               Feed!Snap, Snap, Feed!Valid, Valid, Feed!Fresh, Fresh,
               Feed!ReceiptFor, ReceiptFor, Feed!Entry, Entry,
               Feed!Reused, Reused, Feed!Invalid, Invalid
    <1>2. \A stored : Feed!Answer(m, stored) = Answer(m, stored)
        BY <1>1 DEF Feed!Answer, Answer
    <1>3. \A result : Settle(m, result) => Feed!Settle(m, result)
        BY <1>1 DEF Settle, Feed!Settle
    <1>4. Feed!LogRow(m) = LogRow(m)
        BY <1>1 DEF Feed!LogRow, LogRow
    <1>5. CASE Replay(m)
        BY <1>1, <1>5 DEF Replay, Feed!Replay, Feed!Push, tables, Feed!tables
    <1>6. CASE RefuseReuse(m)
        BY <1>1, <1>6 DEF RefuseReuse, Feed!RefuseReuse, Feed!Push, tables, Feed!tables
    <1>7. CASE RefuseInvalid(m)
        BY <1>1, <1>3, <1>7 DEF RefuseInvalid, Feed!RefuseInvalid, Feed!Push
    <1>8. CASE Refuse(m)
        BY <1>1, <1>2, <1>3, <1>8 DEF Refuse, Feed!Refuse, Feed!Push
    <1>9. CASE Apply(m)
        BY <1>1, <1>2, <1>3, <1>4, <1>9 DEF Apply, Feed!Apply, Feed!Push
    <1>. QED  BY <1>5, <1>6, <1>7, <1>8, <1>9 DEF Push

\* A mutation request changes nothing of the pages in flight: the rows it adds
\* lie beyond the end that each of them has settled.
LEMMA InFlightStays ==
    ASSUME TxnInv, [AnyPush]_serviceVars, UNCHANGED <<deviceVars, reading>>
    PROVE  InFlight' = InFlight
    <1>u. cursor' = cursor /\ page' = page /\ reading' = reading
        BY DEF deviceVars
    <1>g. /\ clock \in Nat
          /\ changes \subseteq changes'
          /\ \A row \in changes' : row \in changes \/ row.cursor = clock + 1
        BY LogGrows DEF TxnInv, FeedInv
    <1>1. ASSUME NEW d \in Devices, reading[d] # None
          PROVE  PageUpTo(cursor[d], reading[d].high, changes', reading[d].last)
                    = PageUpTo(cursor[d], reading[d].high, changes, reading[d].last)
        <2>. DEFINE last == reading[d].last
                    rows(log) == {row \in Window(cursor[d], reading[d].high, log) :
                                     row.cursor <= last}
        <2>1. last \in Nat /\ last <= clock
            BY <1>1 DEF TxnInv, ReadingsSound
        <2>2. rows(changes') = rows(changes)
            BY <1>g, <2>1 DEF Window
        <2>. QED  BY <2>2 DEF PageUpTo
    <1>. QED  BY <1>u, <1>1 DEF InFlight

\* The pull of SyncFeed happens when the clock is read.
LEMMA PullClockImplements ==
    ASSUME TxnInv, NEW d \in Devices, PullClock(d)
    PROVE  Feed!Pull(d)
    <1>. DEFINE high == HighWater(cursor[d], clock)
    <1>1. PICK last \in PageEnds(cursor[d], high, changes) :
             reading' = [reading EXCEPT ![d] = [high |-> high, last |-> last]]
        BY DEF PullClock
    <1>. DEFINE answer == PageUpTo(cursor[d], high, changes, last)
                new == [high |-> high, last |-> last]
    <1>u. /\ page[d] = None /\ reading[d] = None
          /\ UNCHANGED <<serviceVars, cursor, confirmed>>
          /\ cursor' = cursor /\ page' = page /\ changes' = changes
        BY DEF PullClock, feedVars, deviceVars, serviceVars
    <1>2. new # None
        <2>3. cursor[d] \in Cursor \cup {None} /\ Position(cursor[d]) <= clock
            BY DEF TxnInv, FeedInv, Followed, CursorsInLog
        <2>4. high \in Nat
            BY <2>3, HighWaterType DEF TxnInv, FeedInv
        <2>. HIDE DEF high
        <2>5. last \in Nat
            BY <1>1, <2>3, <2>4, PageIsContiguous DEF TxnInv, FeedInv
        <2>. QED  BY <2>4, <2>5, TxnAssumption
    <1>3. InFlight[d] = None
        BY <1>u DEF InFlight
    <1>4. InFlight' = [InFlight EXCEPT ![d] = answer]
        <2>1. new.high = high /\ new.last = last /\ reading' = [reading EXCEPT ![d] = new]
            BY <1>1
        <2>. HIDE DEF new, high
        <2>2. /\ reading'[d] = new
              /\ \A e \in Devices : e # d => reading'[e] = reading[e]
            BY <2>1 DEF TxnInv, ReadingsSound
        <2>3. answer = PageUpTo(cursor[d], new.high, changes, new.last)
            BY <2>1
        <2>. HIDE DEF answer
        <2>4. \A e \in Devices :
                 (IF reading'[e] = None THEN page[e]
                  ELSE PageUpTo(cursor[e], reading'[e].high, changes, reading'[e].last))
                    = IF e = d THEN answer ELSE InFlight[e]
            BY <1>2, <2>2, <2>3 DEF InFlight
        <2>5. InFlight' = [e \in Devices |-> IF e = d THEN answer ELSE InFlight[e]]
            BY <1>u, <2>4 DEF InFlight
        <2>. QED  BY <2>5 DEF InFlight
    <1>5. /\ Feed!HighWater(cursor[d], clock) = high
          /\ Feed!PageEnds(cursor[d], high, changes) = PageEnds(cursor[d], high, changes)
          /\ Feed!PageUpTo(cursor[d], high, changes, last) = answer
        <2>. HIDE DEF answer
        <2>1. Feed!HighWater(cursor[d], clock) = high
            BY DEF Feed!HighWater, HighWater
        <2>. HIDE DEF high
        <2>2. /\ Feed!Position(cursor[d]) = Position(cursor[d])
              /\ Feed!Window(cursor[d], high, changes) = Window(cursor[d], high, changes)
            BY DEF Feed!Window, Window, Feed!Position, Position
        <2>3. Feed!PageEnds(cursor[d], high, changes) = PageEnds(cursor[d], high, changes)
            <3>1. \A S : Feed!Cardinality(S) = Cardinality(S)
                BY DEF Feed!Cardinality, Cardinality
            <3>. QED  BY <2>2, <3>1 DEF Feed!PageEnds, PageEnds
        <2>4. Feed!PageUpTo(cursor[d], high, changes, last) = answer
            BY <2>2 DEF Feed!PageUpTo, PageUpTo, answer
        <2>. QED  BY <2>1, <2>3, <2>4
    <1>. HIDE DEF high, answer
    <1>6. UNCHANGED <<Feed!serviceVars, cursor, confirmed>>
        BY <1>u DEF Feed!serviceVars, serviceVars
    <1>. QED  BY <1>1, <1>3, <1>4, <1>5, <1>6 DEF Feed!Pull

\* Reading the rows is no step of SyncFeed: the page was settled before.
LEMMA PullRowsImplements ==
    ASSUME TxnInv, NEW d \in Devices, PullRows(d)
    PROVE  UNCHANGED Feed!feedVars
    <1>u. /\ reading[d] # None
          /\ page' = [page EXCEPT ![d] =
                PageUpTo(cursor[d], reading[d].high, changes, reading[d].last)]
          /\ reading' = [reading EXCEPT ![d] = None]
          /\ UNCHANGED serviceVars
          /\ cursor' = cursor /\ confirmed' = confirmed /\ changes' = changes
        BY DEF PullRows, serviceVars
    <1>1. InFlight' = InFlight
        BY <1>u DEF InFlight, TxnInv, FeedInv, Followed, PagesContiguous, ReadingsSound
    <1>. QED  BY <1>u, <1>1 DEF Feed!feedVars, Feed!serviceVars, Feed!deviceVars, serviceVars

\* A pull that dies between its statements is a lost page.
LEMMA PullFailsImplements ==
    ASSUME TxnInv, NEW d \in Devices, PullFails(d)
    PROVE  Feed!Lose(d) \/ UNCHANGED Feed!feedVars
    <1>u. /\ reading[d] # None /\ page[d] = None
          /\ reading' = [reading EXCEPT ![d] = None]
          /\ UNCHANGED serviceVars
          /\ cursor' = cursor /\ confirmed' = confirmed /\ changes' = changes /\ page' = page
        BY DEF PullFails, feedVars, deviceVars, serviceVars, TxnInv, ReadingsSound
    <1>1. InFlight' = [InFlight EXCEPT ![d] = None]
        BY <1>u DEF InFlight, TxnInv, ReadingsSound
    <1>2. UNCHANGED <<Feed!serviceVars, cursor, confirmed>>
        BY <1>u DEF Feed!serviceVars, serviceVars
    <1>3. CASE InFlight[d] # None
        BY <1>1, <1>2, <1>3 DEF Feed!Lose
    <1>4. CASE InFlight[d] = None
        <2>1. InFlight' = InFlight
            BY <1>1, <1>4 DEF InFlight
        <2>. QED  BY <1>2, <2>1 DEF Feed!feedVars, Feed!deviceVars
    <1>. QED  BY <1>3, <1>4

\* What a device does with an answer is what it does in SyncFeed.
LEMMA DeviceImplements ==
    ASSUME TxnInv, NEW d \in Devices, Device(d)
    PROVE  Feed!Deliver(d) \/ Feed!Lose(d) \/ Feed!Reset(d)
    <1>u. /\ reading[d] = None /\ reading' = reading
          /\ UNCHANGED serviceVars
          /\ UNCHANGED Feed!serviceVars
          /\ changes' = changes
          /\ InFlight[d] = page[d]
        BY DEF Device, Deliver, Lose, Reset, serviceVars, Feed!serviceVars, InFlight
    <1>t. /\ DOMAIN page = Devices
          /\ cursor \in [Devices -> Cursor \cup {None}]
        BY DEF TxnInv, FeedInv, Followed, PagesContiguous, CursorsInLog
    <1>1. CASE Deliver(d)
        <2>1. /\ page[d] # None
              /\ confirmed' = [confirmed EXCEPT ![d] =
                    [k \in Keys |-> Merge(confirmed[d][k], k, page[d].rows)]]
              /\ cursor' = [cursor EXCEPT ![d] = page[d].next]
              /\ page' = [page EXCEPT ![d] = None]
            BY <1>1 DEF Deliver
        <2>2. InFlight' = [InFlight EXCEPT ![d] = None]
            BY <1>u, <1>t, <2>1 DEF InFlight
        <2>3. \A k : Feed!Merge(confirmed[d][k], k, page[d].rows)
                        = Merge(confirmed[d][k], k, page[d].rows)
            BY DEF Feed!Merge, Merge
        <2>. QED  BY <1>u, <2>1, <2>2, <2>3 DEF Feed!Deliver
    <1>2. CASE Lose(d)
        <2>1. /\ page[d] # None
              /\ page' = [page EXCEPT ![d] = None]
              /\ cursor' = cursor /\ confirmed' = confirmed
            BY <1>2 DEF Lose
        <2>2. InFlight' = [InFlight EXCEPT ![d] = None]
            BY <1>u, <1>t, <2>1 DEF InFlight
        <2>. QED  BY <1>u, <2>1, <2>2 DEF Feed!Lose
    <1>3. CASE Reset(d)
        <2>1. /\ page[d] = None /\ cursor[d] # None
              /\ cursor' = [cursor EXCEPT ![d] = None]
              /\ page' = page /\ confirmed' = confirmed
            BY <1>3 DEF Reset
        <2>2. InFlight' = InFlight
            BY <1>u, <1>t, <2>1 DEF InFlight
        <2>. QED  BY <1>u, <2>1, <2>2 DEF Feed!Reset
    <1>. QED  BY <1>1, <1>2, <1>3 DEF Device

\* Every step of the handlers is a step of SyncFeed, or none.
LEMMA TxnImplements == TxnInv /\ [TxnNext]_txnVars => [Feed!FeedNext]_(Feed!feedVars)
    <1>. SUFFICES ASSUME TxnInv, [TxnNext]_txnVars
                  PROVE  [Feed!FeedNext]_(Feed!feedVars)
        OBVIOUS
    <1>1. ASSUME UNCHANGED feedVars, UNCHANGED reading
          PROVE  UNCHANGED Feed!feedVars
        <2>1. InFlight' = InFlight
            BY <1>1 DEF InFlight, feedVars, deviceVars, serviceVars
        <2>. QED  BY <1>1, <2>1 DEF feedVars, deviceVars, serviceVars,
                                    Feed!feedVars, Feed!deviceVars, Feed!serviceVars
    <1>2. ASSUME NEW h \in Handlers, Commit(h)
          PROVE  Feed!FeedNext
        <2>1. Push(Current(h)) /\ Current(h) \in Mutations
            <3>1. HandlersSound /\ TypeOK /\ handler[h].pc = "commit"
                BY <1>2 DEF TxnInv, FeedInv, LogInv, Commit, At
            <3>. QED  BY <1>2, <3>1, CommitIsPush, CurrentType DEF InTransaction
        <2>2. UNCHANGED <<deviceVars, reading>>
            BY <1>2 DEF Commit
        <2>3. InFlight' = InFlight
            BY <2>1, <2>2, MutationsAssumption, InFlightStays DEF AnyPush
        <2>4. Feed!FeedPush(Current(h))
            BY <2>1, <2>2, <2>3, SamePush DEF Feed!FeedPush, Feed!deviceVars, deviceVars
        <2>. QED  BY <2>1, <2>4 DEF Feed!FeedNext
    <1>3. ASSUME NEW h \in Handlers,
                 \/ \E batch \in Batches : Receive(h, batch)
                 \/ LockClock(h) \/ ReadReceipt(h) \/ ReadRecord(h)
                 \/ Continue(h) \/ Respond(h) \/ Fail(h)
          PROVE  UNCHANGED Feed!feedVars
        <2>1. UNCHANGED feedVars /\ UNCHANGED reading
            BY <1>3 DEF Receive, LockClock, ReadReceipt, ReadRecord, Continue, Respond, Fail, Local
        <2>. QED  BY <2>1, <1>1
    <1>4. ASSUME NEW d \in Devices, PullClock(d) \/ PullFails(d) \/ Device(d)
          PROVE  [Feed!FeedNext]_(Feed!feedVars)
        BY <1>4, PullClockImplements, PullFailsImplements, DeviceImplements DEF Feed!FeedNext
    <1>5. ASSUME NEW d \in Devices, PullRows(d)
          PROVE  UNCHANGED Feed!feedVars
        BY <1>5, PullRowsImplements
    <1>6. CASE UNCHANGED txnVars
        BY <1>1, <1>6 DEF txnVars
    <1>. QED  BY <1>2, <1>3, <1>4, <1>5, <1>6 DEF TxnNext, Step

\* The handlers start where SyncFeed starts.
LEMMA TxnInitImplements == TxnInit => Feed!FeedInit
    BY DEF TxnInit, FeedInit, Init, InFlight, Feed!FeedInit, Feed!Init

\* Interleaved, failing transactions under READ COMMITTED implement the
\* service that handles every mutation and every page in one step.
THEOREM HandlersImplementFeed == TxnSpec => ImplementsFeed
    <1>1. TxnSpec => Feed!FeedSpec
        BY TxnInitImplements, TxnImplements, TxnAlways, PTL DEF TxnSpec, Feed!FeedSpec
    <1>. QED  BY <1>1 DEF ImplementsFeed

\* A pull between its two statements has a sound window too.
ReadingWindowsSound ==
    \A d \in Devices :
        reading[d] # None => WindowSound(d, reading[d].last, reading[d].high)

\* Every statement leaves the windows sound.
LEMMA TxnWindowsStep ==
    ASSUME TxnInv, WindowsSound, ReadingWindowsSound, [TxnNext]_txnVars
    PROVE  WindowsSound' /\ ReadingWindowsSound'
    <1>f. FeedInv /\ LogInv /\ ReadingsSound
        BY DEF TxnInv, FeedInv
    <1>r. \A d \in Devices : reading[d] # None => reading[d].high \in Nat
        BY <1>f DEF ReadingsSound
    <1>1. ASSUME [AnyPush]_serviceVars, UNCHANGED <<deviceVars, reading>>
          PROVE  ReadingWindowsSound'
        <2>1. confirmed' = confirmed /\ reading' = reading
            BY <1>1 DEF deviceVars
        <2>. QED  BY <1>f, <1>r, <1>1, <2>1, WindowStays DEF ReadingWindowsSound
    <1>2. ASSUME UNCHANGED feedVars
          PROVE  /\ WindowsSound'
                 /\ \A d \in Devices : \A position, high :
                       WindowSound(d, position, high)' <=> WindowSound(d, position, high)
        <2>1. WindowsSound'
            BY <1>f, <1>2, WindowsStep
        <2>2. clock' = clock /\ changes' = changes /\ confirmed' = confirmed
            BY <1>2 DEF feedVars, deviceVars, serviceVars
        <2>. QED  BY <2>1, <2>2 DEF WindowSound, ConfirmedBelow
    <1>3. ASSUME NEW h \in Handlers, Commit(h)
          PROVE  WindowsSound' /\ ReadingWindowsSound'
        <2>1. Push(Current(h)) /\ Current(h) \in Mutations
            <3>1. HandlersSound /\ TypeOK /\ handler[h].pc = "commit"
                BY <1>3 DEF TxnInv, FeedInv, LogInv, Commit, At
            <3>. QED  BY <1>3, <3>1, CommitIsPush, CurrentType DEF InTransaction
        <2>2. UNCHANGED <<deviceVars, reading>>
            BY <1>3 DEF Commit
        <2>3. FeedNext
            BY <2>1, <2>2 DEF FeedPush, FeedNext
        <2>4. AnyPush
            BY <2>1, MutationsAssumption DEF AnyPush
        <2>. QED  BY <1>f, <1>1, <2>2, <2>3, <2>4, WindowsStep
    <1>4. ASSUME UNCHANGED <<feedVars, reading>>
          PROVE  WindowsSound' /\ ReadingWindowsSound'
        BY <1>2, <1>4 DEF ReadingWindowsSound
    <1>5. ASSUME NEW h \in Handlers,
                 \/ \E batch \in Batches : Receive(h, batch)
                 \/ LockClock(h) \/ ReadReceipt(h) \/ ReadRecord(h)
                 \/ Continue(h) \/ Respond(h) \/ Fail(h)
          PROVE  UNCHANGED <<feedVars, reading>>
        BY <1>5 DEF Receive, LockClock, ReadReceipt, ReadRecord, Continue, Respond, Fail, Local
    <1>6. ASSUME NEW d \in Devices, PullClock(d)
          PROVE  WindowsSound' /\ ReadingWindowsSound'
        <2>. DEFINE high == HighWater(cursor[d], clock)
        <2>1. PICK last \in PageEnds(cursor[d], high, changes) :
                 reading' = [reading EXCEPT ![d] = [high |-> high, last |-> last]]
            BY <1>6 DEF PullClock
        <2>2. UNCHANGED feedVars
            BY <1>6 DEF PullClock
        <2>3. WindowSound(d, last, high)
            BY <1>f, <2>1, PullWindowSound
        <2>. HIDE DEF high
        <2>4. /\ reading'[d].last = last /\ reading'[d].high = high
              /\ \A e \in Devices : e # d => reading'[e] = reading[e]
            BY <1>f, <2>1 DEF ReadingsSound
        <2>. QED  BY <1>2, <2>2, <2>3, <2>4 DEF ReadingWindowsSound
    <1>7. ASSUME NEW d \in Devices, PullRows(d)
          PROVE  WindowsSound' /\ ReadingWindowsSound'
        <2>. DEFINE answer == PageUpTo(cursor[d], reading[d].high, changes, reading[d].last)
        <2>1. /\ reading[d] # None
              /\ page' = [page EXCEPT ![d] = answer]
              /\ reading' = [reading EXCEPT ![d] = None]
              /\ cursor' = cursor
              /\ clock' = clock /\ changes' = changes /\ confirmed' = confirmed
            BY <1>7 DEF PullRows, serviceVars
        <2>2. \A e \in Devices : \A position, high :
                 WindowSound(e, position, high)' <=> WindowSound(e, position, high)
            BY <2>1 DEF WindowSound, ConfirmedBelow
        <2>3. /\ answer.next.position = reading[d].last
              /\ answer.next.highWater = reading[d].high
              /\ answer.caughtUp = (reading[d].last >= reading[d].high)
            BY DEF PageUpTo
        <2>. HIDE DEF answer
        <2>4. /\ page'[d] = answer
              /\ \A e \in Devices : e # d => page'[e] = page[e]
              /\ \A e \in Devices : reading'[e] \in {reading[e], None}
            BY <1>f, <2>1 DEF FeedInv, Followed, PagesContiguous, ReadingsSound
        <2>. QED  BY <2>1, <2>2, <2>3, <2>4 DEF WindowsSound, ReadingWindowsSound
    <1>8. ASSUME NEW d \in Devices, PullFails(d)
          PROVE  WindowsSound' /\ ReadingWindowsSound'
        <2>1. UNCHANGED feedVars /\ \A e \in Devices : reading'[e] \in {reading[e], None}
            BY <1>f, <1>8 DEF PullFails, ReadingsSound
        <2>. QED  BY <1>2, <2>1 DEF ReadingWindowsSound
    <1>9. ASSUME NEW d \in Devices, Device(d)
          PROVE  WindowsSound' /\ ReadingWindowsSound'
        <2>1. /\ Deliver(d) \/ Lose(d) \/ Reset(d)
              /\ reading[d] = None /\ reading' = reading
            BY <1>9 DEF Device
        <2>2. WindowsSound'
            BY <1>f, <2>1, WindowsStep DEF FeedNext
        <2>3. /\ clock' = clock /\ changes' = changes
              /\ \A e \in Devices : e # d => confirmed'[e] = confirmed[e]
            BY <2>1 DEF Deliver, Lose, Reset, serviceVars, TxnInv, FeedInv, Followed,
                        ConfirmedInLog
        <2>4. \A e \in Devices : \A position, high :
                 e # d => (WindowSound(e, position, high)' <=> WindowSound(e, position, high))
            BY <2>3 DEF WindowSound, ConfirmedBelow
        <2>. QED  BY <2>1, <2>2, <2>4 DEF ReadingWindowsSound
    <1>10. CASE UNCHANGED txnVars
        BY <1>4, <1>10 DEF txnVars
    <1>. QED  BY <1>3, <1>4, <1>5, <1>6, <1>7, <1>8, <1>9, <1>10 DEF TxnNext, Step

\* Devices that follow the log of these handlers skip nothing, hold the
\* server's records once they have reached its clock, and are told that they
\* are caught up only when they are, although clock and rows are read apart.
THEOREM DevicesFollowHandlers == TxnSpec => [](NothingSkipped /\ CaughtUpMeansEqual)
    <1>1. TxnInv => NothingSkipped
        BY DEF TxnInv, FeedInv, Followed
    <1>2. TxnInit => WindowsSound /\ ReadingWindowsSound
        BY DEF TxnInit, FeedInit, WindowsSound, ReadingWindowsSound
    <1>3. TxnSpec => [](WindowsSound /\ ReadingWindowsSound)
        <2>1. TxnInv /\ WindowsSound /\ ReadingWindowsSound /\ [TxnNext]_txnVars
                 => WindowsSound' /\ ReadingWindowsSound'
            BY TxnWindowsStep
        <2>. QED  BY <1>2, <2>1, TxnAlways, PTL DEF TxnSpec
    <1>4. TxnInv => FeedInv
        BY DEF TxnInv
    <1>. QED  BY <1>1, <1>3, <1>4, CaughtUp, TxnAlways, PTL

\* Seen from the tables alone, the handlers are the service of SyncService:
\* every statement that is no commit leaves the tables as they are.
THEOREM HandlersImplementService == TxnSpec => Spec
    <1>1. TxnInit => Init
        BY DEF TxnInit, FeedInit
    <1>2. TxnInv /\ [TxnNext]_txnVars => [Next]_serviceVars
        <2>. SUFFICES ASSUME TxnInv, [TxnNext]_txnVars PROVE [Next]_serviceVars
            OBVIOUS
        <2>1. ASSUME NEW h \in Handlers, Commit(h) PROVE Next
            <3>1. HandlersSound /\ TypeOK /\ handler[h].pc = "commit"
                BY <2>1 DEF TxnInv, FeedInv, LogInv, Commit, At
            <3>. QED  BY <2>1, <3>1, CommitIsPush, CurrentType DEF InTransaction, Next
        <2>2. ASSUME NEW h \in Handlers,
                     \/ \E batch \in Batches : Receive(h, batch)
                     \/ LockClock(h) \/ ReadReceipt(h) \/ ReadRecord(h)
                     \/ Continue(h) \/ Respond(h) \/ Fail(h)
              PROVE  UNCHANGED serviceVars
            BY <2>2 DEF Receive, LockClock, ReadReceipt, ReadRecord, Continue, Respond, Fail,
                        Local, feedVars
        <2>3. ASSUME NEW d \in Devices,
                     PullClock(d) \/ PullRows(d) \/ PullFails(d) \/ Device(d)
              PROVE  UNCHANGED serviceVars
            BY <2>3 DEF PullClock, PullRows, PullFails, Device, Deliver, Lose, Reset, feedVars
        <2>4. CASE UNCHANGED txnVars
            BY <2>4 DEF txnVars, feedVars
        <2>. QED  BY <2>1, <2>2, <2>3, <2>4 DEF TxnNext, Step
    <1>. QED  BY <1>1, <1>2, TxnAlways, PTL DEF TxnSpec, Spec

\* So whatever statements interleave or fail, a mutation is applied once, a
\* request is always answered the same, and history is kept.
THEOREM HandlersKeepPromises ==
    TxnSpec => /\ [](LogIsDense /\ AppliedExactlyOnce /\ AnswersAgree)
               /\ HistoryIsKept
    BY HandlersImplementService, LogIsAlwaysDense, ExactlyOnce, AnswersAlwaysAgree,
       HistoryIsAlwaysKept, PTL
=============================================================================
