-------------------------- MODULE SyncServiceProofs --------------------------
(***************************************************************************)
(* The properties of SyncService, proved for every set of clients, keys,   *)
(* notes and requests.                                                     *)
(***************************************************************************)
EXTENDS SyncService, TLAPS

\* What is proved holds whichever requests are pushed, those of Mutations
\* and all others.
AnyPush == \E m \in Mutation : Push(m)

AnySpec == Init /\ [][AnyPush]_serviceVars

\* The requests of Mutations are some of them.
LEMMA SpecPushes == Spec => AnySpec
    <1>1. [Next]_serviceVars => [AnyPush]_serviceVars
        BY MutationsAssumption DEF Next, AnyPush
    <1>. QED  BY <1>1, PTL DEF Spec, AnySpec

-----------------------------------------------------------------------------
(* Typing.                                                                 *)

\* What the wire shows of a stored record is well-formed.
LEMMA SnapType ==
    ASSUME NEW k \in Keys, NEW stored \in Record \cup {None}
    PROVE  /\ Snap(k, stored) \in Snapshot \cup {None}
           /\ stored # None => /\ Snap(k, stored) \in Snapshot
                               /\ Snap(k, stored) # None
                               /\ Snap(k, stored).key = k
                               /\ Snap(k, stored).version = stored.version
                               /\ Snap(k, stored).deleted = stored.deleted
    <1>1. CASE stored = None
        BY <1>1 DEF Snap
    <1>2. CASE stored # None
        <2>1. stored \in Record
            BY <1>2
        <2>2. Snap(k, stored) \in Snapshot
            BY <2>1, <1>2 DEF Snap, Snapshot, Record, Version
        <2>3. Snap(k, stored) # None
            BY <2>2, AbsentAssumption
        <2>. QED  BY <2>2, <2>3, <1>2 DEF Snap
    <1>. QED  BY <1>1, <1>2

\* An admissible mutation that applies leaves a well-formed record, one
\* version ahead.
LEMMA AfterType ==
    ASSUME NEW m \in Mutation, NEW stored \in Record \cup {None},
           Valid(m), Applies(m, stored)
    PROVE  /\ After(m, stored) \in Record
           /\ After(m, stored) # None
           /\ stored = None => After(m, stored).version = 1
           /\ stored # None => /\ stored \in Record
                               /\ ~stored.deleted
                               /\ After(m, stored).version = stored.version + 1
    <1>1. CASE stored = None
        <2>1. m.action = "put" /\ m.value \in Notes
            BY <1>1, AbsentAssumption DEF Applies, Valid
        <2>2. After(m, stored) = [version |-> 1, deleted |-> FALSE, payload |-> m.value]
            BY <1>1, <2>1 DEF After
        <2>3. After(m, stored) \in Record
            BY <2>1, <2>2 DEF Record, Version
        <2>4. After(m, stored) # None
            BY <2>3, AbsentAssumption
        <2>5. After(m, stored).version = 1
            BY <2>2
        <2>. QED  BY <1>1, <2>3, <2>4, <2>5
    <1>2. CASE stored # None
        <2>1. stored \in Record /\ ~stored.deleted
            BY <1>2 DEF Applies
        <2>2. m.action = "delete" \/ m.value \in Notes
            BY DEF Valid
        <2>3. After(m, stored) \in Record
            BY <1>2, <2>1, <2>2 DEF After, Record, Version
        <2>4. After(m, stored).version = stored.version + 1
            BY <1>2 DEF After
        <2>. QED  BY <1>2, <2>1, <2>3, <2>4, AbsentAssumption
    <1>. QED  BY <1>1, <1>2

\* Every answer is well-formed; "applied" is answered exactly when the
\* mutation applies, with the record it leaves.
LEMMA AnswerType ==
    ASSUME NEW m \in Mutation, NEW stored \in Record \cup {None}, Valid(m)
    PROVE  /\ Answer(m, stored) \in Result
           /\ Answer(m, stored).status = "applied" <=> Applies(m, stored)
           /\ Applies(m, stored) =>
                 Answer(m, stored).record = Snap(m.key, After(m, stored))
    <1>k. m.key \in Keys
        BY DEF Mutation
    <1>1. CASE Applies(m, stored)
        <2>1. After(m, stored) \in Record
            BY <1>1, AfterType
        <2>2. Snap(m.key, After(m, stored)) \in Snapshot \cup {None}
            BY <1>k, <2>1, SnapType
        <2>. QED  BY <1>1, <2>2 DEF Answer, Result, Status
    <1>2. CASE ~Applies(m, stored)
        <2>1. Snap(m.key, stored) \in Snapshot \cup {None}
            BY <1>k, SnapType
        <2>. QED  BY <1>2, <2>1 DEF Answer, Result, Status
    <1>. QED  BY <1>1, <1>2

\* The empty tables of a new account are well-formed.
LEMMA InitType == Init => TypeOK
    BY DEF Init, TypeOK

\* Receipts and outcomes stay well-formed when a result is settled.
LEMMA SettleType ==
    ASSUME TypeOK, NEW m \in Mutation, NEW result \in Result, Settle(m, result)
    PROVE  /\ receipts' \in [Clients \X MutationIds -> Receipt \cup {None}]
           /\ outcomes' \subseteq Receipt
    <1>1. Entry(m, result) \in Receipt
        BY DEF Entry, Receipt
    <1>. QED  BY <1>1 DEF TypeOK, Settle

\* No request, whichever arm of apply_mutation it takes, breaks the types.
LEMMA NextType == TypeOK /\ [AnyPush]_serviceVars => TypeOK'
    <1>. SUFFICES ASSUME TypeOK, [AnyPush]_serviceVars PROVE TypeOK'
        OBVIOUS
    <1>1. CASE UNCHANGED serviceVars
        BY <1>1 DEF TypeOK, serviceVars
    <1>2. ASSUME NEW m \in Mutation, Push(m) PROVE TypeOK'
        <2>m. /\ m \in Mutation
              /\ m.key \in Keys
              /\ <<m.client, m.id>> \in Clients \X MutationIds
            BY DEF Mutation
        <2>r. records[m.key] \in Record \cup {None}
            BY <2>m DEF TypeOK
        <2>1. CASE Replay(m)
            <3>1. ReceiptFor(m) \in Receipt
                BY <2>1, <2>m DEF Replay, Fresh, ReceiptFor, TypeOK
            <3>2. Entry(m, ReceiptFor(m).result) \in Receipt
                BY <3>1, <2>m DEF Entry, Receipt
            <3>. QED  BY <2>1, <3>2 DEF Replay, tables, TypeOK
        <2>2. CASE RefuseReuse(m)
            <3>1. Entry(m, Reused) \in Receipt
                BY <2>m DEF Entry, Receipt, Reused, Result, Status
            <3>. QED  BY <2>2, <3>1 DEF RefuseReuse, tables, TypeOK
        <2>3. CASE RefuseInvalid(m)
            <3>1. Invalid \in Result
                BY DEF Invalid, Result, Status
            <3>. QED  BY <2>3, <2>m, <3>1, SettleType DEF RefuseInvalid, TypeOK
        <2>4. CASE Refuse(m)
            <3>1. Answer(m, records[m.key]) \in Result
                BY <2>4, <2>m, <2>r, AnswerType DEF Refuse
            <3>. QED  BY <2>4, <2>m, <3>1, SettleType DEF Refuse, TypeOK
        <2>5. CASE Apply(m)
            <3>1. Answer(m, records[m.key]) \in Result
                BY <2>5, <2>m, <2>r, AnswerType DEF Apply
            <3>2. /\ After(m, records[m.key]) \in Record
                  /\ After(m, records[m.key]) # None
                BY <2>5, <2>m, <2>r, AfterType DEF Apply
            <3>3. Snap(m.key, After(m, records[m.key])) \in Snapshot
                BY <3>2, <2>m, SnapType
            <3>4. LogRow(m) \in Change
                BY <3>3 DEF LogRow, Change, Version, TypeOK
            <3>5. /\ clock' \in Nat
                  /\ records' \in [Keys -> Record \cup {None}]
                  /\ changes' \subseteq Change
                <4>1. clock' = clock + 1 /\ changes' = changes \cup {LogRow(m)}
                    BY <2>5 DEF Apply
                <4>2. records' = [records EXCEPT ![m.key] = After(m, records[m.key])]
                    BY <2>5 DEF Apply
                <4>3. records' \in [Keys -> Record \cup {None}]
                    BY <3>2, <4>2 DEF TypeOK
                <4>. QED  BY <3>4, <4>1, <4>3 DEF TypeOK
            <3>. QED  BY <2>5, <2>m, <3>1, <3>5, SettleType DEF Apply, TypeOK
        <2>. QED  BY <1>2, <2>1, <2>2, <2>3, <2>4, <2>5 DEF Push
    <1>. QED  BY <1>1, <1>2 DEF AnyPush

\* The tables keep their types, whatever requests arrive.
LEMMA AnyTypeCorrect == AnySpec => []TypeOK
    BY InitType, NextType, PTL DEF AnySpec

\* So they do for the requests of Mutations.
THEOREM TypeCorrect == Spec => []TypeOK
    BY SpecPushes, AnyTypeCorrect, PTL

-----------------------------------------------------------------------------
(* The change log.                                                         *)

\* The inductive invariant: the three properties of the log need each other.
LogInv == TypeOK /\ LogIsDense /\ VersionsFollowCursor /\ RecordIsLastChange

\* Only an applied mutation touches the clock, the records or the log.
LEMMA OnlyApplyWrites ==
    ASSUME [AnyPush]_serviceVars
    PROVE  \/ UNCHANGED <<clock, records, changes>>
           \/ \E m \in Mutation : Apply(m)
    BY DEF AnyPush, Push, Replay, RefuseReuse, RefuseInvalid, Refuse, serviceVars, tables

\* The row an applied mutation appends is ahead of every row of the log, and
\* ahead of every version of its record; the record was not deleted.
LEMMA NewRow ==
    ASSUME LogInv, NEW m \in Mutation, Apply(m)
    PROVE  /\ clock \in Nat /\ clock' = clock + 1
           /\ changes' = changes \cup {LogRow(m)}
           /\ LogRow(m) \in Change
           /\ LogRow(m).cursor = clock + 1
           /\ LogRow(m).snapshot = Snap(m.key, records'[m.key])
           /\ LogRow(m).snapshot.key = m.key
           /\ LogRow(m).snapshot.version = records'[m.key].version
           /\ records'[m.key] # None
           /\ records'[m.key] \in Record
           /\ \A k \in Keys : k # m.key => records'[k] = records[k]
           /\ \A row \in changes :
                 row.snapshot.key = m.key =>
                 /\ row.snapshot.version < LogRow(m).snapshot.version
                 /\ ~row.snapshot.deleted
    <1>m. m \in Mutation /\ m.key \in Keys
        BY DEF Mutation
    <1>. DEFINE old == records[m.key]
                new == After(m, old)
    <1>o. old \in Record \cup {None}
        BY <1>m DEF LogInv, TypeOK
    <1>a. /\ Valid(m)
          /\ Applies(m, old)
          /\ clock' = clock + 1
          /\ records' = [records EXCEPT ![m.key] = new]
          /\ changes' = changes \cup {LogRow(m)}
        BY DEF Apply
    <1>n. /\ new \in Record
          /\ new # None
          /\ old = None => new.version = 1
          /\ old # None => /\ old \in Record
                           /\ ~old.deleted
                           /\ new.version = old.version + 1
        BY <1>m, <1>o, <1>a, AfterType
    <1>r. /\ records'[m.key] = new
          /\ \A k \in Keys : k # m.key => records'[k] = records[k]
        BY <1>m, <1>a DEF LogInv, TypeOK
    <1>s. /\ Snap(m.key, new) \in Snapshot
          /\ Snap(m.key, new).key = m.key
          /\ Snap(m.key, new).version = new.version
        BY <1>m, <1>n, SnapType
    <1>c. clock \in Nat
        BY DEF LogInv, TypeOK
    <1>l. /\ LogRow(m) \in Change
          /\ LogRow(m).cursor = clock + 1
          /\ LogRow(m).snapshot = Snap(m.key, new)
        BY <1>s, <1>c DEF LogRow, Change, Version
    <1>v. ASSUME NEW row \in changes, row.snapshot.key = m.key
          PROVE  row.snapshot.version < new.version /\ ~row.snapshot.deleted
        <2>1. old # None
            BY <1>v, <1>m DEF LogInv, RecordIsLastChange
        <2>2. row.snapshot.version <= old.version
            BY <1>v, <1>m, <2>1 DEF LogInv, RecordIsLastChange
        <2>3. PICK last \in changes : last.snapshot = Snap(m.key, old)
            BY <1>m, <2>1 DEF LogInv, RecordIsLastChange
        <2>4. /\ last.snapshot.key = m.key
              /\ last.snapshot.version = old.version
              /\ ~last.snapshot.deleted
            BY <1>m, <1>o, <1>n, <2>1, <2>3, SnapType
        <2>5. /\ row \in Change /\ last \in Change
              /\ row.cursor \in Nat /\ last.cursor \in Nat
              /\ row.snapshot.version \in Nat /\ old.version \in Nat
            BY <1>n, <2>1 DEF LogInv, TypeOK, Change, Snapshot, Record, Version
        <2>6. ~row.snapshot.deleted
            <3>1. CASE row.cursor < last.cursor
                BY <1>v, <2>4, <3>1 DEF LogInv, VersionsFollowCursor
            <3>2. CASE row.cursor = last.cursor
                BY <2>4, <3>2 DEF LogInv, LogIsDense
            <3>3. CASE last.cursor < row.cursor
                <4>1. last.snapshot.version < row.snapshot.version
                    BY <1>v, <2>4, <3>3 DEF LogInv, VersionsFollowCursor
                <4>. QED  BY <4>1, <2>2, <2>4, <2>5
            <3>. QED  BY <3>1, <3>2, <3>3, <2>5
        <2>7. row.snapshot.version < new.version
            BY <1>n, <2>1, <2>2, <2>5
        <2>. QED  BY <2>6, <2>7
    <1>. QED  BY <1>a, <1>c, <1>l, <1>n, <1>r, <1>s, <1>v

\* The log invariant is inductive: only an applied mutation touches it, and
\* the row it appends is ahead of all others.
LEMMA LogStep == LogInv /\ [AnyPush]_serviceVars => LogInv'
    <1>. SUFFICES ASSUME LogInv, [AnyPush]_serviceVars PROVE LogInv'
        OBVIOUS
    <1>t. TypeOK'
        BY NextType DEF LogInv
    <1>1. CASE UNCHANGED <<clock, records, changes>>
        BY <1>t, <1>1 DEF LogInv, LogIsDense, VersionsFollowCursor, RecordIsLastChange
    <1>2. ASSUME NEW m \in Mutation, Apply(m) PROVE LogInv'
        <2>. DEFINE new == LogRow(m)
        <2>n. /\ clock \in Nat /\ clock' = clock + 1
              /\ changes' = changes \cup {new}
              /\ new \in Change
              /\ new.cursor = clock + 1
              /\ new.snapshot = Snap(m.key, records'[m.key])
              /\ new.snapshot.key = m.key
              /\ new.snapshot.version = records'[m.key].version
              /\ records'[m.key] # None
              /\ \A k \in Keys : k # m.key => records'[k] = records[k]
              /\ \A row \in changes :
                    row.snapshot.key = m.key =>
                    /\ row.snapshot.version < new.snapshot.version
                    /\ ~row.snapshot.deleted
            BY <1>2, NewRow
        <2>. HIDE DEF new
        <2>c. \A row \in changes : row.cursor \in Nat /\ row.cursor <= clock
            BY DEF LogInv, TypeOK, Change, Version, LogIsDense
        <2>1. LogIsDense'
            <3>1. \A row \in changes' : row.cursor <= clock'
                BY <2>n, <2>c
            <3>2. \A c \in 1..clock' : \E row \in changes' : row.cursor = c
                <4>1. \A c \in 1..clock : \E row \in changes : row.cursor = c
                    BY DEF LogInv, LogIsDense
                <4>2. \A c \in 1..clock' : c \in 1..clock \/ c = clock + 1
                    BY <2>n
                <4>. QED  BY <2>n, <4>1, <4>2
            <3>3. \A r1, r2 \in changes' : r1.cursor = r2.cursor => r1 = r2
                <4>1. \A r1, r2 \in changes : r1.cursor = r2.cursor => r1 = r2
                    BY DEF LogInv, LogIsDense
                <4>2. \A row \in changes : row.cursor # new.cursor
                    BY <2>n, <2>c
                <4>. QED  BY <2>n, <4>1, <4>2
            <3>. QED  BY <3>1, <3>2, <3>3 DEF LogIsDense
        <2>2. VersionsFollowCursor'
            <3>. SUFFICES ASSUME NEW r1 \in changes', NEW r2 \in changes',
                                 r1.snapshot.key = r2.snapshot.key,
                                 r1.cursor < r2.cursor
                          PROVE  /\ r1.snapshot.version < r2.snapshot.version
                                 /\ ~r1.snapshot.deleted
                BY DEF VersionsFollowCursor
            <3>1. CASE r1 \in changes /\ r2 \in changes
                BY <3>1 DEF LogInv, VersionsFollowCursor
            <3>2. CASE r1 \in changes /\ r2 = new
                BY <2>n, <3>2
            <3>3. CASE r1 = new
                <4>1. r2.cursor \in Nat /\ r2.cursor <= clock + 1
                    BY <2>n, <2>c
                <4>. QED  BY <2>n, <3>3, <4>1
            <3>. QED  BY <2>n, <3>1, <3>2, <3>3
        <2>3. RecordIsLastChange'
            <3>. SUFFICES ASSUME NEW k \in Keys
                          PROVE  IF records'[k] = None
                                 THEN \A row \in changes' : row.snapshot.key # k
                                 ELSE /\ \E row \in changes' :
                                            row.snapshot = Snap(k, records'[k])
                                      /\ \A row \in changes' :
                                            row.snapshot.key = k =>
                                            row.snapshot.version <= records'[k].version
                BY DEF RecordIsLastChange
            <3>1. CASE k = m.key
                <4>1. new.snapshot.version \in Nat
                    BY <2>n DEF Change, Snapshot, Version
                <4>2. \A row \in changes : row.snapshot.version \in Nat
                    BY DEF LogInv, TypeOK, Change, Snapshot, Version
                <4>. QED  BY <2>n, <3>1, <4>1, <4>2
            <3>2. CASE k # m.key
                <4>1. records'[k] = records[k] /\ new.snapshot.key # k
                    BY <2>n, <3>2
                <4>2. IF records[k] = None
                      THEN \A row \in changes : row.snapshot.key # k
                      ELSE /\ \E row \in changes : row.snapshot = Snap(k, records[k])
                           /\ \A row \in changes :
                                  row.snapshot.key = k =>
                                  row.snapshot.version <= records[k].version
                    BY DEF LogInv, RecordIsLastChange
                <4>. QED  BY <2>n, <4>1, <4>2
            <3>. QED  BY <3>1, <3>2
        <2>. QED  BY <1>t, <2>1, <2>2, <2>3 DEF LogInv
    <1>. QED  BY <1>1, <1>2, OnlyApplyWrites

\* It holds of the empty tables,
LEMMA LogInit == Init => LogInv
    BY InitType DEF LogInv, Init, LogIsDense, VersionsFollowCursor, RecordIsLastChange

\* and so always.
LEMMA LogAlways == AnySpec => []LogInv
    BY LogInit, LogStep, PTL DEF AnySpec

\* The cursors of the log are exactly 1 to the clock: nothing is committed
\* behind a reader's position.
THEOREM LogIsAlwaysDense == Spec => []LogIsDense
    BY SpecPushes, LogAlways, PTL DEF LogInv

\* Along the log the versions of a record grow, and its tombstone is last.
THEOREM VersionsAlwaysFollowCursor == Spec => []VersionsFollowCursor
    BY SpecPushes, LogAlways, PTL DEF LogInv

\* The log determines the records.
THEOREM RecordIsAlwaysLastChange == Spec => []RecordIsLastChange
    BY SpecPushes, LogAlways, PTL DEF LogInv

-----------------------------------------------------------------------------
(* Receipts and answers.                                                   *)

\* The receipts that record an applied mutation.
AppliedAt(p) == receipts[p] # None /\ receipts[p].result.status = "applied"

\* AppliedExactlyOnce, in the form the proof works with.
ExactlyOnceInv ==
    /\ \A p \in Clients \X MutationIds :
          AppliedAt(p) => \E row \in changes : row.snapshot = receipts[p].result.record
    /\ \A row \in changes : \E p \in Clients \X MutationIds :
          AppliedAt(p) /\ row.snapshot = receipts[p].result.record
    /\ \A p, q \in Clients \X MutationIds :
          /\ AppliedAt(p)
          /\ AppliedAt(q)
          /\ receipts[p].result.record = receipts[q].result.record
          => p = q

\* The strengthened form says what AppliedExactlyOnce says.
LEMMA ExactlyOnceForms == ExactlyOnceInv => AppliedExactlyOnce
    BY DEF ExactlyOnceInv, AppliedExactlyOnce, AppliedAt

\* Every decided answer agrees with the receipt of its mutation id.
OutcomeInv ==
    \A o \in outcomes :
        /\ ReceiptFor(o.request) # None
        /\ o.result = IF ReceiptFor(o.request).request = o.request
                      THEN ReceiptFor(o.request).result
                      ELSE Reused

\* What a step does to the receipts: nothing, or one new receipt for a fresh
\* mutation, which says "applied" exactly if the step was Apply.
LEMMA ReceiptStep ==
    ASSUME TypeOK, NEW m \in Mutation, Push(m)
    PROVE  \/ /\ UNCHANGED tables
              /\ ~Fresh(m)
              /\ \/ /\ ReceiptFor(m).request = m
                    /\ outcomes' = outcomes \cup {Entry(m, ReceiptFor(m).result)}
                 \/ /\ ReceiptFor(m).request # m
                    /\ outcomes' = outcomes \cup {Entry(m, Reused)}
           \/ \E result \in Result :
                 /\ Fresh(m)
                 /\ Settle(m, result)
                 /\ \/ result.status # "applied" /\ UNCHANGED <<clock, records, changes>>
                    \/ /\ Apply(m)
                       /\ result.status = "applied"
                       /\ result.record = LogRow(m).snapshot
    <1>m. /\ m \in Mutation
          /\ records[m.key] \in Record \cup {None}
        BY DEF Mutation, TypeOK
    <1>1. CASE Replay(m)
        BY <1>1 DEF Replay
    <1>2. CASE RefuseReuse(m)
        BY <1>2 DEF RefuseReuse
    <1>3. CASE RefuseInvalid(m)
        <2>1. Invalid \in Result /\ Invalid.status # "applied"
            BY DEF Invalid, Result, Status
        <2>. QED  BY <1>3, <2>1 DEF RefuseInvalid
    <1>4. CASE Refuse(m)
        <2>1. /\ Answer(m, records[m.key]) \in Result
              /\ Answer(m, records[m.key]).status # "applied"
            BY <1>m, <1>4, AnswerType DEF Refuse
        <2>. QED  BY <1>4, <2>1 DEF Refuse
    <1>5. CASE Apply(m)
        <2>1. /\ Answer(m, records[m.key]) \in Result
              /\ Answer(m, records[m.key]).status = "applied"
              /\ Answer(m, records[m.key]).record = Snap(m.key, After(m, records[m.key]))
            BY <1>m, <1>5, AnswerType DEF Apply
        <2>2. LogRow(m).snapshot = Snap(m.key, After(m, records[m.key]))
            BY DEF LogRow
        <2>. QED  BY <1>5, <2>1, <2>2 DEF Apply
    <1>. QED  BY <1>1, <1>2, <1>3, <1>4, <1>5 DEF Push

\* A settled result is what the receipt of the mutation holds from then on;
\* the other receipts stay.
LEMMA SettledReceipt ==
    ASSUME TypeOK, NEW m \in Mutation, NEW result \in Result, Settle(m, result)
    PROVE  /\ <<m.client, m.id>> \in Clients \X MutationIds
           /\ receipts'[<<m.client, m.id>>] = Entry(m, result)
           /\ Entry(m, result) # None
           /\ Entry(m, result).request = m
           /\ Entry(m, result).result = result
           /\ \A p \in Clients \X MutationIds :
                 p # <<m.client, m.id>> => receipts'[p] = receipts[p]
    <1>1. m \in Mutation /\ <<m.client, m.id>> \in Clients \X MutationIds
        BY DEF Mutation
    <1>2. Entry(m, result) \in Receipt
        BY <1>1 DEF Entry, Receipt
    <1>3. Entry(m, result) # None
        BY <1>2, AbsentAssumption
    <1>4. Entry(m, result).request = m /\ Entry(m, result).result = result
        BY DEF Entry
    <1>. QED  BY <1>1, <1>3, <1>4 DEF Settle, TypeOK

\* Every answer stays the one its receipt holds, or the refusal of a reuse.
LEMMA OutcomeStep == TypeOK /\ OutcomeInv /\ [AnyPush]_serviceVars => OutcomeInv'
    <1>. SUFFICES ASSUME TypeOK, OutcomeInv, [AnyPush]_serviceVars PROVE OutcomeInv'
        OBVIOUS
    <1>1. CASE UNCHANGED serviceVars
        BY <1>1 DEF OutcomeInv, ReceiptFor, serviceVars
    <1>2. ASSUME NEW m \in Mutation, Push(m) PROVE OutcomeInv'
        <2>. DEFINE stored == IF ReceiptFor(m).request = m
                              THEN ReceiptFor(m).result
                              ELSE Reused
        <2>1. ASSUME UNCHANGED tables, ~Fresh(m),
                     outcomes' = outcomes \cup {Entry(m, stored)}
              PROVE  OutcomeInv'
            <3>1. receipts' = receipts
                BY <2>1 DEF tables
            <3>2. /\ Entry(m, stored).request = m
                  /\ Entry(m, stored).result = stored
                BY DEF Entry
            <3>3. ReceiptFor(m) # None
                BY <2>1 DEF Fresh
            <3>4. ASSUME NEW o \in outcomes'
                  PROVE  /\ ReceiptFor(o.request) # None
                         /\ o.result = IF ReceiptFor(o.request).request = o.request
                                       THEN ReceiptFor(o.request).result
                                       ELSE Reused
                <4>1. CASE o \in outcomes
                    BY <4>1 DEF OutcomeInv
                <4>2. CASE o = Entry(m, stored)
                    BY <3>2, <3>3, <4>2
                <4>. QED  BY <2>1, <4>1, <4>2
            <3>. QED  BY <3>1, <3>4 DEF OutcomeInv, ReceiptFor
        <2>2. (/\ UNCHANGED tables
               /\ ~Fresh(m)
               /\ \/ /\ ReceiptFor(m).request = m
                     /\ outcomes' = outcomes \cup {Entry(m, ReceiptFor(m).result)}
                  \/ /\ ReceiptFor(m).request # m
                     /\ outcomes' = outcomes \cup {Entry(m, Reused)})
              => OutcomeInv'
            BY <2>1
        <2>3. ASSUME NEW result \in Result, Fresh(m), Settle(m, result)
              PROVE  OutcomeInv'
            <3>1. /\ receipts'[<<m.client, m.id>>] = Entry(m, result)
                  /\ Entry(m, result) # None
                  /\ Entry(m, result).request = m
                  /\ Entry(m, result).result = result
                  /\ \A p \in Clients \X MutationIds :
                        p # <<m.client, m.id>> => receipts'[p] = receipts[p]
                BY <2>3, SettledReceipt
            <3>2. ASSUME NEW o \in outcomes
                  PROVE  receipts'[<<o.request.client, o.request.id>>]
                            = receipts[<<o.request.client, o.request.id>>]
                <4>1. <<o.request.client, o.request.id>> \in Clients \X MutationIds
                    BY DEF TypeOK, Receipt, Mutation
                <4>2. <<o.request.client, o.request.id>> # <<m.client, m.id>>
                    BY <2>3 DEF OutcomeInv, ReceiptFor, Fresh
                <4>. QED  BY <3>1, <4>1, <4>2
            <3>3. outcomes' = outcomes \cup {Entry(m, result)}
                BY <2>3 DEF Settle
            <3>4. ASSUME NEW o \in outcomes'
                  PROVE  /\ receipts'[<<o.request.client, o.request.id>>] # None
                         /\ o.result =
                               IF receipts'[<<o.request.client, o.request.id>>].request
                                     = o.request
                               THEN receipts'[<<o.request.client, o.request.id>>].result
                               ELSE Reused
                <4>1. CASE o \in outcomes
                    BY <3>2, <4>1 DEF OutcomeInv, ReceiptFor
                <4>2. CASE o = Entry(m, result)
                    BY <3>1, <4>2
                <4>. QED  BY <3>3, <3>4, <4>1, <4>2
            <3>. QED  BY <3>4 DEF OutcomeInv, ReceiptFor
        <2>. QED  BY <1>2, <2>1, <2>2, <2>3, ReceiptStep
    <1>. QED  BY <1>1, <1>2 DEF AnyPush

\* An applied mutation adds one receipt and one row; nothing else adds either.
LEMMA ExactlyOnceStep ==
    LogInv /\ ExactlyOnceInv /\ [AnyPush]_serviceVars => ExactlyOnceInv'
    <1>. SUFFICES ASSUME LogInv, ExactlyOnceInv, [AnyPush]_serviceVars
                  PROVE  ExactlyOnceInv'
        OBVIOUS
    <1>t. TypeOK
        BY DEF LogInv
    <1>1. CASE UNCHANGED <<changes, receipts>>
        BY <1>1 DEF ExactlyOnceInv, AppliedAt
    <1>2. ASSUME NEW m \in Mutation, NEW result \in Result,
                 Fresh(m), Settle(m, result),
                 result.status # "applied", UNCHANGED changes
          PROVE  ExactlyOnceInv'
        <2>1. \A p \in Clients \X MutationIds :
                 /\ AppliedAt(p)' <=> AppliedAt(p)
                 /\ AppliedAt(p) => receipts'[p] = receipts[p]
            BY <1>t, <1>2, SettledReceipt DEF AppliedAt, Fresh, ReceiptFor
        <2>. QED  BY <1>2, <2>1 DEF ExactlyOnceInv
    <1>3. ASSUME NEW m \in Mutation, NEW result \in Result,
                 Fresh(m), Settle(m, result), Apply(m),
                 result.status = "applied", result.record = LogRow(m).snapshot
          PROVE  ExactlyOnceInv'
        <2>. DEFINE here == <<m.client, m.id>>
                    new == LogRow(m)
        <2>1. /\ here \in Clients \X MutationIds
              /\ AppliedAt(here)'
              /\ receipts'[here].result.record = new.snapshot
              /\ ~AppliedAt(here)
              /\ \A p \in Clients \X MutationIds :
                    p # here => /\ AppliedAt(p)' <=> AppliedAt(p)
                                /\ receipts'[p] = receipts[p]
            BY <1>t, <1>3, SettledReceipt DEF AppliedAt, Fresh, ReceiptFor
        <2>2. /\ changes' = changes \cup {new}
              /\ \A row \in changes : row.snapshot # new.snapshot
            <3>1. /\ changes' = changes \cup {new}
                  /\ new \in Change
                  /\ new.snapshot.key = m.key
                  /\ \A row \in changes :
                        row.snapshot.key = m.key =>
                        row.snapshot.version < new.snapshot.version
                BY <1>3, NewRow
            <3>2. new.snapshot.version \in Nat
                BY <3>1 DEF Change, Snapshot, Version
            <3>. QED  BY <3>1, <3>2
        <2>. HIDE DEF here, new
        <2>3. \A p \in Clients \X MutationIds :
                 AppliedAt(p)' => \E row \in changes' :
                                     row.snapshot = receipts'[p].result.record
            BY <2>1, <2>2 DEF ExactlyOnceInv
        <2>4. \A row \in changes' : \E p \in Clients \X MutationIds :
                 AppliedAt(p)' /\ row.snapshot = receipts'[p].result.record
            BY <2>1, <2>2 DEF ExactlyOnceInv
        <2>5. \A p, q \in Clients \X MutationIds :
                 /\ AppliedAt(p)'
                 /\ AppliedAt(q)'
                 /\ receipts'[p].result.record = receipts'[q].result.record
                 => p = q
            <3>1. \A p \in Clients \X MutationIds :
                     p # here /\ AppliedAt(p)' =>
                        receipts'[p].result.record # new.snapshot
                BY <2>1, <2>2 DEF ExactlyOnceInv
            <3>. QED  BY <2>1, <3>1 DEF ExactlyOnceInv
        <2>. QED  BY <2>3, <2>4, <2>5 DEF ExactlyOnceInv
    <1>4. CASE UNCHANGED serviceVars
        BY <1>1, <1>4 DEF serviceVars
    <1>5. ASSUME NEW m \in Mutation, Push(m) PROVE ExactlyOnceInv'
        BY <1>t, <1>1, <1>2, <1>3, <1>5, ReceiptStep DEF tables
    <1>. QED  BY <1>4, <1>5 DEF AnyPush

\* Applied receipts and log rows are in bijection: no retry, duplicate or
\* reordering of requests applies one twice.
LEMMA AnyExactlyOnce == AnySpec => []AppliedExactlyOnce
    <1>1. Init => ExactlyOnceInv
        BY DEF Init, ExactlyOnceInv, AppliedAt
    <1>2. AnySpec => []ExactlyOnceInv
        BY <1>1, LogAlways, ExactlyOnceStep, PTL DEF AnySpec
    <1>. QED  BY <1>2, ExactlyOnceForms, PTL

\* So it is for those requests.
THEOREM ExactlyOnce == Spec => []AppliedExactlyOnce
    BY SpecPushes, AnyExactlyOnce, PTL

\* Whatever else happens in between, a request is always answered the same.
LEMMA AnyAnswersAgree == AnySpec => []AnswersAgree
    <1>1. Init => OutcomeInv
        BY DEF Init, OutcomeInv
    <1>2. AnySpec => []OutcomeInv
        BY <1>1, AnyTypeCorrect, OutcomeStep, PTL DEF AnySpec
    <1>3. OutcomeInv => AnswersAgree
        BY DEF OutcomeInv, AnswersAgree
    <1>. QED  BY <1>2, <1>3, PTL

\* Among those requests, too, a retry is answered as the first was.
THEOREM AnswersAlwaysAgree == Spec => []AnswersAgree
    BY SpecPushes, AnyAnswersAgree, PTL

-----------------------------------------------------------------------------
(* History.                                                                *)

\* No step takes back a log row, a receipt, a version or a tombstone.
LEMMA AnyHistoryIsKept == AnySpec => HistoryIsKept
    <1>. DEFINE Kept ==
            /\ changes \subseteq changes'
            /\ \A p \in Clients \X MutationIds :
                  receipts[p] # None => receipts'[p] = receipts[p]
            /\ \A k \in Keys :
                  records[k] # None =>
                     /\ records'[k] # None
                     /\ records'[k].version >= records[k].version
                     /\ records[k].deleted => records'[k] = records[k]
    <1>1. ASSUME TypeOK, NEW m \in Mutation, Push(m) PROVE Kept
        <2>t. \A k \in Keys : records[k] # None => records[k].version \in Nat
            BY <1>1 DEF TypeOK, Record, Version
        <2>1. CASE UNCHANGED tables
            BY <2>1, <2>t DEF tables
        <2>2. ASSUME NEW result \in Result, Fresh(m), Settle(m, result)
              PROVE  \A p \in Clients \X MutationIds :
                        receipts[p] # None => receipts'[p] = receipts[p]
            BY <1>1, <2>2, SettledReceipt DEF Fresh, ReceiptFor
        <2>3. CASE UNCHANGED <<clock, records, changes>>
            BY <1>1, <2>1, <2>2, <2>3, <2>t, ReceiptStep
        <2>4. CASE Apply(m)
            <3>m. m \in Mutation /\ m.key \in Keys
                BY DEF Mutation
            <3>1. /\ Valid(m)
                  /\ Applies(m, records[m.key])
                  /\ records' = [records EXCEPT ![m.key] = After(m, records[m.key])]
                  /\ changes \subseteq changes'
                BY <2>4 DEF Apply
            <3>2. /\ After(m, records[m.key]) # None
                  /\ records[m.key] # None =>
                        /\ ~records[m.key].deleted
                        /\ After(m, records[m.key]).version = records[m.key].version + 1
                BY <1>1, <3>m, <3>1, AfterType DEF TypeOK
            <3>3. \A k \in Keys :
                     records'[k] = IF k = m.key THEN After(m, records[m.key])
                                   ELSE records[k]
                BY <1>1, <3>1 DEF TypeOK
            <3>4. \A k \in Keys :
                     records[k] # None =>
                        /\ records'[k] # None
                        /\ records'[k].version >= records[k].version
                        /\ records[k].deleted => records'[k] = records[k]
                BY <2>t, <3>m, <3>2, <3>3
            <3>5. \A p \in Clients \X MutationIds :
                     receipts[p] # None => receipts'[p] = receipts[p]
                BY <1>1, <2>1, <2>2, ReceiptStep
            <3>. QED  BY <3>1, <3>4, <3>5
        <2>. QED  BY <1>1, <2>1, <2>3, <2>4, ReceiptStep
    <1>2. TypeOK /\ [AnyPush]_serviceVars => [Kept]_serviceVars
        BY <1>1 DEF AnyPush
    <1>3. AnySpec => [][Kept]_serviceVars
        BY <1>2, AnyTypeCorrect, PTL DEF AnySpec
    <1>. QED  BY <1>3 DEF HistoryIsKept

\* Nor does a step that pushes one of those requests.
THEOREM HistoryIsAlwaysKept == Spec => HistoryIsKept
    BY SpecPushes, AnyHistoryIsKept, PTL
=============================================================================
