-------------------------- MODULE OfflineSyncProofs --------------------------
(***************************************************************************)
(* The safety properties of OfflineSync, proved for every number of tabs,  *)
(* notes, edits and other devices: the outbox is a chain per record, edits *)
(* are kept, a conflict blocks its record, and a mutation id keeps its     *)
(* content.  The service keeps the promises of SyncService all the while.  *)
(*                                                                         *)
(* The invariant is about the stores at the end of a transaction, and is   *)
(* stated of any such state, a record like Stores: the loop of             *)
(* applyMutationResults keeps it from one result to the next.              *)
(***************************************************************************)
EXTENDS OfflineSync, SyncServiceProofs, FiniteSetTheorems, NaturalsInduction,
        WellFoundedInduction

StoreState ==
    [outbox    : SUBSET Operation,
     local     : [Keys -> LocalRecord \cup {None}],
     conflicts : [Keys -> Conflict \cup {None}],
     nextId    : Nat \ {0}]

\* What an operation shows of itself in the record, and what the record shows.
As(op) == [seq |-> op.seq, action |-> op.action, value |-> op.value]
Shown(row) == IF row = None THEN None ELSE row.optimistic

\* An operation that waits does so for the head of its record, behind it, and
\* has never been sent.
Waits(op, ops) ==
    /\ op.status \in {"queued", "blocked"}
    /\ op.attempts = 0
    /\ \E head \in ops :
          /\ head.key = op.key
          /\ head.id = op.depends
          /\ head.depends = None
          /\ head.seq < op.seq

\* An operation of the stores s, when the next edit is number n.
OpSound(op, s, n) ==
    /\ op.id \in Nat
    /\ op.id < s.nextId
    /\ op.seq \in 1..(n - 1)
    /\ op.depends # None => Waits(op, s.outbox)
    /\ op.status = "blocked" => s.conflicts[op.key] # None
    /\ op.status = "failed" =>
          s.local[op.key] # None /\ s.local[op.key].state = "failed"

\* Per record there is at most one head and one that waits for it.
Apart(ops) ==
    \A a, b \in ops :
        \/ a.id = b.id
        \/ a.seq = b.seq
        \/ a.key = b.key /\ (a.depends = None <=> b.depends = None)
        => a = b

\* The row and the conflict of a record agree with each other and with its
\* operations.
RowSound(k, s) ==
    /\ s.conflicts[k] # None <=> (s.local[k] # None /\ s.local[k].state = "conflict")
    /\ s.conflicts[k] # None =>
          /\ s.conflicts[k].server = s.local[k].confirmed
          /\ \A op \in OpsOf(k, s.outbox) : op.status = "blocked"
          /\ \E op \in OpsOf(k, s.outbox) : op.id = s.conflicts[k].id
    /\ OpsOf(k, s.outbox) = {} => Shown(s.local[k]) = None
    /\ \A op \in OpsOf(k, s.outbox) :
          (\A other \in OpsOf(k, s.outbox) : other.seq <= op.seq)
          => Shown(s.local[k]) = As(op)

\* The edits that may still be given a second id.
Waiting(ops, n) ==
    {i \in 1..(n - 1) : \E op \in ops : op.seq = i /\ op.depends # None}

StoresSound(s, n) ==
    /\ s \in StoreState
    /\ \A op \in s.outbox : OpSound(op, s, n)
    /\ Apart(s.outbox)
    /\ \A k \in Keys : RowSound(k, s)
    /\ s.nextId + Cardinality(Waiting(s.outbox, n)) <= 2 * n - 1

\* The requests of this profile that have left it.
Said(requests, answered) ==
    {r.request : r \in requests} \cup
    {o.request : o \in {a \in answered : a.request.client = Me}}

\* One content for each id, in the outbox and outside.
PayloadsSound(said, ops, fresh) ==
    /\ \A a \in said :
          /\ a \in Mutation
          /\ a.client = Me
          /\ a.id \in Nat
          /\ a.id < fresh
    /\ \A a, b \in said : a.id = b.id => a = b
    /\ \A op \in ops, a \in said : op.id = a.id => a = Request(op)

\* Receipts are among the answers given, and an applied answer names the
\* record that was asked for (applyMutationResults throws if it does not).
AnswersSound ==
    /\ \A p \in Clients \X MutationIds :
          receipts[p] # None =>
             /\ receipts[p] \in outcomes
             /\ receipts[p].request.client = p[1]
             /\ receipts[p].request.id = p[2]
    /\ \A o \in outcomes :
          o.result.status = "applied" =>
             o.result.record \in Snapshot /\ o.result.record.key = o.request.key

\* What tab t waits for.
TabSound(t) ==
    /\ tab[t].pc = "pushing" =>
          \A op \in tab[t].ops :
             \/ [to |-> t, request |-> Request(op)] \in wire
             \/ \E o \in outcomes : o.request = Request(op)
    /\ tab[t].pc = "pulling" =>
          /\ tab[t].page.next \in Cursor
          /\ tab[t].page.rows \subseteq Change

OfflineInv ==
    /\ TypeOK
    /\ AnswersSound
    /\ nextSeq \in 1..(MaxEdits + 1)
    /\ pullCursor \in Cursor \cup {None}
    /\ StoresSound(Stores, nextSeq)
    /\ PayloadsSound(Said(wire, outcomes), outbox, nextId)
    /\ SentPayloadsAreFixed
    /\ tab = [t \in Tabs |-> tab[t]]
    /\ \A t \in Tabs : TabSound(t)

-----------------------------------------------------------------------------
(* Loops.                                                                  *)

\* A set of naturals that is not empty has a least element.
LEMMA LeastOf ==
    ASSUME NEW S \in SUBSET Nat, S # {}
    PROVE  \E i \in S : \A j \in S : i <= j
    <1>. DEFINE Less == OpToRel(<, Nat)
    <1>1. PICK i \in S : \A j \in S : <<j, i>> \notin Less
        BY NatLessThanWellFounded, WFMin
    <1>2. \A j \in S : ~(j < i)
        BY <1>1 DEF OpToRel
    <1>. QED  BY <1>2

\* The loop over results runs: there are stores after each of its turns.
LEMMA HandledRuns ==
    ASSUME nextSeq \in Nat \ {0}, NEW ops, NEW results
    PROVE  \E after :
              /\ after = [n \in 0..(nextSeq - 1) |->
                    IF n = 0 THEN Stores ELSE Turn(n, ops, results, after[n - 1])]
              /\ Handled(ops, results) = after[nextSeq - 1]
    <1>. DEFINE Runs(n, f) ==
                    f = [i \in 0..n |->
                           IF i = 0 THEN Stores ELSE Turn(i, ops, results, f[i - 1])]
                Stuck == {n \in Nat : ~\E f : Runs(n, f)}
    <1>1. Stuck = {}
        <2>. SUFFICES ASSUME Stuck # {} PROVE FALSE
            OBVIOUS
        <2>1. PICK n \in Stuck : \A j \in Stuck : n <= j
            BY LeastOf
        <2>2. n \in Nat /\ ~\E f : Runs(n, f)
            OBVIOUS
        <2>3. CASE n = 0
            <3>. DEFINE f == [i \in 0..0 |-> Stores]
            <3>1. \A i \in 0..0 : i = 0
                OBVIOUS
            <3>2. f = [i \in 0..0 |->
                        IF i = 0 THEN Stores ELSE Turn(i, ops, results, f[i - 1])]
                BY <3>1
            <3>. QED  BY <2>2, <2>3, <3>2
        <2>4. CASE n # 0
            <3>a. n - 1 \in Nat /\ ~(n <= n - 1)
                BY <2>2, <2>4
            <3>b. n - 1 \notin Stuck
                <4>. HIDE DEF Stuck
                <4>. QED  BY <2>1, <3>a
            <3>1. \E f : Runs(n - 1, f)
                BY <3>a, <3>b
            <3>2. PICK f : Runs(n - 1, f)
                BY <3>1
            <3>. DEFINE g == [i \in 0..n |->
                                IF i < n THEN f[i]
                                ELSE Turn(n, ops, results, f[n - 1])]
            <3>3. ASSUME NEW i \in 0..n
                  PROVE  g[i] = IF i = 0 THEN Stores
                                ELSE Turn(i, ops, results, g[i - 1])
                <4>1. CASE i = 0
                    BY <2>2, <2>4, <3>2, <4>1
                <4>2. CASE i # 0 /\ i < n
                    <5>1. i \in 0..(n - 1) /\ i - 1 \in 0..n /\ i - 1 < n
                        BY <2>2, <4>2
                    <5>2. g[i] = f[i] /\ g[i - 1] = f[i - 1]
                        BY <4>2, <5>1
                    <5>3. f[i] = Turn(i, ops, results, f[i - 1])
                        BY <3>2, <4>2, <5>1
                    <5>. QED  BY <4>2, <5>2, <5>3
                <4>3. CASE i = n
                    <5>1. n - 1 \in 0..n /\ n - 1 < n
                        BY <2>2, <2>4
                    <5>2. g[n - 1] = f[n - 1]
                        BY <5>1
                    <5>. QED  BY <2>4, <4>3, <5>2
                <4>. QED  BY <2>2, <4>1, <4>2, <4>3
            <3>4. Runs(n, g)
                <4>. DEFINE h == [i \in 0..n |-> IF i = 0 THEN Stores
                                    ELSE Turn(i, ops, results, g[i - 1])]
                <4>1. \A i \in 0..n : g[i] = h[i]
                    BY <3>3
                <4>2. g = h
                    BY <4>1
                <4>. QED  BY <4>2
            <3>. QED  BY <2>2, <3>4
        <2>. QED  BY <2>3, <2>4
    <1>2. \E f : Runs(nextSeq - 1, f)
        <2>1. nextSeq - 1 \in Nat
            OBVIOUS
        <2>2. \A n \in Nat : \E f : Runs(n, f)
            BY <1>1
        <2>. HIDE DEF Runs
        <2>. QED  BY <2>1, <2>2
    <1>. QED  BY <1>2 DEF Handled

\* So does the loop over the rows of a page.
LEMMA MergedRuns ==
    ASSUME NEW page, page.next.position \in Nat
    PROVE  \E merged :
              /\ merged = [n \in 0..page.next.position |->
                    IF n = 0 THEN local ELSE RowTurn(n, page, merged[n - 1])]
              /\ Merged(page) = merged[page.next.position]
    <1>. DEFINE Runs(n, f) ==
                    f = [i \in 0..n |->
                           IF i = 0 THEN local ELSE RowTurn(i, page, f[i - 1])]
                Stuck == {n \in Nat : ~\E f : Runs(n, f)}
    <1>1. Stuck = {}
        <2>. SUFFICES ASSUME Stuck # {} PROVE FALSE
            OBVIOUS
        <2>1. PICK n \in Stuck : \A j \in Stuck : n <= j
            BY LeastOf
        <2>2. n \in Nat /\ ~\E f : Runs(n, f)
            OBVIOUS
        <2>3. CASE n = 0
            <3>. DEFINE f == [i \in 0..0 |-> local]
            <3>1. \A i \in 0..0 : i = 0
                OBVIOUS
            <3>2. f = [i \in 0..0 |->
                        IF i = 0 THEN local ELSE RowTurn(i, page, f[i - 1])]
                BY <3>1
            <3>. QED  BY <2>2, <2>3, <3>2
        <2>4. CASE n # 0
            <3>a. n - 1 \in Nat /\ ~(n <= n - 1)
                BY <2>2, <2>4
            <3>b. n - 1 \notin Stuck
                <4>. HIDE DEF Stuck
                <4>. QED  BY <2>1, <3>a
            <3>1. \E f : Runs(n - 1, f)
                BY <3>a, <3>b
            <3>2. PICK f : Runs(n - 1, f)
                BY <3>1
            <3>. DEFINE g == [i \in 0..n |->
                                IF i < n THEN f[i]
                                ELSE RowTurn(n, page, f[n - 1])]
            <3>3. ASSUME NEW i \in 0..n
                  PROVE  g[i] = IF i = 0 THEN local
                                ELSE RowTurn(i, page, g[i - 1])
                <4>1. CASE i = 0
                    BY <2>2, <2>4, <3>2, <4>1
                <4>2. CASE i # 0 /\ i < n
                    <5>1. i \in 0..(n - 1) /\ i - 1 \in 0..n /\ i - 1 < n
                        BY <2>2, <4>2
                    <5>2. g[i] = f[i] /\ g[i - 1] = f[i - 1]
                        BY <4>2, <5>1
                    <5>3. f[i] = RowTurn(i, page, f[i - 1])
                        BY <3>2, <4>2, <5>1
                    <5>. QED  BY <4>2, <5>2, <5>3
                <4>3. CASE i = n
                    <5>1. n - 1 \in 0..n /\ n - 1 < n
                        BY <2>2, <2>4
                    <5>2. g[n - 1] = f[n - 1]
                        BY <5>1
                    <5>. QED  BY <2>4, <4>3, <5>2
                <4>. QED  BY <2>2, <4>1, <4>2, <4>3
            <3>4. Runs(n, g)
                <4>. DEFINE h == [i \in 0..n |-> IF i = 0 THEN local
                                    ELSE RowTurn(i, page, g[i - 1])]
                <4>1. \A i \in 0..n : g[i] = h[i]
                    BY <3>3
                <4>2. g = h
                    BY <4>1
                <4>. QED  BY <4>2
            <3>. QED  BY <2>2, <3>4
        <2>. QED  BY <2>3, <2>4
    <1>2. \E f : Runs(page.next.position, f)
        BY <1>1
    <1>. QED  BY <1>2 DEF Merged

-----------------------------------------------------------------------------
(* The stores of one transaction.                                          *)

\* What a change of status leaves alone.
SameEdit(o, p) ==
    /\ p.id = o.id /\ p.key = o.key
    /\ p.action = o.action /\ p.value = o.value /\ p.base = o.base
    /\ p.seq = o.seq /\ p.depends = o.depends

\* Sets of edits that may be given a second id are finite.
LEMMA WaitingFinite ==
    ASSUME NEW ops, NEW n \in Nat
    PROVE  /\ Waiting(ops, n) \subseteq 1..(n - 1)
           /\ IsFiniteSet(Waiting(ops, n))
           /\ Cardinality(Waiting(ops, n)) \in Nat
    <1>1. Waiting(ops, n) \subseteq 1..(n - 1)
        BY DEF Waiting
    <1>2. IsFiniteSet(1..(n - 1))
        BY FS_Interval
    <1>3. IsFiniteSet(Waiting(ops, n))
        BY <1>1, <1>2, FS_Subset
    <1>. QED  BY <1>1, <1>3, FS_CardinalityType

\* An operation that is sent is the head of its record: what else there is
\* of the record waits for it. The record has no conflict and shows an edit.
LEMMA HeadAlone ==
    ASSUME NEW s, NEW n \in Nat, StoresSound(s, n),
           NEW op \in s.outbox, op.status = "inflight"
    PROVE  /\ op \in Operation
           /\ op.key \in Keys
           /\ op.id # None
           /\ op.depends = None
           /\ s.conflicts[op.key] = None
           /\ s.local[op.key] # None
           /\ s.local[op.key] \in LocalRecord
           /\ \A o \in s.outbox :
                 o.key = op.key => o = op \/ (o.depends = op.id /\ op.seq < o.seq)
           /\ \A o, p \in s.outbox :
                 o.depends = op.id /\ p.depends = op.id
                 /\ o.key = op.key /\ p.key = op.key => o = p
           /\ Shown(s.local[op.key]) # None
    <1>1. /\ op \in Operation /\ op.key \in Keys
          /\ OpSound(op, s, n) /\ Apart(s.outbox) /\ RowSound(op.key, s)
        BY DEF StoresSound, StoreState, Operation
    <1>2. op.id # None
        BY <1>1, AbsentAssumption DEF OpSound
    <1>3. op.depends = None
        BY <1>1 DEF OpSound, Waits
    <1>4. s.conflicts[op.key] = None
        BY <1>1 DEF RowSound, OpsOf
    <1>5. ASSUME NEW o \in s.outbox, o.key = op.key, o # op
          PROVE  o.depends = op.id /\ op.seq < o.seq
        <2>1. o.depends # None
            BY <1>1, <1>3, <1>5 DEF Apart
        <2>2. OpSound(o, s, n)
            BY DEF StoresSound
        <2>3. PICK head \in s.outbox : /\ head.key = o.key
                                       /\ head.id = o.depends
                                       /\ head.depends = None
                                       /\ head.seq < o.seq
            BY <2>1, <2>2 DEF OpSound, Waits
        <2>4. head = op
            BY <1>1, <1>3, <1>5, <2>3 DEF Apart
        <2>. QED  BY <2>3, <2>4
    <1>6. \A o, p \in s.outbox :
             o.depends = op.id /\ p.depends = op.id
             /\ o.key = op.key /\ p.key = op.key => o = p
        BY <1>1, <1>2 DEF Apart
    <1>7. Shown(s.local[op.key]) # None
        <2>1. PICK top \in OpsOf(op.key, s.outbox) :
                 \A o \in OpsOf(op.key, s.outbox) : o.seq <= top.seq
            <3>1. /\ op \in OpsOf(op.key, s.outbox)
                  /\ \A o \in OpsOf(op.key, s.outbox) : o \in s.outbox /\ o.key = op.key
                BY DEF OpsOf
            <3>2. \A o \in s.outbox : o.seq \in Nat
                BY DEF StoresSound, OpSound
            <3>3. CASE \E o \in OpsOf(op.key, s.outbox) : o # op
                <4>1. PICK q \in OpsOf(op.key, s.outbox) : q # op
                    BY <3>3
                <4>2. \A o \in OpsOf(op.key, s.outbox) : o = op \/ o = q
                    BY <1>5, <1>6, <3>1, <4>1
                <4>3. op.seq <= q.seq /\ q.seq <= q.seq
                    BY <1>5, <3>1, <3>2, <4>1
                <4>. QED  BY <4>1, <4>2, <4>3
            <3>4. CASE \A o \in OpsOf(op.key, s.outbox) : o = op
                BY <3>1, <3>2, <3>4
            <3>. QED  BY <3>3, <3>4
        <2>2. Shown(s.local[op.key]) = As(top)
            BY <1>1, <2>1 DEF RowSound
        <2>3. As(top) \in Edit
            BY <2>1 DEF As, Edit, OpsOf, StoresSound, StoreState, Operation
        <2>. QED  BY <2>2, <2>3, NoRowAssumption
    <1>8. s.local[op.key] # None /\ s.local[op.key] \in LocalRecord
        BY <1>1, <1>7 DEF StoresSound, StoreState, Shown
    <1>. QED  BY <1>1, <1>2, <1>3, <1>4, <1>5, <1>6, <1>7, <1>8

\* F changes status, attempts and lease of the operations of s, to what the
\* rows and conflicts beside them allow.
OpsAgree(s, F, rows, marks) ==
    /\ F \in [s.outbox -> Operation]
    /\ \A o \in s.outbox :
          /\ SameEdit(o, F[o])
          /\ o.depends # None => /\ F[o].status \in {"queued", "blocked"}
                                 /\ F[o].attempts = 0
          /\ F[o].status = "blocked" => marks[o.key] # None
          /\ F[o].status = "failed" =>
                rows[o.key] # None /\ rows[o.key].state = "failed"

\* The rows show what those of s show, and conflicts are marked where the
\* operations are blocked.
RowsAgree(s, F, rows, marks) ==
    /\ rows \in [Keys -> LocalRecord \cup {None}]
    /\ marks \in [Keys -> Conflict \cup {None}]
    /\ \A k \in Keys :
          /\ Shown(rows[k]) = Shown(s.local[k])
          /\ marks[k] # None <=> (rows[k] # None /\ rows[k].state = "conflict")
          /\ marks[k] # None =>
                /\ marks[k].server = rows[k].confirmed
                /\ \A o \in OpsOf(k, s.outbox) : F[o].status = "blocked"
                /\ \E o \in OpsOf(k, s.outbox) : o.id = marks[k].id

\* Stores stay sound when operations change nothing but status, attempts and
\* lease, as long as rows and conflicts go along.
LEMMA RelabelKeeps ==
    ASSUME NEW s, NEW n \in Nat, StoresSound(s, n), NEW F, NEW rows, NEW marks,
           OpsAgree(s, F, rows, marks), RowsAgree(s, F, rows, marks)
    PROVE  StoresSound([outbox |-> {F[o] : o \in s.outbox}, local |-> rows,
                        conflicts |-> marks, nextId |-> s.nextId], n)
    <1>a. /\ F \in [s.outbox -> Operation]
          /\ \A o \in s.outbox :
                /\ SameEdit(o, F[o])
                /\ o.depends # None => /\ F[o].status \in {"queued", "blocked"}
                                       /\ F[o].attempts = 0
                /\ F[o].status = "blocked" => marks[o.key] # None
                /\ F[o].status = "failed" =>
                      rows[o.key] # None /\ rows[o.key].state = "failed"
        BY DEF OpsAgree
    <1>b. /\ rows \in [Keys -> LocalRecord \cup {None}]
          /\ marks \in [Keys -> Conflict \cup {None}]
          /\ \A k \in Keys :
                /\ Shown(rows[k]) = Shown(s.local[k])
                /\ marks[k] # None <=> (rows[k] # None /\ rows[k].state = "conflict")
                /\ marks[k] # None =>
                      /\ marks[k].server = rows[k].confirmed
                      /\ \A o \in OpsOf(k, s.outbox) : F[o].status = "blocked"
                      /\ \E o \in OpsOf(k, s.outbox) : o.id = marks[k].id
        BY DEF RowsAgree
    <1>. DEFINE ops == {F[o] : o \in s.outbox}
                new == [outbox |-> ops, local |-> rows, conflicts |-> marks,
                        nextId |-> s.nextId]
    <1>f. /\ new.outbox = ops /\ new.local = rows
          /\ new.conflicts = marks /\ new.nextId = s.nextId
        OBVIOUS
    <1>o. \A o \in s.outbox : F[o] \in ops /\ F[o] \in Operation /\ SameEdit(o, F[o])
        BY <1>a
    <1>p. ASSUME NEW p \in ops
          PROVE  \E o \in s.outbox : p = F[o] /\ SameEdit(o, p)
        BY <1>a
    <1>1. new \in StoreState
        BY <1>a, <1>b DEF StoresSound, StoreState
    <1>2. ASSUME NEW p \in ops PROVE OpSound(p, new, n)
        <2>1. PICK o \in s.outbox : p = F[o]
            OBVIOUS
        <2>2. OpSound(o, s, n) /\ SameEdit(o, p)
            BY <1>a, <2>1 DEF StoresSound
        <2>3. ASSUME p.depends # None PROVE Waits(p, ops)
            <3>1. o.depends # None /\ Waits(o, s.outbox)
                BY <2>2, <2>3 DEF OpSound, SameEdit
            <3>2. PICK head \in s.outbox : /\ head.key = o.key
                                           /\ head.id = o.depends
                                           /\ head.depends = None
                                           /\ head.seq < o.seq
                BY <3>1 DEF Waits
            <3>3. F[head] \in ops /\ SameEdit(head, F[head])
                BY <1>o
            <3>4. p.status \in {"queued", "blocked"} /\ p.attempts = 0
                BY <1>a, <2>1, <3>1
            <3>5. /\ F[head].key = p.key /\ F[head].id = p.depends
                  /\ F[head].depends = None /\ F[head].seq < p.seq
                BY <2>2, <3>2, <3>3 DEF SameEdit
            <3>. QED  BY <3>3, <3>4, <3>5 DEF Waits
        <2>4. /\ p.status = "blocked" => marks[p.key] # None
              /\ p.status = "failed" => rows[p.key] # None /\ rows[p.key].state = "failed"
            BY <1>a, <2>1, <2>2 DEF SameEdit
        <2>. HIDE DEF ops, new
        <2>. QED  BY <1>f, <2>2, <2>3, <2>4 DEF OpSound, SameEdit
    <1>3. Apart(ops)
        <2>1. ASSUME NEW a \in ops, NEW b \in ops,
                     \/ a.id = b.id
                     \/ a.seq = b.seq
                     \/ a.key = b.key /\ (a.depends = None <=> b.depends = None)
              PROVE  a = b
            <3>1. PICK o \in s.outbox : a = F[o]
                OBVIOUS
            <3>2. PICK p \in s.outbox : b = F[p]
                OBVIOUS
            <3>3. o = p
                BY <1>o, <2>1, <3>1, <3>2 DEF SameEdit, StoresSound, Apart
            <3>. QED  BY <3>1, <3>2, <3>3
        <2>. QED  BY <2>1 DEF Apart
    <1>4. ASSUME NEW k \in Keys PROVE RowSound(k, new)
        <2>1. /\ \A o \in OpsOf(k, s.outbox) : o \in s.outbox /\ F[o] \in OpsOf(k, ops)
              /\ \A p \in OpsOf(k, ops) :
                    \E o \in OpsOf(k, s.outbox) : p = F[o] /\ SameEdit(o, p)
            BY <1>o DEF OpsOf, SameEdit
        <2>2. RowSound(k, s)
            BY DEF StoresSound
        <2>. HIDE DEF ops, new
        <2>3. marks[k] # None <=> (rows[k] # None /\ rows[k].state = "conflict")
            BY <1>b
        <2>4. ASSUME marks[k] # None
              PROVE  /\ marks[k].server = rows[k].confirmed
                     /\ \A p \in OpsOf(k, ops) : p.status = "blocked"
                     /\ \E p \in OpsOf(k, ops) : p.id = marks[k].id
            <3>1. /\ marks[k].server = rows[k].confirmed
                  /\ \A o \in OpsOf(k, s.outbox) : F[o].status = "blocked"
                BY <1>b, <2>4
            <3>2. PICK o \in OpsOf(k, s.outbox) : o.id = marks[k].id
                BY <1>b, <2>4
            <3>3. F[o] \in OpsOf(k, ops) /\ F[o].id = o.id
                BY <1>o, <2>1 DEF SameEdit
            <3>. QED  BY <2>1, <3>1, <3>2, <3>3
        <2>5. OpsOf(k, ops) = {} => Shown(rows[k]) = None
            BY <1>b, <2>1, <2>2 DEF RowSound
        <2>6. ASSUME NEW p \in OpsOf(k, ops),
                     \A other \in OpsOf(k, ops) : other.seq <= p.seq
              PROVE  Shown(rows[k]) = As(p)
            <3>1. PICK o \in OpsOf(k, s.outbox) : p = F[o] /\ SameEdit(o, p)
                BY <2>1
            <3>2. ASSUME NEW other \in OpsOf(k, s.outbox) PROVE other.seq <= o.seq
                <4>1. F[other] \in OpsOf(k, ops) /\ SameEdit(other, F[other])
                    BY <1>o, <2>1
                <4>2. F[other].seq <= p.seq
                    BY <2>6, <4>1
                <4>. QED  BY <3>1, <4>1, <4>2 DEF SameEdit
            <3>3. Shown(s.local[k]) = As(o)
                BY <2>2, <3>1, <3>2 DEF RowSound
            <3>. QED  BY <1>b, <3>1, <3>3 DEF As, SameEdit
        <2>. QED  BY <1>f, <2>3, <2>4, <2>5, <2>6 DEF RowSound
    <1>5. Waiting(ops, n) = Waiting(s.outbox, n)
        <2>1. ASSUME NEW i \in 1..(n - 1)
              PROVE  (\E p \in ops : p.seq = i /\ p.depends # None)
                     <=> (\E o \in s.outbox : o.seq = i /\ o.depends # None)
            BY <1>o, <1>p DEF SameEdit
        <2>. QED  BY <2>1 DEF Waiting
    <1>6. new.nextId + Cardinality(Waiting(new.outbox, n)) <= 2 * n - 1
        BY <1>5, <1>f DEF StoresSound
    <1>. HIDE DEF ops, new
    <1>7. StoresSound(new, n)
        BY <1>1, <1>2, <1>3, <1>4, <1>6, <1>f DEF StoresSound
    <1>. QED  BY <1>7 DEF new, ops

-----------------------------------------------------------------------------
(* One result.                                                             *)

\* What the result of op leaves alone: operations of other records stay, an
\* operation with a known id keeps its payload, and ids only grow.
Steady(op, s, new) ==
    /\ \A o \in s.outbox : o.key # op.key => o \in new.outbox
    /\ \A p \in new.outbox :
          p.id >= s.nextId \/ \E o \in s.outbox : SameEdit(o, p)
    /\ new.nextId >= s.nextId

\* A conflict blocks the operation and the one that waits for it, and both
\* versions are kept for the user.
LEMMA ConflictKeeps ==
    ASSUME NEW s, NEW n \in Nat, StoresSound(s, n),
           NEW op \in s.outbox, op.status = "inflight",
           NEW record \in Snapshot \cup {None}
    PROVE  /\ StoresSound(OnConflict(op, record, s), n)
           /\ Steady(op, s, OnConflict(op, record, s))
    <1>. DEFINE k == op.key
                old == s.local[k]
                kept == Else(IF old = None THEN None ELSE old.optimistic,
                             [seq |-> op.seq, action |-> op.action, value |-> op.value])
                server == Else(record, IF old = None THEN None ELSE old.confirmed)
                row == [confirmed |-> server, optimistic |-> kept, state |-> "conflict"]
                mark == [id |-> op.id, server |-> server]
                rows == [s.local EXCEPT ![k] = row]
                marks == [s.conflicts EXCEPT ![k] = mark]
                F == [o \in s.outbox |-> Block(o, op)]
                new == [outbox |-> {F[o] : o \in s.outbox}, local |-> rows,
                        conflicts |-> marks, nextId |-> s.nextId]
    <1>s. s \in StoreState /\ s.nextId \in Nat
        BY DEF StoresSound, StoreState
    <1>h. /\ op \in Operation /\ op.key \in Keys
          /\ op.depends = None /\ s.conflicts[k] = None
          /\ old # None /\ old \in LocalRecord
          /\ \A o \in s.outbox :
                o.key = op.key => o = op \/ (o.depends = op.id /\ op.seq < o.seq)
        BY HeadAlone
    <1>k. k \in Keys
        BY <1>h
    <1>1. OnConflict(op, record, s) = new
        <2>1. s = [outbox |-> s.outbox, local |-> s.local,
                   conflicts |-> s.conflicts, nextId |-> s.nextId]
            BY <1>s DEF StoreState
        <2>2. {F[o] : o \in s.outbox} = {Block(o, op) : o \in s.outbox}
            OBVIOUS
        <2>. DEFINE one == [s EXCEPT !.outbox = {Block(o, op) : o \in @}]
        <2>3. OnConflict(op, record, s) =
                 [one EXCEPT !.local[op.key] = row, !.conflicts[op.key] = mark]
            BY DEF OnConflict
        <2>4. one = [outbox |-> {Block(o, op) : o \in s.outbox}, local |-> s.local,
                     conflicts |-> s.conflicts, nextId |-> s.nextId]
            BY <2>1
        <2>. HIDE DEF one, row, mark, F
        <2>. QED  BY <2>2, <2>3, <2>4
    <1>2. ASSUME NEW o \in s.outbox
          PROVE  /\ F[o] \in Operation
                 /\ SameEdit(o, F[o])
                 /\ o.key = k => F[o].status = "blocked"
                 /\ o.key # k => F[o] = o
                 /\ o.depends # None => /\ F[o].status \in {"queued", "blocked"}
                                        /\ F[o].attempts = 0
        <2>1. F[o] = Block(o, op) /\ o \in Operation /\ OpSound(o, s, n)
            BY <1>s DEF StoresSound, StoreState
        <2>2. F[o] \in Operation /\ SameEdit(o, F[o])
            BY <2>1 DEF Block, SameEdit, Operation
        <2>3. o.key # k => o.id # op.id
            BY DEF StoresSound, Apart
        <2>4. o.key # k => F[o] = o
            BY <2>1, <2>3 DEF Block
        <2>5. o.key = k => F[o].status = "blocked"
            BY <1>h, <2>1 DEF Block, Operation
        <2>6. o.depends # None => /\ F[o].status \in {"queued", "blocked"}
                                  /\ F[o].attempts = 0
            <3>1. o.depends # None => o.status \in {"queued", "blocked"} /\ o.attempts = 0
                BY <2>1 DEF OpSound, Waits
            <3>2. o.depends # None => o # op /\ o.id # op.id
                BY <1>h DEF StoresSound, Apart
            <3>. QED  BY <2>1, <3>1, <3>2 DEF Block, Operation
        <2>. QED  BY <2>2, <2>4, <2>5, <2>6
    <1>3. server \in Snapshot \cup {None}
        BY <1>h DEF Else, LocalRecord
    <1>4. kept \in Edit /\ (old.optimistic # None => kept = old.optimistic)
        BY <1>h DEF Else, LocalRecord, Edit, Operation
    <1>. HIDE DEF server, kept
    <1>5. row \in LocalRecord /\ row # None /\ mark \in Conflict /\ mark # None
        <2>1. row \in LocalRecord
            BY <1>3, <1>4 DEF LocalRecord
        <2>2. mark \in Conflict
            BY <1>3, <1>h DEF Conflict, Operation
        <2>. QED  BY <2>1, <2>2, NoRowAssumption
    <1>6. Shown(s.local[k]) # None
        BY HeadAlone
    <1>7. Shown(row) = Shown(s.local[k])
        BY <1>4, <1>5, <1>6, <1>h DEF Shown
    <1>. HIDE DEF row, mark
    <1>8. /\ rows \in [Keys -> LocalRecord \cup {None}]
          /\ marks \in [Keys -> Conflict \cup {None}]
          /\ rows[k] = row /\ marks[k] = mark
          /\ \A j \in Keys : j # k => rows[j] = s.local[j] /\ marks[j] = s.conflicts[j]
        BY <1>5, <1>k, <1>s DEF StoreState
    <1>f. /\ F \in [s.outbox -> Operation]
          /\ row.state = "conflict" /\ row.confirmed = server
          /\ mark.server = server /\ mark.id = op.id
        BY <1>2 DEF row, mark
    <1>. HIDE DEF F, rows, marks
    <1>9. StoresSound(new, n)
        <2>1. ASSUME NEW o \in s.outbox
              PROVE  /\ SameEdit(o, F[o])
                     /\ o.depends # None => /\ F[o].status \in {"queued", "blocked"}
                                            /\ F[o].attempts = 0
                     /\ F[o].status = "blocked" => marks[o.key] # None
                     /\ F[o].status = "failed" =>
                           rows[o.key] # None /\ rows[o.key].state = "failed"
            <3>1. OpSound(o, s, n) /\ o.key \in Keys
                BY <1>s DEF StoresSound, StoreState, Operation
            <3>2. CASE o.key = k
                BY <1>2, <1>5, <1>8, <3>2
            <3>3. CASE o.key # k
                BY <1>2, <1>8, <3>1, <3>3 DEF OpSound
            <3>. QED  BY <3>2, <3>3
        <2>2. ASSUME NEW j \in Keys
              PROVE  /\ Shown(rows[j]) = Shown(s.local[j])
                     /\ marks[j] # None <=> (rows[j] # None /\ rows[j].state = "conflict")
                     /\ marks[j] # None =>
                           /\ marks[j].server = rows[j].confirmed
                           /\ \A o \in OpsOf(j, s.outbox) : F[o].status = "blocked"
                           /\ \E o \in OpsOf(j, s.outbox) : o.id = marks[j].id
            <3>1. CASE j = k
                <4>1. \A o \in OpsOf(j, s.outbox) : F[o].status = "blocked"
                    BY <1>2, <3>1 DEF OpsOf
                <4>2. op \in OpsOf(j, s.outbox)
                    BY <3>1 DEF OpsOf
                <4>. QED  BY <1>5, <1>7, <1>8, <1>f, <3>1, <4>1, <4>2
            <3>2. CASE j # k
                <4>1. RowSound(j, s)
                    BY DEF StoresSound
                <4>2. \A o \in OpsOf(j, s.outbox) : F[o] = o
                    BY <1>2, <3>2 DEF OpsOf
                <4>. QED  BY <1>8, <3>2, <4>1, <4>2 DEF RowSound
            <3>. QED  BY <3>1, <3>2
        <2>3. OpsAgree(s, F, rows, marks)
            BY <1>f, <2>1 DEF OpsAgree
        <2>4. RowsAgree(s, F, rows, marks)
            BY <1>8, <2>2 DEF RowsAgree
        <2>. QED  BY <2>3, <2>4, RelabelKeeps
    <1>10. Steady(op, s, new)
        BY <1>2, <1>s DEF Steady
    <1>. QED  BY <1>1, <1>9, <1>10

\* A failure marks the operation and its record; what waits goes on waiting.
LEMMA FailureKeeps ==
    ASSUME NEW s, NEW n \in Nat, StoresSound(s, n),
           NEW op \in s.outbox, op.status = "inflight"
    PROVE  /\ StoresSound(OnFailure(op, s), n)
           /\ Steady(op, s, OnFailure(op, s))
    <1>. DEFINE k == op.key
                row == [s.local[k] EXCEPT !.state = "failed"]
                rows == [s.local EXCEPT ![k] = row]
                F == [o \in s.outbox |->
                        IF o.id = op.id
                        THEN [o EXCEPT !.status = "failed", !.lease = None]
                        ELSE o]
                new == [outbox |-> {F[o] : o \in s.outbox}, local |-> rows,
                        conflicts |-> s.conflicts, nextId |-> s.nextId]
    <1>s. s \in StoreState /\ s.nextId \in Nat
        BY DEF StoresSound, StoreState
    <1>h. /\ op \in Operation /\ op.key \in Keys
          /\ op.depends = None /\ s.conflicts[k] = None
          /\ s.local[k] # None /\ s.local[k] \in LocalRecord
        BY HeadAlone
    <1>k. k \in Keys
        BY <1>h
    <1>1. OnFailure(op, s) = new
        <2>1. s = [outbox |-> s.outbox, local |-> s.local,
                   conflicts |-> s.conflicts, nextId |-> s.nextId]
            BY <1>s DEF StoreState
        <2>. DEFINE done == {IF o.id = op.id
                             THEN [o EXCEPT !.status = "failed", !.lease = None]
                             ELSE o : o \in s.outbox}
                    one == [s EXCEPT !.outbox = done]
        <2>2. {F[o] : o \in s.outbox} = done
            OBVIOUS
        <2>3. OnFailure(op, s) =
                 [one EXCEPT !.local[op.key] =
                    IF @ = None THEN None ELSE [@ EXCEPT !.state = "failed"]]
            BY DEF OnFailure
        <2>4. one = [outbox |-> {F[o] : o \in s.outbox}, local |-> s.local,
                     conflicts |-> s.conflicts, nextId |-> s.nextId]
            <3>. HIDE DEF done, F
            <3>. QED  BY <2>1, <2>2
        <2>5. one.local[op.key] = s.local[k]
            <3>. HIDE DEF one, F
            <3>. QED  BY <2>4
        <2>6. OnFailure(op, s) = [one EXCEPT !.local[op.key] = row]
            BY <1>h, <2>3, <2>5
        <2>. HIDE DEF one, F, row
        <2>. QED  BY <2>4, <2>6
    <1>2. ASSUME NEW o \in s.outbox
          PROVE  /\ F[o] \in Operation
                 /\ SameEdit(o, F[o])
                 /\ o = op => F[o].status = "failed"
                 /\ o # op => F[o] = o
        <2>1. o \in Operation
            BY <1>s DEF StoreState
        <2>2. o.id = op.id => o = op
            BY DEF StoresSound, Apart
        <2>. QED  BY <2>1, <2>2 DEF SameEdit, Operation
    <1>3. /\ row \in LocalRecord /\ row # None /\ row.state = "failed"
          /\ Shown(row) = Shown(s.local[k])
        <2>1. row \in LocalRecord /\ row.state = "failed"
              /\ row.optimistic = s.local[k].optimistic
            BY <1>h DEF LocalRecord
        <2>. QED  BY <2>1, <1>h, NoRowAssumption DEF Shown
    <1>. HIDE DEF row
    <1>4. /\ rows \in [Keys -> LocalRecord \cup {None}]
          /\ s.conflicts \in [Keys -> Conflict \cup {None}]
          /\ rows[k] = row
          /\ \A j \in Keys : j # k => rows[j] = s.local[j]
        BY <1>3, <1>k, <1>s DEF StoreState
    <1>f. F \in [s.outbox -> Operation]
        BY <1>2
    <1>5. Steady(op, s, new)
        <2>. HIDE DEF F
        <2>1. \A o \in s.outbox : o.key # op.key => o \in {F[p] : p \in s.outbox}
            BY <1>2
        <2>2. \A p \in {F[o] : o \in s.outbox} : \E o \in s.outbox : SameEdit(o, p)
            BY <1>2
        <2>. QED  BY <1>s, <2>1, <2>2 DEF Steady
    <1>. HIDE DEF F, rows
    <1>6. StoresSound(new, n)
        <2>1. ASSUME NEW o \in s.outbox
              PROVE  /\ SameEdit(o, F[o])
                     /\ o.depends # None => /\ F[o].status \in {"queued", "blocked"}
                                            /\ F[o].attempts = 0
                     /\ F[o].status = "blocked" => s.conflicts[o.key] # None
                     /\ F[o].status = "failed" =>
                           rows[o.key] # None /\ rows[o.key].state = "failed"
            <3>1. OpSound(o, s, n) /\ o.key \in Keys
                BY <1>s DEF StoresSound, StoreState, Operation
            <3>2. CASE o = op
                BY <1>2, <1>3, <1>4, <1>h, <3>2
            <3>3. CASE o # op
                <4>1. o.key = k => rows[o.key] # None /\ rows[o.key].state = "failed"
                    BY <1>3, <1>4
                <4>. QED  BY <1>2, <1>4, <3>1, <3>3, <4>1 DEF OpSound, Waits
            <3>. QED  BY <3>2, <3>3
        <2>2. ASSUME NEW j \in Keys
              PROVE  /\ Shown(rows[j]) = Shown(s.local[j])
                     /\ s.conflicts[j] # None
                           <=> (rows[j] # None /\ rows[j].state = "conflict")
                     /\ s.conflicts[j] # None =>
                           /\ s.conflicts[j].server = rows[j].confirmed
                           /\ \A o \in OpsOf(j, s.outbox) : F[o].status = "blocked"
                           /\ \E o \in OpsOf(j, s.outbox) : o.id = s.conflicts[j].id
            <3>1. CASE j = k
                BY <1>3, <1>4, <1>h, <3>1
            <3>2. CASE j # k
                <4>1. RowSound(j, s)
                    BY DEF StoresSound
                <4>2. \A o \in OpsOf(j, s.outbox) : F[o] = o
                    BY <1>2, <3>2 DEF OpsOf
                <4>. QED  BY <1>4, <3>2, <4>1, <4>2 DEF RowSound
            <3>. QED  BY <3>1, <3>2
        <2>3. OpsAgree(s, F, rows, s.conflicts)
            BY <1>f, <2>1 DEF OpsAgree
        <2>4. RowsAgree(s, F, rows, s.conflicts)
            BY <1>4, <2>2 DEF RowsAgree
        <2>. QED  BY <2>3, <2>4, RelabelKeeps
    <1>. QED  BY <1>1, <1>5, <1>6

\* What an applied answer leaves of the stores: the operation goes, and the
\* one that waited for it, if there is one, starts over under a new id.
LEMMA AppliedForm ==
    ASSUME NEW s, NEW n \in Nat, StoresSound(s, n),
           NEW op \in s.outbox, op.status = "inflight",
           NEW record \in Snapshot
    PROVE  LET new == OnApplied(op, record, s)
               row(edit, state) ==
                  [confirmed |-> record, optimistic |-> edit, state |-> state]
           IN  \/ /\ \A o \in s.outbox : o.key = op.key => o = op
                  /\ new = [outbox    |-> s.outbox \ {op},
                            local     |-> [s.local EXCEPT ![op.key] = row(None, "synced")],
                            conflicts |-> [s.conflicts EXCEPT ![op.key] = None],
                            nextId    |-> s.nextId]
               \/ \E q \in s.outbox :
                  /\ q.key = op.key /\ q.depends = op.id /\ op.seq < q.seq
                  /\ \A o \in s.outbox : o.key = op.key => o = op \/ o = q
                  /\ new = [outbox    |-> (s.outbox \ {op, q}) \cup
                                             {Requeued(q, s.nextId, record.version)},
                            local     |-> [s.local EXCEPT ![op.key] =
                                             row(Shown(@), "pending")],
                            conflicts |-> [s.conflicts EXCEPT ![op.key] = None],
                            nextId    |-> s.nextId + 1]
    <1>. DEFINE k == op.key
                successors == {o \in s.outbox : o.key = op.key /\ o.depends = op.id}
                rest == {o \in s.outbox : o.id # op.id} \ successors
                newId(o) == s.nextId + Cardinality({p \in successors : p.seq < o.seq})
                newer == EditedSince(op, s.local[op.key])
    <1>s. s \in StoreState /\ s.nextId \in Nat
        BY DEF StoresSound, StoreState
    <1>h. /\ op \in Operation /\ op.key \in Keys /\ op.id # None
          /\ op.depends = None
          /\ s.local[k] # None /\ s.local[k] \in LocalRecord
          /\ Shown(s.local[k]) # None
          /\ \A o \in s.outbox :
                o.key = op.key => o = op \/ (o.depends = op.id /\ op.seq < o.seq)
          /\ \A o, p \in s.outbox :
                o.depends = op.id /\ p.depends = op.id
                /\ o.key = op.key /\ p.key = op.key => o = p
        BY HeadAlone
    <1>q. \A o \in s.outbox : o.seq \in Nat
        BY DEF StoresSound, OpSound
    <1>i. \A o \in s.outbox : o.id = op.id => o = op
        BY DEF StoresSound, Apart
    <1>r. RowSound(k, s)
        BY <1>h DEF StoresSound
    <1>n. newer <=> Shown(s.local[k]).seq > op.seq
        BY <1>h DEF EditedSince, Shown
    <1>o. s.local[k].optimistic = Shown(s.local[k])
        BY <1>h DEF Shown
    <1>1. CASE successors = {}
        <2>1. \A o \in s.outbox : o.key = op.key => o = op
            BY <1>1, <1>h
        <2>2. Shown(s.local[k]) = As(op)
            BY <1>q, <1>r, <2>1 DEF RowSound, OpsOf
        <2>3. ~newer
            BY <1>n, <1>q, <2>2 DEF As
        <2>4. rest = s.outbox \ {op}
            BY <1>1, <1>i
        <2>5. {Requeued(o, newId(o), record.version) : o \in successors} = {}
            BY <1>1
        <2>6. s.nextId + Cardinality(successors) = s.nextId
            <3>1. Cardinality(successors) = 0
                BY <1>1, FS_EmptySet
            <3>. HIDE DEF successors
            <3>. QED  BY <1>s, <3>1
        <2>. HIDE DEF successors, rest, newer, newId
        <2>7. OnApplied(op, record, s) =
                 [outbox    |-> rest \cup
                                {Requeued(o, newId(o), record.version) : o \in successors},
                  local     |-> [s.local EXCEPT ![op.key] =
                                   [confirmed  |-> record,
                                    optimistic |-> IF newer THEN @.optimistic ELSE None,
                                    state      |-> IF newer THEN "pending" ELSE "synced"]],
                  conflicts |-> [s.conflicts EXCEPT ![op.key] = None],
                  nextId    |-> s.nextId + Cardinality(successors)]
            BY DEF OnApplied, successors, rest, newer, newId
        <2>. QED  BY <2>1, <2>3, <2>4, <2>5, <2>6, <2>7
    <1>2. CASE successors # {}
        <2>1. PICK q \in successors : TRUE
            BY <1>2
        <2>2. successors = {q}
            BY <1>h, <2>1
        <2>3. q \in s.outbox /\ q.key = op.key /\ q.depends = op.id /\ q # op
            BY <1>h, <2>1
        <2>4. op.seq < q.seq
            BY <1>h, <2>3
        <2>5. \A o \in s.outbox : o.key = op.key => o = op \/ o = q
            BY <1>h, <2>3
        <2>6. Shown(s.local[k]) = As(q)
            <3>1. \A o \in OpsOf(k, s.outbox) : o.seq <= q.seq
                BY <1>q, <2>3, <2>4, <2>5 DEF OpsOf
            <3>2. q \in OpsOf(k, s.outbox)
                BY <2>3 DEF OpsOf
            <3>. QED  BY <1>r, <3>1, <3>2 DEF RowSound
        <2>7. newer
            BY <1>n, <2>4, <2>6 DEF As
        <2>8. rest = s.outbox \ {op, q}
            BY <1>i, <2>2, <2>3
        <2>9. newId(q) = s.nextId
            <3>1. {p \in successors : p.seq < q.seq} = {}
                BY <1>q, <2>2, <2>3
            <3>2. newId(q) = s.nextId + 0
                BY <3>1, FS_EmptySet
            <3>. HIDE DEF newId
            <3>. QED  BY <1>s, <3>2
        <2>10. {Requeued(o, newId(o), record.version) : o \in successors}
                  = {Requeued(q, s.nextId, record.version)}
            <3>. HIDE DEF newId, successors
            <3>. QED  BY <2>2, <2>9
        <2>11. s.nextId + Cardinality(successors) = s.nextId + 1
            BY <1>s, <2>2, FS_Singleton
        <2>. HIDE DEF successors, rest, newer, newId
        <2>12. OnApplied(op, record, s) =
                 [outbox    |-> rest \cup
                                {Requeued(o, newId(o), record.version) : o \in successors},
                  local     |-> [s.local EXCEPT ![op.key] =
                                   [confirmed  |-> record,
                                    optimistic |-> IF newer THEN @.optimistic ELSE None,
                                    state      |-> IF newer THEN "pending" ELSE "synced"]],
                  conflicts |-> [s.conflicts EXCEPT ![op.key] = None],
                  nextId    |-> s.nextId + Cardinality(successors)]
            BY DEF OnApplied, successors, rest, newer, newId
        <2>13. [s.local EXCEPT ![op.key] =
                   [confirmed  |-> record,
                    optimistic |-> IF newer THEN @.optimistic ELSE None,
                    state      |-> IF newer THEN "pending" ELSE "synced"]]
               = [s.local EXCEPT ![op.key] =
                   [confirmed |-> record, optimistic |-> Shown(@), state |-> "pending"]]
            BY <1>o, <2>7
        <2>. QED  BY <2>3, <2>4, <2>5, <2>8, <2>10, <2>11, <2>12, <2>13
    <1>. QED  BY <1>1, <1>2

\* An applied answer ends the operation, with or without one that starts over.
LEMMA AppliedKeeps ==
    ASSUME NEW s, NEW n \in 1..(MaxEdits + 1), StoresSound(s, n),
           NEW op \in s.outbox, op.status = "inflight",
           NEW record \in Snapshot
    PROVE  /\ StoresSound(OnApplied(op, record, s), n)
           /\ Steady(op, s, OnApplied(op, record, s))
    <1>. DEFINE k == op.key
                new == OnApplied(op, record, s)
                row(edit, state) ==
                   [confirmed |-> record, optimistic |-> edit, state |-> state]
    <1>n. n \in Nat /\ MaxEdits \in Nat /\ n <= MaxEdits + 1
        BY OfflineAssumption
    <1>s. s \in StoreState /\ s.nextId \in Nat \ {0}
        BY DEF StoresSound, StoreState
    <1>h. /\ op \in Operation /\ op.key \in Keys /\ op.depends = None
          /\ s.local[k] \in LocalRecord /\ s.local[k] # None
          /\ Shown(s.local[k]) # None
        BY <1>n, HeadAlone
    <1>k. k \in Keys
        BY <1>h
    <1>o. \A o \in s.outbox : o \in Operation /\ OpSound(o, s, n)
        BY <1>s DEF StoresSound, StoreState
    <1>m. \A j \in Keys : RowSound(j, s)
        BY DEF StoresSound
    <1>a. Apart(s.outbox)
        BY DEF StoresSound
    <1>1. ASSUME \A o \in s.outbox : o.key = k => o = op,
                 new = [outbox    |-> s.outbox \ {op},
                        local     |-> [s.local EXCEPT ![k] = row(None, "synced")],
                        conflicts |-> [s.conflicts EXCEPT ![k] = None],
                        nextId    |-> s.nextId]
          PROVE  StoresSound(new, n) /\ Steady(op, s, new)
        <2>1. row(None, "synced") \in LocalRecord
            BY DEF LocalRecord
        <2>2. /\ new.outbox = s.outbox \ {op} /\ new.nextId = s.nextId
              /\ new.local[k] = row(None, "synced") /\ new.conflicts[k] = None
              /\ \A j \in Keys : j # k => /\ new.local[j] = s.local[j]
                                          /\ new.conflicts[j] = s.conflicts[j]
            BY <1>1, <1>k, <1>s DEF StoreState
        <2>3. new \in StoreState
            <3>1. /\ s.outbox \ {op} \in SUBSET Operation
                  /\ [s.local EXCEPT ![k] = row(None, "synced")]
                       \in [Keys -> LocalRecord \cup {None}]
                  /\ [s.conflicts EXCEPT ![k] = None] \in [Keys -> Conflict \cup {None}]
                BY <1>s, <2>1 DEF StoreState
            <3>. HIDE DEF new, row
            <3>. QED  BY <1>1, <1>s, <3>1 DEF StoreState
        <2>. HIDE DEF new
        <2>4. ASSUME NEW o \in new.outbox PROVE OpSound(o, new, n)
            <3>1. o \in s.outbox /\ o.key # k /\ o.key \in Keys /\ OpSound(o, s, n)
                BY <1>1, <1>o, <2>2 DEF Operation
            <3>2. Waits(o, s.outbox) => Waits(o, new.outbox)
                BY <2>2, <3>1 DEF Waits
            <3>. QED  BY <2>2, <3>1, <3>2 DEF OpSound
        <2>5. Apart(new.outbox)
            BY <1>a, <2>2 DEF Apart
        <2>6. ASSUME NEW j \in Keys PROVE RowSound(j, new)
            <3>1. CASE j = k
                <4>1. OpsOf(j, new.outbox) = {}
                    BY <1>1, <2>2, <3>1 DEF OpsOf
                <4>2. Shown(new.local[j]) = None
                    BY <2>2, <3>1 DEF Shown
                <4>3. new.conflicts[j] = None /\ new.local[j].state = "synced"
                    BY <2>2, <3>1
                <4>. QED  BY <4>1, <4>2, <4>3 DEF RowSound
            <3>2. CASE j # k
                <4>1. OpsOf(j, new.outbox) = OpsOf(j, s.outbox)
                    BY <2>2, <3>2 DEF OpsOf
                <4>2. new.local[j] = s.local[j] /\ new.conflicts[j] = s.conflicts[j]
                    BY <2>2, <3>2
                <4>. QED  BY <1>m, <4>1, <4>2 DEF RowSound
            <3>. QED  BY <3>1, <3>2
        <2>7. Waiting(new.outbox, n) = Waiting(s.outbox, n)
            BY <1>h, <2>2 DEF Waiting
        <2>8. StoresSound(new, n)
            BY <2>2, <2>3, <2>4, <2>5, <2>6, <2>7 DEF StoresSound
        <2>9. Steady(op, s, new)
            BY <1>s, <2>2 DEF Steady, SameEdit
        <2>. QED  BY <2>8, <2>9
    <1>2. ASSUME NEW q \in s.outbox,
                 q.key = k, q.depends = op.id, op.seq < q.seq,
                 \A o \in s.outbox : o.key = k => o = op \/ o = q,
                 new = [outbox    |-> (s.outbox \ {op, q}) \cup
                                         {Requeued(q, s.nextId, record.version)},
                        local     |-> [s.local EXCEPT ![k] = row(Shown(@), "pending")],
                        conflicts |-> [s.conflicts EXCEPT ![k] = None],
                        nextId    |-> s.nextId + 1]
          PROVE  StoresSound(new, n) /\ Steady(op, s, new)
        <2>. DEFINE again == Requeued(q, s.nextId, record.version)
        <2>q. /\ q \in Operation /\ OpSound(q, s, n) /\ OpSound(op, s, n)
              /\ q.depends # None /\ op.id \in Nat
              /\ q.seq \in 1..(n - 1)
            BY <1>o, <1>2, AbsentAssumption DEF OpSound
        <2>w. /\ Waiting(s.outbox, n) \subseteq 1..(n - 1)
              /\ IsFiniteSet(Waiting(s.outbox, n))
              /\ Cardinality(Waiting(s.outbox, n)) \in Nat
            BY <1>n, WaitingFinite
        <2>c. q.seq \in Waiting(s.outbox, n)
            BY <2>q DEF Waiting
        <2>d. /\ Cardinality(Waiting(s.outbox, n) \ {q.seq})
                    = Cardinality(Waiting(s.outbox, n)) - 1
              /\ Cardinality(Waiting(s.outbox, n) \ {q.seq}) \in Nat
            <3>1. /\ IsFiniteSet(Waiting(s.outbox, n) \ {q.seq})
                  /\ Cardinality(Waiting(s.outbox, n) \ {q.seq})
                       = Cardinality(Waiting(s.outbox, n)) - 1
                BY <2>w, <2>c, FS_RemoveElement
            <3>. QED  BY <3>1, FS_CardinalityType
        <2>e. s.nextId + Cardinality(Waiting(s.outbox, n)) <= 2 * n - 1
            BY DEF StoresSound
        <2>i. s.nextId \in MutationIds /\ s.nextId # None
            <3>1. s.nextId <= 2 * n - 2
                BY <1>n, <1>s, <2>d, <2>e, <2>w
            <3>2. s.nextId \in 1..(2 * MaxEdits)
                BY <1>n, <1>s, <3>1
            <3>. QED  BY <3>2, OfflineAssumption, AbsentAssumption
        <2>v. record.version \in Nat
            BY DEF Snapshot, Version
        <2>a. /\ again \in Operation
              /\ again.id = s.nextId /\ again.key = k /\ again.seq = q.seq
              /\ again.depends = None /\ again.status = "queued"
              /\ As(again) = As(q)
            <3>1. again = [q EXCEPT !.id = s.nextId, !.base = record.version,
                                    !.depends = None, !.status = "queued",
                                    !.attempts = 0, !.lease = None]
                BY DEF Requeued
            <3>. HIDE DEF again
            <3>2. again \in Operation
                <4>1. again = [id |-> s.nextId, key |-> q.key, action |-> q.action,
                               value |-> q.value, base |-> record.version,
                               seq |-> q.seq, status |-> "queued", depends |-> None,
                               attempts |-> 0, lease |-> None]
                    BY <2>q, <3>1 DEF Operation
                <4>2. /\ q.key \in Keys /\ q.action \in {"put", "delete"}
                      /\ q.value \in Notes \cup {None} /\ q.seq \in Nat
                    BY <2>q DEF Operation
                <4>. QED  BY <2>i, <2>v, <4>1, <4>2 DEF Operation
            <3>3. /\ again.id = s.nextId /\ again.key = q.key /\ again.seq = q.seq
                  /\ again.action = q.action /\ again.value = q.value
                  /\ again.depends = None /\ again.status = "queued"
                BY <2>q, <3>1 DEF Operation
            <3>. QED  BY <1>2, <3>2, <3>3 DEF As
        <2>. HIDE DEF again
        <2>x. Shown(s.local[k]) = As(q)
            <3>1. \A o \in s.outbox : o.seq \in Nat
                BY <1>o DEF OpSound
            <3>2. \A o \in OpsOf(k, s.outbox) : o.seq <= q.seq
                BY <1>2, <3>1 DEF OpsOf
            <3>3. q \in OpsOf(k, s.outbox)
                BY <1>2 DEF OpsOf
            <3>. QED  BY <1>k, <1>m, <3>2, <3>3 DEF RowSound
        <2>1. row(Shown(s.local[k]), "pending") \in LocalRecord
            BY <2>q, <2>x DEF LocalRecord, As, Edit, Operation
        <2>2. /\ new.outbox = (s.outbox \ {op, q}) \cup {again}
              /\ new.nextId = s.nextId + 1
              /\ new.local[k] = row(Shown(s.local[k]), "pending")
              /\ new.conflicts[k] = None
              /\ \A j \in Keys : j # k => /\ new.local[j] = s.local[j]
                                          /\ new.conflicts[j] = s.conflicts[j]
            BY <1>2, <1>k, <1>s DEF StoreState, again
        <2>3. new \in StoreState
            <3>1. /\ (s.outbox \ {op, q}) \cup {again} \subseteq Operation
                  /\ [s.local EXCEPT ![k] = row(Shown(@), "pending")]
                       \in [Keys -> LocalRecord \cup {None}]
                  /\ [s.conflicts EXCEPT ![k] = None] \in [Keys -> Conflict \cup {None}]
                  /\ s.nextId + 1 \in Nat \ {0}
                <4>1. (s.outbox \ {op, q}) \cup {again} \subseteq Operation
                    BY <1>o, <2>a
                <4>2. [s.local EXCEPT ![k] = row(Shown(s.local[k]), "pending")]
                         \in [Keys -> LocalRecord \cup {None}]
                    <5>. HIDE DEF row
                    <5>. QED  BY <1>s, <2>1 DEF StoreState
                <4>3. [s.conflicts EXCEPT ![k] = None] \in [Keys -> Conflict \cup {None}]
                    BY <1>s DEF StoreState
                <4>4. s.nextId + 1 \in Nat \ {0}
                    BY <1>s
                <4>. QED  BY <4>1, <4>2, <4>3, <4>4
            <3>2. new = [outbox    |-> (s.outbox \ {op, q}) \cup {again},
                         local     |-> [s.local EXCEPT ![k] = row(Shown(@), "pending")],
                         conflicts |-> [s.conflicts EXCEPT ![k] = None],
                         nextId    |-> s.nextId + 1]
                BY <1>2 DEF again
            <3>. HIDE DEF new, row
            <3>. QED  BY <3>1, <3>2 DEF StoreState
        <2>. HIDE DEF new
        <2>b. \A o \in new.outbox :
                 o = again \/ (/\ o \in s.outbox /\ o.key # k /\ o # op /\ o # q
                               /\ o.key \in Keys /\ OpSound(o, s, n))
            BY <1>2, <1>o, <2>2 DEF Operation
        <2>4. ASSUME NEW o \in new.outbox PROVE OpSound(o, new, n)
            <3>1. CASE o = again
                BY <1>s, <2>2, <2>a, <2>q, <3>1 DEF OpSound
            <3>2. CASE o # again
                <4>1. o \in s.outbox /\ o.key # k /\ o.key \in Keys /\ OpSound(o, s, n)
                    BY <2>b, <3>2
                <4>2. Waits(o, s.outbox) => Waits(o, new.outbox)
                    BY <1>2, <2>2, <4>1 DEF Waits
                <4>. QED  BY <1>s, <2>2, <4>1, <4>2 DEF OpSound
            <3>. QED  BY <3>1, <3>2
        <2>5. Apart(new.outbox)
            <3>1. ASSUME NEW o \in new.outbox, o # again
                  PROVE  o.id # again.id /\ o.seq # again.seq /\ o.key # again.key
                <4>1. o \in s.outbox /\ o.key # k /\ o # q /\ OpSound(o, s, n)
                    BY <2>b, <3>1
                <4>2. o.id # s.nextId
                    BY <1>s, <4>1 DEF OpSound
                <4>3. o.seq # q.seq
                    BY <1>a, <4>1 DEF Apart
                <4>. QED  BY <2>a, <4>1, <4>2, <4>3
            <3>2. \A o \in new.outbox : o # again => o \in s.outbox
                BY <2>b
            <3>. QED  BY <1>a, <3>1, <3>2 DEF Apart
        <2>6. ASSUME NEW j \in Keys PROVE RowSound(j, new)
            <3>1. CASE j = k
                <4>1. OpsOf(j, new.outbox) = {again}
                    BY <2>2, <2>a, <2>b, <3>1 DEF OpsOf
                <4>2. Shown(new.local[j]) = As(again)
                    <5>1. row(Shown(s.local[k]), "pending") # None
                        BY <2>1, NoRowAssumption
                    <5>. QED  BY <2>2, <2>a, <2>x, <3>1, <5>1 DEF Shown
                <4>3. new.conflicts[j] = None /\ new.local[j].state = "pending"
                    BY <2>2, <3>1
                <4>. QED  BY <4>1, <4>2, <4>3 DEF RowSound
            <3>2. CASE j # k
                <4>1. OpsOf(j, new.outbox) = OpsOf(j, s.outbox)
                    BY <1>2, <2>2, <2>a, <3>2 DEF OpsOf
                <4>2. new.local[j] = s.local[j] /\ new.conflicts[j] = s.conflicts[j]
                    BY <2>2, <3>2
                <4>. QED  BY <1>m, <4>1, <4>2 DEF RowSound
            <3>. QED  BY <3>1, <3>2
        <2>7. Waiting(new.outbox, n) = Waiting(s.outbox, n) \ {q.seq}
            <3>1. ASSUME NEW i \in 1..(n - 1)
                  PROVE  (\E o \in new.outbox : o.seq = i /\ o.depends # None)
                         <=> /\ \E o \in s.outbox : o.seq = i /\ o.depends # None
                             /\ i # q.seq
                <4>1. ASSUME NEW o \in new.outbox, o.seq = i, o.depends # None
                      PROVE  o \in s.outbox /\ i # q.seq
                    BY <1>a, <2>a, <2>b, <4>1 DEF Apart
                <4>2. ASSUME NEW o \in s.outbox, o.seq = i, o.depends # None, i # q.seq
                      PROVE  o \in new.outbox
                    BY <1>h, <2>2, <4>2
                <4>. QED  BY <4>1, <4>2
            <3>. QED  BY <3>1 DEF Waiting
        <2>8. new.nextId + Cardinality(Waiting(new.outbox, n)) <= 2 * n - 1
            <3>1. \A a, c, d \in Nat :
                     d = c - 1 /\ a + c <= 2 * n - 1 => (a + 1) + d <= 2 * n - 1
                BY <1>n
            <3>2. /\ Cardinality(Waiting(new.outbox, n)) \in Nat
                  /\ Cardinality(Waiting(s.outbox, n)) \in Nat
                  /\ Cardinality(Waiting(new.outbox, n))
                        = Cardinality(Waiting(s.outbox, n)) - 1
                BY <2>7, <2>d, <2>w
            <3>3. s.nextId \in Nat /\ new.nextId = s.nextId + 1
                BY <1>s, <2>2
            <3>. QED  BY <2>e, <3>1, <3>2, <3>3
        <2>9. StoresSound(new, n)
            BY <2>3, <2>4, <2>5, <2>6, <2>8 DEF StoresSound
        <2>10. Steady(op, s, new)
            <3>1. \A o \in s.outbox : o.key # op.key => o \in new.outbox
                BY <1>2, <2>2
            <3>2. \A p \in new.outbox : p.id >= s.nextId \/ \E o \in s.outbox : SameEdit(o, p)
                BY <1>s, <2>a, <2>b DEF SameEdit
            <3>. QED  BY <1>s, <2>2, <3>1, <3>2 DEF Steady
        <2>. QED  BY <2>9, <2>10
    <1>. HIDE DEF new
    <1>3. \/ /\ \A o \in s.outbox : o.key = k => o = op
             /\ new = [outbox    |-> s.outbox \ {op},
                       local     |-> [s.local EXCEPT ![k] = row(None, "synced")],
                       conflicts |-> [s.conflicts EXCEPT ![k] = None],
                       nextId    |-> s.nextId]
          \/ \E q \in s.outbox :
             /\ q.key = k /\ q.depends = op.id /\ op.seq < q.seq
             /\ \A o \in s.outbox : o.key = k => o = op \/ o = q
             /\ new = [outbox    |-> (s.outbox \ {op, q}) \cup
                                        {Requeued(q, s.nextId, record.version)},
                       local     |-> [s.local EXCEPT ![k] = row(Shown(@), "pending")],
                       conflicts |-> [s.conflicts EXCEPT ![k] = None],
                       nextId    |-> s.nextId + 1]
        BY <1>n, AppliedForm DEF new
    <1>4. StoresSound(new, n) /\ Steady(op, s, new)
        BY <1>1, <1>2, <1>3
    <1>. QED  BY <1>4 DEF new

\* Whatever the result, the stores stay sound.
LEMMA ResultKeeps ==
    ASSUME NEW s, NEW n \in 1..(MaxEdits + 1), StoresSound(s, n),
           NEW op \in s.outbox, op.status = "inflight",
           NEW result \in Result,
           result.status = "applied" => result.record \in Snapshot
    PROVE  /\ StoresSound(OnResult(op, result, s), n)
           /\ Steady(op, s, OnResult(op, result, s))
    <1>n. n \in Nat
        OBVIOUS
    <1>r. result.record \in Snapshot \cup {None}
        BY DEF Result
    <1>1. CASE result.status = "applied"
        BY <1>1, AppliedKeeps DEF OnResult
    <1>2. CASE result.status \in {"conflict", "gone"}
        BY <1>2, <1>n, <1>r, ConflictKeeps DEF OnResult
    <1>3. CASE result.status \notin {"applied", "conflict", "gone"}
        BY <1>3, <1>n, FailureKeeps DEF OnResult
    <1>. QED  BY <1>1, <1>2, <1>3

-----------------------------------------------------------------------------
(* All results of an answer.                                               *)

\* The loop keeps the stores sound, gives a payload to no old id but its own,
\* and takes no id back.
LEMMA HandledKeeps ==
    ASSUME nextSeq \in 1..(MaxEdits + 1), StoresSound(Stores, nextSeq),
           NEW ops \in SUBSET outbox, \A op \in ops : op.status = "inflight",
           NEW results,
           \A op \in ops :
              /\ results[op] \in Result
              /\ results[op].status = "applied" => results[op].record \in Snapshot
    PROVE  LET s == Handled(ops, results)
           IN  /\ StoresSound(s, nextSeq)
               /\ \A p \in s.outbox : p.id >= nextId \/ \E o \in outbox : SameEdit(o, p)
               /\ s.nextId >= nextId
    <1>. DEFINE Good(i, s) ==
            /\ StoresSound(s, nextSeq)
            /\ \A op \in ops : op.seq > i => op \in s.outbox
            /\ \A p \in s.outbox : p.id >= nextId \/ \E o \in outbox : SameEdit(o, p)
            /\ s.nextId >= nextId
    <1>n. nextSeq \in Nat \ {0} /\ MaxEdits \in Nat
        BY OfflineAssumption
    <1>s. /\ Stores.outbox = outbox /\ Stores.nextId = nextId /\ nextId \in Nat
          /\ \A o \in outbox : o.id \in Nat /\ o.seq \in 1..(nextSeq - 1)
                               /\ OpSound(o, Stores, nextSeq)
          /\ Apart(outbox)
        BY DEF Stores, StoresSound, StoreState, OpSound
    <1>1. PICK after :
             /\ after = [i \in 0..(nextSeq - 1) |->
                   IF i = 0 THEN Stores ELSE Turn(i, ops, results, after[i - 1])]
             /\ Handled(ops, results) = after[nextSeq - 1]
        BY <1>n, HandledRuns
    <1>2. after[0] = Stores
        BY <1>1, <1>n
    <1>3. ASSUME NEW i \in 1..(nextSeq - 1)
          PROVE  after[i] = Turn(i, ops, results, after[i - 1])
        BY <1>1, <1>n
    <1>4. Good(0, after[0])
        <2>1. \A op \in ops : op \in Stores.outbox
            BY <1>s
        <2>2. \A p \in Stores.outbox : \E o \in outbox : SameEdit(o, p)
            BY <1>s DEF SameEdit
        <2>. QED  BY <1>2, <1>s, <2>1, <2>2
    <1>5. ASSUME NEW i \in 1..(nextSeq - 1), Good(i - 1, after[i - 1])
          PROVE  Good(i, after[i])
        <2>. DEFINE s == after[i - 1]
                    due == {op \in ops : op.seq = i}
                    op == CHOOSE o \in due : TRUE
        <2>i. i \in Nat
            BY <1>n
        <2>1. CASE due = {}
            <3>1. after[i] = s
                BY <1>3, <2>1 DEF Turn
            <3>2. \A o \in ops : o.seq > i => o.seq > i - 1
                BY <1>s, <2>i
            <3>. QED  BY <1>5, <3>1, <3>2
        <2>2. CASE due # {}
            <3>1. op \in ops /\ op.seq = i
                BY <2>2
            <3>2. after[i] = OnResult(op, results[op], s)
                BY <1>3, <2>2 DEF Turn
            <3>. HIDE DEF op, due, s
            <3>g. Good(i - 1, s)
                BY <1>5 DEF s
            <3>3. op \in s.outbox /\ op.status = "inflight"
                BY <2>i, <3>1, <3>g
            <3>4. /\ results[op] \in Result
                  /\ results[op].status = "applied" => results[op].record \in Snapshot
                BY <3>1
            <3>5. StoresSound(s, nextSeq)
                BY <3>g
            <3>. DEFINE new == OnResult(op, results[op], s)
            <3>6. StoresSound(new, nextSeq) /\ Steady(op, s, new)
                BY <3>3, <3>4, <3>5, ResultKeeps
            <3>. HIDE DEF new
            <3>7. s.nextId \in Nat /\ new.nextId \in Nat
                  /\ \A p \in new.outbox : p.id \in Nat
                BY <3>5, <3>6 DEF StoresSound, StoreState, OpSound
            <3>8. ASSUME NEW o \in ops, o.seq > i PROVE o \in new.outbox
                <4>1. o \in s.outbox
                    BY <1>s, <2>i, <3>8, <3>g
                <4>2. o.depends = None /\ op.depends = None
                    BY <1>s, <3>1 DEF OpSound, Waits
                <4>3. o # op
                    BY <1>s, <2>i, <3>1, <3>8
                <4>4. o.key # op.key
                    BY <1>s, <3>1, <4>2, <4>3 DEF Apart
                <4>. QED  BY <3>6, <4>1, <4>4 DEF Steady
            <3>9. ASSUME NEW p \in new.outbox
                  PROVE  p.id >= nextId \/ \E o \in outbox : SameEdit(o, p)
                <4>1. CASE p.id >= s.nextId
                    BY <1>s, <3>7, <3>g, <4>1
                <4>2. CASE \E q \in s.outbox : SameEdit(q, p)
                    <5>1. PICK q \in s.outbox : SameEdit(q, p)
                        BY <4>2
                    <5>2. q.id >= nextId \/ \E o \in outbox : SameEdit(o, q)
                        BY <3>g
                    <5>. QED  BY <5>1, <5>2 DEF SameEdit
                <4>. QED  BY <3>6, <4>1, <4>2 DEF Steady
            <3>10. new.nextId >= nextId
                BY <1>s, <3>6, <3>7, <3>g DEF Steady
            <3>. QED  BY <3>2, <3>6, <3>8, <3>9, <3>10 DEF new
        <2>. QED  BY <2>1, <2>2
    <1>. HIDE DEF Good
    <1>6. \A i \in 0..(nextSeq - 1) : Good(i, after[i])
        <2>. DEFINE Bad == {i \in 0..(nextSeq - 1) : ~Good(i, after[i])}
        <2>. SUFFICES ASSUME Bad # {} PROVE FALSE
            OBVIOUS
        <2>1. PICK i \in Bad : \A j \in Bad : i <= j
            <3>1. Bad \subseteq Nat
                BY <1>n
            <3>. HIDE DEF Bad
            <3>. QED  BY <3>1, LeastOf
        <2>2. i \in 0..(nextSeq - 1) /\ ~Good(i, after[i])
            OBVIOUS
        <2>3. i \in 1..(nextSeq - 1) /\ i - 1 \in 0..(nextSeq - 1) /\ ~(i <= i - 1)
            BY <1>4, <1>n, <2>2
        <2>4. i - 1 \notin Bad
            <3>. HIDE DEF Bad
            <3>. QED  BY <2>1, <2>3
        <2>5. Good(i - 1, after[i - 1])
            BY <2>3, <2>4
        <2>. QED  BY <1>5, <2>2, <2>3, <2>5
    <1>7. Good(nextSeq - 1, Handled(ops, results))
        BY <1>1, <1>6, <1>n
    <1>. QED  BY <1>7 DEF Good

-----------------------------------------------------------------------------
(* The service answers.                                                    *)

\* A request gets one more answer. It is the refusal of a reused id only if
\* the receipt of that id holds another request, or such a refusal.
LEMMA PushAnswers ==
    ASSUME TypeOK, NEW m \in Mutation, Push(m)
    PROVE  \E result \in Result :
              /\ outcomes' = outcomes \cup {Entry(m, result)}
              /\ result = Reused =>
                    /\ ReceiptFor(m) # None
                    /\ \/ ReceiptFor(m).request # m
                       \/ ReceiptFor(m).result = Reused
    <1>m. /\ m \in Mutation /\ records[m.key] \in Record \cup {None}
          /\ <<m.client, m.id>> \in Clients \X MutationIds
        BY DEF Mutation, TypeOK
    <1>1. CASE Replay(m)
        <2>1. ReceiptFor(m).result \in Result
            BY <1>1, <1>m DEF Replay, Fresh, ReceiptFor, TypeOK, Receipt
        <2>. QED  BY <1>1, <2>1 DEF Replay, Fresh
    <1>2. CASE RefuseReuse(m)
        <2>1. Reused \in Result
            BY DEF Reused, Result, Status
        <2>. QED  BY <1>2, <2>1 DEF RefuseReuse, Fresh
    <1>3. CASE RefuseInvalid(m)
        <2>1. Invalid \in Result /\ Invalid # Reused
            BY DEF Invalid, Reused, Result, Status
        <2>. QED  BY <1>3, <2>1 DEF RefuseInvalid, Settle
    <1>4. CASE Refuse(m) \/ Apply(m)
        <2>1. /\ Answer(m, records[m.key]) \in Result
              /\ outcomes' = outcomes \cup {Entry(m, Answer(m, records[m.key]))}
            BY <1>4, <1>m, AnswerType DEF Refuse, Apply, Settle
        <2>2. Answer(m, records[m.key]) # Reused
            BY DEF Answer, Reused
        <2>. QED  BY <2>1, <2>2
    <1>. QED  BY <1>1, <1>2, <1>3, <1>4 DEF Push

\* Receipts stay among the answers, and applied answers name their record.
LEMMA AnswersStep ==
    ASSUME TypeOK, AnswersSound, NEW m \in Mutation, Push(m)
    PROVE  AnswersSound'
    <1>m. /\ m.key \in Keys /\ records[m.key] \in Record \cup {None}
          /\ <<m.client, m.id>> \in Clients \X MutationIds
        BY DEF Mutation, TypeOK
    <1>1. ASSUME UNCHANGED tables, ~Fresh(m), ReceiptFor(m).request = m,
                 outcomes' = outcomes \cup {Entry(m, ReceiptFor(m).result)}
          PROVE  AnswersSound'
        <2>1. ReceiptFor(m) \in outcomes
            BY <1>1, <1>m DEF AnswersSound, Fresh, ReceiptFor
        <2>2. ReceiptFor(m).result.status = "applied" =>
                 /\ ReceiptFor(m).result.record \in Snapshot
                 /\ ReceiptFor(m).result.record.key = m.key
            BY <1>1, <2>1 DEF AnswersSound
        <2>3. receipts' = receipts
            BY <1>1 DEF tables
        <2>4. ASSUME NEW o \in outcomes', o.result.status = "applied"
              PROVE  o.result.record \in Snapshot /\ o.result.record.key = o.request.key
            BY <1>1, <2>2, <2>4 DEF AnswersSound, Entry
        <2>5. \A p \in Clients \X MutationIds :
                 receipts[p] # None =>
                    /\ receipts[p] \in outcomes'
                    /\ receipts[p].request.client = p[1]
                    /\ receipts[p].request.id = p[2]
            BY <1>1 DEF AnswersSound
        <2>. QED  BY <2>3, <2>4, <2>5 DEF AnswersSound
    <1>2. ASSUME UNCHANGED tables, outcomes' = outcomes \cup {Entry(m, Reused)}
          PROVE  AnswersSound'
        <2>1. receipts' = receipts
            BY <1>2 DEF tables
        <2>2. Entry(m, Reused).result.status # "applied"
            BY DEF Entry, Reused
        <2>3. ASSUME NEW o \in outcomes', o.result.status = "applied"
              PROVE  o.result.record \in Snapshot /\ o.result.record.key = o.request.key
            BY <1>2, <2>2, <2>3 DEF AnswersSound
        <2>4. \A p \in Clients \X MutationIds :
                 receipts[p] # None =>
                    /\ receipts[p] \in outcomes'
                    /\ receipts[p].request.client = p[1]
                    /\ receipts[p].request.id = p[2]
            BY <1>2 DEF AnswersSound
        <2>. QED  BY <2>1, <2>3, <2>4 DEF AnswersSound
    <1>3. ASSUME NEW result \in Result, Settle(m, result),
                 result.status = "applied" =>
                    result.record \in Snapshot /\ result.record.key = m.key
          PROVE  AnswersSound'
        <2>1. /\ receipts'[<<m.client, m.id>>] = Entry(m, result)
              /\ \A p \in Clients \X MutationIds :
                    p # <<m.client, m.id>> => receipts'[p] = receipts[p]
            BY <1>3, SettledReceipt
        <2>2. outcomes' = outcomes \cup {Entry(m, result)}
            BY <1>3 DEF Settle
        <2>3. ASSUME NEW o \in outcomes', o.result.status = "applied"
              PROVE  o.result.record \in Snapshot /\ o.result.record.key = o.request.key
            BY <1>3, <2>2, <2>3 DEF AnswersSound, Entry
        <2>4. ASSUME NEW p \in Clients \X MutationIds, receipts'[p] # None
              PROVE  /\ receipts'[p] \in outcomes'
                     /\ receipts'[p].request.client = p[1]
                     /\ receipts'[p].request.id = p[2]
            <3>1. CASE p = <<m.client, m.id>>
                BY <2>1, <2>2, <3>1 DEF Entry
            <3>2. CASE p # <<m.client, m.id>>
                BY <2>1, <2>2, <2>4, <3>2 DEF AnswersSound
            <3>. QED  BY <3>1, <3>2
        <2>. QED  BY <2>3, <2>4 DEF AnswersSound
    <1>4. ASSUME Apply(m)
          PROVE  LogRow(m).snapshot \in Snapshot /\ LogRow(m).snapshot.key = m.key
        <2>1. /\ After(m, records[m.key]) \in Record
              /\ After(m, records[m.key]) # None
            BY <1>4, <1>m, AfterType DEF Apply
        <2>2. /\ Snap(m.key, After(m, records[m.key])) \in Snapshot
              /\ Snap(m.key, After(m, records[m.key])).key = m.key
            BY <1>m, <2>1, SnapType
        <2>. QED  BY <2>2 DEF LogRow
    <1>. QED  BY <1>1, <1>2, <1>3, <1>4, ReceiptStep

\* A request that is answered: one that this profile has sent, or that of
\* another device. It has been answered from then on.
LEMMA ServiceStep ==
    ASSUME OfflineInv, NEW m \in Mutation, Push(m),
           m \in Said(wire, outcomes) \/ m.client # Me,
           UNCHANGED <<storeVars, tab>>,
           wire' \subseteq wire, \A r \in wire : r \in wire' \/ r.request = m
    PROVE  OfflineInv'
    <1>u. /\ outbox' = outbox /\ local' = local /\ conflicts' = conflicts
          /\ pullCursor' = pullCursor /\ nextSeq' = nextSeq /\ nextId' = nextId
          /\ tab' = tab
        BY DEF storeVars
    <1>i. /\ TypeOK /\ AnswersSound
          /\ PayloadsSound(Said(wire, outcomes), outbox, nextId)
          /\ SentPayloadsAreFixed
        BY DEF OfflineInv
    <1>1. TypeOK'
        BY <1>i, NextType DEF AnyPush
    <1>2. AnswersSound'
        BY <1>i, AnswersStep
    <1>3. StoresSound(Stores, nextSeq)'
        BY <1>u DEF OfflineInv, Stores
    <1>4. PICK result \in Result :
             /\ outcomes' = outcomes \cup {Entry(m, result)}
             /\ result = Reused =>
                   /\ ReceiptFor(m) # None
                   /\ \/ ReceiptFor(m).request # m
                      \/ ReceiptFor(m).result = Reused
        BY <1>i, PushAnswers
    <1>e. Entry(m, result).request = m /\ Entry(m, result).result = result
        BY DEF Entry
    <1>5. Said(wire', outcomes') \subseteq Said(wire, outcomes)
        BY <1>4, <1>e DEF Said
    <1>6. PayloadsSound(Said(wire, outcomes), outbox, nextId)'
        BY <1>i, <1>u, <1>5 DEF PayloadsSound
    <1>7. SentPayloadsAreFixed'
        <2>1. ASSUME m.client = Me, result = Reused PROVE FALSE
            <3>1. <<m.client, m.id>> \in Clients \X MutationIds
                BY DEF Mutation
            <3>2. /\ ReceiptFor(m) \in outcomes
                  /\ ReceiptFor(m).request.client = Me
                  /\ ReceiptFor(m).request.id = m.id
                BY <1>4, <1>i, <2>1, <3>1 DEF AnswersSound, ReceiptFor
            <3>3. ReceiptFor(m).request \in Said(wire, outcomes)
                BY <3>2 DEF Said
            <3>4. ReceiptFor(m).request = m
                BY <1>i, <2>1, <3>2, <3>3 DEF PayloadsSound
            <3>5. ReceiptFor(m).result # Reused
                BY <1>i, <3>2 DEF SentPayloadsAreFixed
            <3>. QED  BY <1>4, <2>1, <3>4, <3>5
        <2>. QED  BY <1>4, <1>e, <1>i, <2>1 DEF SentPayloadsAreFixed
    <1>8. ASSUME NEW t \in Tabs PROVE TabSound(t)'
        <2>1. TabSound(t)
            BY DEF OfflineInv
        <2>2. ASSUME tab[t].pc = "pushing", NEW op \in tab[t].ops
              PROVE  \/ [to |-> t, request |-> Request(op)] \in wire'
                     \/ \E o \in outcomes' : o.request = Request(op)
            <3>1. CASE [to |-> t, request |-> Request(op)] \in wire
                <4>1. CASE Request(op) = m
                    BY <1>4, <1>e, <4>1
                <4>2. CASE Request(op) # m
                    BY <3>1, <4>2
                <4>. QED  BY <4>1, <4>2
            <3>2. CASE \E o \in outcomes : o.request = Request(op)
                BY <1>4, <3>2
            <3>. QED  BY <2>1, <2>2, <3>1, <3>2 DEF TabSound
        <2>. QED  BY <1>u, <2>1, <2>2 DEF TabSound
    <1>9. /\ nextSeq' \in 1..(MaxEdits + 1)
          /\ pullCursor' \in Cursor \cup {None}
          /\ tab' = [t \in Tabs |-> tab'[t]]
        BY <1>u DEF OfflineInv
    <1>. QED  BY <1>1, <1>2, <1>3, <1>6, <1>7, <1>8, <1>9 DEF OfflineInv

-----------------------------------------------------------------------------
(* The steps of the client.                                                *)

\* What a step must keep, of what the client alone changes: the stores, the
\* payload of every id that has been used, and what the tabs wait for.
LEMMA ClientStep ==
    ASSUME OfflineInv, UNCHANGED serviceVars,
           StoresSound(Stores, nextSeq)',
           nextSeq' \in 1..(MaxEdits + 1),
           pullCursor' \in Cursor \cup {None},
           \A p \in outbox' : p.id >= nextId \/ \E o \in outbox : SameEdit(o, p),
           nextId' >= nextId,
           \A r \in wire' : \/ \E q \in wire : r.request = q.request
                            \/ \E o \in outbox : r.request = Request(o),
           tab' = [t \in Tabs |-> tab'[t]],
           \A t \in Tabs : TabSound(t)'
    PROVE  OfflineInv'
    <1>u. /\ clock' = clock /\ records' = records /\ changes' = changes
          /\ receipts' = receipts /\ outcomes' = outcomes
        BY DEF serviceVars
    <1>i. /\ TypeOK /\ AnswersSound /\ SentPayloadsAreFixed
          /\ PayloadsSound(Said(wire, outcomes), outbox, nextId)
          /\ StoresSound(Stores, nextSeq)
        BY DEF OfflineInv
    <1>1. TypeOK' /\ AnswersSound' /\ SentPayloadsAreFixed'
        BY <1>i, <1>u DEF TypeOK, AnswersSound, SentPayloadsAreFixed
    <1>2. /\ \A o \in outbox : o \in Operation /\ o.id \in Nat /\ o.id < nextId
          /\ Apart(outbox)
          /\ nextId \in Nat
        BY <1>i DEF StoresSound, StoreState, OpSound, Stores
    <1>3. nextId' \in Nat /\ \A p \in outbox' : p.id \in Nat
        <2>1. (nextId \in Nat /\ \A p \in outbox : p.id \in Nat)'
            BY DEF StoresSound, StoreState, OpSound, Stores
        <2>. QED  BY <2>1
    <1>. DEFINE said == Said(wire, outcomes)
    <1>4. ASSUME NEW a \in Said(wire', outcomes')
          PROVE  a \in said \/ \E o \in outbox : a = Request(o)
        <2>1. CASE \E r \in wire' : a = r.request
            BY <2>1 DEF Said
        <2>2. CASE \E o \in outcomes' : o.request.client = Me /\ a = o.request
            BY <1>u, <2>2 DEF Said
        <2>. QED  BY <2>1, <2>2 DEF Said
    <1>5. ASSUME NEW o \in outbox
          PROVE  /\ Request(o) \in Mutation /\ Request(o).client = Me
                 /\ Request(o).id = o.id
        BY <1>2, OfflineAssumption DEF Request, Mutation, Operation
    <1>p. /\ \A a \in said : /\ a \in Mutation
                             /\ a.client = Me
                             /\ a.id \in Nat
                             /\ a.id < nextId
          /\ \A a, b \in said : a.id = b.id => a = b
          /\ \A op \in outbox, a \in said : op.id = a.id => a = Request(op)
        BY <1>i DEF PayloadsSound
    <1>. HIDE DEF said
    <1>6. ASSUME NEW a \in Said(wire', outcomes')
          PROVE  /\ a \in Mutation /\ a.client = Me
                 /\ a.id \in Nat /\ a.id < nextId
        BY <1>2, <1>4, <1>5, <1>p
    <1>7. ASSUME NEW a \in Said(wire', outcomes'), NEW b \in Said(wire', outcomes'),
                 a.id = b.id
          PROVE  a = b
        <2>1. CASE a \in said /\ b \in said
            BY <1>7, <1>p, <2>1
        <2>2. ASSUME NEW o \in outbox, a = Request(o) PROVE a = b
            <3>1. CASE b \in said
                BY <1>5, <1>7, <1>p, <2>2, <3>1
            <3>2. ASSUME NEW q \in outbox, b = Request(q) PROVE a = b
                BY <1>2, <1>5, <1>7, <2>2, <3>2 DEF Apart
            <3>. QED  BY <1>4, <3>1, <3>2
        <2>3. ASSUME NEW o \in outbox, b = Request(o), a \in said PROVE a = b
            BY <1>5, <1>7, <1>p, <2>3
        <2>. QED  BY <1>4, <2>1, <2>2, <2>3
    <1>8. ASSUME NEW p \in outbox', NEW a \in Said(wire', outcomes'), p.id = a.id
          PROVE  a = Request(p)
        <2>1. ~(p.id >= nextId)
            BY <1>2, <1>3, <1>6, <1>8
        <2>2. PICK o \in outbox : SameEdit(o, p)
            BY <2>1
        <2>3. Request(p) = Request(o) /\ p.id = o.id
            BY <2>2 DEF SameEdit, Request
        <2>4. CASE a \in said
            BY <1>8, <1>p, <2>3, <2>4
        <2>5. ASSUME NEW q \in outbox, a = Request(q) PROVE a = Request(p)
            <3>1. q.id = o.id
                BY <1>5, <1>8, <2>3, <2>5
            <3>2. q = o
                BY <1>2, <3>1 DEF Apart
            <3>. QED  BY <2>3, <2>5, <3>2
        <2>. QED  BY <1>4, <2>4, <2>5
    <1>9. PayloadsSound(Said(wire', outcomes'), outbox', nextId')
        <2>1. \A a \in Said(wire', outcomes') : a.id < nextId'
            BY <1>2, <1>3, <1>6
        <2>. QED  BY <1>6, <1>7, <1>8, <2>1 DEF PayloadsSound
    <1>. QED  BY <1>1, <1>9 DEF OfflineInv

\* A tab that starts or stops waiting leaves the others to their requests.
LEMMA TabStep ==
    ASSUME OfflineInv, UNCHANGED outcomes, NEW t \in Tabs, NEW state,
           tab' = [tab EXCEPT ![t] = state],
           \A r \in wire : r.to # t => r \in wire',
           state.pc = "pushing" =>
              \A op \in state.ops : [to |-> t, request |-> Request(op)] \in wire',
           state.pc = "pulling" =>
              state.page.next \in Cursor /\ state.page.rows \subseteq Change
    PROVE  /\ tab' = [u \in Tabs |-> tab'[u]]
           /\ \A u \in Tabs : TabSound(u)'
    <1>1. tab = [u \in Tabs |-> tab[u]]
        BY DEF OfflineInv
    <1>2. /\ tab' = [u \in Tabs |-> tab'[u]]
          /\ tab'[t] = state
          /\ \A u \in Tabs : u # t => tab'[u] = tab[u]
        BY <1>1
    <1>3. ASSUME NEW u \in Tabs, u # t PROVE TabSound(u)'
        <2>1. TabSound(u)
            BY DEF OfflineInv
        <2>2. ASSUME tab[u].pc = "pushing", NEW op \in tab[u].ops
              PROVE  \/ [to |-> u, request |-> Request(op)] \in wire'
                     \/ \E o \in outcomes' : o.request = Request(op)
            <3>1. CASE [to |-> u, request |-> Request(op)] \in wire
                <4>1. [to |-> u, request |-> Request(op)].to # t
                    BY <1>3
                <4>. QED  BY <3>1, <4>1
            <3>. QED  BY <2>1, <2>2, <3>1 DEF TabSound
        <2>. QED  BY <1>2, <1>3, <2>1, <2>2 DEF TabSound
    <1>4. TabSound(t)'
        BY <1>2 DEF TabSound
    <1>. QED  BY <1>2, <1>3, <1>4

\* Leases, attempts and statuses of what may still be sent change freely.
LEMMA LeaseKeeps ==
    ASSUME NEW s, NEW n \in Nat, StoresSound(s, n),
           NEW F \in [s.outbox -> Operation],
           \A o \in s.outbox :
              /\ SameEdit(o, F[o])
              /\ \/ F[o].status = o.status /\ F[o].attempts = o.attempts
                 \/ /\ o.depends = None
                    /\ o.status \in {"queued", "inflight"}
                    /\ F[o].status \in {"queued", "inflight"}
    PROVE  StoresSound([outbox |-> {F[o] : o \in s.outbox}, local |-> s.local,
                        conflicts |-> s.conflicts, nextId |-> s.nextId], n)
    <1>s. /\ s.local \in [Keys -> LocalRecord \cup {None}]
          /\ s.conflicts \in [Keys -> Conflict \cup {None}]
        BY DEF StoresSound, StoreState
    <1>1. ASSUME NEW o \in s.outbox
          PROVE  /\ SameEdit(o, F[o])
                 /\ o.depends # None => /\ F[o].status \in {"queued", "blocked"}
                                        /\ F[o].attempts = 0
                 /\ F[o].status = "blocked" => s.conflicts[o.key] # None
                 /\ F[o].status = "failed" =>
                       s.local[o.key] # None /\ s.local[o.key].state = "failed"
        <2>1. OpSound(o, s, n)
            BY DEF StoresSound
        <2>2. CASE F[o].status = o.status /\ F[o].attempts = o.attempts
            BY <2>1, <2>2 DEF OpSound, Waits
        <2>3. CASE o.depends = None /\ F[o].status \in {"queued", "inflight"}
            BY <2>3
        <2>. QED  BY <2>2, <2>3
    <1>2. ASSUME NEW k \in Keys
          PROVE  /\ s.conflicts[k] # None
                       <=> (s.local[k] # None /\ s.local[k].state = "conflict")
                 /\ s.conflicts[k] # None =>
                       /\ s.conflicts[k].server = s.local[k].confirmed
                       /\ \A o \in OpsOf(k, s.outbox) : F[o].status = "blocked"
                       /\ \E o \in OpsOf(k, s.outbox) : o.id = s.conflicts[k].id
        <2>1. RowSound(k, s)
            BY DEF StoresSound
        <2>2. ASSUME NEW o \in OpsOf(k, s.outbox), o.status = "blocked"
              PROVE  F[o].status = "blocked"
            BY <2>2 DEF OpsOf
        <2>. QED  BY <2>1, <2>2 DEF RowSound
    <1>3. OpsAgree(s, F, s.local, s.conflicts)
        BY <1>1 DEF OpsAgree
    <1>4. RowsAgree(s, F, s.local, s.conflicts)
        BY <1>s, <1>2 DEF RowsAgree
    <1>. QED  BY <1>3, <1>4, RelabelKeeps

\* Operations held of the stores s get a new status, lease and count of
\* attempts: any if they are heads.
Relabels(s, held, new) ==
    /\ held \subseteq s.outbox
    /\ \A o \in held :
          /\ new[o] \in Operation
          /\ SameEdit(o, new[o])
          /\ \/ new[o].status = o.status /\ new[o].attempts = o.attempts
             \/ /\ o.depends = None
                /\ o.status \in {"queued", "inflight"}
                /\ new[o].status \in {"queued", "inflight"}

Relabelled(s, held, new) ==
    [outbox    |-> (s.outbox \ held) \cup {new[o] : o \in held},
     local     |-> s.local,
     conflicts |-> s.conflicts,
     nextId    |-> s.nextId]


\* So they may for some operations while the others stay as they are.
LEMMA ReplaceKeeps ==
    ASSUME NEW s, NEW n \in Nat, StoresSound(s, n),
           NEW held, NEW new, Relabels(s, held, new)
    PROVE  /\ StoresSound(Relabelled(s, held, new), n)
           /\ \A p \in Relabelled(s, held, new).outbox :
                 \E o \in s.outbox : SameEdit(o, p)
    <1>r. /\ held \subseteq s.outbox
          /\ \A o \in held :
                /\ new[o] \in Operation
                /\ SameEdit(o, new[o])
                /\ \/ new[o].status = o.status /\ new[o].attempts = o.attempts
                   \/ /\ o.depends = None
                      /\ o.status \in {"queued", "inflight"}
                      /\ new[o].status \in {"queued", "inflight"}
        BY DEF Relabels
    <1>. DEFINE F == [o \in s.outbox |-> IF o \in held THEN new[o] ELSE o]
    <1>1. ASSUME NEW o \in s.outbox
          PROVE  /\ F[o] \in Operation
                 /\ SameEdit(o, F[o])
                 /\ \/ F[o].status = o.status /\ F[o].attempts = o.attempts
                    \/ /\ o.depends = None
                       /\ o.status \in {"queued", "inflight"}
                       /\ F[o].status \in {"queued", "inflight"}
        <2>1. o \in Operation
            BY DEF StoresSound, StoreState
        <2>2. CASE o \in held
            BY <1>r, <2>2
        <2>3. CASE o \notin held
            BY <2>1, <2>3 DEF SameEdit
        <2>. QED  BY <2>2, <2>3
    <1>2. (s.outbox \ held) \cup {new[o] : o \in held} = {F[o] : o \in s.outbox}
        <2>1. /\ \A o \in held : o \in s.outbox /\ F[o] = new[o]
              /\ \A o \in s.outbox \ held : F[o] = o
            BY <1>r
        <2>. HIDE DEF F
        <2>. QED  BY <2>1
    <1>3. F \in [s.outbox -> Operation]
        BY <1>1
    <1>. HIDE DEF F
    <1>4. StoresSound([outbox |-> {F[o] : o \in s.outbox}, local |-> s.local,
                       conflicts |-> s.conflicts, nextId |-> s.nextId], n)
        BY <1>1, <1>3, LeaseKeeps
    <1>5. Relabelled(s, held, new) =
             [outbox |-> {F[o] : o \in s.outbox}, local |-> s.local,
              conflicts |-> s.conflicts, nextId |-> s.nextId]
        BY <1>2 DEF Relabelled
    <1>. QED  BY <1>1, <1>4, <1>5

\* The operations a tab leases are heads.
LEMMA LeasedHeads ==
    ASSUME OfflineInv, NEW t \in Tabs
    PROVE  /\ Leased(t) \subseteq outbox
           /\ \A op \in Leased(t) :
                 op \in Operation /\ op.status = "inflight" /\ op.depends = None
    <1>1. \A op \in outbox : op \in Operation /\ OpSound(op, Stores, nextSeq)
        BY DEF OfflineInv, StoresSound, StoreState, Stores
    <1>. QED  BY <1>1 DEF Leased, OpSound, Waits

\* A step that replaces leased operations and ends the waiting of a tab keeps
\* the invariant.
LEMMA LeaseStep ==
    ASSUME OfflineInv, NEW t \in Tabs, NEW held, NEW new,
           Relabels(Stores, held, new), outbox' = Replace(held, new),
           Finish(t), wire' = Unawaited(t),
           UNCHANGED <<serviceVars, local, conflicts, pullCursor, nextSeq, nextId>>
    PROVE  OfflineInv'
    <1>i. /\ StoresSound(Stores, nextSeq) /\ nextSeq \in Nat
          /\ Stores.outbox = outbox /\ Stores.local = local
          /\ Stores.conflicts = conflicts /\ Stores.nextId = nextId
          /\ nextId \in Nat
        BY OfflineAssumption DEF OfflineInv, Stores, StoresSound, StoreState
    <1>1. /\ StoresSound([outbox |-> Replace(held, new), local |-> Stores.local,
                          conflicts |-> Stores.conflicts, nextId |-> Stores.nextId],
                         nextSeq)
          /\ \A p \in Replace(held, new) : \E o \in Stores.outbox : SameEdit(o, p)
        <2>2. /\ StoresSound(Relabelled(Stores, held, new), nextSeq)
              /\ \A p \in Relabelled(Stores, held, new).outbox :
                    \E o \in Stores.outbox : SameEdit(o, p)
            BY <1>i, ReplaceKeeps
        <2>3. Relabelled(Stores, held, new) =
                 [outbox |-> Replace(held, new), local |-> Stores.local,
                  conflicts |-> Stores.conflicts, nextId |-> Stores.nextId]
            BY <1>i DEF Relabelled, Replace
        <2>. QED  BY <2>2, <2>3
    <1>2. Stores' = [outbox |-> Replace(held, new), local |-> Stores.local,
                     conflicts |-> Stores.conflicts, nextId |-> Stores.nextId]
        BY <1>i DEF Stores
    <1>3. StoresSound(Stores, nextSeq)'
        BY <1>1, <1>2
    <1>4. \A p \in outbox' : p.id >= nextId \/ \E o \in outbox : SameEdit(o, p)
        BY <1>1, <1>i
    <1>5. \A r \in wire' : \E q \in wire : r.request = q.request
        <2>1. \A r \in wire : [r EXCEPT !.to = Nobody].request = r.request
            BY DEF OfflineInv
        <2>. QED  BY <2>1 DEF Unawaited
    <1>6. \A r \in wire : r.to # t => r \in wire'
        BY DEF Unawaited
    <1>7. /\ tab' = [u \in Tabs |-> tab'[u]]
          /\ \A u \in Tabs : TabSound(u)'
        BY <1>6, TabStep DEF Finish, Wait, serviceVars
    <1>8. nextSeq' \in 1..(MaxEdits + 1) /\ pullCursor' \in Cursor \cup {None}
        BY DEF OfflineInv
    <1>. QED  BY <1>3, <1>4, <1>5, <1>7, <1>8, <1>i, ClientStep

\* The answer does not come, or not usably.
LEMMA RetryStep == ASSUME OfflineInv, NEW t \in Tabs, HandleRetry(t) PROVE OfflineInv'
    <1>. DEFINE new == [op \in Leased(t) |-> [op EXCEPT !.status = "queued", !.lease = None]]
    <1>1. ASSUME NEW o \in Leased(t)
          PROVE  /\ new[o] \in Operation
                 /\ SameEdit(o, new[o])
                 /\ o.depends = None
                 /\ o.status \in {"queued", "inflight"}
                 /\ new[o].status \in {"queued", "inflight"}
        <2>1. o \in Operation /\ o.status = "inflight" /\ o.depends = None
            BY LeasedHeads
        <2>2. new[o] = [o EXCEPT !.status = "queued", !.lease = None]
            OBVIOUS
        <2>. HIDE DEF new
        <2>3. new[o] \in Operation
            BY <2>1, <2>2 DEF Operation
        <2>. QED  BY <2>1, <2>2, <2>3 DEF SameEdit, Operation
    <1>. HIDE DEF new
    <1>2. Leased(t) \in SUBSET outbox
        BY LeasedHeads
    <1>3. outbox' = Replace(Leased(t), new)
        BY DEF HandleRetry, new
    <1>4. Relabels(Stores, Leased(t), new)
        BY <1>1, <1>2 DEF Relabels, Stores
    <1>. QED  BY <1>3, <1>4, LeaseStep DEF HandleRetry

\* A tab is left with leases that nobody will give back.
LEMMA CrashStep == ASSUME OfflineInv, NEW t \in Tabs, Crash(t) PROVE OfflineInv'
    <1>. DEFINE held == {op \in outbox : op.lease = t}
                new == [op \in held |-> [op EXCEPT !.lease = Nobody]]
    <1>1. ASSUME NEW o \in held
          PROVE  /\ new[o] \in Operation
                 /\ SameEdit(o, new[o])
                 /\ new[o].status = o.status /\ new[o].attempts = o.attempts
        <2>1. o \in Operation
            BY DEF OfflineInv, StoresSound, StoreState, Stores
        <2>. QED  BY <2>1 DEF Operation, SameEdit
    <1>2. outbox' = Replace(held, new) /\ held \in SUBSET outbox
        BY DEF Crash
    <1>. HIDE DEF held, new
    <1>3. Relabels(Stores, held, new)
        BY <1>1, <1>2 DEF Relabels, Stores
    <1>. QED  BY <1>2, <1>3, LeaseStep DEF Crash

\* The client of a tab is closed.
LEMMA AbortStep == ASSUME OfflineInv, NEW t \in Tabs, Abort(t) PROVE OfflineInv'
    <1>. DEFINE new == [op \in Leased(t) |->
                          [op EXCEPT !.status = "queued", !.lease = None,
                                     !.attempts = IF @ = 0 THEN 0 ELSE @ - 1]]
    <1>1. CASE tab[t].pc = "pulling"
        <2>1. outbox' = Replace({}, new)
            BY <1>1 DEF Abort, Replace
        <2>2. /\ Finish(t) /\ wire' = Unawaited(t)
              /\ UNCHANGED <<serviceVars, local, conflicts, pullCursor, nextSeq, nextId>>
            BY DEF Abort
        <2>3. Relabels(Stores, {}, new)
            BY DEF Relabels
        <2>. HIDE DEF new
        <2>. QED  BY <2>1, <2>2, <2>3, LeaseStep
    <1>2. CASE tab[t].pc # "pulling"
        <2>1. ASSUME NEW o \in Leased(t)
              PROVE  /\ new[o] \in Operation
                     /\ SameEdit(o, new[o])
                     /\ o.depends = None
                     /\ o.status \in {"queued", "inflight"}
                     /\ new[o].status \in {"queued", "inflight"}
            <3>1. o \in Operation /\ o.status = "inflight" /\ o.depends = None
                BY LeasedHeads
            <3>2. (IF o.attempts = 0 THEN 0 ELSE o.attempts - 1) \in 0..2
                BY <3>1 DEF Operation
            <3>3. new[o] = [o EXCEPT !.status = "queued", !.lease = None,
                                     !.attempts = IF @ = 0 THEN 0 ELSE @ - 1]
                OBVIOUS
            <3>. HIDE DEF new
            <3>4. new[o] \in Operation
                BY <3>1, <3>2, <3>3 DEF Operation
            <3>. QED  BY <3>1, <3>3, <3>4 DEF SameEdit, Operation
        <2>. HIDE DEF new
        <2>2. Leased(t) \in SUBSET outbox
            BY LeasedHeads
        <2>3. outbox' = Replace(Leased(t), new)
            BY <1>2 DEF Abort, new
        <2>4. Relabels(Stores, Leased(t), new)
            BY <2>1, <2>2 DEF Relabels, Stores
        <2>. QED  BY <2>3, <2>4, LeaseStep DEF Abort
    <1>. QED  BY <1>1, <1>2

\* Results are handled for the operations that a tab leases, and its waiting
\* ends.
LEMMA SettledStep ==
    ASSUME OfflineInv, NEW t \in Tabs, NEW results,
           \A op \in Leased(t) :
              /\ results[op] \in Result
              /\ results[op].status = "applied" => results[op].record \in Snapshot,
           Settled(t, results),
           wire' \subseteq wire, \A r \in wire : r.to # t => r \in wire'
    PROVE  OfflineInv'
    <1>i. /\ StoresSound(Stores, nextSeq) /\ nextSeq \in 1..(MaxEdits + 1)
          /\ Stores.nextId = nextId
        BY DEF OfflineInv, Stores
    <1>. DEFINE s == Handled(Leased(t), results)
    <1>1. /\ Leased(t) \in SUBSET outbox
          /\ \A op \in Leased(t) : op.status = "inflight"
        BY LeasedHeads
    <1>2. /\ StoresSound(s, nextSeq)
          /\ \A p \in s.outbox : p.id >= nextId \/ \E o \in outbox : SameEdit(o, p)
          /\ s.nextId >= nextId
        BY <1>1, <1>i, HandledKeeps
    <1>3. /\ outbox' = s.outbox /\ local' = s.local
          /\ conflicts' = s.conflicts /\ nextId' = s.nextId
          /\ Finish(t)
          /\ UNCHANGED <<serviceVars, pullCursor, nextSeq>>
        BY DEF Settled
    <1>. HIDE DEF s
    <1>4. s = [outbox |-> s.outbox, local |-> s.local,
               conflicts |-> s.conflicts, nextId |-> s.nextId]
        BY <1>2 DEF StoresSound, StoreState
    <1>5. Stores' = s
        BY <1>3, <1>4 DEF Stores
    <1>6. StoresSound(Stores, nextSeq)'
        BY <1>2, <1>3, <1>5
    <1>7. /\ tab' = [u \in Tabs |-> tab'[u]]
          /\ \A u \in Tabs : TabSound(u)'
        BY <1>3, TabStep DEF Finish, Wait, serviceVars
    <1>8. \A p \in outbox' : p.id >= nextId \/ \E o \in outbox : SameEdit(o, p)
        BY <1>2, <1>3
    <1>9. \A r \in wire' : \E q \in wire : r.request = q.request
        OBVIOUS
    <1>10. nextSeq' \in 1..(MaxEdits + 1) /\ pullCursor' \in Cursor \cup {None}
           /\ nextId' >= nextId
        BY <1>2, <1>3 DEF OfflineInv
    <1>. QED  BY <1>3, <1>6, <1>7, <1>8, <1>9, <1>10, ClientStep

\* The answer has come: what the tab still leases was among what it sent, and
\* nothing of that is on its way any more.
LEMMA ResultsStep == ASSUME OfflineInv, NEW t \in Tabs, HandleResults(t) PROVE OfflineInv'
    <1>. DEFINE answer(op) ==
                  CHOOSE o \in outcomes : o.request.client = Me /\ o.request.id = op.id
                results == [op \in Leased(t) |-> answer(op).result]
    <1>1. /\ tab[t].pc = "pushing" /\ \A r \in wire : r.to # t
          /\ Settled(t, results) /\ wire' = wire
        BY DEF HandleResults
    <1>2. ASSUME NEW op \in Leased(t)
          PROVE  /\ results[op] \in Result
                 /\ results[op].status = "applied" => results[op].record \in Snapshot
        <2>1. PICK claimed \in tab[t].ops : claimed.id = op.id
            BY DEF Leased
        <2>2. TabSound(t) /\ TypeOK /\ AnswersSound
            BY DEF OfflineInv
        <2>3. [to |-> t, request |-> Request(claimed)].to = t
            OBVIOUS
        <2>4. PICK o \in outcomes : o.request = Request(claimed)
            BY <1>1, <2>2, <2>3 DEF TabSound
        <2>5. o.request.client = Me /\ o.request.id = op.id
            BY <2>1, <2>4 DEF Request
        <2>6. answer(op) \in outcomes
            BY <2>5
        <2>. HIDE DEF answer
        <2>7. answer(op) \in Receipt
            BY <2>2, <2>6 DEF TypeOK
        <2>8. results[op] = answer(op).result
            OBVIOUS
        <2>. HIDE DEF results
        <2>. QED  BY <2>2, <2>6, <2>7, <2>8 DEF AnswersSound, Receipt
    <1>. HIDE DEF results
    <1>. QED  BY <1>1, <1>2, SettledStep

\* The body has been refused: every operation the tab leases fails.
LEMMA FailedStep == ASSUME OfflineInv, NEW t \in Tabs, HandleFailure(t) PROVE OfflineInv'
    <1>. DEFINE results == [op \in Leased(t) |-> Invalid]
    <1>1. \A op \in Leased(t) :
             /\ results[op] \in Result
             /\ results[op].status = "applied" => results[op].record \in Snapshot
        BY DEF Invalid, Result, Status
    <1>2. /\ Settled(t, results)
          /\ wire' \subseteq wire /\ \A r \in wire : r.to # t => r \in wire'
        BY DEF HandleFailure
    <1>. HIDE DEF results
    <1>. QED  BY <1>1, <1>2, SettledStep

\* A claim gives expired leases back and takes heads that are queued.
LEMMA ClaimStep ==
    ASSUME OfflineInv, NEW t \in Tabs, NEW expired, NEW due, Claim(t, expired, due)
    PROVE  OfflineInv'
    <1>. DEFINE requeue(op) == [op EXCEPT !.status = "queued", !.lease = None]
                take(op) == [op EXCEPT !.status = "inflight", !.lease = t,
                                !.attempts = IF @ = 2 THEN 2 ELSE @ + 1]
                stale == {op \in outbox : Reclaimable(t, op) /\ op.id \in expired}
                requeued == [op \in stale |-> requeue(op)]
                freed == Replace(stale, requeued)
                taken == {op \in freed : op.id \in due}
                new == [op \in taken |-> take(op)]
                mid == [outbox |-> freed, local |-> local, conflicts |-> conflicts,
                        nextId |-> nextId]
    <1>i. /\ StoresSound(Stores, nextSeq) /\ nextSeq \in Nat /\ nextId \in Nat
          /\ Stores.outbox = outbox /\ Stores.local = local
          /\ Stores.conflicts = conflicts /\ Stores.nextId = nextId
        BY OfflineAssumption DEF OfflineInv, Stores, StoresSound, StoreState
    <1>o. \A op \in outbox : op \in Operation /\ OpSound(op, Stores, nextSeq)
        BY <1>i DEF StoresSound, StoreState
    <1>c. /\ \A i \in due : \E op \in taken :
                op.id = i /\ op.status = "queued" /\ op.depends = None
          /\ outbox' = (freed \ taken) \cup {take(op) : op \in taken}
          /\ Wait(t, [pc |-> "pushing", ops |-> {take(op) : op \in taken}])
          /\ wire' = wire \cup {[to |-> t, request |-> Request(op)] : op \in taken}
          /\ UNCHANGED <<serviceVars, local, conflicts, pullCursor, nextSeq, nextId>>
        BY DEF Claim
    <1>1. ASSUME NEW op \in stale
          PROVE  /\ requeued[op] \in Operation
                 /\ SameEdit(op, requeued[op])
                 /\ op.depends = None
                 /\ op.status \in {"queued", "inflight"}
                 /\ requeued[op].status \in {"queued", "inflight"}
        <2>1. op \in Operation /\ op.status = "inflight" /\ op.depends = None
            BY <1>o DEF Reclaimable, OpSound, Waits
        <2>2. requeued[op] = requeue(op)
            OBVIOUS
        <2>3. requeue(op) \in Operation
            BY <2>1 DEF Operation
        <2>. QED  BY <2>1, <2>2, <2>3 DEF SameEdit, Operation
    <1>2. /\ StoresSound(mid, nextSeq)
          /\ \A op \in freed : \E o \in outbox : SameEdit(o, op)
        <2>1. stale \subseteq Stores.outbox
            BY <1>i
        <2>2. mid = Relabelled(Stores, stale, requeued)
            BY <1>i DEF Relabelled, Replace
        <2>3. freed = mid.outbox
            OBVIOUS
        <2>. HIDE DEF stale, requeued, freed, mid, Stores
        <2>4. Relabels(Stores, stale, requeued)
            BY <1>1, <2>1 DEF Relabels
        <2>5. /\ StoresSound(mid, nextSeq)
              /\ \A op \in mid.outbox : \E o \in Stores.outbox : SameEdit(o, op)
            BY <1>i, <2>2, <2>4, ReplaceKeeps
        <2>. QED  BY <1>i, <2>3, <2>5
    <1>. HIDE DEF stale, requeued, freed
    <1>m. mid.outbox = freed /\ mid.local = local /\ mid.conflicts = conflicts
          /\ mid.nextId = nextId
        OBVIOUS
    <1>. HIDE DEF mid
    <1>3. ASSUME NEW op \in taken
          PROVE  /\ op \in freed
                 /\ op \in Operation
                 /\ op.status = "queued"
                 /\ op.depends = None
        <2>1. PICK q \in taken : q.id = op.id /\ q.status = "queued" /\ q.depends = None
            BY <1>c
        <2>2. q = op
            BY <1>2, <1>m, <2>1 DEF StoresSound, Apart
        <2>. QED  BY <1>2, <1>m, <2>1, <2>2 DEF StoresSound, StoreState
    <1>4. ASSUME NEW op \in taken
          PROVE  /\ take(op) \in Operation
                 /\ SameEdit(op, take(op))
                 /\ take(op).status = "inflight"
        <2>1. (IF op.attempts = 2 THEN 2 ELSE op.attempts + 1) \in 0..2
            BY <1>3 DEF Operation
        <2>2. take(op) \in Operation
            BY <1>3, <2>1 DEF Operation
        <2>. QED  BY <1>3, <2>2 DEF SameEdit, Operation
    <1>5. \A op \in taken : new[op] = take(op)
        OBVIOUS
    <1>6. outbox' = (mid.outbox \ taken) \cup {new[op] : op \in taken}
        <2>. HIDE DEF taken, take, new
        <2>. QED  BY <1>5, <1>c, <1>m
    <1>7. taken \in SUBSET mid.outbox
        BY <1>m
    <1>. HIDE DEF taken, take, new
    <1>8. /\ StoresSound([outbox |-> outbox', local |-> mid.local,
                          conflicts |-> mid.conflicts, nextId |-> mid.nextId], nextSeq)
          /\ \A p \in outbox' : \E o \in mid.outbox : SameEdit(o, p)
        <2>1. ASSUME NEW op \in taken
              PROVE  /\ new[op] \in Operation
                     /\ SameEdit(op, new[op])
                     /\ op.depends = None
                     /\ op.status \in {"queued", "inflight"}
                     /\ new[op].status \in {"queued", "inflight"}
            BY <1>3, <1>4, <1>5
        <2>2. Relabels(mid, taken, new)
            BY <1>7, <2>1 DEF Relabels
        <2>3. /\ StoresSound(Relabelled(mid, taken, new), nextSeq)
              /\ \A p \in Relabelled(mid, taken, new).outbox :
                    \E o \in mid.outbox : SameEdit(o, p)
            BY <1>2, <1>i, <2>2, ReplaceKeeps
        <2>4. Relabelled(mid, taken, new) =
                 [outbox |-> outbox', local |-> mid.local,
                  conflicts |-> mid.conflicts, nextId |-> mid.nextId]
            BY <1>6 DEF Relabelled
        <2>. QED  BY <2>3, <2>4
    <1>9. StoresSound(Stores, nextSeq)'
        <2>1. Stores' = [outbox |-> outbox', local |-> mid.local,
                         conflicts |-> mid.conflicts, nextId |-> mid.nextId]
            BY <1>c, <1>m DEF Stores
        <2>. QED  BY <1>8, <1>c, <2>1
    <1>10. ASSUME NEW p \in outbox' PROVE \E o \in outbox : SameEdit(o, p)
        <2>1. PICK q \in freed : SameEdit(q, p)
            BY <1>8, <1>m
        <2>2. PICK o \in outbox : SameEdit(o, q)
            BY <1>2
        <2>. QED  BY <2>1, <2>2 DEF SameEdit
    <1>11. ASSUME NEW r \in wire'
           PROVE  \/ \E q \in wire : r.request = q.request
                  \/ \E o \in outbox : r.request = Request(o)
        <2>1. CASE r \in wire
            BY <2>1
        <2>2. ASSUME NEW op \in taken, r = [to |-> t, request |-> Request(op)]
              PROVE  \E o \in outbox : r.request = Request(o)
            <3>1. PICK o \in outbox : SameEdit(o, op)
                BY <1>2, <1>3
            <3>. QED  BY <2>2, <3>1 DEF SameEdit, Request
        <2>. QED  BY <1>c, <2>1, <2>2
    <1>12. /\ tab' = [u \in Tabs |-> tab'[u]]
           /\ \A u \in Tabs : TabSound(u)'
        <2>. DEFINE state == [pc |-> "pushing", ops |-> {take(op) : op \in taken}]
        <2>1. tab' = [tab EXCEPT ![t] = state]
            BY <1>c DEF Wait
        <2>2. ASSUME NEW p \in state.ops
              PROVE  [to |-> t, request |-> Request(p)] \in wire'
            <3>1. PICK op \in taken : p = take(op)
                OBVIOUS
            <3>2. Request(p) = Request(op)
                BY <1>4, <3>1 DEF SameEdit, Request
            <3>. QED  BY <1>c, <3>2
        <2>3. state.pc # "pulling" /\ \A r \in wire : r \in wire'
            BY <1>c
        <2>. HIDE DEF state
        <2>. QED  BY <1>c, <2>1, <2>2, <2>3, TabStep DEF serviceVars
    <1>13. nextSeq' \in 1..(MaxEdits + 1) /\ pullCursor' \in Cursor \cup {None}
           /\ nextId' >= nextId
        BY <1>c, <1>i DEF OfflineInv
    <1>. QED  BY <1>9, <1>10, <1>11, <1>12, <1>13, <1>c, ClientStep

-----------------------------------------------------------------------------
(* Pulling.                                                                *)

\* One row changes what a record confirms, never what it shows of the user's
\* edits, and not whether it is in conflict or has failed.
LEMMA ChangeKeeps ==
    ASSUME NEW rows \in [Keys -> LocalRecord \cup {None}], NEW incoming \in Snapshot
    PROVE  LET after == OnChange(incoming, rows)
           IN  /\ after \in [Keys -> LocalRecord \cup {None}]
               /\ \A k \in Keys :
                     /\ Shown(after[k]) = Shown(rows[k])
                     /\ \A state \in {"conflict", "failed"} :
                           after[k] # None /\ after[k].state = state
                           <=> rows[k] # None /\ rows[k].state = state
    <1>. DEFINE j == incoming.key
                old == rows[j]
                edit == IF old = None THEN None ELSE old.optimistic
                state == IF old # None /\ old.state \in {"conflict", "failed"}
                         THEN old.state
                         ELSE IF edit = None THEN "synced" ELSE "pending"
                new == [confirmed |-> incoming, optimistic |-> edit, state |-> state]
                after == OnChange(incoming, rows)
    <1>1. j \in Keys /\ old \in LocalRecord \cup {None}
        BY DEF Snapshot
    <1>2. after = rows \/ after = [rows EXCEPT ![j] = new]
        BY DEF OnChange
    <1>3. /\ edit \in Edit \cup {None} /\ edit = Shown(old)
          /\ state \in {"synced", "pending", "conflict", "failed"}
          /\ \A c \in {"conflict", "failed"} : state = c <=> old # None /\ old.state = c
        BY <1>1 DEF Shown, LocalRecord
    <1>. HIDE DEF edit, state, after
    <1>4. new \in LocalRecord /\ new.optimistic = edit /\ new.state = state
        BY <1>3 DEF LocalRecord
    <1>5. new # None
        BY <1>4, NoRowAssumption
    <1>. HIDE DEF new
    <1>6. Shown(new) = Shown(old)
        BY <1>3, <1>4, <1>5 DEF Shown
    <1>7. CASE after = rows
        BY <1>7 DEF after
    <1>8. CASE after = [rows EXCEPT ![j] = new]
        <2>1. /\ after \in [Keys -> LocalRecord \cup {None}]
              /\ after[j] = new /\ \A k \in Keys : k # j => after[k] = rows[k]
            BY <1>1, <1>4, <1>8
        <2>2. ASSUME NEW k \in Keys
              PROVE  /\ Shown(after[k]) = Shown(rows[k])
                     /\ \A c \in {"conflict", "failed"} :
                           after[k] # None /\ after[k].state = c
                           <=> rows[k] # None /\ rows[k].state = c
            <3>1. CASE k = j
                BY <1>3, <1>4, <1>5, <1>6, <2>1, <3>1
            <3>2. CASE k # j
                BY <2>1, <3>2
            <3>. QED  BY <3>1, <3>2
        <2>. QED  BY <2>1, <2>2 DEF after
    <1>. QED  BY <1>2, <1>7, <1>8

\* Nor do all the rows of a page.
LEMMA MergedKeeps ==
    ASSUME local \in [Keys -> LocalRecord \cup {None}],
           NEW page, page.next \in Cursor, page.rows \subseteq Change
    PROVE  /\ Merged(page) \in [Keys -> LocalRecord \cup {None}]
           /\ \A k \in Keys :
                 /\ Shown(Merged(page)[k]) = Shown(local[k])
                 /\ \A state \in {"conflict", "failed"} :
                       Merged(page)[k] # None /\ Merged(page)[k].state = state
                       <=> local[k] # None /\ local[k].state = state
    <1>. DEFINE end == page.next.position
                Good(rows) ==
                   /\ rows \in [Keys -> LocalRecord \cup {None}]
                   /\ \A k \in Keys :
                         /\ Shown(rows[k]) = Shown(local[k])
                         /\ \A state \in {"conflict", "failed"} :
                               rows[k] # None /\ rows[k].state = state
                               <=> local[k] # None /\ local[k].state = state
    <1>n. end \in Nat
        BY DEF Cursor
    <1>1. PICK merged :
             /\ merged = [n \in 0..end |->
                   IF n = 0 THEN local ELSE RowTurn(n, page, merged[n - 1])]
             /\ Merged(page) = merged[end]
        BY <1>n, MergedRuns
    <1>. HIDE DEF end
    <1>2. merged[0] = local
        BY <1>1, <1>n
    <1>3. ASSUME NEW n \in 1..end
          PROVE  merged[n] = RowTurn(n, page, merged[n - 1])
        BY <1>1, <1>n
    <1>4. Good(merged[0])
        BY <1>2
    <1>5. ASSUME NEW n \in 1..end, Good(merged[n - 1]) PROVE Good(merged[n])
        <2>. DEFINE rows == merged[n - 1]
                    due == {row \in page.rows : row.cursor = n}
                    row == CHOOSE r \in due : TRUE
        <2>1. CASE due = {}
            <3>1. merged[n] = rows
                BY <1>3, <2>1 DEF RowTurn
            <3>. QED  BY <1>5, <3>1
        <2>2. CASE due # {}
            <3>1. row \in page.rows
                BY <2>2
            <3>2. merged[n] = OnChange(row.snapshot, rows)
                BY <1>3, <2>2 DEF RowTurn
            <3>. HIDE DEF row, due, rows
            <3>3. row.snapshot \in Snapshot
                BY <3>1 DEF Change
            <3>4. Good(rows)
                BY <1>5 DEF rows
            <3>. DEFINE after == OnChange(row.snapshot, rows)
            <3>5. /\ after \in [Keys -> LocalRecord \cup {None}]
                  /\ \A k \in Keys :
                        /\ Shown(after[k]) = Shown(rows[k])
                        /\ \A state \in {"conflict", "failed"} :
                              after[k] # None /\ after[k].state = state
                              <=> rows[k] # None /\ rows[k].state = state
                BY <3>3, <3>4, ChangeKeeps
            <3>. HIDE DEF after
            <3>6. Good(after)
                BY <3>4, <3>5
            <3>. QED  BY <3>2, <3>6 DEF after
        <2>. QED  BY <2>1, <2>2
    <1>. HIDE DEF Good
    <1>6. \A n \in 0..end : Good(merged[n])
        <2>. DEFINE Bad == {n \in 0..end : ~Good(merged[n])}
        <2>. SUFFICES ASSUME Bad # {} PROVE FALSE
            OBVIOUS
        <2>1. PICK n \in Bad : \A j \in Bad : n <= j
            <3>1. Bad \subseteq Nat
                BY <1>n
            <3>. HIDE DEF Bad
            <3>. QED  BY <3>1, LeastOf
        <2>2. n \in 0..end /\ ~Good(merged[n])
            OBVIOUS
        <2>3. n \in 1..end /\ n - 1 \in 0..end /\ ~(n <= n - 1)
            BY <1>4, <1>n, <2>2
        <2>4. n - 1 \notin Bad
            <3>. HIDE DEF Bad
            <3>. QED  BY <2>1, <2>3
        <2>5. Good(merged[n - 1])
            BY <2>3, <2>4
        <2>. QED  BY <1>5, <2>2, <2>3, <2>5
    <1>7. Good(Merged(page))
        BY <1>1, <1>6, <1>n
    <1>. QED  BY <1>7 DEF Good

\* The stores and the messages are as they were.
LEMMA QuietStep ==
    ASSUME OfflineInv,
           UNCHANGED <<serviceVars, outbox, local, conflicts, nextSeq, nextId, wire>>,
           pullCursor' \in Cursor \cup {None},
           tab' = [t \in Tabs |-> tab'[t]],
           \A t \in Tabs : TabSound(t)'
    PROVE  OfflineInv'
    <1>1. StoresSound(Stores, nextSeq)'
        <2>1. Stores' = Stores
            BY DEF Stores
        <2>. QED  BY <2>1 DEF OfflineInv
    <1>2. /\ \A p \in outbox' : \E o \in outbox : SameEdit(o, p)
          /\ nextId' >= nextId
          /\ nextSeq' \in 1..(MaxEdits + 1)
          /\ \A r \in wire' : \E q \in wire : r.request = q.request
        BY DEF OfflineInv, StoresSound, StoreState, Stores, SameEdit
    <1>. QED  BY <1>1, <1>2, ClientStep

\* A page is asked for and answered.
LEMMA PullStep == ASSUME OfflineInv, NEW t \in Tabs, Pull(t) PROVE OfflineInv'
    <1>. DEFINE high == HighWater(pullCursor, clock)
    <1>1. PICK last \in PageEnds(pullCursor, high, changes) :
             Wait(t, [pc |-> "pulling",
                      page |-> PageUpTo(pullCursor, high, changes, last)])
        BY DEF Pull
    <1>2. UNCHANGED <<serviceVars, storeVars, wire>>
        BY DEF Pull
    <1>3. /\ pullCursor \in Cursor \cup {None} /\ clock \in Nat
          /\ changes \subseteq Change
        BY DEF OfflineInv, TypeOK
    <1>4. high \in Nat /\ Position(pullCursor) \in Nat
        BY <1>3 DEF HighWater, Position, Cursor
    <1>5. last \in Nat
        BY <1>3, <1>4 DEF PageEnds, Window, Change, Version
    <1>. DEFINE page == PageUpTo(pullCursor, high, changes, last)
                state == [pc |-> "pulling", page |-> page]
    <1>6. page.next \in Cursor /\ page.rows \subseteq Change
        BY <1>3, <1>4, <1>5 DEF PageUpTo, Window, Cursor
    <1>7. tab' = [tab EXCEPT ![t] = state]
        BY <1>1 DEF Wait
    <1>. HIDE DEF page
    <1>8. state.pc # "pushing" /\ state.page = page
        OBVIOUS
    <1>. HIDE DEF state
    <1>9. /\ tab' = [u \in Tabs |-> tab'[u]]
          /\ \A u \in Tabs : TabSound(u)'
        BY <1>2, <1>6, <1>7, <1>8, TabStep DEF serviceVars
    <1>. QED  BY <1>2, <1>3, <1>9, QuietStep DEF storeVars

\* The saved cursor is refused.
LEMMA ResetStep == ASSUME OfflineInv, NEW t \in Tabs, ResetCursor(t) PROVE OfflineInv'
    <1>1. /\ pullCursor' = None
          /\ UNCHANGED <<serviceVars, outbox, local, conflicts, nextSeq, nextId, tab, wire>>
        BY DEF ResetCursor
    <1>2. \A u \in Tabs : TabSound(u)'
        BY <1>1 DEF OfflineInv, TabSound, serviceVars
    <1>3. tab' = [u \in Tabs |-> tab'[u]]
        BY <1>1 DEF OfflineInv
    <1>. QED  BY <1>1, <1>2, <1>3, QuietStep

\* The rows of a page reach the records, and the stored conflicts with them.
LEMMA ApplyChangesStep ==
    ASSUME OfflineInv, NEW t \in Tabs, ApplyChanges(t) PROVE OfflineInv'
    <1>. DEFINE page == tab[t].page
                rows == Merged(page)
                marks == [k \in Keys |->
                            IF conflicts[k] # None /\ rows[k] # local[k]
                            THEN [conflicts[k] EXCEPT !.server = rows[k].confirmed]
                            ELSE conflicts[k]]
                F == [o \in outbox |-> o]
    <1>a. /\ tab[t].pc = "pulling"
          /\ local' = rows /\ conflicts' = marks /\ pullCursor' = page.next
          /\ Finish(t)
          /\ UNCHANGED <<serviceVars, outbox, nextSeq, nextId, wire>>
        BY DEF ApplyChanges
    <1>i. /\ StoresSound(Stores, nextSeq) /\ nextSeq \in Nat /\ nextId \in Nat
          /\ Stores.outbox = outbox /\ Stores.local = local
          /\ Stores.conflicts = conflicts /\ Stores.nextId = nextId
        BY OfflineAssumption DEF OfflineInv, Stores, StoresSound, StoreState
    <1>t. /\ local \in [Keys -> LocalRecord \cup {None}]
          /\ conflicts \in [Keys -> Conflict \cup {None}]
          /\ outbox \subseteq Operation
        BY <1>i DEF StoresSound, StoreState
    <1>1. page.next \in Cursor /\ page.rows \subseteq Change
        BY <1>a DEF OfflineInv, TabSound
    <1>2. /\ rows \in [Keys -> LocalRecord \cup {None}]
          /\ \A k \in Keys :
                /\ Shown(rows[k]) = Shown(local[k])
                /\ \A state \in {"conflict", "failed"} :
                      rows[k] # None /\ rows[k].state = state
                      <=> local[k] # None /\ local[k].state = state
        BY <1>1, <1>t, MergedKeeps
    <1>. HIDE DEF rows, page
    <1>3. ASSUME NEW k \in Keys
          PROVE  /\ marks[k] \in Conflict \cup {None}
                 /\ marks[k] # None <=> conflicts[k] # None
                 /\ marks[k] # None => /\ marks[k].server = rows[k].confirmed
                                       /\ marks[k].id = conflicts[k].id
        <2>1. RowSound(k, Stores)
            BY <1>i DEF StoresSound
        <2>2. CASE conflicts[k] = None
            BY <2>2
        <2>3. CASE conflicts[k] # None /\ rows[k] = local[k]
            BY <1>i, <1>t, <2>1, <2>3 DEF RowSound
        <2>4. CASE conflicts[k] # None /\ rows[k] # local[k]
            <3>1. rows[k] # None
                BY <1>2, <1>i, <2>1, <2>4 DEF RowSound
            <3>2. rows[k] \in LocalRecord /\ conflicts[k] \in Conflict
                BY <1>2, <1>t, <2>4, <3>1
            <3>3. marks[k] = [id |-> conflicts[k].id, server |-> rows[k].confirmed]
                BY <2>4, <3>2 DEF Conflict
            <3>. HIDE DEF marks
            <3>4. marks[k] \in Conflict
                BY <3>2, <3>3 DEF Conflict, LocalRecord
            <3>. QED  BY <2>4, <3>3, <3>4, NoRowAssumption
        <2>. QED  BY <2>2, <2>3, <2>4
    <1>4. marks \in [Keys -> Conflict \cup {None}]
        BY <1>3
    <1>f. F \in [outbox -> Operation] /\ \A o \in outbox : F[o] = o
        BY <1>t
    <1>. HIDE DEF marks, F
    <1>5. StoresSound([outbox |-> {F[o] : o \in Stores.outbox}, local |-> rows,
                       conflicts |-> marks, nextId |-> Stores.nextId], nextSeq)
        <2>1. ASSUME NEW o \in Stores.outbox
              PROVE  /\ SameEdit(o, F[o])
                     /\ o.depends # None => /\ F[o].status \in {"queued", "blocked"}
                                            /\ F[o].attempts = 0
                     /\ F[o].status = "blocked" => marks[o.key] # None
                     /\ F[o].status = "failed" =>
                           rows[o.key] # None /\ rows[o.key].state = "failed"
            <3>1. F[o] = o /\ o.key \in Keys /\ OpSound(o, Stores, nextSeq)
                BY <1>f, <1>i, <1>t DEF StoresSound, Operation
            <3>. QED  BY <1>2, <1>3, <1>i, <3>1 DEF OpSound, Waits, SameEdit
        <2>2. ASSUME NEW k \in Keys
              PROVE  /\ Shown(rows[k]) = Shown(Stores.local[k])
                     /\ marks[k] # None <=> (rows[k] # None /\ rows[k].state = "conflict")
                     /\ marks[k] # None =>
                           /\ marks[k].server = rows[k].confirmed
                           /\ \A o \in OpsOf(k, Stores.outbox) : F[o].status = "blocked"
                           /\ \E o \in OpsOf(k, Stores.outbox) : o.id = marks[k].id
            <3>1. RowSound(k, Stores)
                BY <1>i DEF StoresSound
            <3>2. \A o \in OpsOf(k, Stores.outbox) : F[o] = o
                BY <1>f, <1>i DEF OpsOf
            <3>. QED  BY <1>2, <1>3, <1>i, <3>1, <3>2 DEF RowSound
        <2>3. F \in [Stores.outbox -> Operation]
            BY <1>f, <1>i
        <2>. HIDE DEF Stores
        <2>4. OpsAgree(Stores, F, rows, marks)
            BY <2>1, <2>3 DEF OpsAgree
        <2>5. RowsAgree(Stores, F, rows, marks)
            BY <1>2, <1>4, <2>2 DEF RowsAgree
        <2>. QED  BY <1>i, <2>4, <2>5, RelabelKeeps
    <1>6. StoresSound(Stores, nextSeq)'
        <2>1. {F[o] : o \in Stores.outbox} = outbox
            BY <1>f, <1>i
        <2>2. Stores' = [outbox |-> {F[o] : o \in Stores.outbox}, local |-> rows,
                         conflicts |-> marks, nextId |-> Stores.nextId]
            BY <1>a, <1>i, <2>1 DEF Stores
        <2>. QED  BY <1>5, <1>a, <2>2
    <1>7. /\ tab' = [u \in Tabs |-> tab'[u]]
          /\ \A u \in Tabs : TabSound(u)'
        BY <1>a, TabStep DEF Finish, Wait, serviceVars
    <1>8. /\ \A p \in outbox' : \E o \in outbox : SameEdit(o, p)
          /\ nextId' >= nextId
          /\ nextSeq' \in 1..(MaxEdits + 1)
          /\ pullCursor' \in Cursor \cup {None}
          /\ \A r \in wire' : \E q \in wire : r.request = q.request
        BY <1>1, <1>a, <1>i DEF OfflineInv, SameEdit
    <1>. QED  BY <1>6, <1>7, <1>8, <1>a, ClientStep

-----------------------------------------------------------------------------
(* The service.                                                            *)

\* A request that was sent is processed, whoever waits for it.
LEMMA ServeStep == ASSUME OfflineInv, NEW r \in wire, Serve(r) PROVE OfflineInv'
    <1>1. r.request \in Said(wire, outcomes)
        BY DEF Said
    <1>2. r.request \in Mutation
        BY <1>1 DEF OfflineInv, PayloadsSound
    <1>3. /\ Push(r.request) /\ wire' \subseteq wire
          /\ \A q \in wire : q \in wire' \/ q.request = r.request
          /\ UNCHANGED <<storeVars, tab>>
        BY DEF Serve
    <1>. QED  BY <1>1, <1>2, <1>3, ServiceStep

\* Another device of the account.
LEMMA OtherStep ==
    ASSUME OfflineInv, NEW m \in Mutations, OtherDevice(m) PROVE OfflineInv'
    <1>1. m \in Mutation /\ m.client # Me
        BY MutationsAssumption, OfflineAssumption
    <1>2. Push(m) /\ UNCHANGED <<storeVars, tab>> /\ wire' = wire
        BY DEF OtherDevice, clientVars
    <1>. QED  BY <1>1, <1>2, ServiceStep

-----------------------------------------------------------------------------
(* The user.                                                               *)

\* The user's edits of a record are dropped.
LEMMA ForgetStep ==
    ASSUME OfflineInv, NEW k \in Keys, Forget(k),
           NEW row \in LocalRecord \cup {None}, Shown(row) = None,
           row # None => row.state = "synced",
           local' = [local EXCEPT ![k] = row]
    PROVE  OfflineInv'
    <1>. DEFINE n == nextSeq
                gone == OpsOf(k, outbox)
                new == [outbox |-> outbox \ gone,
                        local |-> [local EXCEPT ![k] = row],
                        conflicts |-> [conflicts EXCEPT ![k] = None],
                        nextId |-> nextId]
    <1>f. /\ outbox' = outbox \ gone
          /\ conflicts' = [conflicts EXCEPT ![k] = None]
          /\ UNCHANGED <<serviceVars, pullCursor, nextSeq, nextId, tab, wire>>
        BY DEF Forget
    <1>i. /\ StoresSound(Stores, n) /\ n \in Nat \ {0} /\ nextId \in Nat \ {0}
          /\ Stores.outbox = outbox /\ Stores.local = local
          /\ Stores.conflicts = conflicts /\ Stores.nextId = nextId
        BY OfflineAssumption DEF OfflineInv, Stores, StoresSound, StoreState
    <1>t. /\ local \in [Keys -> LocalRecord \cup {None}]
          /\ conflicts \in [Keys -> Conflict \cup {None}]
          /\ outbox \subseteq Operation
        BY <1>i DEF StoresSound, StoreState
    <1>o. \A op \in outbox : op.key \in Keys /\ OpSound(op, Stores, n)
        BY <1>i, <1>t DEF StoresSound, Operation
    <1>g. \A op \in outbox : op \in gone <=> op.key = k
        BY DEF OpsOf
    <1>n. /\ new.outbox = outbox \ gone /\ new.nextId = nextId
          /\ new.local[k] = row /\ new.conflicts[k] = None
          /\ \A j \in Keys : j # k => /\ new.local[j] = local[j]
                                      /\ new.conflicts[j] = conflicts[j]
        BY <1>t
    <1>1. new \in StoreState
        BY <1>i, <1>t DEF StoreState
    <1>. HIDE DEF new, gone
    <1>2. ASSUME NEW op \in new.outbox PROVE OpSound(op, new, n)
        <2>1. op \in outbox /\ op.key # k /\ op.key \in Keys /\ OpSound(op, Stores, n)
            BY <1>g, <1>n, <1>o
        <2>2. Waits(op, outbox) => Waits(op, new.outbox)
            BY <1>g, <1>n, <2>1 DEF Waits
        <2>. QED  BY <1>i, <1>n, <2>1, <2>2 DEF OpSound
    <1>3. Apart(new.outbox)
        BY <1>i, <1>n DEF StoresSound, Apart
    <1>4. ASSUME NEW j \in Keys PROVE RowSound(j, new)
        <2>1. CASE j = k
            <3>1. OpsOf(j, new.outbox) = {}
                BY <1>g, <1>n, <2>1 DEF OpsOf
            <3>2. /\ Shown(new.local[j]) = None /\ new.conflicts[j] = None
                  /\ new.local[j] # None => new.local[j].state = "synced"
                BY <1>n, <2>1
            <3>. QED  BY <3>1, <3>2 DEF RowSound
        <2>2. CASE j # k
            <3>1. OpsOf(j, new.outbox) = OpsOf(j, outbox)
                BY <1>g, <1>n, <2>2 DEF OpsOf
            <3>2. new.local[j] = local[j] /\ new.conflicts[j] = conflicts[j]
                BY <1>n, <2>2
            <3>3. RowSound(j, Stores)
                BY <1>i DEF StoresSound
            <3>. QED  BY <1>i, <3>1, <3>2, <3>3 DEF RowSound
        <2>. QED  BY <2>1, <2>2
    <1>5. new.nextId + Cardinality(Waiting(new.outbox, n)) <= 2 * n - 1
        <2>1. Waiting(new.outbox, n) \subseteq Waiting(outbox, n)
            BY <1>n DEF Waiting
        <2>2. /\ IsFiniteSet(Waiting(outbox, n))
              /\ Cardinality(Waiting(outbox, n)) \in Nat
              /\ Cardinality(Waiting(new.outbox, n)) \in Nat
            BY <1>i, WaitingFinite
        <2>3. Cardinality(Waiting(new.outbox, n)) <= Cardinality(Waiting(outbox, n))
            BY <2>1, <2>2, FS_Subset
        <2>4. nextId + Cardinality(Waiting(outbox, n)) <= 2 * n - 1
            BY <1>i DEF StoresSound
        <2>5. \A a, c, d \in Nat : d <= c /\ a + c <= 2 * n - 1 => a + d <= 2 * n - 1
            BY <1>i
        <2>. QED  BY <1>i, <1>n, <2>2, <2>3, <2>4, <2>5
    <1>6. StoresSound(new, n)
        BY <1>1, <1>2, <1>3, <1>4, <1>5 DEF StoresSound
    <1>7. StoresSound(Stores, nextSeq)'
        <2>1. Stores' = new
            BY <1>f DEF Stores, new
        <2>. QED  BY <1>6, <1>f, <2>1
    <1>8. /\ \A p \in outbox' : \E o \in outbox : SameEdit(o, p)
          /\ nextId' >= nextId
          /\ nextSeq' \in 1..(MaxEdits + 1)
          /\ pullCursor' \in Cursor \cup {None}
          /\ \A r \in wire' : \E q \in wire : r.request = q.request
          /\ tab' = [t \in Tabs |-> tab'[t]]
        BY <1>f, <1>i DEF OfflineInv, SameEdit
    <1>9. \A t \in Tabs : TabSound(t)'
        BY <1>f DEF OfflineInv, TabSound, serviceVars
    <1>. QED  BY <1>7, <1>8, <1>9, <1>f, ClientStep

\* The user takes the server's version, or gives his own up.
LEMMA AcceptStep ==
    ASSUME OfflineInv, NEW k \in Keys, AcceptServer(k) \/ Discard(k)
    PROVE  OfflineInv'
    <1>t. local \in [Keys -> LocalRecord \cup {None}]
        BY DEF OfflineInv, StoresSound, StoreState, Stores
    <1>. DEFINE kept == [local[k] EXCEPT !.optimistic = None, !.state = "synced"]
    <1>1. ASSUME local[k] # None
          PROVE  /\ kept \in LocalRecord /\ kept # None
                 /\ kept.optimistic = None /\ kept.state = "synced"
        <2>1. local[k] \in LocalRecord
            BY <1>1, <1>t
        <2>2. kept \in LocalRecord /\ kept.optimistic = None /\ kept.state = "synced"
            BY <2>1 DEF LocalRecord
        <2>. HIDE DEF kept
        <2>. QED  BY <2>2, NoRowAssumption
    <1>2. Forget(k)
        BY DEF AcceptServer, Discard
    <1>3. \/ local[k] = None /\ local' = [local EXCEPT ![k] = None]
          \/ local[k] # None /\ local' = [local EXCEPT ![k] = kept]
          \/ local' = [local EXCEPT ![k] = None]
        <2>1. CASE AcceptServer(k) /\ local[k] = None
            BY <1>t, <2>1 DEF AcceptServer
        <2>2. CASE AcceptServer(k) /\ local[k] # None
            <3>1. local' = [[local EXCEPT ![k].optimistic = None] EXCEPT ![k].state = "synced"]
                BY <2>2 DEF AcceptServer
            <3>. QED  BY <1>t, <2>2, <3>1
        <2>3. CASE Discard(k)
            BY <1>t, <2>3 DEF Discard, Listed
        <2>. QED  BY <2>1, <2>2, <2>3
    <1>. HIDE DEF kept
    <1>4. Shown(None) = None
        BY DEF Shown
    <1>5. local[k] # None => Shown(kept) = None
        BY <1>1 DEF Shown
    <1>. QED  BY <1>1, <1>2, <1>3, <1>4, <1>5, ForgetStep

\* Edit q of record k takes the place of the operations gone, and waits for
\* the one that is left, if any.
TakesPlace(k, action, value, gone, q) ==
    /\ gone \subseteq OpsOf(k, outbox)
    /\ q \in Operation
    /\ \A op \in gone : op.status = "queued"
    /\ outbox' = (outbox \ gone) \cup {q}
    /\ q.id = nextId /\ q.key = k /\ q.seq = nextSeq
    /\ q.action = action /\ q.value = value
    /\ q.status = "queued" /\ q.attempts = 0
    /\ \/ OpsOf(k, outbox) = gone /\ q.depends = None
       \/ \E head \in OpsOf(k, outbox) :
             /\ OpsOf(k, outbox) \ gone = {head}
             /\ head.depends = None
             /\ head.status \in {"queued", "inflight"}
             /\ q.depends = head.id


\* What an edit finds of its record: at most one operation that was sent, the
\* head, and operations that may be replaced. It depends on the head.
LEMMA QueueForm ==
    ASSUME OfflineInv, NEW k \in Keys, NEW action \in {"put", "delete"},
           NEW value \in Notes \cup {None}, Queue(k, action, value)
    PROVE  \E gone, q : TakesPlace(k, action, value, gone, q)
    <1>. DEFINE n == nextSeq
                ops == OpsOf(k, outbox)
                replaceable == {op \in ops : op.status = "queued" /\ op.attempts = 0}
                immutable == {op \in ops : op.status = "inflight" \/ op.attempts > 0}
                base == Else(IF replaceable = {} THEN None ELSE Oldest(replaceable).base,
                             VersionOf(Confirmed(k)))
                depends == IF immutable # {} THEN Newest(immutable).id
                           ELSE IF replaceable # {} THEN Oldest(replaceable).depends
                           ELSE None
                q == [id |-> nextId, key |-> k, action |-> action, value |-> value,
                      base |-> base, seq |-> n, status |-> "queued",
                      depends |-> depends, attempts |-> 0, lease |-> None]
    <1>c. /\ n <= MaxEdits
          /\ conflicts[k] = None
          /\ local[k] # None => local[k].state # "failed"
          /\ outbox' = (outbox \ replaceable) \cup {q}
        BY DEF Queue
    <1>i. /\ StoresSound(Stores, n) /\ n \in Nat \ {0} /\ nextId \in Nat \ {0}
          /\ Stores.outbox = outbox /\ Stores.local = local
          /\ Stores.conflicts = conflicts /\ Stores.nextId = nextId
          /\ MaxEdits \in Nat
        BY OfflineAssumption DEF OfflineInv, Stores, StoresSound, StoreState
    <1>t. /\ local \in [Keys -> LocalRecord \cup {None}]
          /\ outbox \subseteq Operation /\ Apart(outbox)
        BY <1>i DEF StoresSound, StoreState
    <1>1. ASSUME NEW op \in ops
          PROVE  /\ op \in outbox /\ op \in Operation /\ op.key = k
                 /\ OpSound(op, Stores, n)
                 /\ op.seq \in Nat
                 /\ op.status \in {"queued", "inflight"}
        <2>1. op \in outbox /\ op \in Operation /\ op.key = k /\ OpSound(op, Stores, n)
            BY <1>i, <1>t DEF StoresSound, OpsOf
        <2>2. op.status # "blocked" /\ op.status # "failed"
            BY <1>c, <1>i, <2>1 DEF OpSound
        <2>. QED  BY <2>1, <2>2 DEF Operation
    <1>2. ops = replaceable \cup immutable
        <2>1. \A op \in ops : op.attempts \in 0..2
            BY <1>1 DEF Operation
        <2>. QED  BY <1>1, <2>1
    <1>3. \A op \in immutable : op \in ops /\ op \notin replaceable /\ op.depends = None
        BY <1>1 DEF OpSound, Waits
    <1>4. \A a, b \in immutable : a = b
        BY <1>1, <1>3, <1>t DEF Apart
    <1>5. \A head \in immutable : Newest(immutable) = head
        <2>. SUFFICES ASSUME NEW head \in immutable PROVE Newest(immutable) = head
            OBVIOUS
        <2>1. \A other \in immutable : other.seq <= head.seq
            BY <1>1, <1>3, <1>4
        <2>2. Newest(immutable) \in immutable
            BY <2>1 DEF Newest
        <2>. QED  BY <1>4, <2>2
    <1>6. ASSUME replaceable # {}
          PROVE  /\ Oldest(replaceable) \in replaceable
                 /\ \A other \in replaceable : other.seq >= Oldest(replaceable).seq
        <2>1. \A op \in replaceable : op.seq \in Nat
            BY <1>1
        <2>. DEFINE seqs == {op.seq : op \in replaceable}
        <2>2. seqs \in SUBSET Nat /\ seqs # {}
            BY <1>6, <2>1
        <2>3. PICK i \in seqs : \A j \in seqs : i <= j
            <3>. HIDE DEF seqs
            <3>. QED  BY <2>2, LeastOf
        <2>4. PICK op \in replaceable : op.seq = i
            OBVIOUS
        <2>5. \A other \in replaceable : other.seq >= op.seq
            BY <2>1, <2>3, <2>4
        <2>. HIDE DEF replaceable, seqs
        <2>. QED  BY <2>5 DEF Oldest
    <1>7. ASSUME immutable = {}, replaceable # {}
          PROVE  Oldest(replaceable).depends = None
        <2>. DEFINE o == Oldest(replaceable)
        <2>1. o \in ops /\ \A other \in ops : other.seq >= o.seq
            BY <1>2, <1>6, <1>7
        <2>. HIDE DEF o
        <2>2. ASSUME o.depends # None PROVE FALSE
            <3>1. PICK head \in outbox : /\ head.key = o.key
                                         /\ head.seq < o.seq
                BY <1>1, <1>i, <2>1, <2>2 DEF OpSound, Waits
            <3>2. head \in ops
                BY <1>1, <2>1, <3>1 DEF OpsOf
            <3>. QED  BY <1>1, <2>1, <3>1, <3>2
        <2>. QED  BY <2>2 DEF o
    <1>8. base \in Nat \cup {None}
        <2>1. Confirmed(k) \in Snapshot \cup {None}
            BY <1>t DEF Confirmed, LocalRecord
        <2>2. VersionOf(Confirmed(k)) \in Nat \cup {None}
            BY <2>1 DEF VersionOf, Snapshot, Version
        <2>3. replaceable # {} => Oldest(replaceable).base \in Nat \cup {None}
            BY <1>1, <1>6 DEF Operation
        <2>. QED  BY <2>2, <2>3 DEF Else
    <1>9. nextId \in MutationIds
        <2>1. nextId + Cardinality(Waiting(outbox, n)) <= 2 * n - 1
            BY <1>i DEF StoresSound
        <2>2. Cardinality(Waiting(outbox, n)) \in Nat
            BY <1>i, WaitingFinite
        <2>3. nextId \in 1..(2 * MaxEdits)
            BY <1>c, <1>i, <2>1, <2>2
        <2>. QED  BY <2>3, OfflineAssumption
    <1>10. \/ ops = replaceable /\ depends = None
           \/ \E head \in ops : /\ ops \ replaceable = {head}
                                /\ head.depends = None
                                /\ head.status \in {"queued", "inflight"}
                                /\ depends = head.id
        <2>1. CASE immutable = {}
            BY <1>2, <1>7, <2>1
        <2>2. CASE immutable # {}
            <3>1. PICK head \in immutable : TRUE
                BY <2>2
            <3>2. ops \ replaceable = {head}
                <4>1. immutable = {head}
                    BY <1>4, <3>1
                <4>2. head \in ops /\ head \notin replaceable
                    BY <1>3, <3>1
                <4>. HIDE DEF ops, replaceable, immutable
                <4>. QED  BY <1>2, <4>1, <4>2
            <3>3. depends = head.id
                BY <1>5, <2>2, <3>1
            <3>. QED  BY <1>1, <1>3, <3>1, <3>2, <3>3
        <2>. QED  BY <2>1, <2>2
    <1>11. depends \in MutationIds \cup {None}
        <2>1. \A op \in ops : op.id \in MutationIds
            BY <1>1 DEF Operation
        <2>. HIDE DEF ops, replaceable, depends
        <2>. QED  BY <1>10, <2>1
    <1>12. replaceable \subseteq ops /\ \A op \in replaceable : op.status = "queued"
        OBVIOUS
    <1>. HIDE DEF base, depends, ops, replaceable, immutable
    <1>13. /\ q \in Operation
           /\ q.id = nextId /\ q.key = k /\ q.seq = n
           /\ q.action = action /\ q.value = value
           /\ q.status = "queued" /\ q.attempts = 0 /\ q.depends = depends
        BY <1>8, <1>9, <1>11, <1>i DEF Operation
    <1>. HIDE DEF q
    <1>14. TakesPlace(k, action, value, replaceable, q)
        BY <1>10, <1>12, <1>13, <1>c DEF TakesPlace, ops
    <1>. QED  BY <1>14

\* An edit keeps the chain of its record, and takes an id of its own.
LEMMA QueueStep ==
    ASSUME OfflineInv, NEW k \in Keys, NEW action \in {"put", "delete"},
           NEW value \in Notes \cup {None}, Queue(k, action, value)
    PROVE  OfflineInv'
    <1>. DEFINE n == nextSeq
                ops == OpsOf(k, outbox)
                row == [confirmed  |-> Confirmed(k),
                        optimistic |-> [seq |-> n, action |-> action, value |-> value],
                        state      |-> "pending"]
    <1>c. /\ n <= MaxEdits
          /\ conflicts[k] = None
          /\ local' = [local EXCEPT ![k] = row]
          /\ nextSeq' = n + 1 /\ nextId' = nextId + 1
          /\ UNCHANGED <<serviceVars, conflicts, pullCursor, tab, wire>>
        BY DEF Queue
    <1>i. /\ StoresSound(Stores, n) /\ n \in Nat \ {0} /\ nextId \in Nat \ {0}
          /\ Stores.outbox = outbox /\ Stores.local = local
          /\ Stores.conflicts = conflicts /\ Stores.nextId = nextId
          /\ MaxEdits \in Nat
        BY OfflineAssumption DEF OfflineInv, Stores, StoresSound, StoreState
    <1>t. /\ local \in [Keys -> LocalRecord \cup {None}]
          /\ conflicts \in [Keys -> Conflict \cup {None}]
          /\ outbox \subseteq Operation /\ Apart(outbox)
        BY <1>i DEF StoresSound, StoreState
    <1>o. \A op \in outbox : /\ op.key \in Keys /\ OpSound(op, Stores, n)
                             /\ op.id \in Nat /\ op.id < nextId
                             /\ op.seq \in 1..(n - 1)
        BY <1>i, <1>t DEF StoresSound, OpSound, Operation
    <1>q. PICK gone \in SUBSET ops, q \in Operation :
             /\ \A op \in gone : op.status = "queued"
             /\ outbox' = (outbox \ gone) \cup {q}
             /\ q.id = nextId /\ q.key = k /\ q.seq = n
             /\ q.action = action /\ q.value = value
             /\ q.status = "queued" /\ q.attempts = 0
             /\ \/ ops = gone /\ q.depends = None
                \/ \E head \in ops :
                      /\ ops \ gone = {head}
                      /\ head.depends = None
                      /\ head.status \in {"queued", "inflight"}
                      /\ q.depends = head.id
        <2>1. PICK gone, q : TakesPlace(k, action, value, gone, q)
            BY QueueForm
        <2>2. gone \in SUBSET ops /\ q \in Operation
            BY <2>1 DEF TakesPlace
        <2>. QED  BY <2>1, <2>2 DEF TakesPlace
    <1>k. \A op \in outbox : op \in ops <=> op.key = k
        BY DEF OpsOf
    <1>s. ops \subseteq outbox
        BY DEF OpsOf
    <1>r. row \in LocalRecord /\ row.optimistic = As(q) /\ row.state = "pending"
        <2>1. Confirmed(k) \in Snapshot \cup {None}
            BY <1>t DEF Confirmed, LocalRecord
        <2>. QED  BY <1>i, <1>q, <2>1 DEF LocalRecord, Edit, As
    <1>n. row # None
        BY <1>r, NoRowAssumption
    <1>. HIDE DEF ops, row
    <1>. DEFINE new == [outbox |-> (outbox \ gone) \cup {q},
                        local |-> [local EXCEPT ![k] = row],
                        conflicts |-> conflicts, nextId |-> nextId + 1]
    <1>w. /\ new.outbox = (outbox \ gone) \cup {q}
          /\ new.nextId = nextId + 1 /\ new.conflicts = conflicts
          /\ new.local[k] = row
          /\ \A j \in Keys : j # k => new.local[j] = local[j]
        BY <1>t
    <1>1. new \in StoreState
        <2>1. (outbox \ gone) \cup {q} \in SUBSET Operation
            BY <1>t
        <2>2. [local EXCEPT ![k] = row] \in [Keys -> LocalRecord \cup {None}]
            BY <1>r, <1>t
        <2>. QED  BY <1>i, <1>t, <2>1, <2>2 DEF StoreState
    <1>. HIDE DEF new
    \* The operations of the record: the new one and perhaps the head.
    <1>2. ASSUME NEW op \in new.outbox
          PROVE  \/ op = q
                 \/ op \in outbox /\ op.key # k
                 \/ /\ op \in outbox /\ op.key = k
                    /\ op.depends = None /\ q.depends = op.id
                    /\ op.status \in {"queued", "inflight"}
        <2>1. CASE op \in outbox \ gone /\ op.key = k
            <3>1. op \in ops \ gone
                BY <1>k, <2>1
            <3>. QED  BY <1>q, <2>1, <3>1
        <2>. QED  BY <1>w, <2>1
    <1>3. \A op \in outbox : op.key # k => op \in new.outbox
        BY <1>k, <1>w
    <1>4. q \in new.outbox
        BY <1>w
    <1>5. ASSUME NEW op \in new.outbox PROVE OpSound(op, new, n + 1)
        <2>1. CASE op = q
            <3>1. ASSUME q.depends # None PROVE Waits(q, new.outbox)
                <4>1. PICK head \in ops :
                         /\ ops \ gone = {head}
                         /\ head.depends = None
                         /\ q.depends = head.id
                    BY <1>q, <3>1
                <4>2. head \in outbox \ gone
                    BY <1>s, <4>1
                <4>3. head \in new.outbox /\ head.key = q.key /\ head.seq < q.seq
                    BY <1>i, <1>k, <1>o, <1>q, <1>w, <4>1, <4>2
                <4>. QED  BY <1>q, <4>1, <4>3 DEF Waits
            <3>2. /\ q.id \in Nat /\ q.id < new.nextId
                  /\ q.seq \in 1..((n + 1) - 1)
                BY <1>i, <1>q, <1>w
            <3>. QED  BY <1>q, <2>1, <3>1, <3>2 DEF OpSound
        <2>2. CASE op \in outbox /\ op.key # k
            <3>1. Waits(op, outbox) => Waits(op, new.outbox)
                BY <1>3, <2>2 DEF Waits
            <3>2. /\ op.id \in Nat /\ op.id < new.nextId
                  /\ op.seq \in 1..((n + 1) - 1)
                BY <1>i, <1>o, <1>w, <2>2
            <3>3. new.local[op.key] = local[op.key] /\ new.conflicts = conflicts
                BY <1>o, <1>w, <2>2
            <3>4. OpSound(op, Stores, n)
                BY <1>o, <2>2
            <3>. QED  BY <1>i, <3>1, <3>2, <3>3, <3>4 DEF OpSound
        <2>3. CASE /\ op \in outbox /\ op.depends = None
                   /\ op.status \in {"queued", "inflight"}
            <3>1. /\ op.id \in Nat /\ op.id < new.nextId
                  /\ op.seq \in 1..((n + 1) - 1)
                BY <1>i, <1>o, <1>w, <2>3
            <3>. QED  BY <2>3, <3>1 DEF OpSound
        <2>. QED  BY <1>2, <2>1, <2>2, <2>3
    <1>6. Apart(new.outbox)
        <2>1. ASSUME NEW op \in new.outbox, op # q
              PROVE  /\ op \in outbox
                     /\ op.id # q.id /\ op.seq # q.seq
                     /\ ~(op.key = q.key /\ (op.depends = None <=> q.depends = None))
            <3>1. op \in outbox
                BY <1>2, <2>1
            <3>2. op.id # q.id /\ op.seq # q.seq
                BY <1>i, <1>o, <1>q, <3>1
            <3>3. op.id # None
                BY <1>o, <3>1, AbsentAssumption
            <3>4. op.key # k \/ (op.depends = None /\ q.depends = op.id)
                BY <1>2, <2>1
            <3>. QED  BY <1>q, <3>1, <3>2, <3>3, <3>4
        <2>. QED  BY <1>t, <2>1 DEF Apart
    <1>7. ASSUME NEW j \in Keys PROVE RowSound(j, new)
        <2>1. CASE j = k
            <3>1. new.conflicts[j] = None /\ new.local[j] = row
                BY <1>c, <1>w, <2>1
            <3>2. q \in OpsOf(j, new.outbox)
                BY <1>4, <1>q, <2>1 DEF OpsOf
            <3>3. ASSUME NEW op \in OpsOf(j, new.outbox),
                         \A other \in OpsOf(j, new.outbox) : other.seq <= op.seq
                  PROVE  op = q
                <4>1. op \in new.outbox /\ q.seq <= op.seq
                    BY <3>2, <3>3 DEF OpsOf
                <4>2. op \in outbox => op.seq \in 1..(n - 1)
                    BY <1>o
                <4>. QED  BY <1>2, <1>i, <1>q, <4>1, <4>2
            <3>4. Shown(row) = As(q)
                BY <1>n, <1>r DEF Shown
            <3>. QED  BY <1>r, <3>1, <3>2, <3>3, <3>4 DEF RowSound
        <2>2. CASE j # k
            <3>1. OpsOf(j, new.outbox) = OpsOf(j, outbox)
                BY <1>2, <1>3, <1>q, <2>2 DEF OpsOf
            <3>2. new.local[j] = local[j] /\ new.conflicts[j] = conflicts[j]
                BY <1>w, <2>2
            <3>3. RowSound(j, Stores)
                BY <1>i DEF StoresSound
            <3>. QED  BY <1>i, <3>1, <3>2, <3>3 DEF RowSound
        <2>. QED  BY <2>1, <2>2
    <1>8. new.nextId + Cardinality(Waiting(new.outbox, n + 1)) <= 2 * (n + 1) - 1
        <2>. DEFINE old == Waiting(outbox, n)
                    now == Waiting(new.outbox, n + 1)
        <2>1. now \subseteq old \cup {n}
            <3>1. ASSUME NEW i \in now, i # n PROVE i \in old
                <4>1. PICK op \in new.outbox : op.seq = i /\ op.depends # None
                    BY DEF Waiting
                <4>2. op \in outbox
                    BY <1>2, <1>q, <3>1, <4>1
                <4>. QED  BY <1>o, <4>1, <4>2 DEF Waiting
            <3>. QED  BY <3>1
        <2>2. IsFiniteSet(old) /\ Cardinality(old) \in Nat
            BY <1>i, WaitingFinite
        <2>3. Cardinality(now) \in Nat
            <3>1. n + 1 \in Nat
                BY <1>i
            <3>. QED  BY <3>1, WaitingFinite
        <2>4. nextId + Cardinality(old) <= 2 * n - 1
            BY <1>i DEF StoresSound
        <2>. HIDE DEF old, now
        <2>5. /\ IsFiniteSet(old \cup {n})
              /\ \/ Cardinality(old \cup {n}) = Cardinality(old)
                 \/ Cardinality(old \cup {n}) = Cardinality(old) + 1
            BY <2>2, FS_AddElement
        <2>6. Cardinality(now) <= Cardinality(old \cup {n})
            BY <2>1, <2>5, FS_Subset
        <2>7. Cardinality(now) <= Cardinality(old) + 1
            BY <2>2, <2>3, <2>5, <2>6
        <2>8. \A a, c, d \in Nat :
                 d <= c + 1 /\ a + c <= 2 * n - 1 => (a + 1) + d <= 2 * (n + 1) - 1
            BY <1>i
        <2>9. (nextId + 1) + Cardinality(now) <= 2 * (n + 1) - 1
            BY <1>i, <2>2, <2>3, <2>4, <2>7, <2>8
        <2>. QED  BY <1>w, <2>9 DEF now
    <1>9. StoresSound(new, n + 1)
        BY <1>1, <1>5, <1>6, <1>7, <1>8 DEF StoresSound
    <1>10. StoresSound(Stores, nextSeq)'
        <2>1. Stores' = new
            BY <1>c, <1>q DEF Stores, new
        <2>. QED  BY <1>9, <1>c, <2>1
    <1>11. \A p \in outbox' : p.id >= nextId \/ \E o \in outbox : SameEdit(o, p)
        BY <1>i, <1>q DEF SameEdit
    <1>12. /\ nextId' >= nextId
           /\ nextSeq' \in 1..(MaxEdits + 1)
           /\ pullCursor' \in Cursor \cup {None}
           /\ \A r \in wire' : \E p \in wire : r.request = p.request
           /\ tab' = [t \in Tabs |-> tab'[t]]
        BY <1>c, <1>i DEF OfflineInv
    <1>13. \A t \in Tabs : TabSound(t)'
        BY <1>c DEF OfflineInv, TabSound, serviceVars
    <1>. QED  BY <1>10, <1>11, <1>12, <1>13, <1>c, ClientStep

-----------------------------------------------------------------------------
(* The invariant.                                                          *)

LEMMA OfflineStart == OfflineInit => OfflineInv
    <1>. SUFFICES ASSUME OfflineInit PROVE OfflineInv
        OBVIOUS
    <1>1. TypeOK
        BY InitType DEF OfflineInit
    <1>2. AnswersSound /\ SentPayloadsAreFixed
        BY DEF OfflineInit, Init, AnswersSound, SentPayloadsAreFixed
    <1>3. /\ nextSeq = 1 /\ nextId = 1 /\ outbox = {} /\ wire = {} /\ outcomes = {}
          /\ nextSeq \in 1..(MaxEdits + 1)
          /\ pullCursor \in Cursor \cup {None}
        BY OfflineAssumption DEF OfflineInit, Init
    <1>4. /\ tab = [t \in Tabs |-> tab[t]]
          /\ \A t \in Tabs : TabSound(t)
        BY DEF OfflineInit, TabSound
    <1>5. PayloadsSound(Said(wire, outcomes), outbox, nextId)
        BY <1>3 DEF Said, PayloadsSound
    <1>6. StoresSound(Stores, nextSeq)
        <2>1. Stores \in StoreState
            BY DEF OfflineInit, Stores, StoreState
        <2>2. Cardinality(Waiting(Stores.outbox, nextSeq)) = 0
            <3>1. Waiting(Stores.outbox, nextSeq) = {}
                BY <1>3 DEF Waiting
            <3>. QED  BY <3>1, FS_EmptySet
        <2>3. \A k \in Keys : RowSound(k, Stores)
            BY DEF OfflineInit, Stores, RowSound, OpsOf, Shown
        <2>4. Stores.outbox = {} /\ Stores.nextId = 1
            BY <1>3 DEF Stores
        <2>5. Stores.nextId + Cardinality(Waiting(Stores.outbox, nextSeq)) <= 2 * nextSeq - 1
            BY <1>3, <2>2, <2>4
        <2>. QED  BY <2>1, <2>3, <2>4, <2>5 DEF StoresSound, Apart
    <1>. QED  BY <1>1, <1>2, <1>3, <1>4, <1>5, <1>6 DEF OfflineInv

\* One case for each action.
LEMMA OfflineStep == OfflineInv /\ [OfflineNext]_offlineVars => OfflineInv'
    <1>. SUFFICES ASSUME OfflineInv, [OfflineNext]_offlineVars PROVE OfflineInv'
        OBVIOUS
    <1>1. CASE UNCHANGED offlineVars
        <2>1. tab' = [t \in Tabs |-> tab'[t]] /\ \A t \in Tabs : TabSound(t)'
            BY <1>1 DEF OfflineInv, TabSound, offlineVars, clientVars, serviceVars
        <2>2. pullCursor' \in Cursor \cup {None}
            BY <1>1 DEF OfflineInv, offlineVars, clientVars, storeVars
        <2>. QED  BY <1>1, <2>1, <2>2, QuietStep DEF offlineVars, clientVars, storeVars
    <1>2. ASSUME NEW k \in Keys, User(k) PROVE OfflineInv'
        <2>1. ASSUME NEW v \in Drafts, Queue(k, "put", v) PROVE OfflineInv'
            BY <2>1, OfflineAssumption, QueueStep
        <2>2. CASE Queue(k, "delete", None)
            BY <2>2, QueueStep
        <2>. QED  BY <1>2, <2>1, <2>2, AcceptStep DEF User
    <1>3. ASSUME NEW t \in Tabs, Sync(t) PROVE OfflineInv'
        <2>1. CASE ClaimAny(t)
            BY <2>1, ClaimStep DEF ClaimAny
        <2>. QED  BY <1>3, <2>1, ResultsStep, FailedStep, RetryStep, AbortStep, CrashStep,
                     PullStep, ApplyChangesStep, ResetStep DEF Sync
    <1>4. ASSUME NEW r \in wire, Serve(r) PROVE OfflineInv'
        BY <1>4, ServeStep
    <1>5. ASSUME NEW m \in Mutations, OtherDevice(m) PROVE OfflineInv'
        BY <1>5, OtherStep
    <1>. QED  BY <1>1, <1>2, <1>3, <1>4, <1>5 DEF OfflineNext

\* The stores, the requests and the answers always fit together.
THEOREM OfflineAlways == OfflineSpec => []OfflineInv
    BY OfflineStart, OfflineStep, PTL DEF OfflineSpec

-----------------------------------------------------------------------------
(* What the client promises.                                               *)

\* Per record at most one operation may be sent; any other waits for an older
\* one that is there: never two unfinished requests for one record.
THEOREM OutboxIsAlwaysChain == OfflineSpec => []OutboxIsChain
    <1>1. OfflineInv => OutboxIsChain
        <2>. SUFFICES ASSUME OfflineInv PROVE OutboxIsChain
            OBVIOUS
        <2>1. Apart(outbox) /\ \A op \in outbox : OpSound(op, Stores, nextSeq)
            BY DEF OfflineInv, StoresSound, Stores
        <2>2. Stores.outbox = outbox
            BY DEF Stores
        <2>3. ASSUME NEW op \in outbox
              PROVE  /\ \A other \in outbox : op.id = other.id => op = other
                     /\ \A other \in OpsOf(op.key, outbox) :
                           op.depends = None /\ other.depends = None => op = other
            BY <2>1 DEF Apart, OpsOf
        <2>4. ASSUME NEW op \in outbox, op.depends # None
              PROVE  \E other \in OpsOf(op.key, outbox) :
                        other.id = op.depends /\ other.seq < op.seq
            BY <2>1, <2>2, <2>4 DEF OpSound, Waits, OpsOf
        <2>. QED  BY <2>3, <2>4 DEF OutboxIsChain
    <1>. QED  BY <1>1, OfflineAlways, PTL

\* The newest operation of a record is what the record shows as the user's
\* edit: neither is lost, however answers, conflicts and pulls come in between.
THEOREM EditsAreAlwaysKept == OfflineSpec => []EditsAreKept
    <1>1. OfflineInv => EditsAreKept
        <2>. SUFFICES ASSUME OfflineInv, NEW k \in Keys
                      PROVE  LET ops == OpsOf(k, outbox)
                             IN  IF ops = {}
                                 THEN Optimistic(k) = None
                                 ELSE Optimistic(k) = As(Newest(ops))
            BY DEF EditsAreKept, As
        <2>. DEFINE ops == OpsOf(k, outbox)
        <2>1. /\ RowSound(k, Stores) /\ Apart(outbox)
              /\ Stores.outbox = outbox /\ Stores.local = local
              /\ \A op \in outbox : OpSound(op, Stores, nextSeq)
            BY DEF OfflineInv, StoresSound, Stores
        <2>2. Optimistic(k) = Shown(local[k])
            BY DEF Optimistic, Shown
        <2>3. ASSUME ops # {} PROVE \E top \in ops : \A op \in ops : op.seq <= top.seq
            <3>1. \A op \in ops : op \in outbox /\ op.key = k /\ op.seq \in Nat
                BY <2>1 DEF OpsOf, OpSound
            <3>2. CASE \A op \in ops : op.depends = None
                <4>1. \A a, b \in ops : a = b
                    BY <2>1, <3>1, <3>2 DEF Apart
                <4>. QED  BY <2>3, <3>1, <4>1
            <3>3. ASSUME NEW top \in ops, top.depends # None
                  PROVE  \A op \in ops : op.seq <= top.seq
                <4>1. PICK head \in outbox : /\ head.key = k
                                             /\ head.depends = None
                                             /\ head.seq < top.seq
                    BY <2>1, <3>1, <3>3 DEF OpSound, Waits
                <4>2. ASSUME NEW op \in ops PROVE op = top \/ op = head
                    BY <2>1, <3>1, <3>3, <4>1 DEF Apart
                <4>3. head \in ops
                    BY <4>1 DEF OpsOf
                <4>. QED  BY <3>1, <4>1, <4>2, <4>3
            <3>. QED  BY <3>2, <3>3
        <2>4. ASSUME ops # {} PROVE Optimistic(k) = As(Newest(ops))
            <3>1. Newest(ops) \in ops /\ \A op \in ops : op.seq <= Newest(ops).seq
                <4>. HIDE DEF ops
                <4>. QED  BY <2>3, <2>4 DEF Newest
            <3>. QED  BY <2>1, <2>2, <3>1 DEF RowSound
        <2>5. ops = {} => Optimistic(k) = None
            BY <2>1, <2>2 DEF RowSound
        <2>. QED  BY <2>4, <2>5
    <1>. QED  BY <1>1, OfflineAlways, PTL

\* No id that has left the browser is ever sent with another content, so the
\* service has none of its requests to refuse as reused.
THEOREM SentPayloadsAreAlwaysFixed == OfflineSpec => []SentPayloadsAreFixed
    BY OfflineAlways, PTL DEF OfflineInv

\* A record in conflict has its conflict stored, and nothing of it is sent
\* until the user has chosen.
THEOREM ConflictsAlwaysBlock == OfflineSpec => []ConflictsBlock
    <1>1. OfflineInv => ConflictsBlock
        <2>1. OfflineInv => \A k \in Keys : RowSound(k, Stores)
            BY DEF OfflineInv, StoresSound
        <2>2. /\ Stores.outbox = outbox /\ Stores.local = local
              /\ Stores.conflicts = conflicts
            BY DEF Stores
        <2>. QED  BY <2>1, <2>2 DEF RowSound, ConflictsBlock
    <1>. QED  BY <1>1, OfflineAlways, PTL

-----------------------------------------------------------------------------
(* The service behind the client.                                          *)

\* The client does to the service only what any client may do: push requests.
THEOREM ClientsOnlyPush == OfflineSpec => AnySpec
    <1>1. OfflineInit => Init
        BY DEF OfflineInit
    <1>2. OfflineInv /\ [OfflineNext]_offlineVars => [AnyPush]_serviceVars
        <2>. SUFFICES ASSUME OfflineInv, [OfflineNext]_offlineVars
                      PROVE  AnyPush \/ UNCHANGED serviceVars
            OBVIOUS
        <2>1. ASSUME NEW r \in wire, Serve(r) PROVE AnyPush
            <3>1. r.request \in Said(wire, outcomes)
                BY DEF Said
            <3>2. r.request \in Mutation
                BY <3>1 DEF OfflineInv, PayloadsSound
            <3>. QED  BY <2>1, <3>2 DEF Serve, AnyPush
        <2>2. ASSUME NEW m \in Mutations, OtherDevice(m) PROVE AnyPush
            BY <2>2, MutationsAssumption DEF OtherDevice, AnyPush
        <2>3. ASSUME NEW k \in Keys, User(k) PROVE UNCHANGED serviceVars
            BY <2>3 DEF User, Queue, AcceptServer, Discard, Forget
        <2>4. ASSUME NEW t \in Tabs, Sync(t) PROVE UNCHANGED serviceVars
            BY <2>4 DEF Sync, ClaimAny, Claim, HandleResults, HandleFailure, Settled,
                        HandleRetry, Abort, Crash, Pull, ApplyChanges, ResetCursor
        <2>5. UNCHANGED offlineVars => UNCHANGED serviceVars
            BY DEF offlineVars
        <2>. QED  BY <2>1, <2>2, <2>3, <2>4, <2>5 DEF OfflineNext
    <1>. QED  BY <1>1, <1>2, OfflineAlways, PTL DEF OfflineSpec, AnySpec

\* So the service keeps its promises to an offline client with any number of
\* tabs, crashes, lost answers and repeated requests.
THEOREM ServiceKeepsPromises ==
    OfflineSpec => /\ [](LogIsDense /\ VersionsFollowCursor /\ RecordIsLastChange)
                   /\ []AppliedExactlyOnce
                   /\ []AnswersAgree
                   /\ HistoryIsKept
    <1>1. LogInv => LogIsDense /\ VersionsFollowCursor /\ RecordIsLastChange
        BY DEF LogInv
    <1>. QED  BY <1>1, ClientsOnlyPush, LogAlways, AnyExactlyOnce, AnyAnswersAgree,
                 AnyHistoryIsKept, PTL
=============================================================================
