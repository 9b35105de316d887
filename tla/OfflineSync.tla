----------------------------- MODULE OfflineSync -----------------------------
(***************************************************************************)
(* The offline-first browser client (client/src/sync/store.ts and          *)
(* engine.ts) against the service.  One browser profile, client id Me,     *)
(* has several tabs over one IndexedDB; every operation on the database    *)
(* is one transaction and so one step.  A tab that syncs claims due        *)
(* operations under a lease, sends them, and handles the answer; then it   *)
(* pulls.  Other devices of the account act on the service directly        *)
(* (SyncService!Push of the constant Mutations).                           *)
(*                                                                         *)
(* Time is left out: a lease may expire and a backoff may end whenever     *)
(* claimDueMutations runs.  Requests may be lost, delayed past the abort   *)
(* or death of the tab that sent them, and answered more than once.        *)
(***************************************************************************)
EXTENDS SyncService

CONSTANTS
    Me,        \* the clientId of this browser profile
    Tabs,      \* the tabs, each a lease owner
    WebLocks,  \* TRUE if the browser has navigator.locks
    Aborts,    \* TRUE if the page may close its client during a sync
    Drafts,    \* the notes the user types
    MaxEdits   \* bound: edits made by the user

ASSUME OfflineAssumption ==
    /\ Me \in Clients
    /\ \A m \in Mutations : m.client # Me
    /\ WebLocks \in BOOLEAN
    /\ Aborts \in BOOLEAN
    /\ Drafts \subseteq Notes
    /\ MaxEdits \in Nat
    /\ 1..(2 * MaxEdits) \subseteq MutationIds  \* an edit has at most two ids

VARIABLES
    outbox,     \* the operations of the outbox store
    local,      \* [Keys -> a row of the records store, or None]
    conflicts,  \* [Keys -> a row of the conflicts store, or None]
    pullCursor, \* accountState.pullCursor
    nextSeq,    \* meta.nextLocalSeq
    nextId,     \* the next random id
    tab,        \* [Tabs -> what the tab is waiting for]
    wire        \* requests under way: [to: who waits for it, request]

storeVars == <<outbox, local, conflicts, pullCursor, nextSeq, nextId>>
clientVars == <<storeVars, tab, wire>>
offlineVars == <<serviceVars, clientVars>>

\* A lease whose owner is gone: the next instance of a tab has a new id.
Nobody == "gone"

\* Of attempts only "none", "one" and "more" are ever told apart.
Operation ==
    [id : MutationIds, key : Keys, action : {"put", "delete"},
     value : Notes \cup {None}, base : Nat \cup {None}, seq : Nat,
     status : {"queued", "inflight", "blocked", "failed"},
     depends : MutationIds \cup {None}, attempts : 0..2,
     lease : Tabs \cup {Nobody, None}]

Edit == [seq : Nat, action : {"put", "delete"}, value : Notes \cup {None}]

LocalRecord ==
    [confirmed : Snapshot \cup {None}, optimistic : Edit \cup {None},
     state : {"synced", "pending", "conflict", "failed"}]

Conflict == [id : MutationIds, server : Snapshot \cup {None}]

ASSUME NoRowAssumption ==
    /\ None \notin Edit
    /\ None \notin LocalRecord
    /\ None \notin Conflict

OfflineTypeOK ==
    /\ TypeOK
    /\ outbox \subseteq Operation
    /\ local \in [Keys -> LocalRecord \cup {None}]
    /\ conflicts \in [Keys -> Conflict \cup {None}]
    /\ pullCursor \in Cursor \cup {None}
    /\ \A t \in Tabs : tab[t].pc \in {"idle", "pushing", "pulling"}
    /\ wire \subseteq [to : Tabs \cup {Nobody}, request : Mutation]

OfflineInit ==
    /\ Init
    /\ outbox = {}
    /\ local = [k \in Keys |-> None]
    /\ conflicts = [k \in Keys |-> None]
    /\ pullCursor = None
    /\ nextSeq = 1
    /\ nextId = 1
    /\ tab = [t \in Tabs |-> [pc |-> "idle"]]
    /\ wire = {}

-----------------------------------------------------------------------------
(* Helpers.                                                                *)

OpsOf(k, ops) == {op \in ops : op.key = k}
Newest(ops) == CHOOSE op \in ops : \A other \in ops : other.seq <= op.seq
Oldest(ops) == CHOOSE op \in ops : \A other \in ops : other.seq >= op.seq

\* The first argument that is not absent (the ?? operator).
Else(a, b) == IF a # None THEN a ELSE b

Confirmed(k) == IF local[k] = None THEN None ELSE local[k].confirmed
Optimistic(k) == IF local[k] = None THEN None ELSE local[k].optimistic
VersionOf(snapshot) == IF snapshot = None THEN None ELSE snapshot.version

\* Mutant of Request: the base version is looked up when sending.
RequestRebased(op) ==
    [client |-> Me, id |-> op.id, key |-> op.key, action |-> op.action,
     base |-> VersionOf(Confirmed(op.key)), value |-> op.value]

\* What mutationRequest sends of an operation.
Request(op) ==
    [client |-> Me, id |-> op.id, key |-> op.key, action |-> op.action,
     base |-> op.base, value |-> op.value]

\* Mutant of Leased: the lease is not compared.
LeasedById(t) ==
    {op \in outbox : \E claimed \in tab[t].ops : claimed.id = op.id}

\* The operations of a claim that the tab still leases.
Leased(t) ==
    {op \in outbox : /\ op.status = "inflight"
                     /\ op.lease = t
                     /\ \E claimed \in tab[t].ops : claimed.id = op.id}

\* What the service may still process although nobody waits for it.
Unawaited(t) ==
    {IF r.to = t THEN [r EXCEPT !.to = Nobody] ELSE r : r \in wire}

\* The outbox after the operations of ops became those of the function new.
Replace(ops, new) == (outbox \ ops) \cup {new[op] : op \in ops}

MayStart(t) ==
    /\ tab[t].pc = "idle"
    /\ WebLocks => \A u \in Tabs : tab[u].pc = "idle"

Wait(t, state) == tab' = [tab EXCEPT ![t] = state]
Finish(t) == Wait(t, [pc |-> "idle"])

-----------------------------------------------------------------------------
(* The user.                                                               *)

\* queueMutation.
Queue(k, action, value) ==
    LET ops == OpsOf(k, outbox)
        replaceable == {op \in ops : op.status = "queued" /\ op.attempts = 0}
        immutable == {op \in ops : op.status = "inflight" \/ op.attempts > 0}
        base == Else(IF replaceable = {} THEN None ELSE Oldest(replaceable).base,
                     VersionOf(Confirmed(k)))
        depends == IF immutable # {} THEN Newest(immutable).id
                   ELSE IF replaceable # {} THEN Oldest(replaceable).depends
                   ELSE None
    IN  /\ nextSeq <= MaxEdits
        /\ conflicts[k] = None
        /\ local[k] # None => local[k].state # "failed"
        /\ outbox' = (outbox \ replaceable) \cup
              {[id |-> nextId, key |-> k, action |-> action, value |-> value,
                base |-> base, seq |-> nextSeq, status |-> "queued",
                depends |-> depends, attempts |-> 0, lease |-> None]}
        /\ local' = [local EXCEPT ![k] =
              [confirmed  |-> Confirmed(k),
               optimistic |-> [seq |-> nextSeq, action |-> action, value |-> value],
               state      |-> "pending"]]
        /\ nextSeq' = nextSeq + 1
        /\ nextId' = nextId + 1
        /\ UNCHANGED <<serviceVars, conflicts, pullCursor, tab, wire>>

\* Only a note that is listed has a delete button.
Listed(k) ==
    /\ local[k] # None
    /\ local[k].state # "conflict"
    /\ IF local[k].optimistic # None
       THEN local[k].optimistic.action = "put"
       ELSE local[k].confirmed # None /\ ~local[k].confirmed.deleted

Forget(k) ==
    /\ outbox' = outbox \ OpsOf(k, outbox)
    /\ conflicts' = [conflicts EXCEPT ![k] = None]
    /\ UNCHANGED <<serviceVars, pullCursor, nextSeq, nextId, tab, wire>>

\* acceptServerVersion, offered for each conflict.
AcceptServer(k) ==
    /\ conflicts[k] # None
    /\ Forget(k)
    /\ local' = IF local[k] = None THEN local
                ELSE [local EXCEPT ![k].optimistic = None, ![k].state = "synced"]

\* discardLocalVersion, offered for each failed note that is listed.
Discard(k) ==
    /\ Listed(k)
    /\ local[k].state = "failed"
    /\ Forget(k)
    /\ local' = [local EXCEPT ![k] =
          IF @.confirmed = None \/ @.confirmed.deleted THEN None
          ELSE [@ EXCEPT !.optimistic = None, !.state = "synced"]]

User(k) ==
    \/ \E n \in Drafts : Queue(k, "put", n)
    \/ Listed(k) /\ local[k].state # "failed" /\ Queue(k, "delete", None)
    \/ AcceptServer(k)
    \/ Discard(k)

-----------------------------------------------------------------------------
(* Pushing.                                                                *)

\* Mutant of Reclaimable: only the tab's own leases expire.
ReclaimableOwn(t, op) == op.status = "inflight" /\ op.lease = t

\* An operation whose lease, if it has expired, anyone may take over.
Reclaimable(t, op) == op.status = "inflight"

\* claimDueMutations and the request that follows it. Any lease may have
\* expired by now, and any backoff may not have ended yet. Operations that
\* selectPushBatch hands back at once count as not claimed.
Claim(t, expired, due) ==
    LET requeue(op) == [op EXCEPT !.status = "queued", !.lease = None]
        take(op) == [op EXCEPT !.status = "inflight", !.lease = t,
                        !.attempts = IF @ = 2 THEN 2 ELSE @ + 1]
        stale == {op \in outbox : Reclaimable(t, op) /\ op.id \in expired}
        freed == Replace(stale, [op \in stale |-> requeue(op)])
        taken == {op \in freed : op.id \in due}
    IN  /\ MayStart(t)
        /\ due # {}
        /\ \A i \in expired : \E op \in stale : op.id = i
        /\ \A i \in due : \E op \in taken :
              op.id = i /\ op.status = "queued" /\ op.depends = None
        /\ outbox' = (freed \ taken) \cup {take(op) : op \in taken}
        /\ Wait(t, [pc |-> "pushing", ops |-> {take(op) : op \in taken}])
        /\ wire' = wire \cup {[to |-> t, request |-> Request(op)] : op \in taken}
        /\ UNCHANGED <<serviceVars, local, conflicts, pullCursor, nextSeq, nextId>>

ClaimAny(t) ==
    LET ids == {op.id : op \in outbox}
    IN  \E expired, due \in SUBSET ids : Claim(t, expired, due)

\* The service processes a request that was sent, at most once per
\* sending; a lost request is one that is never processed.
Serve(r) ==
    /\ Push(r.request)
    /\ wire' = wire \ {r}
    /\ UNCHANGED <<storeVars, tab>>

\* The state of the stores that the handling of one result changes.
Stores == [outbox |-> outbox, local |-> local, conflicts |-> conflicts, nextId |-> nextId]

\* Mutant of Requeued: the successor still waits for what it depended on.
RequeuedWaiting(o, id, version) ==
    [o EXCEPT !.id = id, !.base = version,
              !.status = "queued", !.attempts = 0, !.lease = None]

\* A successor goes back to the queue as a new request.
Requeued(o, id, version) ==
    [o EXCEPT !.id = id, !.base = version, !.depends = None,
              !.status = "queued", !.attempts = 0, !.lease = None]

\* Mutant of EditedSince: the answer always ends the optimistic edit.
EditedSinceNever(op, row) == FALSE

EditedSince(op, row) ==
    row # None /\ row.optimistic # None /\ row.optimistic.seq > op.seq

\* The applied branch of applyMutationResults: the successors are requeued
\* under new ids on top of the answered version, and the confirmed shadow
\* becomes the answer.
OnApplied(op, record, s) ==
    LET successors == {o \in s.outbox : o.key = op.key /\ o.depends = op.id}
        rest == {o \in s.outbox : o.id # op.id} \ successors
        newId(o) == s.nextId + Cardinality({p \in successors : p.seq < o.seq})
        newer == EditedSince(op, s.local[op.key])
    IN  [outbox    |-> rest \cup {Requeued(o, newId(o), record.version) : o \in successors},
         local     |-> [s.local EXCEPT ![op.key] =
                          [confirmed  |-> record,
                           optimistic |-> IF newer THEN @.optimistic ELSE None,
                           state      |-> IF newer THEN "pending" ELSE "synced"]],
         conflicts |-> [s.conflicts EXCEPT ![op.key] = None],
         nextId    |-> s.nextId + Cardinality(successors)]

Block(o, op) ==
    IF o.id = op.id THEN [o EXCEPT !.status = "blocked", !.lease = None]
    ELSE IF o.key = op.key /\ o.depends = op.id THEN [o EXCEPT !.status = "blocked"]
    ELSE o

\* The conflict and gone branch: keep both versions for the user, and block
\* the operation and those that depend on it.
OnConflict(op, record, s) ==
    LET old == s.local[op.key]
        kept == Else(IF old = None THEN None ELSE old.optimistic,
                     [seq |-> op.seq, action |-> op.action, value |-> op.value])
        server == Else(record, IF old = None THEN None ELSE old.confirmed)
    IN  [s EXCEPT !.outbox = {Block(o, op) : o \in @},
                  !.local[op.key] = [confirmed |-> server, optimistic |-> kept,
                                     state |-> "conflict"],
                  !.conflicts[op.key] = [id |-> op.id, server |-> server]]

\* Anything else (invalid, reused id), and permanent HTTP errors.
OnFailure(op, s) ==
    [s EXCEPT !.outbox = {IF o.id = op.id
                          THEN [o EXCEPT !.status = "failed", !.lease = None]
                          ELSE o : o \in @},
              !.local[op.key] = IF @ = None THEN None ELSE [@ EXCEPT !.state = "failed"]]

OnResult(op, result, s) ==
    IF result.status = "applied" THEN OnApplied(op, result.record, s)
    ELSE IF result.status \in {"conflict", "gone"} THEN OnConflict(op, result.record, s)
    ELSE OnFailure(op, s)

\* The turn of edit n in the loop over ops.
Turn(n, ops, results, s) ==
    LET due == {op \in ops : op.seq = n}
        op == CHOOSE o \in due : TRUE
    IN  IF due = {} THEN s ELSE OnResult(op, results[op], s)

\* What becomes of the stores when the results of ops are handled in order.
Handled(ops, results) ==
    LET after[n \in 0..(nextSeq - 1)] ==
            IF n = 0 THEN Stores ELSE Turn(n, ops, results, after[n - 1])
    IN  after[nextSeq - 1]

\* The operations that tab t leases are settled.
Settled(t, results) ==
    LET s == Handled(Leased(t), results)
    IN  /\ outbox' = s.outbox
        /\ local' = s.local
        /\ conflicts' = s.conflicts
        /\ nextId' = s.nextId
        /\ Finish(t)
        /\ UNCHANGED <<serviceVars, pullCursor, nextSeq>>

\* The answer of the service reaches the tab: applyMutationResults, which
\* skips what the tab no longer leases.
HandleResults(t) ==
    LET answer(op) ==
            CHOOSE o \in outcomes : o.request.client = Me /\ o.request.id = op.id
    IN  /\ tab[t].pc = "pushing"
        /\ \A r \in wire : r.to # t
        /\ Settled(t, [op \in Leased(t) |-> answer(op).result])
        /\ UNCHANGED wire

\* The body is refused as a whole, before any operation in it is looked at:
\* failMutations.
HandleFailure(t) ==
    /\ tab[t].pc = "pushing"
    /\ \A op \in tab[t].ops : [to |-> t, request |-> Request(op)] \in wire
    /\ wire' = {r \in wire : r.to # t}
    /\ Settled(t, [op \in Leased(t) |-> Invalid])

\* A network error or a retryable status: retryMutations.
HandleRetry(t) ==
    /\ tab[t].pc = "pushing"
    /\ outbox' = Replace(Leased(t),
          [op \in Leased(t) |-> [op EXCEPT !.status = "queued", !.lease = None]])
    /\ Finish(t)
    /\ wire' = Unawaited(t)
    /\ UNCHANGED <<serviceVars, local, conflicts, pullCursor, nextSeq, nextId>>

\* The client of the tab is closed and its sync aborted: releaseMutations
\* takes the attempt back. A pull that is under way is dropped.
Abort(t) ==
    /\ Aborts
    /\ tab[t].pc # "idle"
    /\ outbox' = IF tab[t].pc = "pulling" THEN outbox
                 ELSE Replace(Leased(t),
                        [op \in Leased(t) |->
                            [op EXCEPT !.status = "queued", !.lease = None,
                                       !.attempts = IF @ = 0 THEN 0 ELSE @ - 1]])
    /\ Finish(t)
    /\ wire' = Unawaited(t)
    /\ UNCHANGED <<serviceVars, local, conflicts, pullCursor, nextSeq, nextId>>

\* The tab dies; its leases stay behind.
Crash(t) ==
    /\ tab[t].pc # "idle"
    /\ LET held == {op \in outbox : op.lease = t}
       IN  outbox' = Replace(held, [op \in held |-> [op EXCEPT !.lease = Nobody]])
    /\ Finish(t)
    /\ wire' = Unawaited(t)
    /\ UNCHANGED <<serviceVars, local, conflicts, pullCursor, nextSeq, nextId>>

-----------------------------------------------------------------------------
(* Pulling.                                                                *)

\* pullOnce reads the saved cursor and the service answers.
Pull(t) ==
    LET high == HighWater(pullCursor, clock)
    IN  /\ MayStart(t)
        /\ \E last \in PageEnds(pullCursor, high, changes) :
              Wait(t, [pc |-> "pulling",
                       page |-> PageUpTo(pullCursor, high, changes, last)])
        /\ UNCHANGED <<serviceVars, storeVars, wire>>

\* applyChanges for one row.
OnChange(incoming, rows) ==
    LET k == incoming.key
        old == rows[k]
        edit == IF old = None THEN None ELSE old.optimistic
    IN  IF old # None /\ old.confirmed # None /\ incoming.version <= old.confirmed.version
        THEN rows
        ELSE [rows EXCEPT ![k] =
                [confirmed  |-> incoming,
                 optimistic |-> edit,
                 state      |-> IF old # None /\ old.state \in {"conflict", "failed"}
                                THEN old.state
                                ELSE IF edit = None THEN "synced" ELSE "pending"]]

\* The turn of log position n in the loop over a page.
RowTurn(n, page, rows) ==
    LET due == {row \in page.rows : row.cursor = n}
        row == CHOOSE r \in due : TRUE
    IN  IF due = {} THEN rows ELSE OnChange(row.snapshot, rows)

\* The records after the rows of a page, in the order of the log.
Merged(page) ==
    LET merged[n \in 0..page.next.position] ==
            IF n = 0 THEN local ELSE RowTurn(n, page, merged[n - 1])
    IN  merged[page.next.position]

ApplyChanges(t) ==
    /\ tab[t].pc = "pulling"
    /\ local' = Merged(tab[t].page)
    /\ conflicts' = [k \in Keys |->
          IF conflicts[k] # None /\ local'[k] # local[k]
          THEN [conflicts[k] EXCEPT !.server = local'[k].confirmed]
          ELSE conflicts[k]]
    /\ pullCursor' = tab[t].page.next
    /\ Finish(t)
    /\ UNCHANGED <<serviceVars, outbox, nextSeq, nextId, wire>>

\* The service refuses the saved cursor: resetPullCursor.
ResetCursor(t) ==
    /\ MayStart(t)
    /\ pullCursor # None
    /\ pullCursor' = None
    /\ UNCHANGED <<serviceVars, outbox, local, conflicts, nextSeq, nextId, tab, wire>>

-----------------------------------------------------------------------------

OtherDevice(m) == Push(m) /\ UNCHANGED clientVars

Sync(t) ==
    \/ ClaimAny(t)
    \/ HandleResults(t)
    \/ HandleFailure(t)
    \/ HandleRetry(t)
    \/ Abort(t)
    \/ Crash(t)
    \/ Pull(t)
    \/ ApplyChanges(t)
    \/ ResetCursor(t)

OfflineNext ==
    \/ \E k \in Keys : User(k)
    \/ \E t \in Tabs : Sync(t)
    \/ \E r \in wire : Serve(r)
    \/ \E m \in Mutations : OtherDevice(m)

OfflineSpec == OfflineInit /\ [][OfflineNext]_offlineVars

\* The engine starts a pass at every wake, edit, poll and hint; a pass pushes
\* before it pulls; of the requests that are sent some are processed while
\* the tab still waits, and of the answers to those some get through.
Answering(t) ==
    \E r \in wire : r.to = t /\ Serve(r)

FairOfflineSpec ==
    /\ OfflineSpec
    /\ SF_offlineVars(\E t \in Tabs : Answering(t))
    /\ SF_offlineVars(\E t \in Tabs : ClaimAny(t))
    /\ \A t \in Tabs : SF_offlineVars(HandleResults(t)) /\ WF_offlineVars(ApplyChanges(t))

-----------------------------------------------------------------------------
(* What the client promises.                                               *)

\* Per record the outbox is a chain: at most one operation may be sent, any
\* other waits for an older one that is still there.
OutboxIsChain ==
    \A op \in outbox :
        /\ \A other \in outbox : op.id = other.id => op = other
        /\ \A other \in OpsOf(op.key, outbox) :
              op.depends = None /\ other.depends = None => op = other
        /\ op.depends # None =>
              \E other \in OpsOf(op.key, outbox) :
                  other.id = op.depends /\ other.seq < op.seq

\* No edit is lost: what the user sees as his own change is the newest
\* operation queued for the record, and a queued operation is shown.
EditsAreKept ==
    \A k \in Keys :
        LET ops == OpsOf(k, outbox)
        IN  IF ops = {}
            THEN Optimistic(k) = None
            ELSE Optimistic(k) = [seq    |-> Newest(ops).seq,
                                  action |-> Newest(ops).action,
                                  value  |-> Newest(ops).value]

\* A mutation id keeps its content once sent, whatever is coalesced,
\* released or requeued around it, so the service never refuses one
\* (store.test.ts: "never changes the semantic payload associated with an
\* inflight mutation id").
SentPayloadsAreFixed ==
    \A o \in outcomes : o.request.client = Me => o.result # Reused

\* A record is in conflict exactly while a conflict is stored for it, and
\* then nothing of it is sent.
ConflictsBlock ==
    \A k \in Keys :
        /\ conflicts[k] # None <=> (local[k] # None /\ local[k].state = "conflict")
        /\ conflicts[k] # None =>
              /\ conflicts[k].server = local[k].confirmed
              /\ \A op \in OpsOf(k, outbox) : op.status = "blocked"
              /\ \E op \in OpsOf(k, outbox) : op.id = conflicts[k].id

\* Every edit is eventually applied, replaced by a newer one or brought to
\* the user's attention, however many answers are lost and tabs die.
EditsSettle ==
    \A n \in 1..MaxEdits :
        LET Outstanding == \E op \in outbox :
                /\ op.seq = n
                /\ op.status \in {"queued", "inflight"}
                /\ local[op.key].state # "failed"
        IN  Outstanding ~> ~Outstanding

-----------------------------------------------------------------------------
(* What the documents say and the code does not do.                        *)

\* client/README.md: "durable state always comes from GET
\* /api/v1/sync/changes". So a device that has pulled everything and waits
\* for nothing should hold the server's records.
SettledShowsServer ==
    \A k \in Keys :
        (/\ Position(pullCursor) = clock
         /\ \A t \in Tabs : tab[t].pc = "idle"
         /\ OpsOf(k, outbox) = {})
        => Confirmed(k) = Snap(k, records[k])
=============================================================================
