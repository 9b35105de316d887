# Formal models of canonical-web-server.rs

TLA+ models of the parts of this server and its browser client whose
correctness depends on interleavings, failures and retries; TLC configurations
that check them on small instances; and proofs, checked by TLAPS, that the safety
properties hold for any number of clients, tabs, records, sessions and requests.
Paths below are relative to the root of the repository.

1. [The system](#1-the-system): inventory
2. [The modules](#2-the-modules): what each models, and how it corresponds to the code
3. [The runs](#3-the-runs): what is checked, bounds, fairness
4. [The proofs](#4-the-proofs)
5. [Where code and documents disagree](#5-where-code-and-documents-disagree)
6. [What is not modelled](#6-what-is-not-modelled)
7. [The plan](#7-the-plan)

To check everything: `tlc -config X.cfg M` for each pair in section 3, and
`tlapm M.tla` for each of the eight modules `...Proofs`.

## 1. The system

An axum server, run in several replicas over one PostgreSQL database, serves
server-rendered pages (htmx), a JSON sync API, and one WebSocket per page. The
browser client keeps an offline store of notes in IndexedDB and syncs it, and a
queue of quote requests, which the server hands to an external quote service.
Authentication is delegated to an external service; a separate process, the
session revoker, carries logouts to it. Replicas share the database and its
NOTIFY channel and nothing else.

| Component | State | Operations | Interacts with |
|---|---|---|---|
| **Sync service** `src/sync/{protocol,service}.rs` | rows `sync_clock`, `sync_record`, `sync_change`, `sync_receipt`, per account | `push_mutations` (one transaction per mutation: lock the clock row, look up the receipt, validate, compare versions, write record, change, receipt, NOTIFY, commit), `pull_changes` (one page up to a high-water mark) | hub (hint after commit), clients (HTTP) |
| **Offline store** `client/src/sync/store.ts` | IndexedDB: `outbox`, `records` (confirmed and optimistic), `conflicts`, `accountState` (cursor), `meta` | queue, accept server's version, discard; claim under a lease, apply results, retry, fail, release; apply changes, reset cursor; clear | tabs share it; the engine drives it |
| **Sync engine** `client/src/sync/engine.ts`, `transport.ts`, `main.ts` | per tab: `runningSync`, `pendingSync`, `syncGeneration`, leader lock | wake on edit, poll, frame, message, "online"; drain loop; push then pull; logout across tabs | store, Web Locks, BroadcastChannel, service |
| **Web sessions** `crates/canonical-session`, `services/canonical-session-revoker` | a row of `web_session`: encrypted token pair, refresh lease, revocation state, attempts | authenticate (refreshing under a lease), logout, reconcile, claim/confirm/abandon/defer a revocation, prune | upstream authentication service (HTTP) |
| **Invalidation hub and sockets** `src/ws/mod.rs`, `src/routes/websocket.rs`, `client/src/main.ts` | broadcast channel, `ConnectionCounts`, per socket: receiver position, `PongTracker` | invalidate, relay from NOTIFY, upgrade under a permit, forward or resync, heartbeat with revalidation, pong deadline | sync service, sessions, engine |
| **Refresh coordinator** `crates/canonical-session/src/lib.rs:67-110` | weak map of per-session locks | `lock_for`, `prune` | sessions; lets one request of a replica refresh, the others wait |
| **Login and its budgets** `src/routes/auth.rs`, `src/auth/rate_limit.rs` | windows per account and one global; semaphores for logins and bearer tokens (`src/app.rs`, `src/auth/extractor.rs`) | `login`, `check`, `authenticate` | authentication service, sessions |
| **Quote requests in the browser** `client/src/quote-optimistic.ts`, `quote-delivery-scheduler.ts` | queue in IndexedDB (external library `@opto-sync/client`), `active`, schedule (idle or flushing, flush requested) | enqueue and post (`htmx:confirm`), `htmx:afterRequest`, wake, flush, deliver | quote routes; tabs share the queue |
| **Quote API and routes** `src/quote_api.rs`, `src/routes/quote.rs` | none | create, get, list at the external quote service | quote service |
| **Shared authentication, request extraction** `src/auth/{shared_auth,extractor,edge}.rs`, `crates/canonical-auth` | none beyond caches of keys | per-request decisions | sessions |
| **Store, migrations, row-level security** `crates/canonical-store`, `deploy/postgres` | schema, policies, foreign keys; settings of a connection | verify the login role, bind a transaction to a customer or to the revoker's task | every table |
| **Engagement pages** `src/routes/pages.rs` | rows `audit_engagement`, `engagement_note` | list, create, show, set status, add note | store, sessions |
| **Training, views, readiness, metrics, configuration, packaging** | none that others rely on | render, probe, count, start | |

What is hard, and what makes each component correct:

* **Sync service.** Requests of one account run concurrently on several
  replicas, are retried after lost answers while the first sending is still
  under way, and fail in the middle of a batch. Every mutation must take effect
  once, a retry must get the same answer, cursors must be dense and in commit
  order (else a reader at position *p* could miss a row committed later below
  *p*), a tombstone must stand, a hint must not overtake its commit.
* **Pull.** A window is read in pages while the log grows; pages get lost, the
  service may refuse a saved cursor. A device must miss nothing and must not
  believe itself caught up early.
* **Offline store.** The user goes on editing while a mutation is in flight;
  answers are late, repeated or lost; tabs die holding leases; syncs are
  aborted. No edit may be lost, an id may never be sent with other content, a
  conflict must stop what was built on it and keep both versions.
* **Engine.** Wakes arrive at any point of the drain loop and in any tab. No
  wake may be lost, logout must end and leave nothing in the shared stores.
* **Sessions.** Refresh tokens are single-use, and the upstream call runs
  outside any transaction, between a lease and a fenced write. Late answers
  must not undo a logout or bring spent tokens back; every logout must in the
  end be settled, in one way only, although workers die anywhere.
* **Refresh coordinator.** Locks are kept by weak references and forgotten when
  nobody has them; leaders and waiting requests are cancelled anywhere. One
  request of a replica at a time may refresh, and none may wait for ever.
* **Login.** An attempt reads the time before it waits for the limiter's lock;
  the map of accounts is bounded; clients leave while permits are held. The
  authentication service must be spared, a blocked account stay blocked whatever
  else is tried, and `Retry-After` be true.
* **Store and pages.** Connections of a pool serve one customer after the
  other, transactions are dropped anywhere, an account may be deleted between
  two statements. Nobody may see another's rows, and rows that belong together
  must come and go together.
* **Hub and sockets.** A bounded channel drops what slow readers have not read;
  the same change arrives from the handler and from NOTIFY; connections die
  silently. No hint may be swallowed without a resync, permits must match
  sockets, a dead or revoked socket must go.
* **Quotes.** A saved quote is posted by the form and by flushes, of any tab,
  under one idempotency key; answers get lost, sessions end, pages are left. What
  is shown as delivered must be at the service, no wake may be swallowed by a
  running flush, and no saved quote may stay pending for ever.

## 2. The modules

| Module | Models | Lines in the code |
|---|---|---|
| `SyncProtocol` | vocabulary and pure decisions: `Valid`, `Applies`, `After`, `Answer`, `HighWater`, `Window`, `PageEnds`, `PageUpTo` | `protocol.rs`, decisions of `service.rs` |
| `SyncService` | the promise of `push_mutations`: a mutation is handled in one step | `service.rs`, the `sync_*` entities |
| `SyncFeed` | the service and devices that page through its log | `pull_changes`; `pullOnce`, `applyChanges`, `resetPullCursor` |
| `SyncTxn` | the same handlers statement by statement, with failures; implements `SyncFeed` | `service.rs` |
| `OfflineSync` | the offline store under several tabs, against `SyncService` | `store.ts`, the pass of `engine.ts` |
| `SyncEngine` | the scheduling of passes, and logout, in several tabs | `engine.ts`, `main.ts` |
| `WebSession` | one session row, its refreshes with the coordinators of the replicas, logouts and revokers | `canonical-session`, `routes/auth.rs`, the revoker |
| `SessionLife` | what a session is to its user, to upstream and to support; abstract, implemented by `WebSession` | |
| `PasswordLogin` | password logins under the rate limit and the semaphores | `rate_limit.rs`, `routes/auth.rs`, `auth/extractor.rs` |
| `Tenancy` | whose rows a transaction sees and leaves; engagement pages, creation of a session | `canonical-store`, `routes/pages.rs`, `canonical-session` |
| `Invalidations` | hub, NOTIFY relay, sockets and the page, from one replica | `ws/mod.rs`, `routes/websocket.rs`, `main.ts` |
| `QuoteDelivery` | quote requests from the form to the quote service, in several tabs | `quote-optimistic.ts`, `quote-delivery-scheduler.ts`, `routes/quote.rs`, `quote_api.rs`, `auth/extractor.rs` |
| `QuoteBook` | saved requests, created quotes, and what the user is told; abstract, implemented by `QuoteDelivery` | |
| `MC...` | constants for TLC | |
| `...Proofs` | theorems about the module of that name; those about `SyncFeed` are in `SyncTxnProofs`, those about `Invalidations` in `WebSessionProofs` | |

```
SyncProtocol --> SyncService --> SyncFeed --> SyncTxn      (implements SyncFeed)
                      |    \                     |
                      |     OfflineSync          |          (pushes to SyncService)
                      |          |               |
        SyncServiceProofs --> OfflineSyncProofs  |
                      \---------------> SyncTxnProofs

SessionLife --> WebSession        (implements SessionLife)
QuoteBook --> QuoteDelivery       (implements QuoteBook)

WebSession, Invalidations --> WebSessionProofs      Tenancy --> TenancyProofs
PasswordLogin --> PasswordLoginProofs               SyncEngine --> SyncEngineProofs
QuoteDelivery --> QuoteDeliveryProofs
```

**One account.** Every table of the service is keyed by owner first and every
transaction is bound to one owner, so the sync modules model one account. Note
bodies are members of a small set, some of them oversized; a request hash is the
request itself; versions and cursors (`i64`) are naturals that grow by one.

**SyncService.** Variables are the four tables. `outcomes` is history: every
answer that was decided. The disjuncts of `Push` are the five ways through
`apply_mutation`: `Replay` (a receipt with the same hash), `RefuseReuse` (with
another), `RefuseInvalid`, `Refuse` (conflict or gone) and `Apply`.

**SyncTxn.** A handler of `push_mutations` goes through `begin`, `locked`,
`admitted`, `commit`, `committed`, `reply`: one step per statement that other
transactions can see. `LockClock` is `SELECT ... FOR UPDATE` and waits. The
staged writes become visible together in `Commit`, together with the NOTIFY;
`Continue` hints the hub afterwards. `Fail` may happen anywhere; it rolls back
and gives up the batch. `pull_changes` reads the clock (`PullClock`) and the
rows (`PullRows`) in two statements under READ COMMITTED. `ImplementsFeed`
says that with the refinement mapping `page <- InFlight` (a page counts as in
flight from the first statement on) all this behaves like `SyncFeed`, hence
like the atomic service. This is why `OfflineSync` may use the atomic one.

**OfflineSync.** Each IndexedDB transaction is a step: `Queue` (`queueMutation`
with its coalescing and its early returns), `AcceptServer`, `Discard`, `Claim`
(`claimDueMutations`, and the request leaves), `HandleResults`
(`applyMutationResults`: the results in order of their operations, each on the
stores the one before left, `Turn`), `HandleFailure`, `HandleRetry`,
`Abort` (`releaseMutations`), `Crash`, `Pull`/`ApplyChanges` (row by row,
`RowTurn`), `ResetCursor`.
Requests sit in `wire` and may be served after the tab that sent them stopped
waiting. Time is left out: a lease may have expired and a backoff may have
ended whenever a claim looks. User actions carry the guards of the page: only a
note that is listed has a delete button (`main.ts`).

**SyncEngine.** `tab[t].pc` is where `runningSync` waits (`locking`,
`claiming`, `pushing`, `reading`, `pulling`, `settling`), `pending` and
`current` are `pendingSync` and "of this `syncGeneration`". Stores are reduced
to the edits queued or leased, and whether there is an account row and any
record. `calm` and `late` are history. `RequestEnds` are the ways in which a request that
the run waits for (`Waiting`) ends; `Proceeding` is what the run does without one.

**WebSession.** Each locked transaction is a step. The reconciliation, which
reads expired rows without a lock, is two. Upstream calls run between
transactions and may fail before or after they took effect. Credentials are
numbered in the order upstream issues them. Deadlines are reduced to whether
they have passed; a refresh lease may run out under its holder. A revocation
lease (75 s) may not, since the code gives its holder at most 50 s
(`REVOCATION_LEASE > worst_case` is asserted in a test of the crate), so
`RetryDue` waits until the holder is done or dead. `queue[p]` is the
coordinator's lock of this session in replica `p`: its first element holds it,
the others wait in the order of tokio's fair mutex. An empty queue is a lock
that nobody has, which is how `lock_for` and `prune` forget one
(`EnterRefresh`). The first request leads (`refresh_as_local_leader`), the others
reread the row once when they get the lock (`Follow`). Every return of a
request, and its cancellation (`Crash`), leaves the queue (`Leaves`, in
`Goto`). `EnterRefused` is the coordinator at its 4096 entries.

**SessionLife** has no replicas, leases, claims or late answers: a session is
active, expired, ending, signed out or given up, and gone; upstream exchanges its
token, and nobody spends a token of which the service has stored a newer one.
`WebSession` maps its row to that: `Phase` reads the phase from the columns
`revoked_at`, `expires_at`, `upstream_revoked_at` and `revocation_abandoned_at`,
`Stored` is the row's token, and `upstream` stands for itself (`Life`). A refresh
whose answer was lost is an exchange that no store follows.

**PasswordLogin.** `Reduce` is `reduce_rate_limit`, line by line: the global
window, pruning, capacity, the account's window. An attempt observes the clock
(`Submit`) and is decided later (`Check`), at most `MaxDelay` ticks; without a
bound on that delay no budget could be stated. Then come the permit (`Acquire`
or `Busy`), the upstream call, the creation of the session, and the drop of the
permit with the answer. `Verify` and `Verified` are requests with a bearer
token, which have a semaphore of their own. Attempts are numbered as they arrive;
`tried` has those that went upstream, with the account and the time they
observed, and `told` keeps the `Retry-After` answers.

**Tenancy.** A row is a record with its table and owner; `txn[r]` is an open
transaction with its connection, its settings, what it has written and what it
will show. A connection's settings that outlive a transaction are in `session`
and initially empty: `set_config(..., true)` writes to the transaction only.
`isolated` is chosen once: whether each process's login role is the one it
should be; `Verified` is the check that refuses to start otherwise.
`Visible` is what the policies leave of committed rows and one's own; handlers
ask for the owner besides (`Owned`). Each statement is a step (READ COMMITTED).
`DeleteAccount` is the authentication service's deletion of a row in
`auth.users`, with its cascades, and waits for the locks of foreign keys. A
session has no such key, so it survives.

**Invalidations.** One replica; the others appear as commits that arrive by
NOTIFY. `channel` is the broadcast channel with every invalidation ever sent, of
which a receiver can still read the last `Capacity`. `Ended` is the end of
`serve`, with the drop of the permit. Both ends of a connection are in `conn`;
a broken link is noticed by either side at any time or never. "Invalidation" and
"resync" frames have one effect in the page and are one frame, `wake`.

**QuoteDelivery.** `rows` is the queue, `page[t]` the page of a tab: its CSRF
token (the session it was rendered for), how far it is wired, the form's
`client_request_id`, where
its submission stands (`active` is set while "issued"), the marks it does not
wait for, the scheduler's state and how far its flush has come. `Open` is the
answer of the server; then `wireQuoteOptimisticWrites` reads the queue
(`Prepare`) and shows its rows one by one (`Render`), each after an await in which
another tab may settle the row. There may then be no fields to show, and the wiring
fails for good: the button stays disabled and no scheduler starts (`Works` is false
until the page is left). `Rendered` ends the wiring with the scheduler's first
wake. `Confirm` and
`Issue` are `htmx:confirm` before and after the row is saved, `AfterRequest` and
`Mark` are `htmx:afterRequest`, `StartFlush`, `Deliver` and `Delivered` are
`flush`. `Fed` passes an action through `Reduce` and the stream operators
behind it. A post carries the cookie of its moment; `Serve` checks session, CSRF
token and content as `submit` does, and creates the quote or finds it. `NoAnswer`
stands for a network error, 408, 429 and 5xx, after which both ways of posting
keep the row; it may come before or after the quote was created. A quote that was
created and cannot be read back may also be answered with a 4xx (`Disturb`). After
a 401 or a redirect a flush goes on with the next row while the page is being left:
the page goes whenever `Close` happens. A record id is
the number of the first row saved under it; the number of a run, which is only
compared with the previous one, is kept relative. `localView` and the quote
service's refusal of a key used with other content are assumptions about code
outside the repository.

**QuoteBook** has no tabs, posts, sessions or retries: requests are saved, each
under an id of its own or an earlier one's; the quote of an id is created once,
from something valid that was saved under it; and the user is told that a request
failed, or that it was delivered, the latter only once its quote exists. `rows`
of `QuoteDelivery` is `saved`, and `quotes` is `quotes`. A request shown as
delivered may still be shown as failed later (section 5), so the book allows it.

## 3. The runs

The passing runs exhaust their state space. TLC needs from a second to about three
minutes for each. Most modules have a type invariant (`...TypeOK`) beside their
variables; they are part of the inductive invariants of section 4, and the runs
are kept for the properties that say more.

| Run | Module, config | Question |
|---|---|---|
| `service` | `MCSyncService`, `MCSyncService.cfg` | Do the tables stay consistent, whatever two clients send and resend? |
| `feed` | `MCSyncFeed`, `MCSyncFeed.cfg` | Does a device that pages through the log miss anything? |
| `txn` | `MCSyncTxn`, `MCSyncTxn.cfg` | Do interleaved, failing transactions behave atomically? |
| `offline` | `MCOfflineSync`, `MCOfflineSync.cfg` | Are edits kept and ids used once, when only leases separate two tabs? |
| `offline_live` | `MCOfflineSync`, `MCOfflineLive.cfg` | Is every edit settled in the end? |
| `engine` | `MCSyncEngine`, `MCSyncEngine.cfg` | Are wakes ever lost? Does logout end and purge? |
| `session` | `MCWebSession`, `MCWebSession.cfg` | Is there one life behind the row, whoever refreshes, ends or revokes it? Is logout final, and settled in the end? Do requests of a replica share one refresh, and all return? |
| `invalidations` | `MCInvalidations`, `MCInvalidations.cfg` | Do hints arrive, do permits match, do sockets close? |
| `quotes` | `MCQuoteDelivery`, `MCQuoteDelivery.cfg` | Is there one quote at most per id, and nothing shown as delivered without it? Is every saved quote settled? |
| `login` | `MCPasswordLogin`, `MCPasswordLogin.cfg` | Is the authentication service spared, and what the limiter says true? |
| `tenancy` | `MCTenancy`, `MCTenancy.cfg` | Does anybody see another's rows, or leave half of what belongs together? |
| `offline_regress` | `MCOfflineSync`, `MCOfflineRegress.cfg` | see section 5: an expected violation |

**`service`**: two clients, two records; creations that race, updates, stale
bases, deletions, an id reused with other content, an oversized and a malformed
request. `LogIsDense`, `VersionsFollowCursor` and `RecordIsLastChange` relate
clock, log and records; `AppliedExactlyOnce` is the bijection between applied
receipts and log rows; `AnswersAgree` says no request is answered in two ways;
`HistoryIsKept` that nothing is taken back. Requests of one record interact
only through it, so two clients and the chain create, update, delete reach
every combination of receipt and record; the proofs remove these bounds.

**`feed`**: one device (devices do not affect each other), two records, four
changes, pages of one or two rows. `NothingSkipped`: what lies below the cursor
has been applied. `CaughtUpMeansEqual`: a device whose position is the clock has
the service's records; and if an answer says `caughtUp`, upon which `syncPass` stops
pulling, then with its page merged every record is as the log had it at the end of
the window (`AsOf`). The window is that of the cursor, so "caught up" may be
behind the clock (section 5). `ConfirmedMovesForward`: versions do not
go back, cursor resets included. `EveryChangeArrives` (liveness) assumes weak
fairness of pulling (the poll) and strong fairness of delivery (not every
answer is lost).

**`txn`**: two handlers, three batches (one is a create and an update, one
reuses an id, one is invalid and then deletes), any of them received again at any
time. `HintsFollowCommits`, `BatchPrefixSettled` (when a later operation is
under way the earlier ones are settled as the response will say) and the
refinement `ImplementsFeed`. The handlers are symmetric.
Three concurrent transactions would add only waiting for the same lock.

**`offline`**: one note, two tabs without the Web Locks API, so that leases that
ran out overlap with late answers, two edits, one update by another device.
`OutboxIsChain`: per record one operation may be sent, every other waits for one
that is there. `EditsAreKept`: what the user sees as his change is the newest
operation queued, and the reverse. `SentPayloadsAreFixed`: the service never sees
an id with other content. `ConflictsBlock`: a conflict is stored exactly while
the record is in conflict, shows the current server version, and nothing of the
record is sent. The tabs are symmetric. **`offline_live`**, `EditsSettle`: one
tab and three edits (one may be in flight, a second waits behind it, a third
replaces the second or waits as well). It assumes strong fairness of claiming (every
wake, edit and poll starts a pass), of answers being delivered and of requests
being served while the tab waits; the tab may crash and syncs be aborted for ever,
and what a dead instance had leased must be found by the next one.

**`engine`**: two tabs with Web Locks, two edits, going offline and online,
closing, logging out in either or both, requests that are answered, fail or never
end. Fairness: each tab's event loop proceeds (`Proceeding`, `Hear`), and a
request that was aborted ends. Nothing makes another request end, since the
transport sets no timeout (`transport.ts:116-188`), and no poll is assumed.
`LogoutsFinish` holds even so, because a logout aborts the request it waits for.
`EditsReachThePass` states its assumption, `RequestsEnd`: no tab waits for one
request for ever. Without it the property fails, and the poll does not help, since
a wake during a run only sets `pendingSync` (section 5). It is released by a failed
request, a closed tab or a logout (`calm`), after which the poll is what
recovers. `LogoutPurges`: when every tab has dealt with a logout the stores
are empty; see section 5 for its exception `late`.

**`session`**: two web requests, in one replica or in two, and a revoker; one failure, access tokens that
age until they have been rotated once, three refresh leases, and an upstream that
accepts the previous token for a while. `LogoutIsFinal` (a revoked row and its
result stand) is an action property; `ImplementsLife` is the refinement of
`SessionLife`, which says among others that a refresh that comes back late
never overwrites newer tokens, and that no request spends a token older than the
stored one;
`ConfirmedMeansSignedOut` relates the row to upstream; `LostTokensAreNoticed` says that, unless something fails, a
usable session never holds dead tokens that nobody is about to replace or
revoke. `LogoutsSettle` (liveness) assumes that workers run, upstream answers
once failures cease (the bound on failures), delays end and the revoker's
ticker goes on. `LocalSingleFlight`: in one replica only one request claims,
calls upstream and stores. `RequestsReturn` (liveness): a request that waits for
the coordinator's lock returns, whatever becomes of those before it; it assumes
that each request goes on, since the poll of a busy lease gives up after 22 s
and upstream calls have a timeout. Two lease hand-overs need three leases and a race of two
replicas needs two requests; a second revoker acts as a web request does, which
also revokes after its logout.

**`invalidations`**: one page, its account and a second one, one commit
each from here or elsewhere, a channel with room for one, two connections with
one socket per user: an overflow, a resync, and a page that reconnects against
the permit of the connection it left behind all occur. Fairness: the server
serves each socket (`select!` picks fairly) and the page handles its events;
nobody need notice a broken connection, no poll need run, and a heartbeat need
not fail. `HintsArrive`,
`SocketsClose` (a socket whose page or session is gone) are liveness properties;
`PermitsMatchSockets` is the accounting.

**`quotes`**: two tabs, whose pages may be left and opened again while their posts
travel on; one content the server refuses; two sessions, which any tab may have
been rendered for; one trouble (`MaxFailures`: a lost post or answer, an outage, or
the end of the session). While only one page works there may be two quotes or two
versions of one (`MaxSaves`); while both do there is one (`MaxShared`), which either
of them may have saved. A page does not open or save beyond that.
`ImplementsBook` is the refinement of `QuoteBook`: a row marked as synced is at the
service, under its id and with something saved under that id, and neither rows
nor quotes are replaced. `WakesCoalesce`: one flush at a time, and a
wake that comes during a flush leads to another one that reads the queue after
it. `SavedQuotesSettle` (liveness): as long as some page of the current session is
open and online, and its wiring has not failed, the queue is emptied again and
again, whatever the other tab does: saved quotes are delivered or refused. Fairness:
the retry timer of 15 s goes off and the page's event loop goes on. That posts end
is an assumption the property states (`PostsEnd`), since nothing in the code bounds
their time; it assumes neither that the user does anything nor that sessions last.
Two rows suffice for a form and a flush of one page that meet on one row or pass on
two, and for an edit under the same id. What a second page adds is that it posts,
delivers or refuses a row that the first is showing, posting or has just saved,
which one row brings about; pages meet on rows only, and the proofs of the
safety properties have neither bound.

**`login`**: two logins at a time and one bearer request, five attempts over
three accounts, of which two fit the limiter; windows of three ticks, a delay of
at most one. `UpstreamIsSpared` bounds the attempts that went upstream in any
span as long as the window, per account and in all, and ties the permits to the
calls in flight. The windows are fixed, so a span meets two of them; and because
an attempt may come late and open a window in the past, which others then
prune early, an account's span can meet three. `BudgetPerWindow` has this
number for any window and delay (`Windows`). A span meets at most two
global windows of three attempts each, and the run has five attempts: the global
half of the bound cannot break in it, and rests on `BudgetsAlwaysHold`.
`BlocksSurviveChurn`: a block ends
only with an attempt after its window. `RetryAfterIsEnough`: who waits as long
as told is not refused by the same window again. Three accounts over two places
are the least that fill the map while one is blocked; four ticks hold a window
and the next.

**`tenancy`**: two accounts, two web requests over a pool of two connections, a
revoker, one engagement at a time. `VisibleIsMine`: whatever used the connection
before, a transaction sees no customer's row but its actor's.
`RowsBelongTogether`: notes belong to an engagement of their owner, and a login
leaves session and profile or neither. `RepliesAreTrue`: what was answered with
success is there, and a list shown holds its own request's work and only its
actor's rows. A third account or request would act as the second does; accounts, requests
and connections are symmetric.

Deadlock is checked where the system cannot stop (`service`, `feed`, `txn`).
Elsewhere bounds on edits, commits or leases end behaviours.

## 4. The proofs

Every safety invariant and action property of the passing runs is proved, and so
are the refinements: of the atomic service and feed by transactions, of the life of
a session, and of the book of quotes. A theorem holds for every value of the constants that
meets the assumptions. Of these, many only keep `None` apart from data
(`AbsentAssumption`, `FeedAssumption`, `RowAssumption`, `NoRowAssumption`,
`NoPageAssumption`, parts of the others); those that say more are named below. The bounds of the runs
(`MaxEdits`, `MaxFailures`, `MaxLeases`, ...) stay constants in the theorems, of
any size.

An invariant is proved in the same way throughout: an inductive invariant
(`...Inv`) that has the property as a part, one lemma per action or group of
actions that it is kept, and a temporal step at the end. What is described below is
what the invariant needed to know beyond the property.

### The sync service: `SyncServiceProofs`

From `ProtocolAssumption` (`None` is no note, oversized notes are notes, a page
holds a row) and `MutationsAssumption` (requests are well-formed):

| Theorem | Property |
|---|---|
| `TypeCorrect` | `TypeOK` |
| `LogIsAlwaysDense` | `LogIsDense` |
| `VersionsAlwaysFollowCursor` | `VersionsFollowCursor` |
| `RecordIsAlwaysLastChange` | `RecordIsLastChange` |
| `ExactlyOnce` | `AppliedExactlyOnce` |
| `AnswersAlwaysAgree` | `AnswersAgree` |
| `HistoryIsAlwaysKept` | `HistoryIsKept` |

`SnapType`, `AfterType` and `AnswerType` type the decisions of `SyncProtocol`.
Types are inductive by themselves. The three facts about
the log are not: that the versions along the log grow needs to know that the
stored record is the last change, that again that the cursor of a new row is
above all others, and that is density. So they are proved together, as
`LogInv == TypeOK /\ LogIsDense /\ VersionsFollowCursor /\ RecordIsLastChange`.
`OnlyApplyWrites` reduces the step to `Apply`; `NewRow` says what the row it
appends is: the next cursor, a version above every other of its record, over no
tombstone. Exactly-once needs `LogInv`, since two applied receipts with
the same snapshot are told apart by the version the new row has
(`ExactlyOnceInv`). `AnswersAgree` becomes inductive as `OutcomeInv`: every
answer decided is the receipt's, or "reused" if the receipt is another
request's; `ReceiptStep` and `SettledReceipt` say what a step does to receipts.
`HistoryIsKept` is an action property and follows from types and
`ReceiptStep`. The same is proved of `AnySpec`, in which any well-formed request
may be pushed at any time; `OfflineSyncProofs` uses it.

### The feed and the transactions: `SyncTxnProofs`

Of `SyncFeed`, for all sets of devices and every page size:

| Theorem | Property |
|---|---|
| `NothingIsEverSkipped` | `NothingSkipped` |
| `CaughtUpAlwaysMeansEqual` | `CaughtUpMeansEqual` |
| `ConfirmedAlwaysMovesForward` | `ConfirmedMovesForward` |

`FeedInv` adds to `LogInv` that cursors lie within the log, that what a device has
confirmed is some row of it, and that a page in flight is contiguous: it has every
row between the position of its device, when it asked, and the page's last cursor
(`PagesContiguous`). `PageIsContiguous` shows the last of a page as `pull_changes`
cuts it, from density; `MergeTakesNewest` that merging leaves for each record the
newest of what was confirmed and what came. A row confirmed is then
the newest of its record below the cursor, and with the cursor at the end of
the log it is the server's record (`LastRow`, `FollowedToTheEnd`). For the flag of
an answer `WindowsSound` is kept beside `FeedInv`: a page reaches at most to the end
of its window, that end is one the clock has reached, it says "caught up" only
when it reaches it, and its device has confirmed nothing from beyond it
(`CaughtUpPage`).

Of `SyncTxn`, for all sets of handlers, batches that are not empty
(`TxnAssumption`) and devices:

| Theorem | Property |
|---|---|
| `HintsAlwaysFollowCommits` | `HintsFollowCommits` |
| `BatchPrefixIsAlwaysSettled` | `BatchPrefixSettled` |
| `ReadsAreAlwaysStable` | `ReadsAreStable`: what a transaction has read under the lock is still committed |
| `HandlersImplementFeed` | `ImplementsFeed`, the refinement |
| `HandlersImplementService` | `SyncTxn` implements `SyncService` |
| `HandlersKeepPromises` | so exactly-once, agreeing answers and kept history hold statement by statement |

`TxnInv` has, besides `FeedInv`: the clock row is locked exactly while one
transaction is past its lock; what it has staged is what `SyncService` would do to
the tables as they are now (`Decided`), since nobody else commits meanwhile;
results to be reported are settled by receipts (`Settled`), which stay; and a pull
between its two statements has fixed an end for its page no later than the clock
it read (`ReadingsSound`), so that commits in between, which READ COMMITTED lets it
see, do not tear the page. With it `CommitIsPush` shows that a commit
is a `Push` of the request, and `TxnImplements` that each statement is a step of
`SyncFeed` or a stutter: `PullClock` is the abstract pull, `PullRows` shows nothing
new (`ReadingIsContiguous`). Hence `DevicesFollowHandlers` too: devices that follow
these handlers skip nothing, and are told that they are caught up only when they are;
`ReadingWindowsSound` says so between the two statements of a pull.

### The offline store: `OfflineSyncProofs`

For every number of tabs, with or without Web Locks, notes, edits and other
devices, from `OfflineAssumption` (the other requests are of other clients, and
there are two ids for each edit):

| Theorem | Property |
|---|---|
| `OfflineAlways` | `OfflineInv` |
| `OutboxIsAlwaysChain` | `OutboxIsChain` |
| `EditsAreAlwaysKept` | `EditsAreKept` |
| `SentPayloadsAreAlwaysFixed` | `SentPayloadsAreFixed` |
| `ConflictsAlwaysBlock` | `ConflictsBlock` |
| `ClientsOnlyPush` | the client does to the service only what `AnySpec` allows |
| `ServiceKeepsPromises` | so the service's properties hold behind it |

`OfflineInv` is stated of the stores as a record (`StoresSound`), since
`applyMutationResults` goes through many states within one transaction and the
invariant must hold between any two results. It says that an operation that waits
has never been sent and waits for the head of its record (`Waits`), that a record
has at most one of each (`Apart`), and how row, conflict and operations of a
record agree (`RowSound`). `ResultKeeps` is the step for one result, split into
`ConflictKeeps`, `FailureKeeps` and `AppliedKeeps`; the loop is a recursive
function over the operations in the order of their edits, and `HandledRuns`,
`MergedRuns` reason about it with the least index at which something would go wrong
(`LeastOf`). Ids: an operation gets a second id only when what it
waited for was decided or replaced, hence `nextId` plus the number of edits still
waiting stays below twice the edits (`StoresSound`), and fresh ids never run out.
`PayloadsSound` ties outbox, requests under way and answers given: one content per
id in all of them, and all below `nextId`.

### The engine: `SyncEngineProofs`

For every number of tabs, at least one (`EngineAssumption`), and edits:
`EngineAlways` (`EngineInv`) and `LogoutAlwaysPurges` (`LogoutPurges`). A
logout purges from several tabs while others still run, so the property is not
inductive. `LastPurge` says that the last of all tabs to purge leaves nothing, and
`StoppedStays` why nothing comes back: an engine that was told to log out has
its run cancelled, and one that has purged has no run, unless a frame woke it after
its logout (`late`, section 5). `TabMoves`, `RunMoves`, `PurgeMoves` and
`LogOutMoves` sum up what the actions do to an engine.

### Sessions and sockets: `WebSessionProofs`

For every number of requests, replicas and revokers, whatever fails:

| Theorem | Property |
|---|---|
| `SessionAlways` | `SessionInv` |
| `LogoutIsAlwaysFinal` | `LogoutIsFinal` |
| `TokensAlwaysMoveForward` | `TokensMoveForward` |
| `ConfirmedAlwaysMeansSignedOut` | `ConfirmedMeansSignedOut` |
| `FlightsAreAlwaysSingle` | `LocalSingleFlight` |
| `LostTokensAreAlwaysNoticed` | `LostTokensAreNoticed` |
| `SessionLivesOnce` | `ImplementsLife`, the refinement of `SessionLife` |
| `SessionStaysSound` | `LifeIsSound` of `SessionLife`, proved of the row |

`SessionInv`: a revoked row has no lease, a confirmed one no live session upstream
(`RowSound`); a refresh that is under way has the row's tokens or older ones, and
one that was answered has newer ones as long as the lease is its own
(`FlightSound`); a revoker that holds its claim, that is, whose attempt number is
the row's, has tokens as good as the row's (`SigningSound`); no two workers share
a lease or an attempt (`ApartFlying`, `ApartSigning`), which is what makes the
fences of the writes fence; and who leads a refresh is the first in its replica's
queue (`LeadersFirst`), which gives single flight. `HandOver` is the part about
tokens that are lost: unless something failed, a lease of a usable row is held by a
request whose answer will be stored, or is a refusal. `LogoutIsFinal` and
`TokensMoveForward` (which `ImplementsLife` contains, and no run checks by itself) are
action properties; every action lemma (`StepSound`) shows
them of its step beside the invariant.

`SessionLivesOnce` takes each action for one step of `SessionLife` or none
(`RefreshingLives`, `EndingLives`, `RevokingLives`, `TimeLives`). The step that needs
most is the exchange upstream, which is made outside any transaction with a token
read earlier: the row may have moved on since. What is exchanged is the row's
token or an older one (`ExchangeStep`), and the row is never ahead of upstream, so
if upstream accepts it, it accepts the row's. For requests `FlightSound` says so;
for a revoker that has claimed the session and not yet refreshed it,
`SessionInv` says nothing, which is what `ClaimsSound` adds. `LifeIsSound` is an
invariant of the abstract specification alone (`LifeInv`), and holds of the row by
the refinement (`SessionStaysSound`).

`SocketsAlwaysCounted` proves `PermitsMatchSockets` of `Invalidations`, for any
number of connections, pages, owners and commits, from
`InvalidationsAssumption` (each page has an owner; the limits are positive). Every
step changes connections in one of four ways (`ConnectionSteps`): one begins, one goes on,
one ends and releases its permit, or a page leaves its own. The last needs that the
connection a page holds is its own (`PagesHold`); counting needs that only finitely
many sockets are served.

### Quotes: `QuoteDeliveryProofs`

For every number of tabs, rows, sessions and failures, from `QuoteAssumption`
(there is a session): `QuotesAlways` (`QuoteInv`), `SyncedIsAlwaysAccepted`
(`SyncedIsAccepted`, which `ImplementsBook` goes beyond in the run),
`WakesAlwaysCoalesce` (`WakesCoalesce`) and `DeliveryIsABook` (`ImplementsBook`, the
refinement of `QuoteBook`). A row is marked
long after the quote was created, so `QuoteInv` follows the claim along its way:
an answer of 200 means that the quote exists (`PostBacked`), a mark about to be
made likewise (`PageBacked`), and neither rows nor quotes are taken back (`Kept`).
Posts that are awaited belong to an open page that waits for nothing else
(`Awaited`, `Apart`), so an answer cannot be taken for another's.
`PageScheduled` is the scheduler: one run exactly while it is flushing, and a wake
that is owed a flush is noted or is served by a run that has not begun. Wiring
leaves all of this alone until its last step, which is a wake (`WiredSound`,
`RenderedSound`). The refinement
takes `Confirm` for `Save`, a served post for `Create` or, when the quote is there
already, for nothing, and the three ways to mark a row for `Report`; it needs
`PostBacked` for what is created, `PageBacked` for what is reported, and that a
form's id is that of a saved row for what is saved.

### Login: `PasswordLoginProofs`

For every budget, limiter size, number of permits, accounts and requests, and every
delay shorter than the window (`LoginAssumption`):

| Theorem | Property |
|---|---|
| `LoginTyped` | `LoginTypeOK` |
| `BlocksAlwaysSurvive` | `BlocksSurviveChurn` |
| `RetryAlwaysEnough` | `RetryAfterIsEnough` |
| `PermitsAlwaysMatch`, `BudgetsAlwaysHold` | `PermitsMatchCalls`, `BudgetPerWindow` |
| `UpstreamAlwaysSpared` | `UpstreamIsSpared`, their conjunction |

`ReduceCases` splits `reduce_rate_limit` into its three ways, with
the global window each leaves. A blocked account's window is pruned only by an
attempt from after it, and charging keeps a full window full
(`ReduceKeepsBlocks`). For `Retry-After`, `RetryInv` says that windows are opened
by attempts of the past, so that an answer's wait lasts beyond its window even
when the attempt waited for the lock (`WaitsLongEnough`); and whatever an attempt
is refused by was open at its time (`ReduceNames`), hence another window.
`PermitsInv` counts the calls in flight.

The budget relates attempts of a whole span of time to counters that are reset and
forgotten on the way. The proof keeps a ledger (`Ledger`), which is never part of
the state: it assigns to each admitted attempt the window it was charged to and its
number there. No two attempts have the same window and number, and the windows lie
apart, by `Window` globally and by `Window - MaxDelay` for an account, since a late
attempt may open one in the past. A span of given length meets only so many such
windows, and an injection of its attempts into windows and numbers bounds them
(`LedgerBounds`). `BudgetInv` says that there is a ledger that goes on with the
limiter's window (`Kept`), or whose windows are all over while the limiter has
forgotten the account (`Closed`); `ReduceFollows` and `ReduceAdmits` say
that each decision continues it.

### Tenancy: `TenancyProofs`

For all sets of accounts, engagements, statuses and connections, and any number
of requests and revocations in flight, from `TenancyAssumption` (engagements start
as "scoping", requests are no runs, and their connections are apart):

| Theorem | Property |
|---|---|
| `TenancyTyped` | `TenancyTypeOK` |
| `AlwaysIsolated` | `VisibleIsMine` |
| `RowsAlwaysBelongTogether` | `RowsBelongTogether` |
| `RepliesAlwaysTrue` | `RepliesAreTrue` |

`StatementMoves` and `StatementKeeps` say once what the eight
statements leave alone. Isolation is not inductive: `IsolationInv` adds that no
connection keeps settings, and that an open transaction has nobody's settings or,
after `Install`, its own actor's, which is what `InstallForSession` breaks.
Rows belong together because an engagement keeps its owner: ids are drawn
once, so every version of an engagement, committed or written and not yet
committed, has the owner that `Find` saw (`OwnersInv`). With it `AddNote`, which
may see its engagement through a foreign key only, still attaches to one of
the actor's; `NotesInv` extends the property to rows not yet committed, since the
deletion of an account waits for them. `RepliesInv` knows per transaction what its
kind may have written, and that the policies admit it, so that a list read
before the commit has the row.

### Model-checked only

The liveness properties, since TLAPS reasons about neither fairness nor `ENABLED`:
`EveryChangeArrives`, `EditsSettle`, `EditsReachThePass`, `LogoutsFinish`,
`LogoutsSettle`, `RequestsReturn`, `HintsArrive`, `SocketsClose` and
`SavedQuotesSettle`; and `SettledShowsServer`, which is expected to fail.


## 5. Where code and documents disagree

One run is expected to find a violation.

* **`offline_regress`** (`MCOfflineRegress.cfg`, `SettledShowsServer`). The
  answer to a retried mutation is the stored one. `applyMutationResults`
  (`store.ts:626`) takes its record over without comparing versions, unlike
  `applyChanges` (`store.ts:511-517`). If a pull has brought a newer record
  in between, the older one is put back, and since the cursor is past the
  newer change no later pull repairs it. `client/README.md:35-36`: "durable
  state always comes from `GET /api/v1/sync/changes`".
Observed while modelling, without a run:

* Closing the client during a sync takes back the attempt of an
  operation already sent (`store.ts:442`); it counts as never sent, the next
  edit replaces it under a new id and, when it was a create, takes its base
  from what a pull has brought since (`store.ts:243`). The version of another
  device is overwritten without having been shown. `README.md:51` promises
  "compare-and-swap mutations".
* The server closes a socket with code 1008 for a lost session, but also when
  revalidation fails for another reason (the database, an upstream refresh that
  is unavailable) and for a late pong (`ws/mod.rs:388-397`). The page takes any
  1008 for a loss of access and clears local data, edits never sent included
  (`main.ts:91-96`). "Frames are hints only" (`client/README.md:35`).
  `Invalidations` has these steps.
* If storing a new session fails, the tokens that a login has just been issued
  are dropped without a sign-out upstream (`routes/auth.rs:118`).
* The sessions of a deleted account go on to authenticate until they expire or
  their refresh is refused, since `web_session` has no reference to
  `auth.users`; reads then show nothing and writes fail on the other tables'
  references (`Tenancy`).
* Posting a new engagement again after its answer was lost makes a second one
  (`routes/pages.rs:187`).
* `LogoutPurges` has an exception. A frame on the htmx socket wakes a tab's engine
  even after it was stopped (`main.ts:77-79`). Without the exception TLC finds:
  tab 1 logs out and purges; a pull of tab 2 then puts the account row back; a
  frame wakes tab 1, which pulls; tab 2 hears of the logout and purges; the
  page of tab 1 arrives and is stored. `engine.test.ts:227` ("cannot restore
  account data from a pull that completes during logout") has one tab. The
  logout response's `Clear-Site-Data` (`routes/auth.rs:178-187`) covers this in
  browsers that honour it.
* `queueMutation` refuses an edit of a failed note (`store.ts:219`), while the
  page keeps its form (`main.ts:191`).
* A note created and deleted before its first sync becomes a delete without
  base; it is answered "gone" and the page says that the record was deleted on
  the server (`main.ts:240`), where it never was.
* The reconciliation may mark a row again from an unlocked read
  (`canonical-session/src/lib.rs:463`, `:543-547`), which can make a deferred
  attempt due earlier than its delay says. The claim is still fenced:
  `LogoutIsFinal` and `ConfirmedMeansSignedOut` hold.
* A quote marked as failed may be at the service, although the page says "This
  local write was not accepted" (`quote-optimistic.ts:175`). A flush posts a row
  between its being saved and `active` being set, and is accepted; the
  session ends; the form's own post of the row gets 401, and `htmx:afterRequest`
  (`:327-332`) marks it as failed, as it does with every 4xx but 408 and 429,
  where the flush keeps a row after 401 (`:223-227`). Likewise, after a lost
  answer and a new login, a page of the old session posts with its old
  CSRF token and marks the row as failed on 403. `README.md:99-102`: "an offline
  retry or a lost response returns the same durable quote".
* An edit submitted under the id of a quote that was accepted, but whose answer was
  lost, meets the service's refusal of the key; and as `deliver` posts what
  `localFields` shows for the record and not the row's own payload (`:198`), two
  rows of one record are delivered with the content of the newer one.
  Hence `SyncedIsAccepted` and `QuoteBook` promise some content saved under the id.
* A request of the sync transport has no timeout (`transport.ts:116-188`; the signal
  comes from `cancelActiveSync` only). One that never ends holds `runningSync` and
  the leader lock, and further wakes, the poll's included, only set
  `pendingSync` (`engine.ts:168-171`), so no tab of the account syncs until
  the user logs out or the tab is closed. Without its assumption `RequestsEnd`
  the property `EditsReachThePass` would fail. The fetch of a queued quote
  (`quote-optimistic.ts:205-215`) has no timeout either, and holds the flush.
* A quote page may be left unwired. `renderPending` reads the queue and then
  the fields of each row (`quote-optimistic.ts:181-184`); if another tab
  has settled the row in between, `quoteFieldsFromPayload` may throw
  (`:59-71`; what `localView` returns is the library's), and
  `wireQuoteOptimisticWrites` rejects. The page then says "reload before submitting"
  (`main.ts:136-143`) and, until it is reloaded, delivers nothing, what is
  still pending of other rows included.
* A pull that goes on after a page failed, or in a later pass, finishes the
  window of its cursor first (`service.rs:299-305`). The answer says that it is
  caught up with the end of that window and the pass ends (`engine.ts:242-247`);
  what was committed since comes with the next wake or poll.
* The form can be submitted before `app.js` has wired it; htmx then posts without
  saving anything.

## 6. What is not modelled

* Shared authentication, extraction and edge checks beyond what `QuoteDelivery`
  and `PasswordLogin` have of them: per-request decisions without state. Quote
  lists and details, training, views, readiness, metrics, configuration,
  packaging: no state that others depend on.
* The steps of the migrations (the schema they end in is modelled), the
  transactions of an administrator and of a Shared Auth subject, which nothing
  in this repository opens, and the sync tables in `Tenancy`, whose policies
  are those of the other customer tables. The sync modules take one account
  (`Invalidations` two).
* In `PasswordLogin`: the origin and CSRF checks before the limiter, and fractions
  of a tick (`retry_after` rounds up to whole seconds).
* SQLite, which the store also supports and which has no row locks: `SyncTxn`
  is PostgreSQL under READ COMMITTED.
* Overflow of 64-bit versions and cursors; sealing of cursors; encryption;
  CSRF; the byte limit of a batch (a claim may take any due operations).
* A restart of a whole replica in `Invalidations` (its sockets all close),
  page reconnect delays; edits of notes in a tab that has been stopped;
  `putDraftNote` and its announcement are one step in `SyncEngine`.
* In `QuoteDelivery`: the queue's deletion by `Clear-Site-Data` at a logout (its
  sessions expire or are revoked elsewhere), a login as another user in the same
  browser (whose queue is another database), the page before its scripts have
  run, rendering, and failures of IndexedDB itself.
* `HandleFailure` stands for a body that is refused before any of its
  operations is looked at.

## 7. The plan

Done: the models and runs of section 3, and a theorem for every safety invariant
and action property that a passing run checks.

Next, in this order:

1. The handoff of a Shared Auth login (`routes/shared_auth.rs`): state, verifier
   and callback of two browsers' logins that are mixed up or replayed.
2. The sync constraints that `HardenSyncInvariants` adds, as a migration of
   tables that older versions have written.
