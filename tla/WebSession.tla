----------------------------- MODULE WebSession -----------------------------
(***************************************************************************)
(* The life of one row of web_session (crates/canonical-session): refresh  *)
(* of its credentials by web replicas, logout, and the revokers that carry *)
(* logouts to the upstream authentication service.  Every locked           *)
(* transaction is one step; the reconciliation, which reads expired rows   *)
(* without a lock before it updates them, takes two.  Calls upstream run   *)
(* between transactions, and workers may die anywhere.  Within a replica,  *)
(* requests that find the session stale queue at the lock of the refresh   *)
(* coordinator: the first leads, the others wait for what it leaves.       *)
(*                                                                         *)
(* Credentials are numbered: upstream accepts the refresh token it issued  *)
(* last, perhaps the one before, and issues the next one for it.           *)
(* Deadlines are abstracted to whether they have passed.  A refresh lease  *)
(* (30 s) may run out under its holder; a revocation lease (75 s) outlasts *)
(* the 50 s its holder can take, so it runs out only once the holder is    *)
(* done or dead.                                                           *)
(***************************************************************************)
EXTENDS Integers, FiniteSets, Sequences

CONSTANTS
    Web,           \* requests in the web replicas
    Replicas,      \* the web replicas
    Revokers,      \* session revoker processes
    MaxFailures,   \* bound: outages, lost answers, bad keys and deaths
    MaxRotations,  \* bound: the access token grows old this many times
    MaxLeases,     \* bound: refresh leases taken
    Grace,         \* TRUE if upstream still accepts the token before the last
    None

Workers == Web \cup Revokers

ASSUME SessionAssumption ==
    /\ MaxFailures \in Nat
    /\ MaxRotations \in Nat
    /\ MaxLeases \in Nat
    /\ Grace \in BOOLEAN
    /\ None \notin Nat

VARIABLES
    row,       \* the row of web_session, or None once pruned
    upstream,  \* [live, token]: the session at the authentication service
    worker,    \* [Workers -> what the worker is doing]
    replica,   \* [Web -> Replicas], where each request runs
    queue,     \* [Replicas -> requests with the coordinator's lock of this
               \* session: the holder, then the waiting]; the coordinator
               \* forgets a lock that nobody has
    leases,    \* refresh lease ids issued so far
    failures   \* failures so far

sessionVars == <<row, upstream, worker, replica, queue, leases, failures>>

Row ==
    [expired   : BOOLEAN,                      \* expires_at has passed
     revoked   : BOOLEAN,                      \* revoked_at
     pending   : BOOLEAN,                      \* revocation_pending_at
     next      : {"none", "due", "later"},     \* revocation_next_attempt_at
     attempts  : Nat,                          \* revocation_attempts
     confirmed : BOOLEAN,                      \* upstream_revoked_at
     abandoned : BOOLEAN,                      \* revocation_abandoned_at
     lease     : Nat \cup {None},              \* refresh_lease_id
     leaseLive : BOOLEAN,                      \* refresh_lease_expires_at ahead
     token     : Nat,                          \* the encrypted token pair
     access    : {"fresh", "stale", "expired"}]  \* access_expires_at

ASSUME RowAssumption == None \notin Row

Idle == [pc |-> "idle"]

SessionTypeOK ==
    /\ row \in Row \cup {None}
    /\ upstream \in [live : BOOLEAN, token : Nat]
    /\ \A w \in Workers :
          worker[w].pc \in {"idle", "stale", "waiting", "leading", "refreshing", "refreshed", "rejected",
                            "unavailable", "leaving", "scanned", "queued", "claimed",
                            "rotated", "refused", "deferred", "acknowledged"}
    /\ replica \in [Web -> Replicas]
    /\ \A p \in Replicas : queue[p] \in Seq(Web)
    /\ leases \in 0..MaxLeases
    /\ failures \in 0..MaxFailures

\* create: a new login.
SessionInit ==
    /\ row = [expired |-> FALSE, revoked |-> FALSE, pending |-> FALSE,
              next |-> "none", attempts |-> 0, confirmed |-> FALSE,
              abandoned |-> FALSE, lease |-> None, leaseLive |-> FALSE,
              token |-> 0, access |-> "fresh"]
    /\ upstream = [live |-> TRUE, token |-> 0]
    /\ worker = [w \in Workers |-> Idle]
    /\ replica \in [Web -> Replicas]   \* whose names do not matter:
    /\ replica[CHOOSE w \in Web : TRUE] = CHOOSE p \in Replicas : TRUE
    /\ queue = [p \in Replicas |-> <<>>]
    /\ leases = 0
    /\ failures = 0

-----------------------------------------------------------------------------
(* Helpers.                                                                *)

At(w, label) == worker[w].pc = label

\* Mutant of Leaves: a request that is dropped while it waits stays queued.
LeavesIfFirst(w) ==
    [p \in Replicas |-> IF queue[p] # <<>> /\ Head(queue[p]) = w
                        THEN Tail(queue[p]) ELSE queue[p]]

\* The queues without w, whose guard and place drop with its future; a
\* request has at most one place.
Without(q, w) ==
    IF \E i \in 1..Len(q) : q[i] = w
    THEN LET i == CHOOSE i \in 1..Len(q) : q[i] = w
         IN  SubSeq(q, 1, i - 1) \o SubSeq(q, i + 1, Len(q))
    ELSE q
Leaves(w) == [p \in Replicas |-> Without(queue[p], w)]

Goto(w, state) ==
    /\ worker' = [worker EXCEPT ![w] = state]
    /\ queue' = IF state = Idle THEN Leaves(w) ELSE queue
    /\ UNCHANGED replica
Done(w) == Goto(w, Idle)

Present == row # None
Terminal == row.confirmed \/ row.abandoned

\* validate_model
ValidModel == ~row.revoked /\ ~row.expired

\* A failure happens, as far as the bound allows.
Fails == failures < MaxFailures /\ failures' = failures + 1

\* Mutant of Mark: no attempt is scheduled.
MarkUnscheduled(m) ==
    IF m.confirmed \/ m.abandoned
    THEN row
    ELSE [row EXCEPT !.revoked = TRUE, !.pending = TRUE,
                     !.lease = None, !.leaseLive = FALSE]

\* mark_revocation of the model m, written to the row: only the columns it
\* sets change.
Mark(m) ==
    IF m.confirmed \/ m.abandoned
    THEN row
    ELSE [row EXCEPT !.revoked = TRUE,
                     !.pending = TRUE,
                     !.next = IF m.pending THEN m.next ELSE "due",
                     !.lease = None,
                     !.leaseLive = FALSE]

ClearLease == [row EXCEPT !.lease = None, !.leaseLive = FALSE]

\* The answers of AuthProvider::refresh to token g. An outage may hit
\* before or after upstream has rotated the token.
Accepts(g) ==
    /\ upstream.live
    /\ g = upstream.token \/ (Grace /\ g + 1 = upstream.token)
Rotate == upstream' = [upstream EXCEPT !.token = @ + 1]

\* Mutant of HoldsLease: no fence.
HoldsAnyLease(w) == Present

\* The fence of a refresh: finish_refresh_claim and the persisting
\* transaction compare the lease id.
HoldsLease(w) == Present /\ row.lease = worker[w].lease

\* The fence of a revocation: terminal flags and the attempt number.
HoldsClaim(w) == Present /\ ~Terminal /\ row.attempts = worker[w].attempts

-----------------------------------------------------------------------------
(* Time.                                                                   *)

\* The access token ages; the session reaches its TTL; a refresh lease runs
\* out.
Age ==
    /\ Present
    /\ \/ row.access = "fresh" /\ row.token < MaxRotations
          /\ row' = [row EXCEPT !.access = "stale"]
       \/ row.access = "stale" /\ row' = [row EXCEPT !.access = "expired"]
       \/ ~row.expired /\ row' = [row EXCEPT !.expired = TRUE]
       \/ row.leaseLive /\ row' = [row EXCEPT !.leaseLive = FALSE]
    /\ UNCHANGED <<upstream, worker, replica, queue, leases, failures>>

Signing(w) ==
    worker[w].pc \in {"claimed", "rotated", "refused", "deferred", "acknowledged"}

\* A retry delay ends, or the revocation lease of a worker that is gone.
RetryDue ==
    /\ Present
    /\ row.next = "later"
    /\ \A w \in Workers : Signing(w) => worker[w].attempts # row.attempts
    /\ row' = [row EXCEPT !.next = "due"]
    /\ UNCHANGED <<upstream, worker, replica, queue, leases, failures>>

-----------------------------------------------------------------------------
(* Refresh.                                                                *)

\* authenticate_hash of an expiring session.
Authenticate(w) ==
    /\ At(w, "idle")
    /\ Present
    /\ ValidModel
    /\ row.access # "fresh"
    /\ Goto(w, [pc |-> "stale"])
    /\ UNCHANGED <<row, upstream, leases, failures>>

\* Mutant of EnterRefresh: lock_for forgets a lock that is in use.
EnterRefreshAnew(w) ==
    /\ At(w, "stale")
    /\ worker' = [worker EXCEPT ![w].pc = "leading"]
    /\ queue' = [queue EXCEPT ![replica[w]] = Append(@, w)]
    /\ UNCHANGED <<row, upstream, replica, leases, failures>>

\* refresh_fenced up to its await: lock_for finds or makes the lock of the
\* session, and try_lock_owned makes the request the leader or a follower.
EnterRefresh(w) ==
    LET q == queue[replica[w]]
    IN  /\ At(w, "stale")
        /\ worker' = [worker EXCEPT ![w].pc = IF q = <<>> THEN "leading" ELSE "waiting"]
        /\ queue' = [queue EXCEPT ![replica[w]] = Append(@, w)]
        /\ UNCHANGED <<row, upstream, replica, leases, failures>>

\* The coordinator has its fill of other sessions' locks.
EnterRefused(w) ==
    /\ At(w, "stale")
    /\ queue[replica[w]] = <<>>
    /\ Done(w)
    /\ UNCHANGED <<row, upstream, leases, failures>>

\* A follower gets the lock, rereads the row once
\* (outcome_after_lost_refresh) and answers with what it finds.
Follow(w) ==
    /\ At(w, "waiting")
    /\ Head(queue[replica[w]]) = w
    /\ Done(w)
    /\ UNCHANGED <<row, upstream, leases, failures>>

\* claim_refresh takes the lease ...
ClaimRefresh(w) ==
    /\ At(w, "leading")
    /\ Present
    /\ ValidModel
    /\ row.access # "fresh"
    /\ row.lease = None \/ ~row.leaseLive
    /\ leases < MaxLeases
    /\ leases' = leases + 1
    /\ row' = [row EXCEPT !.lease = leases + 1, !.leaseLive = TRUE]
    /\ Goto(w, [pc |-> "refreshing", lease |-> leases + 1, token |-> row.token])
    /\ UNCHANGED <<upstream, failures>>

\* ... or finds the session gone, invalid, fresh by now, its tokens
\* unreadable, or the lease busy until the poll gives up.
LeaveRefresh(w) ==
    /\ At(w, "leading")
    /\ Done(w)
    /\ UNCHANGED <<row, upstream, leases, failures>>

\* The upstream call of execute_refresh_claim.
CallRefresh(w) ==
    /\ At(w, "refreshing")
    /\ \/ /\ Accepts(worker[w].token)
          /\ Rotate
          /\ Goto(w, [worker[w] EXCEPT !.pc = "refreshed", !.token = upstream.token + 1])
          /\ UNCHANGED failures
       \/ /\ ~Accepts(worker[w].token)
          /\ Goto(w, [worker[w] EXCEPT !.pc = "rejected"])
          /\ UNCHANGED <<upstream, failures>>
       \/ /\ Fails
          /\ Goto(w, [worker[w] EXCEPT !.pc = "unavailable"])
          /\ UNCHANGED upstream \/ (Accepts(worker[w].token) /\ Rotate)
       \/ /\ Fails   \* another user's or session's tokens
          /\ Goto(w, [worker[w] EXCEPT !.pc = "rejected"])
          /\ Accepts(worker[w].token) /\ Rotate
    /\ UNCHANGED <<row, leases>>

\* Mutant of PersistRefresh: neither the lease nor the session is checked
\* again.
PersistRefreshUnchecked(w) ==
    /\ At(w, "refreshed")
    /\ Present
    /\ row' = [ClearLease EXCEPT !.token = worker[w].token, !.access = "fresh"]
    /\ Done(w)
    /\ UNCHANGED <<upstream, leases, failures>>

\* The persisting transaction of execute_refresh_claim.
PersistRefresh(w) ==
    /\ At(w, "refreshed")
    /\ row' = IF ~HoldsLease(w) THEN row
              ELSE IF ~ValidModel THEN ClearLease
              ELSE [ClearLease EXCEPT !.token = worker[w].token, !.access = "fresh"]
    /\ Done(w)
    /\ UNCHANGED <<upstream, leases, failures>>

\* Mutant of FinishRefresh: rejected credentials count as an outage.
FinishRefreshKeeping(w) ==
    /\ At(w, "rejected") \/ At(w, "unavailable")
    /\ row' = IF HoldsLease(w) THEN ClearLease ELSE row
    /\ Done(w)
    /\ UNCHANGED <<upstream, leases, failures>>

\* finish_refresh_claim, revoking or not.
FinishRefresh(w) ==
    /\ At(w, "rejected") \/ At(w, "unavailable")
    /\ row' = IF ~HoldsLease(w) THEN row
              ELSE IF At(w, "rejected") THEN Mark(row)
              ELSE ClearLease
    /\ Done(w)
    /\ UNCHANGED <<upstream, leases, failures>>

-----------------------------------------------------------------------------
(* Logout and reconciliation.                                              *)

\* A logout request is authenticated by its session ...
BeginLogout(w) ==
    /\ At(w, "idle")
    /\ Present
    /\ ValidModel
    /\ row.access = "fresh"
    /\ Goto(w, [pc |-> "leaving"])
    /\ UNCHANGED <<row, upstream, leases, failures>>

\* ... before queue_revocation, the first half of revoke. A row that is
\* gone leaves nothing to do.
Logout(w) ==
    /\ At(w, "leaving")
    /\ row' = IF Present THEN Mark(row) ELSE row
    /\ Goto(w, [pc |-> "queued"])
    /\ UNCHANGED <<upstream, leases, failures>>

\* reconcile_revocations reads the expired sessions, without a lock.
ReadExpired(w) ==
    /\ At(w, "idle")
    /\ Goto(w, [pc |-> "scanned",
                seen |-> IF Present /\ ~row.revoked /\ row.expired THEN row ELSE None])
    /\ UNCHANGED <<row, upstream, leases, failures>>

\* Terminal for the retention time, and useless as a bearer token.
Prunable(r) == (r.confirmed \/ r.abandoned) /\ r.access = "expired"

\* The rest of its transaction: mark what was read, find what is due, and
\* prune what has been terminal for the retention time. Updating a row that
\* was pruned meanwhile fails the transaction.
Reconcile(w) ==
    LET seen == worker[w].seen
        marked == IF seen = None THEN row ELSE Mark(seen)
        due == /\ marked.pending
               /\ ~marked.confirmed
               /\ ~marked.abandoned
               /\ marked.next = "due"
    IN  /\ At(w, "scanned")
        /\ IF ~Present
           THEN Done(w) /\ UNCHANGED row
           ELSE /\ row' = marked \/ (Prunable(marked) /\ row' = None)
                /\ Goto(w, IF due THEN [pc |-> "queued"] ELSE Idle)
        /\ UNCHANGED <<upstream, leases, failures>>

Claimable == Present /\ row.revoked /\ ~Terminal /\ row.next # "later"

\* claim_revocation takes the lease ...
ClaimRevocation(w) ==
    /\ At(w, "queued")
    /\ Claimable
    /\ row' = [row EXCEPT !.attempts = @ + 1, !.next = "later"]
    /\ Goto(w, [pc |-> "claimed", attempts |-> row.attempts + 1, token |-> row.token,
                refreshed |-> FALSE, expired |-> row.access = "expired"])
    /\ UNCHANGED <<upstream, leases, failures>>

\* ... or finds the tokens unreadable ...
ClaimUnreadable(w) ==
    /\ At(w, "queued")
    /\ Claimable
    /\ Fails
    /\ row' = [row EXCEPT !.attempts = @ + 1, !.next = "none", !.pending = FALSE,
                          !.abandoned = TRUE]
    /\ Done(w)
    /\ UNCHANGED <<upstream, leases>>

\* ... or nothing to do.
LeaveRevocation(w) ==
    /\ At(w, "queued")
    /\ ~Claimable
    /\ Done(w)
    /\ UNCHANGED <<row, upstream, leases, failures>>

\* The upstream call of refresh_revocation_claim, made when the access
\* token has expired (found so at once, or by a refused sign-out).
CallRotate(w) ==
    LET c == worker[w]
    IN  /\ At(w, "claimed")
        /\ c.expired /\ ~c.refreshed
        /\ \/ /\ Accepts(c.token)
              /\ Rotate
              /\ Goto(w, [c EXCEPT !.pc = "rotated", !.token = upstream.token + 1,
                                   !.refreshed = TRUE, !.expired = FALSE])
              /\ UNCHANGED failures
           \/ /\ ~Accepts(c.token)
              /\ Goto(w, [c EXCEPT !.pc = "refused"])
              /\ UNCHANGED <<upstream, failures>>
           \/ /\ Fails
              /\ Goto(w, [c EXCEPT !.pc = "deferred"])
              /\ UNCHANGED upstream \/ (Accepts(c.token) /\ Rotate)
        /\ UNCHANGED <<row, leases>>

\* persist_revocation_rotation; without the claim the worker stops.
PersistRotation(w) ==
    /\ At(w, "rotated")
    /\ IF HoldsClaim(w)
       THEN /\ row' = [row EXCEPT !.token = worker[w].token, !.access = "fresh"]
            /\ Goto(w, [worker[w] EXCEPT !.pc = "claimed"])
       ELSE Done(w) /\ UNCHANGED row
    /\ UNCHANGED <<upstream, leases, failures>>

\* AuthProvider::sign_out. A 401 means that the access token has expired,
\* or that the session is gone.
CallSignOut(w) ==
    LET c == worker[w]
    IN  /\ At(w, "claimed")
        /\ ~c.expired
        /\ \/ /\ upstream' = [upstream EXCEPT !.live = FALSE]
              /\ Goto(w, [c EXCEPT !.pc = "acknowledged"])
              /\ UNCHANGED failures
           \/ /\ ~c.refreshed
              /\ Goto(w, [c EXCEPT !.expired = TRUE])
              /\ UNCHANGED <<upstream, failures>>
           \/ /\ c.refreshed
              /\ ~upstream.live
              /\ Goto(w, [c EXCEPT !.pc = "deferred"])
              /\ UNCHANGED <<upstream, failures>>
           \/ /\ Fails
              /\ Goto(w, [c EXCEPT !.pc = "deferred"])
              /\ UNCHANGED upstream \/ upstream' = [upstream EXCEPT !.live = FALSE]
        /\ UNCHANGED <<row, leases>>

\* confirm_revocation, abandon_revocation and defer_revocation, each behind
\* the fence of the claim.
Conclude(w, label, conclusion) ==
    /\ At(w, label)
    /\ row' = IF HoldsClaim(w) THEN conclusion ELSE row
    /\ Done(w)
    /\ UNCHANGED <<upstream, leases, failures>>

Confirm(w) ==
    Conclude(w, "acknowledged",
        [row EXCEPT !.confirmed = TRUE, !.abandoned = FALSE,
                    !.pending = FALSE, !.next = "none"])

\* Mutant of Abandon: rejected credentials count as signed out.
AbandonAsConfirmed(w) ==
    Conclude(w, "refused",
        [row EXCEPT !.confirmed = TRUE, !.pending = FALSE, !.next = "none"])

Abandon(w) ==
    Conclude(w, "refused",
        [row EXCEPT !.abandoned = TRUE, !.pending = FALSE, !.next = "none"])

Defer(w) ==
    Conclude(w, "deferred", [row EXCEPT !.pending = TRUE, !.next = "later"])

Crash(w) ==
    /\ ~At(w, "idle")
    /\ Fails
    /\ Done(w)
    /\ UNCHANGED <<row, upstream, leases>>

-----------------------------------------------------------------------------

Refreshing(w) ==
    \/ EnterRefresh(w)
    \/ EnterRefused(w)
    \/ Follow(w)
    \/ ClaimRefresh(w)
    \/ LeaveRefresh(w)
    \/ CallRefresh(w)
    \/ PersistRefresh(w)
    \/ FinishRefresh(w)

Revoking(w) ==
    \/ ClaimRevocation(w)
    \/ ClaimUnreadable(w)
    \/ LeaveRevocation(w)
    \/ CallRotate(w)
    \/ PersistRotation(w)
    \/ CallSignOut(w)
    \/ Confirm(w)
    \/ Abandon(w)
    \/ Defer(w)

SessionNext ==
    \/ Age
    \/ RetryDue
    \/ \E w \in Web : Authenticate(w) \/ Refreshing(w) \/ BeginLogout(w) \/ Logout(w)
    \/ \E w \in Revokers : ReadExpired(w) \/ Reconcile(w)
    \/ \E w \in Workers : Revoking(w) \/ Crash(w)

SessionSpec == SessionInit /\ [][SessionNext]_sessionVars

\* Workers run, upstream answers, time passes, and the revoker's ticker
\* keeps starting reconciliations.
FairSessionSpec ==
    /\ SessionSpec
    /\ WF_sessionVars(RetryDue)
    /\ \A w \in Web : WF_sessionVars(Refreshing(w))
    /\ \A w \in Workers : WF_sessionVars(Revoking(w))
    /\ \A w \in Revokers : WF_sessionVars(ReadExpired(w) \/ Reconcile(w))

-----------------------------------------------------------------------------
(* What the session service promises.                                      *)

\* Logout is locally authoritative: a revoked row stays revoked, and no
\* refresh that was in flight gives it a lease or new tokens again; only a
\* holder of the revocation claim may still rotate them. Its terminal result
\* is never changed nor joined by the other one, and no attempt is made after it.
LogoutIsFinal ==
    [][(Present /\ row.revoked /\ row' # None) =>
          /\ row'.revoked
          /\ row'.lease = None
          /\ row'.token # row.token =>
                \E w \in Workers : At(w, "rotated") /\ HoldsClaim(w)
          /\ Terminal => /\ row'.confirmed = row.confirmed
                         /\ row'.abandoned = row.abandoned
                         /\ row'.attempts = row.attempts]_sessionVars

\* The stored tokens never go back to a pair that was already exchanged,
\* although answers arrive after leases ran out and were taken over.
TokensMoveForward ==
    [][(Present /\ row' # None) => row'.token >= row.token]_sessionVars

\* The service reports a logout as confirmed only if upstream has ended the
\* session, and never both confirmed and abandoned.
ConfirmedMeansSignedOut ==
    Present /\ row.confirmed => ~upstream.live /\ ~row.abandoned

\* In one replica at most one request at a time claims, calls upstream and
\* stores for a session; the requests that meet it neither poll nor call.
LocalSingleFlight ==
    \A v, w \in Web :
        (/\ v # w
         /\ worker[v].pc \in {"leading", "refreshing", "refreshed", "rejected", "unavailable"})
        => ~(/\ replica[v] = replica[w]
             /\ worker[w].pc \in {"leading", "refreshing", "refreshed", "rejected",
                                  "unavailable"})

\* Every request that meets a stale session returns: its leader's death or a
\* dropped neighbour never leaves it waiting for the coordinator's lock.
RequestsReturn == \A w \in Web : At(w, "waiting") ~> At(w, "idle")

\* The row never holds tokens that upstream has not issued; and when upstream
\* no longer accepts them, the holder of the lease is about to store better
\* ones or to learn of the loss and revoke: unless something fails, no
\* hand-over of a lease leaves a usable session with dead tokens.
LostTokensAreNoticed ==
    /\ Present => row.token <= upstream.token
    /\ (Present /\ ValidModel /\ failures = 0 /\ ~Accepts(row.token))
       => \E w \in Web :
             /\ worker[w].pc \in {"refreshing", "refreshed", "rejected"}
             /\ HoldsLease(w)
             /\ At(w, "refreshed") => Accepts(worker[w].token)

\* Every logout, and every session that expires, is eventually settled, and
\* its row is not pruned before: until then its bearer tokens are refused.
LogoutsSettle ==
    (Present /\ (row.revoked \/ row.expired)) ~> (Present /\ Terminal)

-----------------------------------------------------------------------------
(* The life of the session behind the row.                                 *)

Phase ==
    IF ~Present           THEN "gone"
    ELSE IF row.confirmed THEN "signed_out"
    ELSE IF row.abandoned THEN "given_up"
    ELSE IF row.revoked   THEN "ending"
    ELSE IF row.expired   THEN "expired"
    ELSE "active"

Stored == IF Present THEN row.token ELSE None

Life == INSTANCE SessionLife WITH
            phase  <- Phase,
            live   <- upstream.live,
            issued <- upstream.token,
            stored <- Stored

\* However many replicas refresh the session and revokers end it, with leases
\* that run out, answers that come late and workers that die, the row and
\* upstream go through one life: no refresh token is spent when a newer one
\* is stored, tokens are replaced by newer ones only, no session in use is
\* signed out, and an end is settled once and only then forgotten.
ImplementsLife == Life!LifeSpec
=============================================================================
