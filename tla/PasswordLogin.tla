--------------------------- MODULE PasswordLogin ---------------------------
(***************************************************************************)
(* Password logins of one web process (src/routes/auth.rs, login), with    *)
(* the budgets they are charged to (src/auth/rate_limit.rs), and the two   *)
(* semaphores that bound the calls in flight at the authentication         *)
(* service: one for logins, one for bearer tokens (src/auth/extractor.rs). *)
(*                                                                         *)
(* An attempt observes the time and then waits for the limiter's lock, so  *)
(* attempts are decided out of the order of the times they are decided by. *)
(* Time is a clock of ticks, and an attempt waits at most MaxDelay.        *)
(***************************************************************************)
EXTENDS Integers, FiniteSets, FiniteSetsExt

CONSTANTS
    Logins,        \* places for login requests in flight
    Bearers,       \* places for requests with a bearer token in flight
    Accounts,      \* normalised emails (account_key)
    MaxAttempts,   \* login_rate_limit_attempts
    GlobalMax,     \* login_rate_limit_global_attempts
    Window,        \* login_rate_limit_window, in ticks
    MaxKeys,       \* login_rate_limit_max_keys
    LoginPermits,  \* login_auth_max_concurrency
    BearerPermits, \* bearer_auth_max_concurrency
    MaxDelay,      \* bound: an attempt is decided within this many ticks
    MaxClock,      \* bound on the clock
    MaxSubmits     \* bound on the login attempts

ASSUME LoginAssumption ==
    /\ {MaxAttempts, GlobalMax, Window, MaxKeys, LoginPermits, BearerPermits} \subseteq Nat \ {0}
    /\ {MaxDelay, MaxClock, MaxSubmits} \subseteq Nat
    /\ MaxDelay < Window

VARIABLES
    clock,
    limiter,   \* [global, accounts]: State; accounts maps the accounts known
    permits,   \* [login, bearer]: what is left in the semaphores
    request,   \* [Logins \cup Bearers -> what the request is doing]
    submits,   \* login attempts so far
    tried,     \* history: the attempts that were sent upstream
    told       \* history: the Retry-After answers, each with the window that
               \* refused and the time when the wait is over

loginVars == <<clock, limiter, permits, request, submits, tried, told>>

Times == 0..MaxClock

Idle == [pc |-> "idle"]

\* An AttemptWindow.
Counted == [opened : Times, attempts : Nat]

\* A State: the windows of some accounts beside the global one.
IsLimiter(s) ==
    /\ s = [global |-> s.global, accounts |-> s.accounts]
    /\ s.global \in Counted
    /\ DOMAIN s.accounts \subseteq Accounts
    /\ \A a \in DOMAIN s.accounts : s.accounts[a] \in Counted

\* A login request; its number n is history.
Login == [pc : {"observed", "allowed", "signing", "creating"},
          n : Nat, account : Accounts, at : Times]

\* What is remembered of an attempt.
Attempt == [n : Nat, account : Accounts, at : Times]

Reasons == {"GlobalBudget", "KeyCapacity", "AccountBudget"}

\* Type correctness: windows are known for accounts only, and what is left in
\* a semaphore is never negative.
LoginTypeOK ==
    /\ clock \in Times
    /\ IsLimiter(limiter)
    /\ permits \in [login : Nat, bearer : Nat]
    /\ request \in [Logins \cup Bearers -> {Idle, [pc |-> "verifying"]} \cup Login]
    /\ submits \in Nat
    /\ tried \subseteq Attempt
    /\ told \subseteq [reason : Reasons, account : Accounts, opened : Times, over : Nat]

\* State::empty at start-up, and full semaphores.
LoginInit ==
    /\ clock = 0
    /\ limiter = [global |-> [opened |-> 0, attempts |-> 0], accounts |-> <<>>]
    /\ permits = [login |-> LoginPermits, bearer |-> BearerPermits]
    /\ request = [r \in Logins \cup Bearers |-> Idle]
    /\ submits = 0
    /\ tried = {}
    /\ told = {}

-----------------------------------------------------------------------------
(* The limiter.                                                            *)

\* saturating_duration_since
Since(now, opened) == IF now > opened THEN now - opened ELSE 0

\* One more attempt in window w. Past its limit the number of attempts does
\* not matter, and is not counted on.
Charge(w, limit) == [w EXCEPT !.attempts = Min({@ + 1, limit + 1})]

Fresh(now) == [opened |-> now, attempts |-> 0]

\* Mutant of RetryAfter: what is left of a tick does not count.
RetryAfterTruncated(now, opened) == Max({Window - Since(now, opened) - 1, 1})

\* retry_after, in whole ticks.
RetryAfter(now, opened) == Max({Window - Since(now, opened), 1})

Rejected(reason, now, opened) ==
    [allowed |-> FALSE, reason |-> reason, opened |-> opened,
     wait |-> RetryAfter(now, opened)]

Allowed == [allowed |-> TRUE]

\* The window of account a among the known ones, charged.
AccountWindow(known, a, now) ==
    Charge(IF a \in DOMAIN known THEN known[a] ELSE Fresh(now), MaxAttempts)

\* Mutant of Full: accounts are held to the global budget.
FullByGlobal(window) == window.attempts > GlobalMax

Full(window) == window.attempts > MaxAttempts

\* Mutant of Room: the oldest window makes room for a new account.
RoomByEviction(known, a) ==
    IF a \in DOMAIN known \/ Cardinality(DOMAIN known) < MaxKeys
    THEN known
    ELSE LET oldest == CHOOSE b \in DOMAIN known :
                          \A c \in DOMAIN known : known[b].opened <= known[c].opened
         IN  [b \in DOMAIN known \ {oldest} |-> known[b]]

\* Live windows are not evicted to make room.
Room(known, a) == known

\* reduce_rate_limit: the limiter and the outcome after an attempt for
\* account a observed at now. Windows are pruned only once the global budget
\* admits the attempt.
Reduce(s, a, now) ==
    LET global == Charge(IF Since(now, s.global.opened) >= Window
                         THEN Fresh(now) ELSE s.global, GlobalMax)
        live == {b \in DOMAIN s.accounts : Since(now, s.accounts[b].opened) < Window}
        known == Room([b \in live |-> s.accounts[b]], a)
        window == AccountWindow(known, a, now)
        accounts == [b \in DOMAIN known \cup {a} |-> IF b = a THEN window ELSE known[b]]
    IN  IF global.attempts > GlobalMax
        THEN [state |-> [s EXCEPT !.global = global],
              outcome |-> Rejected("GlobalBudget", now, global.opened)]
        ELSE IF a \notin DOMAIN known /\ Cardinality(DOMAIN known) >= MaxKeys
        THEN [state |-> [global |-> global, accounts |-> known],
              outcome |-> Rejected("KeyCapacity", now,
                                   Min({known[b].opened : b \in DOMAIN known}))]
        ELSE [state |-> [global |-> global, accounts |-> accounts],
              outcome |-> IF Full(window)
                          THEN Rejected("AccountBudget", now, window.opened)
                          ELSE Allowed]

-----------------------------------------------------------------------------
(* A login.                                                                *)

At(r, label) == request[r].pc = label
Goto(r, state) == request' = [request EXCEPT ![r] = state]

AttemptOf(r) ==
    [n |-> request[r].n, account |-> request[r].account, at |-> request[r].at]

\* Past the origin and CSRF checks, which charge no budget; check observes
\* the time.
Submit(r) ==
    /\ At(r, "idle")
    /\ submits < MaxSubmits
    /\ submits' = submits + 1
    /\ \E a \in Accounts :
          Goto(r, [pc |-> "observed", n |-> submits', account |-> a, at |-> clock])
    /\ UNCHANGED <<clock, limiter, permits, tried, told>>

\* The rest of LoginRateLimiter::check, under its lock. A refused attempt is
\* answered with the wait.
Check(r) ==
    LET transition == Reduce(limiter, request[r].account, request[r].at)
        outcome == transition.outcome
    IN  /\ At(r, "observed")
        /\ limiter' = transition.state
        /\ IF outcome.allowed
           THEN /\ Goto(r, [request[r] EXCEPT !.pc = "allowed"])
                /\ UNCHANGED told
           ELSE /\ Goto(r, Idle)
                /\ told' = told \cup {[reason |-> outcome.reason,
                                       account |-> request[r].account,
                                       opened |-> outcome.opened,
                                       over |-> clock + outcome.wait]}
        /\ UNCHANGED <<clock, permits, submits, tried>>

\* try_acquire_owned, and the sign-in that is on its way with the permit.
Acquire(r) ==
    /\ At(r, "allowed")
    /\ permits.login > 0
    /\ permits' = [permits EXCEPT !.login = @ - 1]
    /\ tried' = tried \cup {AttemptOf(r)}
    /\ Goto(r, [request[r] EXCEPT !.pc = "signing"])
    /\ UNCHANGED <<clock, limiter, submits, told>>

\* LoginAuthBusy: the attempt stays charged.
Busy(r) ==
    /\ At(r, "allowed")
    /\ permits.login = 0
    /\ Goto(r, Idle)
    /\ UNCHANGED <<clock, limiter, permits, submits, tried, told>>

\* password_sign_in brings tokens, and the session is to be created.
SignedIn(r) ==
    /\ At(r, "signing")
    /\ Goto(r, [request[r] EXCEPT !.pc = "creating"])
    /\ UNCHANGED <<clock, limiter, permits, submits, tried, told>>

\* The request's permit drops with its future, whatever the answer.
Returns(r) ==
    /\ Goto(r, Idle)
    /\ permits' =
          [permits EXCEPT
              !.login = @ + (IF At(r, "signing") \/ At(r, "creating") THEN 1 ELSE 0),
              !.bearer = @ + (IF At(r, "verifying") THEN 1 ELSE 0)]

\* The credentials are not accepted, or the service fails; the session is
\* created, or the database fails.
Answer(r) ==
    /\ At(r, "signing") \/ At(r, "creating")
    /\ Returns(r)
    /\ UNCHANGED <<clock, limiter, submits, tried, told>>

\* The client goes away and the handler's future is dropped where it awaits.
Cancel(r) ==
    /\ At(r, "observed")
    /\ Returns(r)
    /\ UNCHANGED <<clock, limiter, submits, tried, told>>

-----------------------------------------------------------------------------
(* A bearer token.                                                         *)

\* authenticate with a permit; without one the answer is AuthBusy at once.
Verify(r) ==
    /\ At(r, "idle")
    /\ permits.bearer > 0
    /\ permits' = [permits EXCEPT !.bearer = @ - 1]
    /\ Goto(r, [pc |-> "verifying"])
    /\ UNCHANGED <<clock, limiter, submits, tried, told>>

\* authenticate_bearer verifies the token and that its session is not revoked
\* here, or fails.
Verified(r) ==
    /\ At(r, "verifying")
    /\ Returns(r)
    /\ UNCHANGED <<clock, limiter, submits, tried, told>>

\* No attempt waits longer than MaxDelay for the lock.
Tick ==
    /\ clock < MaxClock
    /\ clock' = clock + 1
    /\ \A r \in Logins : At(r, "observed") => clock - request[r].at < MaxDelay
    /\ UNCHANGED <<limiter, permits, request, submits, tried, told>>

LoginNext ==
    \/ Tick
    \/ \E r \in Logins :
          \/ Submit(r) \/ Check(r) \/ Cancel(r)
          \/ Acquire(r) \/ Busy(r) \/ SignedIn(r) \/ Answer(r)
    \/ \E r \in Bearers : Verify(r) \/ Verified(r)

LoginSpec == LoginInit /\ [][LoginNext]_loginVars

-----------------------------------------------------------------------------
(* What the budgets promise.                                               *)

TriedIn(accounts, first, last) ==
    Cardinality({x \in tried : x.account \in accounts /\ x.at \in first..last})

\* How many windows, opened at least so far apart, can hold attempts of one
\* span that is as long as a window.
Windows(apart) == (2 * Window + MaxDelay - 2) \div apart + 1

\* No span as long as the window holds more attempts on an account that were
\* tried upstream than the budget of the account's windows that meet it: two,
\* and one more if attempts that wait for the lock, while others prune the
\* account's window, open the next one early; nor attempts on all accounts
\* than the budget of the global windows that meet it.
BudgetPerWindow ==
    \A first \in Times :
        LET last == Min({first + Window - 1, MaxClock})
        IN  /\ \A a \in Accounts :
                  TriedIn({a}, first, last) <= Windows(Window - MaxDelay) * MaxAttempts
            /\ TriedIn(Accounts, first, last) <= Windows(Window) * GlobalMax

Blocked(a) ==
    a \in DOMAIN limiter.accounts /\ limiter.accounts[a].attempts > MaxAttempts

\* However many other accounts are tried, a blocked account stays blocked, in
\* the same window, until an attempt comes after that window.
BlocksSurviveChurn ==
    [][\A a \in Accounts :
          LET window == limiter.accounts[a]
          IN  Blocked(a) /\ ~(Blocked(a)' /\ limiter'.accounts[a].opened = window.opened)
              => \E r \in Logins :
                    Check(r) /\ request[r].at >= window.opened + Window]_loginVars

\* Whoever waits as long as Retry-After said, counted from the answer, is not
\* refused by the window that refused before.
RetryAfterIsEnough ==
    [][\A r \in Logins : \A t \in told :
          LET outcome == Reduce(limiter, request[r].account, request[r].at).outcome
          IN  (/\ Check(r)
               /\ request[r].at >= t.over
               /\ ~outcome.allowed
               /\ outcome.reason = t.reason
               /\ t.reason = "AccountBudget" => t.account = request[r].account)
              => outcome.opened # t.opened]_loginVars

\* The calls in flight at the authentication service, or storing what it
\* answered, are exactly those with a permit: no answer, error or vanished
\* client loses a permit or leaves a call without one.
PermitsMatchCalls ==
    /\ permits.login + Cardinality({r \in Logins : At(r, "signing") \/ At(r, "creating")})
          = LoginPermits
    /\ permits.bearer + Cardinality({r \in Bearers : At(r, "verifying")}) = BearerPermits

\* Both ways in which the authentication service is spared: how often, and by
\* how many at once, it is called.
UpstreamIsSpared == BudgetPerWindow /\ PermitsMatchCalls
=============================================================================
