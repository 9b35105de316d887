------------------------ MODULE PasswordLoginProofs ------------------------
(***************************************************************************)
(* What is proved of PasswordLogin, for every budget, window, delay and    *)
(* number of permits, and any number of accounts and requests in flight.   *)
(***************************************************************************)
EXTENDS PasswordLogin, FiniteSetTheorems, WellFoundedInduction, TLAPS

-----------------------------------------------------------------------------
(* The limiter's arithmetic.                                               *)

LEMMA MinOfTwo ==
    ASSUME NEW x \in Int, NEW y \in Int
    PROVE  Min({x, y}) = IF x <= y THEN x ELSE y
    BY DEF Min

LEMMA MaxOfTwo ==
    ASSUME NEW x \in Int, NEW y \in Int
    PROVE  Max({x, y}) = IF x >= y THEN x ELSE y
    BY DEF Max

\* A set of times has a least one.
LEMMA MinOfMany ==
    ASSUME NEW S, S \subseteq Nat, S # {}
    PROVE  Min(S) \in S
    <1>1. \E x \in S : \A y \in S : ~(<<y, x>> \in OpToRel(<, Nat))
        BY NatLessThanWellFounded, WFMin
    <1>2. PICK x \in S : \A y \in S : ~(<<y, x>> \in OpToRel(<, Nat))
        BY <1>1
    <1>3. \A y \in S : ~(y < x)
        BY <1>2 DEF OpToRel
    <1>4. \A y \in S : x <= y
        BY <1>3
    <1>. QED  BY <1>4 DEF Min

\* A charged window is the same window, and one that is full stays full.
LEMMA Charged ==
    ASSUME NEW w \in Counted, NEW limit \in Nat
    PROVE  /\ Charge(w, limit) \in Counted
           /\ Charge(w, limit).opened = w.opened
           /\ w.attempts > limit => Charge(w, limit).attempts > limit
    <1>1. Charge(w, limit) =
              [opened |-> w.opened, attempts |-> Min({w.attempts + 1, limit + 1})]
        BY DEF Charge, Counted
    <1>2. w.opened \in Times /\ w.attempts \in Nat
        BY DEF Counted
    <1>3. Min({w.attempts + 1, limit + 1}) =
              IF w.attempts + 1 <= limit + 1 THEN w.attempts + 1 ELSE limit + 1
        BY <1>2, MinOfTwo
    <1>. QED  BY <1>1, <1>2, <1>3 DEF Counted

\* A wait lasts at least until the refusing window is over.
LEMMA WaitsLongEnough ==
    ASSUME NEW now \in Times, NEW opened \in Times
    PROVE  /\ RetryAfter(now, opened) \in Nat
           /\ now + RetryAfter(now, opened) >= opened + Window \/ now < opened
           /\ now < opened => RetryAfter(now, opened) >= Window
    <1>1. Window \in Nat \ {0} /\ MaxClock \in Nat
        BY LoginAssumption
    <1>2. Since(now, opened) \in Nat
        BY <1>1 DEF Since, Times
    <1>3. RetryAfter(now, opened) = IF Window - Since(now, opened) >= 1
                                    THEN Window - Since(now, opened) ELSE 1
        BY <1>1, <1>2, MaxOfTwo DEF RetryAfter
    <1>. QED  BY <1>1, <1>2, <1>3 DEF Since, Times

-----------------------------------------------------------------------------
(* What reduce_rate_limit decides.                                         *)

\* The accounts whose windows are not pruned.
Unpruned(s, now) == {b \in DOMAIN s.accounts : Since(now, s.accounts[b].opened) < Window}

\* The window that account a is charged to.
Current(s, a, now) ==
    Charge(IF a \in Unpruned(s, now) THEN s.accounts[a] ELSE Fresh(now), MaxAttempts)

\* The global window that any attempt is charged to.
CurrentGlobal(s, now) ==
    Charge(IF Since(now, s.global.opened) >= Window THEN Fresh(now) ELSE s.global, GlobalMax)

\* The three ways an attempt goes: the global budget is used up, the limiter
\* has no place for the account, or the account's window is charged.
OverGlobal(s, a, now, global) ==
    Reduce(s, a, now) =
        [state |-> [global |-> global, accounts |-> s.accounts],
         outcome |-> Rejected("GlobalBudget", now, global.opened)]

OverKeys(s, a, now, global) ==
    /\ Unpruned(s, now) # {}
    /\ Reduce(s, a, now) =
          [state |-> [global |-> global,
                      accounts |-> [b \in Unpruned(s, now) |-> s.accounts[b]]],
           outcome |-> Rejected("KeyCapacity", now,
                          Min({s.accounts[b].opened : b \in Unpruned(s, now)}))]

Charges(s, a, now, global) ==
    \E outcome \in {Allowed, Rejected("AccountBudget", now, Current(s, a, now).opened)} :
        /\ Reduce(s, a, now) =
              [state |-> [global |-> global,
                          accounts |-> [b \in Unpruned(s, now) \cup {a} |->
                                           IF b = a THEN Current(s, a, now)
                                           ELSE s.accounts[b]]],
               outcome |-> outcome]
        /\ outcome = Allowed => /\ global.attempts <= GlobalMax
                                /\ Current(s, a, now).attempts <= MaxAttempts

LEMMA ReduceCases ==
    ASSUME NEW s, IsLimiter(s), NEW a \in Accounts, NEW now \in Times
    PROVE  \E global \in Counted :
              /\ global = CurrentGlobal(s, now)
              /\ global.opened = IF Since(now, s.global.opened) >= Window
                                 THEN now ELSE s.global.opened
              /\ \/ OverGlobal(s, a, now, global)
                 \/ OverKeys(s, a, now, global)
                 \/ Charges(s, a, now, global)
    <1>. DEFINE global == Charge(IF Since(now, s.global.opened) >= Window
                                 THEN Fresh(now) ELSE s.global, GlobalMax)
                live == Unpruned(s, now)
                known == [b \in live |-> s.accounts[b]]
                window == AccountWindow(known, a, now)
                accounts == [b \in DOMAIN known \cup {a} |-> IF b = a THEN window ELSE known[b]]
    <1>1. Fresh(now) \in Counted /\ Fresh(now).opened = now
        BY DEF Fresh, Counted
    <1>2. /\ global \in Counted
          /\ global = CurrentGlobal(s, now)
          /\ global.opened = IF Since(now, s.global.opened) >= Window
                             THEN now ELSE s.global.opened
        BY <1>1, Charged, LoginAssumption DEF IsLimiter, CurrentGlobal
    <1>3. DOMAIN known = live /\ window = Current(s, a, now)
        BY DEF AccountWindow, Current
    <1>4. accounts = [b \in live \cup {a} |->
                         IF b = a THEN Current(s, a, now) ELSE s.accounts[b]]
        BY <1>3
    <1>5. Reduce(s, a, now) =
              IF global.attempts > GlobalMax
              THEN [state |-> [s EXCEPT !.global = global],
                    outcome |-> Rejected("GlobalBudget", now, global.opened)]
              ELSE IF a \notin DOMAIN known /\ Cardinality(DOMAIN known) >= MaxKeys
              THEN [state |-> [global |-> global, accounts |-> known],
                    outcome |-> Rejected("KeyCapacity", now,
                                         Min({known[b].opened : b \in DOMAIN known}))]
              ELSE [state |-> [global |-> global, accounts |-> accounts],
                    outcome |-> IF Full(window)
                                THEN Rejected("AccountBudget", now, window.opened)
                                ELSE Allowed]
        BY DEF Reduce, Room, Unpruned
    <1>6. [s EXCEPT !.global = global] = [global |-> global, accounts |-> s.accounts]
        BY DEF IsLimiter
    <1>7. {known[b].opened : b \in DOMAIN known} = {s.accounts[b].opened : b \in live}
        BY <1>3
    <1>8. Cardinality(DOMAIN known) >= MaxKeys => live # {}
        BY <1>3, FS_EmptySet, LoginAssumption
    <1>. HIDE DEF global, known, window, accounts
    <1>9. CASE global.attempts > GlobalMax
        BY <1>2, <1>5, <1>6, <1>9 DEF OverGlobal
    <1>10. CASE /\ ~(global.attempts > GlobalMax)
                /\ a \notin DOMAIN known /\ Cardinality(DOMAIN known) >= MaxKeys
        <2>1. Reduce(s, a, now) =
                 [state |-> [global |-> global, accounts |-> [b \in live |-> s.accounts[b]]],
                  outcome |-> Rejected("KeyCapacity", now,
                                 Min({s.accounts[b].opened : b \in live}))]
            BY <1>5, <1>7, <1>10 DEF known
        <2>. QED  BY <1>2, <1>8, <1>10, <2>1 DEF OverKeys
    <1>11. CASE /\ ~(global.attempts > GlobalMax)
                /\ ~(a \notin DOMAIN known /\ Cardinality(DOMAIN known) >= MaxKeys)
        <2>1. Reduce(s, a, now) =
                 [state |-> [global |-> global,
                             accounts |-> [b \in live \cup {a} |->
                                              IF b = a THEN Current(s, a, now)
                                              ELSE s.accounts[b]]],
                  outcome |-> IF Full(window)
                              THEN Rejected("AccountBudget", now, Current(s, a, now).opened)
                              ELSE Allowed]
            BY <1>3, <1>4, <1>5, <1>11
        <2>2. global.attempts <= GlobalMax
            BY <1>2, <1>11, LoginAssumption DEF Counted
        <2>3. Full(window) <=> ~(Current(s, a, now).attempts <= MaxAttempts)
            <3>1. Current(s, a, now) \in Counted
                <4>1. Fresh(now) \in Counted
                    BY <1>1
                <4>2. a \in live => s.accounts[a] \in Counted
                    BY DEF Unpruned, IsLimiter
                <4>. QED  BY <4>1, <4>2, Charged, LoginAssumption DEF Current
            <3>. QED  BY <1>3, <3>1, LoginAssumption DEF Full, Counted
        <2>4. Rejected("AccountBudget", now, Current(s, a, now).opened) # Allowed
            BY DEF Rejected, Allowed
        <2>5. CASE Full(window)
            BY <1>2, <2>1, <2>4, <2>5 DEF Charges
        <2>6. CASE ~Full(window)
            BY <1>2, <2>1, <2>2, <2>3, <2>6 DEF Charges
        <2>. QED  BY <2>5, <2>6
    <1>. QED  BY <1>9, <1>10, <1>11

\* The windows of unpruned accounts are still open at now.
LEMMA UnprunedOpen ==
    ASSUME NEW s, IsLimiter(s), NEW now \in Times, NEW b \in Unpruned(s, now)
    PROVE  /\ b \in Accounts
           /\ s.accounts[b] \in Counted
           /\ now < s.accounts[b].opened + Window
    BY LoginAssumption DEF Unpruned, IsLimiter, Counted, Since, Times

\* The window an attempt is charged to is known and open at now, or new.
LEMMA CurrentOpen ==
    ASSUME NEW s, IsLimiter(s), NEW a \in Accounts, NEW now \in Times
    PROVE  /\ Current(s, a, now) \in Counted
           /\ a \in Unpruned(s, now) =>
                 /\ Current(s, a, now).opened = s.accounts[a].opened
                 /\ s.accounts[a].attempts > MaxAttempts =>
                       Current(s, a, now).attempts > MaxAttempts
           /\ a \notin Unpruned(s, now) => Current(s, a, now).opened = now
    <1>1. Fresh(now) \in Counted /\ Fresh(now).opened = now
        BY DEF Fresh, Counted
    <1>2. MaxAttempts \in Nat
        BY LoginAssumption
    <1>. QED  BY <1>1, <1>2, UnprunedOpen, Charged DEF Current

\* The limiter stays a limiter; what a refusal names is a window.
LEMMA ReduceType ==
    ASSUME NEW s, IsLimiter(s), NEW a \in Accounts, NEW now \in Times
    PROVE  /\ IsLimiter(Reduce(s, a, now).state)
           /\ \/ Reduce(s, a, now).outcome = Allowed
              \/ \E reason \in Reasons, opened \in Times :
                    Reduce(s, a, now).outcome = Rejected(reason, now, opened)
    <1>1. PICK global \in Counted :
              OverGlobal(s, a, now, global) \/ OverKeys(s, a, now, global)
                  \/ Charges(s, a, now, global)
        BY ReduceCases
    <1>2. global.opened \in Times /\ Current(s, a, now).opened \in Times
        BY CurrentOpen DEF Counted
    <1>3. Unpruned(s, now) # {} =>
              Min({s.accounts[b].opened : b \in Unpruned(s, now)}) \in Times
        <2>1. {s.accounts[b].opened : b \in Unpruned(s, now)} \subseteq Times
            BY UnprunedOpen DEF Counted
        <2>2. Times \subseteq Nat
            BY LoginAssumption DEF Times
        <2>. QED  BY <2>1, <2>2, MinOfMany
    <1>4. IsLimiter([global |-> global, accounts |-> s.accounts])
        BY DEF IsLimiter
    <1>5. IsLimiter([global |-> global,
                     accounts |-> [b \in Unpruned(s, now) |-> s.accounts[b]]])
        BY UnprunedOpen DEF IsLimiter
    <1>6. IsLimiter([global |-> global,
                     accounts |-> [b \in Unpruned(s, now) \cup {a} |->
                                      IF b = a THEN Current(s, a, now)
                                      ELSE s.accounts[b]]])
        BY UnprunedOpen, CurrentOpen DEF IsLimiter
    <1>7. CASE OverGlobal(s, a, now, global)
        BY <1>2, <1>4, <1>7 DEF OverGlobal, Reasons
    <1>8. CASE OverKeys(s, a, now, global)
        <2>. DEFINE first == Min({s.accounts[b].opened : b \in Unpruned(s, now)})
        <2>1. first \in Times
            BY <1>3, <1>8 DEF OverKeys
        <2>2. /\ Reduce(s, a, now).state =
                    [global |-> global,
                     accounts |-> [b \in Unpruned(s, now) |-> s.accounts[b]]]
              /\ Reduce(s, a, now).outcome = Rejected("KeyCapacity", now, first)
            BY <1>8 DEF OverKeys
        <2>. HIDE DEF first
        <2>. QED  BY <1>5, <2>1, <2>2 DEF Reasons
    <1>9. CASE Charges(s, a, now, global)
        BY <1>2, <1>6, <1>9 DEF Charges, Reasons
    <1>. QED  BY <1>1, <1>7, <1>8, <1>9

\* A step of the limiter's lock decides a submitted attempt.
LEMMA CheckDecides ==
    ASSUME LoginTypeOK, NEW r \in Logins, Check(r)
    PROVE  /\ request[r] \in Login /\ request[r].pc = "observed"
           /\ request[r].account \in Accounts
           /\ request[r].at \in Times
           /\ request'[r].pc \in {"allowed", "idle"}
           /\ \A o \in Logins \cup Bearers : o # r => request'[o] = request[o]
           /\ limiter' = Reduce(limiter, request[r].account, request[r].at).state
           /\ IsLimiter(limiter)
    <1>. DEFINE transition == Reduce(limiter, request[r].account, request[r].at)
                allowed == transition.outcome.allowed
    <1>1. /\ request[r].pc = "observed"
          /\ limiter' = transition.state
          /\ request' = [request EXCEPT ![r] =
                             IF allowed THEN [request[r] EXCEPT !.pc = "allowed"] ELSE Idle]
        BY DEF Check, At, Goto
    <1>. HIDE DEF transition
    <1>2. /\ request[r] \in Login \cup {Idle, [pc |-> "verifying"]}
          /\ request = [o \in Logins \cup Bearers |-> request[o]]
          /\ r \in Logins \cup Bearers
          /\ IsLimiter(limiter)
        BY DEF LoginTypeOK
    <1>3. request[r] \in Login
        BY <1>1, <1>2 DEF Idle
    <1>. HIDE DEF allowed
    <1>4. /\ request'[r] = IF allowed THEN [request[r] EXCEPT !.pc = "allowed"] ELSE Idle
          /\ \A o \in Logins \cup Bearers : o # r => request'[o] = request[o]
        BY <1>1, <1>2
    <1>5. /\ [request[r] EXCEPT !.pc = "allowed"].pc = "allowed"
          /\ Idle.pc = "idle"
          /\ request[r].account \in Accounts
          /\ request[r].at \in Times
        BY <1>3 DEF Login, Idle
    <1>6. request'[r].pc \in {"allowed", "idle"}
        BY <1>4, <1>5
    <1>7. limiter' = Reduce(limiter, request[r].account, request[r].at).state
        BY <1>1 DEF transition
    <1>. QED  BY <1>1, <1>2, <1>3, <1>4, <1>5, <1>6, <1>7

-----------------------------------------------------------------------------
(* Typing.                                                                 *)

LEMMA LoginInitTyped == LoginInit => LoginTypeOK
    BY LoginAssumption
    DEF LoginInit, LoginTypeOK, IsLimiter, Times, Counted, Login, Idle

LEMMA LoginNextTyped == LoginTypeOK /\ [LoginNext]_loginVars => LoginTypeOK'
    <1>. SUFFICES ASSUME LoginTypeOK, [LoginNext]_loginVars
                  PROVE  LoginTypeOK'
        OBVIOUS
    <1>n. MaxClock \in Nat
        BY LoginAssumption
    <1>l. ASSUME limiter' = limiter PROVE IsLimiter(limiter)'
        BY <1>l DEF LoginTypeOK, IsLimiter
    <1>1. CASE UNCHANGED loginVars
        BY <1>1, <1>l DEF LoginTypeOK, loginVars
    <1>2. CASE Tick
        BY <1>2, <1>l, <1>n DEF Tick, LoginTypeOK, Times
    <1>3. ASSUME NEW r \in Logins, Submit(r) PROVE LoginTypeOK'
        BY <1>3, <1>l DEF Submit, Goto, LoginTypeOK, Login
    <1>4. ASSUME NEW r \in Logins, Check(r) PROVE LoginTypeOK'
        <2>1. /\ request[r].account \in Accounts
              /\ request[r].at \in Times
              /\ request[r] \in Login
            BY <1>4, CheckDecides
        <2>. DEFINE outcome == Reduce(limiter, request[r].account, request[r].at).outcome
        <2>2. IsLimiter(limiter)'
            <3>1. IsLimiter(Reduce(limiter, request[r].account, request[r].at).state)
                BY <1>4, <2>1, CheckDecides, ReduceType
            <3>. QED  BY <1>4, <3>1, CheckDecides DEF IsLimiter
        <2>3. request' \in [Logins \cup Bearers -> {Idle, [pc |-> "verifying"]} \cup Login]
            <3>1. request' \in {[request EXCEPT ![r] = [request[r] EXCEPT !.pc = "allowed"]],
                                [request EXCEPT ![r] = Idle]}
                BY <1>4 DEF Check, Goto
            <3>2. [request[r] EXCEPT !.pc = "allowed"] \in Login
                BY <2>1 DEF Login
            <3>. QED  BY <3>1, <3>2 DEF LoginTypeOK
        <2>4. told' \subseteq [reason : Reasons, account : Accounts, opened : Times, over : Nat]
            <3>1. CASE outcome.allowed
                BY <1>4, <3>1 DEF Check, LoginTypeOK
            <3>2. CASE ~outcome.allowed
                <4>1. PICK reason \in Reasons, opened \in Times :
                          outcome = Rejected(reason, request[r].at, opened)
                    BY <1>4, <2>1, <3>2, CheckDecides, ReduceType DEF Allowed
                <4>2. /\ outcome.reason = reason
                      /\ outcome.opened = opened
                      /\ outcome.wait = RetryAfter(request[r].at, opened)
                    BY <4>1 DEF Rejected
                <4>3. clock + outcome.wait \in Nat
                    <5>1. outcome.wait \in Nat
                        BY <2>1, <4>2, WaitsLongEnough
                    <5>2. clock \in Nat
                        BY <1>n DEF LoginTypeOK, Times
                    <5>. HIDE DEF outcome
                    <5>. QED  BY <5>1, <5>2
                <4>4. told' = told \cup {[reason |-> outcome.reason,
                                          account |-> request[r].account,
                                          opened |-> outcome.opened,
                                          over |-> clock + outcome.wait]}
                    BY <1>4, <3>2 DEF Check
                <4>5. told \subseteq [reason : Reasons, account : Accounts,
                                       opened : Times, over : Nat]
                    BY DEF LoginTypeOK
                <4>. HIDE DEF outcome
                <4>. QED  BY <2>1, <4>2, <4>3, <4>4, <4>5
            <3>. QED  BY <3>1, <3>2
        <2>. QED  BY <1>4, <2>2, <2>3, <2>4 DEF Check, LoginTypeOK
    <1>5. ASSUME NEW r \in Logins, Acquire(r) PROVE LoginTypeOK'
        <2>1. request[r] \in Login
            BY <1>5 DEF Acquire, At, LoginTypeOK, Idle
        <2>2. [request[r] EXCEPT !.pc = "signing"] \in Login
            BY <2>1 DEF Login
        <2>3. permits' \in [login : Nat, bearer : Nat]
            BY <1>5 DEF Acquire, LoginTypeOK
        <2>4. tried' \subseteq Attempt
            BY <1>5, <2>1 DEF Acquire, AttemptOf, Attempt, Login, LoginTypeOK
        <2>. QED  BY <1>5, <1>l, <2>2, <2>3, <2>4 DEF Acquire, Goto, LoginTypeOK
    <1>6. ASSUME NEW r \in Logins, Busy(r) PROVE LoginTypeOK'
        BY <1>6, <1>l DEF Busy, Goto, LoginTypeOK
    <1>7. ASSUME NEW r \in Logins, SignedIn(r) PROVE LoginTypeOK'
        <2>1. request[r] \in Login
            BY <1>7 DEF SignedIn, At, LoginTypeOK, Idle
        <2>2. [request[r] EXCEPT !.pc = "creating"] \in Login
            BY <2>1 DEF Login
        <2>. QED  BY <1>7, <1>l, <2>2 DEF SignedIn, Goto, LoginTypeOK
    <1>8. ASSUME NEW r \in Logins \cup Bearers, Answer(r) \/ Cancel(r) \/ Verified(r)
          PROVE  LoginTypeOK'
        <2>1. /\ Returns(r)
              /\ UNCHANGED <<clock, limiter, submits, tried, told>>
            BY <1>8 DEF Answer, Cancel, Verified
        <2>2. permits' \in [login : Nat, bearer : Nat]
            <3>. DEFINE login == IF At(r, "signing") \/ At(r, "creating") THEN 1 ELSE 0
                        bearer == IF At(r, "verifying") THEN 1 ELSE 0
            <3>1. permits' = [login |-> permits.login + login,
                              bearer |-> permits.bearer + bearer]
                BY <2>1 DEF Returns, LoginTypeOK
            <3>2. login \in Nat /\ bearer \in Nat
                OBVIOUS
            <3>3. permits.login \in Nat /\ permits.bearer \in Nat
                BY DEF LoginTypeOK
            <3>. HIDE DEF login, bearer
            <3>. QED  BY <3>1, <3>2, <3>3
        <2>3. request' \in [Logins \cup Bearers -> {Idle, [pc |-> "verifying"]} \cup Login]
            BY <2>1 DEF Returns, Goto, LoginTypeOK
        <2>. QED  BY <1>l, <2>1, <2>2, <2>3 DEF LoginTypeOK
    <1>9. ASSUME NEW r \in Bearers, Verify(r) PROVE LoginTypeOK'
        <2>1. permits' \in [login : Nat, bearer : Nat]
            BY <1>9 DEF Verify, LoginTypeOK
        <2>2. request' \in [Logins \cup Bearers -> {Idle, [pc |-> "verifying"]} \cup Login]
            BY <1>9 DEF Verify, Goto, LoginTypeOK
        <2>. QED  BY <1>9, <1>l, <2>1, <2>2 DEF Verify, LoginTypeOK
    <1>. QED
        BY <1>1, <1>2, <1>3, <1>4, <1>5, <1>6, <1>7, <1>8, <1>9 DEF LoginNext

\* Types hold in every state.
THEOREM LoginTyped == LoginSpec => []LoginTypeOK
    BY LoginInitTyped, LoginNextTyped, PTL DEF LoginSpec

-----------------------------------------------------------------------------
(* Blocked accounts.                                                       *)

\* Only the limiter's lock changes the limiter.
LEMMA OnlyCheckCharges ==
    ASSUME [LoginNext]_loginVars, limiter' # limiter
    PROVE  \E r \in Logins : Check(r)
    BY DEF LoginNext, loginVars, Tick, Submit, Cancel, Acquire, Busy, SignedIn, Answer,
           Verify, Verified

\* An attempt within an account's full window leaves that window, and it full.
LEMMA ReduceKeepsBlocks ==
    ASSUME NEW s, IsLimiter(s), NEW a \in Accounts, NEW now \in Times,
           NEW b \in DOMAIN s.accounts, s.accounts[b].attempts > MaxAttempts,
           now < s.accounts[b].opened + Window
    PROVE  LET after == Reduce(s, a, now).state.accounts
           IN  /\ b \in DOMAIN after
               /\ after[b].attempts > MaxAttempts
               /\ after[b].opened = s.accounts[b].opened
    <1>1. b \in Unpruned(s, now)
        BY LoginAssumption DEF Unpruned, IsLimiter, Counted, Since, Times
    <1>2. PICK global \in Counted :
              OverGlobal(s, a, now, global) \/ OverKeys(s, a, now, global)
                  \/ Charges(s, a, now, global)
        BY ReduceCases
    <1>3. CASE OverGlobal(s, a, now, global)
        BY <1>3 DEF OverGlobal
    <1>4. CASE OverKeys(s, a, now, global)
        BY <1>1, <1>4 DEF OverKeys
    <1>5. CASE Charges(s, a, now, global)
        BY <1>1, <1>5, CurrentOpen DEF Charges
    <1>. QED  BY <1>2, <1>3, <1>4, <1>5

\* For any number of accounts and any size of the limiter: no churn of other
\* accounts, and no order in which attempts get the lock, frees a blocked
\* account before its window is over.
THEOREM BlocksAlwaysSurvive == LoginSpec => BlocksSurviveChurn
    <1>. DEFINE Freed(a) ==
             /\ Blocked(a)
             /\ ~(Blocked(a)' /\ limiter'.accounts[a].opened = limiter.accounts[a].opened)
         Survives == \A a \in Accounts :
                         LET window == limiter.accounts[a]
                         IN  Blocked(a) /\ ~(Blocked(a)' /\ limiter'.accounts[a].opened = window.opened)
                             => \E r \in Logins :
                                   Check(r) /\ request[r].at >= window.opened + Window
    <1>1. ASSUME LoginTypeOK, [LoginNext]_loginVars, NEW a \in Accounts, Freed(a)
          PROVE  \E r \in Logins : Check(r) /\ request[r].at >= limiter.accounts[a].opened + Window
        <2>1. limiter' # limiter
            BY <1>1 DEF Blocked
        <2>2. PICK r \in Logins : Check(r)
            BY <1>1, <2>1, OnlyCheckCharges
        <2>3. CASE request[r].at >= limiter.accounts[a].opened + Window
            BY <2>2, <2>3
        <2>4. CASE ~(request[r].at >= limiter.accounts[a].opened + Window)
            <3>1. /\ request[r].account \in Accounts
                  /\ request[r].at \in Times
                  /\ IsLimiter(limiter)
                  /\ limiter' = Reduce(limiter, request[r].account, request[r].at).state
                BY <1>1, <2>2, CheckDecides
            <3>2. a \in DOMAIN limiter.accounts /\ limiter.accounts[a].attempts > MaxAttempts
                BY <1>1 DEF Blocked
            <3>3. request[r].at < limiter.accounts[a].opened + Window
                BY <2>4, <3>1, <3>2, LoginAssumption DEF IsLimiter, Counted, Times
            <3>4. /\ a \in DOMAIN limiter'.accounts
                  /\ limiter'.accounts[a].attempts > MaxAttempts
                  /\ limiter'.accounts[a].opened = limiter.accounts[a].opened
                BY <3>1, <3>2, <3>3, ReduceKeepsBlocks
            <3>. QED  BY <1>1, <3>4 DEF Blocked
        <2>. QED  BY <2>3, <2>4
    <1>2. LoginTypeOK /\ [LoginNext]_loginVars => [Survives]_loginVars
        BY <1>1
    <1>. QED  BY <1>2, LoginInitTyped, LoginNextTyped, PTL DEF LoginSpec, BlocksSurviveChurn

-----------------------------------------------------------------------------
(* Retry-After.                                                            *)

\* Windows are opened by attempts of the past, and every answer told to wait
\* until its window is over.
RetryInv ==
    /\ LoginTypeOK
    /\ limiter.global.opened <= clock
    /\ \A a \in DOMAIN limiter.accounts : limiter.accounts[a].opened <= clock
    /\ \A r \in Logins : At(r, "observed") => request[r].at <= clock
    /\ \A t \in told : t.over >= t.opened + Window

\* What a refusal names was open at the time of the attempt.
LEMMA ReduceNames ==
    ASSUME NEW s, IsLimiter(s), NEW a \in Accounts, NEW now \in Times,
           ~Reduce(s, a, now).outcome.allowed
    PROVE  /\ Reduce(s, a, now).outcome.opened \in Times
           /\ Reduce(s, a, now).outcome.wait =
                 RetryAfter(now, Reduce(s, a, now).outcome.opened)
           /\ now < Reduce(s, a, now).outcome.opened + Window
           /\ \/ Reduce(s, a, now).outcome.opened = now
              \/ Reduce(s, a, now).outcome.opened = s.global.opened
              \/ \E b \in DOMAIN s.accounts :
                    Reduce(s, a, now).outcome.opened = s.accounts[b].opened
    <1>n. Times \subseteq Nat /\ Window \in Nat \ {0}
        BY LoginAssumption DEF Times
    <1>1. PICK global \in Counted :
              /\ global.opened = IF Since(now, s.global.opened) >= Window
                                 THEN now ELSE s.global.opened
              /\ \/ OverGlobal(s, a, now, global)
                 \/ OverKeys(s, a, now, global)
                 \/ Charges(s, a, now, global)
        BY ReduceCases
    <1>2. CASE OverGlobal(s, a, now, global)
        <2>1. global.opened \in Times /\ s.global.opened \in Times
            BY DEF Counted, IsLimiter
        <2>2. now < global.opened + Window
            BY <1>n, <1>1, <2>1 DEF Since
        <2>3. Reduce(s, a, now).outcome = Rejected("GlobalBudget", now, global.opened)
            BY <1>2 DEF OverGlobal
        <2>. QED  BY <1>1, <2>1, <2>2, <2>3 DEF Rejected
    <1>3. CASE OverKeys(s, a, now, global)
        <2>1. {s.accounts[b].opened : b \in Unpruned(s, now)} \subseteq Nat
            BY <1>n, UnprunedOpen DEF Counted
        <2>2. PICK b \in Unpruned(s, now) :
                  Min({s.accounts[c].opened : c \in Unpruned(s, now)}) = s.accounts[b].opened
            BY <1>3, <2>1, MinOfMany DEF OverKeys
        <2>3. s.accounts[b].opened \in Times /\ now < s.accounts[b].opened + Window
            BY UnprunedOpen DEF Counted
        <2>4. b \in DOMAIN s.accounts
            BY DEF Unpruned
        <2>5. Reduce(s, a, now).outcome = Rejected("KeyCapacity", now, s.accounts[b].opened)
            BY <1>3, <2>2 DEF OverKeys
        <2>. QED  BY <2>3, <2>4, <2>5 DEF Rejected
    <1>4. CASE Reduce(s, a, now).outcome =
                  Rejected("AccountBudget", now, Current(s, a, now).opened)
        <2>1. Current(s, a, now).opened \in Times
            BY CurrentOpen DEF Counted
        <2>2. CASE a \in Unpruned(s, now)
            <3>1. /\ Current(s, a, now).opened = s.accounts[a].opened
                  /\ now < s.accounts[a].opened + Window
                  /\ a \in DOMAIN s.accounts
                BY <2>2, CurrentOpen, UnprunedOpen DEF Unpruned
            <3>. QED  BY <1>4, <2>1, <3>1 DEF Rejected
        <2>3. CASE a \notin Unpruned(s, now)
            BY <1>n, <1>4, <2>1, <2>3, CurrentOpen DEF Rejected
        <2>. QED  BY <2>2, <2>3
    <1>5. CASE Charges(s, a, now, global)
        BY <1>4, <1>5 DEF Charges, Allowed
    <1>. QED  BY <1>1, <1>2, <1>3, <1>5

\* The windows after an attempt are those before, or opened by it.
LEMMA ReduceOpens ==
    ASSUME NEW s, IsLimiter(s), NEW a \in Accounts, NEW now \in Times
    PROVE  /\ \/ Reduce(s, a, now).state.global.opened = now
              \/ Reduce(s, a, now).state.global.opened = s.global.opened
           /\ \A b \in DOMAIN Reduce(s, a, now).state.accounts :
                 \/ Reduce(s, a, now).state.accounts[b].opened = now
                 \/ /\ b \in DOMAIN s.accounts
                    /\ Reduce(s, a, now).state.accounts[b].opened = s.accounts[b].opened
    <1>1. Unpruned(s, now) \subseteq DOMAIN s.accounts
        BY DEF Unpruned
    <1>2. PICK global \in Counted :
              /\ global.opened = IF Since(now, s.global.opened) >= Window
                                 THEN now ELSE s.global.opened
              /\ \/ OverGlobal(s, a, now, global)
                 \/ OverKeys(s, a, now, global)
                 \/ Charges(s, a, now, global)
        BY ReduceCases
    <1>3. global.opened = now \/ global.opened = s.global.opened
        BY <1>2
    <1>4. CASE OverGlobal(s, a, now, global)
        BY <1>3, <1>4 DEF OverGlobal
    <1>5. CASE OverKeys(s, a, now, global)
        BY <1>1, <1>3, <1>5 DEF OverKeys
    <1>6. CASE Charges(s, a, now, global)
        BY <1>1, <1>3, <1>6, CurrentOpen DEF Charges
    <1>. QED  BY <1>2, <1>4, <1>5, <1>6

LEMMA RetryStep == RetryInv /\ [LoginNext]_loginVars => RetryInv'
    <1>. SUFFICES ASSUME RetryInv, [LoginNext]_loginVars
                  PROVE  RetryInv'
        OBVIOUS
    <1>t. LoginTypeOK /\ LoginTypeOK'
        BY LoginNextTyped DEF RetryInv
    <1>n. Times \subseteq Nat /\ Window \in Nat \ {0} /\ clock \in Nat
        BY <1>t, LoginAssumption DEF LoginTypeOK, Times
    <1>1. ASSUME UNCHANGED <<limiter, told>>, clock' = clock \/ clock' = clock + 1,
                 \A r \in Logins : At(r, "observed")' =>
                    (At(r, "observed") /\ request'[r].at = request[r].at)
                        \/ request'[r].at = clock
          PROVE  RetryInv'
        <2>1. \A a \in DOMAIN limiter.accounts : limiter.accounts[a].opened \in Nat
            BY <1>t, <1>n DEF LoginTypeOK, IsLimiter, Counted
        <2>2. limiter.global.opened \in Nat
            BY <1>t, <1>n DEF LoginTypeOK, IsLimiter, Counted
        <2>3. \A r \in Logins : At(r, "observed") => request[r].at \in Nat
            <3>. SUFFICES ASSUME NEW r \in Logins, At(r, "observed")
                          PROVE  request[r].at \in Nat
                OBVIOUS
            <3>1. request[r] \in Login
                BY <1>t DEF LoginTypeOK, At, Idle
            <3>. QED  BY <1>n, <3>1 DEF Login
        <2>4. \A r \in Logins : At(r, "observed")' => request'[r].at <= clock'
            BY <1>1, <1>n, <2>3 DEF RetryInv
        <2>. QED  BY <1>1, <1>t, <1>n, <2>1, <2>2, <2>4 DEF RetryInv
    <1>2. CASE Tick \/ UNCHANGED loginVars
        BY <1>1, <1>2 DEF Tick, loginVars, At
    <1>3. ASSUME NEW r \in Logins, Submit(r) PROVE RetryInv'
        BY <1>1, <1>3, <1>t DEF Submit, Goto, At, LoginTypeOK
    <1>4. ASSUME NEW r \in Logins \cup Bearers,
                 Acquire(r) \/ Busy(r) \/ SignedIn(r) \/ Answer(r) \/ Cancel(r)
                    \/ Verify(r) \/ Verified(r)
          PROVE  RetryInv'
        <2>1. UNCHANGED <<clock, limiter, told>>
            BY <1>4 DEF Acquire, Busy, SignedIn, Answer, Cancel, Verify, Verified
        <2>2. ~At(r, "observed")'
            <3>1. CASE Acquire(r) \/ SignedIn(r)
                <4>1. request[r] \in Login
                    BY <1>t, <3>1 DEF Acquire, SignedIn, At, LoginTypeOK, Idle
                <4>. QED  BY <1>t, <3>1, <4>1
                          DEF Acquire, SignedIn, Goto, At, LoginTypeOK, Login
            <3>2. CASE Busy(r) \/ Answer(r) \/ Cancel(r) \/ Verify(r) \/ Verified(r)
                BY <1>t, <3>2 DEF Busy, Answer, Cancel, Verify, Verified, Returns, Goto,
                                  At, LoginTypeOK, Idle
            <3>. QED  BY <1>4, <3>1, <3>2
        <2>3. \A o \in Logins : o # r => request'[o] = request[o]
            BY <1>4, <1>t DEF Acquire, Busy, SignedIn, Answer, Cancel, Verify, Verified,
                              Returns, Goto, LoginTypeOK
        <2>. QED  BY <1>1, <2>1, <2>2, <2>3 DEF At
    <1>5. ASSUME NEW r \in Logins, Check(r) PROVE RetryInv'
        <2>. DEFINE now == request[r].at
                    outcome == Reduce(limiter, request[r].account, now).outcome
        <2>1. /\ request[r].account \in Accounts
              /\ now \in Times
              /\ limiter' = Reduce(limiter, request[r].account, now).state
              /\ IsLimiter(limiter)
              /\ clock' = clock
            BY <1>5, <1>t, CheckDecides DEF Check
        <2>2. now <= clock
            BY <1>5 DEF RetryInv, Check
        <2>3. /\ limiter'.global.opened <= clock'
              /\ \A a \in DOMAIN limiter'.accounts : limiter'.accounts[a].opened <= clock'
            BY <2>1, <2>2, ReduceOpens DEF RetryInv
        <2>4. \A o \in Logins : At(o, "observed")' => request'[o].at <= clock'
            <3>1. ~At(r, "observed")'
                BY <1>5, <1>t, CheckDecides DEF At
            <3>2. \A o \in Logins : o # r => request'[o] = request[o]
                BY <1>5, <1>t, CheckDecides
            <3>. QED  BY <2>1, <3>1, <3>2 DEF RetryInv, At
        <2>5. \A t \in told' : t.over >= t.opened + Window
            <3>1. CASE outcome.allowed
                BY <1>5, <3>1 DEF Check, RetryInv
            <3>2. CASE ~outcome.allowed
                <4>1. /\ outcome.opened \in Times
                      /\ outcome.wait = RetryAfter(now, outcome.opened)
                      /\ outcome.opened <= clock
                    BY <2>1, <2>2, <3>2, ReduceNames DEF RetryInv
                <4>2. clock + outcome.wait >= outcome.opened + Window
                    <5>1. /\ RetryAfter(now, outcome.opened) \in Nat
                          /\ \/ now + RetryAfter(now, outcome.opened) >= outcome.opened + Window
                             \/ now < outcome.opened
                          /\ now < outcome.opened =>
                                RetryAfter(now, outcome.opened) >= Window
                        BY <2>1, <4>1, WaitsLongEnough
                    <5>2. outcome.opened \in Nat /\ now \in Nat
                        BY <1>n, <2>1, <4>1
                    <5>. HIDE DEF outcome, now
                    <5>. QED  BY <1>n, <2>2, <4>1, <5>1, <5>2
                <4>3. told' = told \cup {[reason |-> outcome.reason,
                                          account |-> request[r].account,
                                          opened |-> outcome.opened,
                                          over |-> clock + outcome.wait]}
                    BY <1>5, <3>2 DEF Check
                <4>. HIDE DEF outcome
                <4>. QED  BY <4>2, <4>3 DEF RetryInv
            <3>. QED  BY <3>1, <3>2
        <2>. QED  BY <1>t, <2>3, <2>4, <2>5 DEF RetryInv
    <1>. QED  BY <1>2, <1>3, <1>4, <1>5 DEF LoginNext

\* For every window and delay: no one who waited as told is refused by the
\* window that refused before, however attempts are reordered by the lock.
THEOREM RetryAlwaysEnough == LoginSpec => RetryAfterIsEnough
    <1>. DEFINE Enough ==
             \A r \in Logins : \A t \in told :
                LET outcome == Reduce(limiter, request[r].account, request[r].at).outcome
                IN  (/\ Check(r)
                     /\ request[r].at >= t.over
                     /\ ~outcome.allowed
                     /\ outcome.reason = t.reason
                     /\ t.reason = "AccountBudget" => t.account = request[r].account)
                    => outcome.opened # t.opened
    <1>1. LoginInit => RetryInv
        <2>. SUFFICES ASSUME LoginInit PROVE RetryInv
            OBVIOUS
        <2>1. LoginTypeOK
            BY LoginInitTyped
        <2>. QED  BY <2>1 DEF LoginInit, RetryInv, At, Idle
    <1>2. RetryInv => Enough
        <2>. SUFFICES ASSUME RetryInv, NEW r \in Logins, NEW t \in told, Check(r),
                             request[r].at >= t.over,
                             ~Reduce(limiter, request[r].account, request[r].at).outcome.allowed
                      PROVE  Reduce(limiter, request[r].account, request[r].at).outcome.opened
                                # t.opened
            OBVIOUS
        <2>1. /\ request[r].account \in Accounts
              /\ request[r].at \in Times
              /\ IsLimiter(limiter)
            BY CheckDecides DEF RetryInv
        <2>2. request[r].at <
                  Reduce(limiter, request[r].account, request[r].at).outcome.opened + Window
            BY <2>1, ReduceNames
        <2>3. /\ t.over >= t.opened + Window
              /\ t.over \in Nat /\ t.opened \in Nat
              /\ request[r].at \in Nat
              /\ Window \in Nat
            BY <2>1, LoginAssumption DEF RetryInv, LoginTypeOK, Times
        <2>. QED  BY <2>2, <2>3
    <1>3. RetryInv /\ [LoginNext]_loginVars => [Enough]_loginVars
        BY <1>2
    <1>. QED  BY <1>1, <1>3, RetryStep, PTL DEF LoginSpec, RetryAfterIsEnough

-----------------------------------------------------------------------------
(* Budgets.                                                                *)

\* Every attempt of S was charged as the nth one of a window win: of one that
\* was open when it was observed, or that a later attempt had opened while it
\* waited.  The windows lie apart, and hold no more than their limit.
Ledger(S, win, nth, limit, apart) ==
    /\ \A x \in S : /\ nth[x] \in 1..limit
                    /\ win[x] <= x.at + MaxDelay
                    /\ x.at < win[x] + Window
    /\ \A x, y \in S : win[x] = win[y] /\ nth[x] = nth[y] => x = y
    /\ \A x, y \in S : win[x] < win[y] => win[x] + apart <= win[y]

\* Quotients tell apart what lies as far apart as the divisor.
LEMMA QuotientsApart ==
    ASSUME NEW k \in Nat \ {0}, NEW i \in Nat, NEW j \in Nat, i + k <= j
    PROVE  i \div k < j \div k
    OBVIOUS

LEMMA QuotientBound ==
    ASSUME NEW k \in Nat \ {0}, NEW i \in Nat, NEW j \in Nat, i <= j
    PROVE  /\ i \div k \in Nat /\ j \div k \in Nat
           /\ i \div k <= j \div k
    OBVIOUS

\* A ledger bounds the attempts of a span that is as long as a window: each is
\* told from the others by the place of its window and its number there.
LEMMA LedgerBounds ==
    ASSUME NEW S \in SUBSET Attempt,
           NEW win \in [Attempt -> Times], NEW nth \in [Attempt -> Nat],
           NEW limit \in Nat \ {0}, NEW apart \in Nat \ {0},
           Ledger(S, win, nth, limit, apart),
           NEW first \in Times, NEW T \in SUBSET S,
           \A x \in T : first <= x.at /\ x.at <= first + Window - 1
    PROVE  /\ IsFiniteSet(T)
           /\ Cardinality(T) <= Windows(apart) * limit
    <1>n. /\ Window \in Nat \ {0} /\ MaxDelay \in Nat
          /\ Times \subseteq Nat
        BY LoginAssumption DEF Times
    <1>. DEFINE reach == 2 * Window + MaxDelay - 2
                place(x) == win[x] + Window - 1 - first
                key == [x \in T |-> <<place(x) \div apart, nth[x]>>]
                places == 0 .. (reach \div apart)
                numbers == 1 .. limit
    <1>1. ASSUME NEW x \in T
          PROVE  /\ x \in S /\ win[x] \in Nat /\ nth[x] \in numbers
                 /\ place(x) \in Nat /\ place(x) <= reach
        <2>1. /\ x \in S /\ x.at \in Nat /\ win[x] \in Nat /\ first \in Nat
              /\ nth[x] \in 1..limit
              /\ win[x] <= x.at + MaxDelay /\ x.at < win[x] + Window
              /\ first <= x.at /\ x.at <= first + Window - 1
            BY <1>n DEF Ledger, Attempt
        <2>. QED  BY <1>n, <2>1
    <1>2. reach \in Nat
        BY <1>n
    <1>. HIDE DEF reach
    <1>3. ASSUME NEW x \in T
          PROVE  place(x) \div apart \in places
        <2>1. place(x) \in Nat /\ place(x) <= reach
            BY <1>1
        <2>. HIDE DEF place
        <2>. QED  BY <1>2, <2>1, QuotientBound
    <1>4. key \in [T -> places \X numbers]
        BY <1>1, <1>3
    <1>5. ASSUME NEW x \in T, NEW y \in T, win[x] < win[y]
          PROVE  place(x) \div apart # place(y) \div apart
        <2>1. win[x] + apart <= win[y]
            BY <1>1, <1>5 DEF Ledger
        <2>2. /\ place(x) \in Nat /\ place(y) \in Nat
              /\ place(x) + apart <= place(y)
            BY <1>1, <1>n, <2>1
        <2>. HIDE DEF place
        <2>3. place(x) \div apart < place(y) \div apart
            BY <2>2, QuotientsApart
        <2>4. place(x) \div apart \in Nat /\ place(y) \div apart \in Nat
            BY <2>2, QuotientBound
        <2>. QED  BY <2>3, <2>4
    <1>6. ASSUME NEW x \in T, NEW y \in T, key[x] = key[y]
          PROVE  x = y
        <2>1. place(x) \div apart = place(y) \div apart /\ nth[x] = nth[y]
            BY <1>6
        <2>2. ~(win[x] < win[y]) /\ ~(win[y] < win[x])
            BY <1>5, <2>1
        <2>3. win[x] = win[y]
            BY <1>1, <2>2
        <2>. QED  BY <1>1, <2>1, <2>3 DEF Ledger
    <1>. HIDE DEF key
    <1>7. key \in Injection(T, places \X numbers)
        BY <1>4, <1>6 DEF Injection, IsInjective
    <1>8. reach \div apart \in Nat
        BY <1>2, QuotientBound
    <1>9. /\ IsFiniteSet(places) /\ Cardinality(places) = reach \div apart + 1
          /\ IsFiniteSet(numbers) /\ Cardinality(numbers) = limit
        BY <1>8, FS_Interval
    <1>10. /\ IsFiniteSet(places \X numbers)
           /\ Cardinality(places \X numbers) = (reach \div apart + 1) * limit
        <2>. HIDE DEF places, numbers
        <2>1. /\ IsFiniteSet(places \X numbers)
              /\ Cardinality(places \X numbers) = Cardinality(places) * Cardinality(numbers)
            BY <1>9, FS_Product
        <2>. QED  BY <1>9, <2>1
    <1>11. Windows(apart) = reach \div apart + 1
        BY DEF Windows, reach
    <1>. QED  BY <1>7, <1>10, <1>11, FS_Injection

\* An attempt x enters a ledger as the kth one of window w, if the windows
\* before lie apart from w, or are w and hold less.
LEMMA LedgerGrows ==
    ASSUME NEW S \in SUBSET Attempt,
           NEW win \in [Attempt -> Times], NEW nth \in [Attempt -> Nat],
           NEW limit \in Nat \ {0}, NEW apart \in Nat \ {0},
           Ledger(S, win, nth, limit, apart),
           NEW x \in Attempt, x \notin S,
           NEW w \in Times, NEW k \in 1..limit,
           w <= x.at + MaxDelay, x.at < w + Window,
           \A y \in S : (win[y] = w /\ nth[y] < k) \/ win[y] + apart <= w
    PROVE  Ledger(S \cup {x}, [win EXCEPT ![x] = w], [nth EXCEPT ![x] = k], limit, apart)
    <1>. DEFINE v == [win EXCEPT ![x] = w]
                m == [nth EXCEPT ![x] = k]
    <1>n. Times \subseteq Nat /\ limit \in Nat /\ apart \in Nat \ {0}
        BY LoginAssumption DEF Times
    <1>1. v[x] = w /\ m[x] = k
        OBVIOUS
    <1>2. \A y \in S : v[y] = win[y] /\ m[y] = nth[y] /\ win[y] \in Nat /\ nth[y] \in Nat
        BY <1>n
    <1>. HIDE DEF v, m
    <1>3. \A y \in S \cup {x} : /\ m[y] \in 1..limit
                                /\ v[y] <= y.at + MaxDelay
                                /\ y.at < v[y] + Window
        BY <1>1, <1>2 DEF Ledger
    <1>4. \A y \in S : ~(v[y] = v[x] /\ m[y] = m[x])
        BY <1>n, <1>1, <1>2
    <1>5. \A y, z \in S \cup {x} : v[y] = v[z] /\ m[y] = m[z] => y = z
        BY <1>2, <1>4 DEF Ledger
    <1>6. \A y \in S : /\ v[y] < v[x] => v[y] + apart <= v[x]
                       /\ ~(v[x] < v[y])
        BY <1>n, <1>1, <1>2
    <1>7. \A y, z \in S \cup {x} : v[y] < v[z] => v[y] + apart <= v[z]
        <2>1. ~(v[x] < v[x])
            BY <1>n, <1>1
        <2>. QED  BY <1>2, <1>6, <2>1 DEF Ledger
    <1>8. Ledger(S \cup {x}, v, m, limit, apart)
        BY <1>3, <1>5, <1>7 DEF Ledger
    <1>. QED  BY <1>8 DEF v, m

\* What becomes of a window w by an attempt observed at now: it stays and is
\* charged or not, or one opened at now is in its place, if it is over by then.
Follows(v, w, limit, now) ==
    \/ /\ v.opened = w.opened
       /\ \A k \in 1..limit : k <= w.attempts => k <= v.attempts
    \/ /\ v.opened = now
       /\ w.opened + Window <= now

\* An attempt that is admitted has a number of its own in its window.
Admits(v, w, limit, now) ==
    /\ v.attempts \in 1..limit
    /\ now < v.opened + Window
    /\ \/ v.opened = w.opened /\ w.attempts < v.attempts
       \/ v.opened = now /\ w.opened + Window <= now

\* Window w after an attempt that is charged to it, or to a new one.
After(w, limit, now) == Charge(IF Since(now, w.opened) >= Window THEN Fresh(now) ELSE w, limit)

LEMMA NextFollows ==
    ASSUME NEW w \in Counted, NEW limit \in Nat \ {0}, NEW now \in Times
    PROVE  /\ Follows(After(w, limit, now), w, limit, now)
           /\ After(w, limit, now).attempts <= limit =>
                 Admits(After(w, limit, now), w, limit, now)
    <1>. DEFINE u == IF Since(now, w.opened) >= Window THEN Fresh(now) ELSE w
                v == After(w, limit, now)
    <1>n. now \in Nat /\ w.opened \in Nat /\ w.attempts \in Nat /\ Window \in Nat \ {0}
        BY LoginAssumption DEF Counted, Times
    <1>1. u \in Counted /\ u.attempts \in Nat
        BY DEF Fresh, Counted
    <1>2. IF Since(now, w.opened) >= Window
          THEN u.opened = now /\ u.attempts = 0 /\ w.opened + Window <= now
          ELSE u.opened = w.opened /\ u.attempts = w.attempts /\ now < w.opened + Window
        <2>1. CASE Since(now, w.opened) >= Window
            <3>1. w.opened + Window <= now
                BY <1>n, <2>1 DEF Since
            <3>. QED  BY <2>1, <3>1 DEF Fresh
        <2>2. CASE ~(Since(now, w.opened) >= Window)
            <3>1. now < w.opened + Window
                BY <1>n, <2>2 DEF Since
            <3>. QED  BY <2>2, <3>1
        <2>. QED  BY <2>1, <2>2
    <1>3. v = Charge(u, limit)
        BY DEF After
    <1>. HIDE DEF u, v
    <1>4. Charge(u, limit) = [opened |-> u.opened,
                              attempts |-> Min({u.attempts + 1, limit + 1})]
        BY <1>1 DEF Charge, Counted
    <1>5. Min({u.attempts + 1, limit + 1}) =
              IF u.attempts + 1 <= limit + 1 THEN u.attempts + 1 ELSE limit + 1
        BY <1>1, MinOfTwo
    <1>6. /\ v.opened = u.opened
          /\ v.attempts = IF u.attempts + 1 <= limit + 1 THEN u.attempts + 1 ELSE limit + 1
        BY <1>3, <1>4, <1>5
    <1>7. CASE Since(now, w.opened) >= Window
        <2>1. v.opened = now /\ w.opened + Window <= now /\ v.attempts = 1
            BY <1>1, <1>2, <1>6, <1>7
        <2>. QED  BY <1>n, <2>1 DEF Follows, Admits, v
    <1>8. CASE ~(Since(now, w.opened) >= Window)
        <2>1. /\ v.opened = w.opened /\ now < w.opened + Window
              /\ v.attempts = IF w.attempts + 1 <= limit + 1 THEN w.attempts + 1 ELSE limit + 1
            BY <1>2, <1>6, <1>8
        <2>. QED  BY <1>n, <2>1 DEF Follows, Admits, v
    <1>. QED  BY <1>7, <1>8

\* The window that account a is charged to, if it is known.
LEMMA CurrentIsNext ==
    ASSUME NEW s, IsLimiter(s), NEW a \in Accounts, NEW now \in Times
    PROVE  /\ CurrentGlobal(s, now) = After(s.global, GlobalMax, now)
           /\ a \in DOMAIN s.accounts =>
                 Current(s, a, now) = After(s.accounts[a], MaxAttempts, now)
           /\ a \notin DOMAIN s.accounts => Current(s, a, now) = Charge(Fresh(now), MaxAttempts)
    <1>1. a \in DOMAIN s.accounts =>
              (a \in Unpruned(s, now) <=> ~(Since(now, s.accounts[a].opened) >= Window))
        <2>1. a \in DOMAIN s.accounts => Since(now, s.accounts[a].opened) \in Int
            BY LoginAssumption DEF IsLimiter, Counted, Since, Times
        <2>. QED  BY <2>1, LoginAssumption DEF Unpruned
    <1>2. a \in Unpruned(s, now) => a \in DOMAIN s.accounts
        BY DEF Unpruned
    <1>. QED  BY <1>1, <1>2 DEF Current, CurrentGlobal, After

\* The windows after any attempt follow those before; and one that is gone was
\* over.
LEMMA ReduceFollows ==
    ASSUME NEW s, IsLimiter(s), NEW a \in Accounts, NEW now \in Times
    PROVE  LET after == Reduce(s, a, now).state
           IN  /\ Follows(after.global, s.global, GlobalMax, now)
               /\ \A b \in DOMAIN after.accounts :
                     IF b \in DOMAIN s.accounts
                     THEN Follows(after.accounts[b], s.accounts[b], MaxAttempts, now)
                     ELSE after.accounts[b].opened = now
               /\ \A b \in DOMAIN s.accounts :
                     b \notin DOMAIN after.accounts => s.accounts[b].opened + Window <= now
    <1>. DEFINE after == Reduce(s, a, now).state
    <1>n. /\ MaxAttempts \in Nat \ {0} /\ GlobalMax \in Nat \ {0}
          /\ s.global \in Counted
          /\ \A b \in DOMAIN s.accounts : s.accounts[b] \in Counted
        BY LoginAssumption DEF IsLimiter
    <1>1. PICK global \in Counted :
              /\ global = CurrentGlobal(s, now)
              /\ \/ OverGlobal(s, a, now, global)
                 \/ OverKeys(s, a, now, global)
                 \/ Charges(s, a, now, global)
        BY ReduceCases
    <1>2. after.global = global
        BY <1>1 DEF OverGlobal, OverKeys, Charges
    <1>3. Follows(after.global, s.global, GlobalMax, now)
        <2>1. after.global = After(s.global, GlobalMax, now)
            BY <1>1, <1>2, CurrentIsNext
        <2>. HIDE DEF after
        <2>. QED  BY <1>n, <2>1, NextFollows
    <1>4. \A b \in DOMAIN s.accounts :
             /\ b \notin Unpruned(s, now) => s.accounts[b].opened + Window <= now
             /\ Follows(s.accounts[b], s.accounts[b], MaxAttempts, now)
        <2>. SUFFICES ASSUME NEW b \in DOMAIN s.accounts, b \notin Unpruned(s, now)
                      PROVE  s.accounts[b].opened + Window <= now
            BY DEF Follows
        <2>1. s.accounts[b].opened \in Nat /\ now \in Nat /\ Window \in Nat \ {0}
            BY <1>n, LoginAssumption DEF Counted, Times
        <2>2. ~(Since(now, s.accounts[b].opened) < Window)
            BY DEF Unpruned
        <2>. QED  BY <2>1, <2>2 DEF Since
    <1>5. Unpruned(s, now) \subseteq DOMAIN s.accounts
        BY DEF Unpruned
    <1>6. IF a \in DOMAIN s.accounts
          THEN Follows(Current(s, a, now), s.accounts[a], MaxAttempts, now)
          ELSE Current(s, a, now).opened = now
        <2>1. CASE a \in DOMAIN s.accounts
            BY <1>n, <2>1, CurrentIsNext, NextFollows
        <2>2. CASE a \notin DOMAIN s.accounts
            BY <1>5, <2>2, CurrentOpen
        <2>. QED  BY <2>1, <2>2
    <1>. HIDE DEF after
    <1>7. CASE OverGlobal(s, a, now, global)
        <2>1. after.accounts = s.accounts
            BY <1>7 DEF OverGlobal, after
        <2>. QED  BY <1>3, <1>4, <2>1 DEF after
    <1>8. CASE OverKeys(s, a, now, global)
        <2>1. after.accounts = [b \in Unpruned(s, now) |-> s.accounts[b]]
            BY <1>8 DEF OverKeys, after
        <2>. QED  BY <1>3, <1>4, <1>5, <2>1 DEF after
    <1>9. CASE Charges(s, a, now, global)
        <2>1. after.accounts = [b \in Unpruned(s, now) \cup {a} |->
                                   IF b = a THEN Current(s, a, now) ELSE s.accounts[b]]
            BY <1>9 DEF Charges, after
        <2>. QED  BY <1>3, <1>4, <1>5, <1>6, <2>1 DEF after
    <1>. QED  BY <1>1, <1>7, <1>8, <1>9

\* What an admitted attempt is charged to.
LEMMA ReduceAdmits ==
    ASSUME NEW s, IsLimiter(s), NEW a \in Accounts, NEW now \in Times,
           Reduce(s, a, now).outcome.allowed
    PROVE  LET after == Reduce(s, a, now).state
           IN  /\ Admits(after.global, s.global, GlobalMax, now)
               /\ a \in DOMAIN after.accounts
               /\ IF a \in DOMAIN s.accounts
                  THEN Admits(after.accounts[a], s.accounts[a], MaxAttempts, now)
                  ELSE after.accounts[a] = [opened |-> now, attempts |-> 1]
    <1>. DEFINE after == Reduce(s, a, now).state
    <1>n. /\ MaxAttempts \in Nat \ {0} /\ GlobalMax \in Nat \ {0}
          /\ s.global \in Counted
          /\ \A b \in DOMAIN s.accounts : s.accounts[b] \in Counted
        BY LoginAssumption DEF IsLimiter
    <1>1. PICK global \in Counted :
              /\ global = CurrentGlobal(s, now)
              /\ \/ OverGlobal(s, a, now, global)
                 \/ OverKeys(s, a, now, global)
                 \/ Charges(s, a, now, global)
        BY ReduceCases
    <1>2. Charges(s, a, now, global)
        BY <1>1 DEF OverGlobal, OverKeys, Rejected
    <1>3. /\ after.global = global
          /\ after.accounts = [b \in Unpruned(s, now) \cup {a} |->
                                  IF b = a THEN Current(s, a, now) ELSE s.accounts[b]]
          /\ global.attempts <= GlobalMax
          /\ Current(s, a, now).attempts <= MaxAttempts
        BY <1>2 DEF Charges, Rejected
    <1>. HIDE DEF after
    <1>4. Admits(after.global, s.global, GlobalMax, now)
        BY <1>n, <1>1, <1>3, CurrentIsNext, NextFollows
    <1>5. CASE a \in DOMAIN s.accounts
        <2>1. Admits(Current(s, a, now), s.accounts[a], MaxAttempts, now)
            BY <1>n, <1>3, <1>5, CurrentIsNext, NextFollows
        <2>. QED  BY <1>3, <1>4, <1>5, <2>1 DEF after
    <1>6. CASE a \notin DOMAIN s.accounts
        <2>1. Current(s, a, now) = Charge(Fresh(now), MaxAttempts)
            BY <1>6, CurrentIsNext
        <2>2. Charge(Fresh(now), MaxAttempts) =
                 [opened |-> now, attempts |-> Min({0 + 1, MaxAttempts + 1})]
            BY DEF Charge, Fresh
        <2>3. Min({0 + 1, MaxAttempts + 1}) = 1
            BY <1>n, MinOfTwo
        <2>. QED  BY <1>3, <1>4, <1>6, <2>1, <2>2, <2>3 DEF after
    <1>. QED  BY <1>5, <1>6

-----------------------------------------------------------------------------
(* Ledgers through the steps.                                              *)

\* Window w is the last one that the attempts of S were charged to.
Linked(S, win, nth, w, apart) ==
    \A x \in S : \/ win[x] = w.opened /\ nth[x] <= w.attempts
                 \/ win[x] + apart <= w.opened

\* There is a ledger of the attempts of S that goes on with window w; or one
\* whose windows were over when the clock showed c.
Kept(S, w, limit, apart) ==
    \E win \in [Attempt -> Times], nth \in [Attempt -> Nat] :
        Ledger(S, win, nth, limit, apart) /\ Linked(S, win, nth, w, apart)

Closed(S, limit, apart, c) ==
    \E win \in [Attempt -> Times], nth \in [Attempt -> Nat] :
        Ledger(S, win, nth, limit, apart) /\ \A x \in S : win[x] + Window <= c

LEMMA KeptFollows ==
    ASSUME NEW S \in SUBSET Attempt, NEW w \in Counted, NEW v \in Counted,
           NEW limit \in Nat \ {0}, NEW apart \in Nat \ {0}, apart <= Window,
           NEW now \in Times,
           Kept(S, w, limit, apart), Follows(v, w, limit, now)
    PROVE  Kept(S, v, limit, apart)
    <1>n. /\ Times \subseteq Nat /\ Window \in Nat
          /\ w.opened \in Nat /\ w.attempts \in Nat /\ v.opened \in Nat /\ v.attempts \in Nat
        BY LoginAssumption DEF Times, Counted
    <1>1. PICK win \in [Attempt -> Times], nth \in [Attempt -> Nat] :
              Ledger(S, win, nth, limit, apart) /\ Linked(S, win, nth, w, apart)
        BY DEF Kept
    <1>2. ASSUME NEW x \in S
          PROVE  \/ win[x] = v.opened /\ nth[x] <= v.attempts
                 \/ win[x] + apart <= v.opened
        <2>1. win[x] \in Nat /\ nth[x] \in 1..limit
            BY <1>1, <1>n DEF Ledger
        <2>2. \/ win[x] = w.opened /\ nth[x] <= w.attempts
              \/ win[x] + apart <= w.opened
            BY <1>1 DEF Linked
        <2>3. CASE /\ v.opened = w.opened
                   /\ \A k \in 1..limit : k <= w.attempts => k <= v.attempts
            BY <2>1, <2>2, <2>3
        <2>4. CASE v.opened = now /\ w.opened + Window <= now
            BY <1>n, <2>1, <2>2, <2>4
        <2>. QED  BY <2>3, <2>4 DEF Follows
    <1>. QED  BY <1>1, <1>2 DEF Kept, Linked

LEMMA KeptAdmits ==
    ASSUME NEW S \in SUBSET Attempt, NEW w \in Counted, NEW v \in Counted,
           NEW limit \in Nat \ {0}, NEW apart \in Nat \ {0}, apart <= Window,
           NEW x \in Attempt, x \notin S, v.opened <= x.at + MaxDelay,
           Kept(S, w, limit, apart), Admits(v, w, limit, x.at)
    PROVE  Kept(S \cup {x}, v, limit, apart)
    <1>n. /\ Times \subseteq Nat /\ Window \in Nat
          /\ w.opened \in Nat /\ w.attempts \in Nat
          /\ v.opened \in Times /\ v.attempts \in Nat
          /\ x.at \in Nat
        BY LoginAssumption DEF Times, Counted, Attempt
    <1>1. PICK win \in [Attempt -> Times], nth \in [Attempt -> Nat] :
              Ledger(S, win, nth, limit, apart) /\ Linked(S, win, nth, w, apart)
        BY DEF Kept
    <1>2. ASSUME NEW y \in S
          PROVE  \/ win[y] = v.opened /\ nth[y] < v.attempts
                 \/ win[y] + apart <= v.opened
        <2>1. win[y] \in Nat /\ nth[y] \in Nat
            BY <1>n
        <2>2. \/ win[y] = w.opened /\ nth[y] <= w.attempts
              \/ win[y] + apart <= w.opened
            BY <1>1 DEF Linked
        <2>3. CASE v.opened = w.opened /\ w.attempts < v.attempts
            BY <1>n, <2>1, <2>2, <2>3
        <2>4. CASE v.opened = x.at /\ w.opened + Window <= x.at
            BY <1>n, <2>1, <2>2, <2>4
        <2>. QED  BY <2>3, <2>4 DEF Admits
    <1>. DEFINE win2 == [win EXCEPT ![x] = v.opened]
                nth2 == [nth EXCEPT ![x] = v.attempts]
    <1>3. Ledger(S \cup {x}, win2, nth2, limit, apart)
        <2>1. v.attempts \in 1..limit /\ x.at < v.opened + Window
            BY DEF Admits
        <2>. HIDE DEF win2, nth2
        <2>. QED  BY <1>1, <1>2, <1>n, <2>1, LedgerGrows DEF win2, nth2
    <1>4. /\ win2 \in [Attempt -> Times] /\ nth2 \in [Attempt -> Nat]
          /\ win2[x] = v.opened /\ nth2[x] = v.attempts
          /\ \A y \in S : win2[y] = win[y] /\ nth2[y] = nth[y] /\ nth[y] \in Nat
        BY <1>n
    <1>. HIDE DEF win2, nth2
    <1>5. Linked(S \cup {x}, win2, nth2, v, apart)
        BY <1>2, <1>4, <1>n DEF Linked
    <1>. QED  BY <1>3, <1>4, <1>5 DEF Kept

\* A new window at now is the next one of a closed ledger, although it may
\* have been opened by an attempt that waited since before the last one was
\* over.
LEMMA ClosedOpens ==
    ASSUME NEW S \in SUBSET Attempt, NEW v \in Counted, NEW limit \in Nat \ {0},
           NEW c \in Nat, c <= v.opened + MaxDelay,
           Closed(S, limit, Window - MaxDelay, c)
    PROVE  Kept(S, v, limit, Window - MaxDelay)
    <1>n. /\ Times \subseteq Nat /\ Window \in Nat /\ MaxDelay \in Nat
          /\ v.opened \in Nat
        BY LoginAssumption DEF Times, Counted
    <1>1. PICK win \in [Attempt -> Times], nth \in [Attempt -> Nat] :
              /\ Ledger(S, win, nth, limit, Window - MaxDelay)
              /\ \A x \in S : win[x] + Window <= c
        BY DEF Closed
    <1>2. ASSUME NEW x \in S PROVE win[x] + (Window - MaxDelay) <= v.opened
        <2>1. win[x] \in Nat /\ win[x] + Window <= c
            BY <1>1, <1>n
        <2>. QED  BY <1>n, <2>1
    <1>. QED  BY <1>1, <1>2 DEF Kept, Linked

LEMMA KeptCloses ==
    ASSUME NEW S \in SUBSET Attempt, NEW w \in Counted, NEW limit \in Nat \ {0},
           NEW c \in Nat, w.opened + Window <= c,
           Kept(S, w, limit, Window - MaxDelay)
    PROVE  Closed(S, limit, Window - MaxDelay, c)
    <1>n. /\ Times \subseteq Nat /\ Window \in Nat /\ MaxDelay \in Nat /\ MaxDelay < Window
          /\ w.opened \in Nat
        BY LoginAssumption DEF Times, Counted
    <1>1. PICK win \in [Attempt -> Times], nth \in [Attempt -> Nat] :
              /\ Ledger(S, win, nth, limit, Window - MaxDelay)
              /\ Linked(S, win, nth, w, Window - MaxDelay)
        BY DEF Kept
    <1>2. ASSUME NEW x \in S PROVE win[x] + Window <= c
        <2>1. win[x] \in Nat
            BY <1>n
        <2>2. win[x] = w.opened \/ win[x] + (Window - MaxDelay) <= w.opened
            BY <1>1 DEF Linked
        <2>. QED  BY <1>n, <2>1, <2>2
    <1>. QED  BY <1>1, <1>2 DEF Closed

\* What holds of a ledger holds of fewer attempts, and later.
LEMMA LedgerShrinks ==
    ASSUME NEW S \in SUBSET Attempt, NEW R \in SUBSET S,
           NEW limit, NEW apart, NEW w, NEW c \in Nat, NEW d \in Nat, c <= d
    PROVE  /\ Kept(S, w, limit, apart) => Kept(R, w, limit, apart)
           /\ Closed(S, limit, apart, c) => Closed(R, limit, apart, d)
    <1>1. ASSUME NEW win \in [Attempt -> Times], NEW nth \in [Attempt -> Nat],
                 Ledger(S, win, nth, limit, apart)
          PROVE  Ledger(R, win, nth, limit, apart)
        BY <1>1 DEF Ledger
    <1>2. Kept(S, w, limit, apart) => Kept(R, w, limit, apart)
        BY <1>1 DEF Kept, Linked
    <1>3. ASSUME NEW win \in [Attempt -> Times],
                 \A x \in S : win[x] + Window <= c
          PROVE  \A x \in R : win[x] + Window <= d
        <2>1. \A x \in S : win[x] + Window \in Nat
            BY LoginAssumption DEF Times
        <2>. QED  BY <1>3, <2>1
    <1>4. Closed(S, limit, apart, c) => Closed(R, limit, apart, d)
        BY <1>1, <1>3 DEF Closed
    <1>. QED  BY <1>2, <1>4

-----------------------------------------------------------------------------
(* Permits.                                                                *)

SignIns == {r \in Logins : At(r, "signing") \/ At(r, "creating")}
Verifications == {r \in Bearers : At(r, "verifying")}

\* There may be any number of places for requests; those with a permit are
\* finitely many.
PermitsInv ==
    /\ LoginTypeOK
    /\ IsFiniteSet(SignIns)
    /\ IsFiniteSet(Verifications)
    /\ PermitsMatchCalls

LEMMA PermitsStep == PermitsInv /\ [LoginNext]_loginVars => PermitsInv'
    <1>. SUFFICES ASSUME PermitsInv, [LoginNext]_loginVars
                  PROVE  PermitsInv'
        OBVIOUS
    <1>t. LoginTypeOK /\ LoginTypeOK'
        BY LoginNextTyped DEF PermitsInv
    <1>p. /\ permits.login \in Nat /\ permits.bearer \in Nat
          /\ permits.login + Cardinality(SignIns) = LoginPermits
          /\ permits.bearer + Cardinality(Verifications) = BearerPermits
          /\ IsFiniteSet(SignIns) /\ IsFiniteSet(Verifications)
        BY <1>t DEF PermitsInv, PermitsMatchCalls, SignIns, Verifications, LoginTypeOK
    <1>c. Cardinality(SignIns) \in Nat /\ Cardinality(Verifications) \in Nat
        BY <1>p, FS_CardinalityType
    <1>q. ASSUME IsFiniteSet(SignIns)', IsFiniteSet(Verifications)',
                 permits'.login + Cardinality(SignIns') = LoginPermits,
                 permits'.bearer + Cardinality(Verifications') = BearerPermits
          PROVE  PermitsInv'
        BY <1>t, <1>q DEF PermitsInv, PermitsMatchCalls, SignIns, Verifications
    <1>1. ASSUME permits' = permits, SignIns' = SignIns, Verifications' = Verifications
          PROVE  PermitsInv'
        BY <1>1, <1>p, <1>q
    <1>2. CASE UNCHANGED loginVars \/ Tick
        <2>1. request' = request /\ permits' = permits
            BY <1>2 DEF loginVars, Tick
        <2>. QED  BY <1>1, <2>1 DEF SignIns, Verifications, At
    \* The request is at another place, without another permit.
    <1>3. ASSUME NEW r \in Logins, Submit(r) \/ Check(r) \/ Busy(r) \/ SignedIn(r)
          PROVE  PermitsInv'
        <2>1. permits' = permits
            BY <1>3 DEF Submit, Check, Busy, SignedIn
        <2>2. \A o \in Logins \cup Bearers : o # r => request'[o] = request[o]
            BY <1>3, <1>t DEF Submit, Check, Busy, SignedIn, Goto, LoginTypeOK
        <2>3. CASE Submit(r) \/ Busy(r)
            <3>1. /\ request[r].pc \in {"idle", "allowed"}
                  /\ request'[r].pc \in {"observed", "idle"}
                BY <1>t, <2>3 DEF Submit, Busy, Goto, At, LoginTypeOK, Idle
            <3>. QED  BY <1>1, <2>1, <2>2, <3>1 DEF SignIns, Verifications, At
        <2>4. CASE Check(r)
            <3>1. /\ request[r].pc = "observed"
                  /\ request'[r].pc \in {"allowed", "idle"}
                BY <1>t, <2>4, CheckDecides
            <3>. QED  BY <1>1, <2>1, <2>2, <3>1 DEF SignIns, Verifications, At
        <2>5. CASE SignedIn(r)
            <3>1. request[r] \in Login
                BY <1>t, <2>5 DEF SignedIn, At, LoginTypeOK, Idle
            <3>2. request[r].pc = "signing" /\ request'[r].pc = "creating"
                BY <1>t, <2>5, <3>1 DEF SignedIn, Goto, At, LoginTypeOK, Login
            <3>. QED  BY <1>1, <2>1, <2>2, <3>2 DEF SignIns, Verifications, At
        <2>. QED  BY <1>3, <2>3, <2>4, <2>5
    <1>4. ASSUME NEW r \in Logins, Acquire(r) PROVE PermitsInv'
        <2>1. request[r] \in Login
            BY <1>t, <1>4 DEF Acquire, At, LoginTypeOK, Idle
        <2>2. /\ request[r].pc = "allowed" /\ request'[r].pc = "signing"
              /\ \A o \in Logins \cup Bearers : o # r => request'[o] = request[o]
            BY <1>t, <1>4, <2>1 DEF Acquire, Goto, At, LoginTypeOK, Login
        <2>3. SignIns' = SignIns \cup {r} /\ r \notin SignIns /\ Verifications' = Verifications
            BY <2>2 DEF SignIns, Verifications, At
        <2>4. /\ permits.login > 0
              /\ permits'.login = permits.login - 1
              /\ permits'.bearer = permits.bearer
            BY <1>t, <1>4 DEF Acquire, LoginTypeOK
        <2>5. /\ IsFiniteSet(SignIns \cup {r})
              /\ Cardinality(SignIns \cup {r}) = Cardinality(SignIns) + 1
            BY <1>p, <2>3, FS_AddElement
        <2>. QED  BY <1>p, <1>c, <1>q, <2>3, <2>4, <2>5
    <1>5. ASSUME NEW r \in Bearers, Verify(r) PROVE PermitsInv'
        <2>1. /\ request[r].pc = "idle" /\ request'[r].pc = "verifying"
              /\ \A o \in Logins \cup Bearers : o # r => request'[o] = request[o]
            BY <1>t, <1>5 DEF Verify, Goto, At, LoginTypeOK
        <2>2. /\ SignIns' = SignIns
              /\ Verifications' = Verifications \cup {r}
              /\ r \notin Verifications
            BY <2>1 DEF SignIns, Verifications, At
        <2>3. /\ permits.bearer > 0
              /\ permits'.bearer = permits.bearer - 1
              /\ permits'.login = permits.login
            BY <1>t, <1>5 DEF Verify, LoginTypeOK
        <2>4. /\ IsFiniteSet(Verifications \cup {r})
              /\ Cardinality(Verifications \cup {r}) = Cardinality(Verifications) + 1
            BY <1>p, <2>2, FS_AddElement
        <2>. QED  BY <1>p, <1>c, <1>q, <2>2, <2>3, <2>4
    <1>6. ASSUME NEW r \in Logins \cup Bearers, Answer(r) \/ Cancel(r) \/ Verified(r),
                 r \in Logins \/ At(r, "verifying"), r \in Bearers \/ ~At(r, "verifying")
          PROVE  PermitsInv'
        <2>1. Returns(r)
            BY <1>6 DEF Answer, Cancel, Verified
        <2>2. /\ request'[r].pc = "idle"
              /\ \A o \in Logins \cup Bearers : o # r => request'[o] = request[o]
            BY <1>t, <2>1 DEF Returns, Goto, LoginTypeOK, Idle
        <2>3. SignIns' = SignIns \ {r} /\ Verifications' = Verifications \ {r}
            BY <2>2 DEF SignIns, Verifications, At
        <2>4. /\ permits'.login = permits.login + (IF r \in SignIns THEN 1 ELSE 0)
              /\ permits'.bearer = permits.bearer + (IF r \in Verifications THEN 1 ELSE 0)
            BY <1>t, <1>6, <2>1 DEF Returns, SignIns, Verifications, At, LoginTypeOK
        <2>5. /\ IsFiniteSet(SignIns \ {r})
              /\ Cardinality(SignIns \ {r}) =
                    IF r \in SignIns THEN Cardinality(SignIns) - 1 ELSE Cardinality(SignIns)
            BY <1>p, FS_RemoveElement
        <2>6. /\ IsFiniteSet(Verifications \ {r})
              /\ Cardinality(Verifications \ {r}) =
                    IF r \in Verifications THEN Cardinality(Verifications) - 1
                    ELSE Cardinality(Verifications)
            BY <1>p, FS_RemoveElement
        <2>. QED  BY <1>p, <1>c, <1>q, <2>3, <2>4, <2>5, <2>6
    <1>. QED  BY <1>2, <1>3, <1>4, <1>5, <1>6 DEF LoginNext, Answer, Cancel, Verified, At

\* For any number of places and permits: permits and calls in flight always
\* make up the semaphore, so that no more calls are in flight than it has.
THEOREM PermitsAlwaysMatch == LoginSpec => []PermitsMatchCalls
    <1>1. LoginInit => PermitsInv
        <2>. SUFFICES ASSUME LoginInit PROVE PermitsInv
            OBVIOUS
        <2>1. /\ {r \in Logins : At(r, "signing") \/ At(r, "creating")} = {}
              /\ {r \in Bearers : At(r, "verifying")} = {}
            BY DEF LoginInit, At, Idle
        <2>2. IsFiniteSet({}) /\ Cardinality({}) = 0
            BY FS_EmptySet
        <2>3. permits.login = LoginPermits /\ permits.bearer = BearerPermits
            BY DEF LoginInit
        <2>. QED
            BY <2>1, <2>2, <2>3, LoginInitTyped, LoginAssumption
            DEF PermitsInv, PermitsMatchCalls, SignIns, Verifications
    <1>2. PermitsInv => PermitsMatchCalls
        BY DEF PermitsInv
    <1>. QED  BY <1>1, <1>2, PermitsStep, PTL DEF LoginSpec

-----------------------------------------------------------------------------
(* How often the authentication service is called.                         *)

\* The attempts that are admitted and wait for a permit, and those that are
\* not settled.
Admitting == {r \in Logins : At(r, "allowed")}
Unsettled == {r \in Logins : At(r, "observed") \/ At(r, "allowed")}

Admitted == tried \cup {AttemptOf(r) : r \in Admitting}
AdmittedTo(a) == {x \in Admitted : x.account = a}

\* Attempts are told apart by their numbers.
Numbered ==
    /\ \A x \in tried : x.n <= submits
    /\ \A r \in Unsettled : /\ request[r].n <= submits
                            /\ \A x \in tried : x.n # request[r].n
    /\ \A r, s \in Unsettled : request[r].n = request[s].n => r = s

\* There is a ledger of the admitted attempts that goes on with the limiter's
\* global window, and one of those on an account that goes on with the
\* account's window, or is closed while the limiter does not know the account.
BudgetInv ==
    /\ RetryInv
    /\ \A r \in Logins : At(r, "observed") => clock <= request[r].at + MaxDelay
    /\ Numbered
    /\ Kept(Admitted, limiter.global, GlobalMax, Window)
    /\ \A a \in Accounts :
          IF a \in DOMAIN limiter.accounts
          THEN Kept(AdmittedTo(a), limiter.accounts[a], MaxAttempts, Window - MaxDelay)
          ELSE Closed(AdmittedTo(a), MaxAttempts, Window - MaxDelay, clock)

LEMMA AdmittedTyped ==
    ASSUME LoginTypeOK
    PROVE  /\ \A r \in Unsettled : request[r] \in Login /\ AttemptOf(r) \in Attempt
           /\ Admitting \subseteq Unsettled
           /\ Admitted \in SUBSET Attempt
           /\ \A a : AdmittedTo(a) \in SUBSET Admitted /\ AdmittedTo(a) \in SUBSET Attempt
    <1>1. ASSUME NEW r \in Unsettled
          PROVE  request[r] \in Login /\ AttemptOf(r) \in Attempt
        <2>1. request[r] \in Login
            BY DEF Unsettled, At, LoginTypeOK, Idle
        <2>. QED  BY <2>1 DEF AttemptOf, Attempt, Login
    <1>2. Admitting \subseteq Unsettled
        BY DEF Admitting, Unsettled
    <1>3. Admitted \in SUBSET Attempt
        BY <1>1, <1>2 DEF Admitted, LoginTypeOK
    <1>. QED  BY <1>1, <1>2, <1>3 DEF AdmittedTo

\* Windows and clocks, as numbers.
LEMMA LimiterTyped ==
    ASSUME LoginTypeOK
    PROVE  /\ limiter.global \in Counted
           /\ \A a \in DOMAIN limiter.accounts :
                 a \in Accounts /\ limiter.accounts[a] \in Counted
           /\ clock \in Nat
           /\ MaxAttempts \in Nat \ {0} /\ GlobalMax \in Nat \ {0}
           /\ Window \in Nat \ {0} /\ MaxDelay \in Nat
           /\ Window - MaxDelay \in Nat \ {0} /\ Window - MaxDelay <= Window
    BY LoginAssumption DEF LoginTypeOK, IsLimiter, Times

\* How a step changes the requests that are not settled: only a submission adds
\* one, an admission makes one wait for a permit, and every other step keeps
\* those that are left.
LEMMA UnsettledStep ==
    ASSUME LoginTypeOK, [LoginNext]_loginVars
    PROVE  \/ \E r \in Logins :
                 /\ Submit(r)
                 /\ r \notin Unsettled
                 /\ Unsettled' \subseteq Unsettled \cup {r}
                 /\ request'[r].n = submits + 1 /\ request'[r].at = clock
                 /\ At(r, "observed")'
                 /\ Admitting' = Admitting
                 /\ \A o \in Logins \ {r} : request'[o] = request[o]
           \/ \E r \in Logins :
                 /\ Check(r)
                 /\ r \in Unsettled /\ r \notin Admitting
                 /\ Unsettled' \subseteq Unsettled
                 /\ AttemptOf(r).at = request[r].at
                 /\ AttemptOf(r).account = request[r].account
                 /\ IF Reduce(limiter, request[r].account, request[r].at).outcome.allowed
                    THEN /\ Admitting' = Admitting \cup {r}
                         /\ AttemptOf(r)' = AttemptOf(r)
                    ELSE Admitting' = Admitting
                 /\ request'[r].pc # "observed"
                 /\ r \in Unsettled' => request'[r].n = request[r].n
                 /\ \A o \in Logins \ {r} : request'[o] = request[o]
           \/ \E r \in Logins :
                 /\ Acquire(r)
                 /\ r \in Admitting
                 /\ Unsettled' = Unsettled \ {r}
                 /\ Admitting' = Admitting \ {r}
                 /\ \A o \in Logins \ {r} : request'[o] = request[o]
           \/ /\ UNCHANGED <<limiter, tried, submits>>
              /\ clock' = clock \/ Tick
              /\ Unsettled' \subseteq Unsettled /\ Admitting' \subseteq Admitting
              /\ \A o \in Unsettled' : request'[o] = request[o]
    <1>u. UNCHANGED request => Unsettled' = Unsettled /\ Admitting' = Admitting
        BY DEF Unsettled, Admitting, At
    <1>r. \A o \in Unsettled : request[o] \in Login
        BY AdmittedTyped
    <1>1. CASE UNCHANGED loginVars \/ Tick
        BY <1>1, <1>u DEF loginVars, Tick, Unsettled
    <1>2. ASSUME NEW r \in Logins, Submit(r)
          PROVE  /\ r \notin Unsettled
                 /\ Unsettled' \subseteq Unsettled \cup {r}
                 /\ request'[r].n = submits + 1 /\ request'[r].at = clock
                 /\ At(r, "observed")'
                 /\ Admitting' = Admitting
                 /\ \A o \in Logins \ {r} : request'[o] = request[o]
        <2>1. /\ request[r].pc = "idle"
              /\ request'[r].pc = "observed"
              /\ request'[r].n = submits + 1 /\ request'[r].at = clock
              /\ \A o \in Logins \ {r} : request'[o] = request[o]
            BY <1>2 DEF Submit, Goto, At, LoginTypeOK
        <2>. QED  BY <2>1 DEF Unsettled, Admitting, At
    <1>3. ASSUME NEW r \in Logins, Check(r)
          PROVE  /\ r \in Unsettled /\ r \notin Admitting
                 /\ Unsettled' \subseteq Unsettled
                 /\ AttemptOf(r).at = request[r].at
                 /\ AttemptOf(r).account = request[r].account
                 /\ IF Reduce(limiter, request[r].account, request[r].at).outcome.allowed
                    THEN /\ Admitting' = Admitting \cup {r}
                         /\ AttemptOf(r)' = AttemptOf(r)
                    ELSE Admitting' = Admitting
                 /\ request'[r].pc # "observed"
                 /\ r \in Unsettled' => request'[r].n = request[r].n
                 /\ \A o \in Logins \ {r} : request'[o] = request[o]
        <2>. DEFINE allowed == Reduce(limiter, request[r].account, request[r].at).outcome.allowed
        <2>1. request[r].pc = "observed" /\ r \in Unsettled
            BY <1>3 DEF Check, At, Unsettled
        <2>2. request[r] \in Login
            BY <1>r, <2>1
        <2>3. /\ \A o \in Logins \ {r} : request'[o] = request[o]
              /\ request'[r] = IF allowed THEN [request[r] EXCEPT !.pc = "allowed"] ELSE Idle
            BY <1>3 DEF Check, Goto, LoginTypeOK
        <2>. HIDE DEF allowed
        <2>4. IF allowed
              THEN /\ request'[r].pc = "allowed"
                   /\ request'[r].n = request[r].n
                   /\ request'[r].account = request[r].account
                   /\ request'[r].at = request[r].at
              ELSE request'[r].pc = "idle"
            BY <2>2, <2>3 DEF Login, Idle
        <2>5. IF allowed
              THEN Admitting' = Admitting \cup {r} /\ AttemptOf(r)' = AttemptOf(r)
              ELSE Admitting' = Admitting
            <3>1. allowed => AttemptOf(r)' = AttemptOf(r)
                BY <2>4 DEF AttemptOf
            <3>2. IF allowed THEN Admitting' = Admitting \cup {r} ELSE Admitting' = Admitting
                <4>1. \A o \in Logins \ {r} : At(o, "allowed")' <=> At(o, "allowed")
                    BY <2>3 DEF At
                <4>2. ~At(r, "allowed") /\ (At(r, "allowed")' <=> allowed)
                    BY <2>1, <2>4 DEF At
                <4>. QED  BY <4>1, <4>2 DEF Admitting
            <3>. QED  BY <3>1, <3>2
        <2>6. /\ r \notin Admitting /\ Unsettled' \subseteq Unsettled
              /\ r \in Unsettled' => request'[r].n = request[r].n
              /\ request'[r].pc # "observed"
            BY <2>1, <2>3, <2>4 DEF Admitting, Unsettled, At
        <2>. QED  BY <2>1, <2>3, <2>5, <2>6 DEF allowed, AttemptOf
    <1>4. ASSUME NEW r \in Logins, Acquire(r)
          PROVE  /\ r \in Admitting
                 /\ Unsettled' = Unsettled \ {r}
                 /\ Admitting' = Admitting \ {r}
                 /\ \A o \in Logins \ {r} : request'[o] = request[o]
        <2>1. request[r].pc = "allowed" /\ r \in Admitting /\ r \in Unsettled
            BY <1>4 DEF Acquire, At, Admitting, Unsettled
        <2>2. /\ \A o \in Logins \ {r} : request'[o] = request[o]
              /\ request'[r] = [request[r] EXCEPT !.pc = "signing"]
            BY <1>4 DEF Acquire, Goto, LoginTypeOK
        <2>3. request'[r].pc = "signing"
            BY <1>r, <2>1, <2>2 DEF Login
        <2>4. \A o \in Logins : o # r => request'[o] = request[o]
            BY <2>2
        <2>5. Unsettled' = Unsettled \ {r}
            BY <2>3, <2>4 DEF Unsettled, At
        <2>6. Admitting' = Admitting \ {r}
            BY <2>3, <2>4 DEF Admitting, At
        <2>. QED  BY <2>1, <2>2, <2>5, <2>6
    <1>5. ASSUME NEW r \in Logins \cup Bearers,
                 Busy(r) \/ SignedIn(r) \/ Answer(r) \/ Cancel(r) \/ Verify(r) \/ Verified(r)
          PROVE  /\ UNCHANGED <<limiter, tried, submits, clock>>
                 /\ Unsettled' \subseteq Unsettled /\ Admitting' \subseteq Admitting
                 /\ \A o \in Unsettled' : request'[o] = request[o]
        <2>1. /\ UNCHANGED <<limiter, tried, submits, clock>>
              /\ \A o \in Logins \ {r} : request'[o] = request[o]
            BY <1>5 DEF Busy, SignedIn, Answer, Cancel, Verify, Verified, Returns, Goto,
                        LoginTypeOK
        <2>2. request'[r].pc \notin {"observed", "allowed"}
            <3>1. CASE SignedIn(r)
                <4>1. request[r] \in Login
                    BY <3>1 DEF SignedIn, At, LoginTypeOK, Idle
                <4>. QED  BY <3>1, <4>1 DEF SignedIn, Goto, LoginTypeOK, Login
            <3>2. CASE Busy(r) \/ Answer(r) \/ Cancel(r) \/ Verify(r) \/ Verified(r)
                BY <3>2 DEF Busy, Answer, Cancel, Verify, Verified, Returns, Goto,
                            LoginTypeOK, Idle
            <3>. QED  BY <1>5, <3>1, <3>2
        <2>. QED  BY <2>1, <2>2 DEF Unsettled, Admitting, At
    <1>. QED  BY <1>1, <1>2, <1>3, <1>4, <1>5 DEF LoginNext

\* Attempts that are not settled keep their numbers until they are sent.
LEMMA NumberedStep ==
    ASSUME LoginTypeOK, Numbered, [LoginNext]_loginVars
    PROVE  Numbered'
    <1>n. /\ submits \in Nat
          /\ \A x \in tried : x.n \in Nat
          /\ \A r \in Unsettled : request[r].n \in Nat
        BY AdmittedTyped DEF LoginTypeOK, Attempt, Login
    <1>1. ASSUME UNCHANGED <<tried, submits>>, Unsettled' \subseteq Unsettled,
                 \A o \in Unsettled' : request'[o].n = request[o].n
          PROVE  Numbered'
        BY <1>1 DEF Numbered
    <1>2. ASSUME NEW r \in Logins, Submit(r), r \notin Unsettled,
                 Unsettled' \subseteq Unsettled \cup {r},
                 request'[r].n = submits + 1,
                 \A o \in Logins \ {r} : request'[o] = request[o]
          PROVE  Numbered'
        <2>1. submits' = submits + 1 /\ tried' = tried
            BY <1>2 DEF Submit
        <2>2. \A o \in Unsettled' : IF o = r
                                    THEN request'[o].n = submits + 1
                                    ELSE o \in Unsettled /\ request'[o].n = request[o].n
            BY <1>2 DEF Unsettled
        <2>3. \A x \in tried' : x.n <= submits'
            BY <1>n, <2>1 DEF Numbered
        <2>4. \A o \in Unsettled' : /\ request'[o].n <= submits'
                                    /\ \A x \in tried' : x.n # request'[o].n
            BY <1>n, <2>1, <2>2 DEF Numbered
        <2>5. \A o, s \in Unsettled' : request'[o].n = request'[s].n => o = s
            BY <1>n, <2>2 DEF Numbered
        <2>. QED  BY <2>3, <2>4, <2>5 DEF Numbered
    <1>3. ASSUME NEW r \in Logins, Check(r), Unsettled' \subseteq Unsettled,
                 r \in Unsettled' => request'[r].n = request[r].n,
                 \A o \in Logins \ {r} : request'[o] = request[o]
          PROVE  Numbered'
        <2>1. UNCHANGED <<tried, submits>>
            BY <1>3 DEF Check
        <2>2. \A o \in Unsettled' : request'[o].n = request[o].n
            BY <1>3 DEF Unsettled
        <2>. QED  BY <1>1, <1>3, <2>1, <2>2
    <1>4. ASSUME NEW r \in Logins, Acquire(r), r \in Admitting,
                 Unsettled' = Unsettled \ {r},
                 \A o \in Logins \ {r} : request'[o] = request[o]
          PROVE  Numbered'
        <2>1. /\ submits' = submits
              /\ tried' = tried \cup {AttemptOf(r)}
              /\ AttemptOf(r).n = request[r].n
              /\ r \in Unsettled
            BY <1>4, AdmittedTyped DEF Acquire, AttemptOf
        <2>2. \A o \in Unsettled' : /\ o \in Unsettled /\ o # r
                                    /\ request'[o].n = request[o].n
            BY <1>4 DEF Unsettled
        <2>. QED  BY <2>1, <2>2 DEF Numbered
    <1>. QED  BY <1>1, <1>2, <1>3, <1>4, UnsettledStep

\* Only an admission adds to the admitted attempts: one that is new to them.
LEMMA AdmittedStep ==
    ASSUME LoginTypeOK, Numbered, [LoginNext]_loginVars
    PROVE  \/ Admitted' \in SUBSET Admitted
           \/ \E r \in Logins :
                 /\ Check(r)
                 /\ Reduce(limiter, request[r].account, request[r].at).outcome.allowed
                 /\ AttemptOf(r) \in Attempt /\ AttemptOf(r) \notin Admitted
                 /\ AttemptOf(r).at = request[r].at
                 /\ AttemptOf(r).account = request[r].account
                 /\ Admitted' = Admitted \cup {AttemptOf(r)}
    <1>1. ASSUME tried' = tried, Admitting' \subseteq Admitting,
                 \A o \in Admitting' : request'[o] = request[o]
          PROVE  Admitted' \in SUBSET Admitted
        <2>1. \A o \in Admitting' : AttemptOf(o)' = AttemptOf(o)
            BY <1>1 DEF AttemptOf
        <2>. QED  BY <1>1, <2>1 DEF Admitted
    <1>2. ASSUME NEW r \in Logins, Submit(r), r \notin Unsettled,
                 Admitting' = Admitting,
                 \A o \in Logins \ {r} : request'[o] = request[o]
          PROVE  Admitted' \in SUBSET Admitted
        <2>1. tried' = tried /\ r \notin Admitting
            BY <1>2, AdmittedTyped DEF Submit
        <2>. QED  BY <1>1, <1>2, <2>1 DEF Admitting
    <1>3. ASSUME NEW r \in Logins, Check(r), r \in Unsettled, r \notin Admitting,
                 AttemptOf(r).at = request[r].at,
                 AttemptOf(r).account = request[r].account,
                 IF Reduce(limiter, request[r].account, request[r].at).outcome.allowed
                 THEN Admitting' = Admitting \cup {r} /\ AttemptOf(r)' = AttemptOf(r)
                 ELSE Admitting' = Admitting,
                 \A o \in Logins \ {r} : request'[o] = request[o]
          PROVE  \/ Admitted' \in SUBSET Admitted
                 \/ /\ Reduce(limiter, request[r].account, request[r].at).outcome.allowed
                    /\ AttemptOf(r) \in Attempt /\ AttemptOf(r) \notin Admitted
                    /\ Admitted' = Admitted \cup {AttemptOf(r)}
        <2>1. tried' = tried
            BY <1>3 DEF Check
        <2>2. \A o \in Admitting : o \in Logins \ {r} /\ AttemptOf(o)' = AttemptOf(o)
            BY <1>3 DEF Admitting, AttemptOf
        <2>3. CASE ~Reduce(limiter, request[r].account, request[r].at).outcome.allowed
            BY <1>3, <2>1, <2>2, <2>3 DEF Admitted
        <2>4. CASE Reduce(limiter, request[r].account, request[r].at).outcome.allowed
            <3>1. Admitted' = Admitted \cup {AttemptOf(r)}
                BY <1>3, <2>1, <2>2, <2>4 DEF Admitted
            <3>2. \A x \in tried : x # AttemptOf(r)
                BY <1>3 DEF Numbered, AttemptOf
            <3>3. \A o \in Admitting : AttemptOf(o) # AttemptOf(r)
                <4>. SUFFICES ASSUME NEW o \in Admitting, AttemptOf(o) = AttemptOf(r)
                              PROVE  FALSE
                    OBVIOUS
                <4>1. request[o].n = request[r].n
                    BY DEF AttemptOf
                <4>. QED  BY <1>3, <4>1, AdmittedTyped DEF Numbered
            <3>. QED  BY <1>3, <2>4, <3>1, <3>2, <3>3, AdmittedTyped DEF Admitted
        <2>. QED  BY <2>3, <2>4
    <1>4. ASSUME NEW r \in Logins, Acquire(r), r \in Admitting,
                 Admitting' = Admitting \ {r},
                 \A o \in Logins \ {r} : request'[o] = request[o]
          PROVE  Admitted' \in SUBSET Admitted
        <2>1. tried' = tried \cup {AttemptOf(r)}
            BY <1>4 DEF Acquire
        <2>2. \A o \in Admitting' : o \in Admitting /\ AttemptOf(o)' = AttemptOf(o)
            BY <1>4 DEF Admitting, AttemptOf
        <2>. QED  BY <1>4, <2>1, <2>2 DEF Admitted
    <1>5. ASSUME tried' = tried, Unsettled' \subseteq Unsettled, Admitting' \subseteq Admitting,
                 \A o \in Unsettled' : request'[o] = request[o]
          PROVE  Admitted' \in SUBSET Admitted
        <2>1. Admitting' \subseteq Unsettled'
            BY DEF Admitting, Unsettled
        <2>. QED  BY <1>1, <1>5, <2>1
    <1>. QED  BY <1>2, <1>3, <1>4, <1>5, UnsettledStep

\* The limiter's windows and the ledgers go on together.
LEMMA BudgetStep == BudgetInv /\ [LoginNext]_loginVars => BudgetInv'
    <1>. SUFFICES ASSUME BudgetInv, [LoginNext]_loginVars
                  PROVE  BudgetInv'
        OBVIOUS
    <1>t. /\ RetryInv /\ RetryInv' /\ LoginTypeOK /\ LoginTypeOK'
          /\ Numbered /\ Numbered'
        <2>1. RetryInv /\ RetryInv' /\ Numbered
            BY RetryStep DEF BudgetInv
        <2>2. LoginTypeOK /\ LoginTypeOK'
            BY <2>1 DEF RetryInv
        <2>. QED  BY <2>1, <2>2, NumberedStep
    <1>n. /\ clock \in Nat /\ clock' \in Nat /\ clock <= clock'
          /\ MaxAttempts \in Nat \ {0} /\ GlobalMax \in Nat \ {0}
          /\ Window \in Nat \ {0} /\ MaxDelay \in Nat
          /\ Window - MaxDelay \in Nat \ {0} /\ Window - MaxDelay <= Window
          /\ Times \subseteq Nat
        <2>1. clock' = clock \/ clock' = clock + 1
            BY DEF LoginNext, loginVars, Tick, Submit, Check, Cancel, Acquire, Busy, SignedIn,
                   Answer, Verify, Verified
        <2>2. clock \in Nat /\ clock' \in Nat
            BY <1>t, LoginAssumption DEF LoginTypeOK, Times
        <2>. QED  BY <1>t, <2>1, <2>2, LimiterTyped, LoginAssumption DEF Times
    <1>d. \A r \in Logins : At(r, "observed")' => clock' <= request'[r].at + MaxDelay
        <2>. SUFFICES ASSUME NEW o \in Logins, At(o, "observed")'
                      PROVE  clock' <= request'[o].at + MaxDelay
            OBVIOUS
        <2>1. o \in Unsettled' /\ request'[o].pc = "observed"
            BY DEF Unsettled, At
        <2>2. ASSUME request'[o] = request[o]
              PROVE  /\ request[o].at \in Nat /\ clock <= request[o].at + MaxDelay
                     /\ At(o, "observed")
            <3>1. At(o, "observed") /\ o \in Unsettled
                BY <2>1, <2>2 DEF At, Unsettled
            <3>2. request[o].at \in Nat
                BY <1>n, <1>t, <3>1, AdmittedTyped DEF Login
            <3>. QED  BY <3>1, <3>2 DEF BudgetInv
        <2>3. CASE \E r \in Logins : Submit(r) /\ request'[r].at = clock
                                     /\ \A s \in Logins \ {r} : request'[s] = request[s]
            <3>1. clock' = clock
                BY <2>3 DEF Submit
            <3>. QED  BY <1>n, <2>2, <2>3, <3>1
        <2>4. CASE \E r \in Logins : /\ Check(r) \/ Acquire(r)
                                     /\ At(o, "observed")' => o # r
                                     /\ \A s \in Logins \ {r} : request'[s] = request[s]
            <3>1. clock' = clock
                BY <2>4 DEF Check, Acquire
            <3>. QED  BY <1>n, <2>2, <2>4, <3>1
        <2>5. CASE /\ clock' = clock \/ Tick
                   /\ \A s \in Unsettled' : request'[s] = request[s]
            <3>1. CASE clock' = clock
                BY <2>1, <2>2, <2>5, <3>1
            <3>2. CASE Tick
                <4>1. clock' = clock + 1 /\ clock - request[o].at < MaxDelay
                    BY <2>1, <2>2, <2>5, <3>2 DEF Tick
                <4>. QED  BY <1>n, <2>1, <2>2, <2>5, <4>1
            <3>. QED  BY <2>5, <3>1, <3>2
        <2>6. ASSUME NEW r \in Logins, r \notin Unsettled' \/ request'[r].pc # "observed"
              PROVE  o # r
            BY <2>1, <2>6
        <2>. QED  BY <1>t, <2>3, <2>4, <2>5, <2>6, UnsettledStep
    <1>1. CASE UNCHANGED limiter /\ Admitted' \in SUBSET Admitted
        <2>1. Kept(Admitted', limiter.global, GlobalMax, Window)
            BY <1>1, <1>n, <1>t, AdmittedTyped, LedgerShrinks DEF BudgetInv
        <2>2. ASSUME NEW a \in Accounts
              PROVE  IF a \in DOMAIN limiter.accounts
                     THEN Kept(AdmittedTo(a)', limiter.accounts[a], MaxAttempts, Window - MaxDelay)
                     ELSE Closed(AdmittedTo(a)', MaxAttempts, Window - MaxDelay, clock')
            <3>1. AdmittedTo(a)' \in SUBSET AdmittedTo(a)
                BY <1>1 DEF AdmittedTo
            <3>. QED  BY <1>n, <1>t, <3>1, AdmittedTyped, LedgerShrinks DEF BudgetInv
        <2>. QED  BY <1>1, <1>t, <1>d, <2>1, <2>2 DEF BudgetInv
    <1>2. ASSUME NEW r \in Logins, Check(r) PROVE BudgetInv'
        <2>a. PICK account \in Accounts : account = request[r].account
            BY <1>2, <1>t, CheckDecides
        <2>. DEFINE x == AttemptOf(r)
                    now == request[r].at
                    after == Reduce(limiter, account, now).state
                    allowed == Reduce(limiter, account, now).outcome.allowed
        <2>1. /\ IsLimiter(limiter) /\ now \in Times
              /\ limiter' = after
              /\ clock' = clock
              /\ clock <= now + MaxDelay /\ now <= clock
            BY <1>2, <1>t, <2>a, CheckDecides DEF Check, BudgetInv, RetryInv
        <2>2. /\ \A a \in DOMAIN limiter.accounts : limiter.accounts[a] \in Counted
              /\ limiter.global \in Counted
              /\ \A a \in DOMAIN after.accounts : /\ after.accounts[a] \in Counted
                                                  /\ after.accounts[a].opened <= now + MaxDelay
              /\ after.global \in Counted /\ after.global.opened <= now + MaxDelay
            <3>1. /\ \A a \in DOMAIN limiter.accounts : limiter.accounts[a] \in Counted
                  /\ limiter.global \in Counted
                BY <1>t, LimiterTyped
            <3>2. IsLimiter(after)
                BY <2>1, ReduceType
            <3>3. /\ after.global.opened <= clock
                  /\ \A a \in DOMAIN after.accounts : after.accounts[a].opened <= clock
                BY <1>t, <2>1 DEF RetryInv
            <3>4. /\ \A a \in DOMAIN after.accounts : after.accounts[a] \in Counted
                  /\ after.global \in Counted
                BY <3>2 DEF IsLimiter
            <3>5. now \in Nat /\ after.global.opened \in Nat
                    /\ \A a \in DOMAIN after.accounts : after.accounts[a].opened \in Nat
                BY <1>n, <2>1, <3>4 DEF Counted
            <3>. HIDE DEF after, now
            <3>. QED  BY <1>n, <2>1, <3>1, <3>3, <3>4, <3>5
        <2>3. /\ Follows(after.global, limiter.global, GlobalMax, now)
              /\ \A a \in DOMAIN after.accounts :
                    IF a \in DOMAIN limiter.accounts
                    THEN Follows(after.accounts[a], limiter.accounts[a], MaxAttempts, now)
                    ELSE after.accounts[a].opened = now
              /\ \A a \in DOMAIN limiter.accounts :
                    a \notin DOMAIN after.accounts => limiter.accounts[a].opened + Window <= now
            BY <2>1, ReduceFollows
        <2>4. allowed => /\ Admits(after.global, limiter.global, GlobalMax, now)
                         /\ account \in DOMAIN after.accounts
                         /\ IF account \in DOMAIN limiter.accounts
                            THEN Admits(after.accounts[account], limiter.accounts[account],
                                        MaxAttempts, now)
                            ELSE after.accounts[account] = [opened |-> now, attempts |-> 1]
            BY <2>1, ReduceAdmits
        <2>5. /\ Admitted \in SUBSET Attempt
              /\ \A a : AdmittedTo(a) \in SUBSET Attempt
              /\ Kept(Admitted, limiter.global, GlobalMax, Window)
              /\ \A a \in Accounts :
                    IF a \in DOMAIN limiter.accounts
                    THEN Kept(AdmittedTo(a), limiter.accounts[a], MaxAttempts, Window - MaxDelay)
                    ELSE Closed(AdmittedTo(a), MaxAttempts, Window - MaxDelay, clock)
            BY <1>t, AdmittedTyped DEF BudgetInv
        <2>. HIDE DEF after, now, allowed, x
        \* Without the attempt's admission.
        <2>6. Kept(Admitted, after.global, GlobalMax, Window)
            BY <1>n, <2>1, <2>2, <2>3, <2>5, KeptFollows
        <2>7. ASSUME NEW a \in Accounts
              PROVE  IF a \in DOMAIN after.accounts
                     THEN Kept(AdmittedTo(a), after.accounts[a], MaxAttempts, Window - MaxDelay)
                     ELSE Closed(AdmittedTo(a), MaxAttempts, Window - MaxDelay, clock)
            <3>1. CASE a \in DOMAIN after.accounts /\ a \in DOMAIN limiter.accounts
                BY <1>n, <2>1, <2>2, <2>3, <2>5, <3>1, KeptFollows
            <3>2. CASE a \in DOMAIN after.accounts /\ a \notin DOMAIN limiter.accounts
                <4>1. after.accounts[a] \in Counted /\ clock <= after.accounts[a].opened + MaxDelay
                    BY <2>1, <2>2, <2>3, <3>2
                <4>. QED  BY <1>n, <2>5, <3>2, <4>1, ClosedOpens
            <3>3. CASE a \notin DOMAIN after.accounts /\ a \in DOMAIN limiter.accounts
                <4>1. limiter.accounts[a] \in Counted /\ limiter.accounts[a].opened + Window <= now
                    BY <2>2, <2>3, <3>3
                <4>2. limiter.accounts[a].opened + Window <= clock
                    <5>1. limiter.accounts[a].opened \in Nat /\ now \in Nat
                        BY <1>n, <2>1, <4>1 DEF Counted
                    <5>. QED  BY <1>n, <2>1, <4>1, <5>1
                <4>. QED  BY <1>n, <2>5, <3>3, <4>1, <4>2, KeptCloses
            <3>4. CASE a \notin DOMAIN after.accounts /\ a \notin DOMAIN limiter.accounts
                BY <2>5, <3>4
            <3>. QED  BY <3>1, <3>2, <3>3, <3>4
        <2>8. CASE Admitted' \in SUBSET Admitted
            <3>1. Kept(Admitted', after.global, GlobalMax, Window)
                BY <1>n, <2>5, <2>6, <2>8, LedgerShrinks
            <3>2. ASSUME NEW a \in Accounts
                  PROVE  IF a \in DOMAIN after.accounts
                         THEN Kept(AdmittedTo(a)', after.accounts[a], MaxAttempts,
                                   Window - MaxDelay)
                         ELSE Closed(AdmittedTo(a)', MaxAttempts, Window - MaxDelay, clock)
                <4>1. AdmittedTo(a)' \in SUBSET AdmittedTo(a)
                    BY <2>8 DEF AdmittedTo
                <4>2. AdmittedTo(a) \in SUBSET Attempt
                    BY <2>5
                <4>3. CASE a \in DOMAIN after.accounts
                    BY <1>n, <2>7, <4>1, <4>2, <4>3, LedgerShrinks
                <4>4. CASE a \notin DOMAIN after.accounts
                    <5>1. Closed(AdmittedTo(a), MaxAttempts, Window - MaxDelay, clock)
                        BY <2>7, <4>4
                    <5>2. clock \in Nat /\ clock <= clock
                        BY <1>n
                    <5>3. Closed(AdmittedTo(a)', MaxAttempts, Window - MaxDelay, clock)
                        BY <4>1, <4>2, <5>1, <5>2, LedgerShrinks
                    <5>. QED  BY <4>4, <5>3
                <4>. QED  BY <4>3, <4>4
            <3>. QED  BY <1>t, <1>d, <2>1, <3>1, <3>2 DEF BudgetInv
        <2>9. CASE /\ allowed
                   /\ x \in Attempt /\ x \notin Admitted
                   /\ x.at = now /\ x.account = account
                   /\ Admitted' = Admitted \cup {x}
            <3>1. Kept(Admitted \cup {x}, after.global, GlobalMax, Window)
                BY <1>n, <2>2, <2>4, <2>5, <2>9, KeptAdmits
            <3>2. ASSUME NEW a \in Accounts, a # account
                  PROVE  AdmittedTo(a)' = AdmittedTo(a)
                <4>1. x.account # a
                    BY <2>9, <3>2
                <4>. QED  BY <2>9, <4>1 DEF AdmittedTo
            <3>3. /\ AdmittedTo(account)' = AdmittedTo(account) \cup {x}
                  /\ x \notin AdmittedTo(account)
                BY <2>9 DEF AdmittedTo
            <3>4. Kept(AdmittedTo(account) \cup {x}, after.accounts[account], MaxAttempts,
                       Window - MaxDelay)
                <4>1. CASE account \in DOMAIN limiter.accounts
                    BY <1>n, <2>1, <2>2, <2>4, <2>5, <2>9, <3>3, <4>1, KeptAdmits
                <4>2. CASE account \notin DOMAIN limiter.accounts
                    <5>. DEFINE w == [opened |-> now, attempts |-> 0]
                    <5>1. /\ w \in Counted /\ w.opened = now /\ w.attempts = 0
                          /\ now \in Nat
                        BY <1>n, <2>1 DEF Counted
                    <5>2. /\ after.accounts[account] \in Counted
                          /\ after.accounts[account].opened = now
                          /\ after.accounts[account].attempts = 1
                        BY <2>2, <2>4, <2>9, <4>2
                    <5>. HIDE DEF w
                    <5>3. clock <= w.opened + MaxDelay
                        BY <2>1, <5>1
                    <5>4. Kept(AdmittedTo(account), w, MaxAttempts, Window - MaxDelay)
                        BY <1>n, <2>1, <2>5, <4>2, <5>1, <5>3, ClosedOpens
                    <5>5. Admits(after.accounts[account], w, MaxAttempts, now)
                        BY <1>n, <5>1, <5>2 DEF Admits
                    <5>6. after.accounts[account].opened <= now + MaxDelay
                        BY <1>n, <5>1, <5>2
                    <5>. QED  BY <1>n, <2>5, <2>9, <3>3, <5>1, <5>2, <5>4, <5>5, <5>6, KeptAdmits
                <4>. QED  BY <4>1, <4>2
            <3>5. ASSUME NEW a \in Accounts
                  PROVE  IF a \in DOMAIN after.accounts
                         THEN Kept(AdmittedTo(a)', after.accounts[a], MaxAttempts,
                                   Window - MaxDelay)
                         ELSE Closed(AdmittedTo(a)', MaxAttempts, Window - MaxDelay, clock)
                <4>1. CASE a = account
                    BY <2>4, <2>9, <3>3, <3>4, <4>1
                <4>2. CASE a # account
                    BY <2>7, <3>2, <4>2
                <4>. QED  BY <4>1, <4>2
            <3>. QED  BY <1>t, <1>d, <2>1, <2>9, <3>1, <3>5 DEF BudgetInv
        <2>10. ASSUME NEW o \in Logins, Check(o), o # r PROVE FALSE
            <3>1. request'[r] = request[r]
                BY <1>t, <2>10, CheckDecides
            <3>2. request[r].pc = "observed" /\ request'[r].pc \in {"allowed", "idle"}
                BY <1>2, <1>t, CheckDecides
            <3>. QED  BY <3>1, <3>2
        <2>. QED
            BY <1>2, <1>t, <2>a, <2>8, <2>9, <2>10, AdmittedStep DEF x, now, allowed
    <1>3. CASE limiter' = limiter /\ ~\E r \in Logins : Check(r)
        BY <1>1, <1>3, <1>t, AdmittedStep
    <1>. QED  BY <1>2, <1>3, OnlyCheckCharges

LEMMA BudgetInit == LoginInit => BudgetInv
    <1>. SUFFICES ASSUME LoginInit PROVE BudgetInv
        OBVIOUS
    <1>1. /\ LoginTypeOK
          /\ clock = 0 /\ told = {} /\ tried = {}
          /\ limiter.global.opened = 0 /\ DOMAIN limiter.accounts = {}
          /\ \A r \in Logins : ~At(r, "observed") /\ ~At(r, "allowed")
        BY LoginInitTyped DEF LoginInit, At, Idle
    <1>2. RetryInv
        BY <1>1 DEF RetryInv
    <1>3. /\ Unsettled = {} /\ Admitted = {}
          /\ \A a : AdmittedTo(a) = {}
        BY <1>1 DEF Unsettled, Admitted, Admitting, AdmittedTo
    <1>4. Numbered
        BY <1>1, <1>3 DEF Numbered
    <1>5. /\ \A w, limit, apart : Kept({}, w, limit, apart)
          /\ \A limit, apart, c : Closed({}, limit, apart, c)
        <2>1. /\ [x \in Attempt |-> 0] \in [Attempt -> Times]
              /\ [x \in Attempt |-> 0] \in [Attempt -> Nat]
            BY LoginAssumption DEF Times
        <2>2. \A win, nth, limit, apart : Ledger({}, win, nth, limit, apart)
            BY DEF Ledger
        <2>. QED  BY <2>1, <2>2 DEF Kept, Closed, Linked
    <1>. QED  BY <1>1, <1>2, <1>3, <1>4, <1>5 DEF BudgetInv

LEMMA BudgetHolds == BudgetInv => BudgetPerWindow
    <1>. SUFFICES ASSUME BudgetInv, NEW first \in Times
                  PROVE  LET last == Min({first + Window - 1, MaxClock})
                         IN  /\ \A a \in Accounts :
                                   TriedIn({a}, first, last)
                                      <= Windows(Window - MaxDelay) * MaxAttempts
                             /\ TriedIn(Accounts, first, last) <= Windows(Window) * GlobalMax
        BY DEF BudgetPerWindow
    <1>. DEFINE last == Min({first + Window - 1, MaxClock})
    <1>t. LoginTypeOK
        BY DEF BudgetInv, RetryInv
    <1>n. /\ MaxAttempts \in Nat \ {0} /\ GlobalMax \in Nat \ {0}
          /\ Window \in Nat \ {0}
          /\ Window - MaxDelay \in Nat \ {0}
        BY <1>t, LimiterTyped
    <1>1. last \in Int /\ last <= first + Window - 1
        <2>1. first + Window - 1 \in Int /\ MaxClock \in Int
            BY <1>n, LoginAssumption DEF Times
        <2>. QED  BY <2>1, MinOfTwo
    <1>. HIDE DEF last
    <1>2. ASSUME NEW A, NEW S \in SUBSET Attempt, NEW limit \in Nat \ {0},
                 NEW apart \in Nat \ {0},
                 \E win \in [Attempt -> Times], nth \in [Attempt -> Nat] :
                     Ledger(S, win, nth, limit, apart),
                 \A x \in tried : x.account \in A => x \in S
          PROVE  TriedIn(A, first, last) <= Windows(apart) * limit
        <2>. DEFINE T == {x \in tried : x.account \in A /\ x.at \in first..last}
        <2>1. T \in SUBSET S
            BY <1>2
        <2>2. \A x \in T : first <= x.at /\ x.at <= first + Window - 1
            <3>1. first \in Nat
                BY LoginAssumption DEF Times
            <3>. QED  BY <1>n, <1>1, <3>1
        <2>. HIDE DEF T
        <2>3. Cardinality(T) <= Windows(apart) * limit
            BY <1>2, <2>1, <2>2, LedgerBounds
        <2>. QED  BY <2>3 DEF TriedIn, T
    <1>3. tried \subseteq Admitted /\ Admitted \in SUBSET Attempt
        BY <1>t, AdmittedTyped DEF Admitted
    <1>4. ASSUME NEW a \in Accounts
          PROVE  TriedIn({a}, first, last) <= Windows(Window - MaxDelay) * MaxAttempts
        <2>1. AdmittedTo(a) \in SUBSET Attempt
            BY <1>t, AdmittedTyped
        <2>2. \A x \in tried : x.account \in {a} => x \in AdmittedTo(a)
            BY <1>3 DEF AdmittedTo
        <2>3. \E win \in [Attempt -> Times], nth \in [Attempt -> Nat] :
                  Ledger(AdmittedTo(a), win, nth, MaxAttempts, Window - MaxDelay)
            BY DEF BudgetInv, Kept, Closed
        <2>. QED  BY <1>n, <1>2, <2>1, <2>2, <2>3
    <1>5. TriedIn(Accounts, first, last) <= Windows(Window) * GlobalMax
        <2>1. \E win \in [Attempt -> Times], nth \in [Attempt -> Nat] :
                  Ledger(Admitted, win, nth, GlobalMax, Window)
            BY DEF BudgetInv, Kept
        <2>. QED  BY <1>n, <1>2, <1>3, <2>1
    <1>. QED  BY <1>4, <1>5 DEF last

\* For every budget, window and delay, and any number of accounts and requests:
\* neither the pruning of windows, nor the order in which attempts get the
\* lock, nor the attempts' number lets more of them through to the
\* authentication service than the budgets say.
THEOREM BudgetsAlwaysHold == LoginSpec => []BudgetPerWindow
    BY BudgetInit, BudgetStep, BudgetHolds, PTL DEF LoginSpec

\* The authentication service is always spared: both how often and by how many
\* at once it is called.
THEOREM UpstreamAlwaysSpared == LoginSpec => []UpstreamIsSpared
    <1>1. BudgetPerWindow /\ PermitsMatchCalls => UpstreamIsSpared
        BY DEF UpstreamIsSpared
    <1>. QED  BY <1>1, BudgetsAlwaysHold, PermitsAlwaysMatch, PTL
=============================================================================
