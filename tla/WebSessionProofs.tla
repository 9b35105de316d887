-------------------------- MODULE WebSessionProofs --------------------------
(***************************************************************************)
(* The properties of WebSession, proved for every number of requests,      *)
(* replicas and revokers, and without the bounds on failures, rotations    *)
(* and leases mattering; and at the end what is proved of the sockets that *)
(* are served in a session (Invalidations).                                *)
(***************************************************************************)
EXTENDS WebSession, Invalidations, SequenceTheorems, FiniteSetTheorems, TLAPS

-----------------------------------------------------------------------------
(* The inductive invariant.                                                *)

\* The program points of a request that calls upstream or holds its answer,
\* and of a worker that signs a session out.
Flying == {"refreshing", "refreshed", "rejected", "unavailable"}
SigningOut == {"claimed", "rotated", "refused", "deferred", "acknowledged"}

WorkerState ==
    [pc : {"idle", "stale", "waiting", "leading", "leaving", "queued"}]
    \cup [pc : Flying, lease : Nat, token : Nat]
    \cup [pc : {"scanned"}, seen : Row \cup {None}]
    \cup [pc : SigningOut, attempts : Nat, token : Nat, refreshed : BOOLEAN,
          expired : BOOLEAN]

\* Types.
Typed ==
    /\ row \in Row \cup {None}
    /\ upstream \in [live : BOOLEAN, token : Nat]
    /\ worker \in [Workers -> WorkerState]
    /\ replica \in [Web -> Replicas]
    /\ queue \in [Replicas -> Seq(Web)]
    /\ leases \in Nat
    /\ failures \in Nat

\* The row by itself, and against upstream.
RowSound ==
    Present =>
    /\ row.revoked => row.lease = None
    /\ row.confirmed \/ row.abandoned => row.revoked
    /\ row.confirmed => ~upstream.live /\ ~row.abandoned
    /\ ~row.revoked => upstream.live
    /\ row.token <= upstream.token
    /\ row.lease # None => row.lease <= leases

\* A worker that signs out has tokens that are at least as good as the row's
\* while it holds the claim.
SigningSound(w) ==
    worker[w].pc \in SigningOut =>
    /\ worker[w].token <= upstream.token
    /\ worker[w].pc = "acknowledged" => ~upstream.live
    /\ Present =>
          /\ row.revoked
          /\ worker[w].attempts <= row.attempts
          /\ worker[w].attempts = row.attempts => row.token <= worker[w].token

\* Until a refresh is answered, its tokens are the row's or older ones, and
\* after, as long as it holds the lease, newer ones.
FlightSound(w) ==
    worker[w].pc \in Flying =>
    /\ w \in Web
    /\ worker[w].lease <= leases
    /\ worker[w].token <= upstream.token
    /\ worker[w].pc = "unavailable" => failures > 0
    /\ Present =>
          /\ worker[w].pc # "refreshed" => worker[w].token <= row.token
          /\ worker[w].pc = "refreshed" /\ row.lease = worker[w].lease =>
                row.token < worker[w].token

\* No two workers were given the same attempt, and no two the same lease.
ApartSigning(v, w) ==
    (worker[v].pc \in SigningOut /\ worker[w].pc \in SigningOut /\ Present) =>
    worker[v].attempts # worker[w].attempts

ApartFlying(v, w) ==
    (worker[v].pc \in Flying /\ worker[w].pc \in Flying) =>
    worker[v].lease # worker[w].lease

WorkersSound ==
    /\ \A w \in Workers : SigningSound(w) /\ FlightSound(w)
    /\ \A v, w \in Workers : v # w => ApartSigning(v, w) /\ ApartFlying(v, w)

\* A request that leads is the first in the queue of its replica.
LeadersFirst ==
    \A w \in Web :
       worker[w].pc \in {"leading"} \cup Flying =>
       queue[replica[w]] # << >> /\ Head(queue[replica[w]]) = w

\* Unless something failed: a lease of a usable session is held by a request
\* that is not answered yet, or with tokens that upstream accepts, or with a
\* refusal; and a request that may still rotate the row's tokens away does so
\* only while somebody holds the lease.
Holding == {"refreshing", "refreshed", "rejected"}

Holder(w) ==
    /\ worker[w].pc \in Holding
    /\ worker[w].lease = row.lease

Untroubled == Present /\ ValidModel /\ failures = 0

HandOver ==
    Untroubled =>
    /\ row.lease # None => \E w \in Web : Holder(w)
    /\ \A w \in Web : Holder(w) /\ worker[w].pc = "refreshed" => Accepts(worker[w].token)
    /\ \A w \in Web :
          worker[w].pc \in {"refreshing", "rejected"} /\ worker[w].token = row.token =>
          row.lease # None
    /\ ~Accepts(row.token) => row.lease # None

SessionInv ==
    /\ Typed
    /\ RowSound
    /\ WorkersSound
    /\ LeadersFirst
    /\ HandOver

-----------------------------------------------------------------------------
(* Lemmas about queues.                                                    *)

\* A queue without one of its requests keeps its first, unless it was that.
LEMMA WithoutKeepsHead ==
    ASSUME NEW q \in Seq(Web), NEW w
    PROVE  /\ Without(q, w) \in Seq(Web)
           /\ q # << >> /\ Head(q) # w =>
                 /\ Without(q, w) # << >>
                 /\ Head(Without(q, w)) = Head(q)
    <1>1. CASE ~\E i \in 1..Len(q) : q[i] = w
        BY <1>1 DEF Without
    <1>2. CASE \E i \in 1..Len(q) : q[i] = w
        <2>. DEFINE i == CHOOSE i \in 1..Len(q) : q[i] = w
                    front == SubSeq(q, 1, i - 1)
                    back == SubSeq(q, i + 1, Len(q))
        <2>1. i \in 1..Len(q) /\ q[i] = w
            BY <1>2
        <2>2. Without(q, w) = front \o back
            BY <1>2 DEF Without
        <2>. HIDE DEF i
        <2>3. /\ front \in Seq(Web)
              /\ back \in Seq(Web)
              /\ i > 1 => Len(front) = i - 1 /\ front[1] = q[1]
            BY <2>1, SubSeqProperties
        <2>. HIDE DEF front, back
        <2>4. /\ front \o back \in Seq(Web)
              /\ Len(front \o back) = Len(front) + Len(back)
              /\ Len(front) > 0 => (front \o back)[1] = front[1]
            BY <2>3, ConcatProperties
        <2>5. ASSUME Head(q) # w
              PROVE  front \o back # << >> /\ Head(front \o back) = Head(q)
            <3>1. Head(q) = q[1] /\ i > 1
                BY <2>1, <2>5
            <3>2. Len(front) \in Nat /\ Len(back) \in Nat /\ Len(front) > 0
                BY <2>1, <2>3, <3>1
            <3>3. Len(front \o back) > 0 /\ (front \o back)[1] = q[1]
                BY <2>3, <2>4, <3>1, <3>2
            <3>. QED  BY <2>4, <3>1, <3>3
        <2>. QED  BY <2>2, <2>4, <2>5
    <1>. QED  BY <1>1, <1>2

-----------------------------------------------------------------------------
(* Lemmas about the workers.                                               *)

\* What the steps of the session never undo.
Onward ==
    /\ upstream.token <= upstream'.token
    /\ upstream'.live => upstream.live
    /\ leases <= leases'
    /\ failures <= failures'
    /\ row' # None =>
          /\ Present
          /\ row.revoked => row'.revoked
          /\ row.attempts <= row'.attempts
          /\ row.token <= row'.token
          /\ row'.token = row.token \/ row'.lease = None
          /\ row'.lease \in {row.lease, None} \/ row'.lease > leases

\* Who holds a claim or a lease has the fields that go with it.
LEMMA WorkerFields ==
    ASSUME NEW s \in WorkerState
    PROVE  /\ s.pc \in Flying => s.lease \in Nat /\ s.token \in Nat
           /\ s.pc \in SigningOut => /\ s.attempts \in Nat
                                     /\ s.token \in Nat
                                     /\ s.refreshed \in BOOLEAN
                                     /\ s.expired \in BOOLEAN
           /\ s.pc = "scanned" => s.seen \in Row \cup {None}
    BY DEF WorkerState, Flying, SigningOut

\* The soundness of a worker that a step of another leaves alone.
LEMMA BystanderSound ==
    ASSUME Typed, Typed', Onward,
           NEW v \in Workers, worker'[v] = worker[v],
           SigningSound(v), FlightSound(v),
           (row' # None /\ row'.token # row.token /\ worker[v].pc \in SigningOut)
              => worker[v].attempts # row'.attempts
    PROVE  SigningSound(v)' /\ FlightSound(v)'
    <1>1. worker[v] \in WorkerState
        BY DEF Typed
    <1>2. /\ upstream.token \in Nat /\ upstream'.token \in Nat
          /\ leases \in Nat /\ leases' \in Nat /\ failures \in Nat /\ failures' \in Nat
          /\ Present => row.token \in Nat /\ row.attempts \in Nat
          /\ row' # None => row'.token \in Nat /\ row'.attempts \in Nat
        BY DEF Typed, Row, Present
    <1>3. SigningSound(v)'
        <2>1. CASE worker[v].pc \notin SigningOut
            BY <2>1 DEF SigningSound
        <2>2. CASE worker[v].pc \in SigningOut
            <3>1. worker[v].attempts \in Nat /\ worker[v].token \in Nat
                BY <1>1, <2>2, WorkerFields
            <3>. QED  BY <1>2, <2>2, <3>1 DEF SigningSound, Onward, Present
        <2>. QED  BY <2>1, <2>2
    <1>4. FlightSound(v)'
        <2>1. CASE worker[v].pc \notin Flying
            BY <2>1 DEF FlightSound
        <2>2. CASE worker[v].pc \in Flying
            <3>1. worker[v].lease \in Nat /\ worker[v].token \in Nat /\ worker[v].lease # None
                BY <1>1, <2>2, WorkerFields, SessionAssumption
            <3>2. /\ v \in Web
                  /\ worker[v].lease <= leases'
                  /\ worker[v].token <= upstream'.token
                  /\ worker[v].pc = "unavailable" => failures' > 0
                BY <1>2, <2>2, <3>1 DEF FlightSound, Onward
            <3>3. ASSUME row' # None
                  PROVE  /\ worker[v].pc # "refreshed" => worker[v].token <= row'.token
                         /\ worker[v].pc = "refreshed" /\ row'.lease = worker[v].lease =>
                               row'.token < worker[v].token
                BY <1>2, <2>2, <3>1, <3>3 DEF FlightSound, Onward, Present
            <3>. QED  BY <2>2, <3>2, <3>3 DEF FlightSound, Present
        <2>. QED  BY <2>1, <2>2
    <1>. QED  BY <1>3, <1>4

\* If a step keeps its own worker sound and apart, all workers are sound.
LEMMA StepKeepsWorkers ==
    ASSUME Typed, Typed', Onward, WorkersSound,
           NEW w \in Workers,
           \A v \in Workers \ {w} : worker'[v] = worker[v],
           \A v \in Workers \ {w} :
              (row' # None /\ row'.token # row.token /\ worker[v].pc \in SigningOut)
                 => worker[v].attempts # row'.attempts,
           SigningSound(w)', FlightSound(w)',
           (worker'[w].pc \in SigningOut /\ row' # None) =>
              \/ /\ worker[w].pc \in SigningOut
                 /\ worker'[w].attempts = worker[w].attempts
              \/ worker'[w].attempts > row.attempts,
           worker'[w].pc \in Flying =>
              \/ worker[w].pc \in Flying /\ worker'[w].lease = worker[w].lease
              \/ worker'[w].lease > leases
    PROVE  WorkersSound'
    <1>1. \A v \in Workers : SigningSound(v)' /\ FlightSound(v)'
        BY BystanderSound DEF WorkersSound
    <1>2. \A v \in Workers \ {w} : ApartSigning(v, w)' /\ ApartSigning(w, v)'
        <2>. SUFFICES ASSUME NEW v \in Workers \ {w}, row' # None,
                             worker'[v].pc \in SigningOut, worker'[w].pc \in SigningOut
                      PROVE  worker'[v].attempts # worker'[w].attempts
            BY DEF ApartSigning, Present
        <2>1. /\ worker'[v] = worker[v]
              /\ worker[v] \in WorkerState /\ worker'[w] \in WorkerState
            BY DEF Typed
        <2>2. worker[v].attempts \in Nat /\ worker'[w].attempts \in Nat
            BY <2>1, WorkerFields
        <2>3. Present /\ row.attempts \in Nat
            BY DEF Onward, Typed, Row, Present
        <2>4. CASE worker[w].pc \in SigningOut /\ worker'[w].attempts = worker[w].attempts
            <3>1. ApartSigning(v, w)
                BY DEF WorkersSound
            <3>. QED  BY <2>1, <2>3, <2>4, <3>1 DEF ApartSigning
        <2>5. CASE worker'[w].attempts > row.attempts
            <3>1. worker[v].attempts <= row.attempts
                BY <2>1, <2>3 DEF WorkersSound, SigningSound
            <3>. QED  BY <2>1, <2>2, <2>3, <2>5, <3>1
        <2>. QED  BY <2>4, <2>5
    <1>3. \A v \in Workers \ {w} : ApartFlying(v, w)' /\ ApartFlying(w, v)'
        <2>. SUFFICES ASSUME NEW v \in Workers \ {w},
                             worker'[v].pc \in Flying, worker'[w].pc \in Flying
                      PROVE  worker'[v].lease # worker'[w].lease
            BY DEF ApartFlying
        <2>1. /\ worker'[v] = worker[v]
              /\ worker[v] \in WorkerState /\ worker'[w] \in WorkerState
              /\ leases \in Nat
            BY DEF Typed
        <2>2. worker[v].lease \in Nat /\ worker'[w].lease \in Nat
            BY <2>1, WorkerFields
        <2>3. CASE worker[w].pc \in Flying /\ worker'[w].lease = worker[w].lease
            <3>1. ApartFlying(v, w)
                BY DEF WorkersSound
            <3>. QED  BY <2>1, <2>3, <3>1 DEF ApartFlying
        <2>4. CASE worker'[w].lease > leases
            <3>1. worker[v].lease <= leases
                BY <2>1 DEF WorkersSound, FlightSound
            <3>. QED  BY <2>1, <2>2, <2>4, <3>1
        <2>. QED  BY <2>3, <2>4
    <1>4. \A u, v \in Workers \ {w} :
             u # v => ApartSigning(u, v)' /\ ApartFlying(u, v)'
        <2>. SUFFICES ASSUME NEW u \in Workers \ {w}, NEW v \in Workers \ {w}, u # v
                      PROVE  ApartSigning(u, v)' /\ ApartFlying(u, v)'
            OBVIOUS
        <2>1. ApartSigning(u, v) /\ ApartFlying(u, v)
            BY DEF WorkersSound
        <2>2. row' # None => Present
            BY DEF Onward
        <2>. QED  BY <2>1, <2>2 DEF ApartSigning, ApartFlying, Present
    <1>. QED  BY <1>1, <1>2, <1>3, <1>4 DEF WorkersSound

-----------------------------------------------------------------------------
(* Lemmas about steps.                                                     *)

\* A worker that moves on, and leads or flies only if it led or flew before,
\* keeps the leaders first in their queues.
LEMMA GotoStep ==
    ASSUME Typed, LeadersFirst,
           NEW w \in Workers, NEW state \in WorkerState, Goto(w, state),
           state.pc \in {"leading"} \cup Flying =>
              worker[w].pc \in {"leading"} \cup Flying
    PROVE  /\ worker' \in [Workers -> WorkerState]
           /\ worker'[w] = state
           /\ \A v \in Workers \ {w} : worker'[v] = worker[v]
           /\ replica' \in [Web -> Replicas]
           /\ queue' \in [Replicas -> Seq(Web)]
           /\ LeadersFirst'
    <1>1. /\ worker' \in [Workers -> WorkerState]
          /\ worker'[w] = state
          /\ \A v \in Workers \ {w} : worker'[v] = worker[v]
          /\ replica' = replica
        BY DEF Goto, Typed
    <1>2. \A p \in Replicas :
             /\ queue'[p] \in Seq(Web)
             /\ queue[p] # << >> /\ (Head(queue[p]) # w \/ state # Idle) =>
                   queue'[p] # << >> /\ Head(queue'[p]) = Head(queue[p])
        BY WithoutKeepsHead DEF Goto, Leaves, Typed
    <1>3. queue' \in [Replicas -> Seq(Web)]
        <2>1. queue' = [p \in Replicas |-> queue'[p]]
            BY DEF Goto, Leaves, Typed
        <2>. QED  BY <1>2, <2>1
    <1>4. LeadersFirst'
        <2>. SUFFICES ASSUME NEW v \in Web, worker'[v].pc \in {"leading"} \cup Flying
                      PROVE  queue'[replica[v]] # << >> /\ Head(queue'[replica[v]]) = v
            BY <1>1 DEF LeadersFirst
        <2>1. worker[v].pc \in {"leading"} \cup Flying
            BY <1>1 DEF Workers
        <2>2. replica[v] \in Replicas /\ queue[replica[v]] # << >> /\ Head(queue[replica[v]]) = v
            BY <2>1 DEF LeadersFirst, Typed
        <2>3. v # w \/ state # Idle
            BY <1>1 DEF Idle, Flying
        <2>. QED  BY <1>2, <2>2, <2>3
    <1>. QED  BY <1>1, <1>3, <1>4 DEF Typed

\* A worker that ends up neither flying, leading nor signing out leaves the
\* others sound, if the row and upstream only moved onward.
LEMMA QuitStep ==
    ASSUME SessionInv, Onward,
           NEW w \in Workers, NEW state \in WorkerState, Goto(w, state),
           state.pc \notin {"leading"} \cup Flying \cup SigningOut,
           row' \in Row \cup {None},
           upstream' = upstream, leases' = leases, failures' \in Nat,
           \A v \in Workers \ {w} :
              (row' # None /\ row'.token # row.token /\ worker[v].pc \in SigningOut)
                 => worker[v].attempts # row'.attempts
    PROVE  /\ Typed' /\ WorkersSound' /\ LeadersFirst'
           /\ worker'[w] = state
           /\ \A v \in Workers \ {w} : worker'[v] = worker[v]
    <1>1. /\ worker' \in [Workers -> WorkerState]
          /\ worker'[w] = state
          /\ \A v \in Workers \ {w} : worker'[v] = worker[v]
          /\ replica' \in [Web -> Replicas]
          /\ queue' \in [Replicas -> Seq(Web)]
          /\ LeadersFirst'
        BY GotoStep DEF SessionInv
    <1>2. Typed'
        BY <1>1 DEF Typed, SessionInv
    <1>3. SigningSound(w)' /\ FlightSound(w)'
        BY <1>1 DEF SigningSound, FlightSound
    <1>4. WorkersSound'
        BY <1>1, <1>2, <1>3, StepKeepsWorkers DEF SessionInv
    <1>. QED  BY <1>1, <1>2, <1>4

\* What Untroubled makes of a row survives a step that touches neither the
\* row's tokens and lease, nor upstream, nor who holds.
LEMMA HandOverStays ==
    ASSUME Typed, HandOver,
           \A v \in Web : (worker[v].pc \in Holding \/ worker'[v].pc \in Holding)
                             => worker'[v] = worker[v],
           Untroubled' => /\ Untroubled
                          /\ row'.token = row.token
                          /\ row'.lease = row.lease
                          /\ upstream' = upstream
    PROVE  HandOver'
    <1>. SUFFICES ASSUME Untroubled'
                  PROVE  HandOver'
        BY DEF HandOver
    <1>1. /\ Untroubled
          /\ row'.token = row.token
          /\ row'.lease = row.lease
          /\ upstream' = upstream
        OBVIOUS
    <1>2. \A v \in Web : Holder(v)' <=> Holder(v)
        BY <1>1 DEF Holder
    <1>3. \A t : Accepts(t)' <=> Accepts(t)
        BY <1>1 DEF Accepts
    <1>4. row'.lease # None => \E v \in Web : Holder(v)'
        BY <1>1, <1>2 DEF HandOver
    <1>5. \A v \in Web : Holder(v)' /\ worker'[v].pc = "refreshed" => Accepts(worker[v].token)
        BY <1>1, <1>2 DEF HandOver, Holder
    <1>6. (\A v \in Web : Holder(v) /\ worker[v].pc = "refreshed" => Accepts(worker[v].token))'
        BY <1>1, <1>5 DEF Holder, Accepts
    <1>7. \A v \in Web :
             worker'[v].pc \in {"refreshing", "rejected"} /\ worker'[v].token = row'.token =>
             row'.lease # None
        BY <1>1 DEF HandOver, Holding
    <1>8. ~Accepts(row.token)' => row'.lease # None
        BY <1>1 DEF HandOver, Accepts
    <1>. QED  BY <1>4, <1>6, <1>7, <1>8 DEF HandOver

-----------------------------------------------------------------------------
(* Every step keeps the invariant, moves onward and respects logouts.      *)

LogoutStays ==
    (Present /\ row.revoked /\ row' # None) =>
    /\ row'.revoked
    /\ row'.lease = None
    /\ row'.token # row.token => \E w \in Workers : At(w, "rotated") /\ HoldsClaim(w)
    /\ Terminal => /\ row'.confirmed = row.confirmed
                   /\ row'.abandoned = row.abandoned
                   /\ row'.attempts = row.attempts

StepSound == SessionInv' /\ Onward /\ LogoutStays

\* A step that leaves the row alone, and upstream too, but for an exchanged
\* token or an end that a logout asked for.
LEMMA RowStays ==
    ASSUME Typed, RowSound,
           row' = row, leases' = leases, failures' \in Nat, failures <= failures',
           upstream' \in [live : BOOLEAN, token : Nat],
           upstream.token <= upstream'.token,
           upstream'.live => upstream.live,
           Present /\ ~row.revoked => upstream'.live = upstream.live
    PROVE  Onward /\ RowSound' /\ LogoutStays
    <1>1. /\ Present => /\ row.token \in Nat /\ row.attempts \in Nat
                        /\ row.lease \in Nat \cup {None}
          /\ leases \in Nat
          /\ upstream.token \in Nat /\ upstream'.token \in Nat
        BY DEF Typed, Row, Present
    <1>2. Onward
        BY <1>1 DEF Onward, Present
    <1>3. RowSound'
        BY <1>1 DEF RowSound, Present
    <1>4. LogoutStays
        BY DEF LogoutStays, RowSound, Present, Terminal
    <1>. QED  BY <1>2, <1>3, <1>4

\* A worker's own step, with nothing held.
LEMMA PlainStep ==
    ASSUME SessionInv,
           NEW w \in Workers, NEW state \in WorkerState, Goto(w, state),
           state.pc \notin {"leading"} \cup Flying \cup SigningOut,
           worker[w].pc \notin Holding,
           UNCHANGED <<row, upstream, leases, failures>>
    PROVE  StepSound
    <1>1. Onward /\ RowSound' /\ LogoutStays
        BY RowStays DEF SessionInv, Typed
    <1>2. /\ Typed' /\ WorkersSound' /\ LeadersFirst'
          /\ worker'[w] = state
          /\ \A v \in Workers \ {w} : worker'[v] = worker[v]
        BY <1>1, QuitStep DEF SessionInv, Typed
    <1>3. HandOver'
        <2>1. \A v \in Web : (worker[v].pc \in Holding \/ worker'[v].pc \in Holding)
                                => worker'[v] = worker[v]
            BY <1>2 DEF Workers, Holding, Flying
        <2>2. Untroubled' => Untroubled
            BY DEF Untroubled, Present, ValidModel
        <2>. QED  BY <2>1, <2>2, HandOverStays DEF SessionInv
    <1>. QED  BY <1>1, <1>2, <1>3 DEF StepSound, SessionInv

LEMMA IdleIsState == Idle \in WorkerState
    BY DEF Idle, WorkerState

\* The steps of a worker that only looks and goes on, or gives up.
LEMMA LookingSteps ==
    ASSUME SessionInv,
           \/ \E w \in Web : \/ Authenticate(w) \/ EnterRefused(w) \/ Follow(w)
                             \/ LeaveRefresh(w) \/ BeginLogout(w)
           \/ \E w \in Revokers : ReadExpired(w)
           \/ \E w \in Workers : LeaveRevocation(w)
    PROVE  StepSound
    <1>. USE DEF At, Workers
    <1>1. ASSUME NEW w \in Web, Authenticate(w)
          PROVE  StepSound
        <2>1. [pc |-> "stale"] \in WorkerState
            BY DEF WorkerState
        <2>. QED  BY <1>1, <2>1, PlainStep DEF Authenticate, Flying, SigningOut, Holding
    <1>2. ASSUME NEW w \in Web, EnterRefused(w) \/ Follow(w) \/ LeaveRefresh(w)
          PROVE  StepSound
        BY <1>2, IdleIsState, PlainStep
        DEF EnterRefused, Follow, LeaveRefresh, Done, Idle, Flying, SigningOut, Holding
    <1>3. ASSUME NEW w \in Web, BeginLogout(w)
          PROVE  StepSound
        <2>1. [pc |-> "leaving"] \in WorkerState
            BY DEF WorkerState
        <2>. QED  BY <1>3, <2>1, PlainStep DEF BeginLogout, Flying, SigningOut, Holding
    <1>4. ASSUME NEW w \in Revokers, ReadExpired(w)
          PROVE  StepSound
        <2>. DEFINE seen == IF Present /\ ~row.revoked /\ row.expired THEN row ELSE None
        <2>1. seen \in Row \cup {None}
            BY DEF SessionInv, Typed
        <2>. HIDE DEF seen
        <2>2. [pc |-> "scanned", seen |-> seen] \in WorkerState
            BY <2>1 DEF WorkerState
        <2>3. Goto(w, [pc |-> "scanned", seen |-> seen])
            BY <1>4 DEF ReadExpired, seen
        <2>. QED
            BY <1>4, <2>2, <2>3, PlainStep DEF ReadExpired, Flying, SigningOut, Holding
    <1>5. ASSUME NEW w \in Workers, LeaveRevocation(w)
          PROVE  StepSound
        BY <1>5, IdleIsState, PlainStep
        DEF LeaveRevocation, Done, Idle, Flying, SigningOut, Holding
    <1>. QED  BY <1>1, <1>2, <1>3, <1>4, <1>5

\* The passing of time.
LEMMA TimeSteps ==
    ASSUME SessionInv, Age \/ RetryDue
    PROVE  StepSound
    <1>. USE DEF SessionInv
    <1>1. /\ UNCHANGED <<upstream, worker, replica, queue, leases, failures>>
          /\ Present
          /\ row \in Row
        BY DEF Age, RetryDue, Typed, Present
    <1>a. \/ row' = [row EXCEPT !.access = "stale"]
          \/ row' = [row EXCEPT !.access = "expired"]
          \/ row' = [row EXCEPT !.expired = TRUE]
          \/ row' = [row EXCEPT !.leaseLive = FALSE]
          \/ row' = [row EXCEPT !.next = "due"]
        BY DEF Age, RetryDue
    <1>2. row' \in Row /\ (row.expired => row'.expired)
        BY <1>1, <1>a DEF Row
    <1>3. row'.revoked = row.revoked /\ row'.attempts = row.attempts
          /\ row'.confirmed = row.confirmed /\ row'.abandoned = row.abandoned
          /\ row'.lease = row.lease /\ row'.token = row.token
        BY <1>1, <1>a DEF Row
    <1>4. Onward
        BY <1>1, <1>3 DEF Onward, Typed, Row
    <1>5. Typed' /\ RowSound' /\ LogoutStays
        BY <1>1, <1>2, <1>3 DEF Typed, RowSound, LogoutStays, Terminal, Present
    <1>6. WorkersSound'
        <2>1. \A w \in Workers : SigningSound(w)' /\ FlightSound(w)'
            BY <1>1, <1>3, <1>4, <1>5, BystanderSound DEF WorkersSound
        <2>. QED  BY <1>1, <2>1 DEF WorkersSound, ApartSigning, ApartFlying, Present
    <1>7. LeadersFirst'
        BY <1>1 DEF LeadersFirst
    <1>8. HandOver'
        <2>1. Untroubled' => Untroubled
            BY <1>1, <1>2, <1>3 DEF Untroubled, Present, ValidModel, Row
        <2>. QED  BY <1>1, <1>3, <2>1, HandOverStays
    <1>. QED  BY <1>4, <1>5, <1>6, <1>7, <1>8 DEF StepSound

\* A request that finds its session stale queues up; the first one leads.
LEMMA EnterStep ==
    ASSUME SessionInv, NEW w \in Web, EnterRefresh(w)
    PROVE  StepSound
    <1>. USE DEF SessionInv
    <1>. DEFINE q == queue[replica[w]]
                state == [pc |-> IF q = << >> THEN "leading" ELSE "waiting"]
    <1>1. /\ worker[w].pc = "stale"
          /\ UNCHANGED <<row, upstream, replica, leases, failures>>
          /\ queue' = [queue EXCEPT ![replica[w]] = Append(q, w)]
          /\ w \in Workers /\ replica[w] \in Replicas /\ q \in Seq(Web)
        BY DEF EnterRefresh, At, Workers, Typed
    <1>2. worker[w] = [pc |-> "stale"]
        BY <1>1 DEF Typed, WorkerState, Flying, SigningOut
    <1>3. worker' = [worker EXCEPT ![w] = state]
        <2>1. [worker[w] EXCEPT !.pc = IF q = << >> THEN "leading" ELSE "waiting"] = state
            BY <1>2
        <2>2. worker' = [worker EXCEPT ![w] = [worker[w] EXCEPT
                                                 !.pc = IF q = << >> THEN "leading" ELSE "waiting"]]
            BY DEF EnterRefresh
        <2>. QED  BY <2>1, <2>2
    <1>4. state \in WorkerState
        BY DEF WorkerState
    <1>5. /\ worker' \in [Workers -> WorkerState]
          /\ worker'[w] = state
          /\ \A v \in Workers \ {w} : worker'[v] = worker[v]
        BY <1>1, <1>3, <1>4 DEF Typed
    <1>6. Onward /\ RowSound' /\ LogoutStays
        BY <1>1, RowStays DEF Typed
    <1>7. Append(q, w) \in Seq(Web) /\ Append(q, w) # << >>
          /\ Head(Append(q, w)) = IF q = << >> THEN w ELSE Head(q)
        BY <1>1, AppendProperties, EmptySeq
    <1>8. Typed'
        BY <1>1, <1>5, <1>7 DEF Typed
    <1>9. WorkersSound'
        <2>1. SigningSound(w)' /\ FlightSound(w)'
            BY <1>5 DEF SigningSound, FlightSound, SigningOut, Flying
        <2>. QED  BY <1>1, <1>5, <1>6, <1>8, <2>1, StepKeepsWorkers DEF SigningOut, Flying
    <1>10. LeadersFirst'
        <2>. SUFFICES ASSUME NEW v \in Web, worker'[v].pc \in {"leading"} \cup Flying
                      PROVE  queue'[replica[v]] # << >> /\ Head(queue'[replica[v]]) = v
            BY <1>1 DEF LeadersFirst
        <2>1. replica[v] \in Replicas
            BY DEF Typed
        <2>2. CASE v = w
            <3>1. q = << >>
                BY <1>5, <2>2 DEF Flying
            <3>. QED  BY <1>1, <1>7, <2>1, <2>2, <3>1 DEF Typed
        <2>3. CASE v # w
            <3>1. queue[replica[v]] # << >> /\ Head(queue[replica[v]]) = v
                BY <1>5, <2>3 DEF LeadersFirst, Workers
            <3>. QED  BY <1>1, <1>7, <2>1, <3>1 DEF Typed
        <2>. QED  BY <2>2, <2>3
    <1>11. HandOver'
        <2>1. \A v \in Web : (worker[v].pc \in Holding \/ worker'[v].pc \in Holding)
                                => worker'[v] = worker[v]
            BY <1>1, <1>5 DEF Workers, Holding
        <2>2. Untroubled' => Untroubled
            BY <1>1 DEF Untroubled, Present, ValidModel
        <2>. QED  BY <1>1, <2>1, <2>2, HandOverStays
    <1>. QED  BY <1>6, <1>8, <1>9, <1>10, <1>11 DEF StepSound

\* The rows that a change of the lease leads to.
LEMMA RowWithLease ==
    ASSUME NEW r \in Row, NEW l \in Nat \cup {None}, NEW b \in BOOLEAN
    PROVE  [r EXCEPT !.lease = l, !.leaseLive = b] \in Row
    BY DEF Row

\* A leader takes a new lease for the tokens it finds.
LEMMA ClaimStep ==
    ASSUME SessionInv, NEW w \in Web, ClaimRefresh(w)
    PROVE  StepSound
    <1>. USE DEF SessionInv
    <1>. DEFINE state == [pc |-> "refreshing", lease |-> leases + 1, token |-> row.token]
    <1>1. /\ worker[w].pc = "leading"
          /\ Present /\ ValidModel
          /\ row' = [row EXCEPT !.lease = leases + 1, !.leaseLive = TRUE]
          /\ leases' = leases + 1
          /\ Goto(w, state)
          /\ UNCHANGED <<upstream, failures>>
          /\ w \in Workers
        BY DEF ClaimRefresh, At, Workers
    <1>2. /\ row \in Row
          /\ row' \in Row
          /\ row.token \in Nat /\ row.attempts \in Nat /\ leases \in Nat
          /\ row.lease \in Nat \cup {None}
          /\ row'.lease = leases + 1
          /\ row'.token = row.token /\ row'.attempts = row.attempts
          /\ row'.revoked = row.revoked /\ row'.expired = row.expired
          /\ row'.confirmed = row.confirmed /\ row'.abandoned = row.abandoned
        <2>1. row \in Row /\ leases \in Nat
            BY <1>1 DEF Typed, Present
        <2>2. row' \in Row
            <3>1. leases + 1 \in Nat \cup {None} /\ TRUE \in BOOLEAN
                BY <2>1
            <3>. QED  BY <1>1, <2>1, <3>1, RowWithLease
        <2>. QED  BY <1>1, <2>1, <2>2 DEF Row
    <1>3. state \in WorkerState
        BY <1>2 DEF WorkerState, Flying
    <1>4. /\ worker' \in [Workers -> WorkerState]
          /\ worker'[w] = state
          /\ \A v \in Workers \ {w} : worker'[v] = worker[v]
          /\ replica' \in [Web -> Replicas]
          /\ queue' \in [Replicas -> Seq(Web)]
          /\ LeadersFirst'
        BY <1>1, <1>3, GotoStep
    <1>5. Onward
        BY <1>1, <1>2 DEF Onward, Typed
    <1>6. Typed' /\ RowSound' /\ LogoutStays
        BY <1>1, <1>2, <1>4 DEF Typed, RowSound, LogoutStays, Present, ValidModel
    <1>7. WorkersSound'
        <2>1. SigningSound(w)' /\ FlightSound(w)'
            BY <1>1, <1>2, <1>4 DEF SigningSound, FlightSound, SigningOut, Flying, RowSound,
                                    Typed, Present
        <2>2. /\ worker'[w].pc \notin SigningOut
              /\ worker'[w].lease > leases
              /\ row'.token = row.token
              /\ \A v \in Workers \ {w} : worker'[v] = worker[v]
            BY <1>2, <1>4 DEF SigningOut
        <2>. HIDE DEF state
        <2>. QED  BY <1>1, <1>5, <1>6, <2>1, <2>2, StepKeepsWorkers
    <1>8. HandOver'
        <2>1. Holder(w)' /\ row'.lease # None
            BY <1>2, <1>4, SessionAssumption DEF Holder, Holding
        <2>2. ASSUME NEW v \in Web, Holder(v)'
              PROVE  worker'[v].pc # "refreshed"
            <3>1. CASE v = w
                BY <1>4, <3>1
            <3>2. CASE v # w
                <4>1. worker'[v] = worker[v] /\ worker[v].pc \in Flying
                    BY <1>4, <2>2, <3>2 DEF Holder, Holding, Flying, Workers
                <4>2. worker[v].lease \in Nat /\ worker[v].lease <= leases
                    BY <4>1, WorkerFields DEF WorkersSound, FlightSound, Workers, Typed
                <4>. QED  BY <1>2, <2>2, <4>1, <4>2 DEF Holder
            <3>. QED  BY <3>1, <3>2
        <2>. QED  BY <2>1, <2>2 DEF HandOver
    <1>. QED  BY <1>4, <1>5, <1>6, <1>7, <1>8 DEF StepSound

\* A request in flight that gets an answer, whatever it is.
LEMMA AnswerStep ==
    ASSUME SessionInv, NEW w \in Web, worker[w].pc = "refreshing",
           NEW state \in [pc : Flying, lease : Nat, token : Nat], Goto(w, state),
           row' = row, leases' = leases,
           failures' \in Nat, failures <= failures',
           upstream' \in [live : BOOLEAN, token : Nat],
           upstream'.live = upstream.live,
           upstream.token <= upstream'.token,
           state.lease = worker[w].lease,
           state.pc = "unavailable" => failures' > 0,
           IF state.pc = "refreshed"
           THEN state.token = upstream.token + 1 /\ state.token = upstream'.token
           ELSE state.token = worker[w].token
    PROVE  /\ Typed' /\ RowSound' /\ WorkersSound' /\ LeadersFirst' /\ Onward /\ LogoutStays
           /\ worker'[w] = state
           /\ \A v \in Workers \ {w} : worker'[v] = worker[v]
    <1>. USE DEF SessionInv
    <1>1. w \in Workers /\ state \in WorkerState
        BY DEF Workers, WorkerState
    <1>2. /\ worker' \in [Workers -> WorkerState]
          /\ worker'[w] = state
          /\ \A v \in Workers \ {w} : worker'[v] = worker[v]
          /\ replica' \in [Web -> Replicas]
          /\ queue' \in [Replicas -> Seq(Web)]
          /\ LeadersFirst'
        BY <1>1, GotoStep DEF Flying
    <1>3. Onward /\ RowSound' /\ LogoutStays
        BY RowStays
    <1>4. Typed'
        BY <1>2 DEF Typed
    <1>5. /\ worker[w].lease <= leases /\ worker[w].token <= upstream.token
          /\ Present => worker[w].token <= row.token /\ row.token <= upstream.token
        BY <1>1 DEF WorkersSound, FlightSound, RowSound, Flying
    <1>6. /\ worker[w].token \in Nat /\ upstream.token \in Nat /\ upstream'.token \in Nat
          /\ Present => row.token \in Nat
        BY <1>1, WorkerFields DEF Typed, Row, Present, Flying
    <1>7. FlightSound(w)'
        BY <1>2, <1>5, <1>6 DEF FlightSound, Present
    <1>8. SigningSound(w)'
        BY <1>2 DEF SigningSound, SigningOut, Flying
    <1>9. worker[w].pc \in Flying /\ worker'[w].pc \notin SigningOut
        BY <1>2 DEF Flying, SigningOut
    <1>10. WorkersSound'
        BY <1>1, <1>2, <1>3, <1>4, <1>7, <1>8, <1>9, StepKeepsWorkers
    <1>. QED  BY <1>2, <1>3, <1>4, <1>10

\* The upstream call of a refresh.
LEMMA CallRefreshStep ==
    ASSUME SessionInv, NEW w \in Web, CallRefresh(w)
    PROVE  StepSound
    <1>. USE DEF SessionInv
    <1>. DEFINE g == worker[w].token
                u == upstream.token
                rotated == Accepts(g) /\ Rotate
                exchanged == /\ rotated
                             /\ Goto(w, [worker[w] EXCEPT !.pc = "refreshed", !.token = u + 1])
                             /\ UNCHANGED failures
                refused == /\ ~Accepts(g)
                           /\ Goto(w, [worker[w] EXCEPT !.pc = "rejected"])
                           /\ UNCHANGED <<upstream, failures>>
                failed == /\ failures' = failures + 1
                          /\ \E label \in {"unavailable", "rejected"} :
                                Goto(w, [worker[w] EXCEPT !.pc = label])
                          /\ UNCHANGED upstream \/ rotated
    <1>1. /\ worker[w].pc = "refreshing" /\ w \in Workers
          /\ row' = row /\ leases' = leases
        BY DEF CallRefresh, At, Workers
    <1>2. /\ worker[w] \in [pc : Flying, lease : Nat, token : Nat]
          /\ g \in Nat /\ u \in Nat /\ failures \in Nat
          /\ upstream \in [live : BOOLEAN, token : Nat]
        BY <1>1 DEF Typed, WorkerState, Flying, SigningOut
    <1>3. rotated => /\ upstream' \in [live : BOOLEAN, token : Nat]
                     /\ upstream'.live = upstream.live
                     /\ upstream'.token = u + 1
        BY <1>2 DEF Rotate
    <1>4. exchanged \/ refused \/ failed
        BY DEF CallRefresh, Fails
    <1>5. CASE failed
        <2>1. PICK label \in {"unavailable", "rejected"} :
                 Goto(w, [worker[w] EXCEPT !.pc = label])
            BY <1>5
        <2>. DEFINE state == [worker[w] EXCEPT !.pc = label]
        <2>2. /\ state \in [pc : Flying, lease : Nat, token : Nat]
              /\ state.lease = worker[w].lease
              /\ state.pc # "refreshed" /\ state.token = g
            BY <1>2 DEF Flying
        <2>3. /\ failures' \in Nat /\ failures <= failures' /\ failures' > 0
              /\ upstream' \in [live : BOOLEAN, token : Nat]
              /\ upstream'.live = upstream.live
              /\ u <= upstream'.token
            BY <1>2, <1>3, <1>5
        <2>. HIDE DEF state
        <2>4. Typed' /\ RowSound' /\ WorkersSound' /\ LeadersFirst' /\ Onward /\ LogoutStays
            BY <1>1, <2>1, <2>2, <2>3, AnswerStep DEF state
        <2>5. HandOver'
            BY <2>3 DEF HandOver, Untroubled
        <2>. QED  BY <2>4, <2>5 DEF StepSound
    <1>6. CASE refused
        <2>. DEFINE state == [worker[w] EXCEPT !.pc = "rejected"]
        <2>1. /\ state \in [pc : Flying, lease : Nat, token : Nat]
              /\ state.lease = worker[w].lease
              /\ state.pc = "rejected" /\ state.token = g
            BY <1>2 DEF Flying
        <2>2. /\ failures' = failures /\ upstream' = upstream /\ u <= upstream'.token
              /\ failures <= failures' /\ Goto(w, state)
            BY <1>2, <1>6
        <2>. HIDE DEF state
        <2>3. /\ Typed' /\ RowSound' /\ WorkersSound' /\ LeadersFirst' /\ Onward /\ LogoutStays
              /\ worker'[w] = state
              /\ \A v \in Workers \ {w} : worker'[v] = worker[v]
            BY <1>1, <1>2, <2>1, <2>2, AnswerStep
        <2>4. \A v \in Web :
                 /\ Holder(v)' <=> Holder(v)
                 /\ worker'[v].pc = "refreshed" <=> worker[v].pc = "refreshed"
                 /\ worker'[v].pc \in {"refreshing", "rejected"}
                       <=> worker[v].pc \in {"refreshing", "rejected"}
                 /\ worker'[v].pc \in Holding => worker'[v].token = worker[v].token
            BY <1>1, <2>1, <2>3 DEF Holder, Holding, Workers
        <2>5. HandOver'
            BY <1>1, <2>2, <2>4
            DEF HandOver, Untroubled, Present, ValidModel, Accepts, Holder, Holding
        <2>. QED  BY <2>3, <2>5 DEF StepSound
    <1>7. CASE exchanged
        <2>. DEFINE state == [worker[w] EXCEPT !.pc = "refreshed", !.token = u + 1]
        <2>1. /\ state \in [pc : Flying, lease : Nat, token : Nat]
              /\ state.lease = worker[w].lease
              /\ state.pc = "refreshed" /\ state.token = u + 1
            <3>1. u + 1 \in Nat /\ "refreshed" \in Flying
                BY <1>2 DEF Flying
            <3>. QED  BY <1>2, <3>1
        <2>2. /\ failures' = failures /\ u <= upstream'.token
              /\ failures <= failures' /\ Goto(w, state)
              /\ upstream' \in [live : BOOLEAN, token : Nat]
              /\ upstream'.live = upstream.live
              /\ upstream'.token = u + 1
            BY <1>2, <1>3, <1>7
        <2>. HIDE DEF state
        <2>3. /\ Typed' /\ RowSound' /\ WorkersSound' /\ LeadersFirst' /\ Onward /\ LogoutStays
              /\ worker'[w] = state
              /\ \A v \in Workers \ {w} : worker'[v] = worker[v]
            BY <1>1, <1>2, <2>1, <2>2, AnswerStep
        <2>4. HandOver'
            <3>. SUFFICES ASSUME Untroubled'
                          PROVE  HandOver'
                BY DEF HandOver
            <3>1. Untroubled /\ Accepts(g)
                BY <1>1, <1>7, <2>2 DEF Untroubled, Present, ValidModel
            <3>2. /\ row.token \in Nat /\ g <= row.token /\ row.token <= u
                BY <1>1, <3>1 DEF Untroubled, Present, Typed, Row, WorkersSound, FlightSound,
                                  RowSound, Flying
            <3>3. \A v \in Web : Holder(v)' <=> Holder(v)
                BY <1>1, <2>1, <2>3 DEF Holder, Holding, Workers
            <3>4. row'.lease # None => \E v \in Web : Holder(v)'
                BY <1>1, <3>1, <3>3 DEF HandOver
            <3>5. ASSUME NEW v \in Web, Holder(v)', worker'[v].pc = "refreshed"
                  PROVE  (Accepts(worker[v].token))'
                <4>1. CASE v = w
                    BY <2>1, <2>2, <2>3, <3>1, <4>1 DEF Accepts
                <4>2. CASE v # w
                    <5>1. worker'[v] = worker[v] /\ v \in Workers
                        BY <2>3, <4>2 DEF Workers
                    <5>2. worker[v].token \in Nat
                        BY <3>5, <5>1, WorkerFields DEF Typed, Flying
                    <5>3. row.token < worker[v].token /\ worker[v].token <= u
                        BY <3>1, <3>3, <3>5, <5>1
                        DEF WorkersSound, FlightSound, Holder, Untroubled, Flying
                    <5>4. worker[v].token = u /\ Grace
                        BY <1>2, <3>1, <3>2, <5>2, <5>3 DEF Accepts
                    <5>. QED  BY <1>2, <2>2, <3>1, <5>1, <5>4 DEF Accepts
                <4>. QED  BY <4>1, <4>2
            <3>6. \A v \in Web :
                     worker'[v].pc \in {"refreshing", "rejected"} /\ worker'[v].token = row'.token
                     => row'.lease # None
                BY <1>1, <2>1, <2>3, <3>1 DEF HandOver, Workers
            <3>7. ~(Accepts(row.token))' => row'.lease # None
                <4>1. CASE g = row.token
                    BY <1>1, <3>1, <4>1 DEF HandOver
                <4>2. CASE g # row.token
                    <5>1. row.token = u /\ Grace
                        BY <1>2, <3>1, <3>2, <4>2 DEF Accepts
                    <5>. QED  BY <1>1, <1>2, <2>2, <3>1, <5>1 DEF Accepts
                <4>. QED  BY <4>1, <4>2
            <3>. QED  BY <3>4, <3>5, <3>6, <3>7 DEF HandOver
        <2>. QED  BY <2>3, <2>4 DEF StepSound
    <1>. QED  BY <1>4, <1>5, <1>6, <1>7

\* mark_revocation leaves the row as it was, or revoked and without a lease.
LEMMA MarkRow ==
    ASSUME row \in Row, NEW m \in Row
    PROVE  /\ Mark(m) \in Row
           /\ \/ Mark(m) = row
              \/ Mark(m).revoked /\ Mark(m).lease = None
           /\ row.revoked => Mark(m).revoked
           /\ Mark(m).lease \in {row.lease, None}
           /\ Mark(m).attempts = row.attempts
           /\ Mark(m).token = row.token
           /\ Mark(m).confirmed = row.confirmed
           /\ Mark(m).abandoned = row.abandoned
           /\ Mark(m).expired = row.expired
    <1>1. CASE m.confirmed \/ m.abandoned
        BY <1>1 DEF Mark
    <1>2. CASE ~(m.confirmed \/ m.abandoned)
        <2>. DEFINE next == IF m.pending THEN m.next ELSE "due"
        <2>1. next \in {"none", "due", "later"} /\ None \in Nat \cup {None} /\ TRUE \in BOOLEAN
            BY DEF Row
        <2>2. Mark(m) = [row EXCEPT !.revoked = TRUE, !.pending = TRUE, !.next = next,
                                    !.lease = None, !.leaseLive = FALSE]
            BY <1>2 DEF Mark
        <2>. HIDE DEF next
        <2>3. Mark(m) \in Row
            BY <2>1, <2>2 DEF Row
        <2>. QED  BY <2>2, <2>3 DEF Row
    <1>. QED  BY <1>1, <1>2

\* A request that finds its lease gone answers without touching the row.
LEMMA LostLeaseStep ==
    ASSUME SessionInv, NEW w \in Web, worker[w].pc \in Flying, ~HoldsLease(w),
           Goto(w, Idle), UNCHANGED <<row, upstream, leases, failures>>
    PROVE  StepSound
    <1>. USE DEF SessionInv
    <1>1. /\ Idle \in WorkerState
          /\ Idle.pc \notin {"leading"} \cup Flying \cup SigningOut
          /\ w \in Workers
        BY IdleIsState DEF Idle, Flying, SigningOut, Workers
    <1>2. Onward /\ RowSound' /\ LogoutStays
        BY RowStays DEF Typed
    <1>3. /\ Typed' /\ WorkersSound' /\ LeadersFirst'
          /\ worker'[w] = Idle
          /\ \A v \in Workers \ {w} : worker'[v] = worker[v]
        BY <1>1, <1>2, QuitStep DEF Typed
    <1>4. HandOver'
        <2>. SUFFICES ASSUME Untroubled'
                      PROVE  HandOver'
            BY DEF HandOver
        <2>1. Untroubled
            BY DEF Untroubled, Present, ValidModel
        <2>2. ~Holder(w)
            BY <2>1 DEF Holder, HoldsLease, Untroubled
        <2>3. \A v \in Web : Holder(v)' <=> Holder(v)
            BY <1>3, <2>2 DEF Holder, Holding, Workers, Idle
        <2>4. \A v \in Web : worker'[v].pc \in Holding => worker'[v] = worker[v]
            BY <1>3 DEF Holding, Workers, Idle
        <2>5. (\A v \in Web : Holder(v) /\ worker[v].pc = "refreshed"
                              => Accepts(worker[v].token))'
            BY <2>1, <2>3, <2>4 DEF HandOver, Holder, Accepts
        <2>6. \A v \in Web :
                 worker'[v].pc \in {"refreshing", "rejected"} /\ worker'[v].token = row'.token
                 => row'.lease # None
            BY <2>1, <2>4 DEF HandOver, Holding
        <2>7. row'.lease # None => \E v \in Web : Holder(v)'
            BY <2>1, <2>3 DEF HandOver
        <2>8. ~(Accepts(row.token))' => row'.lease # None
            BY <2>1 DEF HandOver, Accepts
        <2>. QED  BY <2>5, <2>6, <2>7, <2>8 DEF HandOver
    <1>. QED  BY <1>2, <1>3, <1>4 DEF StepSound

\* A request whose call is answered stores what it got, if it still holds
\* the lease.
LEMMA PersistRefreshStep ==
    ASSUME SessionInv, NEW w \in Web, PersistRefresh(w)
    PROVE  StepSound
    <1>. USE DEF SessionInv
    <1>1. /\ worker[w].pc = "refreshed" /\ w \in Workers
          /\ Goto(w, Idle)
          /\ UNCHANGED <<upstream, leases, failures>>
        BY DEF PersistRefresh, At, Done, Workers
    <1>2. /\ worker[w].token \in Nat /\ worker[w].lease \in Nat /\ worker[w].lease # None
          /\ worker[w].token <= upstream.token /\ upstream.token \in Nat
        BY <1>1, WorkerFields, SessionAssumption
        DEF Typed, WorkersSound, FlightSound, Flying
    <1>3. /\ Idle \in WorkerState
          /\ Idle.pc \notin {"leading"} \cup Flying \cup SigningOut
        BY IdleIsState DEF Idle, Flying, SigningOut
    <1>4. CASE ~HoldsLease(w)
        BY <1>1, <1>4, LostLeaseStep DEF PersistRefresh, Flying
    <1>5. CASE HoldsLease(w)
        <2>1. Present /\ row.lease = worker[w].lease /\ row \in Row /\ ~row.revoked
            BY <1>2, <1>5 DEF HoldsLease, RowSound, Typed, Present
        <2>2. row.token < worker[w].token /\ row.token \in Nat /\ row.attempts \in Nat
            BY <1>1, <2>1 DEF WorkersSound, FlightSound, Typed, Row, Flying
        <2>3. /\ row' \in Row
              /\ row'.lease = None
              /\ row'.token = IF ValidModel THEN worker[w].token ELSE row.token
              /\ row'.revoked = row.revoked /\ row'.expired = row.expired
              /\ row'.attempts = row.attempts
              /\ row'.confirmed = row.confirmed /\ row'.abandoned = row.abandoned
            <3>1. ClearLease \in Row
                BY <2>1, RowWithLease DEF ClearLease
            <3>2. [ClearLease EXCEPT !.token = worker[w].token, !.access = "fresh"] \in Row
                BY <1>2, <3>1 DEF Row
            <3>3. row' \in Row
                BY <1>5, <3>1, <3>2 DEF PersistRefresh
            <3>4. ClearLease.token = row.token /\ ClearLease.lease = None
                  /\ ClearLease.revoked = row.revoked /\ ClearLease.expired = row.expired
                  /\ ClearLease.attempts = row.attempts
                  /\ ClearLease.confirmed = row.confirmed /\ ClearLease.abandoned = row.abandoned
                BY <2>1 DEF ClearLease, Row
            <3>. QED  BY <1>5, <3>1, <3>3, <3>4 DEF PersistRefresh, Row
        <2>4. Onward
            BY <1>1, <1>2, <2>1, <2>2, <2>3 DEF Onward, Typed
        <2>5. RowSound' /\ LogoutStays
            BY <1>1, <1>2, <2>1, <2>2, <2>3 DEF RowSound, LogoutStays, Present
        <2>6. /\ Typed' /\ WorkersSound' /\ LeadersFirst'
              /\ worker'[w] = Idle
              /\ \A v \in Workers \ {w} : worker'[v] = worker[v]
            <3>1. \A v \in Workers : worker[v].pc \notin SigningOut
                BY <2>1 DEF WorkersSound, SigningSound
            <3>. QED  BY <1>1, <1>3, <2>3, <2>4, <3>1, QuitStep DEF Typed
        <2>7. HandOver'
            <3>. SUFFICES ASSUME Untroubled'
                          PROVE  HandOver'
                BY DEF HandOver
            <3>1. Untroubled /\ ValidModel
                BY <1>1, <2>1, <2>3 DEF Untroubled, Present, ValidModel
            <3>2. (Accepts(row.token))'
                <4>1. Accepts(worker[w].token)
                    BY <1>1, <2>1, <3>1 DEF HandOver, Holder, Holding
                <4>. QED  BY <1>1, <2>3, <3>1, <4>1 DEF Accepts
            <3>3. \A v \in Web : ~Holder(v)'
                <4>. SUFFICES ASSUME NEW v \in Web, worker'[v].pc \in Holding
                              PROVE  worker'[v].lease # None
                    BY <2>3 DEF Holder
                <4>. QED
                    BY <2>6, WorkerFields, SessionAssumption DEF Holding, Flying, Workers, Typed
            <3>4. ASSUME NEW v \in Web, worker'[v].pc \in {"refreshing", "rejected"}
                  PROVE  worker'[v].token # row'.token
                <4>1. worker'[v] = worker[v] /\ v \in Workers
                    BY <2>6, <3>4 DEF Workers, Idle
                <4>2. worker[v].token <= row.token /\ worker[v].token \in Nat
                    BY <2>1, <3>4, <4>1, WorkerFields DEF WorkersSound, FlightSound, Flying, Typed
                <4>. QED  BY <1>2, <2>2, <2>3, <3>1, <4>1, <4>2
            <3>. QED  BY <2>3, <3>2, <3>3, <3>4 DEF HandOver
        <2>. QED  BY <2>4, <2>5, <2>6, <2>7 DEF StepSound
    <1>. QED  BY <1>4, <1>5

\* A step that leaves the row revoked, or prunes it.
LEMMA RevokedStep ==
    ASSUME SessionInv,
           NEW w \in Workers, NEW state \in WorkerState, Goto(w, state),
           state.pc \notin {"leading"} \cup Flying \cup SigningOut,
           row' \in Row \cup {None},
           upstream' = upstream, leases' = leases,
           failures' \in Nat, failures <= failures',
           row' # None =>
              /\ Present
              /\ row'.revoked /\ row'.lease = None
              /\ row'.token = row.token
              /\ row.attempts <= row'.attempts
              /\ row'.confirmed => ~upstream.live /\ ~row'.abandoned
              /\ Terminal => /\ row'.confirmed = row.confirmed
                             /\ row'.abandoned = row.abandoned
                             /\ row'.attempts = row.attempts
    PROVE  StepSound
    <1>. USE DEF SessionInv
    <1>1. Onward /\ RowSound' /\ LogoutStays
        BY DEF Onward, RowSound, LogoutStays, Present, Typed, Row
    <1>2. Typed' /\ WorkersSound' /\ LeadersFirst'
        BY <1>1, QuitStep
    <1>3. HandOver'
        BY DEF HandOver, Untroubled, Present, ValidModel
    <1>. QED  BY <1>1, <1>2, <1>3 DEF StepSound

\* A request whose refresh failed drops the lease, and revokes the session
\* if its tokens were rejected.
LEMMA FinishRefreshStep ==
    ASSUME SessionInv, NEW w \in Web, FinishRefresh(w)
    PROVE  StepSound
    <1>. USE DEF SessionInv
    <1>1. /\ worker[w].pc \in {"rejected", "unavailable"} /\ w \in Workers
          /\ Goto(w, Idle)
          /\ UNCHANGED <<upstream, leases, failures>>
        BY DEF FinishRefresh, At, Done, Workers
    <1>2. /\ Idle \in WorkerState
          /\ Idle.pc \notin {"leading"} \cup Flying \cup SigningOut
        BY IdleIsState DEF Idle, Flying, SigningOut
    <1>3. CASE ~HoldsLease(w)
        BY <1>1, <1>3, LostLeaseStep DEF FinishRefresh, Flying
    <1>4. CASE HoldsLease(w)
        <2>1. /\ Present /\ row \in Row /\ ~row.revoked /\ ~Terminal
            <3>1. worker[w].lease # None
                BY <1>1, WorkerFields, SessionAssumption DEF Typed, Flying
            <3>. QED  BY <1>4, <3>1 DEF HoldsLease, RowSound, Typed, Present, Terminal
        <2>2. CASE worker[w].pc = "rejected"
            <3>1. row' = Mark(row)
                BY <1>4, <2>2 DEF FinishRefresh, At
            <3>2. row'.revoked /\ row'.lease = None
                BY <2>1, <3>1 DEF Mark, Terminal, Row
            <3>3. /\ row' \in Row /\ row'.token = row.token /\ row'.attempts = row.attempts
                  /\ row'.confirmed = row.confirmed
                BY <2>1, <3>1, MarkRow
            <3>4. row.attempts <= row'.attempts /\ ~row'.confirmed
                BY <2>1, <3>3 DEF Row, Terminal
            <3>. QED
                BY <1>1, <1>2, <2>1, <3>2, <3>3, <3>4, RevokedStep DEF Typed
        <2>3. CASE worker[w].pc = "unavailable"
            <3>1. row' = ClearLease
                BY <1>4, <2>3 DEF FinishRefresh, At
            <3>2. /\ row' \in Row
                  /\ row'.lease = None
                  /\ row'.token = row.token
                  /\ row'.revoked = row.revoked
                  /\ row'.attempts = row.attempts
                  /\ row'.confirmed = row.confirmed /\ row'.abandoned = row.abandoned
                BY <2>1, <3>1, RowWithLease DEF ClearLease, Row
            <3>3. Onward /\ RowSound' /\ LogoutStays
                BY <1>1, <2>1, <3>2 DEF Onward, RowSound, LogoutStays, Present, Typed, Row
            <3>4. Typed' /\ WorkersSound' /\ LeadersFirst'
                BY <1>1, <1>2, <3>2, <3>3, QuitStep DEF Typed
            <3>5. HandOver'
                BY <1>1, <2>3 DEF HandOver, Untroubled, WorkersSound, FlightSound, Flying
            <3>. QED  BY <3>3, <3>4, <3>5 DEF StepSound
        <2>. QED  BY <1>1, <2>2, <2>3
    <1>. QED  BY <1>3, <1>4

\* A logout revokes the row.
LEMMA LogoutStep ==
    ASSUME SessionInv, NEW w \in Web, Logout(w)
    PROVE  StepSound
    <1>. USE DEF SessionInv
    <1>. DEFINE state == [pc |-> "queued"]
    <1>1. /\ worker[w].pc = "leaving" /\ w \in Workers
          /\ Goto(w, state)
          /\ UNCHANGED <<upstream, leases, failures>>
          /\ row' = IF Present THEN Mark(row) ELSE row
        BY DEF Logout, At, Workers
    <1>2. /\ state \in WorkerState
          /\ state.pc \notin {"leading"} \cup Flying \cup SigningOut
        BY DEF WorkerState, Flying, SigningOut
    <1>3. CASE ~Present
        BY <1>1, <1>2, <1>3, RevokedStep DEF Typed, Present
    <1>4. CASE Present
        <2>1. row \in Row /\ row' = Mark(row)
            BY <1>1, <1>4 DEF Typed, Present
        <2>2. row'.revoked /\ row'.lease = None
            BY <1>4, <2>1 DEF Mark, RowSound, Row
        <2>3. /\ row' \in Row /\ row'.token = row.token /\ row'.attempts = row.attempts
              /\ row'.confirmed = row.confirmed /\ row'.abandoned = row.abandoned
            BY <2>1, MarkRow
        <2>4. row.attempts <= row'.attempts /\ (row'.confirmed => ~upstream.live /\ ~row'.abandoned)
            BY <1>4, <2>1, <2>3 DEF Row, RowSound
        <2>. HIDE DEF state
        <2>. QED  BY <1>1, <1>2, <1>4, <2>2, <2>3, <2>4, RevokedStep DEF Typed
    <1>. QED  BY <1>3, <1>4

\* The revoker's transaction, whatever it read before.
LEMMA ReconcileStep ==
    ASSUME SessionInv, NEW w \in Revokers, Reconcile(w)
    PROVE  StepSound
    <1>. USE DEF SessionInv
    <1>. DEFINE seen == worker[w].seen
                marked == IF seen = None THEN row ELSE Mark(seen)
    <1>1. /\ worker[w].pc = "scanned" /\ w \in Workers
          /\ UNCHANGED <<upstream, leases, failures>>
          /\ seen \in Row \cup {None}
        BY WorkerFields DEF Reconcile, At, Workers, Typed
    <1>2. PICK state \in {Idle, [pc |-> "queued"]} : Goto(w, state)
        BY DEF Reconcile, Done
    <1>3. /\ state \in WorkerState
          /\ state.pc \notin {"leading"} \cup Flying \cup SigningOut
          /\ worker[w].pc \notin Holding
        BY <1>1 DEF Idle, WorkerState, Flying, SigningOut, Holding
    <1>4. CASE row' = row
        BY <1>1, <1>2, <1>3, <1>4, PlainStep
    <1>5. CASE row' = None
        BY <1>1, <1>2, <1>3, <1>5, RevokedStep DEF Typed
    <1>6. CASE row' # row /\ row' # None
        <2>1. Present /\ row \in Row /\ row' = marked /\ seen \in Row
            BY <1>1, <1>6 DEF Reconcile, Typed, Present
        <2>2. row' = Mark(seen)
            BY <1>6, <2>1
        <2>. HIDE DEF seen, marked
        <2>3. /\ row' \in Row /\ row'.token = row.token /\ row'.attempts = row.attempts
              /\ row'.confirmed = row.confirmed /\ row'.abandoned = row.abandoned
              /\ row'.revoked /\ row'.lease = None
            BY <1>6, <2>1, <2>2, MarkRow
        <2>4. row.attempts <= row'.attempts /\ (row'.confirmed => ~upstream.live /\ ~row'.abandoned)
            BY <2>1, <2>3 DEF Row, RowSound
        <2>. QED  BY <1>1, <1>2, <1>3, <2>1, <2>3, <2>4, RevokedStep DEF Typed
    <1>. QED  BY <1>4, <1>5, <1>6

\* A worker that signs the session out, as long as its tokens are no older
\* than the row's, and nobody else made the attempt.
LEMMA SigningStep ==
    ASSUME SessionInv, Onward, RowSound', LogoutStays,
           NEW w \in Workers,
           NEW state \in [pc : SigningOut, attempts : Nat, token : Nat, refreshed : BOOLEAN,
                          expired : BOOLEAN],
           Goto(w, state),
           row' \in Row \cup {None},
           upstream' \in [live : BOOLEAN, token : Nat],
           leases' = leases, failures' \in Nat,
           state.token <= upstream'.token,
           state.pc = "acknowledged" => ~upstream'.live,
           row' # None =>
              /\ row'.revoked
              /\ state.attempts <= row'.attempts
              /\ state.attempts = row'.attempts => row'.token <= state.token
              /\ \/ worker[w].pc \in SigningOut /\ state.attempts = worker[w].attempts
                 \/ state.attempts > row.attempts,
           \A v \in Workers \ {w} :
              (row' # None /\ row'.token # row.token /\ worker[v].pc \in SigningOut)
                 => worker[v].attempts # row'.attempts
    PROVE  StepSound
    <1>. USE DEF SessionInv
    <1>1. /\ state \in WorkerState
          /\ state.pc \in SigningOut /\ state.pc \notin {"leading"} \cup Flying
        BY DEF WorkerState, SigningOut, Flying
    <1>2. /\ worker' \in [Workers -> WorkerState]
          /\ worker'[w] = state
          /\ \A v \in Workers \ {w} : worker'[v] = worker[v]
          /\ replica' \in [Web -> Replicas]
          /\ queue' \in [Replicas -> Seq(Web)]
          /\ LeadersFirst'
        BY <1>1, GotoStep
    <1>3. Typed'
        BY <1>2 DEF Typed
    <1>4. SigningSound(w)' /\ FlightSound(w)'
        BY <1>1, <1>2 DEF SigningSound, FlightSound, Present
    <1>5. WorkersSound'
        BY <1>1, <1>2, <1>3, <1>4, StepKeepsWorkers
    <1>6. HandOver'
        BY DEF HandOver, Untroubled, Present, ValidModel
    <1>. QED  BY <1>2, <1>3, <1>5, <1>6 DEF StepSound

\* A worker that signs out, and calls upstream.
LEMMA SigningCall ==
    ASSUME SessionInv,
           NEW w \in Workers, worker[w].pc \in SigningOut,
           NEW state \in [pc : SigningOut, attempts : Nat, token : Nat, refreshed : BOOLEAN,
                          expired : BOOLEAN],
           Goto(w, state),
           row' = row, leases' = leases, failures' \in Nat, failures <= failures',
           upstream' \in [live : BOOLEAN, token : Nat],
           upstream.token <= upstream'.token,
           upstream'.live => upstream.live,
           state.attempts = worker[w].attempts,
           worker[w].token <= state.token,
           state.token <= upstream'.token,
           state.pc = "acknowledged" => ~upstream'.live
    PROVE  StepSound
    <1>. USE DEF SessionInv
    <1>1. SigningSound(w)
        BY DEF WorkersSound
    <1>2. Onward /\ RowSound' /\ LogoutStays
        BY <1>1, RowStays DEF SigningSound
    <1>3. worker[w].token \in Nat /\ (Present => row.token \in Nat)
        BY WorkerFields DEF Typed, Present, Row
    <1>4. Present => /\ row.revoked
                     /\ state.attempts <= row.attempts
                     /\ state.attempts = row.attempts => row.token <= state.token
        BY <1>1, <1>3 DEF SigningSound
    <1>. QED  BY <1>2, <1>4, SigningStep DEF Typed, Present

\* claim_revocation makes the next attempt.
LEMMA ClaimRevocationStep ==
    ASSUME SessionInv, NEW w \in Workers, ClaimRevocation(w)
    PROVE  StepSound
    <1>. USE DEF SessionInv
    <1>. DEFINE state == [pc |-> "claimed", attempts |-> row.attempts + 1, token |-> row.token,
                          refreshed |-> FALSE, expired |-> row.access = "expired"]
    <1>1. /\ Present /\ row.revoked /\ ~Terminal /\ row \in Row
          /\ row' = [row EXCEPT !.attempts = @ + 1, !.next = "later"]
          /\ Goto(w, state)
          /\ UNCHANGED <<upstream, leases, failures>>
        BY DEF ClaimRevocation, Claimable, Typed, Present
    <1>2. row.attempts \in Nat /\ row.attempts + 1 \in Nat /\ row.token \in Nat
          /\ row.lease = None /\ row.token <= upstream.token
        BY <1>1 DEF Row, RowSound
    <1>3. /\ row' \in Row
          /\ row'.attempts = row.attempts + 1
          /\ row'.token = row.token /\ row'.lease = row.lease
          /\ row'.revoked = row.revoked
          /\ row'.confirmed = row.confirmed /\ row'.abandoned = row.abandoned
        <2>1. row' \in Row
            BY <1>1, <1>2 DEF Row
        <2>. QED  BY <1>1, <2>1 DEF Row
    <1>4. Onward /\ RowSound' /\ LogoutStays
        BY <1>1, <1>2, <1>3 DEF Onward, RowSound, LogoutStays, Present, Typed
    <1>5. state \in [pc : SigningOut, attempts : Nat, token : Nat, refreshed : BOOLEAN,
                     expired : BOOLEAN]
        BY <1>2 DEF SigningOut
    <1>6. /\ state.attempts = row'.attempts /\ state.attempts > row.attempts
          /\ state.token = row'.token /\ state.token <= upstream'.token
          /\ state.pc # "acknowledged"
          /\ state.attempts <= row'.attempts /\ row'.token <= state.token
        BY <1>1, <1>2, <1>3
    <1>. HIDE DEF state
    <1>. QED  BY <1>1, <1>3, <1>4, <1>5, <1>6, SigningStep DEF Typed

\* ... which ends the attempts if the tokens are unreadable.
LEMMA ClaimUnreadableStep ==
    ASSUME SessionInv, NEW w \in Workers, ClaimUnreadable(w)
    PROVE  StepSound
    <1>. USE DEF SessionInv
    <1>1. /\ Present /\ row.revoked /\ ~Terminal /\ row \in Row
          /\ row' = [row EXCEPT !.attempts = @ + 1, !.next = "none", !.pending = FALSE,
                                !.abandoned = TRUE]
          /\ Goto(w, Idle)
          /\ upstream' = upstream /\ leases' = leases /\ failures' = failures + 1
        BY DEF ClaimUnreadable, Claimable, Typed, Present, Done, Fails
    <1>2. row.attempts \in Nat /\ row.attempts + 1 \in Nat /\ row.lease = None
          /\ failures \in Nat
        BY <1>1 DEF Row, RowSound, Typed
    <1>3. /\ row' \in Row
          /\ row'.attempts = row.attempts + 1
          /\ row'.token = row.token /\ row'.lease = row.lease
          /\ row'.revoked = row.revoked
          /\ row'.confirmed = row.confirmed
        <2>1. row' \in Row
            BY <1>1, <1>2 DEF Row
        <2>. QED  BY <1>1, <2>1 DEF Row
    <1>4. /\ Idle \in WorkerState
          /\ Idle.pc \notin {"leading"} \cup Flying \cup SigningOut
        BY IdleIsState DEF Idle, Flying, SigningOut
    <1>5. row.attempts <= row'.attempts /\ failures' \in Nat /\ failures <= failures'
          /\ ~row'.confirmed
        BY <1>1, <1>2, <1>3 DEF Terminal
    <1>. QED  BY <1>1, <1>2, <1>3, <1>4, <1>5, RevokedStep

\* The exchange of tokens that a sign-out may need first.
LEMMA CallRotateStep ==
    ASSUME SessionInv, NEW w \in Workers, CallRotate(w)
    PROVE  StepSound
    <1>. USE DEF SessionInv
    <1>. DEFINE c == worker[w]
                States == [pc : SigningOut, attempts : Nat, token : Nat, refreshed : BOOLEAN,
                           expired : BOOLEAN]
                rotated == Accepts(c.token) /\ Rotate
                state == [c EXCEPT !.pc = "rotated", !.token = upstream.token + 1,
                                   !.refreshed = TRUE, !.expired = FALSE]
    <1>1. /\ c \in States /\ c.pc = "claimed"
          /\ row' = row /\ leases' = leases
        BY DEF CallRotate, At, Typed, WorkerState, SigningOut, Flying
    <1>2. /\ upstream.token \in Nat /\ failures \in Nat /\ failures + 1 \in Nat
          /\ upstream.token + 1 \in Nat
          /\ upstream \in [live : BOOLEAN, token : Nat]
          /\ c.token <= upstream.token
        BY <1>1 DEF Typed, WorkersSound, SigningSound, SigningOut
    <1>3. rotated => /\ upstream' \in [live : BOOLEAN, token : Nat]
                     /\ upstream'.live = upstream.live
                     /\ upstream'.token = upstream.token + 1
        BY <1>2 DEF Rotate
    <1>4. CASE rotated /\ Goto(w, state) /\ UNCHANGED failures
        <2>1. state \in States /\ state.attempts = c.attempts
              /\ state.token = upstream.token + 1 /\ state.pc # "acknowledged"
            <3>1. "rotated" \in SigningOut /\ TRUE \in BOOLEAN /\ FALSE \in BOOLEAN
                BY DEF SigningOut
            <3>. QED  BY <1>1, <1>2, <3>1
        <2>2. /\ failures' = failures /\ failures <= failures'
              /\ upstream.token <= upstream'.token
              /\ c.token <= state.token /\ state.token <= upstream'.token
            BY <1>1, <1>2, <1>3, <1>4, <2>1
        <2>. HIDE DEF state
        <2>. QED  BY <1>1, <1>2, <1>3, <1>4, <2>1, <2>2, SigningCall
    <1>5. ASSUME NEW label \in {"refused", "deferred"},
                 Goto(w, [c EXCEPT !.pc = label]),
                 failures' \in {failures, failures + 1},
                 UNCHANGED upstream \/ rotated
          PROVE  StepSound
        <2>. DEFINE next == [c EXCEPT !.pc = label]
        <2>1. next \in States /\ next.attempts = c.attempts /\ next.token = c.token
              /\ next.pc # "acknowledged"
            BY <1>1 DEF SigningOut
        <2>2. /\ failures' \in Nat /\ failures <= failures'
              /\ upstream' \in [live : BOOLEAN, token : Nat]
              /\ upstream'.live = upstream.live
              /\ upstream.token <= upstream'.token
              /\ c.token <= next.token /\ next.token <= upstream'.token
            BY <1>1, <1>2, <1>3, <1>5, <2>1
        <2>3. Goto(w, next)
            BY <1>5
        <2>. HIDE DEF next
        <2>. QED  BY <1>1, <2>1, <2>2, <2>3, SigningCall
    <1>. QED  BY <1>4, <1>5 DEF CallRotate, Fails

\* The sign-out itself.
LEMMA CallSignOutStep ==
    ASSUME SessionInv, NEW w \in Workers, CallSignOut(w)
    PROVE  StepSound
    <1>. USE DEF SessionInv
    <1>. DEFINE c == worker[w]
                States == [pc : SigningOut, attempts : Nat, token : Nat, refreshed : BOOLEAN,
                           expired : BOOLEAN]
                ended == upstream' = [upstream EXCEPT !.live = FALSE]
    <1>1. /\ c \in States /\ c.pc = "claimed"
          /\ row' = row /\ leases' = leases
        BY DEF CallSignOut, At, Typed, WorkerState, SigningOut, Flying
    <1>2. /\ upstream.token \in Nat /\ failures \in Nat /\ failures + 1 \in Nat
          /\ upstream \in [live : BOOLEAN, token : Nat]
          /\ c.token <= upstream.token
        BY <1>1 DEF Typed, WorkersSound, SigningSound, SigningOut
    <1>3. ended => /\ upstream' \in [live : BOOLEAN, token : Nat]
                   /\ ~upstream'.live
                   /\ upstream'.token = upstream.token
        BY <1>2
    <1>4. ASSUME NEW state \in States, Goto(w, state),
                 state.attempts = c.attempts, state.token = c.token,
                 state.pc = "acknowledged" => ended,
                 failures' \in {failures, failures + 1},
                 UNCHANGED upstream \/ ended
          PROVE  StepSound
        <2>1. /\ failures' \in Nat /\ failures <= failures'
              /\ upstream' \in [live : BOOLEAN, token : Nat]
              /\ upstream'.live => upstream.live
              /\ upstream.token <= upstream'.token
              /\ c.token <= state.token /\ state.token <= upstream'.token
              /\ state.pc = "acknowledged" => ~upstream'.live
            BY <1>1, <1>2, <1>3, <1>4
        <2>. QED  BY <1>1, <1>4, <2>1, SigningCall DEF SigningOut
    <1>5. \A label \in SigningOut :
             /\ [c EXCEPT !.pc = label] \in States
             /\ [c EXCEPT !.pc = label].attempts = c.attempts
             /\ [c EXCEPT !.pc = label].token = c.token
             /\ [c EXCEPT !.pc = label].pc = label
        BY <1>1
    <1>6. /\ [c EXCEPT !.expired = TRUE] \in States
          /\ [c EXCEPT !.expired = TRUE].attempts = c.attempts
          /\ [c EXCEPT !.expired = TRUE].token = c.token
          /\ [c EXCEPT !.expired = TRUE].pc = "claimed"
        <2>1. TRUE \in BOOLEAN
            OBVIOUS
        <2>. QED  BY <1>1, <2>1
    <1>7. "acknowledged" \in SigningOut /\ "deferred" \in SigningOut
        BY DEF SigningOut
    <1>8. CASE ended /\ Goto(w, [c EXCEPT !.pc = "acknowledged"]) /\ UNCHANGED failures
        BY <1>4, <1>5, <1>7, <1>8
    <1>9. CASE Goto(w, [c EXCEPT !.expired = TRUE]) /\ UNCHANGED <<upstream, failures>>
        BY <1>4, <1>6, <1>9
    <1>10. CASE /\ Goto(w, [c EXCEPT !.pc = "deferred"])
                /\ failures' \in {failures, failures + 1}
                /\ UNCHANGED upstream \/ ended
        BY <1>4, <1>5, <1>7, <1>10
    <1>. QED  BY <1>8, <1>9, <1>10 DEF CallSignOut, Fails

\* Exchanged tokens are stored by the holder of the claim, and by nobody
\* else.
LEMMA PersistRotationStep ==
    ASSUME SessionInv, NEW w \in Workers, PersistRotation(w)
    PROVE  StepSound
    <1>. USE DEF SessionInv
    <1>. DEFINE c == worker[w]
                States == [pc : SigningOut, attempts : Nat, token : Nat, refreshed : BOOLEAN,
                           expired : BOOLEAN]
                state == [c EXCEPT !.pc = "claimed"]
    <1>1. /\ c \in States /\ c.pc = "rotated"
          /\ UNCHANGED <<upstream, leases, failures>>
        BY DEF PersistRotation, At, Typed, WorkerState, SigningOut, Flying
    <1>2. SigningSound(w) /\ c.pc \in SigningOut
        BY <1>1 DEF WorkersSound, SigningOut
    <1>3. CASE ~HoldsClaim(w)
        <2>1. Goto(w, Idle) /\ row' = row
            BY <1>3 DEF PersistRotation, Done
        <2>2. /\ Idle \in WorkerState
              /\ Idle.pc \notin {"leading"} \cup Flying \cup SigningOut
              /\ worker[w].pc \notin Holding
            BY <1>1, IdleIsState DEF Idle, Flying, SigningOut, Holding
        <2>. QED  BY <1>1, <2>1, <2>2, PlainStep
    <1>4. CASE HoldsClaim(w)
        <2>1. /\ Present /\ row \in Row /\ ~Terminal /\ row.attempts = c.attempts
              /\ row' = [row EXCEPT !.token = c.token, !.access = "fresh"]
              /\ Goto(w, state)
            BY <1>4 DEF PersistRotation, HoldsClaim, Typed, Present
        <2>2. /\ row.revoked /\ row.lease = None /\ row.token <= c.token
              /\ c.token <= upstream.token
              /\ row.token \in Nat /\ row.attempts \in Nat /\ c.token \in Nat
              /\ upstream.token \in Nat
            BY <1>1, <1>2, <2>1 DEF SigningSound, RowSound, Row, Typed
        <2>3. /\ row' \in Row
              /\ row'.token = c.token
              /\ row'.attempts = row.attempts /\ row'.lease = row.lease
              /\ row'.revoked = row.revoked
              /\ row'.confirmed = row.confirmed /\ row'.abandoned = row.abandoned
            <3>1. row' \in Row
                BY <2>1, <2>2 DEF Row
            <3>. QED  BY <2>1, <3>1 DEF Row
        <2>4. At(w, "rotated")
            BY <1>1 DEF At
        <2>5. Onward /\ RowSound' /\ LogoutStays
            BY <1>1, <1>4, <2>1, <2>2, <2>3, <2>4
            DEF Onward, RowSound, LogoutStays, Present, Typed
        <2>6. /\ state \in States
              /\ state.attempts = c.attempts /\ state.token = c.token
              /\ state.pc # "acknowledged"
            BY <1>1 DEF SigningOut
        <2>7. \A v \in Workers \ {w} :
                 worker[v].pc \in SigningOut => worker[v].attempts # row'.attempts
            BY <1>2, <2>1, <2>3 DEF WorkersSound, ApartSigning
        <2>8. /\ state.attempts <= row'.attempts
              /\ row'.token <= state.token /\ state.token <= upstream'.token
            BY <1>1, <2>1, <2>2, <2>3, <2>6
        <2>. HIDE DEF state
        <2>. QED  BY <1>1, <1>2, <2>1, <2>2, <2>3, <2>5, <2>6, <2>7, <2>8, SigningStep DEF Typed
    <1>. QED  BY <1>3, <1>4

\* The end of an attempt, behind the fence of its claim.
LEMMA ConcludeSteps ==
    ASSUME SessionInv, NEW w \in Workers, Confirm(w) \/ Abandon(w) \/ Defer(w)
    PROVE  StepSound
    <1>. USE DEF SessionInv
    <1>1. /\ worker[w].pc \in {"acknowledged", "refused", "deferred"}
          /\ Goto(w, Idle)
          /\ UNCHANGED <<upstream, leases, failures>>
        BY DEF Confirm, Abandon, Defer, Conclude, At, Done
    <1>2. /\ Idle \in WorkerState
          /\ Idle.pc \notin {"leading"} \cup Flying \cup SigningOut
          /\ worker[w].pc \notin Holding
        BY <1>1, IdleIsState DEF Idle, Flying, SigningOut, Holding
    <1>3. CASE ~HoldsClaim(w)
        <2>1. row' = row
            BY <1>3 DEF Confirm, Abandon, Defer, Conclude
        <2>. QED  BY <1>1, <1>2, <2>1, PlainStep
    <1>4. CASE HoldsClaim(w)
        <2>1. /\ Present /\ row \in Row /\ ~row.confirmed /\ ~row.abandoned
            BY <1>4 DEF HoldsClaim, Typed, Present, Terminal
        <2>2. /\ row.revoked /\ row.lease = None
              /\ worker[w].pc = "acknowledged" => ~upstream.live
            BY <1>1, <2>1 DEF WorkersSound, SigningSound, RowSound, SigningOut
        <2>3. \/ /\ worker[w].pc = "acknowledged"
                 /\ row' = [row EXCEPT !.confirmed = TRUE, !.abandoned = FALSE,
                                       !.pending = FALSE, !.next = "none"]
              \/ row' = [row EXCEPT !.abandoned = TRUE, !.pending = FALSE, !.next = "none"]
              \/ row' = [row EXCEPT !.pending = TRUE, !.next = "later"]
            BY <1>4 DEF Confirm, Abandon, Defer, Conclude, At
        <2>4. row' \in Row
            <3>1. CASE row' = [row EXCEPT !.abandoned = TRUE, !.pending = FALSE,
                                          !.next = "none"]
                BY <2>1, <3>1 DEF Row
            <3>2. CASE row' = [row EXCEPT !.pending = TRUE, !.next = "later"]
                BY <2>1, <3>2 DEF Row
            <3>3. CASE row' = [row EXCEPT !.confirmed = TRUE, !.abandoned = FALSE,
                                          !.pending = FALSE, !.next = "none"]
                BY <2>1, <3>3 DEF Row
            <3>. QED  BY <2>3, <3>1, <3>2, <3>3
        <2>5. /\ row'.revoked /\ row'.lease = None
              /\ row'.token = row.token /\ row'.attempts = row.attempts
              /\ row'.confirmed => worker[w].pc = "acknowledged" /\ ~row'.abandoned
            <3>1. /\ row'.revoked = row.revoked /\ row'.lease = row.lease
                  /\ row'.token = row.token /\ row'.attempts = row.attempts
                BY <2>1, <2>3 DEF Row
            <3>2. row'.confirmed => worker[w].pc = "acknowledged" /\ ~row'.abandoned
                BY <2>1, <2>3 DEF Row
            <3>. QED  BY <2>2, <3>1, <3>2
        <2>6. row.attempts <= row'.attempts /\ ~Terminal
            BY <2>1, <2>5 DEF Row, Terminal
        <2>. QED  BY <1>1, <1>2, <2>1, <2>2, <2>4, <2>5, <2>6, RevokedStep DEF Typed
    <1>. QED  BY <1>3, <1>4

\* A worker dies, anywhere.
LEMMA CrashStep ==
    ASSUME SessionInv, NEW w \in Workers, Crash(w)
    PROVE  StepSound
    <1>. USE DEF SessionInv
    <1>1. /\ Goto(w, Idle)
          /\ failures \in Nat /\ failures' = failures + 1
          /\ row' = row /\ upstream' = upstream /\ leases' = leases
        BY DEF Crash, Done, Fails, Typed
    <1>2. /\ Idle \in WorkerState
          /\ Idle.pc \notin {"leading"} \cup Flying \cup SigningOut
        BY IdleIsState DEF Idle, Flying, SigningOut
    <1>3. failures' \in Nat /\ failures <= failures' /\ failures' # 0
        BY <1>1
    <1>4. Onward /\ RowSound' /\ LogoutStays
        BY <1>1, <1>3, RowStays DEF Typed
    <1>5. Typed' /\ WorkersSound' /\ LeadersFirst'
        BY <1>1, <1>2, <1>3, <1>4, QuitStep DEF Typed
    <1>6. HandOver'
        BY <1>3 DEF HandOver, Untroubled
    <1>. QED  BY <1>4, <1>5, <1>6 DEF StepSound

-----------------------------------------------------------------------------
(* The theorems.                                                           *)

LEMMA SessionInitSound ==
    SessionInit => SessionInv
    <1>. SUFFICES ASSUME SessionInit
                  PROVE  SessionInv
        OBVIOUS
    <1>. USE DEF SessionInit
    <1>1. row \in Row
        BY DEF Row
    <1>2. \A w \in Workers : worker[w] = Idle /\ worker[w].pc = "idle"
        BY DEF Idle
    <1>3. Typed
        BY <1>1, <1>2, IdleIsState, EmptySeq DEF Typed
    <1>4. RowSound
        BY DEF RowSound
    <1>5. WorkersSound
        BY <1>2 DEF WorkersSound, SigningSound, FlightSound, ApartSigning, ApartFlying,
                    SigningOut, Flying
    <1>6. LeadersFirst
        BY <1>2 DEF LeadersFirst, Flying, Workers
    <1>7. HandOver
        BY <1>2 DEF HandOver, Holder, Holding, Accepts, Workers
    <1>. QED  BY <1>3, <1>4, <1>5, <1>6, <1>7 DEF SessionInv

LEMMA SessionStep ==
    ASSUME SessionInv, SessionNext
    PROVE  StepSound
    <1>1. CASE Age \/ RetryDue
        BY <1>1, TimeSteps
    <1>2. ASSUME NEW w \in Web, Authenticate(w) \/ BeginLogout(w)
          PROVE  StepSound
        BY <1>2, LookingSteps
    <1>3. ASSUME NEW w \in Web, Refreshing(w)
          PROVE  StepSound
        BY <1>3, LookingSteps, EnterStep, ClaimStep, CallRefreshStep, PersistRefreshStep,
           FinishRefreshStep DEF Refreshing
    <1>4. ASSUME NEW w \in Web, Logout(w)
          PROVE  StepSound
        BY <1>4, LogoutStep
    <1>5. ASSUME NEW w \in Revokers, ReadExpired(w)
          PROVE  StepSound
        BY <1>5, LookingSteps
    <1>6. ASSUME NEW w \in Revokers, Reconcile(w)
          PROVE  StepSound
        BY <1>6, ReconcileStep
    <1>7. ASSUME NEW w \in Workers, Revoking(w)
          PROVE  StepSound
        BY <1>7, LookingSteps, ClaimRevocationStep, ClaimUnreadableStep, CallRotateStep,
           PersistRotationStep, CallSignOutStep, ConcludeSteps DEF Revoking
    <1>8. ASSUME NEW w \in Workers, Crash(w)
          PROVE  StepSound
        BY <1>8, CrashStep
    <1>. QED  BY <1>1, <1>2, <1>3, <1>4, <1>5, <1>6, <1>7, <1>8 DEF SessionNext

\* Nothing happens to the session when nothing happens.
LEMMA SessionStutters ==
    ASSUME SessionInv, UNCHANGED sessionVars
    PROVE  StepSound
    <1>. USE DEF SessionInv, sessionVars
    <1>1. Onward /\ RowSound' /\ LogoutStays
        BY RowStays DEF Typed
    <1>2. Typed' /\ LeadersFirst'
        BY DEF Typed, LeadersFirst
    <1>3. WorkersSound'
        BY DEF WorkersSound, SigningSound, FlightSound, ApartSigning, ApartFlying, Present
    <1>4. HandOver'
        BY DEF HandOver, Untroubled, Present, ValidModel, Holder, Accepts
    <1>. QED  BY <1>1, <1>2, <1>3, <1>4 DEF StepSound

\* The invariant holds in every state: the row, its leases, the tokens of
\* upstream and what each request and revoker remembers always fit together.
THEOREM SessionAlways == SessionSpec => []SessionInv
    <1>1. SessionInit => SessionInv
        BY SessionInitSound
    <1>2. SessionInv /\ [SessionNext]_sessionVars => SessionInv'
        BY SessionStep, SessionStutters DEF StepSound
    <1>. QED  BY <1>1, <1>2, PTL DEF SessionSpec

\* LogoutIsFinal: no refresh that was in flight when the session was logged
\* out gives it a lease or tokens again, and a settled logout stays as it was
\* settled, however many replicas and revokers work on the row.
THEOREM LogoutIsAlwaysFinal == SessionSpec => LogoutIsFinal
    <1>1. SessionInv /\ [SessionNext]_sessionVars => [LogoutStays]_sessionVars
        BY SessionStep DEF StepSound
    <1>2. [LogoutStays]_sessionVars =>
             [(Present /\ row.revoked /\ row' # None) =>
                 /\ row'.revoked
                 /\ row'.lease = None
                 /\ row'.token # row.token =>
                       \E w \in Workers : At(w, "rotated") /\ HoldsClaim(w)
                 /\ Terminal => /\ row'.confirmed = row.confirmed
                                /\ row'.abandoned = row.abandoned
                                /\ row'.attempts = row.attempts]_sessionVars
        BY DEF LogoutStays
    <1>. QED  BY <1>1, <1>2, SessionAlways, PTL DEF SessionSpec, LogoutIsFinal

\* TokensMoveForward: a late answer never overwrites newer tokens.
THEOREM TokensAlwaysMoveForward == SessionSpec => TokensMoveForward
    <1>1. SessionInv /\ [SessionNext]_sessionVars =>
             [(Present /\ row' # None) => row'.token >= row.token]_sessionVars
        <2>. SUFFICES ASSUME SessionInv, SessionNext, Present, row' # None
                      PROVE  row'.token >= row.token
            OBVIOUS
        <2>1. Onward /\ SessionInv'
            BY SessionStep DEF StepSound
        <2>2. row.token \in Nat /\ row'.token \in Nat
            BY <2>1 DEF SessionInv, Typed, Row, Present
        <2>. QED  BY <2>1, <2>2 DEF Onward
    <1>. QED  BY <1>1, SessionAlways, PTL DEF SessionSpec, TokensMoveForward

\* ConfirmedMeansSignedOut: a logout is reported as confirmed only after the
\* sign-out that upstream acknowledged.
THEOREM ConfirmedAlwaysMeansSignedOut == SessionSpec => []ConfirmedMeansSignedOut
    <1>1. SessionInv => ConfirmedMeansSignedOut
        BY DEF SessionInv, RowSound, ConfirmedMeansSignedOut
    <1>. QED  BY <1>1, SessionAlways, PTL

\* LocalSingleFlight: the coordinator lets one request of a replica work on
\* the session, however many arrive, leave and die.
THEOREM FlightsAreAlwaysSingle == SessionSpec => []LocalSingleFlight
    <1>1. SessionInv => LocalSingleFlight
        BY DEF SessionInv, LeadersFirst, LocalSingleFlight, Flying
    <1>. QED  BY <1>1, SessionAlways, PTL

\* LostTokensAreNoticed: whichever leases ran out and were taken over, a
\* usable session is left with tokens that upstream accepts, or with a lease
\* whose holder is about to bring better ones or to revoke it.
THEOREM LostTokensAreAlwaysNoticed == SessionSpec => []LostTokensAreNoticed
    <1>1. SessionInv => LostTokensAreNoticed
        <2>. SUFFICES ASSUME SessionInv
                      PROVE  LostTokensAreNoticed
            OBVIOUS
        <2>1. Present => row.token <= upstream.token
            BY DEF SessionInv, RowSound
        <2>2. ASSUME Present, ValidModel, failures = 0, ~Accepts(row.token)
              PROVE  \E w \in Web :
                        /\ worker[w].pc \in {"refreshing", "refreshed", "rejected"}
                        /\ HoldsLease(w)
                        /\ At(w, "refreshed") => Accepts(worker[w].token)
            <3>1. PICK w \in Web : Holder(w)
                BY <2>2 DEF SessionInv, HandOver, Untroubled
            <3>2. worker[w].pc = "refreshed" => Accepts(worker[w].token)
                BY <2>2, <3>1 DEF SessionInv, HandOver, Untroubled
            <3>. QED  BY <2>2, <3>1, <3>2 DEF Holder, Holding, HoldsLease, At
        <2>. QED  BY <2>1, <2>2 DEF LostTokensAreNoticed
    <1>. QED  BY <1>1, SessionAlways, PTL

-----------------------------------------------------------------------------
(* One life of the session (SessionLife).                                  *)

\* A revoker that has not exchanged the tokens it claimed has the row's, or
\* older ones.
ClaimSound(w) ==
    /\ worker[w].pc = "rotated" => worker[w].refreshed
    /\ (worker[w].pc = "claimed" /\ ~worker[w].refreshed /\ Present) =>
       worker[w].token <= row.token

ClaimsSound == \A w \in Workers : ClaimSound(w)

\* It keeps them while others act.
LEMMA ClaimStays ==
    ASSUME SessionInv, SessionInv', Onward,
           NEW w \in Workers, worker'[w] = worker[w], ClaimSound(w)
    PROVE  ClaimSound(w)'
    <1>. SUFFICES ASSUME worker[w].pc = "claimed", ~worker[w].refreshed, row' # None
                  PROVE  worker[w].token <= row'.token
        BY DEF ClaimSound, Present
    <1>1. Present /\ row.token <= row'.token /\ worker[w].token <= row.token
        BY DEF Onward, ClaimSound
    <1>2. row.token \in Nat /\ row'.token \in Nat
        BY <1>1 DEF SessionInv, Typed, Row, Present
    <1>3. worker[w].token \in Nat
        BY WorkerFields DEF SessionInv, Typed, SigningOut
    <1>. QED  BY <1>1, <1>2, <1>3

LEMMA ClaimsStay ==
    ASSUME SessionInv, SessionInv', Onward, ClaimsSound,
           NEW w \in Workers,
           \A v \in Workers \ {w} : worker'[v] = worker[v],
           ClaimSound(w)'
    PROVE  ClaimsSound'
    <1>1. \A v \in Workers \ {w} : ClaimSound(v)'
        BY ClaimStays DEF ClaimsSound
    <1>. QED  BY <1>1 DEF ClaimsSound

\* A worker goes on without a claim, or with one it has exchanged.
LEMMA ClaimsLeft ==
    ASSUME SessionInv, SessionInv', Onward, ClaimsSound,
           NEW w \in Workers, NEW state, Goto(w, state),
           state.pc \in {"claimed", "rotated"} => state.refreshed
    PROVE  ClaimsSound'
    <1>1. /\ worker'[w] = state
          /\ \A v \in Workers \ {w} : worker'[v] = worker[v]
        BY DEF Goto, SessionInv, Typed
    <1>2. ClaimSound(w)'
        BY <1>1 DEF ClaimSound
    <1>. QED  BY <1>1, <1>2, ClaimsStay

\* A request that only goes through the coordinator, and a revoker between
\* claim and conclusion.
LEMMA ClaimsEnter ==
    ASSUME SessionInv, SessionInv', Onward, ClaimsSound,
           NEW w \in Web, EnterRefresh(w)
    PROVE  ClaimsSound'
    <1>1. worker[w].pc = "stale" /\ worker[w] \in WorkerState /\ w \in Workers
        BY DEF EnterRefresh, At, SessionInv, Typed, Workers
    <1>2. worker[w] = [pc |-> "stale"]
        BY <1>1 DEF WorkerState, Flying, SigningOut
    <1>3. PICK label \in {"leading", "waiting"} : worker' = [worker EXCEPT ![w].pc = label]
        BY DEF EnterRefresh
    <1>4. /\ worker'[w].pc \in {"leading", "waiting"}
          /\ \A v \in Workers \ {w} : worker'[v] = worker[v]
        BY <1>1, <1>2, <1>3 DEF SessionInv, Typed
    <1>5. ClaimSound(w)'
        BY <1>4 DEF ClaimSound
    <1>. QED  BY <1>1, <1>4, <1>5, ClaimsStay

LEMMA ClaimsRevoking ==
    ASSUME SessionInv, SessionInv', Onward, ClaimsSound,
           NEW w \in Workers, Revoking(w)
    PROVE  ClaimsSound'
    <1>. DEFINE c == worker[w]
    <1>c. ASSUME c.pc \in SigningOut
          PROVE  c = [pc |-> c.pc, attempts |-> c.attempts, token |-> c.token,
                      refreshed |-> c.refreshed, expired |-> c.expired]
        BY <1>c DEF SessionInv, Typed, WorkerState, Flying, SigningOut
    <1>i. Idle.pc = "idle"
        BY DEF Idle
    <1>1. CASE Done(w)
        BY <1>1, <1>i, ClaimsLeft DEF Done
    <1>2. CASE ClaimRevocation(w)
        <2>. DEFINE state == [pc |-> "claimed", attempts |-> row.attempts + 1,
                              token |-> row.token, refreshed |-> FALSE,
                              expired |-> row.access = "expired"]
        <2>1. Goto(w, state) /\ row.token \in Nat /\ row'.token = row.token
            BY <1>2 DEF ClaimRevocation, Claimable, Present, SessionInv, Typed, Row
        <2>2. /\ worker'[w] = state
              /\ \A v \in Workers \ {w} : worker'[v] = worker[v]
            BY <2>1 DEF Goto, SessionInv, Typed
        <2>3. ClaimSound(w)'
            BY <2>1, <2>2 DEF ClaimSound
        <2>. QED  BY <2>2, <2>3, ClaimsStay
    <1>3. CASE CallRotate(w)
        <2>1. c.pc = "claimed" /\ c.pc \in SigningOut
            BY <1>3 DEF CallRotate, At, SigningOut
        <2>2. PICK state : /\ Goto(w, state)
                           /\ \/ state = [c EXCEPT !.pc = "rotated", !.token = upstream.token + 1,
                                                   !.refreshed = TRUE, !.expired = FALSE]
                              \/ state = [c EXCEPT !.pc = "refused"]
                              \/ state = [c EXCEPT !.pc = "deferred"]
            BY <1>3 DEF CallRotate
        <2>3. state.pc \in {"claimed", "rotated"} => state.refreshed
            BY <1>c, <2>1, <2>2
        <2>. QED  BY <2>2, <2>3, ClaimsLeft
    <1>4. CASE PersistRotation(w) /\ ~Done(w)
        <2>1. /\ c.pc = "rotated" /\ c.pc \in SigningOut
              /\ Goto(w, [c EXCEPT !.pc = "claimed"])
            BY <1>4 DEF PersistRotation, At, SigningOut
        <2>2. [c EXCEPT !.pc = "claimed"].refreshed
            BY <1>c, <2>1 DEF ClaimsSound, ClaimSound
        <2>. QED  BY <2>1, <2>2, ClaimsLeft
    <1>5. CASE CallSignOut(w)
        <2>1. c.pc = "claimed" /\ c.pc \in SigningOut /\ row' = row
            BY <1>5 DEF CallSignOut, At, SigningOut
        <2>2. PICK state : /\ Goto(w, state)
                           /\ \/ state = [c EXCEPT !.pc = "acknowledged"]
                              \/ state = [c EXCEPT !.expired = TRUE]
                              \/ state = [c EXCEPT !.pc = "deferred"]
            BY <1>5 DEF CallSignOut
        <2>3. /\ worker'[w] = state
              /\ \A v \in Workers \ {w} : worker'[v] = worker[v]
            BY <2>2 DEF Goto, SessionInv, Typed
        <2>4. state.pc = "claimed" => state.refreshed = c.refreshed /\ state.token = c.token
            BY <1>c, <2>1, <2>2
        <2>5. state.pc # "rotated"
            BY <1>c, <2>1, <2>2
        <2>6. ClaimSound(w)'
            BY <2>1, <2>3, <2>4, <2>5 DEF ClaimsSound, ClaimSound, Present
        <2>. QED  BY <2>3, <2>6, ClaimsStay
    <1>. QED
        BY <1>1, <1>2, <1>3, <1>4, <1>5
        DEF Revoking, ClaimUnreadable, LeaveRevocation, Confirm, Abandon, Defer, Conclude

LEMMA ClaimsStep ==
    ASSUME SessionInv, ClaimsSound, [SessionNext]_sessionVars
    PROVE  ClaimsSound'
    <1>t. SessionInv' /\ Onward
        BY SessionStep, SessionStutters DEF StepSound
    <1>w. Web \subseteq Workers /\ Revokers \subseteq Workers
        BY DEF Workers
    <1>1. CASE worker' = worker
        BY <1>1, <1>t, ClaimStays DEF ClaimsSound
    <1>2. ASSUME NEW w \in Workers,
                 NEW state, Goto(w, state), state.pc \notin {"claimed", "rotated"}
          PROVE  ClaimsSound'
        BY <1>2, <1>t, ClaimsLeft
    <1>3. ASSUME NEW w \in Workers, Done(w) PROVE ClaimsSound'
        <2>1. Idle.pc \notin {"claimed", "rotated"}
            BY DEF Idle
        <2>. QED  BY <1>2, <1>3, <2>1 DEF Done
    <1>4. ASSUME NEW w \in Web, Authenticate(w) \/ BeginLogout(w) \/ Logout(w)
          PROVE  ClaimsSound'
        <2>1. PICK label \in {"stale", "leaving", "queued"} : Goto(w, [pc |-> label])
            BY <1>4 DEF Authenticate, BeginLogout, Logout
        <2>. QED  BY <1>2, <1>w, <2>1
    <1>5. ASSUME NEW w \in Web, ClaimRefresh(w) PROVE ClaimsSound'
        BY <1>2, <1>5, <1>w DEF ClaimRefresh
    <1>6. ASSUME NEW w \in Web, CallRefresh(w) PROVE ClaimsSound'
        <2>1. worker[w].pc = "refreshing" /\ worker[w] \in WorkerState
            BY <1>6, <1>w DEF CallRefresh, At, SessionInv, Typed
        <2>2. worker[w] \in [pc : Flying, lease : Nat, token : Nat]
            BY <2>1 DEF WorkerState, SigningOut
        <2>3. PICK state : /\ Goto(w, state)
                           /\ \/ state = [worker[w] EXCEPT !.pc = "refreshed",
                                                           !.token = upstream.token + 1]
                              \/ state = [worker[w] EXCEPT !.pc = "rejected"]
                              \/ state = [worker[w] EXCEPT !.pc = "unavailable"]
            BY <1>6 DEF CallRefresh
        <2>4. state.pc \in {"refreshed", "rejected", "unavailable"}
            BY <2>2, <2>3
        <2>. QED  BY <1>2, <1>w, <2>3, <2>4
    <1>7. ASSUME NEW w \in Web, Refreshing(w) PROVE ClaimsSound'
        <2>1. \/ Done(w) \/ EnterRefresh(w) \/ ClaimRefresh(w) \/ CallRefresh(w)
            BY <1>7 DEF Refreshing, EnterRefused, Follow, LeaveRefresh, PersistRefresh,
                        FinishRefresh
        <2>. QED  BY <1>3, <1>5, <1>6, <1>t, <1>w, <2>1, ClaimsEnter
    <1>8. ASSUME NEW w \in Revokers, ReadExpired(w) PROVE ClaimsSound'
        BY <1>2, <1>8, <1>w DEF ReadExpired
    <1>9. ASSUME NEW w \in Revokers, Reconcile(w) PROVE ClaimsSound'
        <2>1. Done(w) \/ Goto(w, [pc |-> "queued"])
            BY <1>9 DEF Reconcile, Done
        <2>. QED  BY <1>2, <1>3, <1>w, <2>1
    <1>10. ASSUME NEW w \in Workers, Revoking(w) \/ Crash(w) PROVE ClaimsSound'
        BY <1>3, <1>10, <1>t, ClaimsRevoking DEF Crash
    <1>11. Age \/ RetryDue \/ UNCHANGED sessionVars => worker' = worker
        BY DEF Age, RetryDue, sessionVars
    <1>. QED
        BY <1>1, <1>4, <1>7, <1>8, <1>9, <1>10, <1>11 DEF SessionNext

\* What a step is for the session: one of its life, or none.
LifeStep == Life!LifeNext \/ UNCHANGED Life!lifeVars

\* Rows in the same phase, with the same tokens.
SameLife(r, s) ==
    /\ r.token = s.token
    /\ r.confirmed = s.confirmed
    /\ r.abandoned = s.abandoned
    /\ r.revoked = s.revoked
    /\ r.revoked \/ r.expired = s.expired

\* Leases, attempts and due times are no part of the life.
LEMMA QuietStep ==
    ASSUME upstream' = upstream,
           \/ row' = row
           \/ Present /\ row' # None /\ SameLife(row, row')
    PROVE  LifeStep
    <1>1. Phase' = Phase /\ Stored' = Stored
        BY DEF Phase, Stored, Present, SameLife
    <1>. QED  BY <1>1 DEF LifeStep, Life!lifeVars

\* An exchange of a token that upstream accepts and that is no newer than the
\* stored one spends the stored one, or one as old.
LEMMA ExchangeStep ==
    ASSUME SessionInv, row' = row,
           NEW t \in Nat, Accepts(t), Rotate,
           Present => t <= row.token
    PROVE  LifeStep
    <1>1. /\ upstream.live
          /\ upstream'.live = upstream.live
          /\ upstream'.token = upstream.token + 1
          /\ upstream.token \in Nat
        BY DEF SessionInv, Typed, Accepts, Rotate
    <1>2. ASSUME Present
          PROVE  \/ row.token = upstream.token
                 \/ Grace /\ row.token + 1 = upstream.token
        <2>1. row.token \in Nat /\ row.token <= upstream.token /\ t <= row.token
            BY <1>2 DEF SessionInv, Typed, RowSound, Row, Present
        <2>. QED  BY <1>1, <2>1 DEF Accepts
    <1>3. Phase # "gone" => /\ Stored = row.token
                            /\ Present
        BY DEF Phase, Stored
    <1>4. Phase' = Phase /\ Stored' = Stored
        BY DEF Phase, Stored, Present
    <1>. QED  BY <1>1, <1>2, <1>3, <1>4 DEF LifeStep, Life!LifeNext, Life!Exchange

\* A newer token is stored.
LEMMA StoreStep ==
    ASSUME SessionInv, SessionInv', Present, row' # None, upstream' = upstream,
           Phase \in {"active", "ending"}, Phase' = Phase,
           row.token < row'.token
    PROVE  LifeStep
    <1>1. /\ row.token \in Nat /\ row'.token \in Nat /\ upstream.token \in Nat
          /\ row'.token <= upstream.token
        BY DEF SessionInv, Typed, RowSound, Row, Present
    <1>2. Stored = row.token /\ Stored' = row'.token
        BY DEF Stored, Present
    <1>. QED  BY <1>1, <1>2 DEF LifeStep, Life!LifeNext, Life!Store

\* mark_revocation ends a session in use, and leaves an ended one as it is.
LEMMA MarkStep ==
    ASSUME SessionInv, Present, NEW m \in Row, row' = Mark(m), upstream' = upstream
    PROVE  LifeStep
    <1>1. row \in Row /\ row' \in Row /\ row # None /\ row' # None
        BY MarkRow, RowAssumption DEF SessionInv, Typed, Present
    <1>2. /\ row' = row \/ row'.revoked
          /\ row.revoked => row'.revoked
          /\ row'.token = row.token
          /\ row'.confirmed = row.confirmed
          /\ row'.abandoned = row.abandoned
          /\ row'.expired = row.expired
        BY <1>1, MarkRow
    <1>3. CASE row' = row
        BY <1>3, QuietStep
    <1>4. CASE row.revoked
        <2>1. row.revoked = row'.revoked
            BY <1>1, <1>2, <1>4 DEF Row
        <2>. QED  BY <1>1, <1>2, <2>1, QuietStep DEF SameLife
    <1>5. CASE ~row.revoked /\ row'.revoked
        <2>1. ~row.confirmed /\ ~row.abandoned
            BY <1>5 DEF SessionInv, RowSound
        <2>2. Phase \in {"active", "expired"} /\ Phase' = "ending" /\ Stored' = Stored
            BY <1>1, <1>2, <1>5, <2>1 DEF Phase, Stored, Present
        <2>. QED  BY <2>2 DEF LifeStep, Life!LifeNext, Life!End, Life!InUse
    <1>. QED  BY <1>2, <1>3, <1>4, <1>5

\* Time.
LEMMA TimeLives ==
    ASSUME SessionInv, Age \/ RetryDue
    PROVE  LifeStep
    <1>1. /\ Present /\ row \in Row /\ upstream' = upstream
          /\ row.confirmed \/ row.abandoned => row.revoked
        BY DEF Age, RetryDue, SessionInv, Typed, RowSound, Present
    <1>2. CASE ~row.expired /\ row' = [row EXCEPT !.expired = TRUE]
        <2>1. /\ row' # None /\ row'.expired /\ row'.token = row.token
              /\ row'.revoked = row.revoked
              /\ row'.confirmed = row.confirmed /\ row'.abandoned = row.abandoned
            BY <1>1, <1>2, RowAssumption DEF Row
        <2>2. CASE row.revoked
            BY <1>1, <2>1, <2>2, QuietStep DEF SameLife
        <2>3. CASE ~row.revoked
            <3>1. Phase = "active" /\ Phase' = "expired" /\ Stored' = Stored
                BY <1>1, <1>2, <2>1, <2>3 DEF Phase, Stored, Present
            <3>. QED  BY <1>1, <3>1 DEF LifeStep, Life!LifeNext, Life!Expire
        <2>. QED  BY <2>2, <2>3
    <1>3. CASE \E a \in {"stale", "expired"} : row' = [row EXCEPT !.access = a]
        <2>1. row' # None /\ SameLife(row, row')
            BY <1>1, <1>3, RowAssumption DEF SameLife, Row
        <2>. QED  BY <1>1, <2>1, QuietStep
    <1>4. CASE row' = [row EXCEPT !.leaseLive = FALSE]
        <2>1. row' # None /\ SameLife(row, row')
            BY <1>1, <1>4, RowAssumption DEF SameLife, Row
        <2>. QED  BY <1>1, <2>1, QuietStep
    <1>5. CASE row' = [row EXCEPT !.next = "due"]
        <2>1. row' # None /\ SameLife(row, row')
            BY <1>1, <1>5, RowAssumption DEF SameLife, Row
        <2>. QED  BY <1>1, <2>1, QuietStep
    <1>. QED  BY <1>2, <1>3, <1>4, <1>5 DEF Age, RetryDue

\* A request refreshes.
LEMMA RefreshingLives ==
    ASSUME SessionInv, SessionInv', NEW w \in Web, Refreshing(w)
    PROVE  LifeStep
    <1>w. w \in Workers
        BY DEF Workers
    <1>n. ASSUME HoldsLease(w), worker[w].pc \in Flying
          PROVE  /\ Present /\ row \in Row /\ row.lease # None
                 /\ ~row.revoked /\ ~row.confirmed /\ ~row.abandoned
        <2>1. worker[w].lease # None
            BY <1>n, <1>w, WorkerFields, SessionAssumption DEF SessionInv, Typed
        <2>. QED  BY <1>n, <2>1 DEF HoldsLease, SessionInv, RowSound, Typed, Present
    <1>c. ASSUME Present, row \in Row
          PROVE  /\ ClearLease # None /\ SameLife(row, ClearLease)
                 /\ ClearLease.expired = row.expired
        BY <1>c, RowAssumption DEF ClearLease, SameLife, Row
    <1>1. CASE EnterRefresh(w) \/ EnterRefused(w) \/ Follow(w) \/ LeaveRefresh(w)
        BY <1>1, QuietStep DEF EnterRefresh, EnterRefused, Follow, LeaveRefresh
    <1>2. CASE ClaimRefresh(w)
        <2>1. /\ Present /\ row \in Row /\ upstream' = upstream
              /\ row' = [row EXCEPT !.lease = leases + 1, !.leaseLive = TRUE]
              /\ leases + 1 \in Nat
            BY <1>2 DEF ClaimRefresh, SessionInv, Typed, Present
        <2>2. row' # None /\ SameLife(row, row')
            BY <2>1, RowAssumption DEF SameLife, Row
        <2>. QED  BY <2>1, <2>2, QuietStep
    <1>3. CASE CallRefresh(w)
        <2>1. /\ worker[w].pc = "refreshing" /\ worker[w].token \in Nat
              /\ Present => worker[w].token <= row.token
            BY <1>3, <1>w, WorkerFields
            DEF CallRefresh, At, SessionInv, Typed, WorkersSound, FlightSound, Flying
        <2>2. /\ row' = row
              /\ upstream' = upstream \/ (Accepts(worker[w].token) /\ Rotate)
            BY <1>3 DEF CallRefresh
        <2>. QED  BY <2>1, <2>2, QuietStep, ExchangeStep
    <1>4. CASE PersistRefresh(w)
        <2>1. worker[w].pc = "refreshed" /\ worker[w].pc \in Flying /\ upstream' = upstream
            BY <1>4 DEF PersistRefresh, At, Flying
        <2>2. CASE ~HoldsLease(w)
            BY <1>4, <2>1, <2>2, QuietStep DEF PersistRefresh
        <2>3. CASE HoldsLease(w) /\ ~ValidModel
            BY <1>4, <1>c, <1>n, <2>1, <2>3, QuietStep DEF PersistRefresh
        <2>4. CASE HoldsLease(w) /\ ValidModel
            <3>1. row' = [ClearLease EXCEPT !.token = worker[w].token, !.access = "fresh"]
                BY <1>4, <2>4 DEF PersistRefresh
            <3>2. /\ row' # None /\ row'.token = worker[w].token
                  /\ ~row'.revoked /\ ~row'.confirmed /\ ~row'.abandoned /\ ~row'.expired
                <4>1. /\ row' = [row EXCEPT !.lease = None, !.leaseLive = FALSE,
                                            !.token = worker[w].token, !.access = "fresh"]
                      /\ row \in Row /\ worker[w].token \in Nat
                    BY <1>n, <1>w, <2>1, <2>4, <3>1, WorkerFields
                    DEF ClearLease, Row, SessionInv, Typed
                <4>. QED  BY <1>n, <2>1, <2>4, <4>1, RowAssumption DEF Row, ValidModel
            <3>3. row.token < row'.token
                BY <1>n, <1>w, <2>1, <2>4, <3>2
                DEF HoldsLease, SessionInv, WorkersSound, FlightSound
            <3>4. Phase = "active" /\ Phase' = "active"
                BY <1>n, <2>1, <2>4, <3>2 DEF Phase, Present, ValidModel
            <3>. QED  BY <1>n, <2>1, <2>4, <3>2, <3>3, <3>4, StoreStep
        <2>. QED  BY <2>2, <2>3, <2>4
    <1>5. CASE FinishRefresh(w)
        <2>1. worker[w].pc \in {"rejected", "unavailable"} /\ worker[w].pc \in Flying
            BY <1>5 DEF FinishRefresh, At, Flying
        <2>2. CASE row' = row
            BY <1>5, <2>2, QuietStep DEF FinishRefresh
        <2>3. CASE HoldsLease(w) /\ row' = Mark(row)
            BY <1>5, <1>n, <2>1, <2>3, MarkStep DEF FinishRefresh
        <2>4. CASE HoldsLease(w) /\ row' = ClearLease
            BY <1>5, <1>c, <1>n, <2>1, <2>4, QuietStep DEF FinishRefresh
        <2>. QED  BY <1>5, <2>2, <2>3, <2>4 DEF FinishRefresh
    <1>. QED  BY <1>1, <1>2, <1>3, <1>4, <1>5 DEF Refreshing

\* A request logs out, and a revoker reconciles.
LEMMA EndingLives ==
    ASSUME SessionInv,
           \/ \E w \in Web : Logout(w)
           \/ \E w \in Revokers : Reconcile(w)
    PROVE  LifeStep
    <1>1. ASSUME NEW w \in Web, Logout(w) PROVE LifeStep
        BY <1>1, QuietStep, MarkStep DEF Logout, SessionInv, Typed, Present
    <1>2. ASSUME NEW w \in Revokers, Reconcile(w) PROVE LifeStep
        <2>. DEFINE seen == worker[w].seen
                    marked == IF seen = None THEN row ELSE Mark(seen)
        <2>1. /\ seen \in Row \cup {None} /\ upstream' = upstream
            BY <1>2, WorkerFields DEF Reconcile, At, Workers, SessionInv, Typed
        <2>2. CASE row' = row
            BY <2>1, <2>2, QuietStep
        <2>3. CASE Present /\ row' = marked /\ row' # row
            BY <2>1, <2>3, MarkStep
        <2>4. CASE Present /\ Prunable(marked) /\ row' = None
            <3>1. row \in Row
                BY <2>4 DEF SessionInv, Typed, Present
            <3>2. marked.confirmed = row.confirmed /\ marked.abandoned = row.abandoned
                BY <2>1, <3>1, MarkRow
            <3>. HIDE DEF marked
            <3>3. row.confirmed \/ row.abandoned
                BY <2>4, <3>2 DEF Prunable
            <3>4. Phase \in {"signed_out", "given_up"} /\ Phase' = "gone" /\ Stored' = None
                BY <2>4, <3>3 DEF Phase, Stored, Present
            <3>. QED  BY <2>1, <3>4 DEF LifeStep, Life!LifeNext, Life!Forget
        <2>5. \/ row' = row
              \/ Present /\ row' = marked
              \/ Present /\ Prunable(marked) /\ row' = None
            BY <1>2 DEF Reconcile
        <2>. QED  BY <2>2, <2>3, <2>4, <2>5
    <1>. QED  BY <1>1, <1>2

\* A revoker or a request carries a logout upstream.
LEMMA RevokingLives ==
    ASSUME SessionInv, SessionInv', ClaimsSound, NEW w \in Workers, Revoking(w)
    PROVE  LifeStep
    <1>. DEFINE c == worker[w]
    <1>h. ASSUME HoldsClaim(w), c.pc \in SigningOut
          PROVE  /\ Present /\ row \in Row /\ Phase = "ending" /\ row.revoked
                 /\ ~row.confirmed /\ ~row.abandoned
                 /\ row.token <= c.token
                 /\ c.pc = "acknowledged" => ~upstream.live
        <2>1. SigningSound(w)
            BY DEF SessionInv, WorkersSound
        <2>. QED  BY <1>h, <2>1
                  DEF HoldsClaim, Terminal, Present, Phase, SigningSound, SessionInv, Typed
    <1>1. CASE row' = row /\ upstream' = upstream
        BY <1>1, QuietStep
    <1>2. CASE ClaimRevocation(w)
        <2>1. /\ Present /\ row \in Row /\ upstream' = upstream
              /\ row' = [row EXCEPT !.attempts = row.attempts + 1, !.next = "later"]
              /\ row.attempts + 1 \in Nat
            BY <1>2 DEF ClaimRevocation, Claimable, SessionInv, Typed, Present, Row
        <2>2. row' # None /\ SameLife(row, row')
            BY <2>1, RowAssumption DEF SameLife, Row
        <2>. QED  BY <2>1, <2>2, QuietStep
    <1>3. CASE ClaimUnreadable(w)
        <2>1. /\ Present /\ row \in Row /\ row.revoked /\ ~row.confirmed /\ ~row.abandoned
              /\ upstream' = upstream
              /\ row' = [row EXCEPT !.attempts = row.attempts + 1, !.next = "none",
                                    !.pending = FALSE, !.abandoned = TRUE]
              /\ row.attempts + 1 \in Nat
            BY <1>3 DEF ClaimUnreadable, Claimable, Terminal, SessionInv, Typed, Present, Row
        <2>2. row' # None /\ ~row'.confirmed /\ row'.abandoned /\ row'.token = row.token
            <3>1. row' \in Row
                BY <2>1 DEF Row
            <3>2. ~row'.confirmed /\ row'.abandoned /\ row'.token = row.token
                BY <2>1 DEF Row
            <3>. QED  BY <3>1, <3>2, RowAssumption
        <2>3. Phase = "ending" /\ Phase' = "given_up" /\ Stored' = Stored
            BY <2>1, <2>2 DEF Phase, Stored, Present
        <2>. QED  BY <2>1, <2>3 DEF LifeStep, Life!LifeNext, Life!Settle
    <1>4. CASE CallRotate(w)
        <2>1. /\ c.pc = "claimed" /\ ~c.refreshed /\ c.token \in Nat
              /\ row' = row
              /\ upstream' = upstream \/ (Accepts(c.token) /\ Rotate)
            BY <1>4, WorkerFields DEF CallRotate, At, SessionInv, Typed, SigningOut
        <2>2. Present => c.token <= row.token
            BY <2>1 DEF ClaimsSound, ClaimSound
        <2>. QED  BY <2>1, <2>2, QuietStep, ExchangeStep
    <1>5. CASE PersistRotation(w) /\ HoldsClaim(w)
        <2>1. /\ c.pc = "rotated" /\ c.pc \in SigningOut /\ upstream' = upstream
              /\ row' = [row EXCEPT !.token = c.token, !.access = "fresh"]
              /\ c.token \in Nat
            BY <1>5, WorkerFields DEF PersistRotation, At, SigningOut, SessionInv, Typed
        <2>2. /\ row' # None /\ row'.token = c.token /\ row'.revoked
              /\ row'.expired = row.expired
              /\ ~row'.confirmed /\ ~row'.abandoned
            BY <1>5, <1>h, <2>1, RowAssumption DEF Row
        <2>3. Phase' = "ending"
            BY <2>2 DEF Phase, Present
        <2>4. row.token \in Nat
            BY <1>5, <1>h, <2>1 DEF Row
        <2>5. CASE row.token = c.token
            BY <1>5, <1>h, <2>1, <2>2, <2>5, QuietStep DEF SameLife
        <2>6. CASE row.token < c.token
            BY <1>5, <1>h, <2>1, <2>2, <2>3, <2>6, StoreStep
        <2>. QED  BY <1>5, <1>h, <2>1, <2>4, <2>5, <2>6
    <1>6. CASE CallSignOut(w)
        <2>1. /\ c.pc = "claimed" /\ c.pc \in SigningOut /\ row' = row
              /\ upstream' = upstream \/ upstream' = [upstream EXCEPT !.live = FALSE]
            BY <1>6 DEF CallSignOut, At, SigningOut
        <2>2. Present => row.revoked
            BY <2>1 DEF SessionInv, WorkersSound, SigningSound
        <2>3. /\ Phase \notin {"active", "expired"}
              /\ Phase' = Phase /\ Stored' = Stored
            BY <2>1, <2>2 DEF Phase, Stored, Present
        <2>4. CASE upstream' = [upstream EXCEPT !.live = FALSE]
            <3>1. ~upstream'.live /\ upstream'.token = upstream.token
                BY <2>4 DEF SessionInv, Typed
            <3>2. upstream'.live = FALSE /\ (upstream.live \/ upstream.live = FALSE)
                BY <2>4 DEF SessionInv, Typed
            <3>. QED  BY <2>3, <3>1, <3>2
                      DEF LifeStep, Life!LifeNext, Life!SignOut, Life!InUse, Life!lifeVars
        <2>. QED  BY <2>1, <2>4, QuietStep
    <1>7. CASE (Confirm(w) \/ Abandon(w) \/ Defer(w)) /\ HoldsClaim(w)
        <2>1. c.pc \in {"acknowledged", "refused", "deferred"} /\ c.pc \in SigningOut
              /\ upstream' = upstream
            BY <1>7 DEF Confirm, Abandon, Defer, Conclude, At, SigningOut
        <2>2. CASE Confirm(w)
            <3>1. /\ c.pc = "acknowledged"
                  /\ row' = [row EXCEPT !.confirmed = TRUE, !.abandoned = FALSE,
                                        !.pending = FALSE, !.next = "none"]
                BY <1>7, <2>2 DEF Confirm, Conclude, At
            <3>2. row' # None /\ row'.confirmed /\ row'.token = row.token
                <4>1. row \in Row
                    BY <1>7, <1>h, <2>1
                <4>2. row' \in Row
                    BY <3>1, <4>1 DEF Row
                <4>3. row'.confirmed /\ row'.token = row.token
                    BY <3>1, <4>1 DEF Row
                <4>. QED  BY <4>2, <4>3, RowAssumption
            <3>3. Phase' = "signed_out" /\ Stored' = Stored
                BY <1>7, <1>h, <2>1, <3>2 DEF Phase, Stored, Present
            <3>. QED  BY <1>7, <1>h, <2>1, <3>1, <3>3 DEF LifeStep, Life!LifeNext, Life!Settle
        <2>3. CASE Abandon(w)
            <3>1. row' = [row EXCEPT !.abandoned = TRUE, !.pending = FALSE, !.next = "none"]
                BY <1>7, <2>3 DEF Abandon, Conclude
            <3>2. row' # None /\ row'.abandoned /\ ~row'.confirmed /\ row'.token = row.token
                <4>1. row \in Row /\ ~row.confirmed
                    BY <1>7, <1>h, <2>1
                <4>2. row' \in Row
                    BY <3>1, <4>1 DEF Row
                <4>3. row'.abandoned /\ ~row'.confirmed /\ row'.token = row.token
                    BY <3>1, <4>1 DEF Row
                <4>. QED  BY <4>2, <4>3, RowAssumption
            <3>3. Phase' = "given_up" /\ Stored' = Stored
                BY <1>7, <1>h, <2>1, <3>2 DEF Phase, Stored, Present
            <3>. QED  BY <1>7, <1>h, <2>1, <3>3 DEF LifeStep, Life!LifeNext, Life!Settle
        <2>4. CASE Defer(w)
            <3>1. row' = [row EXCEPT !.pending = TRUE, !.next = "later"]
                BY <1>7, <2>4 DEF Defer, Conclude
            <3>2. row' # None /\ SameLife(row, row')
                <4>1. row \in Row
                    BY <1>7, <1>h, <2>1
                <4>2. row' \in Row
                    BY <3>1, <4>1 DEF Row
                <4>3. SameLife(row, row')
                    BY <3>1, <4>1 DEF Row, SameLife
                <4>. QED  BY <4>2, <4>3, RowAssumption
            <3>. QED  BY <1>7, <1>h, <2>1, <3>2, QuietStep
        <2>. QED  BY <1>7, <2>2, <2>3, <2>4
    <1>. QED
        BY <1>1, <1>2, <1>3, <1>4, <1>5, <1>6, <1>7
        DEF Revoking, LeaveRevocation, PersistRotation, Confirm, Abandon, Defer, Conclude

\* Every step of the replicas and revokers is a step of the session's life,
\* or none.
LEMMA SessionLives ==
    ASSUME SessionInv, SessionInv', ClaimsSound, [SessionNext]_sessionVars
    PROVE  LifeStep
    <1>1. CASE UNCHANGED sessionVars
        BY <1>1, QuietStep DEF sessionVars
    <1>2. CASE Age \/ RetryDue
        BY <1>2, TimeLives
    <1>3. ASSUME NEW w \in Web, Authenticate(w) \/ BeginLogout(w) PROVE LifeStep
        BY <1>3, QuietStep DEF Authenticate, BeginLogout
    <1>4. ASSUME NEW w \in Web, Refreshing(w) PROVE LifeStep
        BY <1>4, RefreshingLives
    <1>5. CASE \/ \E w \in Web : Logout(w)
               \/ \E w \in Revokers : Reconcile(w)
        BY <1>5, EndingLives
    <1>6. ASSUME NEW w \in Revokers, ReadExpired(w) PROVE LifeStep
        BY <1>6, QuietStep DEF ReadExpired
    <1>7. ASSUME NEW w \in Workers, Revoking(w) PROVE LifeStep
        BY <1>7, RevokingLives
    <1>8. ASSUME NEW w \in Workers, Crash(w) PROVE LifeStep
        BY <1>8, QuietStep DEF Crash
    <1>. QED  BY <1>1, <1>2, <1>3, <1>4, <1>5, <1>6, <1>7, <1>8 DEF SessionNext

LEMMA SessionInitLives == SessionInit => Life!LifeInit
    <1>. SUFFICES ASSUME SessionInit PROVE Life!LifeInit
        OBVIOUS
    <1>1. row \in Row
        BY DEF SessionInit, Row
    <1>2. row # None
        BY <1>1, RowAssumption
    <1>. QED  BY <1>2 DEF SessionInit, Life!LifeInit, Phase, Stored, Present

\* ImplementsLife: replicas with leases that run out, late answers, crashes
\* and revokers that take over from each other give a session one life: no
\* refresh token is spent when a newer one is stored, no session in use is
\* signed out upstream, and its end is settled once.
THEOREM SessionLivesOnce == SessionSpec => ImplementsLife
    <1>1. SessionInit => ClaimsSound
        BY DEF SessionInit, Idle, ClaimsSound, ClaimSound
    <1>2. SessionInv /\ ClaimsSound /\ [SessionNext]_sessionVars => ClaimsSound'
        BY ClaimsStep
    <1>3. SessionInv /\ SessionInv' /\ ClaimsSound /\ [SessionNext]_sessionVars
             => [Life!LifeNext]_(Life!lifeVars)
        BY SessionLives DEF LifeStep
    <1>. QED  BY <1>1, <1>2, <1>3, SessionInitLives, SessionAlways, PTL
              DEF SessionSpec, ImplementsLife, Life!LifeSpec

\* What follows for the replicas, from the life alone.
LifeInv ==
    /\ upstream.token \in Nat /\ upstream.live \in BOOLEAN
    /\ Phase # "gone" => Stored \in Nat
    /\ Life!LifeIsSound

LEMMA LifeInvInit == Life!LifeInit => LifeInv
    <1>. SUFFICES ASSUME Life!LifeInit
                  PROVE  LifeInv
        OBVIOUS
    <1>1. /\ upstream.live = TRUE /\ upstream.token = 0
          /\ Phase = "active" /\ Stored = 0
        BY DEF Life!LifeInit
    <1>2. upstream.live /\ upstream.live \in BOOLEAN
        BY <1>1
    <1>3. Stored <= upstream.token /\ upstream.token <= Stored + (IF Grace THEN 2 ELSE 1)
        BY <1>1
    <1>. QED  BY <1>1, <1>2, <1>3 DEF LifeInv, Life!LifeIsSound, Life!InUse

LEMMA LifeInvStep == LifeInv /\ [Life!LifeNext]_(Life!lifeVars) => LifeInv'
    <1>. SUFFICES ASSUME LifeInv, [Life!LifeNext]_(Life!lifeVars)
                  PROVE  LifeInv'
        OBVIOUS
    <1>. USE DEF LifeInv, Life!LifeIsSound, Life!InUse
    <1>1. CASE UNCHANGED Life!lifeVars
        BY <1>1 DEF Life!lifeVars
    <1>2. CASE Life!Expire
        BY <1>2 DEF Life!Expire
    <1>3. CASE Life!Exchange
        BY <1>3 DEF Life!Exchange
    <1>4. CASE Life!Store
        BY <1>4 DEF Life!Store
    <1>5. CASE Life!End
        BY <1>5 DEF Life!End
    <1>6. CASE Life!SignOut
        BY <1>6 DEF Life!SignOut
    <1>7. CASE Life!Settle
        BY <1>7 DEF Life!Settle
    <1>8. CASE Life!Forget
        BY <1>8 DEF Life!Forget
    <1>. QED  BY <1>1, <1>2, <1>3, <1>4, <1>5, <1>6, <1>7, <1>8 DEF Life!LifeNext

\* LifeIsSound: while the row is kept, upstream is at most one exchange with a
\* lost answer ahead of the stored token, or two if it grants a grace; the
\* session exists upstream while it is in use, and not when its logout is
\* reported as confirmed.
THEOREM SessionStaysSound == SessionSpec => []Life!LifeIsSound
    <1>1. LifeInv => Life!LifeIsSound
        BY DEF LifeInv
    <1>. QED  BY <1>1, LifeInvInit, LifeInvStep, SessionLivesOnce, PTL
              DEF ImplementsLife, Life!LifeSpec

-----------------------------------------------------------------------------
(* The sockets of the sessions.                                            *)

Sockets == {c \in Conns : Served(c)}
SocketsOf(o) == {c \in Sockets : Owner(c) = o}

\* A page holds a connection that is its own.
PagesHold ==
    \A t \in Tabs : Current(t) # NoConn =>
        conn[Current(t)] # Unused /\ conn[Current(t)].tab = t

\* There may be any number of connections; those that are served are finitely
\* many.
SocketsInv ==
    /\ InvTypeOK
    /\ PagesHold
    /\ IsFiniteSet(Sockets)
    /\ PermitsMatchSockets

\* How a step changes connections: not at all; a new one begins; one goes on,
\* with its frames and its place in the channel; one is no longer served, with
\* its permit released; or one that is no longer served is dropped by its page.
Begins(t) ==
    \E c \in Conns :
        /\ conn[c] = Unused
        /\ conn' = [conn EXCEPT ![c] = Upgrading(t)]
        /\ tab' = [tab EXCEPT ![t].conn = c]
        /\ counts.total < MaxPerInstance
        /\ counts.of[OwnerOf[t]] < MaxPerUser
        /\ counts' = [counts EXCEPT !.total = @ + 1, !.of[OwnerOf[t]] = @ + 1]

GoesOn(c) ==
    \E new \in Connection :
        /\ conn[c] # Unused
        /\ new.tab = conn[c].tab
        /\ new.pos <= Len(channel)
        /\ new.pc \in {"upgrading", "open"} <=> Served(c)
        /\ conn' = [conn EXCEPT ![c] = new]
        /\ counts' = counts

Ends(c) ==
    /\ Served(c)
    /\ \E new \in Connection \cup {Unused} :
          /\ new = Unused => ~Held(c)
          /\ new # Unused => /\ new.tab = conn[c].tab
                             /\ new.pos <= Len(channel)
                             /\ new.pc = "ended"
          /\ conn' = [conn EXCEPT ![c] = new]
    /\ counts' = Released(c)

GoesAway(t) ==
    /\ Current(t) # NoConn
    /\ Current(t) \in Conns
    /\ conn' = Dropped(Current(t))
    /\ counts' = counts
    /\ \E new \in {"live", "cleared"} :
          tab' = [tab EXCEPT ![t].pc = new, ![t].conn = NoConn]

Pages == [Tabs -> [pc : {"live", "cleared"}, conn : Conns \cup {NoConn},
                   wake : BOOLEAN, asked : Nat]]

PagesStay ==
    /\ tab' \in Pages
    /\ \A t \in Tabs : tab'[t].conn = tab[t].conn

\* The parts of a connection.
LEMMA ConnTyped ==
    ASSUME InvTypeOK, NEW c \in Conns, conn[c] # Unused
    PROVE  /\ conn[c] \in Connection
           /\ conn[c].tab \in Tabs /\ Owner(c) \in Owners
           /\ conn[c].frames \in Seq({"wake", "ping", "close"})
           /\ conn[c].pos \in Nat /\ conn[c].pos <= Len(channel)
           /\ conn[c].linked \in BOOLEAN
    BY InvalidationsAssumption DEF InvTypeOK, Connection, Owner

\* What is not a connection is not served.
LEMMA UnusedNotServed ==
    ASSUME NEW c \in Conns, Served(c)
    PROVE  conn[c] # Unused
    BY DEF Served, Unused

LEMMA FramesTyped ==
    ASSUME InvTypeOK, NEW c \in Conns, conn[c] # Unused
    PROVE  /\ Write(c, "wake") \in Seq({"wake", "ping", "close"})
           /\ Write(c, "ping") \in Seq({"wake", "ping", "close"})
           /\ conn[c].frames \o <<"close">> \in Seq({"wake", "ping", "close"})
           /\ conn[c].frames \o << >> \in Seq({"wake", "ping", "close"})
           /\ conn[c].frames # << >> => /\ Tail(conn[c].frames) \in Seq({"wake", "ping", "close"})
                                        /\ Head(conn[c].frames) \in {"wake", "ping", "close"}
    <1>1. conn[c].frames \in Seq({"wake", "ping", "close"})
        BY ConnTyped
    <1>. QED  BY <1>1 DEF Write

\* A record of a connection with other parts.
LEMMA ConnectionMade ==
    ASSUME NEW r \in Connection, NEW p \in {"upgrading", "open", "ended"}, NEW n \in Nat,
           NEW h \in {"none", "waiting", "overdue"}, NEW b \in BOOLEAN, NEW l \in BOOLEAN,
           NEW f \in Seq({"wake", "ping", "close"})
    PROVE  /\ [r EXCEPT !.pc = p, !.pos = n] \in Connection
           /\ [r EXCEPT !.pos = n, !.frames = f] \in Connection
           /\ [r EXCEPT !.challenge = h, !.frames = f] \in Connection
           /\ [r EXCEPT !.challenge = h] \in Connection
           /\ [r EXCEPT !.pong = b, !.challenge = h] \in Connection
           /\ [r EXCEPT !.pc = p, !.frames = f] \in Connection
           /\ [r EXCEPT !.linked = l, !.frames = f, !.pong = b] \in Connection
           /\ [r EXCEPT !.frames = f] \in Connection
           /\ [[r EXCEPT !.frames = f] EXCEPT !.pong = b] \in Connection
    BY DEF Connection

LEMMA EndedEnds ==
    ASSUME InvTypeOK, NEW c \in Conns, Served(c), NEW last \in {<<"close">>, << >>},
           Ended(c, last)
    PROVE  Ends(c)
    <1>. DEFINE r == conn[c]
                frames == IF conn[c].linked THEN conn[c].frames \o last ELSE conn[c].frames
                new == [r EXCEPT !.pc = "ended", !.frames = frames]
    <1>1. r \in Connection /\ r # Unused
        BY UnusedNotServed, ConnTyped
    <1>2. /\ r.frames \in Seq({"wake", "ping", "close"})
          /\ r.frames \o last \in Seq({"wake", "ping", "close"})
        BY <1>1, FramesTyped, ConnTyped
    <1>3. new \in Connection /\ new.tab = r.tab /\ new.pos = r.pos /\ new.pc = "ended"
        BY <1>1, <1>2 DEF Connection
    <1>4. r.pos <= Len(channel)
        BY <1>1, ConnTyped
    <1>5. new # Unused
        BY <1>3 DEF Unused
    <1>6. conn' = [conn EXCEPT ![c] = IF Held(c) THEN new ELSE Unused] /\ counts' = Released(c)
        BY DEF Ended
    <1>. HIDE DEF new
    <1>. QED  BY <1>3, <1>4, <1>5, <1>6 DEF Ends

LEMMA ConnectionSteps ==
    ASSUME InvTypeOK, PagesHold, [InvNext]_invVars
    PROVE  \/ UNCHANGED <<conn, counts>> /\ PagesStay
           \/ \E t \in Tabs : Begins(t)
           \/ \E c \in Conns : GoesOn(c) /\ PagesStay
           \/ \E c \in Conns : Ends(c) /\ tab' = tab
           \/ \E t \in Tabs : GoesAway(t)
    <1>c. \A c \in Conns : conn[c] # Unused => conn[c] \in Connection
        BY ConnTyped
    <1>f. conn \in [Conns -> {Unused} \cup Connection] /\ Len(channel) \in Nat
        BY DEF InvTypeOK
    <1>s. ASSUME tab' = tab PROVE PagesStay
        BY <1>s DEF PagesStay, Pages, InvTypeOK
    <1>1. CASE UNCHANGED invVars
        BY <1>1, <1>s DEF invVars
    <1>2. CASE \/ \E o \in Owners, own \in BOOLEAN : Commit(o, own)
               \/ Invalidate \/ Relay \/ Relisten
               \/ \E o \in Owners : SessionEnds(o)
        BY <1>2, <1>s DEF Commit, Invalidate, Relay, Relisten, SessionEnds
    <1>3. ASSUME NEW t \in Tabs, Pull(t) \/ Poll(t)
          PROVE  UNCHANGED <<conn, counts>> /\ PagesStay
        <2>1. tab \in Pages /\ clock[OwnerOf[t]] \in Nat
            BY InvalidationsAssumption DEF InvTypeOK, Pages
        <2>2. CASE Pull(t)
            BY <2>1, <2>2 DEF Pull, PagesStay, Pages
        <2>3. CASE Poll(t)
            BY <2>1, <2>3 DEF Poll, PagesStay, Pages
        <2>. QED  BY <1>3, <2>2, <2>3
    <1>4. ASSUME NEW t \in Tabs, Upgrade(t) PROVE Begins(t)
        <2>. DEFINE Free == {c \in Conns : conn[c] = Unused}
                    c == CHOOSE c \in Free : TRUE
        <2>1. c \in Free
            BY <1>4 DEF Upgrade
        <2>. QED  BY <1>4, <2>1 DEF Upgrade, Begins
    <1>5. ASSUME NEW c \in Conns, Subscribe(c) PROVE GoesOn(c) /\ PagesStay
        <2>. DEFINE new == [conn[c] EXCEPT !.pc = "open", !.pos = Len(channel)]
        <2>1. conn[c] # Unused /\ Served(c)
            BY <1>5 DEF Subscribe, Served, Unused
        <2>2. new \in Connection
            BY <1>c, <1>f, <2>1, ConnectionMade, ConnTyped
        <2>3. conn' = [conn EXCEPT ![c] = new]
            BY <1>5, <1>f DEF Subscribe
        <2>4. new.tab = conn[c].tab /\ new.pos = Len(channel) /\ new.pc = "open"
            BY <1>c, <2>1 DEF Connection
        <2>. HIDE DEF new
        <2>5. counts' = counts /\ PagesStay
            BY <1>5, <1>s DEF Subscribe
        <2>6. new.pos <= Len(channel)
            BY <1>f, <2>4
        <2>. QED  BY <2>1, <2>2, <2>3, <2>4, <2>5, <2>6 DEF GoesOn
    <1>6. ASSUME NEW c \in Conns, Receive(c) PROVE GoesOn(c) /\ PagesStay
        <2>. DEFINE lagged == Len(channel) - conn[c].pos > Capacity
                    pos == IF lagged THEN Len(channel) - Capacity ELSE conn[c].pos + 1
                    frames == IF lagged \/ channel[conn[c].pos + 1].owner = Owner(c)
                              THEN Write(c, "wake") ELSE conn[c].frames
                    new == [conn[c] EXCEPT !.pos = pos, !.frames = frames]
        <2>1. /\ conn[c] # Unused /\ conn[c].pc = "open" /\ Served(c)
              /\ conn[c].pos < Len(channel)
            BY <1>6 DEF Receive, Served, Unused
        <2>2. conn[c] \in Connection /\ conn[c].pos \in Nat
            BY <2>1, ConnTyped
        <2>3. pos \in Nat /\ pos <= Len(channel)
            BY <1>f, <2>1, <2>2, InvalidationsAssumption
        <2>4. frames \in Seq({"wake", "ping", "close"})
            BY <2>1, FramesTyped, ConnTyped
        <2>5. conn' = [conn EXCEPT ![c] = new]
            BY <1>6, <1>f DEF Receive
        <2>. HIDE DEF lagged, pos, frames
        <2>6. new \in Connection
            BY <2>2, <2>3, <2>4, ConnectionMade
        <2>7. new.tab = conn[c].tab /\ new.pos = pos /\ new.pc = "open"
            BY <2>1, <2>2 DEF Connection
        <2>. HIDE DEF new
        <2>. QED  BY <1>6, <1>s, <2>1, <2>3, <2>5, <2>6, <2>7 DEF Receive, GoesOn
    <1>7. ASSUME NEW c \in Conns,
                 Tick(c) \/ TickFails(c) \/ PongTimeout(c) \/ Broken(c)
          PROVE  (GoesOn(c) \/ Ends(c)) /\ tab' = tab
        <2>1. tab' = tab
            BY <1>7 DEF Tick, TickFails, PongTimeout, Broken
        <2>2. CASE Ended(c, <<"close">>) \/ Ended(c, << >>)
            <3>1. Served(c)
                BY <1>7 DEF Tick, TickFails, PongTimeout, Broken, Served
            <3>. QED  BY <2>1, <2>2, <3>1, EndedEnds
        <2>3. CASE ~Ended(c, <<"close">>) /\ ~Ended(c, << >>)
            <3>. DEFINE new == [conn[c] EXCEPT !.challenge = "waiting", !.frames = Write(c, "ping")]
            <3>1. /\ conn[c].pc = "open"
                  /\ conn' = [conn EXCEPT ![c] = new]
                  /\ counts' = counts
                BY <1>7, <1>f, <2>3 DEF Tick, TickFails, PongTimeout, Broken
            <3>2. conn[c] # Unused /\ Served(c) /\ conn[c] \in Connection
                BY <1>c, <3>1 DEF Unused, Served
            <3>3. new \in Connection
                BY <3>2, ConnectionMade, FramesTyped
            <3>4. new.tab = conn[c].tab /\ new.pos = conn[c].pos /\ new.pc = "open"
                BY <3>1, <3>2 DEF Connection
            <3>. HIDE DEF new
            <3>. QED  BY <2>1, <3>1, <3>2, <3>3, <3>4, ConnTyped DEF GoesOn
        <2>. QED  BY <2>2, <2>3
    <1>8. ASSUME NEW c \in Conns, Overdue(c) \/ Acknowledge(c) PROVE GoesOn(c) /\ PagesStay
        <2>1. conn[c].pc = "open" /\ conn[c] # Unused /\ Served(c) /\ conn[c] \in Connection
            BY <1>8, <1>c DEF Overdue, Acknowledge, Unused, Served
        <2>2. \E new \in {[conn[c] EXCEPT !.challenge = "overdue"],
                          [conn[c] EXCEPT !.pong = FALSE, !.challenge = "none"]} :
                  conn' = [conn EXCEPT ![c] = new]
            BY <1>8, <1>f DEF Overdue, Acknowledge
        <2>3. PICK new \in {[conn[c] EXCEPT !.challenge = "overdue"],
                            [conn[c] EXCEPT !.pong = FALSE, !.challenge = "none"]} :
                  conn' = [conn EXCEPT ![c] = new]
            BY <2>2
        <2>4. new \in Connection
            <3>1. /\ [conn[c] EXCEPT !.challenge = "overdue"] \in Connection
                  /\ [conn[c] EXCEPT !.pong = FALSE, !.challenge = "none"] \in Connection
                BY <2>1 DEF Connection
            <3>. QED  BY <2>3, <3>1
        <2>5. new.tab = conn[c].tab /\ new.pos = conn[c].pos /\ new.pc = "open"
            BY <2>1, <2>3 DEF Connection
        <2>. QED  BY <1>8, <1>s, <2>1, <2>3, <2>4, <2>5, ConnTyped DEF Overdue, Acknowledge, GoesOn
    <1>9. ASSUME NEW c \in Conns, LinkBreaks(c) PROVE GoesOn(c) /\ PagesStay
        <2>. DEFINE new == [conn[c] EXCEPT !.linked = FALSE, !.frames = << >>, !.pong = FALSE]
        <2>1. conn[c] # Unused /\ conn[c] \in Connection
            BY <1>9, <1>c DEF LinkBreaks
        <2>2. conn' = [conn EXCEPT ![c] = new]
            BY <1>9, <1>f DEF LinkBreaks
        <2>3. << >> \in Seq({"wake", "ping", "close"})
            OBVIOUS
        <2>4. new \in Connection
            BY <2>1, <2>3, ConnectionMade
        <2>5. new.tab = conn[c].tab /\ new.pos = conn[c].pos /\ new.pc = conn[c].pc
            BY <2>1 DEF Connection
        <2>. HIDE DEF new
        <2>. QED  BY <1>9, <1>s, <2>1, <2>2, <2>4, <2>5, ConnTyped DEF LinkBreaks, GoesOn, Served
    <1>10. ASSUME NEW t \in Tabs, Reconnecting(t) PROVE GoesAway(t)
        <2>1. /\ Current(t) # NoConn /\ conn' = Dropped(Current(t)) /\ counts' = counts
              /\ tab' = [tab EXCEPT ![t].conn = NoConn]
            BY <1>10 DEF Reconnecting
        <2>2. Current(t) \in Conns /\ tab[t].pc \in {"live", "cleared"}
            BY <2>1 DEF InvTypeOK, Current
        <2>3. tab' = [tab EXCEPT ![t].pc = tab[t].pc, ![t].conn = NoConn]
            BY <2>1 DEF InvTypeOK
        <2>. QED  BY <2>1, <2>2, <2>3 DEF GoesAway
    <1>11. ASSUME NEW t \in Tabs, ReadFrame(t)
           PROVE  GoesAway(t) \/ \E c \in Conns : GoesOn(c) /\ PagesStay
        <2>. DEFINE c == Current(t)
                    one == [conn[c] EXCEPT !.frames = Tail(conn[c].frames)]
                    two == [one EXCEPT !.pong = TRUE]
        <2>1. c # NoConn /\ conn[c].frames # << >> /\ counts' = counts
            BY <1>11 DEF ReadFrame
        <2>2. c \in Conns /\ conn[c] # Unused /\ conn[c] \in Connection
            BY <1>c, <2>1 DEF InvTypeOK, Current, PagesHold
        <2>3. /\ Tail(conn[c].frames) \in Seq({"wake", "ping", "close"})
              /\ Head(conn[c].frames) \in {"wake", "ping", "close"}
            BY <2>1, <2>2, FramesTyped
        <2>4. one \in Connection /\ two \in Connection
            BY <2>2, <2>3, ConnectionMade
        <2>5. /\ one.tab = conn[c].tab /\ one.pos = conn[c].pos /\ one.pc = conn[c].pc
              /\ two.tab = conn[c].tab /\ two.pos = conn[c].pos /\ two.pc = conn[c].pc
            BY <2>2 DEF Connection
        <2>6. CASE Head(conn[c].frames) = "wake"
            <3>1. conn' = [conn EXCEPT ![c] = one] /\ tab' = [tab EXCEPT ![t].wake = TRUE]
                BY <1>11, <1>f, <2>2, <2>6 DEF ReadFrame
            <3>2. PagesStay
                <4>1. tab \in Pages
                    BY DEF InvTypeOK, Pages
                <4>. QED  BY <3>1, <4>1 DEF PagesStay, Pages
            <3>. HIDE DEF one, two, c
            <3>. QED  BY <2>1, <2>2, <2>4, <2>5, <3>1, <3>2, ConnTyped DEF GoesOn, Served
        <2>7. CASE Head(conn[c].frames) = "ping"
            <3>1. conn' = [[conn EXCEPT ![c].frames = Tail(@)] EXCEPT ![c].pong = TRUE]
                      /\ tab' = tab
                BY <1>11, <2>7 DEF ReadFrame
            <3>2. conn' = [conn EXCEPT ![c] = two]
                BY <1>f, <2>2, <3>1
            <3>3. PagesStay
                BY <1>s, <3>1
            <3>. HIDE DEF one, two, c
            <3>. QED  BY <2>1, <2>2, <2>4, <2>5, <3>2, <3>3, ConnTyped DEF GoesOn, Served
        <2>8. CASE Head(conn[c].frames) = "close"
            <3>1. /\ tab' = [tab EXCEPT ![t].pc = "cleared", ![t].conn = NoConn]
                  /\ conn' = Dropped(c)
                BY <1>11, <2>8 DEF ReadFrame
            <3>. QED  BY <2>1, <2>2, <3>1 DEF GoesAway
        <2>. QED  BY <2>3, <2>6, <2>7, <2>8
    <1>. QED
        BY <1>1, <1>2, <1>3, <1>4, <1>5, <1>6, <1>7, <1>8, <1>9, <1>10, <1>11, <1>s
        DEF InvNext, Serving

\* The hub, the backplane and the sessions by themselves.
Notice == [own : BOOLEAN, event : Invalidation]

HubTyped ==
    /\ clock \in [Owners -> 0..MaxCommits]
    /\ sessions \subseteq Owners
    /\ bus \in Seq(Notice)
    /\ unsent \subseteq Invalidation
    /\ channel \in Seq(Invalidation)

\* The channel only grows.
LEMMA HubStep ==
    ASSUME HubTyped, [InvNext]_invVars
    PROVE  /\ HubTyped'
           /\ Len(channel) \in Nat /\ Len(channel') \in Nat /\ Len(channel) <= Len(channel')
    <1>0. channel \in Seq(Invalidation) /\ bus \in Seq(Notice)
        BY DEF HubTyped
    <1>l. Len(channel) \in Nat
        BY <1>0
    <1>1. ASSUME NEW o \in Owners, NEW own \in BOOLEAN, Commit(o, own)
          PROVE  HubTyped' /\ channel' = channel
        <2>. DEFINE e == [owner |-> o, cursor |-> clock[o] + 1]
        <2>1. clock[o] \in 0..MaxCommits /\ clock[o] < MaxCommits
            BY <1>1 DEF Commit, HubTyped
        <2>2. e \in Invalidation /\ clock[o] + 1 \in 0..MaxCommits
            BY <2>1, InvalidationsAssumption DEF Invalidation
        <2>3. clock' \in [Owners -> 0..MaxCommits]
            BY <1>1, <2>2 DEF Commit, HubTyped
        <2>4. /\ bus' = Append(bus, [own |-> own, event |-> e])
              /\ unsent' \in {unsent, unsent \cup {e}}
              /\ sessions' = sessions /\ channel' = channel
            BY <1>1 DEF Commit
        <2>. HIDE DEF e
        <2>5. [own |-> own, event |-> e] \in Notice
            BY <2>2 DEF Notice
        <2>6. bus' \in Seq(Notice)
            BY <1>0, <2>4, <2>5, AppendProperties
        <2>. QED  BY <2>2, <2>3, <2>4, <2>6 DEF HubTyped
    <1>2. ASSUME NEW e \in Invalidation, Send(e) \/ channel' = channel
          PROVE  channel' \in Seq(Invalidation) /\ Len(channel') \in {Len(channel), Len(channel) + 1}
        <2>1. CASE Send(e)
            BY <1>0, <1>2, <2>1, AppendProperties DEF Send
        <2>2. CASE channel' = channel
            BY <1>0, <2>2
        <2>. QED  BY <1>2, <2>1, <2>2
    <1>3. CASE Invalidate
        <2>1. PICK e \in unsent : /\ unsent' = unsent \ {e}
                                  /\ Send(e) \/ channel' = channel
                                  /\ UNCHANGED <<clock, sessions, bus>>
            BY <1>3 DEF Invalidate
        <2>2. e \in Invalidation
            BY DEF HubTyped
        <2>3. channel' \in Seq(Invalidation) /\ Len(channel') \in {Len(channel), Len(channel) + 1}
            BY <1>2, <2>1, <2>2
        <2>. QED  BY <1>l, <2>1, <2>3 DEF HubTyped
    <1>4. CASE Relay
        <2>1. bus # << >>
            BY <1>4 DEF Relay
        <2>2. Head(bus) \in Notice /\ Tail(bus) \in Seq(Notice)
            BY <1>0, <2>1, HeadTailProperties
        <2>3. Head(bus).event \in Invalidation
            BY <2>2 DEF Notice
        <2>4. /\ Send(Head(bus).event) \/ channel' = channel
              /\ bus' = Tail(bus) /\ UNCHANGED <<clock, sessions, unsent>>
            BY <1>4 DEF Relay
        <2>5. channel' \in Seq(Invalidation) /\ Len(channel') \in {Len(channel), Len(channel) + 1}
            BY <1>2, <2>3, <2>4
        <2>. QED  BY <1>l, <2>2, <2>4, <2>5 DEF HubTyped
    <1>5. CASE Relisten \/ \E o \in Owners : SessionEnds(o)
        <2>1. /\ UNCHANGED <<clock, unsent, channel>>
              /\ sessions' \subseteq sessions
              /\ bus' \in {bus, << >>}
            BY <1>5 DEF Relisten, SessionEnds, hubVars
        <2>2. << >> \in Seq(Notice)
            OBVIOUS
        <2>3. bus' \in Seq(Notice)
            BY <1>0, <2>1, <2>2
        <2>. QED  BY <1>0, <1>l, <2>1, <2>3 DEF HubTyped
    <1>6. CASE UNCHANGED <<clock, sessions, hubVars>>
        BY <1>0, <1>l, <1>6 DEF HubTyped, hubVars
    <1>7. ASSUME NEW c \in Conns, Serving(c) \/ Broken(c) \/ LinkBreaks(c)
          PROVE  UNCHANGED <<clock, sessions, hubVars>>
        BY <1>7 DEF Serving, Subscribe, Receive, Tick, TickFails, Overdue, PongTimeout,
                    Acknowledge, Broken, LinkBreaks
    <1>8. ASSUME NEW t \in Tabs,
                 Upgrade(t) \/ Reconnecting(t) \/ ReadFrame(t) \/ Pull(t) \/ Poll(t)
          PROVE  UNCHANGED <<clock, sessions, hubVars>>
        BY <1>8 DEF Upgrade, Reconnecting, ReadFrame, Pull, Poll
    <1>9. UNCHANGED invVars => UNCHANGED <<clock, sessions, hubVars>>
        BY DEF invVars
    <1>. QED
        BY <1>l, <1>1, <1>3, <1>4, <1>5, <1>6, <1>7, <1>8, <1>9 DEF InvNext

\* Types, and the connections that the pages hold.
LEMMA SocketsTyped == InvTypeOK /\ PagesHold /\ [InvNext]_invVars => InvTypeOK' /\ PagesHold'
    <1>. SUFFICES ASSUME InvTypeOK, PagesHold, [InvNext]_invVars
                  PROVE  InvTypeOK' /\ PagesHold'
        OBVIOUS
    <1>o. /\ OwnerOf \in [Tabs -> Owners] /\ NoConn \notin Conns
        BY InvalidationsAssumption
    <1>t. /\ conn \in [Conns -> {Unused} \cup Connection]
          /\ \A c \in Conns : conn[c] # Unused => conn[c].pos \in Nat /\ conn[c].pos <= Len(channel)
          /\ counts.total \in Nat /\ counts.of \in [Owners -> Nat]
          /\ counts = [total |-> counts.total, of |-> counts.of]
          /\ tab \in Pages
        BY ConnTyped DEF InvTypeOK, Pages
    <1>h. /\ HubTyped'
          /\ Len(channel) \in Nat /\ Len(channel') \in Nat /\ Len(channel) <= Len(channel')
        BY HubStep DEF InvTypeOK, HubTyped, Notice
    <1>q. ASSUME tab' \in Pages,
                 counts' \in [total : Nat, of : [Owners -> Nat]],
                 conn' \in [Conns -> {Unused} \cup Connection],
                 \A c \in Conns : conn'[c] # Unused => conn'[c].pos <= Len(channel),
                 \A t \in Tabs : tab'[t].conn # NoConn =>
                     conn'[tab'[t].conn] # Unused /\ conn'[tab'[t].conn].tab = t
          PROVE  InvTypeOK' /\ PagesHold'
        <2>1. \A c \in Conns : conn'[c] # Unused => conn'[c].pos \in Nat
            BY <1>q DEF Connection
        <2>2. \A c \in Conns : conn'[c] # Unused => conn'[c].pos <= Len(channel')
            BY <1>h, <1>q, <2>1
        <2>. QED  BY <1>h, <1>q, <2>2 DEF InvTypeOK, Pages, HubTyped, Notice, PagesHold, Current
    <1>1. CASE UNCHANGED <<conn, counts>> /\ PagesStay
        BY <1>1, <1>q, <1>t DEF PagesStay, PagesHold, Current, InvTypeOK
    <1>2. ASSUME NEW t \in Tabs, Begins(t) PROVE InvTypeOK' /\ PagesHold'
        <2>1. PICK c \in Conns :
                 /\ conn[c] = Unused
                 /\ conn' = [conn EXCEPT ![c] = Upgrading(t)]
                 /\ tab' = [tab EXCEPT ![t].conn = c]
                 /\ counts' = [counts EXCEPT !.total = @ + 1, !.of[OwnerOf[t]] = @ + 1]
            BY <1>2 DEF Begins
        <2>2. /\ Upgrading(t) \in Connection /\ Upgrading(t).tab = t /\ Upgrading(t).pos = 0
              /\ Upgrading(t) # Unused
            BY DEF Upgrading, Connection, Unused
        <2>3. conn' \in [Conns -> {Unused} \cup Connection]
            BY <1>t, <2>1, <2>2
        <2>4. \A d \in Conns : conn'[d] # Unused => conn'[d].pos <= Len(channel)
            BY <1>t, <1>h, <2>1, <2>2
        <2>5. /\ tab' \in Pages
              /\ \A p \in Tabs : tab'[p].conn = IF p = t THEN c ELSE tab[p].conn
            BY <1>t, <2>1 DEF Pages
        <2>6. \A p \in Tabs : tab'[p].conn # NoConn =>
                  conn'[tab'[p].conn] # Unused /\ conn'[tab'[p].conn].tab = p
            <3>. SUFFICES ASSUME NEW p \in Tabs, tab'[p].conn # NoConn
                          PROVE  conn'[tab'[p].conn] # Unused /\ conn'[tab'[p].conn].tab = p
                OBVIOUS
            <3>1. CASE p = t
                BY <1>t, <2>1, <2>2, <2>5, <3>1
            <3>2. CASE p # t
                <4>1. /\ tab[p].conn # NoConn /\ tab[p].conn \in Conns
                      /\ conn[tab[p].conn] # Unused /\ conn[tab[p].conn].tab = p
                    BY <1>t, <2>5, <3>2 DEF Pages, PagesHold, Current
                <4>. QED  BY <1>t, <2>1, <2>5, <3>2, <4>1
            <3>. QED  BY <3>1, <3>2
        <2>7. counts' \in [total : Nat, of : [Owners -> Nat]]
            <3>1. OwnerOf[t] \in Owners
                BY <1>o
            <3>2. counts' = [total |-> counts.total + 1,
                             of |-> [counts.of EXCEPT ![OwnerOf[t]] = @ + 1]]
                BY <1>t, <2>1
            <3>. QED  BY <1>t, <3>1, <3>2
        <2>. QED  BY <1>q, <2>3, <2>4, <2>5, <2>6, <2>7
    <1>3. ASSUME NEW c \in Conns, GoesOn(c), PagesStay PROVE InvTypeOK' /\ PagesHold'
        <2>1. PICK new \in Connection :
                 /\ new.tab = conn[c].tab /\ new.pos <= Len(channel)
                 /\ conn' = [conn EXCEPT ![c] = new] /\ counts' = counts
            BY <1>3 DEF GoesOn
        <2>2. new # Unused
            BY DEF Connection, Unused
        <2>3. /\ conn' \in [Conns -> {Unused} \cup Connection]
              /\ \A d \in Conns : conn'[d] # Unused => conn'[d].pos <= Len(channel)
            BY <1>t, <2>1
        <2>4. \A t \in Tabs : tab'[t].conn # NoConn =>
                  conn'[tab'[t].conn] # Unused /\ conn'[tab'[t].conn].tab = t
            BY <1>3, <1>t, <2>1, <2>2 DEF PagesStay, PagesHold, Current
        <2>5. tab' \in Pages
            BY <1>3 DEF PagesStay
        <2>. QED  BY <1>q, <2>1, <2>3, <2>4, <2>5 DEF InvTypeOK
    <1>4. ASSUME NEW c \in Conns, Ends(c), tab' = tab PROVE InvTypeOK' /\ PagesHold'
        <2>1. PICK new \in Connection \cup {Unused} :
                 /\ new = Unused => ~Held(c)
                 /\ new # Unused => new.tab = conn[c].tab /\ new.pos <= Len(channel)
                 /\ conn' = [conn EXCEPT ![c] = new]
            BY <1>4 DEF Ends
        <2>2. /\ conn' \in [Conns -> {Unused} \cup Connection]
              /\ \A d \in Conns : conn'[d] # Unused => conn'[d].pos <= Len(channel)
            BY <1>t, <2>1
        <2>3. \A t \in Tabs : tab'[t].conn # NoConn =>
                  conn'[tab'[t].conn] # Unused /\ conn'[tab'[t].conn].tab = t
            BY <1>4, <1>t, <2>1 DEF PagesHold, Current, Held
        <2>4. counts' \in [total : Nat, of : [Owners -> Nat]]
            <3>1. Owner(c) \in Owners
                BY <1>4, UnusedNotServed, ConnTyped DEF Ends
            <3>2. counts' = [total |-> Down(counts.total),
                             of |-> [counts.of EXCEPT ![Owner(c)] = Down(@)]]
                BY <1>4, <1>t DEF Ends, Released
            <3>3. \A n \in Nat : Down(n) \in Nat
                BY DEF Down
            <3>. QED  BY <1>t, <3>1, <3>2, <3>3
        <2>. QED  BY <1>q, <1>t, <1>4, <2>2, <2>3, <2>4
    <1>5. ASSUME NEW t \in Tabs, GoesAway(t) PROVE InvTypeOK' /\ PagesHold'
        <2>1. /\ Current(t) \in Conns
              /\ conn' = [conn EXCEPT ![Current(t)] = conn'[Current(t)]]
              /\ conn'[Current(t)] \in {conn[Current(t)], Unused}
              /\ counts' = counts
            BY <1>5, <1>t DEF GoesAway, Dropped
        <2>2. /\ tab' \in Pages
              /\ \A p \in Tabs : tab'[p].conn = IF p = t THEN NoConn ELSE tab[p].conn
            <3>1. PICK new \in {"live", "cleared"} :
                      tab' = [tab EXCEPT ![t].pc = new, ![t].conn = NoConn]
                BY <1>5 DEF GoesAway
            <3>2. DOMAIN tab = Tabs /\ \A p \in Tabs : DOMAIN tab[p] = {"pc", "conn", "wake", "asked"}
                BY <1>t DEF Pages
            <3>3. \A p \in Tabs : tab'[p] =
                     IF p = t THEN [tab[t] EXCEPT !.pc = new, !.conn = NoConn] ELSE tab[p]
                BY <3>1, <3>2
            <3>4. [tab[t] EXCEPT !.pc = new, !.conn = NoConn] \in
                      [pc : {"live", "cleared"}, conn : Conns \cup {NoConn},
                       wake : BOOLEAN, asked : Nat]
                BY <1>t DEF Pages
            <3>5. tab' \in Pages
                BY <1>t, <3>1, <3>4 DEF Pages
            <3>. QED  BY <3>2, <3>3, <3>5
        <2>3. /\ conn' \in [Conns -> {Unused} \cup Connection]
              /\ \A d \in Conns : conn'[d] # Unused => conn'[d].pos <= Len(channel)
            BY <1>t, <2>1
        <2>4. \A p \in Tabs : p # t /\ tab[p].conn # NoConn => tab[p].conn # Current(t)
            BY <1>5 DEF PagesHold, Current, GoesAway
        <2>5. \A p \in Tabs : tab'[p].conn # NoConn =>
                  conn'[tab'[p].conn] # Unused /\ conn'[tab'[p].conn].tab = p
            <3>1. \A p \in Tabs : p # t /\ tab[p].conn # NoConn =>
                      /\ tab[p].conn \in Conns
                      /\ conn'[tab[p].conn] = conn[tab[p].conn]
                BY <1>t, <2>1, <2>4 DEF Pages
            <3>. QED  BY <2>2, <3>1 DEF PagesHold, Current
        <2>. QED  BY <1>q, <2>1, <2>2, <2>3, <2>5 DEF InvTypeOK
    <1>. QED  BY <1>1, <1>2, <1>3, <1>4, <1>5, ConnectionSteps

LEMMA SocketsStep == SocketsInv /\ [InvNext]_invVars => SocketsInv'
    <1>. SUFFICES ASSUME SocketsInv, [InvNext]_invVars
                  PROVE  SocketsInv'
        OBVIOUS
    <1>t. InvTypeOK /\ PagesHold /\ InvTypeOK' /\ PagesHold'
        BY SocketsTyped DEF SocketsInv
    <1>f. conn \in [Conns -> {Unused} \cup Connection]
        BY <1>t DEF InvTypeOK
    <1>c. /\ counts.total \in Nat /\ counts.of \in [Owners -> Nat]
          /\ MaxPerInstance \in Nat /\ MaxPerUser \in Nat
          /\ OwnerOf \in [Tabs -> Owners]
        BY <1>t, InvalidationsAssumption DEF InvTypeOK
    <1>p. /\ IsFiniteSet(Sockets)
          /\ counts.total = Cardinality(Sockets)
          /\ counts.total <= MaxPerInstance
          /\ \A o \in Owners : /\ counts.of[o] = Cardinality(SocketsOf(o))
                               /\ counts.of[o] <= MaxPerUser
                               /\ IsFiniteSet(SocketsOf(o))
        <2>1. \A o \in Owners : SocketsOf(o) \subseteq Sockets
            BY DEF SocketsOf
        <2>2. IsFiniteSet(Sockets)
            BY DEF SocketsInv
        <2>3. \A o \in Owners : IsFiniteSet(SocketsOf(o))
            BY <2>1, <2>2, FS_Subset
        <2>. QED  BY <2>2, <2>3 DEF SocketsInv, PermitsMatchSockets, Sockets, SocketsOf
    <1>q. ASSUME IsFiniteSet(Sockets'),
                 counts'.total = Cardinality(Sockets'),
                 counts'.total <= MaxPerInstance,
                 \A o \in Owners : /\ counts'.of[o] = Cardinality(SocketsOf(o)')
                                   /\ counts'.of[o] <= MaxPerUser
          PROVE  SocketsInv'
        BY <1>t, <1>q DEF SocketsInv, PermitsMatchSockets, Sockets, SocketsOf
    <1>1. ASSUME counts' = counts, Sockets' = Sockets,
                 \A c \in Sockets : Owner(c)' = Owner(c)
          PROVE  SocketsInv'
        <2>1. \A o \in Owners : SocketsOf(o)' = SocketsOf(o)
            BY <1>1 DEF SocketsOf
        <2>. QED  BY <1>1, <1>p, <1>q, <2>1
    <1>2. CASE UNCHANGED <<conn, counts>>
        BY <1>1, <1>2 DEF Sockets, Served, Owner
    <1>3. ASSUME NEW t \in Tabs, Begins(t) PROVE SocketsInv'
        <2>1. PICK c \in Conns :
                 /\ conn[c] = Unused
                 /\ conn' = [conn EXCEPT ![c] = Upgrading(t)]
                 /\ counts.total < MaxPerInstance
                 /\ counts.of[OwnerOf[t]] < MaxPerUser
                 /\ counts' = [counts EXCEPT !.total = @ + 1, !.of[OwnerOf[t]] = @ + 1]
            BY <1>3 DEF Begins
        <2>2. /\ \A d \in Conns : d # c => conn'[d] = conn[d]
              /\ conn'[c].pc = "upgrading" /\ conn'[c].tab = t
              /\ conn[c].pc = "unused"
            BY <1>f, <2>1 DEF Upgrading, Unused
        <2>3. Sockets' = Sockets \cup {c} /\ c \notin Sockets
            BY <2>2 DEF Sockets, Served
        <2>4. \A o \in Owners :
                 SocketsOf(o)' = IF o = OwnerOf[t] THEN SocketsOf(o) \cup {c} ELSE SocketsOf(o)
            BY <2>2, <2>3 DEF SocketsOf, Owner, Sockets
        <2>5. \A o \in Owners : c \notin SocketsOf(o)
            BY <2>3 DEF SocketsOf
        <2>6. /\ counts'.total = counts.total + 1
              /\ \A o \in Owners :
                    counts'.of[o] = IF o = OwnerOf[t] THEN counts.of[o] + 1 ELSE counts.of[o]
            BY <1>t, <1>c, <2>1 DEF InvTypeOK
        <2>7. /\ IsFiniteSet(Sockets \cup {c})
              /\ Cardinality(Sockets \cup {c}) = Cardinality(Sockets) + 1
              /\ \A o \in Owners : Cardinality(SocketsOf(o) \cup {c}) = Cardinality(SocketsOf(o)) + 1
            BY <1>p, <2>3, <2>5, FS_AddElement
        <2>8. counts'.total <= MaxPerInstance
            BY <1>c, <2>1, <2>6
        <2>9. \A o \in Owners : /\ counts'.of[o] = Cardinality(SocketsOf(o)')
                                /\ counts'.of[o] <= MaxPerUser
            BY <1>c, <1>p, <2>1, <2>4, <2>6, <2>7
        <2>. QED  BY <1>p, <1>q, <2>3, <2>6, <2>7, <2>8, <2>9
    <1>4. ASSUME NEW c \in Conns, GoesOn(c) PROVE SocketsInv'
        <2>1. PICK new \in Connection :
                 /\ new.tab = conn[c].tab
                 /\ new.pc \in {"upgrading", "open"} <=> Served(c)
                 /\ conn' = [conn EXCEPT ![c] = new] /\ counts' = counts
            BY <1>4 DEF GoesOn
        <2>2. /\ \A d \in Conns : d # c => conn'[d] = conn[d]
              /\ conn'[c] = new
            BY <1>f, <2>1
        <2>. QED  BY <1>1, <2>1, <2>2 DEF Sockets, Served, Owner
    <1>5. ASSUME NEW c \in Conns, Ends(c) PROVE SocketsInv'
        <2>1. PICK new \in Connection \cup {Unused} :
                 /\ new # Unused => new.pc = "ended"
                 /\ conn' = [conn EXCEPT ![c] = new]
            BY <1>5 DEF Ends
        <2>2. /\ \A d \in Conns : d # c => conn'[d] = conn[d]
              /\ conn'[c].pc \in {"ended", "unused"}
            BY <1>f, <2>1 DEF Unused
        <2>3. c \in Sockets /\ Sockets' = Sockets \ {c} /\ Owner(c) \in Owners
            <3>1. Served(c)
                BY <1>5 DEF Ends
            <3>. QED  BY <1>t, <2>2, <3>1, UnusedNotServed, ConnTyped DEF Sockets, Served
        <2>4. \A o \in Owners :
                 SocketsOf(o)' = IF o = Owner(c) THEN SocketsOf(o) \ {c} ELSE SocketsOf(o)
            BY <2>2, <2>3 DEF SocketsOf, Owner, Sockets
        <2>5. c \in SocketsOf(Owner(c))
            BY <2>3 DEF SocketsOf
        <2>6. /\ IsFiniteSet(Sockets \ {c})
              /\ Cardinality(Sockets \ {c}) = Cardinality(Sockets) - 1
              /\ Cardinality(SocketsOf(Owner(c)) \ {c}) = Cardinality(SocketsOf(Owner(c))) - 1
              /\ Cardinality(Sockets \ {c}) \in Nat
              /\ Cardinality(SocketsOf(Owner(c)) \ {c}) \in Nat
            <3>1. IsFiniteSet(SocketsOf(Owner(c)))
                BY <1>p, <2>3
            <3>. QED  BY <1>p, <2>3, <2>5, <3>1, FS_RemoveElement, FS_CardinalityType
        <2>7. counts' = [counts EXCEPT !.total = Down(@), !.of[Owner(c)] = Down(@)]
            BY <1>5 DEF Ends, Released
        <2>8. /\ counts'.total = Down(counts.total)
              /\ \A o \in Owners :
                    counts'.of[o] = IF o = Owner(c) THEN Down(counts.of[o]) ELSE counts.of[o]
            BY <1>t, <1>c, <2>3, <2>7 DEF InvTypeOK
        <2>9. counts.total > 0 /\ counts.of[Owner(c)] > 0
            BY <1>c, <1>p, <2>3, <2>6
        <2>10. counts'.total = counts.total - 1 /\ counts'.of[Owner(c)] = counts.of[Owner(c)] - 1
            BY <1>c, <2>3, <2>8, <2>9 DEF Down
        <2>11. counts'.total <= MaxPerInstance
            BY <1>c, <1>p, <2>10
        <2>12. \A o \in Owners : /\ counts'.of[o] = Cardinality(SocketsOf(o)')
                                 /\ counts'.of[o] <= MaxPerUser
            <3>. SUFFICES ASSUME NEW o \in Owners
                          PROVE  /\ counts'.of[o] = Cardinality(SocketsOf(o)')
                                 /\ counts'.of[o] <= MaxPerUser
                OBVIOUS
            <3>1. counts.of[o] \in Nat /\ counts.of[o] = Cardinality(SocketsOf(o))
                    /\ counts.of[o] <= MaxPerUser
                BY <1>c, <1>p
            <3>2. CASE o = Owner(c)
                <4>1. /\ SocketsOf(o)' = SocketsOf(o) \ {c}
                      /\ Cardinality(SocketsOf(o) \ {c}) = Cardinality(SocketsOf(o)) - 1
                      /\ counts'.of[o] = counts.of[o] - 1
                    BY <2>4, <2>6, <2>10, <3>2
                <4>. QED  BY <1>c, <3>1, <4>1
            <3>3. CASE o # Owner(c)
                BY <2>4, <2>8, <3>1, <3>3
            <3>. QED  BY <3>2, <3>3
        <2>. QED  BY <1>p, <1>q, <2>3, <2>6, <2>10, <2>11, <2>12
    <1>6. ASSUME NEW t \in Tabs, GoesAway(t) PROVE SocketsInv'
        <2>1. PICK c \in Conns : conn' = Dropped(c) /\ counts' = counts
            BY <1>6 DEF GoesAway
        <2>2. /\ \A d \in Conns : d # c => conn'[d] = conn[d]
              /\ conn'[c] = IF Served(c) THEN conn[c] ELSE Unused
            BY <1>f, <2>1 DEF Dropped
        <2>. QED  BY <1>1, <2>1, <2>2 DEF Sockets, Served, Owner, Unused
    <1>. QED  BY <1>t, <1>2, <1>3, <1>4, <1>5, <1>6, ConnectionSteps

\* PermitsMatchSockets: for any number of pages, accounts and connections, and
\* any limits, the counts are those of the sockets that are served, whichever
\* way they end, and never exceed the limits.
THEOREM SocketsAlwaysCounted == InvSpec => []PermitsMatchSockets
    <1>1. InvInit => SocketsInv
        <2>. SUFFICES ASSUME InvInit PROVE SocketsInv
            OBVIOUS
        <2>1. Sockets = {} /\ \A o \in Owners : SocketsOf(o) = {}
            BY DEF InvInit, Sockets, SocketsOf, Served, Unused
        <2>2. IsFiniteSet({}) /\ Cardinality({}) = 0
            BY FS_EmptySet
        <2>3. PagesHold
            BY DEF InvInit, PagesHold, Current
        <2>4. InvTypeOK
            <3>1. << >> \in Seq(Notice) /\ << >> \in Seq(Invalidation)
                OBVIOUS
            <3>. QED  BY <3>1, InvalidationsAssumption DEF InvInit, InvTypeOK, Notice
        <2>5. /\ counts.total = 0 /\ \A o \in Owners : counts.of[o] = 0
              /\ MaxPerInstance \in Nat /\ MaxPerUser \in Nat
            BY InvalidationsAssumption DEF InvInit
        <2>6. PermitsMatchSockets
            BY <2>1, <2>2, <2>5 DEF PermitsMatchSockets, Sockets, SocketsOf
        <2>. QED  BY <2>1, <2>2, <2>3, <2>4, <2>6 DEF SocketsInv
    <1>2. SocketsInv => PermitsMatchSockets
        BY DEF SocketsInv
    <1>. QED  BY <1>1, <1>2, SocketsStep, PTL DEF InvSpec
=============================================================================
