---------------------------- MODULE Invalidations ----------------------------
(***************************************************************************)
(* How a committed change wakes the browsers of its owner (src/ws/mod.rs,  *)
(* src/routes/websocket.rs) and what the page does with what it hears      *)
(* (client/src/main.ts, where htmx owns the socket), seen from one replica *)
(* of the server.                                                          *)
(*                                                                         *)
(* The replica has a broadcast channel with room for Capacity              *)
(* invalidations.  A mutation handler sends to it after the commit; the    *)
(* NOTIFY of the same transaction reaches the listener, which relays what  *)
(* comes from other replicas.  Each socket reads the channel at its own    *)
(* pace and holds a permit while it is served.  Replicas share nothing     *)
(* else, so the others appear only as a source of commits.                 *)
(*                                                                         *)
(* Clocks are left out: a pong may become overdue whenever it has not come.*)
(* A connection may break without either side noticing.                    *)
(***************************************************************************)
EXTENDS Integers, Sequences, FiniteSets

CONSTANTS
    Owners,          \* accounts
    Tabs,            \* pages with a socket
    OwnerOf,         \* [Tabs -> Owners]
    Conns,           \* connections: at most so many exist at a time
    Capacity,        \* of the broadcast channel
    MaxPerUser,      \* MAX_SOCKETS_PER_USER
    MaxPerInstance,  \* MAX_SOCKETS_PER_INSTANCE
    MaxCommits,      \* bound: changes committed per owner
    NoConn

ASSUME InvalidationsAssumption ==
    /\ OwnerOf \in [Tabs -> Owners]
    /\ {Capacity, MaxPerUser, MaxPerInstance} \subseteq Nat \ {0}
    /\ MaxCommits \in Nat
    /\ NoConn \notin Conns

VARIABLES
    clock,      \* [Owners -> sync_clock.cursor]
    sessions,   \* owners whose session is valid
    bus,        \* NOTIFY messages on their way to the listener
    unsent,     \* changes committed here and not yet sent to the channel
    channel,    \* the invalidations sent so far
    counts,     \* ConnectionCounts
    conn,       \* [Conns -> a connection, both ends of it]
    tab         \* [Tabs -> the page]

hubVars == <<bus, unsent, channel>>
invVars == <<clock, sessions, hubVars, counts, conn, tab>>

Invalidation == [owner : Owners, cursor : Nat]

Unused == [pc |-> "unused"]

\* Both ends of a connection.
Connection ==
    [pc : {"upgrading", "open", "ended"}, tab : Tabs, pos : Nat,
     challenge : {"none", "waiting", "overdue"}, pong : BOOLEAN,
     frames : Seq({"wake", "ping", "close"}), linked : BOOLEAN]

\* A connection whose upgrade was accepted.
Upgrading(t) ==
    [pc        |-> "upgrading",
     tab       |-> t,
     pos       |-> 0,           \* receiver position in the channel
     challenge |-> "none",      \* PongTracker: none, waiting, overdue
     pong      |-> FALSE,       \* the page's pong is on its way
     frames    |-> << >>,       \* frames on their way to the page
     linked    |-> TRUE]        \* the network still carries it

Served(c) == conn[c].pc \in {"upgrading", "open"}
Owner(c) == OwnerOf[conn[c].tab]
Held(c) == \E t \in Tabs : tab[t].conn = c
Live(t) == tab[t].pc = "live"

InvTypeOK ==
    /\ clock \in [Owners -> 0..MaxCommits]
    /\ sessions \subseteq Owners
    /\ bus \in Seq([own : BOOLEAN, event : Invalidation])
    /\ unsent \subseteq Invalidation
    /\ channel \in Seq(Invalidation)
    /\ counts \in [total : Nat, of : [Owners -> Nat]]
    /\ conn \in [Conns -> {Unused} \cup Connection]
    /\ \A c \in Conns : conn[c] # Unused => conn[c].pos <= Len(channel)
    /\ tab \in [Tabs -> [pc : {"live", "cleared"}, conn : Conns \cup {NoConn},
                         wake : BOOLEAN, asked : Nat]]

InvInit ==
    /\ clock = [o \in Owners |-> 0]
    /\ sessions = {OwnerOf[t] : t \in Tabs}
    /\ bus = << >>
    /\ unsent = {}
    /\ channel = << >>
    /\ counts = [total |-> 0, of |-> [o \in Owners |-> 0]]
    /\ conn = [c \in Conns |-> Unused]
    /\ tab = [t \in Tabs |-> [pc |-> "live", conn |-> NoConn, wake |-> TRUE, asked |-> 0]]

-----------------------------------------------------------------------------
(* The hub and the backplane.                                              *)

\* A mutation commits, here or on another replica: its NOTIFY is released
\* with it.
Commit(o, own) ==
    LET e == [owner |-> o, cursor |-> clock[o] + 1]
    IN  /\ clock[o] < MaxCommits
        /\ clock' = [clock EXCEPT ![o] = @ + 1]
        /\ unsent' = IF own THEN unsent \cup {e} ELSE unsent
        /\ bus' = Append(bus, [own |-> own, event |-> e])
        /\ UNCHANGED <<sessions, channel, counts, conn, tab>>

Send(e) == channel' = Append(channel, e)

\* The handler calls Hub::invalidate, or dies before it does.
Invalidate ==
    \E e \in unsent :
        /\ unsent' = unsent \ {e}
        /\ Send(e) \/ UNCHANGED channel
        /\ UNCHANGED <<clock, sessions, bus, counts, conn, tab>>

\* relay_backplane_payload: the replica's own messages are ignored.
Relay ==
    /\ bus # << >>
    /\ bus' = Tail(bus)
    /\ IF Head(bus).own THEN UNCHANGED channel ELSE Send(Head(bus).event)
    /\ UNCHANGED <<clock, sessions, unsent, counts, conn, tab>>

\* The listener loses its connection and starts over: what was notified in
\* the meantime is lost.
Relisten ==
    /\ bus # << >>
    /\ bus' = << >>
    /\ UNCHANGED <<clock, sessions, unsent, channel, counts, conn, tab>>

-----------------------------------------------------------------------------
(* Sockets on the server.                                                  *)

Down(n) == IF n = 0 THEN 0 ELSE n - 1

\* Mutant of Released: the count of the owner stays.
ReleasedTotal(c) ==
    [counts EXCEPT !.total = Down(@)]

\* SocketPermit::drop
Released(c) ==
    [counts EXCEPT !.total = Down(@), !.of[Owner(c)] = Down(@)]

\* The server drops the connection, after a last frame if there is one.
Ended(c, last) ==
    LET frames == IF conn[c].linked THEN conn[c].frames \o last ELSE conn[c].frames
    IN  /\ counts' = Released(c)
        /\ conn' = [conn EXCEPT ![c] =
              IF Held(c) THEN [conn[c] EXCEPT !.pc = "ended", !.frames = frames]
              ELSE Unused]

\* What is written to a broken connection is lost.
Write(c, f) ==
    IF conn[c].linked THEN Append(conn[c].frames, f) ELSE conn[c].frames

\* upgrade: a permit is taken before the socket is served. (Which of the
\* unused connections it becomes does not matter.)
Upgrade(t) ==
    LET Free == {c \in Conns : conn[c] = Unused}
        c == CHOOSE c \in Free : TRUE IN
    /\ Live(t)
    /\ tab[t].conn = NoConn
    /\ OwnerOf[t] \in sessions
    /\ Free # {}
    /\ counts.total < MaxPerInstance
    /\ counts.of[OwnerOf[t]] < MaxPerUser
    /\ counts' = [counts EXCEPT !.total = @ + 1, !.of[OwnerOf[t]] = @ + 1]
    /\ conn' = [conn EXCEPT ![c] = Upgrading(t)]
    /\ tab' = [tab EXCEPT ![t].conn = c]
    /\ UNCHANGED <<clock, sessions, hubVars>>

\* serve subscribes to the channel.
Subscribe(c) ==
    /\ conn[c].pc = "upgrading"
    /\ conn' = [conn EXCEPT ![c].pc = "open", ![c].pos = Len(channel)]
    /\ UNCHANGED <<clock, sessions, hubVars, counts, tab>>

\* Mutant of Receive: a receiver that lagged skips without asking for a
\* resync.
ReceiveSilent(c) ==
    /\ conn[c].pc = "open"
    /\ conn[c].pos < Len(channel)
    /\ LET lagged == Len(channel) - conn[c].pos > Capacity
           next == conn[c].pos + 1
       IN  conn' = [conn EXCEPT
              ![c].pos = IF lagged THEN Len(channel) - Capacity ELSE next,
              ![c].frames = IF ~lagged /\ channel[next].owner = Owner(c)
                            THEN Write(c, "wake") ELSE @]
    /\ UNCHANGED <<clock, sessions, hubVars, counts, tab>>

\* invalidations.recv(): the next one, passed on if it is the owner's; a
\* receiver that has fallen behind skips to the oldest one kept and asks for
\* a resync.
Receive(c) ==
    /\ conn[c].pc = "open"
    /\ conn[c].pos < Len(channel)
    /\ LET lagged == Len(channel) - conn[c].pos > Capacity
           next == conn[c].pos + 1
       IN  conn' = [conn EXCEPT
              ![c].pos = IF lagged THEN Len(channel) - Capacity ELSE next,
              ![c].frames = IF lagged \/ channel[next].owner = Owner(c)
                            THEN Write(c, "wake") ELSE @]
    /\ UNCHANGED <<clock, sessions, hubVars, counts, tab>>

\* Mutant of Tick: a new challenge replaces one that was not answered.
TickRenewing(c) ==
    /\ conn[c].pc = "open"
    /\ \/ Owner(c) \notin sessions /\ Ended(c, <<"close">>)
       \/ /\ Owner(c) \in sessions
          /\ conn[c].challenge # "waiting"
          /\ conn' = [conn EXCEPT ![c].challenge = "waiting",
                                  ![c].frames = Write(c, "ping")]
          /\ UNCHANGED counts
    /\ UNCHANGED <<clock, sessions, hubVars, tab>>

\* heartbeat.tick(): the session is revalidated, and a challenge sent unless
\* one is open (then nothing changes).
Tick(c) ==
    /\ conn[c].pc = "open"
    /\ \/ Owner(c) \notin sessions /\ Ended(c, <<"close">>)
       \/ /\ Owner(c) \in sessions
          /\ conn[c].challenge = "none"
          /\ conn' = [conn EXCEPT ![c].challenge = "waiting",
                                  ![c].frames = Write(c, "ping")]
          /\ UNCHANGED counts
    /\ UNCHANGED <<clock, sessions, hubVars, tab>>

\* A tick whose revalidate fails for another reason, such as the database.
TickFails(c) ==
    /\ conn[c].pc = "open"
    /\ Owner(c) \in sessions
    /\ Ended(c, <<"close">>)
    /\ UNCHANGED <<clock, sessions, hubVars, tab>>

\* The deadline of the challenge passes.
Overdue(c) ==
    /\ conn[c].pc = "open"
    /\ conn[c].challenge = "waiting"
    /\ conn' = [conn EXCEPT ![c].challenge = "overdue"]
    /\ UNCHANGED <<clock, sessions, hubVars, counts, tab>>

PongTimeout(c) ==
    /\ conn[c].pc = "open"
    /\ conn[c].challenge = "overdue"
    /\ Ended(c, <<"close">>)
    /\ UNCHANGED <<clock, sessions, hubVars, tab>>

Acknowledge(c) ==
    /\ conn[c].pc = "open"
    /\ conn[c].pong
    /\ conn' = [conn EXCEPT ![c].pong = FALSE, ![c].challenge = "none"]
    /\ UNCHANGED <<clock, sessions, hubVars, counts, tab>>

\* A read or a write fails on a broken connection.
Broken(c) ==
    /\ Served(c)
    /\ ~conn[c].linked
    /\ Ended(c, << >>)
    /\ UNCHANGED <<clock, sessions, hubVars, tab>>

-----------------------------------------------------------------------------
(* The network and the page.                                               *)

LinkBreaks(c) ==
    /\ conn[c] # Unused
    /\ conn[c].linked
    /\ conn' = [conn EXCEPT ![c].linked = FALSE, ![c].frames = << >>, ![c].pong = FALSE]
    /\ UNCHANGED <<clock, sessions, hubVars, counts, tab>>

Current(t) == tab[t].conn

\* What is left of a connection the page has dropped.
Dropped(c) == [conn EXCEPT ![c] = IF Served(c) THEN @ ELSE Unused]

\* The page sees its socket close without a reason, and will reconnect.
Reconnecting(t) ==
    LET c == Current(t)
    IN  /\ c # NoConn
        /\ conn[c].frames = << >>
        /\ ~conn[c].linked \/ conn[c].pc = "ended"
        /\ tab' = [tab EXCEPT ![t].conn = NoConn]
        /\ conn' = Dropped(c)
        /\ UNCHANGED <<clock, sessions, hubVars, counts>>

\* A frame arrives. The browser answers a ping itself; a hint or a resync
\* wakes the sync engine; a close with code 1008 clears the account's data
\* and leaves for the login page.
ReadFrame(t) ==
    LET c == Current(t)
        rest == [conn EXCEPT ![c].frames = Tail(@)]
    IN  /\ c # NoConn
        /\ conn[c].frames # << >>
        /\ CASE Head(conn[c].frames) = "wake" ->
                  /\ tab' = [tab EXCEPT ![t].wake = TRUE]
                  /\ conn' = rest
             [] Head(conn[c].frames) = "ping" ->
                  /\ conn' = [rest EXCEPT ![c].pong = TRUE]
                  /\ UNCHANGED tab
             [] Head(conn[c].frames) = "close" ->
                  /\ tab' = [tab EXCEPT ![t].pc = "cleared", ![t].conn = NoConn]
                  /\ conn' = Dropped(c)
        /\ UNCHANGED <<clock, sessions, hubVars, counts>>

\* A pass of the sync engine begins; and the poll that starts one anyway.
Pull(t) ==
    /\ Live(t)
    /\ tab[t].wake
    /\ tab' = [tab EXCEPT ![t].wake = FALSE, ![t].asked = clock[OwnerOf[t]]]
    /\ UNCHANGED <<clock, sessions, hubVars, counts, conn>>

Poll(t) ==
    /\ Live(t)
    /\ ~tab[t].wake
    /\ tab' = [tab EXCEPT ![t].wake = TRUE]
    /\ UNCHANGED <<clock, sessions, hubVars, counts, conn>>

-----------------------------------------------------------------------------

\* The session of an owner is revoked or expires.
SessionEnds(o) ==
    /\ o \in sessions
    /\ sessions' = sessions \ {o}
    /\ UNCHANGED <<clock, hubVars, counts, conn, tab>>

Serving(c) ==
    \/ Subscribe(c)
    \/ Receive(c)
    \/ Tick(c) \/ TickFails(c)
    \/ Overdue(c)
    \/ PongTimeout(c)
    \/ Acknowledge(c)

InvNext ==
    \/ \E o \in Owners, own \in BOOLEAN : Commit(o, own)
    \/ Invalidate \/ Relay \/ Relisten
    \/ \E c \in Conns : Serving(c) \/ Broken(c) \/ LinkBreaks(c)
    \/ \E t \in Tabs : Upgrade(t) \/ Reconnecting(t) \/ ReadFrame(t) \/ Pull(t) \/ Poll(t)
    \/ \E o \in Owners : SessionEnds(o)

InvSpec == InvInit /\ [][InvNext]_invVars

\* The server keeps serving each socket (select! chooses fairly among the
\* branches that are ready), and the page handles its events. Nobody need
\* notice a broken connection, and the poll need not run.
FairInvSpec ==
    /\ InvSpec
    /\ \A c \in Conns :
          /\ WF_invVars(Subscribe(c))
          /\ WF_invVars(Receive(c))
          /\ WF_invVars(Tick(c))
          /\ WF_invVars(Overdue(c))
          /\ WF_invVars(PongTimeout(c))
    /\ \A t \in Tabs : WF_invVars(ReadFrame(t)) /\ WF_invVars(Pull(t))

-----------------------------------------------------------------------------
(* What sockets and hints promise.                                         *)

\* The counts are those of the sockets that are served, however they end,
\* and the limits hold although a page that reconnects may leave a
\* connection behind.
PermitsMatchSockets ==
    LET served == {c \in Conns : Served(c)}
    IN  /\ counts.total = Cardinality(served)
        /\ counts.total <= MaxPerInstance
        /\ \A o \in Owners :
              /\ counts.of[o] = Cardinality({c \in served : Owner(c) = o})
              /\ counts.of[o] <= MaxPerUser

\* A change that waits in the channel wakes the page,
\* without its poll, unless the connection is lost.
HintsArrive ==
    \A t \in Tabs, k \in 1..MaxCommits :
        LET Connected == Current(t) # NoConn /\ conn[Current(t)].linked
                         /\ conn[Current(t)].pc = "open"
            Waiting == /\ Connected
                       /\ \E n \in DOMAIN channel :
                             /\ n > conn[Current(t)].pos
                             /\ channel[n] =
                                    [owner |-> OwnerOf[t], cursor |-> k]
        IN  Waiting ~> (tab[t].asked >= k \/ ~Connected)

\* A socket whose page is gone is dropped, and its permit released, even if
\* the network never reports it; and a socket outlives its session only until
\* a heartbeat.
SocketsClose ==
    \A c \in Conns :
        (Served(c) /\ (~conn[c].linked \/ Owner(c) \notin sessions)) ~> ~Served(c)

=============================================================================
