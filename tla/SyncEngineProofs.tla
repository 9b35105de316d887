-------------------------- MODULE SyncEngineProofs --------------------------
(***************************************************************************)
(* What is proved of SyncEngine, for every number of tabs and edits, with  *)
(* and without the Web Locks API: a logout leaves nothing behind, whatever *)
(* passes it meets, and the leader lock has one holder.                    *)
(***************************************************************************)
EXTENDS SyncEngine, TLAPS

-----------------------------------------------------------------------------
(* The inductive invariant.                                                *)

\* An edit is leased by one tab at most, and only while its request is under
\* way.
LeasedOnce ==
    /\ \A t \in Tabs : claimed[t] # {} => tab[t].pc = "pushing"
    /\ \A t, u \in Tabs : t # u => claimed[t] \cap claimed[u] = {}

\* An engine e that logs out, has logged out or is closed has been stopped,
\* and what is left of its run is cancelled; and one that has purged has no
\* run, unless a frame has woken an engine after its logout.
Stopped(e, woken) ==
    /\ e.purged => ~e.started
    /\ e.leaving # {} => ~e.started /\ ~e.current /\ e.pc # "idle"
    /\ ~e.open => /\ ~e.started
                  /\ e.pc = "idle"
                  /\ e.leaving = {}
                  /\ e.inbox = << >>
    /\ e.purged /\ ~woken => e.pc = "idle"

StoppedStays == \A t \in Tabs : Stopped(tab[t], late)

\* The last of all tabs to purge leaves nothing.
LastPurge ==
    (\A t \in Tabs : tab[t].purged) /\ ~late =>
        /\ outbox = {}
        /\ ~account
        /\ ~records
        /\ \A t \in Tabs : claimed[t] = {}

EngineInv == EngineTypeOK /\ LeasedOnce /\ StoppedStays /\ LastPurge

-----------------------------------------------------------------------------
(* What becomes of an engine.                                              *)

\* At program point p; told to leave by who; purged; with its first message
\* read; closed.
At(e, p) == [e EXCEPT !.pc = p]
Left(e, who) == [Cancelled(e) EXCEPT !.leaving = @ \cup {who}]
Purged(e) == [e EXCEPT !.leaving = {}, !.purged = TRUE]
Heard(e) == [e EXCEPT !.inbox = Tail(@)]
Closed(e) == [e EXCEPT !.open = FALSE, !.started = FALSE, !.pc = "idle",
                       !.pending = FALSE, !.inbox = << >>, !.leaving = {}]

LEMMA PcMoves ==
    ASSUME NEW e \in Engine, NEW p \in {"locking", "settling"} \cup InPass,
           NEW woken \in BOOLEAN, Stopped(e, woken), e.pc # "idle"
    PROVE  /\ At(e, p) \in Engine
           /\ Stopped(At(e, p), woken)
           /\ At(e, p).pc = p
           /\ At(e, p).purged = e.purged
    BY DEF At, Engine, InPass, Stopped

LEMMA OverMoves ==
    ASSUME NEW e \in Engine, NEW woken \in BOOLEAN, Stopped(e, woken), e.pc # "idle"
    PROVE  /\ At(e, "idle") \in Engine
           /\ At(e, "idle").pc = "idle"
           /\ At(e, "idle").open
           /\ At(e, "idle").purged = e.purged
           /\ At(e, "idle").started = e.started
           /\ At(e, "idle").leaving = e.leaving
           /\ e.leaving = {} => Stopped(At(e, "idle"), woken)
    BY DEF At, Engine, InPass, Stopped

LEMMA WokenMoves ==
    ASSUME NEW e \in Engine, e.open,
           NEW woken \in BOOLEAN, Stopped(e, woken), e.purged => woken
    PROVE  /\ Woken(e) \in Engine
           /\ Stopped(Woken(e), woken)
           /\ Woken(e).pc = IF e.pc = "idle" THEN "locking" ELSE e.pc
           /\ Woken(e).purged = e.purged
    BY DEF Woken, Engine, InPass, Stopped

LEMMA DrainedMoves ==
    ASSUME NEW e \in Engine, NEW woken \in BOOLEAN, Stopped(e, woken), e.pc # "idle"
    PROVE  /\ Drained(e) \in Engine
           /\ Stopped(Drained(e), woken)
           /\ Drained(e).pc \in {"locking", "settling"}
           /\ Drained(e).purged = e.purged
    BY DEF Drained, Engine, InPass, Stopped

\* A tab that was told to leave: its run goes on to its end.
LEMMA LeftMoves ==
    ASSUME NEW e \in Engine, e.open, NEW who \in {"self", "remote"},
           NEW woken \in BOOLEAN, Stopped(e, woken)
    PROVE  /\ Left(e, who) \in Engine
           /\ ~Left(e, who).started
           /\ Left(e, who).open
           /\ Left(e, who).pc = e.pc
           /\ Left(e, who).purged = e.purged
           /\ e.pc # "idle" => Stopped(Left(e, who), woken)
    BY DEF Left, Cancelled, Engine, InPass, Stopped

LEMMA PurgedMoves ==
    ASSUME NEW e \in Engine, e.open, e.pc = "idle", ~e.started, NEW woken \in BOOLEAN
    PROVE  /\ Purged(e) \in Engine
           /\ Stopped(Purged(e), woken)
           /\ Purged(e).pc = "idle"
           /\ Purged(e).purged
    BY DEF Purged, Engine, InPass, Stopped

LEMMA HeardMoves ==
    ASSUME NEW e \in Engine, e.inbox # << >>, NEW woken \in BOOLEAN, Stopped(e, woken)
    PROVE  /\ Heard(e) \in Engine
           /\ Stopped(Heard(e), woken)
           /\ Heard(e).pc = e.pc
           /\ Heard(e).open
           /\ Heard(e).started = e.started
           /\ Heard(e).purged = e.purged
    <1>1. e.inbox \in Seq({"local", "logout"}) /\ Tail(e.inbox) \in Seq({"local", "logout"})
        BY DEF Engine
    <1>2. e.open /\ e.inbox # << >>
        BY DEF Engine, Stopped
    <1>3. Heard(e) \in Engine
        BY <1>1 DEF Heard, Engine
    <1>4. Stopped(Heard(e), woken)
        BY <1>2 DEF Heard, Engine, Stopped
    <1>. QED  BY <1>2, <1>3, <1>4 DEF Heard, Engine

LEMMA ClosedMoves ==
    ASSUME NEW e \in Engine, NEW woken \in BOOLEAN, Stopped(e, woken)
    PROVE  /\ Closed(e) \in Engine
           /\ Stopped(Closed(e), woken)
           /\ Closed(e).pc = "idle"
           /\ Closed(e).purged = e.purged
    <1>1. << >> \in Seq({"local", "logout"}) /\ {} \in SUBSET {"self", "remote"}
        OBVIOUS
    <1>2. Closed(e) \in Engine
        BY <1>1 DEF Closed, Engine
    <1>3. Stopped(Closed(e), woken)
        BY DEF Closed, Engine, Stopped
    <1>. QED  BY <1>2, <1>3 DEF Closed, Engine

\* What the engine of tab u is after tab t has posted m.
PostedAt(t, m, u) ==
    /\ Post(t, m)[u].pc = tab[u].pc
    /\ Post(t, m)[u].purged = tab[u].purged
    /\ \A woken : Stopped(tab[u], woken) => Stopped(Post(t, m)[u], woken)

\* What others hear changes nothing else of them.
LEMMA PostMoves ==
    ASSUME tab \in [Tabs -> Engine], NEW t \in Tabs, NEW m \in {"local", "logout"}
    PROVE  /\ Post(t, m) \in [Tabs -> Engine]
           /\ Post(t, m)[t] = tab[t]
           /\ \A u \in Tabs : PostedAt(t, m, u)
    <1>. DEFINE told(e) == [e EXCEPT !.inbox = Append(@, m)]
    <1>1. ASSUME NEW e \in Engine
          PROVE  /\ told(e) \in Engine
                 /\ told(e).pc = e.pc
                 /\ told(e).purged = e.purged
                 /\ \A woken : e.open /\ Stopped(e, woken) => Stopped(told(e), woken)
        <2>1. Append(e.inbox, m) \in Seq({"local", "logout"})
            BY DEF Engine
        <2>2. told(e) \in Engine
            BY <2>1 DEF Engine
        <2>. QED  BY <2>2 DEF Engine, Stopped
    <1>2. \A u \in Tabs :
             Post(t, m)[u] = IF u # t /\ tab[u].open THEN told(tab[u]) ELSE tab[u]
        BY DEF Post
    <1>3. \A u \in Tabs : told(tab[u]) \in Engine
        BY <1>1
    <1>4. Post(t, m) \in [Tabs -> Engine]
        BY <1>3 DEF Post
    <1>. QED  BY <1>1, <1>2, <1>4 DEF PostedAt

\* A step that makes tab t the engine e, after which other tabs may have
\* something to hear.
LEMMA TabMoves ==
    ASSUME EngineInv, NEW t \in Tabs, NEW e \in Engine, NEW f \in [Tabs -> Engine],
           \/ f = tab
           \/ \E m \in {"local", "logout"} : f = Post(t, m),
           tab' = [f EXCEPT ![t] = e],
           late' \in BOOLEAN, late => late', Stopped(e, late')
    PROVE  /\ tab' \in [Tabs -> Engine]
           /\ StoppedStays'
           /\ tab'[t] = e
           /\ \A u \in Tabs : u # t => /\ tab'[u].pc = tab[u].pc
                                       /\ tab'[u].purged = tab[u].purged
    <1>1. tab \in [Tabs -> Engine] /\ late \in BOOLEAN
        BY DEF EngineInv, EngineTypeOK
    <1>2. \A u \in Tabs : /\ f[u].pc = tab[u].pc
                          /\ f[u].purged = tab[u].purged
                          /\ Stopped(tab[u], late) => Stopped(f[u], late)
        <2>1. CASE f = tab
            BY <2>1
        <2>2. ASSUME NEW m \in {"local", "logout"}, f = Post(t, m)
              PROVE  \A u \in Tabs : /\ f[u].pc = tab[u].pc
                                     /\ f[u].purged = tab[u].purged
                                     /\ Stopped(tab[u], late) => Stopped(f[u], late)
            <3>1. \A u \in Tabs : PostedAt(t, m, u)
                BY <1>1, PostMoves
            <3>. QED  BY <2>2, <3>1 DEF PostedAt
        <2>. QED  BY <2>1, <2>2
    <1>3. \A u \in Tabs : Stopped(f[u], late')
        BY <1>2 DEF EngineInv, StoppedStays, Stopped
    <1>4. \A u \in Tabs : tab'[u] = IF u = t THEN e ELSE f[u]
        OBVIOUS
    <1>5. tab' \in [Tabs -> Engine]
        OBVIOUS
    <1>. QED  BY <1>2, <1>3, <1>4, <1>5 DEF StoppedStays

\* A step of the run of tab t, which is not over before it, and which makes
\* the tab the engine e.
RunStep(t, e) ==
    /\ tab[t].pc # "idle"
    /\ tab' = [tab EXCEPT ![t] = e]
    /\ Stopped(e, late)
    /\ e.purged = tab[t].purged
    /\ made' = made /\ late' = late
    /\ outbox' \subseteq made
    /\ claimed' \in [Tabs -> SUBSET (made \ outbox')]
    /\ claimed'[t] # {} => e.pc = "pushing"
    /\ \A u \in Tabs : u # t => /\ claimed'[u] = claimed[u]
                                /\ claimed'[t] \cap claimed[u] = {}
    /\ {account', records', online', calm'} \subseteq BOOLEAN
    /\ lock' \in Tabs \cup {Nobody}
    /\ WebLocks => /\ lock' = t <=> e.pc \in InPass
                   /\ \A u \in Tabs : u # t => (lock' = u <=> lock = u)

LEMMA RunMoves ==
    ASSUME EngineInv, NEW t \in Tabs, NEW e \in Engine, RunStep(t, e)
    PROVE  EngineInv'
    <1>. USE DEF RunStep
    <1>t. /\ tab \in [Tabs -> Engine] /\ late \in BOOLEAN
          /\ made \subseteq Edits
          /\ \A u \in Tabs : WebLocks => (lock = u <=> tab[u].pc \in InPass)
        BY DEF EngineInv, EngineTypeOK
    <1>s. ~(tab[t].purged /\ ~late)
        BY DEF EngineInv, StoppedStays, Stopped
    <1>1. /\ tab' \in [Tabs -> Engine]
          /\ StoppedStays'
          /\ tab'[t] = e
          /\ \A u \in Tabs : u # t => /\ tab'[u].pc = tab[u].pc
                                      /\ tab'[u].purged = tab[u].purged
        BY <1>t, TabMoves
    <1>2. \A u \in Tabs : tab'[u].leaving # {} => tab'[u].pc # "idle"
        BY <1>1 DEF StoppedStays, Stopped
    <1>3. {account, records, online, calm, late}' \subseteq BOOLEAN
        BY <1>t
    <1>4. EngineTypeOK'
        BY <1>t, <1>1, <1>2, <1>3 DEF EngineTypeOK
    <1>5. LeasedOnce'
        BY <1>1 DEF EngineInv, LeasedOnce
    <1>6. LastPurge'
        BY <1>s, <1>1 DEF LastPurge
    <1>. QED  BY <1>1, <1>4, <1>5, <1>6 DEF EngineInv

\* clearAccount, by a tab whose run is over.
LEMMA PurgeMoves ==
    ASSUME EngineInv, NEW t \in Tabs, NEW e \in Engine, Purge(t, e),
           e.open, e.pc = "idle", ~e.started,
           tab[t].pc \notin InPass,
           made' = made, lock' = lock, online' = online, late' = late,
           calm' \in BOOLEAN
    PROVE  EngineInv'
    <1>. DEFINE f == IF "self" \in e.leaving THEN Post(t, "logout") ELSE tab
    <1>t. /\ tab \in [Tabs -> Engine] /\ late \in BOOLEAN /\ online \in BOOLEAN
          /\ made \subseteq Edits
          /\ lock \in Tabs \cup {Nobody}
          /\ \A u \in Tabs : WebLocks => (lock = u <=> tab[u].pc \in InPass)
        BY DEF EngineInv, EngineTypeOK
    <1>1. /\ outbox' = {} /\ claimed' = [u \in Tabs |-> {}]
          /\ account' = FALSE /\ records' = FALSE
          /\ tab' = [f EXCEPT ![t] = Purged(e)]
        BY DEF Purge, Purged
    <1>2. f \in [Tabs -> Engine]
        BY <1>t, PostMoves
    <1>3. f = tab \/ \E m \in {"local", "logout"} : f = Post(t, m)
        OBVIOUS
    <1>4. /\ Purged(e) \in Engine /\ Stopped(Purged(e), late)
          /\ Purged(e).pc = "idle"
        BY <1>t, PurgedMoves
    <1>. HIDE DEF f
    <1>5. /\ tab' \in [Tabs -> Engine]
          /\ StoppedStays'
          /\ tab'[t] = Purged(e)
          /\ \A u \in Tabs : u # t => /\ tab'[u].pc = tab[u].pc
                                      /\ tab'[u].purged = tab[u].purged
        BY <1>t, <1>1, <1>2, <1>3, <1>4, TabMoves
    <1>6. \A u \in Tabs : tab'[u].leaving # {} => tab'[u].pc # "idle"
        BY <1>5 DEF StoppedStays, Stopped
    <1>7. \A u \in Tabs : WebLocks => (lock' = u <=> tab'[u].pc \in InPass)
        BY <1>t, <1>4, <1>5 DEF InPass
    <1>8. {account, records, online, calm, late}' \subseteq BOOLEAN
        BY <1>t, <1>1
    <1>9. EngineTypeOK'
        BY <1>t, <1>1, <1>5, <1>6, <1>7, <1>8 DEF EngineTypeOK
    <1>10. LeasedOnce' /\ LastPurge'
        BY <1>1 DEF LeasedOnce, LastPurge
    <1>. QED  BY <1>5, <1>9, <1>10 DEF EngineInv

\* A logout reaches tab t, whose engine is e by then.
LEMMA LogOutMoves ==
    ASSUME EngineInv, NEW t \in Tabs, NEW e \in Engine, NEW who \in {"self", "remote"},
           LogOut(t, e, who),
           e.open, Stopped(e, late), e.pc = tab[t].pc, e.purged = tab[t].purged,
           made' = made, lock' = lock, online' = online, late' = late,
           calm' \in BOOLEAN
    PROVE  EngineInv'
    <1>t. /\ tab \in [Tabs -> Engine] /\ late \in BOOLEAN
          /\ outbox \subseteq made /\ claimed \in [Tabs -> SUBSET (made \ outbox)]
          /\ account \in BOOLEAN /\ records \in BOOLEAN /\ online \in BOOLEAN
          /\ lock \in Tabs \cup {Nobody}
          /\ \A u \in Tabs : WebLocks => (lock = u <=> tab[u].pc \in InPass)
        BY DEF EngineInv, EngineTypeOK
    <1>1. /\ Left(e, who) \in Engine
          /\ ~Left(e, who).started
          /\ Left(e, who).open
          /\ Left(e, who).pc = e.pc
          /\ Left(e, who).purged = e.purged
          /\ e.pc # "idle" => Stopped(Left(e, who), late)
        BY <1>t, LeftMoves
    <1>2. CASE e.pc = "idle"
        <2>1. Purge(t, Left(e, who))
            BY <1>2 DEF LogOut, Left
        <2>. QED  BY <1>1, <1>2, <2>1, PurgeMoves DEF InPass
    <1>3. CASE e.pc # "idle"
        <2>1. /\ tab' = [tab EXCEPT ![t] = Left(e, who)]
              /\ UNCHANGED <<outbox, claimed, account, records>>
            BY <1>3 DEF LogOut, Left, store
        <2>2. RunStep(t, Left(e, who))
            BY <1>t, <1>1, <1>3, <2>1 DEF RunStep, EngineInv, LeasedOnce
        <2>. QED  BY <1>1, <2>2, RunMoves
    <1>. QED  BY <1>2, <1>3

-----------------------------------------------------------------------------
(* One step.                                                               *)

LEMMA EngineStep == EngineInv /\ [EngineNext]_engineVars => EngineInv'
    <1>. SUFFICES ASSUME EngineInv, [EngineNext]_engineVars
                  PROVE  EngineInv'
        OBVIOUS
    <1>. USE EngineAssumption
    <1>t. /\ outbox \subseteq made
          /\ made \subseteq Edits
          /\ claimed \in [Tabs -> SUBSET (made \ outbox)]
          /\ account \in BOOLEAN /\ records \in BOOLEAN
          /\ online \in BOOLEAN /\ calm \in BOOLEAN /\ late \in BOOLEAN
          /\ tab \in [Tabs -> Engine]
          /\ lock \in Tabs \cup {Nobody}
          /\ \A t \in Tabs : WebLocks => (lock = t <=> tab[t].pc \in InPass)
        BY DEF EngineInv, EngineTypeOK
    <1>s. \A t \in Tabs : Stopped(tab[t], late) /\ tab[t] \in Engine
        BY <1>t DEF EngineInv, StoppedStays
    <1>o. /\ \A t \in Tabs : claimed[t] # {} => tab[t].pc = "pushing"
          /\ \A t, u \in Tabs : t # u => claimed[t] \cap claimed[u] = {}
        BY DEF EngineInv, LeasedOnce
    <1>l. (\A t \in Tabs : tab[t].purged) /\ ~late =>
             outbox = {} /\ ~account /\ ~records /\ \A t \in Tabs : claimed[t] = {}
        BY DEF EngineInv, LastPurge
    <1>1. ASSUME NEW t \in Tabs, NEW n \in Edits, Edit(t, n) PROVE EngineInv'
        <2>. DEFINE e == Woken(tab[t])
        <2>1. /\ tab[t].open /\ tab[t].started /\ ~tab[t].purged /\ n \notin made
              /\ made' = made \cup {n} /\ outbox' = outbox \cup {n}
              /\ UNCHANGED <<claimed, account, records, lock, online, calm, late>>
              /\ tab' = [Post(t, "local") EXCEPT ![t] = Woken(@)]
            BY <1>1, <1>s DEF Edit, Stopped
        <2>2. /\ e \in Engine
              /\ Stopped(e, late)
              /\ e.pc = IF tab[t].pc = "idle" THEN "locking" ELSE tab[t].pc
              /\ e.purged = tab[t].purged
            BY <1>s, <1>t, <2>1, WokenMoves
        <2>3. Post(t, "local") \in [Tabs -> Engine] /\ Post(t, "local")[t] = tab[t]
            BY <1>t, PostMoves
        <2>4. tab' = [Post(t, "local") EXCEPT ![t] = e]
            BY <2>1, <2>3
        <2>5. /\ tab' \in [Tabs -> Engine]
              /\ StoppedStays'
              /\ tab'[t] = e
              /\ \A u \in Tabs : u # t => /\ tab'[u].pc = tab[u].pc
                                          /\ tab'[u].purged = tab[u].purged
            BY <1>t, <2>1, <2>2, <2>3, <2>4, TabMoves
        <2>. HIDE DEF e
        <2>6. EngineTypeOK'
            BY <1>t, <2>1, <2>2, <2>5 DEF EngineTypeOK, StoppedStays, Stopped, InPass
        <2>7. LeasedOnce'
            BY <1>o, <2>1, <2>2, <2>5 DEF LeasedOnce
        <2>8. LastPurge'
            BY <2>1, <2>2, <2>5 DEF LastPurge
        <2>. QED  BY <2>5, <2>6, <2>7, <2>8 DEF EngineInv
    <1>2. ASSUME NEW t \in Tabs, Wake(t) PROVE EngineInv'
        <2>. DEFINE e == Woken(tab[t])
        <2>1. /\ tab[t].open
              /\ tab' = [tab EXCEPT ![t] = e]
              /\ late' = (late \/ tab[t].purged)
              /\ UNCHANGED <<outbox, claimed, account, records, made, lock, online, calm>>
            BY <1>2 DEF Wake, store
        <2>2. late' \in BOOLEAN /\ (late => late') /\ (tab[t].purged => late')
            BY <2>1
        <2>3. Stopped(tab[t], late')
            BY <1>s, <2>2 DEF Stopped
        <2>4. /\ e \in Engine
              /\ Stopped(e, late')
              /\ e.pc = IF tab[t].pc = "idle" THEN "locking" ELSE tab[t].pc
              /\ e.purged = tab[t].purged
            BY <1>s, <2>1, <2>2, <2>3, WokenMoves
        <2>. HIDE DEF e
        <2>5. /\ tab' \in [Tabs -> Engine]
              /\ StoppedStays'
              /\ tab'[t] = e
              /\ \A u \in Tabs : u # t => /\ tab'[u].pc = tab[u].pc
                                          /\ tab'[u].purged = tab[u].purged
            BY <1>t, <2>1, <2>2, <2>4, TabMoves
        <2>6. EngineTypeOK'
            BY <1>t, <2>1, <2>2, <2>4, <2>5 DEF EngineTypeOK, StoppedStays, Stopped, InPass
        <2>7. LeasedOnce'
            BY <1>o, <2>1, <2>4, <2>5 DEF LeasedOnce
        <2>8. LastPurge'
            BY <1>l, <2>1, <2>2, <2>4, <2>5 DEF LastPurge
        <2>. QED  BY <2>5, <2>6, <2>7, <2>8 DEF EngineInv
    <1>3. ASSUME NEW t \in Tabs, AskLock(t) PROVE EngineInv'
        <2>. DEFINE d == Drained(tab[t])
                    c == At(tab[t], "claiming")
        <2>1. /\ tab[t].pc = "locking"
              /\ UNCHANGED <<outbox, claimed, account, records, made, online, calm, late>>
            BY <1>3 DEF AskLock, store
        <2>2. claimed[t] = {} /\ ~(WebLocks /\ lock = t)
            BY <1>o, <1>t, <2>1 DEF InPass
        <2>3. CASE (WebLocks /\ lock # Nobody) \/ ~tab[t].current \/ ~online
            <3>1. tab' = [tab EXCEPT ![t] = d] /\ UNCHANGED lock
                BY <1>3, <2>3 DEF AskLock
            <3>2. /\ d \in Engine /\ Stopped(d, late)
                  /\ d.pc \in {"locking", "settling"} /\ d.purged = tab[t].purged
                BY <1>s, <1>t, <2>1, DrainedMoves
            <3>. HIDE DEF d
            <3>3. d.pc \notin InPass
                BY <3>2 DEF InPass
            <3>r. RunStep(t, d)
                BY <1>t, <1>o, <2>1, <2>2, <3>1, <3>2, <3>3 DEF RunStep
            <3>. QED  BY <3>r, <3>2, RunMoves
        <2>4. CASE ~((WebLocks /\ lock # Nobody) \/ ~tab[t].current \/ ~online)
            <3>1. tab' = [tab EXCEPT ![t] = c] /\ lock' = IF WebLocks THEN t ELSE lock
                BY <1>3, <1>t, <2>4 DEF AskLock, Goto, At
            <3>2. /\ c \in Engine /\ Stopped(c, late)
                  /\ c.pc = "claiming" /\ c.purged = tab[t].purged
                BY <1>s, <1>t, <2>1, PcMoves DEF InPass
            <3>. HIDE DEF c
            <3>3. c.pc \in InPass
                BY <3>2 DEF InPass
            <3>r. RunStep(t, c)
                BY <1>t, <1>o, <2>1, <2>2, <2>4, <3>1, <3>2, <3>3 DEF RunStep
            <3>. QED  BY <3>r, <3>2, RunMoves
        <2>. QED  BY <2>3, <2>4
    <1>4. ASSUME NEW t \in Tabs, Claim(t) PROVE EngineInv'
        <2>. DEFINE p == IF outbox = {} THEN "reading" ELSE "pushing"
                    e == At(tab[t], p)
        <2>1. /\ tab[t].pc = "claiming"
              /\ p \in {"claiming", "pushing", "reading"}
              /\ tab' = [tab EXCEPT ![t] = e]
              /\ claimed' = [claimed EXCEPT ![t] = outbox]
              /\ outbox' = {}
              /\ UNCHANGED <<account, records, made, lock, online, calm, late>>
            BY <1>4, <1>t DEF Claim, Goto, At
        <2>2. /\ e \in Engine /\ Stopped(e, late)
              /\ e.pc = p /\ e.purged = tab[t].purged
            BY <1>s, <1>t, <2>1, PcMoves DEF InPass
        <2>. HIDE DEF e
        <2>3. p \in InPass /\ tab[t].pc \in InPass
            BY <2>1 DEF InPass
        <2>4. /\ claimed'[t] = outbox
              /\ \A u \in Tabs : u # t => /\ claimed'[u] = claimed[u]
                                          /\ outbox \cap claimed[u] = {}
              /\ claimed' \in [Tabs -> SUBSET (made \ outbox')]
            BY <1>t, <2>1
        <2>r. RunStep(t, e)
            BY <1>t, <1>o, <2>1, <2>2, <2>3, <2>4 DEF RunStep
        <2>. QED  BY <2>r, <2>2, RunMoves
    <1>5. ASSUME NEW t \in Tabs, Pushed(t) PROVE EngineInv'
        <2>. DEFINE p == "claiming"
                    e == At(tab[t], p)
        <2>1. /\ tab[t].pc = "pushing"
              /\ p \in {"claiming", "pushing", "reading"}
              /\ tab' = [tab EXCEPT ![t] = e]
              /\ claimed' = [claimed EXCEPT ![t] = {}]
              /\ records' = (records \/ claimed[t] # {})
              /\ UNCHANGED <<outbox, account, made, lock, online, calm, late>>
            BY <1>5, <1>t DEF Pushed, Goto, At
        <2>2. /\ e \in Engine /\ Stopped(e, late)
              /\ e.pc = p /\ e.purged = tab[t].purged
            BY <1>s, <1>t, <2>1, PcMoves DEF InPass
        <2>. HIDE DEF e
        <2>3. p \in InPass /\ tab[t].pc \in InPass
            BY <2>1 DEF InPass
        <2>4. /\ claimed'[t] = {}
              /\ \A u \in Tabs : u # t => claimed'[u] = claimed[u]
              /\ claimed' \in [Tabs -> SUBSET (made \ outbox')]
              /\ records' \in BOOLEAN
            BY <1>t, <2>1
        <2>r. RunStep(t, e)
            BY <1>t, <1>o, <2>1, <2>2, <2>3, <2>4 DEF RunStep
        <2>. QED  BY <2>r, <2>2, RunMoves
    <1>6. ASSUME NEW t \in Tabs, Unpushed(t) PROVE EngineInv'
        <2>. DEFINE p == "reading"
                    e == At(tab[t], p)
        <2>1. /\ tab[t].pc = "pushing"
              /\ p \in {"claiming", "pushing", "reading"}
              /\ tab' = [tab EXCEPT ![t] = e]
              /\ outbox' = outbox \cup claimed[t]
              /\ claimed' = [claimed EXCEPT ![t] = {}]
              /\ calm' = (calm /\ ~tab[t].current)
              /\ UNCHANGED <<account, records, made, lock, online, late>>
            BY <1>6, <1>t DEF Unpushed, Goto, At
        <2>2. /\ e \in Engine /\ Stopped(e, late)
              /\ e.pc = p /\ e.purged = tab[t].purged
            BY <1>s, <1>t, <2>1, PcMoves DEF InPass
        <2>. HIDE DEF e
        <2>3. p \in InPass /\ tab[t].pc \in InPass
            BY <2>1 DEF InPass
        <2>4. /\ claimed'[t] = {}
              /\ \A u \in Tabs : u # t => claimed'[u] = claimed[u]
              /\ claimed' \in [Tabs -> SUBSET (made \ outbox')]
              /\ outbox' \subseteq made
              /\ calm' \in BOOLEAN
            BY <1>t, <1>o, <2>1
        <2>r. RunStep(t, e)
            BY <1>t, <1>o, <2>1, <2>2, <2>3, <2>4 DEF RunStep
        <2>. QED  BY <2>r, <2>2, RunMoves
    <1>10. ASSUME NEW t \in Tabs, CursorRefused(t) PROVE EngineInv'
        <2>. DEFINE p == "reading"
                    e == At(tab[t], p)
        <2>1. /\ tab[t].pc = "pulling"
              /\ p \in {"claiming", "pushing", "reading"}
              /\ tab' = [tab EXCEPT ![t] = e]
              /\ account' = TRUE /\ calm' = FALSE
              /\ UNCHANGED <<outbox, claimed, records, made, lock, online, late>>
            BY <1>10, <1>t DEF CursorRefused, Goto, At
        <2>2. /\ e \in Engine /\ Stopped(e, late)
              /\ e.pc = p /\ e.purged = tab[t].purged
            BY <1>s, <1>t, <2>1, PcMoves DEF InPass
        <2>. HIDE DEF e
        <2>3. p \in InPass /\ tab[t].pc \in InPass
            BY <2>1 DEF InPass
        <2>4. claimed[t] = {} /\ account' \in BOOLEAN /\ calm' \in BOOLEAN
            BY <1>o, <2>1
        <2>r. RunStep(t, e)
            BY <1>t, <1>o, <2>1, <2>2, <2>3, <2>4 DEF RunStep
        <2>. QED  BY <2>r, <2>2, RunMoves
    <1>8. ASSUME NEW t \in Tabs, Pulled(t) PROVE EngineInv'
        <2>. DEFINE e == Drained(tab[t])
        <2>1. /\ tab[t].pc = "pulling"
              /\ tab' = [tab EXCEPT ![t] = e]
              /\ lock' = IF lock = t THEN Nobody ELSE lock
              /\ records' = TRUE /\ account' = TRUE
              /\ UNCHANGED <<outbox, claimed, made, online, calm, late>>
            BY <1>8 DEF Pulled, EndPass
        <2>2. /\ e \in Engine /\ Stopped(e, late)
              /\ e.pc \in {"locking", "settling"} /\ e.purged = tab[t].purged
            BY <1>s, <1>t, <2>1, DrainedMoves
        <2>. HIDE DEF e
        <2>3. e.pc \notin InPass /\ claimed[t] = {}
            BY <1>o, <2>1, <2>2 DEF InPass
        <2>4. account' \in BOOLEAN /\ records' \in BOOLEAN /\ calm' \in BOOLEAN
            BY <1>t, <2>1
        <2>r. RunStep(t, e)
            BY <1>t, <1>o, <2>1, <2>2, <2>3, <2>4 DEF RunStep
        <2>. QED  BY <2>r, <2>2, RunMoves
    <1>9. ASSUME NEW t \in Tabs, Unpulled(t) PROVE EngineInv'
        <2>. DEFINE e == Drained(tab[t])
        <2>1. /\ tab[t].pc = "pulling"
              /\ tab' = [tab EXCEPT ![t] = e]
              /\ lock' = IF lock = t THEN Nobody ELSE lock
              /\ calm' = (calm /\ ~tab[t].current)
              /\ UNCHANGED <<outbox, claimed, account, records, made, online, late>>
            BY <1>9 DEF Unpulled, EndPass, store
        <2>2. /\ e \in Engine /\ Stopped(e, late)
              /\ e.pc \in {"locking", "settling"} /\ e.purged = tab[t].purged
            BY <1>s, <1>t, <2>1, DrainedMoves
        <2>. HIDE DEF e
        <2>3. e.pc \notin InPass /\ claimed[t] = {}
            BY <1>o, <2>1, <2>2 DEF InPass
        <2>4. account' \in BOOLEAN /\ records' \in BOOLEAN /\ calm' \in BOOLEAN
            BY <1>t, <2>1
        <2>r. RunStep(t, e)
            BY <1>t, <1>o, <2>1, <2>2, <2>3, <2>4 DEF RunStep
        <2>. QED  BY <2>r, <2>2, RunMoves
    <1>7. ASSUME NEW t \in Tabs, Read(t) PROVE EngineInv'
        <2>. DEFINE d == Drained(tab[t])
                    p == At(tab[t], "pulling")
        <2>1. /\ tab[t].pc = "reading"
              /\ UNCHANGED <<outbox, claimed, account, records, made, online, calm, late>>
            BY <1>7 DEF Read, store
        <2>2. claimed[t] = {}
            BY <1>o, <2>1
        <2>3. CASE ~(account /\ tab[t].current)
            <3>1. tab' = [tab EXCEPT ![t] = d] /\ lock' = IF lock = t THEN Nobody ELSE lock
                BY <1>7, <2>3 DEF Read, EndPass
            <3>2. /\ d \in Engine /\ Stopped(d, late)
                  /\ d.pc \in {"locking", "settling"} /\ d.purged = tab[t].purged
                BY <1>s, <1>t, <2>1, DrainedMoves
            <3>. HIDE DEF d
            <3>3. d.pc \notin InPass
                BY <3>2 DEF InPass
            <3>r. RunStep(t, d)
                BY <1>t, <1>o, <2>1, <2>2, <3>1, <3>2, <3>3 DEF RunStep
            <3>. QED  BY <3>r, <3>2, RunMoves
        <2>4. CASE account /\ tab[t].current
            <3>1. tab' = [tab EXCEPT ![t] = p] /\ lock' = lock
                BY <1>7, <1>t, <2>4 DEF Read, Goto, At
            <3>2. /\ p \in Engine /\ Stopped(p, late)
                  /\ p.pc = "pulling" /\ p.purged = tab[t].purged
                BY <1>s, <1>t, <2>1, PcMoves DEF InPass
            <3>. HIDE DEF p
            <3>3. p.pc \in InPass /\ tab[t].pc \in InPass
                BY <2>1, <3>2 DEF InPass
            <3>r. RunStep(t, p)
                BY <1>t, <1>o, <2>1, <2>2, <3>1, <3>2, <3>3 DEF RunStep
            <3>. QED  BY <3>r, <3>2, RunMoves
        <2>. QED  BY <2>3, <2>4
    <1>11. ASSUME NEW t \in Tabs, Settle(t) PROVE EngineInv'
        <2>. DEFINE over == At(tab[t], "idle")
                    e == IF over.pending /\ over.current THEN Woken(over) ELSE over
        <2>1. /\ tab[t].pc = "settling"
              /\ made' = made /\ lock' = lock /\ online' = online
              /\ calm' = calm /\ late' = late
              /\ IF over.leaving # {} THEN Purge(t, over)
                 ELSE tab' = [tab EXCEPT ![t] = e] /\ UNCHANGED store
            BY <1>11 DEF Settle, At
        <2>2. /\ over \in Engine
              /\ over.pc = "idle"
              /\ over.open
              /\ over.purged = tab[t].purged
              /\ over.started = tab[t].started
              /\ over.leaving = tab[t].leaving
              /\ tab[t].leaving = {} => Stopped(over, late)
            BY <1>s, <1>t, <2>1, OverMoves
        <2>3. tab[t].pc \notin InPass
            BY <2>1 DEF InPass
        <2>. HIDE DEF over
        <2>4. CASE over.leaving # {}
            <3>1. ~over.started
                BY <1>s, <2>2, <2>4 DEF Stopped
            <3>. QED  BY <1>t, <2>1, <2>2, <2>3, <2>4, <3>1, PurgeMoves
        <2>5. CASE over.leaving = {}
            <3>1. over.purged => late
                BY <1>s, <2>1, <2>2 DEF Stopped
            <3>2. /\ e \in Engine
                  /\ Stopped(e, late)
                  /\ e.pc \in {"idle", "locking"}
                  /\ e.purged = tab[t].purged
                BY <1>t, <2>2, <2>5, <3>1, WokenMoves
            <3>. HIDE DEF e
            <3>3. e.pc \notin InPass /\ claimed[t] = {}
                BY <1>o, <2>1, <3>2 DEF InPass
            <3>r. RunStep(t, e)
                BY <1>t, <1>o, <2>1, <2>3, <2>5, <3>2, <3>3 DEF RunStep, store
            <3>. QED  BY <3>r, <3>2, RunMoves
        <2>. QED  BY <2>4, <2>5
    <1>12. ASSUME NEW t \in Tabs, Hear(t) PROVE EngineInv'
        <2>. DEFINE heard == Heard(tab[t])
                    e == IF heard.started THEN Woken(heard) ELSE heard
        <2>1. /\ tab[t].inbox # << >>
              /\ made' = made /\ lock' = lock /\ online' = online
              /\ calm' = calm /\ late' = late
              /\ IF Head(tab[t].inbox) = "logout" THEN LogOut(t, heard, "remote")
                 ELSE tab' = [tab EXCEPT ![t] = e] /\ UNCHANGED store
            BY <1>12 DEF Hear, Heard
        <2>2. /\ heard \in Engine
              /\ Stopped(heard, late)
              /\ heard.pc = tab[t].pc
              /\ heard.open
              /\ heard.started = tab[t].started
              /\ heard.purged = tab[t].purged
            BY <1>s, <1>t, <2>1, HeardMoves
        <2>. HIDE DEF heard
        <2>3. CASE Head(tab[t].inbox) = "logout"
            BY <1>t, <2>1, <2>2, <2>3, LogOutMoves
        <2>4. CASE Head(tab[t].inbox) # "logout"
            <3>1. tab' = [tab EXCEPT ![t] = e] /\ UNCHANGED <<outbox, claimed, account, records>>
                BY <2>1, <2>4 DEF store
            <3>2. heard.started => ~heard.purged
                BY <2>2 DEF Stopped
            <3>3. /\ e \in Engine
                  /\ Stopped(e, late)
                  /\ e.pc = tab[t].pc \/ (tab[t].pc = "idle" /\ e.pc = "locking")
                  /\ e.purged = tab[t].purged
                <4>1. CASE heard.started
                    <5>1. heard.purged => late
                        BY <3>2, <4>1
                    <5>2. e = Woken(heard)
                        BY <4>1
                    <5>. HIDE DEF e
                    <5>. QED  BY <1>t, <2>2, <5>1, <5>2, WokenMoves
                <4>2. CASE ~heard.started
                    <5>1. e = heard
                        BY <4>2
                    <5>. HIDE DEF e
                    <5>. QED  BY <2>2, <5>1
                <4>. QED  BY <4>1, <4>2
            <3>. HIDE DEF e
            <3>4. /\ tab' \in [Tabs -> Engine]
                  /\ StoppedStays'
                  /\ tab'[t] = e
                  /\ \A u \in Tabs : u # t => /\ tab'[u].pc = tab[u].pc
                                              /\ tab'[u].purged = tab[u].purged
                BY <1>t, <2>1, <3>1, <3>3, TabMoves
            <3>5. EngineTypeOK'
                BY <1>t, <2>1, <3>1, <3>3, <3>4 DEF EngineTypeOK, StoppedStays, Stopped, InPass
            <3>6. LeasedOnce'
                BY <1>o, <3>1, <3>3, <3>4 DEF LeasedOnce
            <3>7. LastPurge'
                BY <1>l, <2>1, <3>1, <3>3, <3>4 DEF LastPurge
            <3>. QED  BY <3>4, <3>5, <3>6, <3>7 DEF EngineInv
        <2>. QED  BY <2>3, <2>4
    <1>13. ASSUME NEW t \in Tabs, ClearLocalData(t) PROVE EngineInv'
        <2>1. /\ tab[t].open /\ LogOut(t, tab[t], "self") /\ calm' = FALSE
              /\ made' = made /\ lock' = lock /\ online' = online /\ late' = late
            BY <1>13 DEF ClearLocalData
        <2>. QED  BY <1>s, <1>t, <2>1, LogOutMoves
    <1>14. ASSUME NEW t \in Tabs, Close(t) PROVE EngineInv'
        <2>. DEFINE e == Closed(tab[t])
        <2>1. /\ tab' = [tab EXCEPT ![t] = e]
              /\ lock' = IF lock = t THEN Nobody ELSE lock
              /\ outbox' = outbox \cup claimed[t]
              /\ claimed' = [claimed EXCEPT ![t] = {}]
              /\ calm' = FALSE
              /\ UNCHANGED <<account, records, made, online, late>>
            BY <1>14, <1>t DEF Close, Closed
        <2>2. /\ e \in Engine
              /\ Stopped(e, late)
              /\ e.pc = "idle"
              /\ e.purged = tab[t].purged
            BY <1>s, <1>t, ClosedMoves
        <2>. HIDE DEF e
        <2>3. /\ tab' \in [Tabs -> Engine]
              /\ StoppedStays'
              /\ tab'[t] = e
              /\ \A u \in Tabs : u # t => /\ tab'[u].pc = tab[u].pc
                                          /\ tab'[u].purged = tab[u].purged
            BY <1>t, <2>1, <2>2, TabMoves
        <2>4. claimed' \in [Tabs -> SUBSET (made' \ outbox')] /\ outbox' \subseteq made'
            BY <1>t, <1>o, <2>1
        <2>5. \A u \in Tabs : WebLocks => (lock' = u <=> tab'[u].pc \in InPass)
            BY <1>t, <2>1, <2>2, <2>3 DEF InPass
        <2>6. EngineTypeOK'
            BY <1>t, <2>1, <2>3, <2>4, <2>5 DEF EngineTypeOK, StoppedStays, Stopped
        <2>7. LeasedOnce'
            BY <1>t, <1>o, <2>1, <2>2, <2>3 DEF LeasedOnce
        <2>8. LastPurge'
            BY <1>t, <1>l, <2>1, <2>2, <2>3 DEF LastPurge
        <2>. QED  BY <2>3, <2>6, <2>7, <2>8 DEF EngineInv
    <1>15. ASSUME GoOffline \/ UNCHANGED engineVars PROVE EngineInv'
        <2>1. /\ UNCHANGED <<outbox, claimed, account, records, made, tab, lock, late>>
              /\ online' \in BOOLEAN /\ calm' \in BOOLEAN
            BY <1>15, <1>t DEF GoOffline, engineVars, store
        <2>2. EngineTypeOK'
            BY <1>t, <2>1 DEF EngineInv, EngineTypeOK
        <2>3. LeasedOnce' /\ StoppedStays' /\ LastPurge'
            BY <2>1 DEF EngineInv, LeasedOnce, StoppedStays, LastPurge
        <2>. QED  BY <2>2, <2>3 DEF EngineInv
    <1>16. ASSUME GoOnline PROVE EngineInv'
        <2>. DEFINE e(u) == IF tab[u].open /\ tab[u].started THEN Woken(tab[u]) ELSE tab[u]
        <2>1. /\ online' = TRUE
              /\ tab' = [u \in Tabs |-> e(u)]
              /\ UNCHANGED <<outbox, claimed, account, records, made, lock, calm, late>>
            BY <1>16 DEF GoOnline, store
        <2>2. ASSUME NEW u \in Tabs
              PROVE  /\ e(u) \in Engine
                     /\ Stopped(e(u), late)
                     /\ e(u).pc = tab[u].pc \/ (tab[u].pc = "idle" /\ e(u).pc = "locking")
                     /\ e(u).purged = tab[u].purged
            <3>1. tab[u].started => ~tab[u].purged
                BY <1>s DEF Stopped
            <3>2. CASE tab[u].open /\ tab[u].started
                <4>1. tab[u].purged => late
                    BY <3>1, <3>2
                <4>2. e(u) = Woken(tab[u])
                    BY <3>2
                <4>. HIDE DEF e
                <4>. QED  BY <1>s, <1>t, <3>2, <4>1, <4>2, WokenMoves
            <3>3. CASE ~(tab[u].open /\ tab[u].started)
                <4>1. e(u) = tab[u]
                    BY <3>3
                <4>. HIDE DEF e
                <4>. QED  BY <1>s, <4>1
            <3>. QED  BY <3>2, <3>3
        <2>. HIDE DEF e
        <2>3. \A u \in Tabs : tab'[u] = e(u)
            BY <2>1
        <2>4. tab' \in [Tabs -> Engine] /\ StoppedStays'
            BY <2>1, <2>2, <2>3 DEF StoppedStays
        <2>5. \A u \in Tabs : tab'[u].leaving # {} => tab'[u].pc # "idle"
            BY <2>4 DEF StoppedStays, Stopped
        <2>6. \A u \in Tabs : tab'[u].pc \in InPass <=> tab[u].pc \in InPass
            BY <2>2, <2>3 DEF InPass
        <2>7. EngineTypeOK'
            BY <1>t, <2>1, <2>4, <2>5, <2>6 DEF EngineTypeOK
        <2>8. LeasedOnce'
            BY <1>o, <2>1, <2>2, <2>3 DEF LeasedOnce
        <2>9. LastPurge'
            BY <1>l, <2>1, <2>2, <2>3 DEF LastPurge
        <2>. QED  BY <2>4, <2>7, <2>8, <2>9 DEF EngineInv
    <1>. QED  BY <1>1, <1>2, <1>3, <1>4, <1>5, <1>6, <1>7, <1>8, <1>9, <1>10, <1>11,
                 <1>12, <1>13, <1>14, <1>15, <1>16 DEF EngineNext, Proceeding, RequestEnds

\* The engines of all tabs and the shared stores are what the model says they
\* are at any time, and with the Web Locks API one tab at most makes a pass.
THEOREM EngineAlways == EngineSpec => []EngineInv
    <1>1. EngineInit => EngineInv
        <2>. SUFFICES ASSUME EngineInit PROVE EngineInv
            OBVIOUS
        <2>1. tab \in [Tabs -> Engine]
            BY DEF EngineInit, Engine
        <2>2. {account, records, online, calm, late} \subseteq BOOLEAN
            BY DEF EngineInit
        <2>3. \A t \in Tabs : tab[t].pc = "locking" /\ tab[t].leaving = {}
            BY DEF EngineInit
        <2>4. EngineTypeOK
            <3>1. /\ outbox \subseteq made /\ made \subseteq Edits
                  /\ claimed \in [Tabs -> SUBSET (made \ outbox)]
                BY DEF EngineInit
            <3>2. lock = Nobody /\ Nobody \notin Tabs
                BY EngineAssumption DEF EngineInit
            <3>3. \A t \in Tabs : lock # t /\ tab[t].pc \notin InPass
                BY <2>3, <3>2 DEF InPass
            <3>. QED  BY <2>1, <2>2, <2>3, <3>1, <3>2, <3>3 DEF EngineTypeOK
        <2>5. LeasedOnce /\ StoppedStays /\ LastPurge
            BY <2>1, EngineAssumption
               DEF EngineInit, LeasedOnce, StoppedStays, Stopped, LastPurge
        <2>. QED  BY <2>4, <2>5 DEF EngineInv
    <1>. QED  BY <1>1, EngineStep, PTL DEF EngineSpec

\* clearAccount in every tab of the account leaves nothing of it in the
\* shared stores, however passes and logouts of tabs meet.
THEOREM LogoutAlwaysPurges == EngineSpec => []LogoutPurges
    <1>1. EngineInv => LogoutPurges
        BY DEF EngineInv, LastPurge, LogoutPurges
    <1>. QED  BY <1>1, EngineAlways, PTL

=============================================================================
