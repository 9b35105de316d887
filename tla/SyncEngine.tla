----------------------------- MODULE SyncEngine -----------------------------
(***************************************************************************)
(* When the tabs of one account sync (client/src/sync/engine.ts): wakes,   *)
(* the drain loop and its end, the leader lock, the announcements between  *)
(* tabs, and the logout that must purge what they share.                   *)
(*                                                                         *)
(* What a pass does to records and operations is the subject of            *)
(* OfflineSync; here an edit is an indivisible item, and the shared stores *)
(* only tell whether they hold anything.  A step of a tab is what it does  *)
(* between two awaits that others can see: a store transaction, an answer, *)
(* or a callback.                                                          *)
(***************************************************************************)
EXTENDS Naturals, Sequences

CONSTANTS
    Tabs,
    Edits,
    WebLocks,   \* navigator.locks exists
    Nobody

ASSUME EngineAssumption ==
    /\ Tabs # {}
    /\ WebLocks \in BOOLEAN
    /\ Nobody \notin Tabs

VARIABLES
    outbox,     \* edits queued
    claimed,    \* [Tabs -> edits leased by the tab]
    account,    \* the accountState row exists
    records,    \* there are confirmed records
    made,       \* edits made so far
    tab,        \* [Tabs -> the engine of a tab]
    lock,       \* who holds the leader lock
    online,     \* navigator.onLine
    calm,       \* history: no failed request, closed tab or logout so far
    late        \* history: a tab began to sync after it had been logged out

store == <<outbox, claimed, account, records>>
engineVars == <<store, made, tab, lock, online, calm, late>>

InPass == {"claiming", "pushing", "reading", "pulling"}

Engine ==
    [open    : BOOLEAN,
     started : BOOLEAN,
     pc      : {"idle", "locking", "settling"} \cup InPass,  \* runningSync
     pending : BOOLEAN,                                      \* pendingSync
     current : BOOLEAN,              \* the run is of this syncGeneration
     inbox   : Seq({"local", "logout"}),                     \* broadcastChannel
     leaving : SUBSET {"self", "remote"},   \* logouts that wait for the run
     purged  : BOOLEAN]              \* the tab has dealt with a logout

EngineTypeOK ==
    /\ outbox \subseteq made
    /\ made \subseteq Edits
    /\ claimed \in [Tabs -> SUBSET (made \ outbox)]
    /\ {account, records, online, calm, late} \subseteq BOOLEAN
    /\ tab \in [Tabs -> Engine]
    /\ lock \in Tabs \cup {Nobody}
    /\ \A t \in Tabs : WebLocks => (lock = t <=> tab[t].pc \in InPass)
    /\ \A t \in Tabs : tab[t].leaving # {} => tab[t].pc # "idle"

EngineInit ==
    /\ outbox = {}
    /\ claimed = [t \in Tabs |-> {}]
    /\ account = TRUE
    /\ records = FALSE
    /\ made = {}
    /\ tab = [t \in Tabs |->
          [open |-> TRUE, started |-> TRUE, pc |-> "locking", pending |-> FALSE,
           current |-> TRUE, inbox |-> << >>, leaving |-> {}, purged |-> FALSE]]
    /\ lock = Nobody
    /\ online = TRUE
    /\ calm = TRUE
    /\ late = FALSE

-----------------------------------------------------------------------------
(* Wakes.                                                                  *)

\* syncNow
Woken(e) ==
    IF e.pc # "idle" THEN [e EXCEPT !.pending = TRUE]
    ELSE [e EXCEPT !.pc = "locking", !.pending = FALSE, !.current = TRUE]

\* postMessage(m): every other tab will hear it.
Post(t, m) ==
    [u \in Tabs |-> IF u # t /\ tab[u].open
                    THEN [tab[u] EXCEPT !.inbox = Append(@, m)] ELSE tab[u]]

\* putDraftNote, deleteDraftNote
Edit(t, n) ==
    /\ tab[t].open
    /\ tab[t].started
    /\ n \notin made
    /\ made' = made \cup {n}
    /\ outbox' = outbox \cup {n}
    /\ tab' = [Post(t, "local") EXCEPT ![t] = Woken(@)]
    /\ UNCHANGED <<claimed, account, records, lock, online, calm, late>>

\* The poll, the page becoming visible, or a frame on the socket. The page
\* passes frames on whether or not the engine has been stopped.
Wake(t) ==
    /\ tab[t].open
    /\ tab' = [tab EXCEPT ![t] = Woken(@)]
    /\ late' = (late \/ tab[t].purged)
    /\ UNCHANGED <<store, made, lock, online, calm>>

GoOffline ==
    /\ online
    /\ online' = FALSE
    /\ UNCHANGED <<store, made, tab, lock, calm, late>>

\* The "online" event wakes the engines that listen.
GoOnline ==
    /\ ~online
    /\ online' = TRUE
    /\ tab' = [t \in Tabs |-> IF tab[t].open /\ tab[t].started
                              THEN Woken(tab[t]) ELSE tab[t]]
    /\ UNCHANGED <<store, made, lock, calm, late>>

-----------------------------------------------------------------------------
(* The drain loop.                                                         *)

\* Mutant of Drained: a cancelled run goes on when it was woken.
DrainedAgain(e) ==
    IF e.pending THEN [e EXCEPT !.pc = "locking", !.pending = FALSE]
    ELSE [e EXCEPT !.pc = "settling"]

\* withLeaderLock returns to drainSyncRequests.
Drained(e) ==
    IF e.pending /\ e.current THEN [e EXCEPT !.pc = "locking", !.pending = FALSE]
    ELSE [e EXCEPT !.pc = "settling"]

Goto(t, pc) == tab' = [tab EXCEPT ![t].pc = pc]

\* The callback of locks.request: nobody waits for the lock.
AskLock(t) ==
    /\ tab[t].pc = "locking"
    /\ IF (WebLocks /\ lock # Nobody) \/ ~tab[t].current \/ ~online
       THEN /\ tab' = [tab EXCEPT ![t] = Drained(@)]
            /\ UNCHANGED lock
       ELSE /\ Goto(t, "claiming")
            /\ lock' = IF WebLocks THEN t ELSE lock
    /\ UNCHANGED <<store, made, online, calm, late>>

\* syncPass returns, and the lock is released.
EndPass(t) ==
    /\ tab' = [tab EXCEPT ![t] = Drained(@)]
    /\ lock' = IF lock = t THEN Nobody ELSE lock

\* pushOnce: claimDueMutations
Claim(t) ==
    /\ tab[t].pc = "claiming"
    /\ claimed' = [claimed EXCEPT ![t] = outbox]
    /\ outbox' = {}
    /\ Goto(t, IF outbox = {} THEN "reading" ELSE "pushing")
    /\ UNCHANGED <<account, records, made, lock, online, calm, late>>

\* The results arrive; what a logout has purged meanwhile is skipped.
Pushed(t) ==
    /\ tab[t].pc = "pushing"
    /\ tab[t].current
    /\ claimed' = [claimed EXCEPT ![t] = {}]
    /\ records' = (records \/ claimed[t] # {})
    /\ Goto(t, "claiming")
    /\ UNCHANGED <<outbox, account, made, lock, online, calm, late>>

\* No results, or none that may be used: the operations are queued again.
Unpushed(t) ==
    /\ tab[t].pc = "pushing"
    /\ outbox' = outbox \cup claimed[t]
    /\ claimed' = [claimed EXCEPT ![t] = {}]
    /\ Goto(t, "reading")
    /\ calm' = (calm /\ ~tab[t].current)
    /\ UNCHANGED <<account, records, made, lock, online, late>>

\* pullOnce: getAccountState throws if there is no row; the request of a
\* cancelled run is refused.
Read(t) ==
    /\ tab[t].pc = "reading"
    /\ IF account /\ tab[t].current THEN Goto(t, "pulling") /\ UNCHANGED lock
       ELSE EndPass(t)
    /\ UNCHANGED <<store, made, online, calm, late>>

\* The last page arrives and is applied.
Pulled(t) ==
    /\ tab[t].pc = "pulling"
    /\ tab[t].current
    /\ records' = TRUE
    /\ account' = TRUE
    /\ EndPass(t)
    /\ UNCHANGED <<outbox, claimed, made, online, calm, late>>

\* The request fails, or its page is dropped.
Unpulled(t) ==
    /\ tab[t].pc = "pulling"
    /\ EndPass(t)
    /\ calm' = (calm /\ ~tab[t].current)
    /\ UNCHANGED <<store, made, online, late>>

\* The service refuses the cursor: resetPullCursor, and once more.
CursorRefused(t) ==
    /\ tab[t].pc = "pulling"
    /\ tab[t].current
    /\ account' = TRUE
    /\ Goto(t, "reading")
    /\ calm' = FALSE
    /\ UNCHANGED <<outbox, claimed, records, made, lock, online, late>>

-----------------------------------------------------------------------------
(* Logout.                                                                 *)

\* stop and cancelActiveSync
Cancelled(e) == [e EXCEPT !.started = FALSE, !.pending = FALSE, !.current = FALSE]

\* clearAccount, by tab t once its run is over; whoever began the logout
\* tells the others.
Purge(t, e) ==
    /\ outbox' = {}
    /\ claimed' = [u \in Tabs |-> {}]
    /\ account' = FALSE
    /\ records' = FALSE
    /\ tab' = [(IF "self" \in e.leaving THEN Post(t, "logout") ELSE tab)
                  EXCEPT ![t] = [e EXCEPT !.leaving = {}, !.purged = TRUE]]

\* clearLocalData and handleRemoteLogout: the purge waits for the run.
LogOut(t, e, who) ==
    LET left == [Cancelled(e) EXCEPT !.leaving = @ \cup {who}]
    IN  IF e.pc = "idle" THEN Purge(t, left)
        ELSE tab' = [tab EXCEPT ![t] = left] /\ UNCHANGED store

ClearLocalData(t) ==
    /\ tab[t].open
    /\ tab[t].started
    /\ LogOut(t, tab[t], "self")
    /\ calm' = FALSE
    /\ UNCHANGED <<made, lock, online, late>>

\* Mutant of Hear: a logout of another tab stops nothing.
HearLocal(t) ==
    /\ tab[t].inbox # << >>
    /\ LET heard == [tab[t] EXCEPT !.inbox = Tail(@)]
       IN  tab' = [tab EXCEPT ![t] =
               IF heard.started /\ Head(tab[t].inbox) = "local" THEN Woken(heard)
               ELSE [heard EXCEPT !.purged = (Head(tab[t].inbox) = "logout")]]
    /\ UNCHANGED <<store, made, lock, online, calm, late>>

\* broadcastChannel.onmessage
Hear(t) ==
    /\ tab[t].inbox # << >>
    /\ LET heard == [tab[t] EXCEPT !.inbox = Tail(@)]
       IN  IF Head(tab[t].inbox) = "logout" THEN LogOut(t, heard, "remote")
           ELSE /\ tab' = [tab EXCEPT ![t] = IF heard.started THEN Woken(heard)
                                             ELSE heard]
                /\ UNCHANGED store
    /\ UNCHANGED <<made, lock, online, calm, late>>

\* Mutant of Settle: a wake that comes after the last check is not kept.
SettleForgetting(t) ==
    LET over == [tab[t] EXCEPT !.pc = "idle"]
    IN  /\ tab[t].pc = "settling"
        /\ IF over.leaving # {} THEN Purge(t, over)
           ELSE tab' = [tab EXCEPT ![t] = over] /\ UNCHANGED store
        /\ UNCHANGED <<made, lock, online, calm, late>>

\* The finally of syncNow. A logout that awaits the run goes on in the same
\* turn of the event loop.
Settle(t) ==
    LET over == [tab[t] EXCEPT !.pc = "idle"]
    IN  /\ tab[t].pc = "settling"
        /\ IF over.leaving # {} THEN Purge(t, over)
           ELSE /\ tab' = [tab EXCEPT ![t] =
                      IF over.pending /\ over.current THEN Woken(over) ELSE over]
                /\ UNCHANGED store
        /\ UNCHANGED <<made, lock, online, calm, late>>

\* The tab is closed or crashes: the browser releases its lock, and its
\* leases run out.
Close(t) ==
    /\ tab[t].open
    /\ tab' = [tab EXCEPT ![t] =
          [@ EXCEPT !.open = FALSE, !.started = FALSE, !.pc = "idle",
                    !.pending = FALSE, !.inbox = << >>, !.leaving = {}]]
    /\ lock' = IF lock = t THEN Nobody ELSE lock
    /\ outbox' = outbox \cup claimed[t]
    /\ claimed' = [claimed EXCEPT ![t] = {}]
    /\ calm' = FALSE
    /\ UNCHANGED <<account, records, made, online, late>>

-----------------------------------------------------------------------------

\* A request of the run is under way. Nothing bounds the time it takes.
Waiting(t) == tab[t].pc \in {"pushing", "pulling"}

\* It ends in an answer or in an error.
RequestEnds(t) ==
    \/ Pushed(t) \/ Unpushed(t)
    \/ Pulled(t) \/ Unpulled(t) \/ CursorRefused(t)

\* What the run does by itself.
Proceeding(t) ==
    \/ AskLock(t)
    \/ Claim(t)
    \/ Read(t)
    \/ Settle(t)

EngineNext ==
    \/ \E t \in Tabs :
          \/ \E n \in Edits : Edit(t, n)
          \/ Wake(t) \/ Hear(t) \/ ClearLocalData(t) \/ Close(t)
          \/ Proceeding(t) \/ RequestEnds(t)
    \/ GoOffline \/ GoOnline

EngineSpec == EngineInit /\ [][EngineNext]_engineVars

\* The event loop of each tab goes on: its run proceeds, an aborted request
\* ends, and messages are delivered. No poll need come, and a request that
\* nobody aborts need not end.
FairEngineSpec ==
    /\ EngineSpec
    /\ \A t \in Tabs :
          /\ WF_engineVars(Proceeding(t))
          /\ WF_engineVars(~tab[t].current /\ RequestEnds(t))
          /\ WF_engineVars(Hear(t))

-----------------------------------------------------------------------------
(* What the scheduling promises.                                           *)

\* Assumed of the network: no request lasts for ever.
RequestsEnd == \A t \in Tabs : []<>~Waiting(t)

\* No wake is lost: without any poll, in whichever tab an edit is made and
\* whatever the tabs are doing at that moment, a pass takes it to the
\* service, and an edit made offline goes when the network is back; unless a
\* request fails or lasts for ever, a tab closes or the user logs out.
EditsReachThePass ==
    RequestsEnd =>
        \A n \in Edits :
            (n \in outbox /\ calm /\ online)
                ~> (n \notin outbox \/ ~calm \/ ~online)

\* When every tab has dealt with a logout, the shared stores are empty,
\* although passes of several tabs were under way and each tab purges on its
\* own; unless a frame has set a tab going again in the meantime.
LogoutPurges ==
    (/\ \A t \in Tabs : tab[t].purged /\ tab[t].leaving = {} /\ tab[t].inbox = << >>
     /\ ~late)
    => outbox = {} /\ ~account /\ ~records /\ \A t \in Tabs : claimed[t] = {}

\* A logout that waits for the run of its tab is not kept waiting, however
\* many wakes come and although the request of the run might never end.
LogoutsFinish ==
    \A t \in Tabs : (tab[t].leaving # {}) ~> (tab[t].leaving = {})
=============================================================================
