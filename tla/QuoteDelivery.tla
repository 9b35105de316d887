---------------------------- MODULE QuoteDelivery ----------------------------
(***************************************************************************)
(* Quote requests, from the form to the quote service.  A page saves what  *)
(* the user submits to a queue in IndexedDB before htmx posts it, and a    *)
(* scheduler (client/src/quote-delivery-scheduler.ts) posts whatever is    *)
(* still pending, at every wake (client/src/quote-optimistic.ts).  All     *)
(* tabs of an account share the queue and the session cookie.  The route   *)
(* (src/routes/quote.rs, src/quote_api.rs) checks each post and hands it   *)
(* to the quote service under the record id as idempotency key.            *)
(*                                                                         *)
(* The queue (@opto-sync/client) and the quote service are external.  Each *)
(* step of a page is what it does between two awaits that others can see.  *)
(***************************************************************************)
EXTENDS Naturals, Sequences

CONSTANTS
    Tabs,
    Contents,     \* what the user may enter
    Invalid,      \* of these, what the browser lets through and the server does not
    None,
    MaxSaves,     \* bound: quotes saved
    MaxShared,    \* bound: quotes saved before or while several pages work
    MaxSessions,  \* bound: logins
    MaxFailures   \* bound: posts that fail for a passing reason, outages and
                  \* sessions that end

ASSUME QuoteAssumption ==
    /\ Invalid \subseteq Contents
    /\ None \notin Tabs \cup Contents \cup Nat
    /\ {MaxSaves, MaxShared, MaxFailures} \subseteq Nat
    /\ MaxSessions \in Nat \ {0}

VARIABLES
    rows,     \* the mutations of the queue, numbered as they were saved
    page,     \* [Tabs -> the quote page open in a tab, or None]
    wire,     \* posts sent and answers not yet handled
    quotes,   \* external: [Records -> the content of a quote, or None]
    session,  \* the session the cookie names while the server accepts it, or 0
    logins,   \* sessions so far
    online,   \* navigator.onLine
    failures  \* failures so far

server == <<quotes, session, logins, failures>>
quoteVars == <<rows, page, wire, online, server>>

Rows == 1..MaxSaves

\* A client_request_id is the number of the first row saved under it; the
\* id of a form is 0 until a row has been saved under it.
Records == Rows
Sessions == 0..MaxSessions

\* Status codes. NoAnswer stands for a network error, 408, 429 and 5xx too:
\* both ways of posting record a failure then and keep the row.
NoAnswer == 0
OK == 200
Unauthorized == 401
Forbidden == 403
Unprocessable == 422
Statuses == {NoAnswer, OK, Unauthorized, Forbidden, Unprocessable}

\* Runs are only compared with the previous one, so their number is kept
\* relative to it.
Schedule == [phase : {"idle", "flushing"}, flushRequested : BOOLEAN, run : {0}]
InitialSchedule == [phase |-> "idle", flushRequested |-> FALSE, run |-> 0]

Row == [record : Records, content : Contents, status : {"pending", "synced", "failed"}]

Page ==
    [csrf   : Sessions,                      \* the session it was rendered for
     wiring : {"reading", "rendering", "ready", "failed"}, \* of the queue to the form
     unseen : SUBSET Rows,                   \* what wiring has still to show
     record : Records \cup {0},              \* client_request_id of the form
     submit : {"ready", "saved", "issued"},  \* active is set while "issued"
     row    : Rows \cup {0},                 \* the row being submitted
     marks  : SUBSET [row : Rows, status : {"synced", "failed"}], \* not awaited
     sched  : Schedule,
     runs   : Nat,                           \* runs that concatMap has not completed
     rest   : SUBSET Rows,                   \* what a flush has still to deliver
     owed   : BOOLEAN]                       \* history: a wake that no flush has served

ASSUME NoPageAssumption == None \notin Page

Post ==
    [from : Tabs \cup {None}, by : {"submit", "flush"}, row : Rows, record : Records,
     content : Contents, csrf : Sessions, cookie : Sessions,
     status : Statuses \cup {None}]

QuoteTypeOK ==
    /\ rows \in Seq(Row)
    /\ page \in [Tabs -> Page \cup {None}]
    /\ wire \subseteq Post
    /\ quotes \in [Records -> Contents \cup {None}]
    /\ session \in Sessions
    /\ logins \in Sessions
    /\ online \in BOOLEAN
    /\ failures \in 0..MaxFailures

QuoteInit ==
    /\ rows = << >>
    /\ page = [t \in Tabs |-> None]
    /\ wire = {}
    /\ quotes = [r \in Records |-> None]
    /\ session = 1
    /\ logins = 1
    /\ online = TRUE
    /\ failures = 0

-----------------------------------------------------------------------------
(* The queue.                                                              *)

PendingRows == {i \in 1..Len(rows) : rows[i].status = "pending"}

\* They are delivered in the order in which they were saved.
First(some) == CHOOSE i \in some : \A j \in some : i <= j

RowsOf(record) == {i \in 1..Len(rows) : rows[i].record = record}

\* The row whose fields localView shows: the newest pending one. If there is
\* none, the library may show the last one saved or nothing.
Viewed(record, i) ==
    LET pending == {j \in RowsOf(record) : rows[j].status = "pending"}
        candidates == IF pending = {} THEN RowsOf(record) ELSE pending
    IN  i \in candidates /\ \A j \in candidates : j <= i

ViewEmpty(record) == \A j \in RowsOf(record) : rows[j].status # "pending"

Marked(row, status) == [rows EXCEPT ![row].status = status]

-----------------------------------------------------------------------------
(* The scheduler.                                                          *)

\* Mutant of Reduce: a wake during a run is not kept.
ReduceDropping(state, action) ==
    CASE action = "trigger" ->
            IF state.phase = "idle"
            THEN [phase |-> "flushing", flushRequested |-> FALSE, run |-> state.run + 1]
            ELSE state
      [] action = "settled" -> [state EXCEPT !.phase = "idle"]

\* reduceQuoteDeliverySchedule
Reduce(state, action) ==
    LET next == [phase |-> "flushing", flushRequested |-> FALSE, run |-> state.run + 1]
    IN  CASE action = "trigger" ->
                IF state.phase = "idle" THEN next
                ELSE [state EXCEPT !.flushRequested = TRUE]
          [] action = "settled" ->
                IF state.phase = "idle" THEN state
                ELSE IF state.flushRequested THEN next
                ELSE [state EXCEPT !.phase = "idle"]

\* scan, distinctUntilChanged and filter: the page after an action, with one
\* more run if the number of the run has changed.
Fed(p, action) ==
    LET next == Reduce(p.sched, action)
        emitted == next.run # p.sched.run /\ next.phase = "flushing"
    IN  [p EXCEPT !.sched = [next EXCEPT !.run = 0],
                  !.runs = IF emitted THEN @ + 1 ELSE @]

Woken(p) == [Fed(p, "trigger") EXCEPT !.owed = TRUE]

\* finalize: the flush of the current run is over, for good or with an error.
Completed(p) == Fed([p EXCEPT !.rest = {}, !.runs = @ - 1], "settled")

\* The loop of flush over the rows it has still to deliver.
Left(p, rest) == IF rest = {} THEN Completed(p) ELSE [p EXCEPT !.rest = rest]

Show(t, p) == page' = [page EXCEPT ![t] = p]
IsOpen(t) == page[t] # None

\* The button is enabled and the scheduler listens to its wakes.
IsReady(t) == IsOpen(t) /\ page[t].wiring = "ready"

\* It is open, and its wiring has not failed.
Works(t) == IsOpen(t) /\ page[t].wiring # "failed"

\* A wake: the retry timer, or the page becoming visible.
Wake(t) ==
    /\ IsReady(t)
    /\ Show(t, Woken(page[t]))
    /\ UNCHANGED <<rows, wire, online, server>>

GoOffline ==
    /\ online
    /\ failures < MaxFailures
    /\ failures' = failures + 1
    /\ online' = FALSE
    /\ UNCHANGED <<rows, page, wire, quotes, session, logins>>

\* The "online" event wakes every scheduler.
GoOnline ==
    /\ ~online
    /\ online' = TRUE
    /\ page' = [t \in Tabs |-> IF IsReady(t) THEN Woken(page[t]) ELSE page[t]]
    /\ UNCHANGED <<rows, wire, server>>

-----------------------------------------------------------------------------
(* Pages.                                                                  *)

\* QuoteSessionAuthenticated
SignedIn(post) == post.cookie # 0 /\ post.cookie = session

\* require_csrf: the token is a hash of the session token.
CsrfMatches(post) == post.csrf = post.cookie

NewPage == [csrf |-> session, wiring |-> "reading", unseen |-> {},
            record |-> 0, submit |-> "ready", row |-> 0,
            marks |-> {}, sched |-> InitialSchedule, runs |-> 0,
            rest |-> {}, owed |-> FALSE]

\* GET /u/quote is answered to a signed-in user only.
Open(t) ==
    /\ ~IsOpen(t)
    /\ (\E u \in Tabs : Works(u)) => Len(rows) <= MaxShared
    /\ session # 0
    /\ Show(t, NewPage)
    /\ UNCHANGED <<rows, wire, online, server>>

\* wireQuoteOptimisticWrites has some rows left to show, or is done and gives
\* the scheduler its first wake.
Rendered(p, some) ==
    IF some = {}
    THEN Woken([p EXCEPT !.wiring = "ready", !.unseen = {}])
    ELSE [p EXCEPT !.wiring = "rendering", !.unseen = some]

\* renderPending: the queue is read.
Prepare(t) ==
    /\ IsOpen(t)
    /\ page[t].wiring = "reading"
    /\ Show(t, Rendered(page[t], PendingRows))
    /\ UNCHANGED <<rows, wire, online, server>>

\* One of its rows is shown; if another tab has settled it meanwhile there
\* may be no fields to show, and the page stays as it is until it is reloaded.
Render(t) ==
    /\ IsOpen(t)
    /\ page[t].wiring = "rendering"
    /\ LET row == First(page[t].unseen)
       IN  \/ Show(t, Rendered(page[t], page[t].unseen \ {row}))
           \/ /\ ViewEmpty(rows[row].record)
              /\ Show(t, [page[t] EXCEPT !.wiring = "failed", !.unseen = {}])
    /\ UNCHANGED <<rows, wire, online, server>>

\* Nobody awaits a post any more. Of such posts only those that the server
\* may still accept are kept, and of them only what it looks at.
Unawaited(post) == [post EXCEPT !.from = None, !.by = "flush", !.row = post.record]

\* The page is gone, with what it had not done; its posts travel on.
Unload(t) ==
    LET own == {post \in wire : post.from = t}
    IN  /\ Show(t, None)
        /\ wire' = (wire \ own) \cup
               {Unawaited(post) : post \in {p \in own : p.status = None /\ SignedIn(p)
                                                                  /\ CsrfMatches(p)}}

Close(t) ==
    /\ IsOpen(t)
    /\ Unload(t)
    /\ UNCHANGED <<rows, online, server>>

-----------------------------------------------------------------------------
(* Submitting the form.                                                    *)

\* Posting row i with the content of row j. Without a network the browser
\* fails the request at once.
Posted(t, by, i, j) ==
    [from |-> t, by |-> by, row |-> i, record |-> rows[i].record,
     content |-> rows[j].content, csrf |-> page[t].csrf, cookie |-> session,
     status |-> IF online THEN None ELSE NoAnswer]

\* htmx:confirm, up to the transaction of enqueue. The button is disabled
\* until the request has ended.
Confirm(t, content) ==
    LET row == Len(rows) + 1
        record == IF page[t].record = 0 THEN row ELSE page[t].record
    IN  /\ IsReady(t)
        /\ page[t].submit = "ready"
        /\ row <= MaxSaves
        /\ (\E u \in Tabs \ {t} : Works(u)) => row <= MaxShared
        /\ rows' = Append(rows, [record |-> record, content |-> content,
                                 status |-> "pending"])
        /\ Show(t, [page[t] EXCEPT !.submit = "saved", !.row = row, !.record = record])
        /\ UNCHANGED <<wire, online, server>>

\* The rest of htmx:confirm: active is set and the request is issued.
Issue(t) ==
    /\ IsOpen(t)
    /\ page[t].submit = "saved"
    /\ Show(t, [page[t] EXCEPT !.submit = "issued"])
    /\ wire' = wire \cup {Posted(t, "submit", page[t].row, page[t].row)}
    /\ UNCHANGED <<rows, online, server>>

Rejected(status) == status >= 400 /\ status < 500

\* Mutant of Finished: active stays set unless the post succeeded.
FinishedOnSuccess(p, status) ==
    IF status = OK
    THEN [p EXCEPT !.submit = "ready", !.record = 0,
                   !.marks = @ \cup {[row |-> p.row, status |-> "synced"]}]
    ELSE p

\* htmx:afterRequest: active is cleared, the form gets a new id after a
\* success only, and the row is marked without waiting for it.
Finished(p, status) ==
    LET mark(s) == {[row |-> p.row, status |-> s]}
        over == [p EXCEPT !.submit = "ready", !.row = 0]
    IN  IF status = OK
        THEN [over EXCEPT !.record = 0, !.marks = @ \cup mark("synced")]
        ELSE IF Rejected(status)
        THEN [over EXCEPT !.marks = @ \cup mark("failed")]
        ELSE over

\* With 401 htmx has already followed HX-Redirect: a Close will come, before
\* the mark is made or after.
AfterRequest(t) ==
    \E post \in wire :
        /\ post.from = t /\ post.by = "submit" /\ post.status # None
        /\ Show(t, Finished(page[t], post.status))
        /\ wire' = wire \ {post}
        /\ UNCHANGED <<rows, online, server>>

Mark(t) ==
    /\ IsOpen(t)
    /\ \E m \in page[t].marks :
          /\ rows' = Marked(m.row, m.status)
          /\ Show(t, [page[t] EXCEPT !.marks = @ \ {m}])
    /\ UNCHANGED <<wire, online, server>>

-----------------------------------------------------------------------------
(* Flushing the queue.                                                     *)

\* flush: the queue is read, unless there is no network.
StartFlush(t) ==
    /\ IsOpen(t)
    /\ page[t].runs > 0 /\ page[t].rest = {}
    /\ Show(t, Left([page[t] EXCEPT !.owed = FALSE],
                    IF online THEN PendingRows ELSE {}))
    /\ UNCHANGED <<rows, wire, online, server>>

Submitting(t, record) ==
    page[t].submit = "issued" /\ rows[page[t].row].record = record

\* deliver, up to the answer: the row is left to the form that submits its
\* record, or posted with the fields that localView shows; if there are none
\* the flush ends with an error.
Deliver(t) ==
    /\ IsOpen(t)
    /\ page[t].rest # {}
    /\ \A post \in wire : ~(post.from = t /\ post.by = "flush")
    /\ LET row == First(page[t].rest)
           record == rows[row].record
       IN  \/ /\ Submitting(t, record)
              /\ Show(t, Left(page[t], page[t].rest \ {row}))
              /\ UNCHANGED wire
           \/ /\ ~Submitting(t, record)
              /\ \E j \in 1..Len(rows) :
                    /\ Viewed(record, j)
                    /\ wire' = wire \cup {Posted(t, "flush", row, j)}
              /\ UNCHANGED page
           \/ /\ ~Submitting(t, record)
              /\ ViewEmpty(record)
              /\ Show(t, Completed(page[t]))
              /\ UNCHANGED wire
    /\ UNCHANGED <<rows, online, server>>

\* deliver, from the answer on. After a 401 the page is being left, and the
\* flush goes on until a Close comes.
Delivered(t) ==
    \E post \in wire :
        /\ post.from = t /\ post.by = "flush" /\ post.status # None
        /\ rows' = IF post.status = OK THEN Marked(post.row, "synced")
                   ELSE IF Rejected(post.status) /\ post.status # Unauthorized
                   THEN Marked(post.row, "failed")
                   ELSE rows
        /\ Show(t, Left(page[t], page[t].rest \ {post.row}))
        /\ wire' = wire \ {post}
        /\ UNCHANGED <<online, server>>

-----------------------------------------------------------------------------
(* The server.                                                             *)

\* into_request, and the service's answer to a key used with other content.
Acceptable(post) ==
    /\ post.content \notin Invalid
    /\ quotes[post.record] \in {None, post.content}

\* Mutant of Denial: the page is served the sign-in page.
DenialBySignInPage == OK

\* auth_redirect_response to a request of htmx, or one that says so.
Denial == Unauthorized

Answer(post, status) ==
    wire' = (wire \ {post}) \cup
        (IF post.from = None THEN {} ELSE {[post EXCEPT !.status = status]})

\* submit, when it refuses.
Refuse(post) ==
    /\ Answer(post, IF ~SignedIn(post) THEN Denial
                    ELSE IF ~CsrfMatches(post) THEN Forbidden
                    ELSE Unprocessable)
    /\ ~(SignedIn(post) /\ CsrfMatches(post) /\ Acceptable(post))
    /\ UNCHANGED <<quotes, failures>>

Accepted(post) ==
    /\ SignedIn(post) /\ CsrfMatches(post) /\ Acceptable(post)
    /\ quotes' = [quotes EXCEPT ![post.record] = post.content]

\* submit, with the quote created, or found, and read back.
Accept(post) ==
    /\ Accepted(post)
    /\ Answer(post, OK)
    /\ UNCHANGED failures

\* The post or its answer is lost, or a service is busy or unavailable, before
\* or after the quote has been created; or the quote cannot be read back, which
\* is answered like a refusal.
Disturb(post) ==
    /\ failures < MaxFailures
    /\ failures' = failures + 1
    /\ \/ (Accepted(post) \/ UNCHANGED quotes) /\ Answer(post, NoAnswer)
       \/ Accepted(post) /\ Answer(post, Unprocessable)

Serve(post) ==
    /\ post.status = None
    /\ Refuse(post) \/ Accept(post) \/ Disturb(post)
    /\ UNCHANGED <<rows, page, online, session, logins>>

SessionEnds ==
    /\ session # 0
    /\ failures < MaxFailures
    /\ failures' = failures + 1
    /\ session' = 0
    /\ UNCHANGED <<rows, page, wire, online, quotes, logins>>

Login ==
    /\ session = 0
    /\ logins < MaxSessions
    /\ logins' = logins + 1
    /\ session' = logins + 1
    /\ UNCHANGED <<rows, page, wire, online, quotes, failures>>

-----------------------------------------------------------------------------

Wiring(t) == Prepare(t) \/ Render(t)

Flushing(t) ==
    \/ StartFlush(t)
    \/ Deliver(t)
    \/ Delivered(t)

Submission(t) == Issue(t) \/ AfterRequest(t) \/ Mark(t)

QuoteNext ==
    \/ \E t \in Tabs :
          \/ Open(t) \/ Wiring(t) \/ Close(t) \/ Wake(t)
          \/ \E content \in Contents : Confirm(t, content)
          \/ Submission(t) \/ Flushing(t)
    \/ \E post \in wire : Serve(post)
    \/ SessionEnds \/ Login \/ GoOffline \/ GoOnline

QuoteSpec == QuoteInit /\ [][QuoteNext]_quoteVars

\* The retry timer of a page goes off and its event loop goes on. Nothing
\* bounds the time a post takes.
FairQuoteSpec ==
    /\ QuoteSpec
    /\ \A t \in Tabs :
          /\ WF_quoteVars(Wiring(t))
          /\ WF_quoteVars(Wake(t))
          /\ WF_quoteVars(Submission(t))
          /\ WF_quoteVars(Flushing(t))

-----------------------------------------------------------------------------
(* What delivery promises.                                                 *)

\* What the user is told was delivered is at the quote service under the id
\* of the row, with something he saved under that id, whichever way it was
\* posted and however often (quote-optimistic.test.ts: "settles only after
\* acknowledgement").
SyncedIsAccepted ==
    \A i \in 1..Len(rows) :
        rows[i].status = "synced" =>
            \E j \in RowsOf(rows[i].record) : quotes[rows[i].record] = rows[j].content

\* A wake during a flush leads to one trailing flush, which reads the queue
\* after the wake, and never to concurrent ones or a backlog
\* (quote-delivery-scheduler.ts, QuoteDeliveryScheduleState).
WakesCoalesce ==
    \A t \in Tabs : IsOpen(t) =>
        /\ page[t].runs = (IF page[t].sched.phase = "flushing" THEN 1 ELSE 0)
        /\ page[t].owed => \/ page[t].sched.flushRequested
                           \/ page[t].runs > 0 /\ page[t].rest = {}

\* Assumed of the network: no post of a page lasts for ever.
PostsEnd ==
    \A t \in Tabs, by \in {"submit", "flush"} :
        []<>~\E post \in wire : post.from = t /\ post.by = by /\ post.status = None

\* As long as some page of the current session is open and online, and its
\* wiring has not failed, the queue is emptied again and again: whatever other
\* tabs do, and whichever posts were lost before, every saved quote is delivered
\* or refused, unless a post lasts for ever.
SavedQuotesSettle ==
    LET Served(t) == /\ Works(t) /\ online
                     /\ session # 0 /\ page[t].csrf = session
    IN  PostsEnd => \A t \in Tabs : []<>(PendingRows = {} \/ ~Served(t))

-----------------------------------------------------------------------------
(* What user and quote service see of it.                                  *)

Book == INSTANCE QuoteBook WITH saved <- rows

\* However many tabs post a saved quote, by the form and by flushes, with
\* answers lost, sessions ended and pages left: one quote at most is created
\* under an id, from a valid request saved under it, and is never replaced;
\* what was saved is neither lost nor rewritten; and nothing is shown as
\* delivered before its quote exists.
ImplementsBook == Book!BookSpec
=============================================================================
