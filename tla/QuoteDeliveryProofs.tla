------------------------- MODULE QuoteDeliveryProofs -------------------------
(***************************************************************************)
(* The safety properties of QuoteDelivery, proved for every number of      *)
(* tabs, saved quotes, sessions and failures.                              *)
(***************************************************************************)
EXTENDS QuoteDelivery, SequenceTheorems, WellFoundedInduction, NaturalsInduction, TLAPS

-----------------------------------------------------------------------------
(* The inductive invariant, of rows rs, quotes qs, pages and posts.        *)

\* A quote has the content of some row saved under its id, and exists once a
\* row says that it was delivered.
QuotesBacked(rs, qs) ==
    /\ \A r \in Records :
          qs[r] # None => \E j \in 1..Len(rs) : rs[j].record = r /\ rs[j].content = qs[r]
    /\ \A i \in 1..Len(rs) : rs[i].status = "synced" => qs[rs[i].record] # None

\* What an open page submits, delivers or is about to mark is saved, and was
\* delivered if it is to be marked so; a form that has an id had a row saved
\* under it.
PageBacked(p, rs, qs) ==
    /\ p.record # 0 => \E j \in 1..Len(rs) : rs[j].record = p.record
    /\ p.submit # "ready" => p.row \in 1..Len(rs)
    /\ p.rest \subseteq 1..Len(rs)
    /\ \A m \in p.marks :
          /\ m.row \in 1..Len(rs)
          /\ m.status = "synced" => qs[rs[m.row].record] # None

\* An open page has one run while its scheduler says so, a flush that is
\* under way belongs to it, and no wake is forgotten.
PageScheduled(p) ==
    /\ p.runs = (IF p.sched.phase = "flushing" THEN 1 ELSE 0)
    /\ p.rest # {} => p.sched.phase = "flushing"
    /\ p.owed => p.sched.flushRequested \/ (p.runs > 0 /\ p.rest = {})

\* A post has the content of a row of its record, and is answered with 200
\* only once the quote exists.
PostBacked(post, rs, qs) ==
    /\ \E j \in 1..Len(rs) : rs[j].record = post.record /\ rs[j].content = post.content
    /\ post.status = OK => qs[post.record] # None
    /\ post.from # None => post.row \in 1..Len(rs) /\ rs[post.row].record = post.record

\* The page that awaits a post is open and waits for nothing else meanwhile.
Awaited(post, p) ==
    /\ p # None
    /\ post.by = "submit" => p.submit = "issued" /\ p.row = post.row
    /\ post.by = "flush" => p.rest # {}

Apart(a, b) == a.from # None /\ a.from = b.from /\ a.by = b.by => a = b

QuoteInv ==
    /\ QuoteTypeOK
    /\ Len(rows) <= MaxSaves
    /\ QuotesBacked(rows, quotes)
    /\ \A t \in Tabs : IsOpen(t) => PageBacked(page[t], rows, quotes) /\ PageScheduled(page[t])
    /\ \A post \in wire :
          /\ PostBacked(post, rows, quotes)
          /\ post.from # None => Awaited(post, page[post.from])
    /\ \A a, b \in wire : Apart(a, b)

-----------------------------------------------------------------------------
(* Lemmas about rows and quotes.                                           *)

\* Rows are added and marked, and quotes are created; neither changes what
\* it says.
Kept(rs, qs, rs2, qs2) ==
    /\ Len(rs) <= Len(rs2)
    /\ \A i \in 1..Len(rs) : rs2[i].record = rs[i].record /\ rs2[i].content = rs[i].content
    /\ \A r \in Records : qs[r] # None => qs2[r] = qs[r]

Quotes == [Records -> Contents \cup {None}]

LEMMA PageStays ==
    ASSUME NEW rs \in Seq(Row), NEW rs2 \in Seq(Row), NEW qs \in Quotes, NEW qs2 \in Quotes,
           Kept(rs, qs, rs2, qs2),
           NEW p, PageBacked(p, rs, qs)
    PROVE  PageBacked(p, rs2, qs2)
    <1>1. Len(rs) \in Nat /\ Len(rs2) \in Nat
        OBVIOUS
    <1>2. \A i \in 1..Len(rs) : i \in 1..Len(rs2) /\ rs[i].record \in Records
        <2>. SUFFICES ASSUME NEW i \in 1..Len(rs)
                      PROVE  i \in 1..Len(rs2) /\ rs[i].record \in Records
            OBVIOUS
        <2>1. rs[i] \in Row
            BY ElementOfSeq
        <2>. QED  BY <1>1, <2>1 DEF Kept, Row
    <1>. QED  BY <1>2 DEF PageBacked, Kept

LEMMA PostStays ==
    ASSUME NEW rs \in Seq(Row), NEW rs2 \in Seq(Row), NEW qs \in Quotes, NEW qs2 \in Quotes,
           Kept(rs, qs, rs2, qs2),
           NEW post \in Post, PostBacked(post, rs, qs)
    PROVE  PostBacked(post, rs2, qs2)
    <1>1. Len(rs) \in Nat /\ Len(rs2) \in Nat
        OBVIOUS
    <1>2. \A i \in 1..Len(rs) : i \in 1..Len(rs2)
        BY <1>1 DEF Kept
    <1>3. post.record \in Records
        BY DEF Post
    <1>. QED  BY <1>2, <1>3 DEF PostBacked, Kept

\* Marking a row keeps what it says, and may claim a delivery if the quote
\* exists.
LEMMA MarkingKeeps ==
    ASSUME rows \in Seq(Row), quotes \in Quotes, QuotesBacked(rows, quotes),
           NEW row \in 1..Len(rows), NEW status \in {"synced", "failed"},
           status = "synced" => quotes[rows[row].record] # None
    PROVE  /\ Marked(row, status) \in Seq(Row)
           /\ Len(Marked(row, status)) = Len(rows)
           /\ Kept(rows, quotes, Marked(row, status), quotes)
           /\ QuotesBacked(Marked(row, status), quotes)
    <1>. DEFINE rs == Marked(row, status)
    <1>1. rows[row] \in Row /\ [rows[row] EXCEPT !.status = status] \in Row
        <2>1. rows[row] \in Row
            BY ElementOfSeq
        <2>2. \A r \in Row : [r EXCEPT !.status = status] \in Row
            BY DEF Row
        <2>. QED  BY <2>1, <2>2
    <1>2. rs = [rows EXCEPT ![row] = [rows[row] EXCEPT !.status = status]]
        BY DEF Marked
    <1>3. rs \in Seq(Row) /\ Len(rs) = Len(rows)
        BY <1>1, <1>2, ExceptSeq
    <1>4. \A i \in 1..Len(rows) :
             /\ rs[i].record = rows[i].record
             /\ rs[i].content = rows[i].content
             /\ rs[i].status = IF i = row THEN status ELSE rows[i].status
        <2>. SUFFICES ASSUME NEW i \in 1..Len(rows)
                      PROVE  /\ rs[i].record = rows[i].record
                             /\ rs[i].content = rows[i].content
                             /\ rs[i].status = IF i = row THEN status ELSE rows[i].status
            OBVIOUS
        <2>1. rows[i] \in Row
            BY ElementOfSeq
        <2>2. rs[i] = IF i = row THEN [rows[row] EXCEPT !.status = status] ELSE rows[i]
            BY <1>2
        <2>. QED  BY <1>1, <2>1, <2>2 DEF Row
    <1>. HIDE DEF rs
    <1>5. Kept(rows, quotes, rs, quotes)
        BY <1>3, <1>4 DEF Kept
    <1>6. QuotesBacked(rs, quotes)
        BY <1>3, <1>4 DEF QuotesBacked
    <1>. QED  BY <1>3, <1>5, <1>6 DEF rs

-----------------------------------------------------------------------------
(* Lemmas about the scheduler.                                             *)

\* The fields that the scheduler leaves alone.
Alike(p, q) ==
    /\ q.csrf = p.csrf /\ q.record = p.record /\ q.submit = p.submit /\ q.row = p.row
    /\ q.marks = p.marks

\* What feeding an action to the scheduler makes of a page.
LEMMA FedPage ==
    ASSUME NEW p \in Page, NEW action, NEW next \in [phase : {"idle", "flushing"},
                                                    flushRequested : BOOLEAN, run : Nat],
           next = Reduce(p.sched, action)
    PROVE  /\ Fed(p, action) \in Page
           /\ Alike(p, Fed(p, action))
           /\ Fed(p, action).rest = p.rest
           /\ Fed(p, action).owed = p.owed
           /\ Fed(p, action).sched.phase = next.phase
           /\ Fed(p, action).sched.flushRequested = next.flushRequested
           /\ Fed(p, action).runs = IF next.run # 0 /\ next.phase = "flushing"
                                    THEN p.runs + 1 ELSE p.runs
    <1>. DEFINE sched == [next EXCEPT !.run = 0]
                runs == IF next.run # 0 /\ next.phase = "flushing" THEN p.runs + 1 ELSE p.runs
    <1>1. p.sched.run = 0 /\ p.runs \in Nat
        BY DEF Page, Schedule
    <1>2. Fed(p, action) = [p EXCEPT !.sched = sched, !.runs = runs]
        BY <1>1 DEF Fed
    <1>3. /\ sched \in Schedule /\ sched.phase = next.phase
          /\ sched.flushRequested = next.flushRequested
        BY DEF Schedule
    <1>4. runs \in Nat
        BY <1>1
    <1>. HIDE DEF sched, runs
    <1>5. Fed(p, action) \in Page
        BY <1>2, <1>3, <1>4 DEF Page
    <1>6. Fed(p, action).sched = sched /\ Fed(p, action).runs = runs
        BY <1>2 DEF Page
    <1>7. Alike(p, Fed(p, action)) /\ Fed(p, action).rest = p.rest /\ Fed(p, action).owed = p.owed
        BY <1>2 DEF Page, Alike
    <1>. QED  BY <1>3, <1>5, <1>6, <1>7 DEF runs

LEMMA ReduceSchedule ==
    ASSUME NEW state \in Schedule
    PROVE  /\ \A action \in {"trigger", "settled"} :
                 Reduce(state, action) \in [phase : {"idle", "flushing"},
                                           flushRequested : BOOLEAN, run : Nat]
           /\ Reduce(state, "trigger").phase = "flushing"
           /\ IF state.phase = "idle"
              THEN Reduce(state, "trigger").run = 1
              ELSE Reduce(state, "trigger").run = 0 /\ Reduce(state, "trigger").flushRequested
           /\ state.phase = "flushing" =>
                 IF state.flushRequested
                 THEN Reduce(state, "settled").phase = "flushing" /\ Reduce(state, "settled").run = 1
                 ELSE Reduce(state, "settled").phase = "idle"
    <1>. DEFINE States == [phase : {"idle", "flushing"}, flushRequested : BOOLEAN, run : Nat]
                next == [phase |-> "flushing", flushRequested |-> FALSE, run |-> state.run + 1]
    <1>1. /\ state \in States /\ state.run = 0 /\ state.phase \in {"idle", "flushing"}
          /\ next \in States /\ next.phase = "flushing" /\ next.run = 1
        BY DEF Schedule
    <1>2. /\ [state EXCEPT !.flushRequested = TRUE] \in States
          /\ [state EXCEPT !.flushRequested = TRUE].phase = state.phase
          /\ [state EXCEPT !.flushRequested = TRUE].run = 0
          /\ [state EXCEPT !.flushRequested = TRUE].flushRequested
        BY <1>1
    <1>3. /\ [state EXCEPT !.phase = "idle"] \in States
          /\ [state EXCEPT !.phase = "idle"].phase = "idle"
        BY <1>1
    <1>4. /\ Reduce(state, "trigger") = IF state.phase = "idle" THEN next
                                        ELSE [state EXCEPT !.flushRequested = TRUE]
          /\ Reduce(state, "settled") = IF state.phase = "idle" THEN state
                                        ELSE IF state.flushRequested THEN next
                                        ELSE [state EXCEPT !.phase = "idle"]
        BY DEF Reduce
    <1>. HIDE DEF next
    <1>. QED  BY <1>1, <1>2, <1>3, <1>4

LEMMA WokenPage ==
    ASSUME NEW p \in Page, PageScheduled(p)
    PROVE  Woken(p) \in Page /\ PageScheduled(Woken(p)) /\ Alike(p, Woken(p))
           /\ Woken(p).rest = p.rest
    <1>. DEFINE next == Reduce(p.sched, "trigger")
                q == Fed(p, "trigger")
    <1>1. /\ p.sched \in Schedule /\ p.runs \in Nat
          /\ p.sched.phase \in {"idle", "flushing"}
        BY DEF Page, Schedule
    <1>2. /\ next \in [phase : {"idle", "flushing"}, flushRequested : BOOLEAN, run : Nat]
          /\ next.phase = "flushing"
          /\ p.sched.phase = "idle" => next.run = 1
          /\ p.sched.phase # "idle" => next.run = 0 /\ next.flushRequested
        BY <1>1, ReduceSchedule
    <1>. HIDE DEF next
    <1>3. /\ q \in Page /\ Alike(p, q) /\ q.rest = p.rest
          /\ q.sched.phase = "flushing"
          /\ q.sched.flushRequested = next.flushRequested
          /\ q.runs = IF next.run # 0 THEN p.runs + 1 ELSE p.runs
        BY <1>2, FedPage DEF next
    <1>. HIDE DEF q
    <1>4. /\ Woken(p) \in Page /\ Alike(p, Woken(p)) /\ Woken(p).rest = p.rest
          /\ Woken(p).sched = q.sched /\ Woken(p).runs = q.runs
        <2>1. Woken(p) = [q EXCEPT !.owed = TRUE]
            BY DEF Woken, q
        <2>2. Woken(p) \in Page
            BY <1>3, <2>1 DEF Page
        <2>3. /\ Woken(p).csrf = q.csrf /\ Woken(p).record = q.record
              /\ Woken(p).submit = q.submit /\ Woken(p).row = q.row
              /\ Woken(p).marks = q.marks
            BY <1>3, <2>1 DEF Page
        <2>4. /\ Woken(p).rest = q.rest /\ Woken(p).sched = q.sched
              /\ Woken(p).runs = q.runs
            BY <1>3, <2>1 DEF Page
        <2>. QED  BY <1>3, <2>2, <2>3, <2>4 DEF Alike
    <1>5. PageScheduled(Woken(p))
        BY <1>1, <1>2, <1>3, <1>4 DEF PageScheduled
    <1>. QED  BY <1>4, <1>5

LEMMA CompletedPage ==
    ASSUME NEW p \in Page, p.sched.phase = "flushing", p.runs = 1,
           p.owed => p.sched.flushRequested
    PROVE  Completed(p) \in Page /\ PageScheduled(Completed(p)) /\ Alike(p, Completed(p))
           /\ Completed(p).rest = {}
    <1>. DEFINE q == [p EXCEPT !.rest = {}, !.runs = @ - 1]
                next == Reduce(p.sched, "settled")
    <1>1. /\ p.sched \in Schedule
          /\ q \in Page /\ Alike(p, q) /\ q.rest = {} /\ q.runs = 0
          /\ q.sched = p.sched /\ q.owed = p.owed
        <2>1. q = [p EXCEPT !.rest = {}, !.runs = 0]
            OBVIOUS
        <2>. HIDE DEF q
        <2>. QED  BY <2>1 DEF Page, Alike
    <1>2. /\ next \in [phase : {"idle", "flushing"}, flushRequested : BOOLEAN, run : Nat]
          /\ p.sched.flushRequested => next.phase = "flushing" /\ next.run = 1
          /\ ~p.sched.flushRequested => next.phase = "idle"
        BY <1>1, ReduceSchedule
    <1>. HIDE DEF next
    <1>3. Completed(p) = Fed(q, "settled") /\ next = Reduce(q.sched, "settled")
        BY <1>1 DEF Completed, next
    <1>. HIDE DEF q
    <1>4. /\ Completed(p) \in Page /\ Alike(q, Completed(p)) /\ Completed(p).rest = {}
          /\ Completed(p).owed = q.owed
          /\ Completed(p).sched.phase = next.phase
          /\ Completed(p).runs = IF next.run # 0 /\ next.phase = "flushing" THEN 1 ELSE 0
        BY <1>1, <1>2, <1>3, FedPage
    <1>5. PageScheduled(Completed(p))
        BY <1>1, <1>2, <1>4 DEF PageScheduled
    <1>. QED  BY <1>1, <1>4, <1>5 DEF Alike

LEMMA LeftPage ==
    ASSUME NEW p \in Page, p.sched.phase = "flushing", p.runs = 1,
           p.owed => p.sched.flushRequested,
           NEW rest \in SUBSET Rows
    PROVE  Left(p, rest) \in Page /\ PageScheduled(Left(p, rest)) /\ Alike(p, Left(p, rest))
           /\ Left(p, rest).rest = rest
    <1>1. CASE rest = {}
        BY <1>1, CompletedPage DEF Left
    <1>2. CASE rest # {}
        <2>1. Left(p, rest) = [p EXCEPT !.rest = rest]
            BY <1>2 DEF Left
        <2>. QED  BY <2>1 DEF Page, PageScheduled, Alike
    <1>. QED  BY <1>1, <1>2

-----------------------------------------------------------------------------
(* Lemmas about steps.                                                     *)

\* A step of one tab: its page is as it should be, and so are the posts it
\* sends or still awaits.
LEMMA TabStep ==
    ASSUME QuoteInv, NEW t \in Tabs, NEW p \in Page \cup {None}, Show(t, p),
           rows' \in Seq(Row), Len(rows') <= MaxSaves, wire' \subseteq Post,
           UNCHANGED <<online, server>>,
           Kept(rows, quotes, rows', quotes), QuotesBacked(rows', quotes),
           p # None => PageBacked(p, rows', quotes) /\ PageScheduled(p),
           \A post \in wire' :
              /\ post \in wire \/ PostBacked(post, rows', quotes)
              /\ post.from = t => Awaited(post, p)
              /\ post.from \notin {t, None} => post \in wire,
           \A a, b \in wire' : a.from = t => Apart(a, b)
    PROVE  QuoteInv'
    <1>. USE DEF QuoteInv
    <1>1. /\ rows \in Seq(Row) /\ quotes \in Quotes /\ quotes' = quotes
          /\ page \in [Tabs -> Page \cup {None}] /\ wire \subseteq Post
        BY DEF QuoteTypeOK, Quotes, server
    <1>2. page' \in [Tabs -> Page \cup {None}] /\ page'[t] = p
          /\ \A u \in Tabs \ {t} : page'[u] = page[u]
        BY <1>1 DEF Show
    <1>3. QuoteTypeOK'
        BY <1>1, <1>2 DEF QuoteTypeOK, server
    <1>4. \A u \in Tabs : page'[u] # None =>
             PageBacked(page'[u], rows', quotes') /\ PageScheduled(page'[u])
        <2>. SUFFICES ASSUME NEW u \in Tabs, page'[u] # None
                      PROVE  PageBacked(page'[u], rows', quotes) /\ PageScheduled(page'[u])
            BY <1>1
        <2>1. CASE u = t
            BY <1>2, <2>1
        <2>2. CASE u # t
            <3>1. page'[u] = page[u] /\ page[u] # None
                BY <1>2, <2>2
            <3>2. PageBacked(page[u], rows, quotes) /\ PageScheduled(page[u])
                BY <3>1 DEF IsOpen
            <3>. QED  BY <1>1, <3>1, <3>2, PageStays
        <2>. QED  BY <2>1, <2>2
    <1>5. \A post \in wire' :
             /\ PostBacked(post, rows', quotes')
             /\ post.from # None => Awaited(post, page'[post.from])
        <2>. SUFFICES ASSUME NEW post \in wire'
                      PROVE  /\ PostBacked(post, rows', quotes)
                             /\ post.from # None => Awaited(post, page'[post.from])
            BY <1>1
        <2>1. PostBacked(post, rows', quotes)
            BY <1>1, PostStays
        <2>2. ASSUME post.from # None
              PROVE  Awaited(post, page'[post.from])
            <3>1. CASE post.from = t
                BY <1>2, <3>1
            <3>2. CASE post.from # t
                <4>1. post \in wire /\ post.from \in Tabs \ {t}
                    BY <1>1, <2>2, <3>2 DEF Post
                <4>. QED  BY <1>2, <2>2, <4>1
            <3>. QED  BY <3>1, <3>2
        <2>. QED  BY <2>1, <2>2
    <1>6. \A a, b \in wire' : Apart(a, b)
        <2>. SUFFICES ASSUME NEW a \in wire', NEW b \in wire',
                             a.from # None, a.from = b.from
                      PROVE  Apart(a, b)
            BY DEF Apart
        <2>1. CASE a.from = t
            BY <2>1
        <2>2. CASE a.from # t
            BY <2>2
        <2>. QED  BY <2>1, <2>2
    <1>. QED  BY <1>1, <1>3, <1>4, <1>5, <1>6 DEF IsOpen

\* What TabStep asks of the posts holds if there are no new ones, as long as
\* the page still waits.
LEMMA QuietTabStep ==
    ASSUME QuoteInv, NEW t \in Tabs, NEW p \in Page, Show(t, p), wire' \subseteq wire,
           rows' \in Seq(Row), Len(rows') <= MaxSaves,
           UNCHANGED <<online, server>>,
           Kept(rows, quotes, rows', quotes), QuotesBacked(rows', quotes),
           PageBacked(p, rows', quotes), PageScheduled(p),
           \A post \in wire' : post.from = t => Awaited(post, p)
    PROVE  QuoteInv'
    <1>1. wire' \subseteq Post
        BY DEF QuoteInv, QuoteTypeOK
    <1>2. \A a, b \in wire' : Apart(a, b)
        BY DEF QuoteInv
    <1>. QED  BY <1>1, <1>2, TabStep

\* What is open has a page, and none of its posts is awaited elsewhere.
LEMMA OpenPage ==
    ASSUME QuoteInv, NEW t \in Tabs, IsOpen(t)
    PROVE  /\ page[t] \in Page
           /\ PageBacked(page[t], rows, quotes)
           /\ PageScheduled(page[t])
           /\ \A post \in wire : post.from = t => Awaited(post, page[t])
    <1>1. t # None
        BY QuoteAssumption
    <1>. QED  BY <1>1 DEF QuoteInv, QuoteTypeOK, IsOpen

\* The rows as they are.
LEMMA RowsAsTheyAre ==
    ASSUME QuoteInv
    PROVE  /\ rows \in Seq(Row) /\ Len(rows) \in Nat /\ Len(rows) <= MaxSaves
           /\ quotes \in Quotes
           /\ Kept(rows, quotes, rows, quotes) /\ QuotesBacked(rows, quotes)
           /\ 1..Len(rows) \subseteq Rows
    <1>1. rows \in Seq(Row) /\ Len(rows) <= MaxSaves /\ quotes \in Quotes
        BY DEF QuoteInv, QuoteTypeOK, Quotes
    <1>2. Len(rows) \in Nat /\ MaxSaves \in Nat
        BY <1>1, QuoteAssumption
    <1>. QED  BY <1>1, <1>2 DEF QuoteInv, Kept, Rows

\* A page goes, and its posts with it, but for those that the server may
\* still accept.
LEMMA UnloadStep ==
    ASSUME QuoteInv, NEW t \in Tabs, Unload(t),
           rows' \in Seq(Row), Len(rows') <= MaxSaves,
           UNCHANGED <<online, server>>,
           Kept(rows, quotes, rows', quotes), QuotesBacked(rows', quotes)
    PROVE  QuoteInv'
    <1>1. wire \subseteq Post /\ rows \in Seq(Row) /\ quotes \in Quotes
        BY DEF QuoteInv, QuoteTypeOK, Quotes
    <1>2. \A q \in wire : /\ Unawaited(q) \in Post
                          /\ Unawaited(q).from = None
                          /\ PostBacked(Unawaited(q), rows', quotes)
        <2>. SUFFICES ASSUME NEW q \in wire
                      PROVE  /\ Unawaited(q) \in Post
                             /\ Unawaited(q).from = None
                             /\ PostBacked(Unawaited(q), rows', quotes)
            OBVIOUS
        <2>1. q \in Post /\ PostBacked(q, rows', quotes)
            BY <1>1, PostStays DEF QuoteInv
        <2>2. /\ Unawaited(q) \in Post
              /\ Unawaited(q).from = None
              /\ Unawaited(q).record = q.record /\ Unawaited(q).content = q.content
              /\ Unawaited(q).status = q.status
            BY <2>1 DEF Unawaited, Post, Records
        <2>. QED  BY <2>1, <2>2 DEF PostBacked
    <1>3. \A post \in wire' : \/ post \in wire /\ post.from # t
                              \/ \E q \in wire : post = Unawaited(q)
        BY DEF Unload
    <1>4. wire' \subseteq Post
        BY <1>1, <1>2, <1>3
    <1>5. \A post \in wire' : /\ post \in wire \/ PostBacked(post, rows', quotes)
                              /\ post.from # t
                              /\ post.from \notin {t, None} => post \in wire
        BY <1>2, <1>3, QuoteAssumption
    <1>. QED  BY <1>4, <1>5, TabStep DEF Unload

\* A post that a page sends.
LEMMA PostedPost ==
    ASSUME QuoteInv, NEW t \in Tabs, IsOpen(t), NEW by \in {"submit", "flush"},
           NEW i \in 1..Len(rows), NEW j \in 1..Len(rows), rows[j].record = rows[i].record
    PROVE  /\ Posted(t, by, i, j) \in Post
           /\ PostBacked(Posted(t, by, i, j), rows, quotes)
           /\ Posted(t, by, i, j).from = t
           /\ Posted(t, by, i, j).by = by
           /\ Posted(t, by, i, j).row = i
    <1>1. i \in Rows /\ rows[i] \in Row /\ rows[j] \in Row
        BY RowsAsTheyAre, ElementOfSeq
    <1>2. page[t].csrf \in Sessions /\ session \in Sessions
        BY OpenPage DEF Page, QuoteInv, QuoteTypeOK
    <1>3. rows[i].record \in Records /\ rows[j].content \in Contents
        BY <1>1 DEF Row
    <1>4. (IF online THEN None ELSE NoAnswer) \in Statuses \cup {None}
          /\ (IF online THEN None ELSE NoAnswer) # OK
        BY QuoteAssumption DEF Statuses, NoAnswer, OK
    <1>5. Posted(t, by, i, j) \in Post
        BY <1>1, <1>2, <1>3, <1>4 DEF Posted, Post
    <1>6. PostBacked(Posted(t, by, i, j), rows, quotes)
        BY <1>4 DEF Posted, PostBacked
    <1>. QED  BY <1>5, <1>6 DEF Posted

-----------------------------------------------------------------------------
(* Every step keeps the invariant.                                         *)

LEMMA NewPageSound ==
    ASSUME QuoteInv
    PROVE  /\ NewPage \in Page
           /\ PageScheduled(NewPage)
           /\ \A rs, qs : PageBacked(NewPage, rs, qs)
    <1>1. InitialSchedule \in Schedule /\ InitialSchedule.phase = "idle"
        BY DEF InitialSchedule, Schedule
    <1>2. NewPage \in Page
        BY <1>1 DEF NewPage, Page, QuoteInv, QuoteTypeOK
    <1>. QED  BY <1>1, <1>2 DEF NewPage, PageScheduled, PageBacked

\* A page that is woken.
LEMMA WokenSound ==
    ASSUME NEW p \in Page, PageScheduled(p), NEW rs, NEW qs, PageBacked(p, rs, qs)
    PROVE  /\ Woken(p) \in Page /\ PageScheduled(Woken(p)) /\ PageBacked(Woken(p), rs, qs)
           /\ Woken(p) # None
           /\ \A post : Awaited(post, p) => Awaited(post, Woken(p))
    <1>1. /\ Woken(p) \in Page /\ PageScheduled(Woken(p)) /\ Alike(p, Woken(p))
          /\ Woken(p).rest = p.rest
        BY WokenPage
    <1>2. Woken(p) # None
        BY <1>1, NoPageAssumption
    <1>. QED  BY <1>1, <1>2 DEF PageBacked, Awaited, Alike

\* Two pages that differ in their wiring only.
SameWork(p, q) ==
    /\ q.record = p.record /\ q.submit = p.submit /\ q.row = p.row
    /\ q.marks = p.marks /\ q.sched = p.sched /\ q.runs = p.runs
    /\ q.rest = p.rest /\ q.owed = p.owed

LEMMA WiredSound ==
    ASSUME NEW p \in Page, PageScheduled(p), NEW rs, NEW qs, PageBacked(p, rs, qs),
           NEW q \in Page, SameWork(p, q)
    PROVE  /\ PageScheduled(q) /\ PageBacked(q, rs, qs)
           /\ \A post : Awaited(post, p) => Awaited(post, q)
    <1>1. q # None
        BY NoPageAssumption
    <1>. QED  BY <1>1 DEF SameWork, PageScheduled, PageBacked, Awaited

LEMMA RenderedSound ==
    ASSUME NEW p \in Page, PageScheduled(p), NEW rs, NEW qs, PageBacked(p, rs, qs),
           NEW some \in SUBSET Rows
    PROVE  /\ Rendered(p, some) \in Page
           /\ PageScheduled(Rendered(p, some)) /\ PageBacked(Rendered(p, some), rs, qs)
           /\ \A post : Awaited(post, p) => Awaited(post, Rendered(p, some))
    <1>1. CASE some = {}
        <2>. DEFINE q == [p EXCEPT !.wiring = "ready", !.unseen = {}]
        <2>1. /\ q \in Page /\ PageScheduled(q) /\ PageBacked(q, rs, qs)
              /\ \A post : Awaited(post, p) => Awaited(post, q)
            <3>1. q \in Page /\ SameWork(p, q)
                BY DEF Page, SameWork
            <3>. HIDE DEF q
            <3>. QED  BY <3>1, WiredSound
        <2>2. Rendered(p, some) = Woken(q)
            BY <1>1 DEF Rendered
        <2>. HIDE DEF q
        <2>. QED  BY <2>1, <2>2, WokenSound
    <1>2. CASE some # {}
        <2>. DEFINE q == [p EXCEPT !.wiring = "rendering", !.unseen = some]
        <2>1. q \in Page /\ SameWork(p, q)
            BY DEF Page, SameWork
        <2>2. Rendered(p, some) = q
            BY <1>2 DEF Rendered
        <2>. HIDE DEF q
        <2>. QED  BY <2>1, <2>2, WiredSound
    <1>. QED  BY <1>1, <1>2

LEMMA OpenStep ==
    ASSUME QuoteInv, NEW t \in Tabs, Open(t)
    PROVE  QuoteInv'
    <1>1. /\ ~IsOpen(t) /\ Show(t, NewPage)
          /\ rows' = rows /\ wire' = wire /\ UNCHANGED <<online, server>>
        BY DEF Open
    <1>2. \A post \in wire : post.from # t
        BY <1>1, QuoteAssumption DEF QuoteInv, Awaited, IsOpen
    <1>. QED  BY <1>1, <1>2, NewPageSound, RowsAsTheyAre, QuietTabStep

\* The queue is read for the form, and its rows are shown.
LEMMA WiringStep ==
    ASSUME QuoteInv, NEW t \in Tabs, Wiring(t)
    PROVE  QuoteInv'
    <1>1. /\ IsOpen(t)
          /\ rows' = rows /\ wire' = wire /\ UNCHANGED <<online, server>>
        BY DEF Wiring, Prepare, Render
    <1>2. /\ page[t] \in Page
          /\ PageBacked(page[t], rows, quotes)
          /\ PageScheduled(page[t])
          /\ \A post \in wire : post.from = t => Awaited(post, page[t])
        BY <1>1, OpenPage
    <1>3. ASSUME NEW some \in SUBSET Rows, Show(t, Rendered(page[t], some))
          PROVE  QuoteInv'
        <2>. DEFINE p == Rendered(page[t], some)
        <2>1. /\ p \in Page /\ PageScheduled(p) /\ PageBacked(p, rows, quotes)
              /\ \A post : Awaited(post, page[t]) => Awaited(post, p)
            BY <1>2, RenderedSound
        <2>. HIDE DEF p
        <2>2. Show(t, p)
            BY <1>3 DEF p
        <2>. QED  BY <1>1, <1>2, <2>1, <2>2, RowsAsTheyAre, QuietTabStep
    <1>4. PendingRows \in SUBSET Rows
        BY RowsAsTheyAre DEF PendingRows
    <1>5. \A row : page[t].unseen \ {row} \in SUBSET Rows
        BY <1>2 DEF Page
    <1>6. CASE Show(t, [page[t] EXCEPT !.wiring = "failed", !.unseen = {}])
        <2>. DEFINE p == [page[t] EXCEPT !.wiring = "failed", !.unseen = {}]
        <2>1. /\ p \in Page /\ PageScheduled(p) /\ PageBacked(p, rows, quotes)
              /\ \A post : Awaited(post, page[t]) => Awaited(post, p)
            <3>1. p \in Page /\ SameWork(page[t], p)
                BY <1>2 DEF Page, SameWork
            <3>. HIDE DEF p
            <3>. QED  BY <1>2, <3>1, WiredSound
        <2>. HIDE DEF p
        <2>2. Show(t, p)
            BY <1>6 DEF p
        <2>. QED  BY <1>1, <1>2, <2>1, <2>2, RowsAsTheyAre, QuietTabStep
    <1>. QED  BY <1>3, <1>4, <1>5, <1>6 DEF Wiring, Prepare, Render

LEMMA CloseStep ==
    ASSUME QuoteInv, NEW t \in Tabs, Close(t)
    PROVE  QuoteInv'
    BY RowsAsTheyAre, UnloadStep DEF Close

LEMMA WakeStep ==
    ASSUME QuoteInv, NEW t \in Tabs, Wake(t)
    PROVE  QuoteInv'
    <1>1. /\ IsOpen(t) /\ Show(t, Woken(page[t]))
          /\ rows' = rows /\ wire' = wire /\ UNCHANGED <<online, server>>
        BY DEF Wake, IsReady
    <1>2. /\ Woken(page[t]) \in Page /\ PageScheduled(Woken(page[t]))
          /\ PageBacked(Woken(page[t]), rows, quotes)
          /\ \A post \in wire : post.from = t => Awaited(post, Woken(page[t]))
        BY <1>1, OpenPage, WokenSound
    <1>. QED  BY <1>1, <1>2, RowsAsTheyAre, QuietTabStep

\* The user submits the form.
LEMMA ConfirmStep ==
    ASSUME QuoteInv, NEW t \in Tabs, NEW content \in Contents, Confirm(t, content)
    PROVE  QuoteInv'
    <1>. DEFINE row == Len(rows) + 1
                record == IF page[t].record = 0 THEN row ELSE page[t].record
                new == [record |-> record, content |-> content, status |-> "pending"]
                p == [page[t] EXCEPT !.submit = "saved", !.row = row, !.record = record]
    <1>1. /\ IsOpen(t) /\ page[t].submit = "ready" /\ row <= MaxSaves
          /\ rows' = Append(rows, new)
          /\ Show(t, p)
          /\ wire' = wire /\ UNCHANGED <<online, server>>
        BY DEF Confirm, IsReady
    <1>2. row \in Rows /\ row \in Nat
        BY <1>1, RowsAsTheyAre, QuoteAssumption DEF Rows
    <1>3. /\ page[t] \in Page
          /\ PageBacked(page[t], rows, quotes)
          /\ PageScheduled(page[t])
          /\ \A post \in wire : post.from = t => Awaited(post, page[t])
        BY <1>1, OpenPage
    <1>4. record \in Records
        BY <1>2, <1>3 DEF Page, Records
    <1>5. new \in Row
        BY <1>4 DEF Row
    <1>. HIDE DEF row, record, new
    <1>6. /\ rows' \in Seq(Row) /\ Len(rows') = row /\ row = Len(rows) + 1
          /\ \A i \in 1..Len(rows) : rows'[i] = rows[i]
          /\ rows'[row] = new
        BY <1>1, <1>5, RowsAsTheyAre, AppendProperties DEF row
    <1>7. Kept(rows, quotes, rows', quotes)
        BY <1>6, RowsAsTheyAre DEF Kept
    <1>8. QuotesBacked(rows', quotes)
        <2>1. \A i \in 1..Len(rows') : i \in 1..Len(rows) \/ i = row
            BY <1>6, RowsAsTheyAre
        <2>2. \A i \in 1..Len(rows) : i \in 1..Len(rows')
            BY <1>6, RowsAsTheyAre
        <2>3. new.status # "synced"
            BY DEF new
        <2>. QED  BY <1>6, <2>1, <2>2, <2>3, RowsAsTheyAre DEF QuotesBacked
    <1>9. /\ p \in Page /\ p.submit = "saved" /\ p.row = row /\ p.record = record
          /\ p.rest = page[t].rest /\ p.marks = page[t].marks /\ p.runs = page[t].runs
          /\ p.sched = page[t].sched /\ p.owed = page[t].owed
        BY <1>2, <1>3, <1>4 DEF Page
    <1>. HIDE DEF p
    <1>10. PageBacked(p, rows', quotes) /\ PageScheduled(p)
        <2>1. PageBacked(page[t], rows', quotes)
            BY <1>3, <1>6, <1>7, PageStays, RowsAsTheyAre
        <2>2. row \in 1..Len(rows')
            BY <1>2, <1>6, RowsAsTheyAre
        <2>3. rows'[row].record = record
            BY <1>6 DEF new
        <2>. QED  BY <1>3, <1>9, <2>1, <2>2, <2>3 DEF PageBacked, PageScheduled
    <1>11. \A post \in wire : post.from = t => Awaited(post, p)
        <2>1. p # None
            BY <1>9, NoPageAssumption
        <2>. QED  BY <1>1, <1>3, <1>9, <2>1 DEF Awaited
    <1>. QED
        BY <1>1, <1>6, <1>7, <1>8, <1>9, <1>10, <1>11, QuietTabStep

\* The request is issued.
LEMMA IssueStep ==
    ASSUME QuoteInv, NEW t \in Tabs, Issue(t)
    PROVE  QuoteInv'
    <1>. DEFINE p == [page[t] EXCEPT !.submit = "issued"]
                new == Posted(t, "submit", page[t].row, page[t].row)
    <1>1. /\ IsOpen(t) /\ page[t].submit = "saved"
          /\ Show(t, p)
          /\ wire' = wire \cup {new}
          /\ rows' = rows /\ UNCHANGED <<online, server>>
        BY DEF Issue
    <1>2. /\ page[t] \in Page
          /\ PageBacked(page[t], rows, quotes)
          /\ PageScheduled(page[t])
          /\ \A post \in wire : post.from = t => Awaited(post, page[t])
        BY <1>1, OpenPage
    <1>3. page[t].row \in 1..Len(rows)
        BY <1>1, <1>2 DEF PageBacked
    <1>4. /\ new \in Post /\ PostBacked(new, rows, quotes)
          /\ new.from = t /\ new.by = "submit" /\ new.row = page[t].row
        BY <1>1, <1>3, PostedPost
    <1>. HIDE DEF new
    <1>5. /\ p \in Page /\ p.submit = "issued" /\ p.row = page[t].row
          /\ p.record = page[t].record
          /\ p.rest = page[t].rest /\ p.marks = page[t].marks /\ p.runs = page[t].runs
          /\ p.sched = page[t].sched /\ p.owed = page[t].owed
        BY <1>2 DEF Page
    <1>. HIDE DEF p
    <1>6. p # None
        BY <1>5, NoPageAssumption
    <1>7. PageBacked(p, rows, quotes) /\ PageScheduled(p)
        BY <1>2, <1>3, <1>5 DEF PageBacked, PageScheduled
    <1>8. \A post \in wire : post.from = t => post.by # "submit" /\ Awaited(post, p)
        BY <1>1, <1>2, <1>5, <1>6 DEF Awaited
    <1>9. Awaited(new, p)
        BY <1>4, <1>5, <1>6 DEF Awaited
    <1>10. wire' \subseteq Post
        BY <1>1, <1>4 DEF QuoteInv, QuoteTypeOK
    <1>11. \A post \in wire' :
              /\ post \in wire \/ PostBacked(post, rows', quotes)
              /\ post.from = t => Awaited(post, p)
              /\ post.from \notin {t, None} => post \in wire
        BY <1>1, <1>4, <1>8, <1>9
    <1>12. \A a, b \in wire' : a.from = t => Apart(a, b)
        BY <1>1, <1>4, <1>8 DEF Apart, QuoteInv
    <1>. QED
        BY <1>1, <1>5, <1>7, <1>10, <1>11, <1>12, RowsAsTheyAre, TabStep

\* What a page makes of the answer to its submission.
LEMMA FinishedPage ==
    ASSUME NEW p \in Page, p.row \in Rows, NEW status \in Statuses
    PROVE  /\ Finished(p, status) \in Page
           /\ Finished(p, status).submit = "ready"
           /\ Finished(p, status).record \in {0, p.record}
           /\ Finished(p, status).rest = p.rest
           /\ Finished(p, status).runs = p.runs
           /\ Finished(p, status).sched = p.sched
           /\ Finished(p, status).owed = p.owed
           /\ \A m \in Finished(p, status).marks :
                 m \in p.marks \/ (m.row = p.row /\ (m.status = "synced" => status = OK))
    <1>. DEFINE over == [p EXCEPT !.submit = "ready", !.row = 0]
                mark(s) == {[row |-> p.row, status |-> s]}
    <1>1. /\ over \in Page /\ over.submit = "ready"
          /\ over.rest = p.rest /\ over.runs = p.runs /\ over.sched = p.sched
          /\ over.owed = p.owed /\ over.marks = p.marks /\ over.record = p.record
        BY DEF Page
    <1>2. \A s \in {"synced", "failed"} :
             p.marks \cup mark(s) \in SUBSET [row : Rows, status : {"synced", "failed"}]
        BY DEF Page
    <1>3. status \in Nat
        BY DEF Statuses, NoAnswer, OK, Unauthorized, Forbidden, Unprocessable
    <1>4. CASE status = OK
        <2>. DEFINE marks == p.marks \cup mark("synced")
        <2>1. Finished(p, status) = [over EXCEPT !.record = 0, !.marks = marks]
            BY <1>1, <1>4 DEF Finished
        <2>2. marks \in SUBSET [row : Rows, status : {"synced", "failed"}]
            BY <1>2
        <2>3. \A m \in marks : m \in p.marks \/ m.row = p.row
            OBVIOUS
        <2>. HIDE DEF over, marks
        <2>4. Finished(p, status) \in Page /\ Finished(p, status).marks = marks
            BY <1>1, <2>1, <2>2 DEF Page
        <2>. QED  BY <1>1, <1>4, <2>1, <2>3, <2>4 DEF Page
    <1>5. CASE status # OK /\ Rejected(status)
        <2>1. Finished(p, status) = [over EXCEPT !.marks = p.marks \cup mark("failed")]
            BY <1>1, <1>5 DEF Finished
        <2>. HIDE DEF over
        <2>. QED  BY <1>1, <1>2, <2>1 DEF Page
    <1>6. CASE status # OK /\ ~Rejected(status)
        <2>1. Finished(p, status) = over
            BY <1>6 DEF Finished
        <2>. HIDE DEF over
        <2>. QED  BY <1>1, <2>1
    <1>. QED  BY <1>4, <1>5, <1>6

\* The answer to a submission arrives.
LEMMA AfterRequestStep ==
    ASSUME QuoteInv, NEW t \in Tabs, AfterRequest(t)
    PROVE  QuoteInv'
    <1>1. PICK post \in wire :
             /\ post.from = t /\ post.by = "submit" /\ post.status # None
             /\ Show(t, Finished(page[t], post.status))
             /\ wire' = wire \ {post}
             /\ rows' = rows /\ UNCHANGED <<online, server>>
        BY DEF AfterRequest
    <1>2. /\ post \in Post /\ PostBacked(post, rows, quotes) /\ Awaited(post, page[t])
          /\ post.row \in 1..Len(rows) /\ rows[post.row].record = post.record
          /\ IsOpen(t)
        BY <1>1, QuoteAssumption DEF QuoteInv, QuoteTypeOK, PostBacked, Awaited, IsOpen
    <1>. DEFINE p == Finished(page[t], post.status)
    <1>3. /\ page[t] \in Page
          /\ PageBacked(page[t], rows, quotes)
          /\ PageScheduled(page[t])
          /\ \A q \in wire : q.from = t => Awaited(q, page[t])
        BY <1>2, OpenPage
    <1>4. page[t].row = post.row /\ page[t].row \in Rows /\ post.status \in Statuses
        BY <1>1, <1>2, RowsAsTheyAre DEF Awaited, Post
    <1>5. /\ p \in Page /\ p.submit = "ready" /\ p.record \in {0, page[t].record}
          /\ p.rest = page[t].rest /\ p.runs = page[t].runs
          /\ p.sched = page[t].sched /\ p.owed = page[t].owed
          /\ \A m \in p.marks :
                m \in page[t].marks
                \/ (m.row = page[t].row /\ (m.status = "synced" => post.status = OK))
        BY <1>3, <1>4, FinishedPage
    <1>. HIDE DEF p
    <1>6. PageBacked(p, rows, quotes) /\ PageScheduled(p)
        BY <1>2, <1>3, <1>4, <1>5 DEF PageBacked, PageScheduled, PostBacked
    <1>7. \A q \in wire' : q.from = t => Awaited(q, p)
        <2>. SUFFICES ASSUME NEW q \in wire \ {post}, q.from = t
                      PROVE  Awaited(q, p)
            BY <1>1
        <2>1. q.by = "flush"
            BY <1>1, QuoteAssumption DEF QuoteInv, Apart, QuoteTypeOK, Post
        <2>2. p # None
            BY <1>5, NoPageAssumption
        <2>. QED  BY <1>3, <1>5, <2>1, <2>2 DEF Awaited
    <1>. QED  BY <1>1, <1>5, <1>6, <1>7, RowsAsTheyAre, QuietTabStep DEF p

\* A mark that nobody awaits is made.
LEMMA MarkStep ==
    ASSUME QuoteInv, NEW t \in Tabs, Mark(t)
    PROVE  QuoteInv'
    <1>1. IsOpen(t) /\ wire' = wire /\ UNCHANGED <<online, server>>
        BY DEF Mark
    <1>2. PICK m \in page[t].marks :
             /\ rows' = Marked(m.row, m.status)
             /\ Show(t, [page[t] EXCEPT !.marks = @ \ {m}])
        BY DEF Mark
    <1>. DEFINE p == [page[t] EXCEPT !.marks = @ \ {m}]
    <1>3. /\ page[t] \in Page
          /\ PageBacked(page[t], rows, quotes)
          /\ PageScheduled(page[t])
          /\ \A post \in wire : post.from = t => Awaited(post, page[t])
        BY <1>1, OpenPage
    <1>4. /\ m.row \in 1..Len(rows) /\ m.status \in {"synced", "failed"}
          /\ m.status = "synced" => quotes[rows[m.row].record] # None
        BY <1>2, <1>3 DEF PageBacked, Page
    <1>5. /\ rows' \in Seq(Row) /\ Len(rows') <= MaxSaves
          /\ Kept(rows, quotes, rows', quotes) /\ QuotesBacked(rows', quotes)
        BY <1>2, <1>4, RowsAsTheyAre, MarkingKeeps
    <1>6. /\ p \in Page /\ p.submit = page[t].submit /\ p.row = page[t].row
          /\ p.record = page[t].record
          /\ p.rest = page[t].rest /\ p.marks \subseteq page[t].marks /\ p.runs = page[t].runs
          /\ p.sched = page[t].sched /\ p.owed = page[t].owed
        BY <1>3 DEF Page
    <1>. HIDE DEF p
    <1>7. PageBacked(p, rows', quotes) /\ PageScheduled(p)
        <2>1. PageBacked(p, rows, quotes)
            BY <1>3, <1>6 DEF PageBacked
        <2>. QED  BY <1>3, <1>5, <1>6, <2>1, PageStays, RowsAsTheyAre DEF PageScheduled
    <1>8. \A post \in wire : post.from = t => Awaited(post, p)
        BY <1>3, <1>6, NoPageAssumption DEF Awaited
    <1>. QED  BY <1>1, <1>2, <1>5, <1>6, <1>7, <1>8, QuietTabStep DEF p

\* A page with some rows left to deliver.
LEMMA LeftSound ==
    ASSUME NEW p \in Page, p.sched.phase = "flushing", p.runs = 1,
           p.owed => p.sched.flushRequested,
           NEW rs, NEW qs, PageBacked(p, rs, qs),
           NEW rest \in SUBSET Rows, rest \subseteq 1..Len(rs)
    PROVE  /\ Left(p, rest) \in Page /\ Left(p, rest) # None
           /\ PageScheduled(Left(p, rest)) /\ PageBacked(Left(p, rest), rs, qs)
           /\ Alike(p, Left(p, rest))
           /\ Left(p, rest).rest = rest
    <1>1. /\ Left(p, rest) \in Page /\ PageScheduled(Left(p, rest))
          /\ Alike(p, Left(p, rest)) /\ Left(p, rest).rest = rest
        BY LeftPage
    <1>2. Left(p, rest) # None
        BY <1>1, NoPageAssumption
    <1>. HIDE DEF Left
    <1>. QED  BY <1>1, <1>2 DEF PageBacked, Alike

\* A flush reads the queue.
LEMMA StartFlushStep ==
    ASSUME QuoteInv, NEW t \in Tabs, StartFlush(t)
    PROVE  QuoteInv'
    <1>. DEFINE rest == IF online THEN PendingRows ELSE {}
                served == [page[t] EXCEPT !.owed = FALSE]
                p == Left(served, rest)
    <1>1. /\ IsOpen(t) /\ page[t].runs > 0 /\ page[t].rest = {}
          /\ Show(t, p)
          /\ rows' = rows /\ wire' = wire /\ UNCHANGED <<online, server>>
        BY DEF StartFlush
    <1>2. /\ page[t] \in Page
          /\ PageBacked(page[t], rows, quotes)
          /\ PageScheduled(page[t])
          /\ \A post \in wire : post.from = t => Awaited(post, page[t])
        BY <1>1, OpenPage
    <1>3. page[t].sched.phase = "flushing" /\ page[t].runs = 1
        BY <1>1, <1>2 DEF PageScheduled
    <1>4. rest \subseteq 1..Len(rows) /\ rest \in SUBSET Rows
        BY RowsAsTheyAre DEF PendingRows
    <1>5. /\ served \in Page /\ Alike(page[t], served) /\ ~served.owed
          /\ served.rest = {} /\ served.runs = 1 /\ served.sched = page[t].sched
        BY <1>1, <1>2, <1>3 DEF Page, Alike
    <1>. HIDE DEF rest, served
    <1>6. PageBacked(served, rows, quotes)
        BY <1>2, <1>5 DEF PageBacked, Alike
    <1>7. /\ p \in Page /\ p # None /\ PageScheduled(p) /\ PageBacked(p, rows, quotes)
          /\ Alike(served, p)
        BY <1>3, <1>4, <1>5, <1>6, LeftSound
    <1>. HIDE DEF p
    <1>8. \A post \in wire : post.from = t => Awaited(post, p)
        BY <1>1, <1>2, <1>5, <1>7 DEF Awaited, Alike
    <1>. QED  BY <1>1, <1>7, <1>8, RowsAsTheyAre, QuietTabStep

\* Some numbers have a least one.
LEMMA NatLeast ==
    ASSUME NEW S \in SUBSET Nat, S # {}
    PROVE  \E i \in S : \A k \in S : i <= k
    <1>. DEFINE Less == OpToRel(<, Nat)
    <1>1. PICK i \in S : \A k \in S : <<k, i>> \notin Less
        BY NatLessThanWellFounded, WFMin
    <1>2. \A k \in S : ~(k < i)
        BY <1>1 DEF OpToRel
    <1>. QED  BY <1>2

\* A flush comes to its next row.
LEMMA DeliverStep ==
    ASSUME QuoteInv, NEW t \in Tabs, Deliver(t)
    PROVE  QuoteInv'
    <1>. DEFINE row == First(page[t].rest)
                record == rows[row].record
    <1>1. /\ IsOpen(t) /\ page[t].rest # {}
          /\ \A post \in wire : ~(post.from = t /\ post.by = "flush")
          /\ rows' = rows /\ UNCHANGED <<online, server>>
        BY DEF Deliver
    <1>2. /\ page[t] \in Page
          /\ PageBacked(page[t], rows, quotes)
          /\ PageScheduled(page[t])
          /\ \A post \in wire : post.from = t => Awaited(post, page[t])
        BY <1>1, OpenPage
    <1>3. /\ page[t].sched.phase = "flushing" /\ page[t].runs = 1
          /\ page[t].owed => page[t].sched.flushRequested
        BY <1>1, <1>2 DEF PageScheduled
    <1>4. page[t].rest \in SUBSET Rows /\ page[t].rest \subseteq 1..Len(rows)
        BY <1>2 DEF Page, PageBacked
    <1>5. ASSUME NEW rest \in SUBSET page[t].rest, Show(t, Left(page[t], rest)), wire' = wire
          PROVE  QuoteInv'
        <2>. DEFINE p == Left(page[t], rest)
        <2>1. /\ p \in Page /\ p # None /\ PageScheduled(p) /\ PageBacked(p, rows, quotes)
              /\ Alike(page[t], p)
            BY <1>2, <1>3, <1>4, LeftSound
        <2>. HIDE DEF p
        <2>2. \A post \in wire : post.from = t => Awaited(post, p)
            <3>. SUFFICES ASSUME NEW post \in wire, post.from = t
                          PROVE  Awaited(post, p)
                OBVIOUS
            <3>1. Awaited(post, page[t]) /\ post.by # "flush"
                BY <1>1, <1>2
            <3>. QED  BY <2>1, <3>1 DEF Awaited, Alike
        <2>. QED  BY <1>1, <1>5, <2>1, <2>2, RowsAsTheyAre, QuietTabStep DEF p
    <1>6. ASSUME NEW j \in 1..Len(rows), Viewed(record, j),
                 wire' = wire \cup {Posted(t, "flush", row, j)}, page' = page
          PROVE  QuoteInv'
        <2>. DEFINE new == Posted(t, "flush", row, j)
        <2>1. rows[j].record = record
            BY <1>6 DEF Viewed, RowsOf
        <2>2. row \in 1..Len(rows)
            <3>1. \E i \in page[t].rest : \A k \in page[t].rest : i <= k
                <4>1. page[t].rest \subseteq Nat
                    BY <1>4, RowsAsTheyAre
                <4>. QED  BY <1>1, <4>1, NatLeast
            <3>2. row \in page[t].rest
                BY <3>1 DEF First
            <3>. QED  BY <1>4, <3>2
        <2>3. /\ new \in Post /\ PostBacked(new, rows, quotes)
              /\ new.from = t /\ new.by = "flush"
            BY <1>1, <2>1, <2>2, PostedPost
        <2>4. Show(t, page[t])
            BY <1>6 DEF Show, QuoteInv, QuoteTypeOK
        <2>. HIDE DEF new
        <2>5. wire' \subseteq Post
            BY <1>6, <2>3 DEF QuoteInv, QuoteTypeOK, new
        <2>6. \A post \in wire' :
                 /\ post \in wire \/ PostBacked(post, rows', quotes)
                 /\ post.from = t => Awaited(post, page[t])
                 /\ post.from \notin {t, None} => post \in wire
            BY <1>1, <1>2, <1>6, <2>3 DEF Awaited, IsOpen, new
        <2>7. \A a, b \in wire' : a.from = t => Apart(a, b)
            <3>1. \A a, b \in wire : Apart(a, b)
                BY DEF QuoteInv
            <3>2. \A a \in wire' : a \in wire \/ a = new
                BY <1>6 DEF new
            <3>. QED  BY <1>1, <2>3, <3>1, <3>2 DEF Apart
        <2>. QED  BY <1>1, <1>2, <2>4, <2>5, <2>6, <2>7, RowsAsTheyAre, TabStep
    <1>7. CASE /\ Show(t, Left(page[t], page[t].rest \ {row}))
               /\ wire' = wire
        BY <1>5, <1>7
    <1>8. CASE /\ Show(t, Completed(page[t]))
               /\ wire' = wire
        <2>1. Left(page[t], {}) = Completed(page[t])
            BY DEF Left
        <2>2. Show(t, Left(page[t], {}))
            BY <1>8, <2>1
        <2>. QED  BY <1>5, <1>8, <2>2
    <1>. QED  BY <1>6, <1>7, <1>8 DEF Deliver

\* The answer to a delivery arrives.
LEMMA DeliveredStep ==
    ASSUME QuoteInv, NEW t \in Tabs, Delivered(t)
    PROVE  QuoteInv'
    <1>1. PICK post \in wire :
             /\ post.from = t /\ post.by = "flush" /\ post.status # None
             /\ rows' = IF post.status = OK THEN Marked(post.row, "synced")
                        ELSE IF Rejected(post.status) /\ post.status # Unauthorized
                        THEN Marked(post.row, "failed")
                        ELSE rows
             /\ Show(t, Left(page[t], page[t].rest \ {post.row}))
             /\ wire' = wire \ {post}
             /\ UNCHANGED <<online, server>>
        BY DEF Delivered
    <1>2. /\ post \in Post /\ PostBacked(post, rows, quotes) /\ Awaited(post, page[t])
          /\ post.row \in 1..Len(rows) /\ rows[post.row].record = post.record
          /\ IsOpen(t) /\ page[t].rest # {}
        BY <1>1, QuoteAssumption DEF QuoteInv, QuoteTypeOK, PostBacked, Awaited, IsOpen
    <1>3. /\ rows' \in Seq(Row) /\ Len(rows') <= MaxSaves
          /\ Kept(rows, quotes, rows', quotes) /\ QuotesBacked(rows', quotes)
        <2>1. CASE post.status = OK
            <3>1. quotes[rows[post.row].record] # None
                BY <1>2, <2>1 DEF PostBacked
            <3>. QED  BY <1>1, <1>2, <2>1, <3>1, RowsAsTheyAre, MarkingKeeps
        <2>2. CASE post.status # OK
            BY <1>1, <1>2, <2>2, RowsAsTheyAre, MarkingKeeps
        <2>. QED  BY <2>1, <2>2
    <1>. DEFINE rest == page[t].rest \ {post.row}
                p == Left(page[t], rest)
    <1>4. /\ page[t] \in Page
          /\ PageBacked(page[t], rows, quotes)
          /\ PageScheduled(page[t])
          /\ \A q \in wire : q.from = t => Awaited(q, page[t])
        BY <1>2, OpenPage
    <1>5. /\ page[t].sched.phase = "flushing" /\ page[t].runs = 1
          /\ page[t].owed => page[t].sched.flushRequested
        BY <1>2, <1>4 DEF PageScheduled
    <1>6. PageBacked(page[t], rows', quotes)
        BY <1>3, <1>4, PageStays, RowsAsTheyAre
    <1>7. rest \in SUBSET Rows /\ rest \subseteq 1..Len(rows')
        BY <1>4, <1>6 DEF Page, PageBacked
    <1>. HIDE DEF rest
    <1>8. /\ p \in Page /\ p # None /\ PageScheduled(p) /\ PageBacked(p, rows', quotes)
          /\ Alike(page[t], p)
        BY <1>4, <1>5, <1>6, <1>7, LeftSound
    <1>. HIDE DEF p
    <1>9. \A q \in wire' : q.from = t => Awaited(q, p)
        <2>. SUFFICES ASSUME NEW q \in wire \ {post}, q.from = t
                      PROVE  Awaited(q, p)
            BY <1>1
        <2>1. Awaited(q, page[t]) /\ q.by # "flush"
            BY <1>1, <1>4, QuoteAssumption DEF QuoteInv, Apart
        <2>. QED  BY <1>8, <2>1 DEF Awaited, Alike
    <1>. QED  BY <1>1, <1>3, <1>8, <1>9, QuietTabStep DEF p, rest

\* An answer, which creates the quote at most.
LEMMA AnswerStep ==
    ASSUME QuoteInv, NEW post \in wire, post.status = None, NEW status \in Statuses,
           Answer(post, status),
           UNCHANGED <<rows, page, online, session, logins>>,
           failures' \in 0..MaxFailures,
           quotes' = quotes
           \/ (/\ quotes[post.record] \in {None, post.content}
               /\ quotes' = [quotes EXCEPT ![post.record] = post.content]),
           status = OK => quotes'[post.record] # None
    PROVE  QuoteInv'
    <1>1. /\ post \in Post /\ PostBacked(post, rows, quotes)
          /\ post.from # None => Awaited(post, page[post.from])
          /\ wire \subseteq Post
        BY DEF QuoteInv, QuoteTypeOK
    <1>2. post.record \in Records /\ post.content \in Contents /\ post.content # None
        BY <1>1, QuoteAssumption DEF Post
    <1>3. quotes' \in Quotes
        BY <1>2, RowsAsTheyAre DEF Quotes
    <1>4. Kept(rows, quotes, rows, quotes')
        BY <1>2, RowsAsTheyAre DEF Kept, Quotes
    <1>5. QuotesBacked(rows, quotes')
        <2>1. CASE quotes' = quotes
            BY <2>1, RowsAsTheyAre
        <2>2. CASE quotes' = [quotes EXCEPT ![post.record] = post.content]
            <3>1. \A r \in Records : quotes'[r] = IF r = post.record THEN post.content ELSE quotes[r]
                BY <1>2, <2>2, RowsAsTheyAre DEF Quotes
            <3>2. \A r \in Records : quotes'[r] # None =>
                     \E j \in 1..Len(rows) : rows[j].record = r /\ rows[j].content = quotes'[r]
                BY <1>1, <3>1, RowsAsTheyAre DEF QuotesBacked, PostBacked
            <3>3. \A i \in 1..Len(rows) : rows[i].record \in Records
                <4>1. \A i \in 1..Len(rows) : rows[i] \in Row
                    BY RowsAsTheyAre, ElementOfSeq
                <4>. QED  BY <4>1 DEF Row
            <3>4. \A i \in 1..Len(rows) :
                     rows[i].status = "synced" => quotes'[rows[i].record] # None
                BY <1>2, <3>1, <3>3, RowsAsTheyAre DEF QuotesBacked
            <3>. QED  BY <3>2, <3>4 DEF QuotesBacked
        <2>. QED  BY <2>1, <2>2
    <1>. DEFINE new == [post EXCEPT !.status = status]
    <1>6. /\ new \in Post /\ new.status = status
          /\ new.from = post.from /\ new.by = post.by /\ new.row = post.row
          /\ new.record = post.record /\ new.content = post.content
        BY <1>1 DEF Post
    <1>7. \A q \in wire' : q \in wire \ {post} \/ q = new
        BY DEF Answer
    <1>. HIDE DEF new
    <1>8. \A q \in wire' :
             /\ PostBacked(q, rows', quotes')
             /\ q.from # None => Awaited(q, page'[q.from])
        <2>. SUFFICES ASSUME NEW q \in wire'
                      PROVE  /\ PostBacked(q, rows, quotes')
                             /\ q.from # None => Awaited(q, page[q.from])
            OBVIOUS
        <2>1. CASE q \in wire
            <3>1. q \in Post /\ PostBacked(q, rows, quotes) /\ (q.from # None => Awaited(q, page[q.from]))
                BY <1>1, <2>1 DEF QuoteInv
            <3>. QED  BY <1>3, <1>4, <3>1, PostStays, RowsAsTheyAre
        <2>2. CASE q = new
            <3>1. PostBacked(new, rows, quotes')
                BY <1>1, <1>6 DEF PostBacked
            <3>. QED  BY <1>1, <1>6, <2>2, <3>1 DEF Awaited
        <2>. QED  BY <1>7, <2>1, <2>2
    <1>9. \A a, b \in wire' : Apart(a, b)
        <2>. SUFFICES ASSUME NEW a \in wire', NEW b \in wire', a.from # None,
                             a.from = b.from, a.by = b.by
                      PROVE  a = b
            BY DEF Apart
        <2>1. \A q \in wire \ {post} : ~(q.from = a.from /\ q.by = a.by
                                         /\ post.from = a.from /\ post.by = a.by)
            BY DEF QuoteInv, Apart
        <2>2. CASE a = new \/ b = new
            BY <1>6, <1>7, <2>1, <2>2
        <2>3. CASE a # new /\ b # new
            BY <1>7, <2>3 DEF QuoteInv, Apart
        <2>. QED  BY <2>2, <2>3
    <1>10. \A t \in Tabs : page'[t] # None =>
              PageBacked(page'[t], rows', quotes') /\ PageScheduled(page'[t])
        <2>. SUFFICES ASSUME NEW t \in Tabs, page[t] # None
                      PROVE  PageBacked(page[t], rows, quotes') /\ PageScheduled(page[t])
            OBVIOUS
        <2>1. PageBacked(page[t], rows, quotes) /\ PageScheduled(page[t])
            BY DEF QuoteInv, IsOpen
        <2>. QED  BY <1>3, <1>4, <2>1, PageStays, RowsAsTheyAre
    <1>11. wire' \subseteq Post
        BY <1>1, <1>6, <1>7
    <1>12. QuoteTypeOK'
        BY <1>3, <1>11 DEF QuoteTypeOK, QuoteInv, Quotes
    <1>. QED  BY <1>5, <1>8, <1>9, <1>10, <1>12 DEF QuoteInv, IsOpen

LEMMA ServeStep ==
    ASSUME QuoteInv, NEW post \in wire, Serve(post)
    PROVE  QuoteInv'
    <1>1. post.status = None /\ UNCHANGED <<rows, page, online, session, logins>>
        BY DEF Serve
    <1>2. /\ failures \in 0..MaxFailures /\ MaxFailures \in Nat
          /\ quotes \in [Records -> Contents \cup {None}]
          /\ post \in Post
        BY QuoteAssumption DEF QuoteInv, QuoteTypeOK
    <1>3. /\ post.record \in Records /\ post.content # None
          /\ {NoAnswer, OK, Unauthorized, Forbidden, Unprocessable} \subseteq Statuses
          /\ OK \notin {NoAnswer, Unauthorized, Forbidden, Unprocessable}
          /\ Denial = Unauthorized
        BY <1>2, QuoteAssumption DEF Post, Statuses, NoAnswer, OK, Unauthorized, Forbidden,
                                     Unprocessable, Denial
    <1>4. CASE Refuse(post)
        <2>1. PICK status \in {Unauthorized, Forbidden, Unprocessable} : Answer(post, status)
            BY <1>3, <1>4 DEF Refuse
        <2>2. quotes' = quotes /\ failures' = failures
            BY <1>4 DEF Refuse
        <2>. QED  BY <1>1, <1>2, <1>3, <2>1, <2>2, AnswerStep
    <1>5. CASE Accept(post)
        <2>1. /\ quotes[post.record] \in {None, post.content}
              /\ quotes' = [quotes EXCEPT ![post.record] = post.content]
              /\ Answer(post, OK) /\ failures' = failures
            BY <1>5 DEF Accept, Accepted, Acceptable
        <2>2. quotes'[post.record] # None
            BY <1>2, <1>3, <2>1
        <2>. QED  BY <1>1, <1>2, <1>3, <2>1, <2>2, AnswerStep
    <1>6. CASE Disturb(post)
        <2>1. failures' \in 0..MaxFailures
            <3>1. failures < MaxFailures /\ failures' = failures + 1
                BY <1>6 DEF Disturb
            <3>. QED  BY <1>2, <3>1
        <2>2. PICK status \in {NoAnswer, Unprocessable} :
              /\ Answer(post, status)
              /\ quotes' = quotes
                 \/ (/\ quotes[post.record] \in {None, post.content}
                     /\ quotes' = [quotes EXCEPT ![post.record] = post.content])
            BY <1>6 DEF Disturb, Accepted, Acceptable
        <2>. QED  BY <1>1, <1>2, <1>3, <2>1, <2>2, AnswerStep
    <1>. QED  BY <1>4, <1>5, <1>6 DEF Serve

\* Steps that leave the rows, the quotes and the posts alone.
LEMMA OutsideSteps ==
    ASSUME QuoteInv, SessionEnds \/ Login \/ GoOffline \/ UNCHANGED quoteVars
    PROVE  QuoteInv'
    <1>1. rows' = rows /\ page' = page /\ wire' = wire /\ quotes' = quotes
        BY DEF SessionEnds, Login, GoOffline, quoteVars, server
    <1>2. /\ session \in Sessions /\ logins \in Sessions /\ failures \in 0..MaxFailures
          /\ online \in BOOLEAN
          /\ MaxSessions \in Nat /\ MaxFailures \in Nat
        BY QuoteAssumption DEF QuoteInv, QuoteTypeOK
    <1>3. session' \in Sessions /\ logins' \in Sessions /\ failures' \in 0..MaxFailures
          /\ online' \in BOOLEAN
        <2>1. CASE UNCHANGED quoteVars
            BY <1>2, <2>1 DEF quoteVars, server
        <2>2. CASE Login
            BY <1>2, <2>2 DEF Login, Sessions
        <2>3. CASE SessionEnds \/ GoOffline
            <3>1. failures' \in 0..MaxFailures
                <4>1. failures < MaxFailures /\ failures' = failures + 1
                    BY <2>3 DEF SessionEnds, GoOffline
                <4>. QED  BY <1>2, <4>1
            <3>2. /\ session' \in {session, 0} /\ logins' = logins
                  /\ online' \in {online, FALSE}
                BY <2>3 DEF SessionEnds, GoOffline
            <3>3. 0 \in Sessions
                BY <1>2 DEF Sessions
            <3>. QED  BY <1>2, <3>1, <3>2, <3>3
        <2>. QED  BY <2>1, <2>2, <2>3
    <1>. QED  BY <1>1, <1>3 DEF QuoteInv, QuoteTypeOK, IsOpen

LEMMA GoOnlineStep ==
    ASSUME QuoteInv, GoOnline
    PROVE  QuoteInv'
    <1>1. /\ rows' = rows /\ wire' = wire /\ UNCHANGED server
          /\ online' = TRUE
          /\ \A t \in Tabs : page'[t] \in {page[t], Woken(page[t])}
          /\ \A t \in Tabs : ~IsOpen(t) => page'[t] = None
          /\ page' = [t \in Tabs |-> page'[t]]
        BY DEF GoOnline, IsReady, IsOpen
    <1>2. \A t \in Tabs : IsOpen(t) =>
             /\ page'[t] \in Page
             /\ PageBacked(page'[t], rows, quotes) /\ PageScheduled(page'[t])
             /\ \A post : Awaited(post, page[t]) => Awaited(post, page'[t])
        <2>. SUFFICES ASSUME NEW t \in Tabs, IsOpen(t)
                      PROVE  /\ page'[t] \in Page
                             /\ PageBacked(page'[t], rows, quotes) /\ PageScheduled(page'[t])
                             /\ \A post : Awaited(post, page[t]) => Awaited(post, page'[t])
            OBVIOUS
        <2>1. /\ page[t] \in Page
              /\ PageBacked(page[t], rows, quotes) /\ PageScheduled(page[t])
            BY OpenPage
        <2>2. CASE page'[t] = Woken(page[t])
            BY <2>1, <2>2, WokenSound
        <2>3. CASE page'[t] = page[t]
            BY <2>1, <2>3
        <2>. QED  BY <1>1, <2>2, <2>3
    <1>3. \A t \in Tabs : ~IsOpen(t) => page'[t] = None
        BY <1>1
    <1>4. page' \in [Tabs -> Page \cup {None}]
        BY <1>1, <1>2, <1>3
    <1>5. QuoteTypeOK'
        BY <1>1, <1>4 DEF QuoteInv, QuoteTypeOK, server
    <1>6. \A t \in Tabs : page'[t] # None =>
              PageBacked(page'[t], rows', quotes') /\ PageScheduled(page'[t])
        BY <1>1, <1>2, <1>3 DEF server
    <1>7. \A post \in wire :
             /\ PostBacked(post, rows', quotes')
             /\ post.from # None => Awaited(post, page'[post.from])
        <2>. SUFFICES ASSUME NEW post \in wire
                      PROVE  /\ PostBacked(post, rows, quotes)
                             /\ post.from # None => Awaited(post, page'[post.from])
            BY <1>1 DEF server
        <2>1. /\ PostBacked(post, rows, quotes)
              /\ post.from # None => post.from \in Tabs /\ Awaited(post, page[post.from])
            BY DEF QuoteInv, QuoteTypeOK, Post
        <2>. QED  BY <1>2, <2>1 DEF Awaited, IsOpen
    <1>. QED  BY <1>1, <1>5, <1>6, <1>7 DEF QuoteInv, IsOpen, server

-----------------------------------------------------------------------------
(* The theorems.                                                           *)

LEMMA QuoteInitSound ==
    QuoteInit => QuoteInv
    <1>. SUFFICES ASSUME QuoteInit
                  PROVE  QuoteInv
        OBVIOUS
    <1>. USE DEF QuoteInit
    <1>1. /\ rows \in Seq(Row) /\ Len(rows) = 0
          /\ MaxSaves \in Nat /\ MaxSessions \in Nat /\ MaxFailures \in Nat
        BY EmptySeq, QuoteAssumption
    <1>2. QuoteTypeOK
        <2>1. 1 \in Sessions /\ 0 \in 0..MaxFailures
            BY <1>1, QuoteAssumption DEF Sessions
        <2>. QED  BY <1>1, <2>1 DEF QuoteTypeOK
    <1>3. QuotesBacked(rows, quotes)
        BY <1>1 DEF QuotesBacked
    <1>. QED  BY <1>1, <1>2, <1>3 DEF QuoteInv, IsOpen

LEMMA QuoteStep ==
    QuoteInv /\ [QuoteNext]_quoteVars => QuoteInv'
    <1>. SUFFICES ASSUME QuoteInv, [QuoteNext]_quoteVars
                  PROVE  QuoteInv'
        OBVIOUS
    <1>1. ASSUME NEW t \in Tabs, Open(t) \/ Wiring(t) \/ Close(t) \/ Wake(t)
          PROVE  QuoteInv'
        BY <1>1, OpenStep, WiringStep, CloseStep, WakeStep
    <1>2. ASSUME NEW t \in Tabs, NEW content \in Contents, Confirm(t, content)
          PROVE  QuoteInv'
        BY <1>2, ConfirmStep
    <1>3. ASSUME NEW t \in Tabs, Submission(t)
          PROVE  QuoteInv'
        BY <1>3, IssueStep, AfterRequestStep, MarkStep DEF Submission
    <1>4. ASSUME NEW t \in Tabs, Flushing(t)
          PROVE  QuoteInv'
        BY <1>4, StartFlushStep, DeliverStep, DeliveredStep DEF Flushing
    <1>5. ASSUME NEW post \in wire, Serve(post)
          PROVE  QuoteInv'
        BY <1>5, ServeStep
    <1>6. CASE SessionEnds \/ Login \/ GoOffline \/ UNCHANGED quoteVars
        BY <1>6, OutsideSteps
    <1>7. CASE GoOnline
        BY <1>7, GoOnlineStep
    <1>. QED  BY <1>1, <1>2, <1>3, <1>4, <1>5, <1>6, <1>7 DEF QuoteNext

\* The invariant holds in every state: queue, pages, posts under way and the
\* quotes of the service always fit together.
THEOREM QuotesAlways == QuoteSpec => []QuoteInv
    BY QuoteInitSound, QuoteStep, PTL DEF QuoteSpec

\* SyncedIsAccepted: no answer that arrives late, twice or on another way
\* makes a row synced that the quote service does not have.
THEOREM SyncedIsAlwaysAccepted == QuoteSpec => []SyncedIsAccepted
    <1>1. QuoteInv => SyncedIsAccepted
        <2>. SUFFICES ASSUME QuoteInv, NEW i \in 1..Len(rows), rows[i].status = "synced"
                      PROVE  \E j \in RowsOf(rows[i].record) :
                                quotes[rows[i].record] = rows[j].content
            BY DEF SyncedIsAccepted
        <2>1. rows[i] \in Row
            BY RowsAsTheyAre, ElementOfSeq
        <2>2. rows[i].record \in Records
            BY <2>1 DEF Row
        <2>. QED  BY <2>2 DEF QuoteInv, QuotesBacked, RowsOf
    <1>. QED  BY <1>1, QuotesAlways, PTL

\* WakesCoalesce: the scheduler keeps one flush going and remembers every
\* wake, in any order of wakes, answers and errors.
THEOREM WakesAlwaysCoalesce == QuoteSpec => []WakesCoalesce
    <1>1. QuoteInv => WakesCoalesce
        BY DEF QuoteInv, WakesCoalesce, PageScheduled
    <1>. QED  BY <1>1, QuotesAlways, PTL

-----------------------------------------------------------------------------
(* The refinement of QuoteBook.                                            *)

BookMoves == [Book!BookNext]_(Book!bookVars)

\* A row that is marked is a report to the user.
LEMMA MarkingReports ==
    ASSUME QuoteInv, NEW row \in 1..Len(rows), NEW status \in {"synced", "failed"},
           status = "synced" => quotes[rows[row].record] # None,
           rows' = Marked(row, status), quotes' = quotes
    PROVE  BookMoves
    BY DEF BookMoves, Book!BookNext, Book!Report, Marked

\* A quote is created from a saved request, or found.
LEMMA AcceptingCreates ==
    ASSUME QuoteInv, NEW post \in wire, Accepted(post), rows' = rows
    PROVE  BookMoves
    <1>1. /\ post.content \notin Invalid
          /\ quotes[post.record] \in {None, post.content}
          /\ quotes' = [quotes EXCEPT ![post.record] = post.content]
        BY DEF Accepted, Acceptable
    <1>2. PICK j \in 1..Len(rows) : rows[j].record = post.record
                                   /\ rows[j].content = post.content
        BY DEF QuoteInv, PostBacked
    <1>3. CASE quotes[post.record] = None
        BY <1>1, <1>2, <1>3 DEF BookMoves, Book!BookNext, Book!Create
    <1>4. CASE quotes[post.record] = post.content
        <2>1. quotes' = quotes
            BY <1>1, <1>4, RowsAsTheyAre DEF Quotes
        <2>. QED  BY <2>1 DEF BookMoves, Book!bookVars
    <1>. QED  BY <1>1, <1>3, <1>4

\* A step that leaves rows and quotes as they are.
LEMMA QuietForBook ==
    ASSUME rows' = rows, quotes' = quotes
    PROVE  BookMoves
    BY DEF BookMoves, Book!bookVars

LEMMA ConfirmSaves ==
    ASSUME QuoteInv, NEW t \in Tabs, NEW content \in Contents, Confirm(t, content)
    PROVE  BookMoves
    <1>. DEFINE row == Len(rows) + 1
                record == IF page[t].record = 0 THEN row ELSE page[t].record
    <1>1. /\ IsOpen(t) /\ row <= MaxSaves /\ quotes' = quotes
          /\ rows' = Append(rows, [record |-> record, content |-> content,
                                   status |-> "pending"])
        BY DEF Confirm, IsReady, server
    <1>2. page[t].record \in Records \cup {0}
        BY <1>1, OpenPage DEF Page
    <1>3. record \in Records
        BY <1>1, <1>2, RowsAsTheyAre, QuoteAssumption DEF Records, Rows
    <1>4. record = row \/ \E i \in 1..Len(rows) : rows[i].record = record
        BY <1>1, OpenPage DEF PageBacked
    <1>. QED  BY <1>1, <1>3, <1>4 DEF BookMoves, Book!BookNext, Book!Save

LEMMA MarkReports ==
    ASSUME QuoteInv, NEW t \in Tabs, Mark(t)
    PROVE  BookMoves
    <1>1. IsOpen(t) /\ quotes' = quotes
        BY DEF Mark, server
    <1>2. PICK m \in page[t].marks : rows' = Marked(m.row, m.status)
        BY DEF Mark
    <1>3. /\ m.row \in 1..Len(rows) /\ m.status \in {"synced", "failed"}
          /\ m.status = "synced" => quotes[rows[m.row].record] # None
        BY <1>1, OpenPage DEF PageBacked, Page
    <1>. QED  BY <1>1, <1>2, <1>3, MarkingReports

LEMMA DeliveredReports ==
    ASSUME QuoteInv, NEW t \in Tabs, Delivered(t)
    PROVE  BookMoves
    <1>1. PICK post \in wire :
             /\ post.from = t
             /\ \/ post.status = OK /\ rows' = Marked(post.row, "synced")
                \/ rows' \in {rows, Marked(post.row, "failed")}
             /\ quotes' = quotes
        BY DEF Delivered, server
    <1>2. /\ post.row \in 1..Len(rows) /\ rows[post.row].record = post.record
          /\ post.status = OK => quotes[post.record] # None
        BY <1>1, QuoteAssumption DEF QuoteInv, PostBacked
    <1>. QED  BY <1>1, <1>2, MarkingReports, QuietForBook

LEMMA BookStep ==
    QuoteInv /\ [QuoteNext]_quoteVars => BookMoves
    <1>. SUFFICES ASSUME QuoteInv, [QuoteNext]_quoteVars
                  PROVE  BookMoves
        OBVIOUS
    <1>1. ASSUME NEW t \in Tabs,
                 \/ Open(t) \/ Wiring(t) \/ Close(t) \/ Wake(t)
                 \/ Issue(t) \/ AfterRequest(t) \/ StartFlush(t) \/ Deliver(t)
          PROVE  BookMoves
        <2>1. rows' = rows /\ quotes' = quotes
            BY <1>1 DEF Open, Wiring, Prepare, Render, Close, Wake, Issue, AfterRequest,
                        StartFlush, Deliver, server
        <2>. QED  BY <2>1, QuietForBook
    <1>2. ASSUME NEW t \in Tabs, NEW content \in Contents, Confirm(t, content)
          PROVE  BookMoves
        BY <1>2, ConfirmSaves
    <1>3. ASSUME NEW t \in Tabs, Mark(t) \/ Delivered(t)
          PROVE  BookMoves
        BY <1>3, MarkReports, DeliveredReports
    <1>4. ASSUME NEW post \in wire, Serve(post)
          PROVE  BookMoves
        <2>1. rows' = rows /\ (Accepted(post) \/ quotes' = quotes)
            BY <1>4 DEF Serve, Refuse, Accept, Disturb
        <2>. QED  BY <2>1, AcceptingCreates, QuietForBook
    <1>5. CASE SessionEnds \/ Login \/ GoOffline \/ GoOnline \/ UNCHANGED quoteVars
        <2>1. rows' = rows /\ quotes' = quotes
            BY <1>5 DEF SessionEnds, Login, GoOffline, GoOnline, quoteVars, server
        <2>. QED  BY <2>1, QuietForBook
    <1>. QED
        BY <1>1, <1>2, <1>3, <1>4, <1>5 DEF QuoteNext, Submission, Flushing

\* ImplementsBook: whatever tabs, flushes, sessions and lost answers do, the
\* queue and the quote service go through one simple history, in which each
\* id gets one quote, of something valid that was saved under it, and nothing
\* is shown as delivered before.
THEOREM DeliveryIsABook == QuoteSpec => ImplementsBook
    <1>1. QuoteInit => Book!BookInit
        BY DEF QuoteInit, Book!BookInit
    <1>2. QuoteInv /\ [QuoteNext]_quoteVars => [Book!BookNext]_(Book!bookVars)
        BY BookStep DEF BookMoves
    <1>. QED
        BY <1>1, <1>2, QuotesAlways, PTL DEF QuoteSpec, ImplementsBook, Book!BookSpec
=============================================================================
