------------------------------ MODULE Tenancy ------------------------------
(***************************************************************************)
(* Whose rows a transaction sees and leaves (crates/canonical-store), with *)
(* the handlers that work on them: the engagement pages                    *)
(* (src/routes/pages.rs), the creation of a session at login, and the      *)
(* transactions of the session service and of the revoker                  *)
(* (crates/canonical-session).  The database is PostgreSQL: connections of *)
(* a pool are used by one transaction after the other, every statement     *)
(* reads what is committed by then (READ COMMITTED), and row-level         *)
(* security filters by settings of the transaction.  Accounts may be       *)
(* deleted at the authentication service at any time.                      *)
(*                                                                         *)
(* A row is a record with its table and owner.  Only columns that decide   *)
(* who sees a row, or what it refers to, are kept, and the status of an    *)
(* engagement.                                                             *)
(***************************************************************************)
EXTENDS Integers, FiniteSets

CONSTANTS
    Users,       \* accounts
    Ids,         \* the identifiers that engagements draw, without repetition
    Statuses,    \* what an engagement may be; "scoping" among them
    Requests,    \* requests in flight in the web process
    Runs,        \* transactions in flight in the revoker
    Pool,        \* connections of the web process
    RunPool,     \* connections of the revoker
    None

Clients == Requests \cup Runs

ASSUME TenancyAssumption ==
    /\ "scoping" \in Statuses
    /\ None \notin Users \cup Ids
    /\ Requests \cap Runs = {}
    /\ Pool \cap RunPool = {}

VARIABLES
    users,     \* auth.users
    rows,      \* the committed rows
    spent,     \* identifiers drawn so far
    isolated,  \* processes whose login is the role they expect, with none of
               \* the attributes that get around row-level security
    session,   \* [connections -> settings that outlive transactions]
    txn,       \* [Clients -> the open transaction, or Closed]
    acked      \* history: rows whose last writing was answered with success

tenancyVars == <<users, rows, spent, isolated, session, txn, acked>>

Closed == [pc |-> "closed"]
Nobody == [sub |-> None, task |-> FALSE]

Session(u) == [table |-> "web_session", owner |-> u]
Profile(u) == [table |-> "user_profile", owner |-> u]
Engagement(id, u, status) ==
    [table |-> "audit_engagement", owner |-> u, id |-> id, status |-> status]
\* Notes are told apart by what they are attached to only.
Note(id, u) == [table |-> "engagement_note", owner |-> u, engagement |-> id]

Row ==
    [table : {"web_session", "user_profile"}, owner : Users]
        \cup [table : {"audit_engagement"}, owner : Users, id : Ids, status : Statuses]
        \cup [table : {"engagement_note"}, owner : Users, engagement : Ids]

PageKinds == {"list", "create", "detail", "status", "note"}
Kinds == PageKinds \cup {"login", "session", "revocation"}
Labels == {"begun", "ready", "found", "inserted", "written", "shown"}
Settings == [sub : Users \cup {None}, task : BOOLEAN]

\* Only transactions of a customer name an actor.
Transaction ==
    {t \in [pc : Labels, kind : Kinds, actor : Users \cup {None},
            conn : Pool \cup RunPool, settings : Settings,
            target : Ids \cup {None}, writes : SUBSET Row, seen : SUBSET Row] :
        t.actor = None <=> t.kind \in {"session", "revocation"}}

\* Type correctness: every column and setting holds what the schema and the
\* handlers put there.
TenancyTypeOK ==
    /\ users \subseteq Users
    /\ rows \subseteq Row
    /\ spent \subseteq Ids
    /\ isolated \subseteq {"web", "revoker"}
    /\ session \in [Pool \cup RunPool -> Settings]
    /\ txn \in [Clients -> {Closed} \cup Transaction]
    /\ acked \subseteq Row

\* The schema, just created.
TenancyInit ==
    /\ users = Users
    /\ rows = {}
    /\ spent = {}
    /\ isolated \in SUBSET {"web", "revoker"}
    /\ session = [c \in Pool \cup RunPool |-> Nobody]
    /\ txn = [r \in Clients |-> Closed]
    /\ acked = {}

-----------------------------------------------------------------------------
(* What a transaction sees.                                                *)

At(r, label) == txn[r].pc = label
Goto(r, label) == txn' = [txn EXCEPT ![r].pc = label]
Open(r) == ~At(r, "closed")

Process(r) == IF r \in Requests THEN "web" ELSE "revoker"

\* verify_isolated_database_role: before the web process serves, and before
\* each transaction of the revoker.
Verified(p) == p \in isolated

\* The policies: the process boundary of web_session, and the owner for the
\* others.
Policy(p, settings, row) ==
    IF row.table = "web_session"
    THEN p = "web" \/ settings.task
    ELSE row.owner = settings.sub

\* The rows s with the rows of ws written to them.
Apply(s, ws) ==
    {x \in s : ~\E w \in ws : /\ w.table = "audit_engagement"
                              /\ x.table = w.table
                              /\ x.id = w.id} \cup ws

\* What a statement of r may see or change: committed rows and its own, as
\* far as the policies admit. They do not bind a role that is not isolated.
Visible(r) ==
    {row \in Apply(rows, txn[r].writes) :
        Process(r) \in isolated => Policy(Process(r), txn[r].settings, row)}

\* owned_engagement and list_engagements also ask for the owner.
Owned(r, table) ==
    {row \in Visible(r) : row.table = table /\ row.owner = txn[r].actor}

Busy(c) == \E r \in Clients : Open(r) /\ txn[r].conn = c

-----------------------------------------------------------------------------
(* Opening a transaction.                                                  *)

Begin(r, kind, actor, c) ==
    /\ ~Open(r)
    /\ ~Busy(c)
    /\ Verified(Process(r))
    /\ txn' = [txn EXCEPT ![r] =
                  [pc |-> IF kind = "session" THEN "ready" ELSE "begun",
                   kind |-> kind, actor |-> actor, conn |-> c,
                   settings |-> session[c], target |-> None,
                   writes |-> {}, seen |-> {}]]
    /\ UNCHANGED <<users, rows, spent, isolated, session, acked>>

\* A page's handler has authenticated its actor by the cookie's session,
\* which has no reference to the account; a login has by the password; the
\* session service opens transactions of nobody.
BeginRequest(r) ==
    \E c \in Pool :
        \/ \E u \in Users, kind \in PageKinds :
              Session(u) \in rows /\ Begin(r, kind, u, c)
        \/ \E u \in users : Begin(r, "login", u, c)
        \/ Begin(r, "session", None, c)

BeginRun(r) == \E c \in RunPool : Begin(r, "revocation", None, c)

Claims(r) == [sub |-> txn[r].actor, task |-> txn[r].kind = "revocation"]

\* Mutant of Install: settings of the session, not of the transaction.
InstallForSession(r) ==
    /\ At(r, "begun")
    /\ txn' = [txn EXCEPT ![r].settings = Claims(r), ![r].pc = "ready"]
    /\ session' = [session EXCEPT ![txn[r].conn] = Claims(r)]
    /\ UNCHANGED <<users, rows, spent, isolated, acked>>

\* begin_user_transaction and begin_session_revocation_transaction install
\* their claims with set_config(..., true).
Install(r) ==
    /\ At(r, "begun")
    /\ txn' = [txn EXCEPT ![r].settings = Claims(r), ![r].pc = "ready"]
    /\ UNCHANGED <<users, rows, spent, isolated, session, acked>>

-----------------------------------------------------------------------------
(* Statements.                                                             *)

\* owned_engagement for the page's identifier ...
Find(r) ==
    /\ At(r, "ready")
    /\ txn[r].kind \in {"detail", "status", "note"}
    /\ \E row \in Owned(r, "audit_engagement") :
          txn' = [txn EXCEPT ![r].target = row.id, ![r].pc = "found",
                             ![r].seen = {row}]
    /\ UNCHANGED <<users, rows, spent, isolated, session, acked>>

\* ... which may be nobody's, or another's: NotFound, and the transaction is
\* dropped. A form found invalid after that rolls it back as well.
Refuse(r) ==
    /\ \/ At(r, "ready") /\ txn[r].kind \in {"detail", "status", "note"}
       \/ At(r, "found") /\ txn[r].kind \in {"status", "note"}
    /\ txn' = [txn EXCEPT ![r] = Closed]
    /\ UNCHANGED <<users, rows, spent, isolated, session, acked>>

\* engagements and engagement_detail read what they show.
Read(r) ==
    /\ \/ /\ At(r, "ready") /\ txn[r].kind = "list"
          /\ txn' = [txn EXCEPT ![r].seen = Owned(r, "audit_engagement"),
                                ![r].pc = "shown"]
       \/ /\ At(r, "found") /\ txn[r].kind = "detail"
          /\ txn' = [txn EXCEPT
                ![r].seen = @ \cup {n \in Owned(r, "engagement_note") :
                                      n.engagement = txn[r].target},
                ![r].pc = "shown"]
    /\ UNCHANGED <<users, rows, spent, isolated, session, acked>>

\* The policies' WITH CHECK.
Writable(r, row) ==
    Process(r) \in isolated => Policy(Process(r), txn[r].settings, row)

Write(r, row, label) ==
    /\ Writable(r, row)
    /\ txn' = [txn EXCEPT ![r].writes = @ \cup {row}, ![r].pc = label]
    /\ UNCHANGED <<users, rows, isolated, session, acked>>

\* The references to auth.users.
AccountExists(u) == u \in users

\* create_engagement
CreateEngagement(r) ==
    /\ At(r, "ready") /\ txn[r].kind = "create"
    /\ AccountExists(txn[r].actor)
    /\ \E id \in Ids \ spent :
          /\ spent' = spent \cup {id}
          /\ Write(r, Engagement(id, txn[r].actor, "scoping"), "written")

\* The update of update_engagement_status waits for those of others, and
\* fails if the row is gone.
UpdateStatus(r) ==
    /\ At(r, "found") /\ txn[r].kind = "status"
    /\ \A o \in Clients : Open(o) =>
          \A w \in txn[o].writes : w.table = "audit_engagement" => w.id # txn[r].target
    /\ \E row \in Visible(r), status \in Statuses :
          /\ row.table = "audit_engagement"
          /\ row.id = txn[r].target
          /\ Write(r, [row EXCEPT !.status = status], "written")
    /\ UNCHANGED spent

\* Mutant of References: no foreign key.
ReferencesAnything(id, u) == TRUE

\* The foreign keys of engagement_note, which see rows of every owner.
References(id, u) ==
    /\ \E row \in rows : row.table = "audit_engagement" /\ row.id = id
    /\ AccountExists(u)

\* add_engagement_note
AddNote(r) ==
    /\ At(r, "found") /\ txn[r].kind = "note"
    /\ References(txn[r].target, txn[r].actor)
    /\ Write(r, Note(txn[r].target, txn[r].actor), "written")
    /\ UNCHANGED spent

\* SessionService::create inserts the session ...
InsertSession(r) ==
    /\ At(r, "ready") /\ txn[r].kind = "login"
    /\ Write(r, Session(txn[r].actor), "inserted")
    /\ UNCHANGED spent

\* ... and the profile, unless it is there.
UpsertProfile(r) ==
    /\ At(r, "inserted")
    /\ AccountExists(txn[r].actor)
    /\ Write(r, Profile(txn[r].actor), "written")
    /\ UNCHANGED spent

\* Mutant of ReadBack: the list is read past the transaction.
ReadBackCommitted(r) ==
    /\ At(r, "written") /\ txn[r].kind \in {"create", "note"}
    /\ txn' = [txn EXCEPT ![r].seen = {row \in rows : row.owner = txn[r].actor},
                          ![r].pc = "shown"]
    /\ UNCHANGED <<users, rows, spent, isolated, session, acked>>

\* For htmx the list, or the notes of the engagement, is read again before
\* the commit.
ReadBack(r) ==
    /\ At(r, "written") /\ txn[r].kind \in {"create", "note"}
    /\ txn' = [txn EXCEPT
          ![r].seen = IF txn[r].kind = "create"
                      THEN Owned(r, "audit_engagement")
                      ELSE {n \in Owned(r, "engagement_note") : n.engagement = txn[r].target},
          ![r].pc = "shown"]
    /\ UNCHANGED <<users, rows, spent, isolated, session, acked>>

-----------------------------------------------------------------------------
(* Closing a transaction.                                                  *)

Finished(r) ==
    \/ At(r, "written") \/ At(r, "shown")
    \/ At(r, "ready") /\ txn[r].kind \in {"session", "revocation"}

\* The commit, with or without its answer.
Commit(r) ==
    /\ Finished(r)
    /\ rows' = Apply(rows, txn[r].writes)
    /\ LET others == Apply(acked, txn[r].writes) \ txn[r].writes
       IN  acked' \in {others, others \cup txn[r].writes}
    /\ txn' = [txn EXCEPT ![r] = Closed]
    /\ UNCHANGED <<users, spent, isolated, session>>

\* A statement fails, or the client goes away: the transaction is dropped,
\* and rolled back before its connection is used again.
Abort(r) ==
    /\ Open(r)
    /\ txn' = [txn EXCEPT ![r] = Closed]
    /\ UNCHANGED <<users, rows, spent, isolated, session, acked>>

\* The authentication service deletes an account, which cascades to its
\* profile, engagements and notes, but not to its sessions. It waits for
\* transactions that hold rows which refer to the account or are its own.
DeleteAccount(u) ==
    /\ u \in users
    /\ users' = users \ {u}
    /\ \A r \in Clients : Open(r) =>
          \A w \in txn[r].writes : w.owner = u => w.table = "web_session"
    /\ rows' = {row \in rows : row.owner = u => row.table = "web_session"}
    /\ acked' = acked \cap rows'
    /\ UNCHANGED <<spent, isolated, session, txn>>

TenancyNext ==
    \/ \E r \in Requests : BeginRequest(r)
    \/ \E r \in Runs : BeginRun(r)
    \/ \E r \in Clients :
          \/ Install(r)
          \/ Find(r) \/ Refuse(r) \/ Read(r)
          \/ CreateEngagement(r) \/ UpdateStatus(r) \/ AddNote(r)
          \/ InsertSession(r) \/ UpsertProfile(r)
          \/ ReadBack(r)
          \/ Commit(r) \/ Abort(r)
    \/ \E u \in Users : DeleteAccount(u)

TenancySpec == TenancyInit /\ [][TenancyNext]_tenancyVars

-----------------------------------------------------------------------------
(* What the store promises.                                                *)

\* Whichever transactions used its connection before, and whenever they were
\* dropped, a transaction never sees a customer's row that is not its
\* actor's: those that name no actor, or have not yet, see none. Sessions are
\* seen by the web process, and by the revoker in its task only.
VisibleIsMine ==
    \A r \in Clients : Open(r) =>
        \A row \in Visible(r) :
            IF row.table = "web_session"
            THEN r \in Requests \/ (txn[r].kind = "revocation" /\ ~At(r, "begun"))
            ELSE row.owner = txn[r].actor

\* A note always belongs to an engagement of its owner, although the account
\* may be deleted between the check of the engagement and the note.
NotesFollowEngagements ==
    \A n \in rows : n.table = "engagement_note" =>
        \E e \in rows : /\ e.table = "audit_engagement"
                        /\ e.id = n.engagement
                        /\ e.owner = n.owner

\* A login leaves both its session and its profile, or neither; only the
\* deletion of the account leaves the session behind.
LoginsAreWhole ==
    \A s \in rows : s.table = "web_session" /\ s.owner \in users => Profile(s.owner) \in rows

\* Rows that belong together are there together, whatever fails between the
\* statements that write them.
RowsBelongTogether == NotesFollowEngagements /\ LoginsAreWhole

\* What was answered with success is there, until the account is deleted; and
\* what a reply shows is its actor's, with the work of its own request.
RepliesAreTrue ==
    /\ acked \subseteq rows
    /\ \A r \in Requests : At(r, "shown") =>
          /\ txn[r].writes \subseteq txn[r].seen
          /\ \A row \in txn[r].seen : row.owner = txn[r].actor
=============================================================================
