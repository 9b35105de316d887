--------------------------- MODULE TenancyProofs ---------------------------
(***************************************************************************)
(* The properties of Tenancy, proved for all sets of accounts, engagements *)
(* and connections, and any number of requests and revocations in flight.  *)
(***************************************************************************)
EXTENDS Tenancy, TLAPS

-----------------------------------------------------------------------------
(* Typing.                                                                 *)

\* An open transaction is a transaction.
LEMMA OpenType ==
    ASSUME TenancyTypeOK, NEW r \in Clients, Open(r)
    PROVE  txn[r] \in Transaction
    BY DEF TenancyTypeOK, Open, At, Closed

\* Rows written to rows give rows.
LEMMA ApplyType ==
    ASSUME NEW s \in SUBSET Row, NEW ws \in SUBSET Row
    PROVE  Apply(s, ws) \in SUBSET Row
    BY DEF Apply

\* What a transaction sees are rows.
LEMMA VisibleType ==
    ASSUME TenancyTypeOK, NEW r \in Clients, Open(r)
    PROVE  Visible(r) \subseteq Row
    <1>1. txn[r].writes \in SUBSET Row
        BY OpenType DEF Transaction
    <1>2. Apply(rows, txn[r].writes) \in SUBSET Row
        BY <1>1, ApplyType DEF TenancyTypeOK
    <1>. QED  BY <1>2 DEF Visible

\* The statements that a transaction makes between its opening and its end.
Statement(r) ==
    \/ Find(r) \/ Read(r)
    \/ CreateEngagement(r) \/ UpdateStatus(r) \/ AddNote(r)
    \/ InsertSession(r) \/ UpsertProfile(r)
    \/ ReadBack(r)

\* A statement's effect: it goes on with the transaction, and notes a row
\* that it writes or what it has read.
LEMMA StatementMoves ==
    ASSUME TenancyTypeOK, NEW r \in Clients, Statement(r)
    PROVE  /\ txn[r] \in Transaction
           /\ ~At(r, "begun")
           /\ \E label \in {"found", "inserted", "written", "shown"},
                 target \in Ids \cup {None}, writes \in SUBSET Row, seen \in SUBSET Row :
                 txn' = [txn EXCEPT ![r] =
                            [@ EXCEPT !.pc = label, !.target = target,
                                      !.writes = writes, !.seen = seen]]
           /\ spent' \subseteq Ids
           /\ UNCHANGED <<users, rows, isolated, session, acked>>
    <1>o. Open(r) /\ ~At(r, "begun")
        BY DEF Statement, Find, Read, CreateEngagement, UpdateStatus, AddNote,
               InsertSession, UpsertProfile, ReadBack, Open, At
    <1>t. txn[r] \in Transaction
        BY <1>o, OpenType
    <1>v. Visible(r) \subseteq Row
        BY <1>o, VisibleType
    <1>w. ASSUME NEW row \in Row, NEW label \in {"inserted", "written"},
                 Write(r, row, label)
          PROVE  /\ \E writes \in SUBSET Row :
                       txn' = [txn EXCEPT ![r] =
                                  [@ EXCEPT !.pc = label, !.target = txn[r].target,
                                            !.writes = writes, !.seen = txn[r].seen]]
                 /\ UNCHANGED <<users, rows, isolated, session, acked>>
        <2>1. txn[r].writes \cup {row} \in SUBSET Row
            BY <1>t DEF Transaction
        <2>2. txn' = [txn EXCEPT ![r] =
                         [@ EXCEPT !.pc = label, !.target = txn[r].target,
                                   !.writes = txn[r].writes \cup {row},
                                   !.seen = txn[r].seen]]
            BY <1>t, <1>w DEF Write, Transaction, TenancyTypeOK
        <2>. QED  BY <1>w, <2>1, <2>2 DEF Write
    <1>1. CASE Find(r)
        <2>1. PICK row \in Owned(r, "audit_engagement") :
                  txn' = [txn EXCEPT ![r].target = row.id, ![r].pc = "found",
                                     ![r].seen = {row}]
            BY <1>1 DEF Find
        <2>2. row \in Row /\ row.id \in Ids
            BY <1>v, <2>1 DEF Owned, Row
        <2>3. txn' = [txn EXCEPT ![r] =
                         [@ EXCEPT !.pc = "found", !.target = row.id,
                                   !.writes = txn[r].writes, !.seen = {row}]]
            BY <1>t, <2>1 DEF Transaction, TenancyTypeOK
        <2>4. txn[r].writes \in SUBSET Row /\ {row} \in SUBSET Row
            BY <1>t, <2>2 DEF Transaction
        <2>. QED  BY <1>1, <1>o, <1>t, <2>2, <2>3, <2>4 DEF Find, TenancyTypeOK
    <1>2. CASE Read(r) \/ ReadBack(r)
        <2>1. PICK seen \in SUBSET Row :
                  txn' = [txn EXCEPT ![r].seen = seen, ![r].pc = "shown"]
            <3>1. Owned(r, "audit_engagement") \in SUBSET Row
                BY <1>v DEF Owned
            <3>2. {n \in Owned(r, "engagement_note") : n.engagement = txn[r].target}
                      \in SUBSET Row
                BY <1>v DEF Owned
            <3>3. txn[r].seen \in SUBSET Row
                BY <1>t DEF Transaction
            <3>4. txn[r].seen \cup {n \in Owned(r, "engagement_note") :
                                      n.engagement = txn[r].target} \in SUBSET Row
                BY <3>2, <3>3
            <3>5. CASE Read(r) /\ txn[r].kind = "list"
                BY <3>1, <3>5 DEF Read, At
            <3>6. CASE Read(r) /\ txn[r].kind = "detail"
                <4>1. txn' = [txn EXCEPT
                         ![r].seen = txn[r].seen \cup
                                        {n \in Owned(r, "engagement_note") :
                                           n.engagement = txn[r].target},
                         ![r].pc = "shown"]
                    BY <1>t, <3>6 DEF Read, At, Transaction, TenancyTypeOK
                <4>. QED  BY <3>4, <4>1
            <3>7. CASE ReadBack(r)
                BY <3>1, <3>2, <3>7 DEF ReadBack
            <3>. QED  BY <1>2, <3>5, <3>6, <3>7 DEF Read
        <2>2. txn' = [txn EXCEPT ![r] =
                         [@ EXCEPT !.pc = "shown", !.target = txn[r].target,
                                   !.writes = txn[r].writes, !.seen = seen]]
            BY <1>t, <2>1 DEF Transaction, TenancyTypeOK
        <2>3. /\ txn[r].writes \in SUBSET Row
              /\ txn[r].target \in Ids \cup {None}
            BY <1>t DEF Transaction
        <2>4. spent' \subseteq Ids /\ UNCHANGED <<users, rows, isolated, session, acked>>
            BY <1>2 DEF Read, ReadBack, TenancyTypeOK
        <2>. QED  BY <1>o, <1>t, <2>2, <2>3, <2>4
    <1>3. CASE \E row \in Row, label \in {"inserted", "written"} :
                  Write(r, row, label) /\ spent' \subseteq Ids
        <2>1. PICK row \in Row, label \in {"inserted", "written"} :
                  Write(r, row, label) /\ spent' \subseteq Ids
            BY <1>3
        <2>2. PICK writes \in SUBSET Row :
                  txn' = [txn EXCEPT ![r] =
                             [@ EXCEPT !.pc = label, !.target = txn[r].target,
                                       !.writes = writes, !.seen = txn[r].seen]]
            BY <1>w, <2>1
        <2>3. UNCHANGED <<users, rows, isolated, session, acked>>
            BY <1>w, <2>1
        <2>4. txn[r].target \in Ids \cup {None} /\ txn[r].seen \in SUBSET Row
            BY <1>t DEF Transaction
        <2>. QED  BY <1>o, <1>t, <2>1, <2>2, <2>3, <2>4
    <1>4. CASE CreateEngagement(r)
        <2>1. txn[r].actor \in Users
            BY <1>4 DEF CreateEngagement, AccountExists, TenancyTypeOK
        <2>2. PICK id \in Ids \ spent :
                  /\ spent' = spent \cup {id}
                  /\ Write(r, Engagement(id, txn[r].actor, "scoping"), "written")
            BY <1>4 DEF CreateEngagement
        <2>3. Engagement(id, txn[r].actor, "scoping") \in Row
            BY <2>1, TenancyAssumption DEF Engagement, Row
        <2>. QED  BY <1>3, <2>2, <2>3 DEF TenancyTypeOK
    <1>5. CASE UpdateStatus(r)
        <2>1. PICK row \in Visible(r), status \in Statuses :
                  /\ row.table = "audit_engagement"
                  /\ Write(r, [row EXCEPT !.status = status], "written")
            BY <1>5 DEF UpdateStatus
        <2>2. [row EXCEPT !.status = status] \in Row
            BY <1>v, <2>1 DEF Row
        <2>. QED  BY <1>3, <1>5, <2>1, <2>2 DEF UpdateStatus, TenancyTypeOK
    <1>6. CASE AddNote(r)
        <2>1. txn[r].actor \in Users
            BY <1>6 DEF AddNote, References, AccountExists, TenancyTypeOK
        <2>2. txn[r].target \in Ids
            BY <1>6 DEF AddNote, References, TenancyTypeOK, Row
        <2>3. Note(txn[r].target, txn[r].actor) \in Row
            BY <2>1, <2>2 DEF Note, Row
        <2>. QED  BY <1>3, <1>6, <2>3 DEF AddNote, TenancyTypeOK
    <1>7. CASE UpsertProfile(r)
        <2>1. txn[r].actor \in Users
            BY <1>7 DEF UpsertProfile, AccountExists, TenancyTypeOK
        <2>2. Profile(txn[r].actor) \in Row
            BY <2>1 DEF Profile, Row
        <2>. QED  BY <1>3, <1>7, <2>2 DEF UpsertProfile, TenancyTypeOK
    <1>8. CASE InsertSession(r)
        <2>1. txn[r].actor \in Users
            BY <1>t, <1>8 DEF InsertSession, Transaction
        <2>2. Session(txn[r].actor) \in Row
            BY <2>1 DEF Session, Row
        <2>. QED  BY <1>3, <1>8, <2>2 DEF InsertSession, TenancyTypeOK
    <1>. QED  BY <1>1, <1>2, <1>4, <1>5, <1>6, <1>7, <1>8 DEF Statement

\* What a statement leaves of its transaction, and of the others.
LEMMA StatementKeeps ==
    ASSUME TenancyTypeOK, NEW r \in Clients, Statement(r)
    PROVE  /\ txn' \in [Clients -> {Closed} \cup Transaction]
           /\ Open(r) /\ Open(r)'
           /\ ~At(r, "begun") /\ ~At(r, "begun")'
           /\ txn'[r].kind = txn[r].kind
           /\ txn'[r].actor = txn[r].actor
           /\ txn'[r].settings = txn[r].settings
           /\ \A o \in Clients \ {r} : txn'[o] = txn[o]
           /\ UNCHANGED <<users, rows, isolated, session, acked>>
    <1>1. txn[r] \in Transaction
        BY StatementMoves
    <1>2. PICK label \in {"found", "inserted", "written", "shown"},
               target \in Ids \cup {None}, writes \in SUBSET Row, seen \in SUBSET Row :
              txn' = [txn EXCEPT ![r] =
                         [@ EXCEPT !.pc = label, !.target = target,
                                   !.writes = writes, !.seen = seen]]
        BY StatementMoves
    <1>3. txn'[r] \in Transaction
        BY <1>1, <1>2 DEF Transaction, Labels, TenancyTypeOK
    <1>4. txn' \in [Clients -> {Closed} \cup Transaction]
        BY <1>2, <1>3 DEF TenancyTypeOK
    <1>5. \A o \in Clients \ {r} : txn'[o] = txn[o]
        BY <1>2 DEF TenancyTypeOK
    <1>6. /\ txn'[r].pc = label
          /\ txn'[r].kind = txn[r].kind
          /\ txn'[r].actor = txn[r].actor
          /\ txn'[r].settings = txn[r].settings
        BY <1>1, <1>2 DEF Transaction, TenancyTypeOK
    <1>7. Open(r) /\ ~At(r, "begun")
        BY <1>1, StatementMoves DEF Open, At, Transaction, Labels
    <1>8. Open(r)' /\ ~At(r, "begun")'
        BY <1>6 DEF Open, At
    <1>. QED  BY <1>4, <1>5, <1>6, <1>7, <1>8, StatementMoves

\* The transaction that BeginRequest or BeginRun opens.
LEMMA BeginOpens ==
    ASSUME TenancyTypeOK, NEW r \in Clients, BeginRequest(r) \/ BeginRun(r),
           r \in Runs => BeginRun(r), r \in Requests => BeginRequest(r)
    PROVE  \E kind \in Kinds, actor \in Users \cup {None}, c \in Pool \cup RunPool :
              /\ actor = None <=> kind \in {"session", "revocation"}
              /\ Begin(r, kind, actor, c)
    <1>1. CASE BeginRun(r)
        BY <1>1 DEF BeginRun, Kinds
    <1>2. CASE BeginRequest(r)
        <2>1. CASE \E c \in Pool, u \in Users, kind \in PageKinds : Begin(r, kind, u, c)
            BY <2>1, TenancyAssumption DEF Kinds, PageKinds
        <2>2. CASE \E c \in Pool, u \in users : Begin(r, "login", u, c)
            BY <2>2, TenancyAssumption DEF Kinds, TenancyTypeOK
        <2>3. CASE \E c \in Pool : Begin(r, "session", None, c)
            BY <2>3 DEF Kinds
        <2>. QED  BY <1>2, <2>1, <2>2, <2>3 DEF BeginRequest
    <1>. QED  BY <1>1, <1>2

LEMMA InitTyped == TenancyInit => TenancyTypeOK
    BY DEF TenancyInit, TenancyTypeOK, Settings, Nobody

LEMMA NextTyped == TenancyTypeOK /\ [TenancyNext]_tenancyVars => TenancyTypeOK'
    <1>. SUFFICES ASSUME TenancyTypeOK, [TenancyNext]_tenancyVars
                  PROVE  TenancyTypeOK'
        OBVIOUS
    <1>1. CASE UNCHANGED tenancyVars
        BY <1>1 DEF TenancyTypeOK, tenancyVars
    <1>2. ASSUME NEW r \in Clients, NEW kind \in Kinds, NEW actor \in Users \cup {None},
                 NEW c \in Pool \cup RunPool,
                 actor = None <=> kind \in {"session", "revocation"},
                 Begin(r, kind, actor, c)
          PROVE  TenancyTypeOK'
        <2>1. session[c] \in Settings
            BY DEF TenancyTypeOK
        <2>2. [pc |-> IF kind = "session" THEN "ready" ELSE "begun",
               kind |-> kind, actor |-> actor, conn |-> c,
               settings |-> session[c], target |-> None,
               writes |-> {}, seen |-> {}] \in Transaction
            BY <1>2, <2>1 DEF Transaction, Labels
        <2>. QED  BY <1>2, <2>2 DEF Begin, TenancyTypeOK
    <1>3. ASSUME NEW r \in Clients, Install(r) PROVE TenancyTypeOK'
        <2>1. txn[r] \in Transaction
            BY <1>3, OpenType DEF Install, Open, At
        <2>2. Claims(r) \in Settings
            BY <2>1 DEF Claims, Settings, Transaction
        <2>3. [txn[r] EXCEPT !.settings = Claims(r), !.pc = "ready"] \in Transaction
            BY <2>1, <2>2 DEF Transaction, Labels
        <2>4. txn' = [txn EXCEPT ![r] =
                         [txn[r] EXCEPT !.settings = Claims(r), !.pc = "ready"]]
            BY <1>3, <2>1 DEF Install, TenancyTypeOK, Transaction
        <2>. QED  BY <1>3, <2>3, <2>4 DEF Install, TenancyTypeOK
    <1>4. ASSUME NEW r \in Clients, Statement(r) PROVE TenancyTypeOK'
        BY <1>4, StatementKeeps, StatementMoves DEF TenancyTypeOK
    <1>5. ASSUME NEW r \in Clients, Refuse(r) \/ Abort(r) PROVE TenancyTypeOK'
        BY <1>5 DEF Refuse, Abort, TenancyTypeOK
    <1>6. ASSUME NEW r \in Clients, Commit(r) PROVE TenancyTypeOK'
        <2>1. txn[r].writes \in SUBSET Row
            BY <1>6, OpenType DEF Commit, Finished, Open, At, Transaction
        <2>2. rows' \in SUBSET Row
            BY <1>6, <2>1, ApplyType DEF Commit, TenancyTypeOK
        <2>3. acked' \in SUBSET Row
            BY <1>6, <2>1, ApplyType DEF Commit, TenancyTypeOK
        <2>. QED  BY <1>6, <2>2, <2>3 DEF Commit, TenancyTypeOK
    <1>7. ASSUME NEW u \in Users, DeleteAccount(u) PROVE TenancyTypeOK'
        BY <1>7 DEF DeleteAccount, TenancyTypeOK
    <1>8. ASSUME NEW r \in Requests, BeginRequest(r) PROVE TenancyTypeOK'
        BY <1>2, <1>8, BeginOpens, TenancyAssumption DEF Clients
    <1>9. ASSUME NEW r \in Runs, BeginRun(r) PROVE TenancyTypeOK'
        BY <1>2, <1>9, BeginOpens, TenancyAssumption DEF Clients
    <1>. QED
        BY <1>1, <1>3, <1>4, <1>5, <1>6, <1>7, <1>8, <1>9 DEF TenancyNext, Statement

\* Types hold in every state.
THEOREM TenancyTyped == TenancySpec => []TenancyTypeOK
    BY InitTyped, NextTyped, PTL DEF TenancySpec

-----------------------------------------------------------------------------
(* Isolation.                                                              *)

\* A transaction runs under nobody's settings or, once they are installed,
\* under those of its own actor and task; and its process is isolated.
SettingsFit(r) ==
    /\ Verified(Process(r))
    /\ \/ txn[r].settings = Nobody
       \/ ~At(r, "begun") /\ txn[r].settings = Claims(r)

\* No settings outlive a transaction on its connection.
IsolationInv ==
    /\ TenancyTypeOK
    /\ \A c \in Pool \cup RunPool : session[c] = Nobody
    /\ \A r \in Clients : Open(r) => SettingsFit(r)

\* What fits hides every row that is not the actor's.
LEMMA IsolationHides == IsolationInv => VisibleIsMine
    <1>. SUFFICES ASSUME IsolationInv, NEW r \in Clients, Open(r), NEW row \in Visible(r)
                  PROVE  IF row.table = "web_session"
                         THEN r \in Requests \/ (txn[r].kind = "revocation" /\ ~At(r, "begun"))
                         ELSE row.owner = txn[r].actor
        BY DEF VisibleIsMine
    <1>1. row \in Row /\ row.owner \in Users
        BY VisibleType DEF IsolationInv, Row
    <1>2. Policy(Process(r), txn[r].settings, row)
        BY DEF IsolationInv, SettingsFit, Verified, Visible
    <1>3. SettingsFit(r)
        BY DEF IsolationInv
    <1>4. CASE row.table = "web_session"
        <2>1. CASE r \in Requests
            BY <1>4, <2>1
        <2>2. CASE r \notin Requests
            <3>1. txn[r].settings.task
                BY <1>2, <1>4, <2>2 DEF Policy, Process
            <3>2. txn[r].settings # Nobody
                BY <3>1 DEF Nobody
            <3>3. ~At(r, "begun") /\ txn[r].settings = Claims(r)
                BY <1>3, <3>2 DEF SettingsFit
            <3>4. txn[r].settings.task = (txn[r].kind = "revocation")
                BY <3>3 DEF Claims
            <3>. QED  BY <1>4, <3>1, <3>3, <3>4
        <2>. QED  BY <2>1, <2>2
    <1>5. CASE row.table # "web_session"
        BY <1>1, <1>2, <1>3, <1>5, TenancyAssumption
        DEF Policy, SettingsFit, Claims, Nobody
    <1>. QED  BY <1>4, <1>5

\* A client whose transaction a step leaves alone fits on.
LEMMA FitKept ==
    ASSUME NEW o \in Clients, SettingsFit(o),
           txn'[o] = txn[o], isolated' = isolated
    PROVE  SettingsFit(o)'
    BY DEF SettingsFit, Verified, Process, Claims, At

LEMMA IsolationStep == IsolationInv /\ [TenancyNext]_tenancyVars => IsolationInv'
    <1>. SUFFICES ASSUME IsolationInv, [TenancyNext]_tenancyVars
                  PROVE  IsolationInv'
        OBVIOUS
    <1>t. TenancyTypeOK /\ TenancyTypeOK'
        BY NextTyped DEF IsolationInv
    <1>. DEFINE Isolates ==
             /\ \A c \in Pool \cup RunPool : session'[c] = Nobody
             /\ \A o \in Clients : Open(o)' => SettingsFit(o)'
    <1>1. ASSUME UNCHANGED tenancyVars PROVE Isolates
        BY <1>1, FitKept DEF IsolationInv, tenancyVars, Open, At
    <1>2. ASSUME NEW r \in Clients, NEW kind \in Kinds, NEW actor \in Users \cup {None},
                 NEW c \in Pool \cup RunPool, Begin(r, kind, actor, c)
          PROVE  Isolates
        <2>1. \A o \in Clients \ {r} : txn'[o] = txn[o]
            BY <1>2, <1>t DEF Begin, TenancyTypeOK
        <2>2. txn'[r].settings = Nobody
            BY <1>2, <1>t DEF Begin, TenancyTypeOK, IsolationInv
        <2>3. SettingsFit(r)'
            BY <1>2, <2>2 DEF Begin, SettingsFit, Verified, Process
        <2>. QED  BY <1>2, <2>1, <2>3, FitKept DEF Begin, IsolationInv, Open, At
    <1>3. ASSUME NEW r \in Clients, Install(r) PROVE Isolates
        <2>1. Open(r) /\ txn[r] \in Transaction
            BY <1>3, <1>t, OpenType DEF Install, Open, At
        <2>2. \A o \in Clients \ {r} : txn'[o] = txn[o]
            BY <1>3, <1>t DEF Install, TenancyTypeOK
        <2>3. /\ txn'[r].settings = Claims(r)
              /\ txn'[r].pc = "ready"
              /\ txn'[r].actor = txn[r].actor
              /\ txn'[r].kind = txn[r].kind
            BY <1>3, <1>t, <2>1 DEF Install, TenancyTypeOK, Transaction
        <2>4. SettingsFit(r)'
            BY <1>3, <2>1, <2>3
            DEF Install, IsolationInv, SettingsFit, Verified, Process, Claims, At
        <2>. QED  BY <1>3, <2>2, <2>4, FitKept DEF Install, IsolationInv, Open, At
    <1>4. ASSUME NEW r \in Clients, Statement(r) PROVE Isolates
        <2>1. SettingsFit(r)'
            BY <1>4, <1>t, StatementKeeps
            DEF IsolationInv, SettingsFit, Verified, Process, Claims
        <2>2. \A o \in Clients \ {r} : Open(o)' => SettingsFit(o)'
            BY <1>4, <1>t, StatementKeeps, FitKept DEF IsolationInv, Open, At
        <2>. QED  BY <1>4, <1>t, <2>1, <2>2, StatementKeeps DEF IsolationInv
    <1>5. ASSUME NEW r \in Clients, Refuse(r) \/ Abort(r) \/ Commit(r) PROVE Isolates
        <2>1. txn' = [txn EXCEPT ![r] = Closed]
            BY <1>5 DEF Refuse, Abort, Commit
        <2>2. ~Open(r)'
            BY <1>t, <2>1 DEF Open, At, Closed, TenancyTypeOK
        <2>3. isolated' = isolated /\ session' = session
            BY <1>5 DEF Refuse, Abort, Commit
        <2>4. \A o \in Clients \ {r} : Open(o)' => SettingsFit(o)'
            BY <1>t, <2>1, <2>3, FitKept DEF IsolationInv, Open, At, TenancyTypeOK
        <2>. QED  BY <2>2, <2>3, <2>4 DEF IsolationInv
    <1>6. ASSUME NEW u \in Users, DeleteAccount(u) PROVE Isolates
        BY <1>6, FitKept DEF DeleteAccount, IsolationInv, Open, At
    <1>7. ASSUME NEW r \in Requests, BeginRequest(r) PROVE Isolates
        BY <1>2, <1>7, <1>t, BeginOpens, TenancyAssumption DEF Clients
    <1>8. ASSUME NEW r \in Runs, BeginRun(r) PROVE Isolates
        BY <1>2, <1>8, <1>t, BeginOpens, TenancyAssumption DEF Clients
    <1>9. Isolates
        BY <1>1, <1>3, <1>4, <1>5, <1>6, <1>7, <1>8 DEF TenancyNext, Statement
    <1>. QED  BY <1>t, <1>9 DEF IsolationInv

\* For any accounts, connections and transactions: whatever a connection was
\* used for before, and however the transactions on it ended, none of a
\* customer's rows is ever visible to a transaction that is not that
\* customer's.
THEOREM AlwaysIsolated == TenancySpec => []VisibleIsMine
    <1>1. TenancyInit => IsolationInv
        BY InitTyped DEF TenancyInit, IsolationInv, Open, At, Closed
    <1>. QED  BY <1>1, IsolationStep, IsolationHides, PTL DEF TenancySpec

-----------------------------------------------------------------------------
(* The steps of a transaction, one field at a time.                        *)

\* What no statement changes of its transaction.
SameFor(r) ==
    /\ txn'[r].kind = txn[r].kind
    /\ txn'[r].actor = txn[r].actor
    /\ txn'[r].settings = txn[r].settings

\* A write adds its row.
LEMMA WriteAdds ==
    ASSUME TenancyTypeOK, NEW r \in Clients, Open(r), NEW row, NEW label,
           Write(r, row, label)
    PROVE  /\ SameFor(r)
           /\ txn'[r].pc = label
           /\ txn'[r].target = txn[r].target
           /\ txn'[r].seen = txn[r].seen
           /\ txn'[r].writes = txn[r].writes \cup {row}
           /\ Writable(r, row)
    <1>1. txn[r] \in Transaction
        BY OpenType
    <1>. QED  BY <1>1 DEF Write, SameFor, Transaction, TenancyTypeOK

\* Find takes up an engagement of the actor as its target.
LEMMA FindTakes ==
    ASSUME TenancyTypeOK, NEW r \in Clients, Find(r)
    PROVE  /\ SameFor(r)
           /\ txn'[r].pc = "found"
           /\ txn'[r].writes = txn[r].writes
           /\ \E row \in Owned(r, "audit_engagement") :
                 txn'[r].target = row.id /\ txn'[r].seen = {row}
    <1>1. txn[r] \in Transaction
        BY OpenType DEF Find, Open, At
    <1>. QED  BY <1>1 DEF Find, SameFor, Transaction, TenancyTypeOK

\* A read only adds to what is seen.
LEMMA ReadShows ==
    ASSUME TenancyTypeOK, NEW r \in Clients, Read(r) \/ ReadBack(r)
    PROVE  /\ SameFor(r)
           /\ txn'[r].pc = "shown"
           /\ txn'[r].writes = txn[r].writes
           /\ txn'[r].target = txn[r].target
    <1>1. txn[r] \in Transaction
        BY OpenType DEF Read, ReadBack, Open, At
    <1>. QED  BY <1>1 DEF Read, ReadBack, SameFor, Transaction, TenancyTypeOK

\* Install changes the settings only.
LEMMA InstallSets ==
    ASSUME TenancyTypeOK, NEW r \in Clients, Install(r)
    PROVE  /\ Open(r)
           /\ txn'[r].kind = txn[r].kind
           /\ txn'[r].actor = txn[r].actor
           /\ txn'[r].pc = "ready"
           /\ txn'[r].writes = txn[r].writes
           /\ txn'[r].target = txn[r].target
           /\ \A o \in Clients \ {r} : txn'[o] = txn[o]
           /\ UNCHANGED <<users, rows, spent, isolated, acked>>
    <1>1. Open(r) /\ txn[r] \in Transaction
        BY OpenType DEF Install, Open, At
    <1>. QED  BY <1>1 DEF Install, Transaction, TenancyTypeOK

\* A transaction opens with no row written or found.
LEMMA BeginEmpty ==
    ASSUME TenancyTypeOK, NEW r \in Clients, BeginRequest(r) \/ BeginRun(r)
    PROVE  /\ ~Open(r)
           /\ txn'[r].pc \in {"begun", "ready"}
           /\ txn'[r].writes = {}
           /\ txn'[r].target = None
           /\ \A o \in Clients \ {r} : txn'[o] = txn[o]
           /\ UNCHANGED <<users, rows, spent, isolated, acked>>
    <1>1. PICK kind, actor, c : Begin(r, kind, actor, c)
        BY DEF BeginRequest, BeginRun
    <1>. QED  BY <1>1 DEF Begin, TenancyTypeOK

\* A transaction that ends is closed.
LEMMA EndCloses ==
    ASSUME TenancyTypeOK, NEW r \in Clients, Refuse(r) \/ Abort(r) \/ Commit(r)
    PROVE  /\ ~Open(r)'
           /\ \A o \in Clients \ {r} : txn'[o] = txn[o]
           /\ UNCHANGED <<users, spent, isolated>>
    BY DEF Refuse, Abort, Commit, Open, At, Closed, TenancyTypeOK

-----------------------------------------------------------------------------
(* Rows that belong together.                                              *)

\* Rows that are committed or may come to be.
Live == rows \cup UNION {txn[r].writes : r \in {x \in Clients : Open(x)}}

Engagements == {e \in Live : e.table = "audit_engagement"}

\* Identifiers are drawn once, so that an engagement's owner, seen or found at
\* any time, is that of every later row of the engagement.
OwnersInv ==
    /\ \A e \in Engagements : e.id \in spent
    /\ \A e, f \in Engagements : e.id = f.id => e.owner = f.owner
    /\ \A r \in Clients : Open(r) /\ txn[r].target # None =>
          /\ txn[r].target \in spent
          /\ \A e \in Engagements : e.id = txn[r].target => e.owner = txn[r].actor

Followed(n) ==
    \E e \in rows : /\ e.table = "audit_engagement"
                    /\ e.id = n.engagement
                    /\ e.owner = n.owner

\* Already the notes that are not committed yet follow a committed engagement.
NotesInv == \A n \in Live : n.table = "engagement_note" => Followed(n)

\* A session that is written has its profile with it at the commit.
LoginsInv ==
    /\ LoginsAreWhole
    /\ \A r \in Clients : Open(r) =>
          \A s \in txn[r].writes : s.table = "web_session" =>
              /\ s.owner = txn[r].actor
              /\ At(r, "inserted") \/ Profile(s.owner) \in txn[r].writes

TogetherInv == TenancyTypeOK /\ OwnersInv /\ NotesInv /\ LoginsInv

LEMMA TogetherImplies == TogetherInv => RowsBelongTogether
    BY DEF TogetherInv, NotesInv, LoginsInv, Followed, Live,
           RowsBelongTogether, NotesFollowEngagements

\* Rows in sight are live.
LEMMA VisibleIsLive ==
    ASSUME NEW r \in Clients, Open(r)
    PROVE  Visible(r) \subseteq Live
    BY DEF Visible, Apply, Live

\* How the live rows change: a step adds at most one.
LEMMA LiveGrows ==
    ASSUME NEW r \in Clients, Open(r), NEW row, rows' = rows,
           txn'[r].writes \subseteq txn[r].writes \cup {row},
           \A o \in Clients \ {r} : txn'[o] = txn[o]
    PROVE  Live' \subseteq Live \cup {row}
    BY DEF Live, Open, At

LEMMA LiveKept ==
    ASSUME NEW r \in Clients, rows' \subseteq Live,
           Open(r)' => txn'[r].writes = {} \/ (Open(r) /\ txn'[r].writes = txn[r].writes),
           \A o \in Clients \ {r} : txn'[o] = txn[o]
    PROVE  Live' \subseteq Live
    BY DEF Live, Open, At

\* Owners stay when no engagement is added and no target taken up.
LEMMA OwnersKept ==
    ASSUME OwnersInv, Live' \subseteq Live, spent' = spent, NEW r \in Clients,
           Open(r)' /\ txn'[r].target # None =>
               /\ Open(r)
               /\ txn'[r].target = txn[r].target
               /\ txn'[r].actor = txn[r].actor,
           \A o \in Clients \ {r} : txn'[o] = txn[o]
    PROVE  OwnersInv'
    <1>1. Engagements' \subseteq Engagements
        BY DEF Engagements
    <1>2. \A o \in Clients \ {r} : Open(o)' = Open(o)
        BY DEF Open, At
    <1>. QED  BY <1>1, <1>2 DEF OwnersInv

\* An added engagement keeps owners unique if it is a new one, or a version of
\* one that is live.
LEMMA OwnersGrow ==
    ASSUME OwnersInv, TenancyTypeOK, NEW r \in Clients, Open(r), NEW row,
           Live' \subseteq Live \cup {row}, spent \subseteq spent',
           row.table = "audit_engagement" =>
               \/ row.id \notin spent /\ row.id \in spent'
               \/ \E e \in Engagements : e.id = row.id /\ e.owner = row.owner,
           txn'[r].target = txn[r].target,
           txn'[r].actor = txn[r].actor,
           \A o \in Clients \ {r} : txn'[o] = txn[o]
    PROVE  OwnersInv'
    <1>1. \A o \in Clients : Open(o)' => Open(o)
        BY DEF Open, At
    <1>2. \A o \in Clients : txn'[o].target = txn[o].target /\ txn'[o].actor = txn[o].actor
        OBVIOUS
    <1>3. \A e \in Engagements' : e \in Engagements \/ (e = row /\ row.table = "audit_engagement")
        BY DEF Engagements
    <1>4. \A e \in Engagements' : e.id \in spent'
        BY <1>3 DEF OwnersInv
    <1>5. \A e, f \in Engagements' : e.id = f.id => e.owner = f.owner
        BY <1>3 DEF OwnersInv
    <1>6. \A o \in Clients : Open(o)' /\ txn'[o].target # None =>
              /\ txn'[o].target \in spent'
              /\ \A e \in Engagements' :
                    e.id = txn'[o].target => e.owner = txn'[o].actor
        BY <1>1, <1>2, <1>3 DEF OwnersInv
    <1>. QED  BY <1>4, <1>5, <1>6 DEF OwnersInv

\* The engagement that Find takes up is the actor's, in all its versions.
LEMMA FindOwners ==
    ASSUME OwnersInv, TenancyTypeOK, NEW r \in Clients, Find(r)
    PROVE  OwnersInv' /\ Live' \subseteq Live
    <1>1. Open(r) /\ \A o \in Clients \ {r} : txn'[o] = txn[o]
        BY StatementKeeps DEF Statement
    <1>2. spent' = spent /\ rows' = rows
        BY DEF Find
    <1>3. Live' \subseteq Live
        BY <1>1, <1>2, FindTakes, LiveKept DEF Live
    <1>4. Engagements' \subseteq Engagements
        BY <1>3 DEF Engagements
    <1>5. PICK row \in Owned(r, "audit_engagement") : txn'[r].target = row.id
        BY FindTakes
    <1>6. row \in Engagements /\ row.owner = txn[r].actor
        BY <1>1, <1>5, VisibleIsLive DEF Owned, Engagements
    <1>7. txn'[r].actor = txn[r].actor
        BY FindTakes DEF SameFor
    <1>8. \A o \in Clients \ {r} : Open(o)' = Open(o)
        BY <1>1 DEF Open, At
    <1>. QED  BY <1>1, <1>2, <1>3, <1>4, <1>5, <1>6, <1>7, <1>8 DEF OwnersInv

\* Followed notes stay so while rows do and no note is added but a followed one.
LEMMA NotesKept ==
    ASSUME NotesInv, NEW row, rows' = rows,
           Live' \subseteq Live \cup {row},
           row.table = "engagement_note" => Followed(row)
    PROVE  NotesInv'
    <1>1. \A n : Followed(n)' = Followed(n)
        BY DEF Followed
    <1>. QED  BY <1>1 DEF NotesInv

\* A statement keeps sessions with their profiles.
LEMMA LoginsKept ==
    ASSUME LoginsInv, NEW r \in Clients, Open(r), rows' = rows, users' = users,
           txn'[r].actor = txn[r].actor,
           \A o \in Clients \ {r} : txn'[o] = txn[o],
           \A s \in txn'[r].writes : s.table = "web_session" =>
              /\ s.owner = txn[r].actor
              /\ txn'[r].pc = "inserted" \/ Profile(s.owner) \in txn'[r].writes
    PROVE  LoginsInv'
    BY DEF LoginsInv, LoginsAreWhole, Profile, Open, At

\* The effect of a statement of any kind on the three parts.
LEMMA TogetherStatement ==
    ASSUME TogetherInv, NEW r \in Clients, Statement(r)
    PROVE  OwnersInv' /\ NotesInv' /\ LoginsInv'
    <1>t. TenancyTypeOK /\ OwnersInv /\ NotesInv /\ LoginsInv
        BY DEF TogetherInv
    <1>o. /\ Open(r)
          /\ txn'[r].actor = txn[r].actor
          /\ \A o \in Clients \ {r} : txn'[o] = txn[o]
          /\ rows' = rows /\ users' = users
        BY <1>t, StatementKeeps
    \* A row is written.
    <1>w. ASSUME NEW row, NEW label, Write(r, row, label), spent \subseteq spent',
                 row.table = "audit_engagement" =>
                    \/ row.id \notin spent /\ row.id \in spent'
                    \/ \E e \in Engagements : e.id = row.id /\ e.owner = row.owner,
                 row.table = "engagement_note" => Followed(row),
                 row.table = "web_session" => row.owner = txn[r].actor /\ label = "inserted",
                 At(r, "inserted") => row = Profile(txn[r].actor)
          PROVE  OwnersInv' /\ NotesInv' /\ LoginsInv'
        <2>1. /\ txn'[r].pc = label
              /\ txn'[r].target = txn[r].target
              /\ txn'[r].writes = txn[r].writes \cup {row}
            BY <1>t, <1>o, <1>w, WriteAdds
        <2>2. Live' \subseteq Live \cup {row}
            BY <1>o, <2>1, LiveGrows
        <2>3. OwnersInv'
            BY <1>t, <1>o, <1>w, <2>1, <2>2, OwnersGrow
        <2>4. NotesInv'
            BY <1>t, <1>o, <1>w, <2>2, NotesKept
        <2>5. ASSUME NEW s \in txn'[r].writes, s.table = "web_session"
              PROVE  /\ s.owner = txn[r].actor
                     /\ txn'[r].pc = "inserted" \/ Profile(s.owner) \in txn'[r].writes
            <3>1. CASE s = row
                BY <1>w, <2>1, <2>5, <3>1
            <3>2. CASE s \in txn[r].writes
                <4>1. /\ s.owner = txn[r].actor
                      /\ At(r, "inserted") \/ Profile(s.owner) \in txn[r].writes
                    BY <1>t, <1>o, <2>5, <3>2 DEF LoginsInv
                <4>. QED  BY <1>w, <2>1, <4>1
            <3>. QED  BY <2>1, <3>1, <3>2
        <2>6. LoginsInv'
            BY <1>t, <1>o, <2>5, LoginsKept
        <2>. QED  BY <2>3, <2>4, <2>6
    \* Nothing is written.
    <1>r. ASSUME txn'[r].writes = txn[r].writes, ~At(r, "inserted")
          PROVE  NotesInv' /\ LoginsInv'
        <2>1. Live' \subseteq Live
            BY <1>o, <1>r, LiveKept DEF Live
        <2>2. NotesInv'
            <3>1. \A n : Followed(n)' = Followed(n)
                BY <1>o DEF Followed
            <3>. QED  BY <1>t, <2>1, <3>1 DEF NotesInv
        <2>3. LoginsInv'
            BY <1>t, <1>o, <1>r, LoginsKept DEF LoginsInv
        <2>. QED  BY <2>2, <2>3
    <1>1. CASE Find(r)
        <2>1. txn'[r].writes = txn[r].writes /\ ~At(r, "inserted")
            BY <1>1, <1>t, FindTakes DEF Find, At
        <2>. QED  BY <1>1, <1>t, <1>r, <2>1, FindOwners
    <1>2. CASE Read(r) \/ ReadBack(r)
        <2>1. /\ txn'[r].writes = txn[r].writes
              /\ txn'[r].target = txn[r].target
              /\ ~At(r, "inserted")
            BY <1>2, <1>t, ReadShows DEF Read, ReadBack, At
        <2>2. Live' \subseteq Live
            BY <1>o, <2>1, LiveKept DEF Live
        <2>3. spent' = spent
            BY <1>2 DEF Read, ReadBack
        <2>4. OwnersInv'
            BY <1>t, <1>o, <2>1, <2>2, <2>3, OwnersKept
        <2>. QED  BY <1>r, <2>1, <2>4
    <1>3. CASE CreateEngagement(r)
        <2>1. PICK id \in Ids \ spent :
                  /\ spent' = spent \cup {id}
                  /\ Write(r, Engagement(id, txn[r].actor, "scoping"), "written")
            BY <1>3 DEF CreateEngagement
        <2>2. /\ Engagement(id, txn[r].actor, "scoping").table = "audit_engagement"
              /\ Engagement(id, txn[r].actor, "scoping").id = id
            BY DEF Engagement
        <2>3. ~At(r, "inserted")
            BY <1>3 DEF CreateEngagement, At
        <2>. QED  BY <1>w, <2>1, <2>2, <2>3
    <1>4. CASE UpdateStatus(r)
        <2>1. PICK row \in Visible(r), status \in Statuses :
                  /\ row.table = "audit_engagement"
                  /\ Write(r, [row EXCEPT !.status = status], "written")
            BY <1>4 DEF UpdateStatus
        <2>2. row \in Row /\ row \in Engagements
            BY <1>t, <1>o, <2>1, VisibleType, VisibleIsLive DEF Engagements
        <2>3. /\ [row EXCEPT !.status = status].table = "audit_engagement"
              /\ [row EXCEPT !.status = status].id = row.id
              /\ [row EXCEPT !.status = status].owner = row.owner
            BY <2>1, <2>2 DEF Row
        <2>4. ~At(r, "inserted") /\ spent' = spent
            BY <1>4 DEF UpdateStatus, At
        <2>. QED  BY <1>w, <2>1, <2>2, <2>3, <2>4
    <1>5. CASE AddNote(r)
        <2>1. Write(r, Note(txn[r].target, txn[r].actor), "written")
            BY <1>5 DEF AddNote
        <2>2. PICK e \in rows : e.table = "audit_engagement" /\ e.id = txn[r].target
            BY <1>5 DEF AddNote, References
        <2>3. e \in Engagements /\ txn[r].target # None
            BY <1>t, <2>2, TenancyAssumption DEF Engagements, Live, TenancyTypeOK, Row
        <2>4. e.owner = txn[r].actor
            BY <1>t, <1>o, <2>2, <2>3 DEF OwnersInv
        <2>5. Followed(Note(txn[r].target, txn[r].actor))
            BY <2>2, <2>4 DEF Followed, Note
        <2>6. Note(txn[r].target, txn[r].actor).table = "engagement_note"
            BY DEF Note
        <2>7. ~At(r, "inserted") /\ spent' = spent
            BY <1>5 DEF AddNote, At
        <2>. QED  BY <1>w, <2>1, <2>5, <2>6, <2>7
    <1>6. CASE InsertSession(r)
        <2>1. /\ Session(txn[r].actor).table = "web_session"
              /\ Session(txn[r].actor).owner = txn[r].actor
            BY DEF Session
        <2>2. ~At(r, "inserted") /\ spent' = spent
            BY <1>6 DEF InsertSession, At
        <2>. QED  BY <1>6, <1>w, <2>1, <2>2 DEF InsertSession
    <1>7. CASE UpsertProfile(r)
        <2>1. Profile(txn[r].actor).table = "user_profile"
            BY DEF Profile
        <2>2. spent' = spent
            BY <1>7 DEF UpsertProfile
        <2>. QED  BY <1>7, <1>w, <2>1, <2>2 DEF UpsertProfile
    <1>. QED  BY <1>1, <1>2, <1>3, <1>4, <1>5, <1>6, <1>7 DEF Statement

\* Rows that are committed replace engagements by versions of the same owner.
LEMMA TogetherCommit ==
    ASSUME TogetherInv, NEW r \in Clients, Commit(r)
    PROVE  OwnersInv' /\ NotesInv' /\ LoginsInv'
    <1>t. TenancyTypeOK /\ OwnersInv /\ NotesInv /\ LoginsInv
        BY DEF TogetherInv
    <1>o. Open(r) /\ ~At(r, "inserted")
        BY DEF Commit, Finished, Open, At
    <1>e. /\ ~Open(r)'
          /\ \A o \in Clients \ {r} : txn'[o] = txn[o]
          /\ users' = users /\ spent' = spent
        BY <1>t, EndCloses
    <1>a. rows' = Apply(rows, txn[r].writes)
        BY DEF Commit
    <1>1. rows' \subseteq Live
        BY <1>o, <1>a DEF Apply, Live
    <1>2. Live' \subseteq Live
        BY <1>e, <1>1, LiveKept
    <1>3. OwnersInv'
        BY <1>t, <1>e, <1>2, OwnersKept
    <1>4. NotesInv'
        <2>1. ASSUME NEW n, Followed(n) PROVE Followed(n)'
            <3>1. PICK e \in rows : /\ e.table = "audit_engagement"
                                   /\ e.id = n.engagement
                                   /\ e.owner = n.owner
                BY <2>1 DEF Followed
            <3>2. CASE e \in rows'
                BY <3>1, <3>2 DEF Followed
            <3>3. CASE e \notin rows'
                <4>1. PICK w \in txn[r].writes : w.table = "audit_engagement" /\ w.id = e.id
                    BY <1>a, <3>1, <3>3 DEF Apply
                <4>2. w \in Engagements /\ e \in Engagements
                    BY <1>o, <3>1, <4>1 DEF Engagements, Live
                <4>3. w.owner = e.owner
                    BY <1>t, <4>1, <4>2 DEF OwnersInv
                <4>4. w \in rows'
                    BY <1>a, <4>1 DEF Apply
                <4>. QED  BY <3>1, <4>1, <4>3, <4>4 DEF Followed
            <3>. QED  BY <3>2, <3>3
        <2>. QED  BY <1>t, <1>2, <2>1 DEF NotesInv
    <1>5. LoginsInv'
        <2>1. ASSUME NEW s \in rows', s.table = "web_session", s.owner \in users
              PROVE  Profile(s.owner) \in rows'
            <3>1. CASE s \in rows
                <4>1. Profile(s.owner) \in rows
                    BY <1>t, <2>1, <3>1 DEF LoginsInv, LoginsAreWhole
                <4>2. Profile(s.owner).table # "audit_engagement"
                    BY DEF Profile
                <4>. QED  BY <1>a, <4>1, <4>2 DEF Apply
            <3>2. CASE s \in txn[r].writes
                BY <1>t, <1>o, <1>a, <2>1, <3>2 DEF LoginsInv, Apply
            <3>. QED  BY <1>a, <3>1, <3>2 DEF Apply
        <2>2. LoginsAreWhole'
            BY <1>e, <2>1 DEF LoginsAreWhole, Profile
        <2>. QED  BY <1>t, <1>e, <2>2 DEF LoginsInv, Open, At
    <1>. QED  BY <1>3, <1>4, <1>5

\* An account goes with its engagements and its notes.
LEMMA TogetherDelete ==
    ASSUME TogetherInv, NEW u \in Users, DeleteAccount(u)
    PROVE  OwnersInv' /\ NotesInv' /\ LoginsInv'
    <1>t. TenancyTypeOK /\ OwnersInv /\ NotesInv /\ LoginsInv
        BY DEF TogetherInv
    <1>d. /\ txn' = txn /\ spent' = spent
          /\ users' = users \ {u}
          /\ rows' = {row \in rows : row.owner = u => row.table = "web_session"}
          /\ \A r \in Clients : Open(r) =>
                \A w \in txn[r].writes : w.owner = u => w.table = "web_session"
        BY DEF DeleteAccount
    <1>1. Live' \subseteq Live
        BY <1>d DEF Live, Open, At
    <1>2. OwnersInv'
        <2>1. Engagements' \subseteq Engagements
            BY <1>1 DEF Engagements
        <2>. QED  BY <1>t, <1>d, <2>1 DEF OwnersInv, Open, At
    <1>3. NotesInv'
        <2>1. ASSUME NEW n \in Live', n.table = "engagement_note"
              PROVE  Followed(n)'
            <3>1. n.owner # u
                BY <1>d, <2>1 DEF Live, Open, At
            <3>2. Followed(n)
                BY <1>t, <1>1, <2>1 DEF NotesInv
            <3>. QED  BY <1>d, <3>1, <3>2 DEF Followed
        <2>. QED  BY <2>1 DEF NotesInv
    <1>4. LoginsInv'
        BY <1>t, <1>d DEF LoginsInv, LoginsAreWhole, Profile, Open, At
    <1>. QED  BY <1>2, <1>3, <1>4

LEMMA TogetherStep == TogetherInv /\ [TenancyNext]_tenancyVars => TogetherInv'
    <1>. SUFFICES ASSUME TogetherInv, [TenancyNext]_tenancyVars
                  PROVE  TogetherInv'
        OBVIOUS
    <1>t. TenancyTypeOK /\ TenancyTypeOK'
        BY NextTyped DEF TogetherInv
    <1>. DEFINE Together == OwnersInv' /\ NotesInv' /\ LoginsInv'
    \* A transaction that opens or gets its settings, or is dropped.
    <1>q. ASSUME NEW r \in Clients, UNCHANGED <<users, rows, spent>>,
                 \A o \in Clients \ {r} : txn'[o] = txn[o],
                 Open(r)' =>
                    \/ txn'[r].writes = {} /\ txn'[r].target = None
                    \/ /\ Open(r)
                       /\ ~At(r, "inserted")
                       /\ txn'[r].writes = txn[r].writes
                       /\ txn'[r].target = txn[r].target
                       /\ txn'[r].actor = txn[r].actor
          PROVE  Together
        <2>1. Live' \subseteq Live
            BY <1>q, LiveKept DEF Live
        <2>2. OwnersInv'
            BY <1>q, <2>1, OwnersKept DEF TogetherInv
        <2>3. \A n : Followed(n)' = Followed(n)
            BY <1>q DEF Followed
        <2>4. NotesInv'
            BY <2>1, <2>3 DEF TogetherInv, NotesInv
        <2>5. LoginsInv'
            BY <1>q DEF TogetherInv, LoginsInv, LoginsAreWhole, Profile, Open, At
        <2>. QED  BY <2>2, <2>4, <2>5
    <1>1. ASSUME UNCHANGED tenancyVars PROVE Together
        BY <1>1 DEF tenancyVars, TogetherInv, OwnersInv, NotesInv, Followed, LoginsInv,
                    LoginsAreWhole, Profile, Engagements, Live, Open, At
    <1>2. ASSUME NEW r \in Clients, BeginRequest(r) \/ BeginRun(r) PROVE Together
        BY <1>2, <1>t, <1>q, BeginEmpty
    <1>3. ASSUME NEW r \in Clients, Install(r) PROVE Together
        <2>1. ~At(r, "inserted")
            BY <1>3 DEF Install, At
        <2>. QED  BY <1>3, <1>t, <1>q, <2>1, InstallSets
    <1>4. ASSUME NEW r \in Clients, Statement(r) PROVE Together
        BY <1>4, TogetherStatement
    <1>5. ASSUME NEW r \in Clients, Refuse(r) \/ Abort(r) PROVE Together
        <2>1. rows' = rows
            BY <1>5 DEF Refuse, Abort
        <2>. QED  BY <1>5, <1>t, <1>q, <2>1, EndCloses
    <1>6. ASSUME NEW r \in Clients, Commit(r) PROVE Together
        BY <1>6, TogetherCommit
    <1>7. ASSUME NEW u \in Users, DeleteAccount(u) PROVE Together
        BY <1>7, TogetherDelete
    <1>8. Together
        BY <1>1, <1>2, <1>3, <1>4, <1>5, <1>6, <1>7
        DEF TenancyNext, Statement, Clients
    <1>. QED  BY <1>t, <1>8 DEF TogetherInv

\* For any accounts and transactions: a note has its engagement and a session
\* its profile, however statements, failures and the deletion of accounts
\* fall between each other.
THEOREM RowsAlwaysBelongTogether == TenancySpec => []RowsBelongTogether
    <1>1. TenancyInit => TogetherInv
        <2>. SUFFICES ASSUME TenancyInit PROVE TogetherInv
            OBVIOUS
        <2>1. \A r \in Clients : ~Open(r)
            BY DEF TenancyInit, Open, At, Closed
        <2>2. Live = {} /\ rows = {}
            BY <2>1 DEF TenancyInit, Live
        <2>. QED
            BY <2>1, <2>2, InitTyped
            DEF TogetherInv, OwnersInv, NotesInv, LoginsInv, LoginsAreWhole, Engagements
    <1>. QED  BY <1>1, TogetherStep, TogetherImplies, PTL DEF TenancySpec

-----------------------------------------------------------------------------
(* Replies.                                                                *)

\* What a transaction has written and seen is what its handler is after, and
\* the policies admit it.
Faithful(r) ==
    /\ At(r, "begun") \/ At(r, "ready") \/ At(r, "found") => txn[r].writes = {}
    /\ At(r, "inserted") => txn[r].kind = "login"
    /\ At(r, "found") \/ At(r, "shown") =>
          \A row \in txn[r].seen : row.owner = txn[r].actor
    /\ At(r, "shown") => txn[r].writes \subseteq txn[r].seen
    /\ txn[r].kind = "create" =>
          \A w \in txn[r].writes : w.table = "audit_engagement" /\ w.owner = txn[r].actor
    /\ txn[r].kind = "note" =>
          \A w \in txn[r].writes :
              /\ w.table = "engagement_note"
              /\ w.engagement = txn[r].target
              /\ w.owner = txn[r].actor
    /\ \A w \in txn[r].writes : Writable(r, w)

RepliesInv ==
    /\ TenancyTypeOK
    /\ acked \subseteq rows
    /\ \A r \in Clients : Open(r) => Faithful(r)

LEMMA RepliesImply == RepliesInv => RepliesAreTrue
    BY DEF RepliesInv, RepliesAreTrue, Faithful, Clients, Open, At

\* A transaction that a step leaves alone is faithful on.
LEMMA FaithfulKept ==
    ASSUME NEW o \in Clients, Open(o)', Open(o) => Faithful(o),
           txn'[o] = txn[o], isolated' = isolated
    PROVE  Faithful(o)'
    BY DEF Faithful, Writable, Process, Policy, Open, At

\* What a transaction wrote it sees.
LEMMA OwnWritesVisible ==
    ASSUME NEW r \in Clients, Open(r), Faithful(r)
    PROVE  txn[r].writes \subseteq Visible(r)
    BY DEF Faithful, Writable, Visible, Apply

LEMMA RepliesStatement ==
    ASSUME RepliesInv, NEW r \in Clients, Statement(r)
    PROVE  Faithful(r)'
    <1>t. TenancyTypeOK
        BY DEF RepliesInv
    <1>o. /\ Open(r) /\ SameFor(r) /\ isolated' = isolated
          /\ Faithful(r)
        BY <1>t, StatementKeeps DEF RepliesInv, SameFor
    <1>p. \A row : Writable(r, row)' = Writable(r, row)
        BY <1>o DEF Writable, Policy, Process, SameFor
    \* A row is written.
    <1>w. ASSUME NEW row, NEW label \in {"inserted", "written"}, Write(r, row, label),
                 label = "inserted" => txn[r].kind = "login",
                 txn[r].kind = "create" =>
                     row.table = "audit_engagement" /\ row.owner = txn[r].actor,
                 txn[r].kind = "note" =>
                     /\ row.table = "engagement_note"
                     /\ row.engagement = txn[r].target
                     /\ row.owner = txn[r].actor
          PROVE  Faithful(r)'
        <2>1. /\ txn'[r].pc = label
              /\ txn'[r].target = txn[r].target
              /\ txn'[r].writes = txn[r].writes \cup {row}
              /\ Writable(r, row)
            BY <1>t, <1>o, <1>w, WriteAdds
        <2>2. \A w \in txn'[r].writes : Writable(r, w)'
            BY <1>o, <1>p, <2>1 DEF Faithful
        <2>. QED  BY <1>o, <1>w, <2>1, <2>2 DEF Faithful, SameFor, At
    <1>1. CASE Find(r)
        <2>1. PICK row \in Owned(r, "audit_engagement") : txn'[r].seen = {row}
            BY <1>1, <1>t, FindTakes
        <2>2. /\ txn'[r].pc = "found"
              /\ txn'[r].writes = txn[r].writes
              /\ txn[r].writes = {}
            BY <1>1, <1>t, <1>o, FindTakes DEF Find, Faithful, At
        <2>3. row.owner = txn[r].actor
            BY <2>1 DEF Owned
        <2>. QED  BY <1>o, <2>1, <2>2, <2>3 DEF Faithful, SameFor, At
    <1>2. CASE Read(r) \/ ReadBack(r)
        <2>1. /\ txn'[r].pc = "shown"
              /\ txn'[r].writes = txn[r].writes
              /\ txn'[r].target = txn[r].target
            BY <1>2, <1>t, ReadShows
        <2>o. txn[r] \in Transaction
            BY <1>t, <1>o, OpenType
        <2>2. /\ \A row \in txn'[r].seen : row.owner = txn[r].actor
              /\ txn[r].writes \subseteq txn'[r].seen
            <3>1. CASE Read(r) /\ txn[r].kind = "list"
                <4>1. txn'[r].seen = Owned(r, "audit_engagement") /\ txn[r].writes = {}
                    BY <1>t, <1>o, <2>o, <3>1
                    DEF Read, Faithful, At, Transaction, TenancyTypeOK
                <4>. QED  BY <4>1 DEF Owned
            <3>2. CASE Read(r) /\ txn[r].kind = "detail"
                <4>1. txn'[r].seen = txn[r].seen \cup
                                        {n \in Owned(r, "engagement_note") :
                                           n.engagement = txn[r].target}
                    BY <1>t, <2>o, <3>2 DEF Read, At, Transaction, TenancyTypeOK
                <4>2. txn[r].writes = {} /\ \A row \in txn[r].seen : row.owner = txn[r].actor
                    BY <1>o, <3>2 DEF Read, Faithful, At
                <4>. QED  BY <4>1, <4>2 DEF Owned
            <3>3. CASE ReadBack(r) /\ txn[r].kind = "create"
                <4>1. txn'[r].seen = Owned(r, "audit_engagement")
                    BY <1>t, <2>o, <3>3 DEF ReadBack, Transaction, TenancyTypeOK
                <4>. QED  BY <1>o, <3>3, <4>1, OwnWritesVisible DEF Owned, Faithful
            <3>4. CASE ReadBack(r) /\ txn[r].kind = "note"
                <4>1. txn'[r].seen = {n \in Owned(r, "engagement_note") :
                                         n.engagement = txn[r].target}
                    BY <1>t, <2>o, <3>4 DEF ReadBack, Transaction, TenancyTypeOK
                <4>. QED  BY <1>o, <3>4, <4>1, OwnWritesVisible DEF Owned, Faithful
            <3>. QED  BY <1>2, <3>1, <3>2, <3>3, <3>4 DEF Read, ReadBack
        <2>3. \A w \in txn'[r].writes : Writable(r, w)'
            BY <1>o, <1>p, <2>1 DEF Faithful
        <2>. QED  BY <1>o, <2>1, <2>2, <2>3 DEF Faithful, SameFor, At
    <1>3. CASE CreateEngagement(r)
        <2>1. PICK id : Write(r, Engagement(id, txn[r].actor, "scoping"), "written")
            BY <1>3 DEF CreateEngagement
        <2>2. txn[r].kind = "create"
            BY <1>3 DEF CreateEngagement
        <2>. QED  BY <1>w, <2>1, <2>2 DEF Engagement
    <1>4. CASE UpdateStatus(r)
        BY <1>4, <1>w DEF UpdateStatus
    <1>5. CASE AddNote(r)
        BY <1>5, <1>w DEF AddNote, Note
    <1>6. CASE InsertSession(r)
        BY <1>6, <1>w DEF InsertSession
    <1>7. CASE UpsertProfile(r)
        BY <1>7, <1>o, <1>w DEF UpsertProfile, Faithful, At
    <1>. QED  BY <1>1, <1>2, <1>3, <1>4, <1>5, <1>6, <1>7 DEF Statement

LEMMA RepliesStep == RepliesInv /\ [TenancyNext]_tenancyVars => RepliesInv'
    <1>. SUFFICES ASSUME RepliesInv, [TenancyNext]_tenancyVars
                  PROVE  RepliesInv'
        OBVIOUS
    <1>t. TenancyTypeOK /\ TenancyTypeOK'
        BY NextTyped DEF RepliesInv
    <1>. DEFINE Replies == /\ acked' \subseteq rows'
                           /\ \A o \in Clients : Open(o)' => Faithful(o)'
    <1>1. ASSUME UNCHANGED tenancyVars PROVE Replies
        BY <1>1, FaithfulKept DEF tenancyVars, RepliesInv, Open, At
    <1>2. ASSUME NEW r \in Clients, BeginRequest(r) \/ BeginRun(r) PROVE Replies
        <2>1. Faithful(r)'
            BY <1>2, <1>t, BeginEmpty DEF Faithful, At
        <2>. QED  BY <1>2, <1>t, <2>1, BeginEmpty, FaithfulKept DEF RepliesInv, Open, At
    <1>3. ASSUME NEW r \in Clients, Install(r) PROVE Replies
        <2>1. Faithful(r)'
            BY <1>3, <1>t, InstallSets DEF Install, RepliesInv, Faithful, At
        <2>. QED  BY <1>3, <1>t, <2>1, InstallSets, FaithfulKept DEF RepliesInv, Open, At
    <1>4. ASSUME NEW r \in Clients, Statement(r) PROVE Replies
        BY <1>4, <1>t, StatementKeeps, RepliesStatement, FaithfulKept
        DEF RepliesInv, Open, At
    <1>5. ASSUME NEW r \in Clients, Refuse(r) \/ Abort(r) \/ Commit(r) PROVE Replies
        <2>1. acked' \subseteq rows'
            BY <1>5 DEF Refuse, Abort, Commit, RepliesInv, Apply
        <2>. QED  BY <1>5, <1>t, <2>1, EndCloses, FaithfulKept DEF RepliesInv, Open, At
    <1>6. ASSUME NEW u \in Users, DeleteAccount(u) PROVE Replies
        BY <1>6, FaithfulKept DEF DeleteAccount, RepliesInv, Open, At
    <1>7. Replies
        BY <1>1, <1>2, <1>3, <1>4, <1>5, <1>6 DEF TenancyNext, Statement, Clients
    <1>. QED  BY <1>t, <1>7 DEF RepliesInv

\* For any accounts and transactions: what was answered with success is there
\* while its account is, and a reply shows its actor's rows, with what its
\* own request has written.
THEOREM RepliesAlwaysTrue == TenancySpec => []RepliesAreTrue
    <1>1. TenancyInit => RepliesInv
        BY InitTyped DEF TenancyInit, RepliesInv, Open, At, Closed
    <1>. QED  BY <1>1, RepliesStep, RepliesImply, PTL DEF TenancySpec
=============================================================================
