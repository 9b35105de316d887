---------------------------- MODULE SyncProtocol ----------------------------
(***************************************************************************)
(* The vocabulary of the sync protocol (src/src/sync/protocol.rs) and the  *)
(* pure decisions of src/src/sync/service.rs: which mutations are          *)
(* admissible, which apply to the stored record, what is answered, and     *)
(* which pages a pull may return.  Everything here concerns one account:   *)
(* every table of the service is keyed by owner_id first and every         *)
(* transaction is bound to one owner.                                      *)
(*                                                                         *)
(* Note bodies are abstracted to members of Notes; those in Oversized      *)
(* exceed the size limit of validate_mutation.  A request hash is the      *)
(* request itself.  Versions and cursors are 64-bit in the code; one step  *)
(* adds one, so they are modelled as naturals.                             *)
(***************************************************************************)
EXTENDS Integers, FiniteSets

CONSTANTS
    Clients,      \* client_id values: one per browser profile
    MutationIds,  \* mutation_id values
    Keys,         \* record ids of the draft_note collection
    Notes,        \* note contents
    Oversized,    \* the contents validate_mutation refuses
    PageLimit,    \* min(limit, MAX_PAGE_CANDIDATES)
    None          \* an absent optional value

ASSUME ProtocolAssumption ==
    /\ Oversized \subseteq Notes
    /\ None \notin Notes
    /\ PageLimit \in Nat \ {0}

Version == Nat \ {0}

\* What the wire shows of a record: a tombstone carries no value.
Snapshot == [key : Keys, version : Version, deleted : BOOLEAN,
             value : Notes \cup {None}]

Mutation == [client : Clients, id : MutationIds, key : Keys,
             action : {"put", "delete"}, base : Nat \cup {None},
             value : Notes \cup {None}]

\* A row of sync_record; the payload of a deleted record stays in the table.
Record == [version : Version, deleted : BOOLEAN, payload : Notes]

\* A row of sync_change.
Change == [cursor : Version, snapshot : Snapshot]

Status == {"applied", "conflict", "gone", "invalid", "idempotency_key_reused"}

Result == [status : Status, record : Snapshot \cup {None}]

\* A row of sync_receipt: the answer recorded for a request.
Receipt == [request : Mutation, result : Result]

ASSUME AbsentAssumption ==
    /\ None \notin Record
    /\ None \notin Snapshot
    /\ None \notin Receipt
    /\ None \notin Nat

-----------------------------------------------------------------------------
(* Decisions on a mutation m against the stored record (None if missing).  *)

Valid(m) ==
    \/ m.action = "put" /\ m.value \in Notes \ Oversized
    \/ m.action = "delete" /\ m.value = None

Snap(k, stored) ==
    IF stored = None
    THEN None
    ELSE [key |-> k, version |-> stored.version, deleted |-> stored.deleted,
          value |-> IF stored.deleted THEN None ELSE stored.payload]

\* Mutant of Applies: a tombstone may be written again.
AppliesToTombstones(m, stored) ==
    \/ stored = None /\ m.action = "put" /\ m.base = None
    \/ stored # None /\ m.base = stored.version

\* The match of apply_mutation: the arms that write.
Applies(m, stored) ==
    \/ stored = None /\ m.action = "put" /\ m.base = None
    \/ stored # None /\ ~stored.deleted /\ m.base = stored.version

\* ... and, among the arms that do not, those that answer Gone.
IsGone(m, stored) ==
    \/ stored = None /\ m.action = "delete"
    \/ stored # None /\ stored.deleted

\* The record an applied mutation leaves behind.
After(m, stored) ==
    [version |-> IF stored = None THEN 1 ELSE stored.version + 1,
     deleted |-> m.action = "delete",
     payload |-> IF m.action = "delete" THEN stored.payload ELSE m.value]

\* The answer to an admissible mutation seen for the first time.
Answer(m, stored) ==
    IF Applies(m, stored)
    THEN [status |-> "applied", record |-> Snap(m.key, After(m, stored))]
    ELSE [status |-> IF IsGone(m, stored) THEN "gone" ELSE "conflict",
          record |-> Snap(m.key, stored)]

Invalid == [status |-> "invalid", record |-> None]
Reused  == [status |-> "idempotency_key_reused", record |-> None]

-----------------------------------------------------------------------------
(* Pulling. A cursor is the pair sealed by CursorCodec; None is the        *)
(* absent cursor of a first pull.                                          *)

Cursor == [position : Nat, highWater : Nat]

Position(cur) == IF cur = None THEN 0 ELSE cur.position

\* Mutant of HighWater: a finished page does not move on.
HighWaterStuck(cur, clock) ==
    IF cur = None \/ cur.position > cur.highWater
    THEN clock
    ELSE cur.highWater

\* The window of a pull: a half-read page keeps the high water of the pull
\* that opened it, a finished one moves on to the clock.
HighWater(cur, clock) ==
    IF cur = None \/ cur.position >= cur.highWater
    THEN clock
    ELSE cur.highWater

Window(cur, high, rows) ==
    {row \in rows : Position(cur) < row.cursor /\ row.cursor <= high}

\* A page ends at the row limit or at the byte budget, whichever comes
\* first, but holds at least one row if the window does.
PageEnds(cur, high, rows) ==
    LET window == Window(cur, high, rows)
    IN  IF window = {}
        THEN {Position(cur)}
        ELSE {last \in {row.cursor : row \in window} :
                Cardinality({row \in window : row.cursor <= last}) <= PageLimit}

\* Mutant of PageUpTo: a short page claims the whole window.
PageUpToHigh(cur, high, rows, last) ==
    [rows     |-> {row \in Window(cur, high, rows) : row.cursor <= last},
     next     |-> [position |-> high, highWater |-> high],
     caughtUp |-> TRUE]

\* ... and another: a page that the byte budget cut short is taken for the last.
PageUpToShort(cur, high, rows, last) ==
    LET page == {row \in Window(cur, high, rows) : row.cursor <= last}
    IN  [rows     |-> page,
         next     |-> [position |-> last, highWater |-> high],
         caughtUp |-> Cardinality(page) < PageLimit]

PageUpTo(cur, high, rows, last) ==
    [rows     |-> {row \in Window(cur, high, rows) : row.cursor <= last},
     next     |-> [position |-> last, highWater |-> high],
     caughtUp |-> last >= high]
=============================================================================
