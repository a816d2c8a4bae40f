-------------------------------- MODULE Table --------------------------------
(***************************************************************************)
(* One PostgreSQL table as the three SQLAlchemy repositories use it: rows  *)
(* with an integer version column, READ COMMITTED transactions, and a row  *)
(* lock that an UPDATE, DELETE or INSERT takes and its transaction keeps   *)
(* until COMMIT or ROLLBACK.  A row has at most one uncommitted successor, *)
(* so the uncommitted writes are kept per row: holder[id] is the           *)
(* transaction that wrote it and draft[id] what it wrote (NoRow: deleted). *)
(*                                                                         *)
(* The operators are the statements the repositories issue.  A statement   *)
(* that meets another transaction's lock waits: it is not enabled.         *)
(***************************************************************************)
EXTENDS Naturals

CONSTANTS Ids,     \* primary keys
          Txns,    \* database sessions, one per HTTP request
          NoTxn,   \* nobody holds the row
          NoRow    \* there is no row with this key

VARIABLES table,   \* table[id]: the committed row
          draft,   \* draft[id]: the uncommitted row, meaningful when held
          holder   \* holder[id]: the transaction holding the row lock

tableVars == <<table, draft, holder>>

TableInit(rows) ==
  /\ table = rows
  /\ draft = [id \in Ids |-> NoRow]
  /\ holder = [id \in Ids |-> NoTxn]

(* What a SELECT of transaction x returns: its own write, else the last    *)
(* committed row.                                                          *)
Visible(x, id) == IF holder[id] = x THEN draft[id] ELSE table[id]

Unlocked(x, id) == holder[id] \in {NoTxn, x}

Write(x, id, row) ==
  /\ draft' = [draft EXCEPT ![id] = row]
  /\ holder' = [holder EXCEPT ![id] = x]
  /\ UNCHANGED table

(* WHERE id = :id AND version = :expected_version, evaluated on the newest *)
(* committed row once the row lock is free.                                *)
MatchesAnyVersion(x, id, version) == Visible(x, id) # NoRow
Matches(x, id, version) ==
  Visible(x, id) # NoRow /\ Visible(x, id).version = version

(* save() of an entity without __version: INSERT with version 1.           *)
InsertUnversioned(x, id, data) ==
  /\ Visible(x, id) = NoRow
  /\ Unlocked(x, id)
  /\ Write(x, id, [version |-> 0, data |-> data])
Insert(x, id, data) ==
  /\ Visible(x, id) = NoRow
  /\ Unlocked(x, id)
  /\ Write(x, id, [version |-> 1, data |-> data])

(* save() of a loaded entity: UPDATE ... SET version = expected + 1.       *)
UpdateKeepingVersion(x, id, version, data) ==
  /\ Unlocked(x, id)
  /\ Matches(x, id, version)
  /\ Write(x, id, [version |-> version, data |-> data])
Update(x, id, version, data) ==
  /\ Unlocked(x, id)
  /\ Matches(x, id, version)
  /\ Write(x, id, [version |-> version + 1, data |-> data])

Delete(x, id, version) ==
  /\ Unlocked(x, id)
  /\ Matches(x, id, version)
  /\ Write(x, id, NoRow)

(* rowcount != 1: the save or delete raises ConcurrencyError.              *)
ConflictWhileLocked(x, id, version) ==
  /\ (~Unlocked(x, id) \/ ~Matches(x, id, version))
  /\ UNCHANGED tableVars
Conflict(x, id, version) ==
  /\ Unlocked(x, id)
  /\ ~Matches(x, id, version)
  /\ UNCHANGED tableVars

Release(x) ==
  /\ draft' = [id \in Ids |-> IF holder[id] = x THEN NoRow ELSE draft[id]]
  /\ holder' = [id \in Ids |-> IF holder[id] = x THEN NoTxn ELSE holder[id]]

Commit(x) ==
  /\ table' = [id \in Ids |-> IF holder[id] = x THEN draft[id] ELSE table[id]]
  /\ Release(x)

RollbackKeepingLocks(x) == UNCHANGED tableVars
Rollback(x) == UNCHANGED table /\ Release(x)

(* The server process dies: PostgreSQL rolls back every open transaction.  *)
RollbackAll ==
  /\ UNCHANGED table
  /\ draft' = [id \in Ids |-> NoRow]
  /\ holder' = [id \in Ids |-> NoTxn]

=============================================================================
