----------------------------- MODULE Repository -----------------------------
(***************************************************************************)
(* A repository (users, one-time tokens or refresh tokens: the three have  *)
(* the same code) used by concurrent database sessions.  A session loads   *)
(* domain entities, the domain code changes them, save() and delete()      *)
(* write them back under the version they were loaded with, and the        *)
(* transaction commits or rolls back.                                      *)
(*                                                                         *)
(* The module asks one question: does the version column make              *)
(* "load, decide, save" atomic?                                            *)
(***************************************************************************)
EXTENDS Table

CONSTANTS Data,       \* what a row holds besides its key and version
          MaxVersion  \* bound: no row is updated beyond this version

Rows == [version : Nat \ {0}, data : Data]
Entities == [version : Nat, data : Data]

ASSUME RepositoryAssumption ==
  /\ NoTxn \notin Txns
  /\ NoRow \notin Entities
  /\ MaxVersion \in Nat

VARIABLES session,  \* session[x]: "closed", "open", or "failed" by an exception
          entity,   \* entity[x][id]: the domain entity x holds; version 0
                    \* stands for an entity without the __version attribute
          base,     \* history: the committed row that entity[x][id] comes from
          known     \* history: the uuid4 keys generated so far

vars == <<table, draft, holder, session, entity, base, known>>

Init ==
  /\ TableInit([id \in Ids |-> NoRow])
  /\ session = [x \in Txns |-> "closed"]
  /\ entity = [x \in Txns |-> [id \in Ids |-> NoRow]]
  /\ base = [x \in Txns |-> [id \in Ids |-> NoRow]]
  /\ known = {}

-----------------------------------------------------------------------------

(* SQLAlchemyTransaction.__aenter__                                        *)
Open(x) ==
  /\ session[x] = "closed"
  /\ session' = [session EXCEPT ![x] = "open"]
  /\ UNCHANGED <<tableVars, entity, base, known>>

(* get_by_id, get_by_email, get_by_string: SELECT and orm2domain, which    *)
(* copies the row's version into the entity.                               *)
Load(x, id) ==
  /\ session[x] = "open"
  /\ entity' = [entity EXCEPT ![x][id] = Visible(x, id)]
  /\ base' = [base EXCEPT ![x][id] = table[id]]
  /\ UNCHANGED <<tableVars, session, known>>

(* The factory methods of the entities: a new key and no __version.        *)
Create(x, id, d) ==
  /\ session[x] = "open"
  /\ id \notin known
  /\ known' = known \union {id}
  /\ entity' = [entity EXCEPT ![x][id] = [version |-> 0, data |-> d]]
  /\ UNCHANGED <<tableVars, session, base>>

(* Domain code changes the entity in memory.                               *)
Mutate(x, id, d) ==
  /\ session[x] = "open"
  /\ entity[x][id] # NoRow
  /\ entity' = [entity EXCEPT ![x][id].data = d]
  /\ UNCHANGED <<tableVars, session, base, known>>

(* save() leaves the version it wrote in the entity.                       *)
Save(x, id) ==
  /\ session[x] = "open"
  /\ entity[x][id] # NoRow
  /\ IF entity[x][id].version = 0
     THEN Insert(x, id, entity[x][id].data)
     ELSE /\ entity[x][id].version < MaxVersion
          /\ Update(x, id, entity[x][id].version, entity[x][id].data)
  /\ entity' = [entity EXCEPT ![x][id].version = @ + 1]
  /\ UNCHANGED <<session, base, known>>

Remove(x, id) ==
  /\ session[x] = "open"
  /\ entity[x][id] # NoRow
  /\ Delete(x, id, entity[x][id].version)
  /\ UNCHANGED <<session, entity, base, known>>

(* ConcurrencyError from save() of a loaded entity or from delete(); the   *)
(* exception leaves the "async with" block, which rolls back.              *)
Refuse(x, id) ==
  /\ session[x] = "open"
  /\ entity[x][id] # NoRow
  /\ Conflict(x, id, entity[x][id].version)
  /\ session' = [session EXCEPT ![x] = "failed"]
  /\ UNCHANGED <<entity, base, known>>

(* __aexit__: the session is closed and its entities are dropped.          *)
Close(x) ==
  /\ session' = [session EXCEPT ![x] = "closed"]
  /\ entity' = [entity EXCEPT ![x] = [id \in Ids |-> NoRow]]
  /\ base' = [base EXCEPT ![x] = [id \in Ids |-> NoRow]]
  /\ UNCHANGED known

CloseOk(x) == session[x] = "open" /\ Commit(x) /\ Close(x)

(* An exception of the use case, a failed statement, a lost connection or  *)
(* the death of the process.                                               *)
CloseError(x) == session[x] # "closed" /\ Rollback(x) /\ Close(x)

Next ==
  \E x \in Txns :
    \/ Open(x)
    \/ CloseOk(x)
    \/ CloseError(x)
    \/ \E id \in Ids :
         \/ Load(x, id)
         \/ Save(x, id)
         \/ Remove(x, id)
         \/ Refuse(x, id)
         \/ \E d \in Data : Create(x, id, d) \/ Mutate(x, id, d)

Spec == Init /\ [][Next]_vars

-----------------------------------------------------------------------------

TypeOK ==
  /\ table \in [Ids -> Rows \union {NoRow}]
  /\ draft \in [Ids -> Rows \union {NoRow}]
  /\ holder \in [Ids -> Txns \union {NoTxn}]
  /\ session \in [Txns -> {"closed", "open", "failed"}]
  /\ entity \in [Txns -> [Ids -> Entities \union {NoRow}]]
  /\ base \in [Txns -> [Ids -> Rows \union {NoRow}]]
  /\ known \subseteq Ids

(* No lost update: from the moment a session has written a row until it    *)
(* commits, the committed row is the one the session's decision was based  *)
(* on.  (user.py, one_time_token.py, refresh_token.py: save, delete)       *)
NoLostUpdate ==
  \A x \in Txns, id \in Ids : holder[id] = x => base[x][id] = table[id]

(* A version number is never used for two different contents of a row: an  *)
(* entity that still carries the committed version was loaded from the     *)
(* committed row.  It is what lets save() compare versions and not rows.   *)
VersionIdentifiesRow ==
  \A x \in Txns, id \in Ids :
    /\ base[x][id] # NoRow
    /\ table[id] # NoRow
    /\ base[x][id].version = table[id].version
    => base[x][id] = table[id]

(* A commit that changes a row gives it a greater version.                 *)
VersionsGrow ==
  [][\A id \in Ids :
       table[id] # NoRow /\ table'[id] \notin {NoRow, table[id]}
       => table'[id].version > table[id].version]_vars

=============================================================================
