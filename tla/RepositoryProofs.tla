-------------------------- MODULE RepositoryProofs --------------------------
(***************************************************************************)
(* Optimistic locking is enough: theorems about Repository.                *)
(***************************************************************************)
EXTENDS Repository, TLAPS

(* A session that has written a row still sees the row it started from.    *)
WritersCurrent ==
  \A x \in Txns, id \in Ids :
    holder[id] = x => session[x] # "closed" /\ base[x][id] = table[id]

(* Before its first write, an entity carries the version it was read with; *)
(* only an entity that was never stored has version 0.                     *)
EntitiesVersioned ==
  \A x \in Txns, id \in Ids :
    entity[x][id] # NoRow =>
      /\ entity[x][id].version = 0 => base[x][id] = NoRow
      /\ holder[id] # x =>
           IF base[x][id] = NoRow THEN entity[x][id].version = 0
           ELSE entity[x][id].version = base[x][id].version

(* A row is never older than what anybody has read of it.                  *)
ReadsNotNewer ==
  \A x \in Txns, id \in Ids :
    base[x][id] # NoRow /\ table[id] # NoRow =>
      base[x][id] = table[id] \/ base[x][id].version < table[id].version

(* A draft is newer than the row it replaces and known to its writer.      *)
DraftsNewer ==
  \A x \in Txns, id \in Ids :
    holder[id] = x /\ draft[id] # NoRow =>
      /\ entity[x][id] # NoRow
      /\ table[id] # NoRow => draft[id].version > table[id].version

(* Only generated keys are in use ...                                      *)
KeysKnown ==
  \A id \in Ids :
    \/ id \in known
    \/ /\ table[id] = NoRow /\ holder[id] = NoTxn
       /\ \A x \in Txns : entity[x][id] = NoRow /\ base[x][id] = NoRow

(* ... and an entity without a stored row is its creator's alone.          *)
NewIsPrivate ==
  \A x, y \in Txns, id \in Ids :
    entity[x][id] # NoRow /\ base[x][id] = NoRow =>
      /\ table[id] = NoRow
      /\ x # y => /\ entity[y][id] = NoRow /\ base[y][id] = NoRow
                  /\ holder[id] # y

ClosedHoldNothing ==
  \A x \in Txns, id \in Ids :
    session[x] = "closed" => entity[x][id] = NoRow /\ base[x][id] = NoRow

IInv ==
  /\ TypeOK
  /\ WritersCurrent
  /\ EntitiesVersioned
  /\ ReadsNotNewer
  /\ DraftsNewer
  /\ KeysKnown
  /\ NewIsPrivate
  /\ ClosedHoldNothing

-----------------------------------------------------------------------------

LEMMA InitInvariant == Init => IInv
  BY RepositoryAssumption
  DEF Init, TableInit, IInv, TypeOK, WritersCurrent, EntitiesVersioned,
      ReadsNotNewer, DraftsNewer, KeysKnown, NewIsPrivate, ClosedHoldNothing,
      Rows, Entities

(* Type correctness, one step per action.                                  *)
LEMMA TypeStep == TypeOK /\ [Next]_vars => TypeOK'
<1> SUFFICES ASSUME TypeOK, [Next]_vars PROVE TypeOK'
  OBVIOUS
<1> USE RepositoryAssumption DEF TypeOK, Rows, Entities, tableVars
<1>1. ASSUME NEW x \in Txns, Open(x) PROVE TypeOK'
  BY <1>1 DEF Open
<1>2. ASSUME NEW x \in Txns, CloseOk(x) PROVE TypeOK'
  BY <1>2 DEF CloseOk, Commit, Release, Close
<1>3. ASSUME NEW x \in Txns, CloseError(x) PROVE TypeOK'
  BY <1>3 DEF CloseError, Rollback, Release, Close
<1>4. ASSUME NEW x \in Txns, NEW id \in Ids, Load(x, id) PROVE TypeOK'
  BY <1>4 DEF Load, Visible
<1>5. ASSUME NEW x \in Txns, NEW id \in Ids, Save(x, id) PROVE TypeOK'
  <2>1. entity[x][id] \in Entities
    BY <1>5 DEF Save
  <2>2. /\ entity[x][id].version \in Nat /\ entity[x][id].data \in Data
        /\ entity[x][id].version + 1 \in Nat \ {0}
    BY <2>1
  <2>3. \E row \in Rows : Write(x, id, row)
    <3>1. CASE entity[x][id].version = 0
      <4>1. [version |-> 1, data |-> entity[x][id].data] \in Rows
        BY <2>2
      <4>2. QED
        BY <1>5, <3>1, <4>1 DEF Save, Insert
    <3>2. CASE entity[x][id].version # 0
      <4>1. [version |-> entity[x][id].version + 1,
             data |-> entity[x][id].data] \in Rows
        BY <2>2
      <4>2. QED
        BY <1>5, <3>2, <4>1 DEF Save, Update
    <3>3. QED
      BY <3>1, <3>2
  <2>4. entity' \in [Txns -> [Ids -> Entities \union {NoRow}]]
    <3>1. [entity[x][id] EXCEPT !.version = @ + 1] \in Entities
      BY <2>1, <2>2
    <3>2. entity' = [entity EXCEPT ![x][id] =
                       [entity[x][id] EXCEPT !.version = @ + 1]]
      BY <1>5 DEF Save
    <3>3. QED
      BY <3>1, <3>2
  <2>5. QED
    BY <1>5, <2>3, <2>4 DEF Save, Write
<1>6. ASSUME NEW x \in Txns, NEW id \in Ids, Remove(x, id) PROVE TypeOK'
  BY <1>6 DEF Remove, Delete, Write
<1>7. ASSUME NEW x \in Txns, NEW id \in Ids, Refuse(x, id) PROVE TypeOK'
  BY <1>7 DEF Refuse, Conflict
<1>8. ASSUME NEW x \in Txns, NEW id \in Ids, NEW d \in Data, Create(x, id, d)
      PROVE TypeOK'
  BY <1>8 DEF Create
<1>9. ASSUME NEW x \in Txns, NEW id \in Ids, NEW d \in Data, Mutate(x, id, d)
      PROVE TypeOK'
  BY <1>9 DEF Mutate
<1>10. CASE UNCHANGED vars
  BY <1>10 DEF vars
<1>11. QED
  BY <1>1, <1>2, <1>3, <1>4, <1>5, <1>6, <1>7, <1>8, <1>9, <1>10 DEF Next

(* A session begins.                                                       *)
LEMMA OpenStep ==
  ASSUME IInv, TypeOK', NEW x \in Txns, Open(x)
  PROVE  IInv'
<1> USE RepositoryAssumption DEF IInv, TypeOK, Open, tableVars
<1>1. WritersCurrent'
  BY DEF WritersCurrent
<1>2. EntitiesVersioned'
  BY DEF EntitiesVersioned
<1>3. ReadsNotNewer'
  BY DEF ReadsNotNewer
<1>4. DraftsNewer'
  BY DEF DraftsNewer
<1>5. KeysKnown'
  BY DEF KeysKnown
<1>6. NewIsPrivate'
  BY DEF NewIsPrivate
<1>7. ClosedHoldNothing'
  BY DEF ClosedHoldNothing
<1>8. QED
  BY <1>1, <1>2, <1>3, <1>4, <1>5, <1>6, <1>7

(* A session ends without trace.                                           *)
LEMMA CloseErrorStep ==
  ASSUME IInv, TypeOK', NEW x \in Txns, CloseError(x)
  PROVE  IInv'
<1> USE RepositoryAssumption DEF IInv, TypeOK, CloseError, Rollback, Release,
                                 Close, Rows, Entities
<1>1. WritersCurrent'
  BY DEF WritersCurrent
<1>2. EntitiesVersioned'
  BY DEF EntitiesVersioned
<1>3. ReadsNotNewer'
  BY DEF ReadsNotNewer
<1>4. DraftsNewer'
  BY DEF DraftsNewer
<1>5. KeysKnown'
  BY DEF KeysKnown
<1>6. NewIsPrivate'
  BY DEF NewIsPrivate
<1>7. ClosedHoldNothing'
  BY DEF ClosedHoldNothing
<1>8. QED
  BY <1>1, <1>2, <1>3, <1>4, <1>5, <1>6, <1>7

(* What a commit makes visible has been in line all along.                 *)
LEMMA CloseOkStep ==
  ASSUME IInv, TypeOK', NEW x \in Txns, CloseOk(x)
  PROVE  IInv'
<1> USE RepositoryAssumption DEF IInv, TypeOK, CloseOk, Commit, Release,
                                 Close, Rows, Entities
<1>1. WritersCurrent'
  BY DEF WritersCurrent
<1>2. EntitiesVersioned'
  BY DEF EntitiesVersioned
<1>3. ReadsNotNewer'
  <2> SUFFICES ASSUME NEW y \in Txns, NEW id \in Ids,
                      base'[y][id] # NoRow, table'[id] # NoRow
               PROVE  \/ base'[y][id] = table'[id]
                      \/ base'[y][id].version < table'[id].version
    BY DEF ReadsNotNewer
  <2>1. y # x /\ base'[y][id] = base[y][id]
    OBVIOUS
  <2>2. CASE holder[id] # x
    BY <2>1, <2>2 DEF ReadsNotNewer
  <2>3. CASE holder[id] = x
    <3>1. table'[id] = draft[id] /\ entity[x][id] # NoRow
      BY <2>3 DEF DraftsNewer
    <3>2. table[id] # NoRow
      BY <2>1, <2>3, <3>1 DEF WritersCurrent, NewIsPrivate
    <3>3. draft[id].version > table[id].version
      BY <2>3, <3>1, <3>2 DEF DraftsNewer
    <3>4. base[y][id] = table[id] \/ base[y][id].version < table[id].version
      BY <2>1, <3>2 DEF ReadsNotNewer
    <3>5. /\ base[y][id] \in Rows /\ table[id] \in Rows /\ draft[id] \in Rows
      BY <2>1, <3>1, <3>2
    <3>6. QED
      BY <2>1, <3>1, <3>3, <3>4, <3>5
  <2>4. QED
    BY <2>2, <2>3
<1>4. DraftsNewer'
  BY DEF DraftsNewer
<1>5. KeysKnown'
  BY DEF KeysKnown
<1>6. NewIsPrivate'
  BY DEF NewIsPrivate
<1>7. ClosedHoldNothing'
  BY DEF ClosedHoldNothing
<1>8. QED
  BY <1>1, <1>2, <1>3, <1>4, <1>5, <1>6, <1>7

(* A read brings an entity up to date.                                     *)
LEMMA LoadStep ==
  ASSUME IInv, TypeOK', NEW x \in Txns, NEW id \in Ids, Load(x, id)
  PROVE  IInv'
<1> USE RepositoryAssumption DEF IInv, TypeOK, Load, Visible, tableVars, Rows,
                                 Entities
<1>1. WritersCurrent'
  BY DEF WritersCurrent
<1>2. EntitiesVersioned'
  BY DEF EntitiesVersioned
<1>3. ReadsNotNewer'
  BY DEF ReadsNotNewer
<1>4. DraftsNewer'
  BY DEF DraftsNewer
<1>5. KeysKnown'
  BY DEF KeysKnown
<1>6. NewIsPrivate'
  BY DEF NewIsPrivate, DraftsNewer, WritersCurrent
<1>7. ClosedHoldNothing'
  BY DEF ClosedHoldNothing
<1>8. QED
  BY <1>1, <1>2, <1>3, <1>4, <1>5, <1>6, <1>7

(* A new key is nobody else's.                                             *)
LEMMA CreateStep ==
  ASSUME IInv, TypeOK', NEW x \in Txns, NEW id \in Ids, NEW d \in Data,
         Create(x, id, d)
  PROVE  IInv'
<1> USE RepositoryAssumption DEF IInv, TypeOK, Create, tableVars, Rows,
                                 Entities
<1>1. WritersCurrent'
  BY DEF WritersCurrent
<1>2. EntitiesVersioned'
  BY DEF EntitiesVersioned, KeysKnown
<1>3. ReadsNotNewer'
  BY DEF ReadsNotNewer
<1>4. DraftsNewer'
  BY DEF DraftsNewer
<1>5. KeysKnown'
  BY DEF KeysKnown
<1>6. NewIsPrivate'
  BY DEF NewIsPrivate, KeysKnown
<1>7. ClosedHoldNothing'
  BY DEF ClosedHoldNothing
<1>8. QED
  BY <1>1, <1>2, <1>3, <1>4, <1>5, <1>6, <1>7

(* Domain code leaves the version alone.                                   *)
LEMMA MutateStep ==
  ASSUME IInv, TypeOK', NEW x \in Txns, NEW id \in Ids, NEW d \in Data,
         Mutate(x, id, d)
  PROVE  IInv'
<1> USE RepositoryAssumption DEF IInv, TypeOK, Mutate, tableVars, Rows,
                                 Entities
<1>1. WritersCurrent'
  BY DEF WritersCurrent
<1>2. EntitiesVersioned'
  BY DEF EntitiesVersioned
<1>3. ReadsNotNewer'
  BY DEF ReadsNotNewer
<1>4. DraftsNewer'
  BY DEF DraftsNewer
<1>5. KeysKnown'
  BY DEF KeysKnown
<1>6. NewIsPrivate'
  BY DEF NewIsPrivate
<1>7. ClosedHoldNothing'
  BY DEF ClosedHoldNothing
<1>8. QED
  BY <1>1, <1>2, <1>3, <1>4, <1>5, <1>6, <1>7

(* A conflict writes nothing.                                              *)
LEMMA RefuseStep ==
  ASSUME IInv, TypeOK', NEW x \in Txns, NEW id \in Ids, Refuse(x, id)
  PROVE  IInv'
<1> USE RepositoryAssumption DEF IInv, TypeOK, Refuse, Conflict, tableVars
<1>1. WritersCurrent'
  BY DEF WritersCurrent
<1>2. EntitiesVersioned'
  BY DEF EntitiesVersioned
<1>3. ReadsNotNewer'
  BY DEF ReadsNotNewer
<1>4. DraftsNewer'
  BY DEF DraftsNewer
<1>5. KeysKnown'
  BY DEF KeysKnown
<1>6. NewIsPrivate'
  BY DEF NewIsPrivate
<1>7. ClosedHoldNothing'
  BY DEF ClosedHoldNothing
<1>8. QED
  BY <1>1, <1>2, <1>3, <1>4, <1>5, <1>6, <1>7

(* A delete passes the same version check.                                 *)
LEMMA RemoveStep ==
  ASSUME IInv, TypeOK', NEW x \in Txns, NEW id \in Ids, Remove(x, id)
  PROVE  IInv'
<1> USE RepositoryAssumption DEF IInv, TypeOK, Remove, Delete, Matches,
                                 Unlocked, Visible, Write, Rows, Entities
<1>1. WritersCurrent'
  BY DEF WritersCurrent, EntitiesVersioned, ReadsNotNewer
<1>2. EntitiesVersioned'
  BY DEF EntitiesVersioned
<1>3. ReadsNotNewer'
  BY DEF ReadsNotNewer
<1>4. DraftsNewer'
  BY DEF DraftsNewer
<1>5. KeysKnown'
  BY DEF KeysKnown
<1>6. NewIsPrivate'
  BY DEF NewIsPrivate
<1>7. ClosedHoldNothing'
  BY DEF ClosedHoldNothing
<1>8. QED
  BY <1>1, <1>2, <1>3, <1>4, <1>5, <1>6, <1>7

(* A save that finds its version finds the row it was based on.            *)
LEMMA SaveStep ==
  ASSUME IInv, TypeOK', NEW x \in Txns, NEW id \in Ids, Save(x, id)
  PROVE  IInv'
<1> USE RepositoryAssumption DEF IInv, TypeOK, Save, Insert, Update, Matches,
                                 Unlocked, Visible, Write, Rows, Entities
<1>1. WritersCurrent'
  BY DEF WritersCurrent, EntitiesVersioned, ReadsNotNewer, NewIsPrivate
<1>2. EntitiesVersioned'
  BY DEF EntitiesVersioned
<1>3. ReadsNotNewer'
  BY DEF ReadsNotNewer
<1>4. DraftsNewer'
  BY DEF DraftsNewer, WritersCurrent, EntitiesVersioned, ReadsNotNewer
<1>5. KeysKnown'
  BY DEF KeysKnown
<1>6. NewIsPrivate'
  BY DEF NewIsPrivate
<1>7. ClosedHoldNothing'
  BY DEF ClosedHoldNothing
<1>8. QED
  BY <1>1, <1>2, <1>3, <1>4, <1>5, <1>6, <1>7

LEMMA InvariantStep == IInv /\ [Next]_vars => IInv'
<1> SUFFICES ASSUME IInv, [Next]_vars PROVE IInv'
  OBVIOUS
<1>1. TypeOK'
  BY TypeStep DEF IInv
<1>2. CASE Next
  BY <1>1, <1>2, OpenStep, CloseErrorStep, CloseOkStep, LoadStep, CreateStep,
     MutateStep, RefuseStep, RemoveStep, SaveStep DEF Next
<1>3. CASE UNCHANGED vars
  BY <1>1, <1>3
  DEF vars, IInv, WritersCurrent, EntitiesVersioned, ReadsNotNewer,
      DraftsNewer,
      KeysKnown, NewIsPrivate, ClosedHoldNothing
<1>4. QED
  BY <1>2, <1>3

THEOREM Invariant == Spec => []IInv
<1>1. QED
  BY InitInvariant, InvariantStep, PTL DEF Spec

-----------------------------------------------------------------------------

(* The variables of every repository stay within their types.              *)
THEOREM TypeCorrect == Spec => []TypeOK
<1>1. IInv => TypeOK
  BY DEF IInv
<1>2. QED
  BY Invariant, <1>1, PTL

(* For any number of rows, sessions and versions: a write that passed the  *)
(* version check of save() or delete() commits over the very row that the  *)
(* session had read, never over another session's update.                  *)
THEOREM UpdatesNotLost == Spec => []NoLostUpdate
<1>1. IInv => NoLostUpdate
  BY DEF IInv, WritersCurrent, NoLostUpdate
<1>2. QED
  BY Invariant, <1>1, PTL

(* Comparing versions is as good as comparing rows.                        *)
THEOREM VersionsIdentify == Spec => []VersionIdentifiesRow
<1>1. IInv => VersionIdentifiesRow
  BY DEF IInv, TypeOK, Rows, ReadsNotNewer, VersionIdentifiesRow
<1>2. QED
  BY Invariant, <1>1, PTL

(* Only the commit of a newer draft replaces a row.                        *)
THEOREM RowsGrowNewer == Spec => VersionsGrow
<1>1. IInv /\ [Next]_vars =>
        [\A id \in Ids :
           table[id] # NoRow /\ table'[id] \notin {NoRow, table[id]}
           => table'[id].version > table[id].version]_vars
  <2> SUFFICES ASSUME IInv, [Next]_vars, NEW id \in Ids,
                      table[id] # NoRow, table'[id] \notin {NoRow, table[id]}
               PROVE  table'[id].version > table[id].version
    OBVIOUS
  <2>1. PICK x \in Txns : CloseOk(x)
    BY DEF Next, vars, Open, CloseError, Rollback, Load, Create, Mutate, Save,
           Insert, Update, Remove, Delete, Write, Refuse, Conflict, tableVars
  <2>2. holder[id] = x /\ table'[id] = draft[id]
    BY <2>1 DEF CloseOk, Commit, IInv, TypeOK
  <2>3. QED
    BY <2>2 DEF IInv, DraftsNewer
<1>2. QED
  BY Invariant, <1>1, PTL DEF Spec, VersionsGrow

=============================================================================
