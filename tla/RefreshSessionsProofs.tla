----------------------- MODULE RefreshSessionsProofs -----------------------
(***************************************************************************)
(* Theorems about RefreshSessions: types, frozen rows, that every commit   *)
(* is a step of SessionChains, what clients hold, rotations, refusals and  *)
(* the audit log.                                                          *)
(***************************************************************************)
EXTENDS RefreshSessions, TLAPS

(* The steps in which a request has an unsaved or uncommitted token, and   *)
(* in which it acts on the token the client sent.                          *)
Making(r) ==
  \/ op[r] = "login" /\ pc[r] \in {"save_user", "insert", "commit"}
  \/ op[r] = "refresh" /\ pc[r] \in {"save_token", "insert", "commit"}
Spending(r) ==
  op[r] # "login" /\ pc[r] \in {"use", "save_token", "insert", "commit"}

(* Each step is taken by the requests it is written for.                   *)
StepsMatchOps ==
  \A r \in Requests :
    /\ pc[r] \in {"login", "save_user"} => op[r] = "login" /\ account[r] \in Users
    /\ pc[r] \in {"use", "save_token"} => op[r] # "login"
    /\ pc[r] = "insert" => op[r] # "revoke"
    /\ pc[r] = "reuse" => op[r] = "refresh" /\ presented[r] \in Tokens

(* What a request has loaded is the stored row or an older one, and it     *)
(* goes on only with a row that was not revoked.                           *)
ReadsNotNewer ==
  \A r \in Requests :
    Spending(r) =>
      /\ presented[r] \in Tokens
      /\ loaded[r] # NoRow
      /\ tokenTable[presented[r]] # NoRow
      /\ \/ loaded[r] = tokenTable[presented[r]]
         \/ loaded[r].version < tokenTable[presented[r]].version
      /\ pc[r] # "use" => ~loaded[r].data.revoked

(* A token in the making is its request's own and of the right session.    *)
NewTokensPrivate ==
  \A r \in Requests :
    Making(r) =>
      LET n == created[r] IN
      /\ n \in Tokens
      /\ identity[n] # NoRow
      /\ tokenTable[n] = NoRow
      /\ \A q \in Requests : Making(q) /\ created[q] = n => q = r
      /\ identity[n].session =
           IF op[r] = "login" THEN n ELSE identity[presented[r]].session
      /\ op[r] = "refresh" => identity[n].user = identity[presented[r]].user

StoredIdentified ==
  \A t \in Tokens : tokenTable[t] # NoRow => identity[t] # NoRow

(* A written row stays locked, and the row it replaces stays the one that  *)
(* was loaded, until the transaction ends.                                 *)
OldDraft(r) == [version |-> loaded[r].version + 1, data |-> Entity(r)]
NewDraft ==
  [version |-> 1, data |-> [revoked |-> FALSE, replacedBy |-> NoToken]]

OldRowHeld(r) ==
  op[r] # "login" /\ pc[r] \in {"insert", "commit"} =>
    /\ tokenHolder[presented[r]] = r
    /\ tokenTable[presented[r]] = loaded[r]
    /\ tokenDraft[presented[r]] = OldDraft(r)
NewRowHeld(r) ==
  op[r] # "revoke" /\ pc[r] = "commit" =>
    /\ tokenHolder[created[r]] = r
    /\ tokenDraft[created[r]] = NewDraft

WritesHeld == \A r \in Requests : OldRowHeld(r) /\ NewRowHeld(r)

(* No other row is locked.                                                 *)
HoldersWrite ==
  \A r \in Requests, t \in Tokens :
    tokenHolder[t] = r =>
      \/ op[r] # "login" /\ pc[r] \in {"insert", "commit"} /\ t = presented[r]
      \/ op[r] # "revoke" /\ pc[r] = "commit" /\ t = created[r]

UserDraftsRows ==
  \A u \in Users : userHolder[u] # NoRequest => userDraft[u] \in UserRows

IInv ==
  /\ TypeOK
  /\ StepsMatchOps
  /\ ReadsNotNewer
  /\ NewTokensPrivate
  /\ StoredIdentified
  /\ WritesHeld
  /\ HoldersWrite
  /\ UserDraftsRows

-----------------------------------------------------------------------------
(* Type correctness                                                        *)

LEMMA EventTypes ==
  /\ \A t \in Tokens : /\ Event("RefreshTokenCreated", t) \in Events
                       /\ Event("RefreshTokenRevoked", t) \in Events
                       /\ Event("RefreshTokenReuseDetected", t) \in Events
                       /\ Event("SuspiciousRefreshTokenRevocation", t) \in Events
  /\ \A e, f \in Events : <<e>> \in Seq(Events) /\ <<e, f>> \in Seq(Events)
<1>1. \A t \in Tokens : /\ Event("RefreshTokenCreated", t) \in Events
                        /\ Event("RefreshTokenRevoked", t) \in Events
                        /\ Event("RefreshTokenReuseDetected", t) \in Events
                        /\ Event("SuspiciousRefreshTokenRevocation", t) \in Events
  BY DEF Event, Events, DomainEvents, SecurityEvents
<1>2. \A e, f \in Events : <<e>> \in Seq(Events) /\ <<e, f>> \in Seq(Events)
  OBVIOUS
<1>3. QED
  BY <1>1, <1>2

CommitTypes(r) ==
  /\ userTable' \in [Users -> UserRows]
  /\ userDraft' \in [Users -> UserRows \union {NoRow}]
  /\ userHolder' \in [Users -> Requests \union {NoRequest}]
  /\ tokenTable' \in [Tokens -> TokenRows \union {NoRow}]
  /\ tokenDraft' \in [Tokens -> TokenRows \union {NoRow}]
  /\ tokenHolder' \in [Tokens -> Requests \union {NoRequest}]

LEMMA CommitType ==
  ASSUME TypeOK, UserDraftsRows, NEW r \in Requests, Commit(r)
  PROVE  CommitTypes(r)
<1>1. \A u \in Users : userHolder[u] = r => userDraft[u] \in UserRows
  BY SessionsAssumption DEF UserDraftsRows
<1>2. userTable' \in [Users -> UserRows]
  BY <1>1 DEF TypeOK, Commit, U!Commit
<1>3. /\ userDraft' \in [Users -> UserRows \union {NoRow}]
      /\ userHolder' \in [Users -> Requests \union {NoRequest}]
  BY DEF TypeOK, Commit, U!Commit, U!Release
<1>4. /\ tokenTable' \in [Tokens -> TokenRows \union {NoRow}]
      /\ tokenDraft' \in [Tokens -> TokenRows \union {NoRow}]
      /\ tokenHolder' \in [Tokens -> Requests \union {NoRequest}]
  BY DEF TypeOK, Commit, T!Commit, T!Release
<1>5. QED
  BY <1>2, <1>3, <1>4 DEF CommitTypes

LEMMA TypeStep == IInv /\ [Next]_vars => TypeOK'
<1> SUFFICES ASSUME IInv, [Next]_vars PROVE TypeOK'
  OBVIOUS
<1> USE DEF IInv, TypeOK
<1>1. ASSUME NEW r \in Requests, LoginNotFound(r) PROVE TypeOK'
  BY <1>1, SessionsAssumption
  DEF LoginNotFound, Answer, Goto, At, dbVars, userVars, tokenVars,
      Outcomes, BaseErrors, Steps, Ops
<1>2. ASSUME NEW r \in Requests, NEW u \in Users, LoginSelect(r, u)
      PROVE  TypeOK'
  <2>1. U!Visible(r, u).version \in Nat
    <3>1. U!Visible(r, u) \in UserRows
      BY <1>2, SessionsAssumption DEF U!Visible, UserDraftsRows
    <3>2. QED
      BY <3>1 DEF UserRows
  <2>2. QED
    BY <1>2, <2>1 DEF LoginSelect, Goto, dbVars, userVars, tokenVars, Steps,
                      Ops
<1>3. ASSUME NEW r \in Requests, LoginRefused(r) PROVE TypeOK'
  BY <1>3, SessionsAssumption
  DEF LoginRefused, Answer, Goto, At, Rollback, U!Rollback, U!Release,
      T!Rollback, T!Release, Outcomes, BaseErrors, Steps
<1>4. ASSUME NEW r \in Requests, NEW n \in Tokens, LoginCreate(r, n)
      PROVE  TypeOK'
  <2>1. NewToken(account[r], n) \in Identities
    BY <1>4, SessionsAssumption
    DEF LoginCreate, At, StepsMatchOps, NewToken, Identities
  <2>2. <<Event("RefreshTokenCreated", n)>> \in Seq(Events)
    BY EventTypes
  <2>3. QED
    BY <1>4, <2>1, <2>2
    DEF LoginCreate, Create, Goto, dbVars, userVars, tokenVars, inputVars,
        Steps
<1>5. ASSUME NEW r \in Requests, SaveUser(r) PROVE TypeOK'
  <2>1. [version |-> userVersion[r] + 1, data |-> "account"] \in UserRows
    BY DEF UserRows
  <2>2. QED
    BY <1>5, <2>1
    DEF SaveUser, U!Update, U!Write, Goto, tokenVars, inputVars, Steps
<1>6. ASSUME NEW r \in Requests, SaveUserConflict(r) PROVE TypeOK'
  BY <1>6, SessionsAssumption
  DEF SaveUserConflict, U!Conflict, U!tableVars, Answer, Goto, At,
      tokenVars, Outcomes, BaseErrors, Steps
<1>7. ASSUME NEW r \in Requests, InsertNew(r) PROVE TypeOK'
  <2>1. [version |-> 1, data |-> [revoked |-> FALSE, replacedBy |-> NoToken]]
          \in TokenRows
    BY DEF TokenRows, TokenData
  <2>2. QED
    BY <1>7, <2>1
    DEF InsertNew, T!Insert, T!Write, Goto, userVars, inputVars, Steps
<1>8. ASSUME NEW r \in Requests, NEW o \in {"refresh", "revoke"}, NEW t,
             TokenNotFound(r, o, t)
      PROVE  TypeOK'
  BY <1>8, SessionsAssumption
  DEF TokenNotFound, Answer, Goto, At, dbVars, userVars, tokenVars,
      Outcomes, BaseErrors, Steps, Ops
<1>9. ASSUME NEW r \in Requests, NEW o \in {"refresh", "revoke"},
             NEW t \in Tokens, TokenSelect(r, o, t)
      PROVE  TypeOK'
  BY <1>9, SessionsAssumption
  DEF TokenSelect, T!Visible, Goto, At, dbVars, userVars, tokenVars,
      Steps, Ops
<1>10. ASSUME NEW r \in Requests, UseReplaced(r) PROVE TypeOK'
  BY <1>10, SessionsAssumption
  DEF UseReplaced, Goto, At, Rollback, U!Rollback, U!Release, T!Rollback,
      T!Release, inputVars, Steps
<1>11. ASSUME NEW r \in Requests, UseInvalid(r) PROVE TypeOK'
  BY <1>11, SessionsAssumption
  DEF UseInvalid, Answer, Goto, At, Rollback, U!Rollback, U!Release,
      T!Rollback, T!Release, Outcomes, BaseErrors, Steps
<1>12. ASSUME NEW r \in Requests, NEW n \in Tokens, UseAndRotate(r, n)
       PROVE  TypeOK'
  <2>1. presented[r] \in Tokens /\ identity[presented[r]] \in Identities
    BY <1>12 DEF UseAndRotate, At, StepsMatchOps, ReadsNotNewer, Spending,
                  StoredIdentified
  <2>2. NewToken(identity[presented[r]].user, identity[presented[r]].session)
          \in Identities
    BY <2>1, SessionsAssumption DEF NewToken, Identities
  <2>3. <<Event("RefreshTokenRevoked", presented[r]),
          Event("RefreshTokenCreated", n)>> \in Seq(Events)
    BY <2>1, EventTypes
  <2>4. QED
    BY <1>12, <2>2, <2>3
    DEF UseAndRotate, Create, Goto, dbVars, userVars, tokenVars, inputVars,
        Steps
<1>13. ASSUME NEW r \in Requests, Revoke(r) PROVE TypeOK'
  <2>1. presented[r] \in Tokens
    BY <1>13 DEF Revoke, At, StepsMatchOps, ReadsNotNewer, Spending
  <2>2. <<Event("SuspiciousRefreshTokenRevocation", presented[r]),
          Event("RefreshTokenRevoked", presented[r])>> \in Seq(Events)
    BY <2>1, EventTypes
  <2>3. QED
    BY <1>13, <2>2
    DEF Revoke, Goto, dbVars, userVars, tokenVars, inputVars, Steps
<1>14. ASSUME NEW r \in Requests, SaveToken(r) PROVE TypeOK'
  <2>1. loaded[r] \in TokenRows
    BY <1>14 DEF SaveToken, At, StepsMatchOps, ReadsNotNewer, Spending
  <2>2. Entity(r) \in TokenData
    BY <2>1 DEF Entity, TokenRows, TokenData
  <2>3. [version |-> loaded[r].version + 1, data |-> Entity(r)] \in TokenRows
    BY <2>1, <2>2 DEF TokenRows
  <2>4. QED
    BY <1>14, <2>3
    DEF SaveToken, AfterSave, T!Update, T!Write, Goto, userVars, inputVars,
        Steps
<1>15. ASSUME NEW r \in Requests, SaveTokenConflict(r) PROVE TypeOK'
  BY <1>15, SessionsAssumption
  DEF SaveTokenConflict, T!Conflict, T!tableVars, Answer, Goto, At,
      userVars, Outcomes, BaseErrors, Steps
<1>16. ASSUME NEW r \in Requests, ReuseSelect(r) PROVE TypeOK'
  <2>1. <<Event("RefreshTokenReuseDetected", presented[r])>> \in Seq(Events)
    BY <1>16, EventTypes DEF ReuseSelect, At, StepsMatchOps
  <2>2. QED
    BY <1>16, <2>1
    DEF ReuseSelect, Goto, dbVars, userVars, tokenVars, inputVars, Steps
<1>17. ASSUME NEW r \in Requests, CommitRefresh(r) PROVE TypeOK'
  <2>1. CommitTypes(r)
    BY <1>17, CommitType DEF CommitRefresh
  <2>2. QED
    BY <1>17, <2>1 DEF CommitRefresh, CommitTypes, Answer, Goto, Outcomes,
                       Steps
<1>18. ASSUME NEW r \in Requests, CommitAndPublish(r) PROVE TypeOK'
  <2>1. CommitTypes(r)
    BY <1>18, CommitType DEF CommitAndPublish
  <2>2. QED
    BY <1>18, <2>1 DEF CommitAndPublish, CommitTypes, Goto, inputVars, Steps
<1>19. ASSUME NEW r \in Requests, CommitUnacknowledged(r) PROVE TypeOK'
  <2>1. CommitTypes(r)
    BY <1>19, CommitType DEF CommitUnacknowledged
  <2>2. QED
    BY <1>19, <2>1 DEF CommitUnacknowledged, CommitTypes, Answer, Goto,
                       Outcomes, Steps
<1>20. ASSUME NEW r \in Requests, DbFailure(r) PROVE TypeOK'
  BY <1>20, SessionsAssumption
  DEF DbFailure, Answer, Goto, At, Rollback, U!Rollback, U!Release,
      T!Rollback, T!Release, Outcomes, BaseErrors, Steps
<1>21. ASSUME NEW r \in Requests, PushNext(r) PROVE TypeOK'
  BY <1>21, SessionsAssumption
  DEF PushNext, Pushed, At, dbVars, userVars, tokenVars, inputVars
<1>22. ASSUME NEW r \in Requests, PushFails(r) PROVE TypeOK'
  <2>1. Head(todo[r]) \in Events
    BY <1>22 DEF PushFails
  <2>2. Append(audit, Head(todo[r])) \in Seq(Events)
    BY <2>1
  <2>3. audit' \in Seq(Events)
    BY <1>22, <2>2 DEF PushFails, Pushed
  <2>4. QED
    BY <1>22, <2>3
    DEF PushFails, Answer, Goto, dbVars, userVars, tokenVars, Outcomes, Steps
<1>23. ASSUME NEW r \in Requests, Published(r) PROVE TypeOK'
  BY <1>23, SessionsAssumption
  DEF Published, Answer, Goto, At, dbVars, userVars, tokenVars, Outcomes,
      BaseErrors, Steps
<1>24. ASSUME NEW r \in Requests, Respond(r) PROVE TypeOK'
  BY <1>24, SessionsAssumption
  DEF Respond, Forget, At, dbVars, userVars, tokenVars, Outcomes,
      BaseErrors, Steps, Ops
<1>25. ASSUME NEW r \in Requests, ResponseLost(r) PROVE TypeOK'
  BY <1>25, SessionsAssumption
  DEF ResponseLost, Forget, At, dbVars, userVars, tokenVars, Outcomes,
      BaseErrors, Steps, Ops
<1>26. ASSUME Crash PROVE TypeOK'
  BY <1>26, SessionsAssumption
  DEF Crash, Forget, U!RollbackAll, T!RollbackAll, Outcomes, BaseErrors,
      Steps, Ops
<1>27. ASSUME Tick PROVE TypeOK'
  BY <1>27, SessionsAssumption
  DEF Tick, requestVars, dbVars, userVars, tokenVars, inputVars
<1>28. CASE UNCHANGED vars
  BY <1>28 DEF vars, dbVars, userVars, tokenVars, requestVars, inputVars
<1>29. QED
  BY <1>1, <1>2, <1>3, <1>4, <1>5, <1>6, <1>7, <1>8, <1>9, <1>10, <1>11,
     <1>12, <1>13, <1>14, <1>15, <1>16, <1>17, <1>18, <1>19, <1>20, <1>21,
     <1>22, <1>23, <1>24, <1>25, <1>26, <1>27, <1>28 DEF Next, Arrives,
     Proceeds, Saves, Fails

-----------------------------------------------------------------------------
(* The token invariants: the steps fall into a few kinds.                  *)

TokenInv ==
  /\ ReadsNotNewer
  /\ NewTokensPrivate
  /\ StoredIdentified
  /\ WritesHeld
  /\ HoldersWrite

OthersAlone(r) ==
  \A q \in Requests \ {r} :
    /\ pc'[q] = pc[q] /\ op'[q] = op[q] /\ presented'[q] = presented[q]
    /\ loaded'[q] = loaded[q] /\ created'[q] = created[q]

(* The request holds no lock after the step and has no token in its hands. *)
Leaves(r) ==
  /\ OthersAlone(r)
  /\ UNCHANGED <<identity, tokenTable>>
  /\ pc'[r] \in {"idle", "login", "respond", "publish", "reuse"}
  /\ \A t \in Tokens :
       /\ tokenHolder'[t] # r
       /\ tokenHolder[t] # r => /\ tokenHolder'[t] = tokenHolder[t]
                                /\ tokenDraft'[t] = tokenDraft[t]
       /\ tokenHolder[t] = r => tokenHolder'[t] = NoRequest

LEMMA LeavesStep ==
  ASSUME TypeOK, TypeOK', TokenInv, NEW r \in Requests, Leaves(r)
  PROVE  TokenInv'
<1> USE SessionsAssumption DEF TokenInv, Leaves, OthersAlone, Spending, Making
<1>1. ReadsNotNewer'
  BY DEF ReadsNotNewer
<1>2. NewTokensPrivate'
  BY DEF NewTokensPrivate
<1>3. StoredIdentified'
  BY DEF StoredIdentified
<1>4. WritesHeld'
  <2>1. \A q \in Requests \ {r} : OldDraft(q)' = OldDraft(q)
    BY DEF OldDraft, Entity
  <2>2. \A q \in Requests :
          /\ op[q] # "login" /\ pc[q] \in {"insert", "commit"} =>
               presented[q] \in Tokens
          /\ op[q] # "revoke" /\ pc[q] = "commit" => created[q] \in Tokens
    BY DEF ReadsNotNewer, NewTokensPrivate, TypeOK, Ops
  <2>3. QED
    BY <2>1, <2>2 DEF WritesHeld, OldRowHeld, NewRowHeld
<1>5. HoldersWrite'
  BY DEF HoldersWrite, TypeOK
<1>6. QED
  BY <1>1, <1>2, <1>3, <1>4, <1>5

LEMMA NewDraftType == NewDraft \in TokenRows
  BY DEF NewDraft, TokenRows, TokenData

LEMMA OldDraftType ==
  ASSUME TypeOK, NEW r \in Requests, loaded[r] \in TokenRows
  PROVE  OldDraft(r) \in TokenRows
<1>1. Entity(r) \in TokenData
  BY DEF TypeOK, Entity, TokenRows, TokenData
<1>2. QED
  BY <1>1 DEF OldDraft, TokenRows

(* A commit replaces exactly the row that was loaded and adds the new one. *)
Spent(r) ==
  /\ presented[r] \in Tokens
  /\ loaded[r] \in TokenRows
  /\ ~loaded[r].data.revoked
  /\ tokenTable[presented[r]] = loaded[r]
  /\ tokenTable'[presented[r]] = OldDraft(r)
Made(r) ==
  /\ created[r] \in Tokens
  /\ tokenTable[created[r]] = NoRow
  /\ tokenTable'[created[r]] = NewDraft
CommitEffect(r) ==
  /\ op[r] # "login" => Spent(r)
  /\ op[r] # "revoke" => Made(r)
  /\ \A t \in Tokens :
       /\ op[r] = "login" \/ t # presented[r]
       /\ op[r] = "revoke" \/ t # created[r]
       => tokenTable'[t] = tokenTable[t]

LEMMA CommitWrites ==
  ASSUME TypeOK, TokenInv, NEW r \in Requests, pc[r] = "commit", T!Commit(r)
  PROVE  CommitEffect(r)
<1> USE DEF TokenInv
<1>1. ASSUME op[r] # "login" PROVE Spent(r)
  <2>1. /\ presented[r] \in Tokens /\ loaded[r] # NoRow
        /\ ~loaded[r].data.revoked
    BY <1>1 DEF ReadsNotNewer, Spending
  <2>2. /\ tokenHolder[presented[r]] = r
        /\ tokenTable[presented[r]] = loaded[r]
        /\ tokenDraft[presented[r]] = OldDraft(r)
    BY <1>1 DEF WritesHeld, OldRowHeld
  <2>3. QED
    BY <2>1, <2>2 DEF Spent, TypeOK, T!Commit
<1>2. ASSUME op[r] # "revoke" PROVE Made(r)
  <2>1. created[r] \in Tokens /\ tokenTable[created[r]] = NoRow
    BY <1>2 DEF NewTokensPrivate, Making, TypeOK, Ops
  <2>2. /\ tokenHolder[created[r]] = r
        /\ tokenDraft[created[r]] = NewDraft
    BY <1>2 DEF WritesHeld, NewRowHeld
  <2>3. QED
    BY <2>1, <2>2 DEF Made, T!Commit
<1>3. ASSUME NEW t \in Tokens,
             op[r] = "login" \/ t # presented[r],
             op[r] = "revoke" \/ t # created[r]
      PROVE  tokenTable'[t] = tokenTable[t]
  BY <1>3 DEF HoldersWrite, T!Commit
<1>4. QED
  BY <1>1, <1>2, <1>3 DEF CommitEffect

(* The rows the request has written become the committed ones.             *)
Commits(r) ==
  /\ OthersAlone(r)
  /\ pc[r] = "commit"
  /\ pc'[r] \in {"respond", "publish"}
  /\ UNCHANGED identity
  /\ T!Commit(r)

LEMMA CommitsStep ==
  ASSUME TypeOK, TokenInv, NEW r \in Requests, Commits(r)
  PROVE  TokenInv'
<1> USE SessionsAssumption
    DEF TokenInv, Commits, OthersAlone, Spending, Making
<1>1. CommitEffect(r)
  BY CommitWrites
<1>2. /\ op[r] # "login" => /\ OldDraft(r) \in TokenRows
                            /\ OldDraft(r) # NoRow
                            /\ OldDraft(r).version = loaded[r].version + 1
      /\ NewDraft # NoRow
  BY <1>1, NewDraftType, OldDraftType DEF CommitEffect, Spent, OldDraft
<1>3. \A t \in Tokens :
        \/ tokenTable'[t] = tokenTable[t]
        \/ /\ tokenTable[t] \in TokenRows /\ tokenTable'[t] \in TokenRows
           /\ tokenTable'[t].version > tokenTable[t].version
        \/ tokenTable[t] = NoRow /\ t = created[r] /\ Making(r)
  BY <1>1, <1>2 DEF CommitEffect, Spent, Made, TokenRows, TypeOK, Ops
<1>4. ReadsNotNewer'
  <2> SUFFICES ASSUME NEW q \in Requests, Spending(q)'
               PROVE  /\ presented'[q] \in Tokens
                      /\ loaded'[q] # NoRow
                      /\ tokenTable'[presented'[q]] # NoRow
                      /\ \/ loaded'[q] = tokenTable'[presented'[q]]
                         \/ loaded'[q].version
                              < tokenTable'[presented'[q]].version
                      /\ pc'[q] # "use" => ~loaded'[q].data.revoked
    BY DEF ReadsNotNewer
  <2>1. q # r /\ Spending(q) /\ presented'[q] = presented[q]
        /\ loaded'[q] = loaded[q] /\ pc'[q] = pc[q]
    OBVIOUS
  <2>2. /\ presented[q] \in Tokens /\ loaded[q] # NoRow
        /\ tokenTable[presented[q]] # NoRow
        /\ \/ loaded[q] = tokenTable[presented[q]]
           \/ loaded[q].version < tokenTable[presented[q]].version
        /\ pc[q] # "use" => ~loaded[q].data.revoked
    BY <2>1 DEF ReadsNotNewer
  <2>3. loaded[q] \in TokenRows
    BY <2>2 DEF TypeOK
  <2>4. QED
    BY <1>3, <2>1, <2>2, <2>3 DEF TokenRows
<1>5. NewTokensPrivate'
  <2>1. \A q \in Requests \ {r} :
          Making(q) => /\ created[q] \in Tokens
                       /\ tokenTable[created[q]] = NoRow
                       /\ Making(r) => created[q] # created[r]
    BY DEF NewTokensPrivate
  <2>2. \A q \in Requests \ {r} :
          Making(q) => tokenTable'[created[q]] = NoRow
    BY <1>3, <2>1
  <2>3. QED
    BY <2>2 DEF NewTokensPrivate
<1>6. StoredIdentified'
  BY <1>3 DEF StoredIdentified, NewTokensPrivate
<1>7. WritesHeld'
  <2>1. \A q \in Requests \ {r} : OldDraft(q)' = OldDraft(q)
    BY DEF OldDraft, Entity
  <2>2. \A q \in Requests \ {r}, t \in Tokens :
          tokenHolder[t] = q => /\ tokenHolder'[t] = q
                                /\ tokenDraft'[t] = tokenDraft[t]
                                /\ tokenTable'[t] = tokenTable[t]
    BY DEF T!Commit, T!Release
  <2>3. \A q \in Requests :
          /\ op[q] # "login" /\ pc[q] \in {"insert", "commit"} =>
               presented[q] \in Tokens
          /\ op[q] # "revoke" /\ pc[q] = "commit" => created[q] \in Tokens
    BY DEF ReadsNotNewer, NewTokensPrivate, TypeOK, Ops
  <2>4. QED
    BY <2>1, <2>2, <2>3 DEF WritesHeld, OldRowHeld, NewRowHeld
<1>8. HoldersWrite'
  BY DEF HoldersWrite, T!Commit, T!Release
<1>9. QED
  BY <1>4, <1>5, <1>6, <1>7, <1>8

LEMMA SelectStep ==
  ASSUME IInv, NEW r \in Requests, NEW o \in {"refresh", "revoke"},
         NEW t \in Tokens, TokenSelect(r, o, t)
  PROVE  TokenInv'
<1> USE SessionsAssumption
    DEF IInv, TypeOK, TokenSelect, At, Goto, dbVars, tokenVars, TokenInv,
        Spending, Making
<1>1. ReadsNotNewer'
  BY DEF ReadsNotNewer, T!Visible, HoldersWrite
<1>2. NewTokensPrivate'
  BY DEF NewTokensPrivate
<1>3. StoredIdentified'
  BY DEF StoredIdentified
<1>4. WritesHeld'
  <2>1. \A q \in Requests \ {r} : OldDraft(q)' = OldDraft(q)
    BY DEF OldDraft, Entity
  <2>2. QED
    BY <2>1 DEF WritesHeld, OldRowHeld, NewRowHeld
<1>5. HoldersWrite'
  BY DEF HoldersWrite
<1>6. QED
  BY <1>1, <1>2, <1>3, <1>4, <1>5

LEMMA LoginCreateStep ==
  ASSUME IInv, NEW r \in Requests, NEW n \in Tokens, LoginCreate(r, n)
  PROVE  TokenInv'
<1> USE SessionsAssumption
    DEF IInv, TypeOK, LoginCreate, At, Goto, Create, Fresh, dbVars, tokenVars,
        inputVars, TokenInv, Spending, Making
<1>1. ReadsNotNewer'
  BY DEF ReadsNotNewer
<1>2. NewTokensPrivate'
  BY DEF NewTokensPrivate, StoredIdentified, NewToken, StepsMatchOps,
         ReadsNotNewer, Identities
<1>3. StoredIdentified'
  BY DEF StoredIdentified
<1>4. WritesHeld'
  <2>1. \A q \in Requests \ {r} : OldDraft(q)' = OldDraft(q)
    BY DEF OldDraft, Entity
  <2>2. QED
    BY <2>1 DEF WritesHeld, OldRowHeld, NewRowHeld
<1>5. HoldersWrite'
  BY DEF HoldersWrite
<1>6. QED
  BY <1>1, <1>2, <1>3, <1>4, <1>5

LEMMA RotateStep ==
  ASSUME IInv, NEW r \in Requests, NEW n \in Tokens, UseAndRotate(r, n)
  PROVE  TokenInv'
<1> USE SessionsAssumption
    DEF IInv, TypeOK, UseAndRotate, At, Goto, Create, Fresh, dbVars, tokenVars,
        inputVars, TokenInv, Spending, Making
<1>1. ReadsNotNewer'
  BY DEF ReadsNotNewer, IsRevokedOrExpired
<1>2. NewTokensPrivate'
  BY DEF NewTokensPrivate, StoredIdentified, NewToken, StepsMatchOps,
         ReadsNotNewer, Identities
<1>3. StoredIdentified'
  BY DEF StoredIdentified
<1>4. WritesHeld'
  <2>1. \A q \in Requests \ {r} : OldDraft(q)' = OldDraft(q)
    BY DEF OldDraft, Entity
  <2>2. QED
    BY <2>1 DEF WritesHeld, OldRowHeld, NewRowHeld
<1>5. HoldersWrite'
  BY DEF HoldersWrite
<1>6. QED
  BY <1>1, <1>2, <1>3, <1>4, <1>5

LEMMA RevokeStep ==
  ASSUME IInv, NEW r \in Requests, Revoke(r)
  PROVE  TokenInv'
<1> USE SessionsAssumption
    DEF IInv, TypeOK, Revoke, At, Goto, dbVars, tokenVars,
        inputVars, TokenInv, Spending, Making
<1>1. ReadsNotNewer'
  BY DEF ReadsNotNewer, IsRevokedOrExpired
<1>2. NewTokensPrivate'
  BY DEF NewTokensPrivate
<1>3. StoredIdentified'
  BY DEF StoredIdentified
<1>4. WritesHeld'
  <2>1. \A q \in Requests \ {r} : OldDraft(q)' = OldDraft(q)
    BY DEF OldDraft, Entity
  <2>2. QED
    BY <2>1 DEF WritesHeld, OldRowHeld, NewRowHeld
<1>5. HoldersWrite'
  BY DEF HoldersWrite
<1>6. QED
  BY <1>1, <1>2, <1>3, <1>4, <1>5

LEMMA SaveUserStep ==
  ASSUME IInv, NEW r \in Requests, SaveUser(r)
  PROVE  TokenInv'
<1> USE SessionsAssumption
    DEF IInv, TypeOK, SaveUser, At, Goto, tokenVars, inputVars, TokenInv,
        Spending, Making, StepsMatchOps
<1>1. ReadsNotNewer'
  BY DEF ReadsNotNewer
<1>2. NewTokensPrivate'
  BY DEF NewTokensPrivate
<1>3. StoredIdentified'
  BY DEF StoredIdentified
<1>4. WritesHeld'
  <2>1. \A q \in Requests : OldDraft(q)' = OldDraft(q)
    BY DEF OldDraft, Entity
  <2>2. QED
    BY <2>1 DEF WritesHeld, OldRowHeld, NewRowHeld
<1>5. HoldersWrite'
  BY DEF HoldersWrite
<1>6. QED
  BY <1>1, <1>2, <1>3, <1>4, <1>5

(* A save that finds its version finds the row that was loaded.            *)
LEMMA SaveTokenStep ==
  ASSUME IInv, NEW r \in Requests, SaveToken(r)
  PROVE  TokenInv'
<1> USE SessionsAssumption
    DEF IInv, TypeOK, SaveToken, At, Goto, AfterSave, T!Update, T!Write,
        inputVars,
        TokenInv, Spending, Making, StepsMatchOps
<1>1. ReadsNotNewer'
  BY DEF ReadsNotNewer
<1>2. NewTokensPrivate'
  BY DEF NewTokensPrivate
<1>3. StoredIdentified'
  BY DEF StoredIdentified
<1>4. WritesHeld'
  <2>1. \A q \in Requests : OldDraft(q)' = OldDraft(q)
    BY DEF OldDraft, Entity
  <2>2. /\ presented[r] \in Tokens
        /\ tokenHolder[presented[r]] = NoRequest
        /\ tokenTable[presented[r]] = loaded[r]
    <3>1. /\ presented[r] \in Tokens /\ loaded[r] \in TokenRows
          /\ tokenTable[presented[r]] \in TokenRows
          /\ \/ loaded[r] = tokenTable[presented[r]]
             \/ loaded[r].version < tokenTable[presented[r]].version
      BY DEF ReadsNotNewer
    <3>2. tokenHolder[presented[r]] = NoRequest
      BY <3>1 DEF HoldersWrite, T!Unlocked
    <3>3. tokenTable[presented[r]].version = loaded[r].version
      BY <3>2 DEF T!Matches, T!Visible
    <3>4. QED
      BY <3>1, <3>2, <3>3 DEF TokenRows
  <2>3. OldRowHeld(r)'
    BY <2>1, <2>2 DEF OldRowHeld, OldDraft
  <2>4. \A q \in Requests \ {r} : OldRowHeld(q)'
    <3>1. \A q \in Requests \ {r} :
            op[q] # "login" /\ pc[q] \in {"insert", "commit"} =>
              presented[q] \in Tokens
      BY DEF ReadsNotNewer, Ops
    <3>2. QED
      BY <2>1, <2>2, <3>1 DEF WritesHeld, OldRowHeld
  <2>5. \A q \in Requests : NewRowHeld(q)'
    <3>1. \A q \in Requests :
            op[q] # "revoke" /\ pc[q] = "commit" => created[q] \in Tokens
      BY DEF NewTokensPrivate, Ops
    <3>2. NewRowHeld(r)'
      BY DEF NewRowHeld, Ops
    <3>3. ASSUME NEW q \in Requests \ {r} PROVE NewRowHeld(q)'
      BY <2>2, <3>1 DEF WritesHeld, NewRowHeld
    <3>4. QED
      BY <3>2, <3>3
  <2>6. QED
    BY <2>3, <2>4, <2>5 DEF WritesHeld
<1>5. HoldersWrite'
  BY DEF HoldersWrite, T!Unlocked
<1>6. QED
  BY <1>1, <1>2, <1>3, <1>4, <1>5

LEMMA InsertStep ==
  ASSUME IInv, NEW r \in Requests, InsertNew(r)
  PROVE  TokenInv'
<1> USE SessionsAssumption
    DEF IInv, TypeOK, InsertNew, At, Goto, T!Insert, T!Write, inputVars,
        TokenInv, Spending, Making, StepsMatchOps
<1>1. ReadsNotNewer'
  BY DEF ReadsNotNewer
<1>2. NewTokensPrivate'
  BY DEF NewTokensPrivate
<1>3. StoredIdentified'
  BY DEF StoredIdentified
<1>4. WritesHeld'
  <2>1. \A q \in Requests : OldDraft(q)' = OldDraft(q)
    BY DEF OldDraft, Entity
  <2>2. created[r] \in Tokens /\ tokenTable[created[r]] = NoRow
    BY DEF NewTokensPrivate, Ops
  <2>3. tokenHolder[created[r]] = NoRequest
    <3>1. tokenHolder[created[r]] # r
      BY <2>2 DEF HoldersWrite, ReadsNotNewer
    <3>2. QED
      BY <2>2, <3>1 DEF T!Unlocked
  <2>4. NewRowHeld(r)'
    BY <2>2 DEF NewRowHeld, NewDraft
  <2>5. \A q \in Requests : OldRowHeld(q)'
    <3>1. \A q \in Requests :
            op[q] # "login" /\ pc[q] \in {"insert", "commit"} =>
              /\ presented[q] \in Tokens
              /\ presented[q] # created[r]
      BY <2>2 DEF ReadsNotNewer, Ops
    <3>2. QED
      BY <2>1, <2>2, <3>1 DEF WritesHeld, OldRowHeld
  <2>6. \A q \in Requests \ {r} : NewRowHeld(q)'
    <3>1. \A q \in Requests :
            op[q] # "revoke" /\ pc[q] = "commit" => created[q] \in Tokens
      BY DEF NewTokensPrivate, Ops
    <3>2. QED
      BY <2>2, <2>3, <3>1 DEF WritesHeld, NewRowHeld
  <2>7. QED
    BY <2>4, <2>5, <2>6 DEF WritesHeld
<1>5. HoldersWrite'
  BY DEF HoldersWrite, T!Unlocked
<1>6. QED
  BY <1>1, <1>2, <1>3, <1>4, <1>5

LEMMA CrashStep ==
  ASSUME IInv, Crash
  PROVE  TokenInv'
<1> USE SessionsAssumption
    DEF IInv, TypeOK, Crash, Forget, T!RollbackAll, TokenInv, Spending, Making
<1>1. ReadsNotNewer'
  BY DEF ReadsNotNewer
<1>2. NewTokensPrivate'
  BY DEF NewTokensPrivate
<1>3. StoredIdentified'
  BY DEF StoredIdentified
<1>4. WritesHeld'
  BY DEF WritesHeld, OldRowHeld, NewRowHeld
<1>5. HoldersWrite'
  BY DEF HoldersWrite
<1>6. QED
  BY <1>1, <1>2, <1>3, <1>4, <1>5

LEMMA QuietStep ==
  ASSUME IInv, Tick \/ UNCHANGED vars
  PROVE  TokenInv'
<1>1. UNCHANGED <<tokenVars, identity, pc, op, presented, loaded, created>>
  BY DEF Tick, vars, dbVars, tokenVars, requestVars, inputVars
<1>2. QED
  BY <1>1
  DEF IInv, TokenInv, ReadsNotNewer, NewTokensPrivate, StoredIdentified,
      WritesHeld, OldRowHeld, NewRowHeld, OldDraft, HoldersWrite, Spending,
      Making, Entity, tokenVars

-----------------------------------------------------------------------------
(* The invariant                                                           *)

LEMMA TokenStep == IInv /\ [Next]_vars => TokenInv'
<1> SUFFICES ASSUME IInv, [Next]_vars PROVE TokenInv'
  OBVIOUS
<1>1. TypeOK /\ TypeOK' /\ TokenInv
  BY TypeStep DEF IInv, TokenInv
<1>2. ASSUME NEW r \in Requests, Leaves(r) PROVE TokenInv'
  BY <1>1, <1>2, LeavesStep
<1>3. ASSUME NEW r \in Requests, Commits(r) PROVE TokenInv'
  BY <1>1, <1>3, CommitsStep
<1>4. ASSUME NEW r \in Requests, LoginNotFound(r) PROVE Leaves(r)
  BY <1>4, SessionsAssumption DEF IInv, TypeOK, HoldersWrite, Leaves,
      OthersAlone, LoginNotFound, Answer, Goto, At, dbVars, userVars, tokenVars
<1>5. ASSUME NEW r \in Requests, NEW u \in Users, LoginSelect(r, u)
      PROVE  Leaves(r)
  BY <1>5, SessionsAssumption DEF IInv, TypeOK, HoldersWrite, Leaves,
      OthersAlone, LoginSelect, Goto, At, U!Visible, dbVars, userVars,
      tokenVars
<1>6. ASSUME NEW r \in Requests, LoginRefused(r) PROVE Leaves(r)
  BY <1>6, SessionsAssumption DEF IInv, TypeOK, HoldersWrite, Leaves,
      OthersAlone, LoginRefused, Answer, Goto, At, Rollback, U!Rollback,
      U!Release, T!Rollback, T!Release
<1>7. ASSUME NEW r \in Requests, SaveUserConflict(r) PROVE Leaves(r)
  BY <1>7, SessionsAssumption DEF IInv, TypeOK, HoldersWrite, Leaves,
      OthersAlone, SaveUserConflict, U!Conflict, U!tableVars, Answer, Goto, At,
      tokenVars
<1>8. ASSUME NEW r \in Requests, NEW o \in {"refresh", "revoke"}, NEW t,
             TokenNotFound(r, o, t)
      PROVE  Leaves(r)
  BY <1>8, SessionsAssumption DEF IInv, TypeOK, HoldersWrite, Leaves,
      OthersAlone, TokenNotFound, Answer, Goto, At, dbVars, userVars, tokenVars
<1>9. ASSUME NEW r \in Requests, UseReplaced(r) PROVE Leaves(r)
  BY <1>9, SessionsAssumption DEF IInv, TypeOK, HoldersWrite, Leaves,
      OthersAlone, UseReplaced, Goto, At, Rollback, U!Rollback, U!Release,
      T!Rollback, T!Release, inputVars
<1>10. ASSUME NEW r \in Requests, UseInvalid(r) PROVE Leaves(r)
  BY <1>10, SessionsAssumption DEF IInv, TypeOK, HoldersWrite, Leaves,
      OthersAlone, UseInvalid, Answer, Goto, At, Rollback, U!Rollback,
      U!Release,
      T!Rollback, T!Release
<1>11. ASSUME NEW r \in Requests, SaveTokenConflict(r) PROVE Leaves(r)
  BY <1>11, SessionsAssumption DEF IInv, TypeOK, HoldersWrite, Leaves,
      OthersAlone, SaveTokenConflict, T!Conflict, T!tableVars, Answer, Goto,
      At,
      userVars
<1>12. ASSUME NEW r \in Requests, ReuseSelect(r) PROVE Leaves(r)
  BY <1>12, SessionsAssumption DEF IInv, TypeOK, HoldersWrite, Leaves,
      OthersAlone, ReuseSelect, Event, Goto, At, dbVars, userVars, tokenVars,
      inputVars
<1>13. ASSUME NEW r \in Requests, DbFailure(r) PROVE Leaves(r)
  BY <1>13, SessionsAssumption DEF IInv, TypeOK, HoldersWrite, Leaves,
      OthersAlone, DbFailure, Answer, Goto, At, Rollback, U!Rollback,
      U!Release,
      T!Rollback, T!Release
<1>14. ASSUME NEW r \in Requests, PushNext(r) PROVE Leaves(r)
  BY <1>14, SessionsAssumption DEF IInv, TypeOK, HoldersWrite, Leaves,
      OthersAlone, PushNext, Pushed, At, dbVars, userVars, tokenVars, inputVars
<1>15. ASSUME NEW r \in Requests, PushFails(r) PROVE Leaves(r)
  BY <1>15, SessionsAssumption DEF IInv, TypeOK, HoldersWrite, Leaves,
      OthersAlone, PushFails, Pushed, Answer, Goto, At, dbVars, userVars,
      tokenVars
<1>16. ASSUME NEW r \in Requests, Published(r) PROVE Leaves(r)
  BY <1>16, SessionsAssumption DEF IInv, TypeOK, HoldersWrite, Leaves,
      OthersAlone, Published, Answer, Goto, At, dbVars, userVars, tokenVars
<1>17. ASSUME NEW r \in Requests, Respond(r) PROVE Leaves(r)
  BY <1>17, SessionsAssumption DEF IInv, TypeOK, HoldersWrite, Leaves,
      OthersAlone, Respond, Forget, At, dbVars, userVars, tokenVars
<1>18. ASSUME NEW r \in Requests, ResponseLost(r) PROVE Leaves(r)
  BY <1>18, SessionsAssumption DEF IInv, TypeOK, HoldersWrite, Leaves,
      OthersAlone, ResponseLost, Forget, At, dbVars, userVars, tokenVars
<1>19. ASSUME NEW r \in Requests, CommitRefresh(r) PROVE Commits(r)
  BY <1>19 DEF IInv, TypeOK, Commits, OthersAlone, CommitRefresh, Answer,
      Goto, At, Commit
<1>20. ASSUME NEW r \in Requests, CommitAndPublish(r) PROVE Commits(r)
  BY <1>20 DEF IInv, TypeOK, Commits, OthersAlone, CommitAndPublish, Goto, At,
      Commit, inputVars
<1>21. ASSUME NEW r \in Requests, CommitUnacknowledged(r) PROVE Commits(r)
  BY <1>21 DEF IInv, TypeOK, Commits, OthersAlone, CommitUnacknowledged,
      Answer, Goto, At, Commit
<1>22. ASSUME NEW r \in Requests, Arrives(r) PROVE TokenInv'
  <2>1. delivered \subseteq Tokens
    BY DEF IInv, TypeOK
  <2>2. QED
    BY <1>22, <2>1, <1>2, <1>4, <1>5, <1>8, SelectStep DEF Arrives
<1>23. ASSUME NEW r \in Requests, Proceeds(r) PROVE TokenInv'
  BY <1>23, <1>2, <1>3, <1>6, LoginCreateStep, RotateStep, <1>9, <1>10,
      RevokeStep, <1>7, <1>11, InsertStep, <1>12, <1>19, <1>20, <1>14, <1>16,
      <1>17, <1>18 DEF Proceeds
<1>24. ASSUME NEW r \in Requests, Saves(r) PROVE TokenInv'
  BY <1>24, <1>2, SaveUserStep, <1>7, SaveTokenStep, <1>11 DEF Saves
<1>25. ASSUME NEW r \in Requests, Fails(r) PROVE TokenInv'
  BY <1>25, <1>2, <1>3, <1>21, <1>13, <1>15 DEF Fails
<1>26. QED
  BY <1>22, <1>23, <1>24, <1>25, CrashStep, QuietStep DEF Next

LEMMA OpsStep == IInv /\ [Next]_vars => StepsMatchOps'
<1> SUFFICES ASSUME IInv, [Next]_vars PROVE StepsMatchOps'
  OBVIOUS
<1> USE SessionsAssumption DEF IInv, TypeOK, StepsMatchOps
<1>1. ASSUME NEW r \in Requests, LoginNotFound(r) PROVE StepsMatchOps'
  BY <1>1 DEF LoginNotFound, Answer, Goto, At
<1>2. ASSUME NEW r \in Requests, NEW u \in Users, LoginSelect(r, u)
      PROVE  StepsMatchOps'
  BY <1>2 DEF LoginSelect, Goto, At
<1>3. ASSUME NEW r \in Requests, LoginRefused(r) PROVE StepsMatchOps'
  BY <1>3 DEF LoginRefused, Answer, Goto, At
<1>4. ASSUME NEW r \in Requests, NEW n \in Tokens, LoginCreate(r, n)
      PROVE  StepsMatchOps'
  BY <1>4 DEF LoginCreate, Create, Goto, At, inputVars
<1>5. ASSUME NEW r \in Requests, SaveUser(r) PROVE StepsMatchOps'
  BY <1>5 DEF SaveUser, Goto, At, inputVars
<1>6. ASSUME NEW r \in Requests, SaveUserConflict(r) PROVE StepsMatchOps'
  BY <1>6 DEF SaveUserConflict, Answer, Goto, At
<1>7. ASSUME NEW r \in Requests, InsertNew(r) PROVE StepsMatchOps'
  BY <1>7 DEF InsertNew, Goto, At, inputVars
<1>8. ASSUME NEW r \in Requests, NEW o \in {"refresh", "revoke"}, NEW t,
             TokenNotFound(r, o, t)
      PROVE  StepsMatchOps'
  BY <1>8 DEF TokenNotFound, Answer, Goto, At
<1>9. ASSUME NEW r \in Requests, NEW o \in {"refresh", "revoke"},
             NEW t \in Tokens, TokenSelect(r, o, t)
      PROVE  StepsMatchOps'
  BY <1>9 DEF TokenSelect, Goto, At
<1>10. ASSUME NEW r \in Requests, UseReplaced(r) PROVE StepsMatchOps'
  BY <1>10 DEF UseReplaced, Goto, At, inputVars, ReadsNotNewer, Spending
<1>11. ASSUME NEW r \in Requests, UseInvalid(r) PROVE StepsMatchOps'
  BY <1>11 DEF UseInvalid, Answer, Goto, At
<1>12. ASSUME NEW r \in Requests, NEW n \in Tokens, UseAndRotate(r, n)
       PROVE  StepsMatchOps'
  BY <1>12 DEF UseAndRotate, Create, Goto, At, inputVars
<1>13. ASSUME NEW r \in Requests, Revoke(r) PROVE StepsMatchOps'
  BY <1>13 DEF Revoke, Goto, At, inputVars
<1>14. ASSUME NEW r \in Requests, SaveToken(r) PROVE StepsMatchOps'
  BY <1>14 DEF SaveToken, AfterSave, Goto, At, inputVars, Ops
<1>15. ASSUME NEW r \in Requests, SaveTokenConflict(r) PROVE StepsMatchOps'
  BY <1>15 DEF SaveTokenConflict, Answer, Goto, At
<1>16. ASSUME NEW r \in Requests, ReuseSelect(r) PROVE StepsMatchOps'
  BY <1>16 DEF ReuseSelect, Goto, At, inputVars
<1>17. ASSUME NEW r \in Requests, CommitRefresh(r) PROVE StepsMatchOps'
  BY <1>17 DEF CommitRefresh, Answer, Goto, At
<1>18. ASSUME NEW r \in Requests, CommitAndPublish(r) PROVE StepsMatchOps'
  BY <1>18 DEF CommitAndPublish, Goto, At, inputVars
<1>19. ASSUME NEW r \in Requests, CommitUnacknowledged(r) PROVE StepsMatchOps'
  BY <1>19 DEF CommitUnacknowledged, Answer, Goto, At
<1>20. ASSUME NEW r \in Requests, DbFailure(r) PROVE StepsMatchOps'
  BY <1>20 DEF DbFailure, Answer, Goto, At
<1>21. ASSUME NEW r \in Requests, PushNext(r) PROVE StepsMatchOps'
  BY <1>21 DEF PushNext, At, inputVars
<1>22. ASSUME NEW r \in Requests, PushFails(r) PROVE StepsMatchOps'
  BY <1>22 DEF PushFails, Answer, Goto, At
<1>23. ASSUME NEW r \in Requests, Published(r) PROVE StepsMatchOps'
  BY <1>23 DEF Published, Answer, Goto, At
<1>24. ASSUME NEW r \in Requests, Respond(r) PROVE StepsMatchOps'
  BY <1>24 DEF Respond, Forget, At
<1>25. ASSUME NEW r \in Requests, ResponseLost(r) PROVE StepsMatchOps'
  BY <1>25 DEF ResponseLost, Forget, At
<1>26. ASSUME Crash PROVE StepsMatchOps'
  BY <1>26 DEF Crash, Forget
<1>27. ASSUME Tick PROVE StepsMatchOps'
  BY <1>27 DEF Tick, requestVars, inputVars
<1>28. CASE UNCHANGED vars
  BY <1>28 DEF vars, requestVars, inputVars
<1>29. QED
  BY <1>1, <1>2, <1>3, <1>4, <1>5, <1>6, <1>7, <1>8, <1>9, <1>10, <1>11,
      <1>12, <1>13, <1>14, <1>15, <1>16, <1>17, <1>18, <1>19, <1>20, <1>21,
      <1>22,
      <1>23, <1>24, <1>25, <1>26, <1>27, <1>28 DEF Next, Arrives, Proceeds,
                                                   Saves,
      Fails

LEMMA UserStep == IInv /\ [Next]_vars => UserDraftsRows'
<1> SUFFICES ASSUME IInv, [Next]_vars PROVE UserDraftsRows'
  OBVIOUS
<1> USE SessionsAssumption DEF IInv, TypeOK, UserDraftsRows
<1>1. ASSUME UNCHANGED userVars PROVE UserDraftsRows'
  BY <1>1 DEF userVars
<1>2. ASSUME NEW r \in Requests, U!Release(r) PROVE UserDraftsRows'
  BY <1>2 DEF U!Release
<1>3. ASSUME NEW r \in Requests, SaveUser(r) PROVE UserDraftsRows'
  BY <1>3 DEF SaveUser, U!Update, U!Write, UserRows
<1>4. CASE Crash
  BY <1>4 DEF Crash, U!RollbackAll
<1>5. ASSUME NEW r \in Requests, ~SaveUser(r),
             Arrives(r) \/ Proceeds(r) \/ Saves(r) \/ Fails(r)
      PROVE  UNCHANGED userVars \/ U!Release(r)
  BY <1>5 DEF Arrives, Proceeds, Saves, Fails, LoginNotFound, LoginSelect,
      LoginRefused, LoginCreate, SaveUserConflict, InsertNew, TokenNotFound,
      TokenSelect, UseReplaced, UseInvalid, UseAndRotate, Revoke, SaveToken,
      SaveTokenConflict, ReuseSelect, CommitRefresh, CommitAndPublish,
      CommitUnacknowledged, DbFailure, PushNext, PushFails, Published, Respond,
      ResponseLost, dbVars, Rollback, Commit, U!Rollback, U!Commit, U!Conflict,
      U!tableVars, userVars
<1>6. QED
  BY <1>1, <1>2, <1>3, <1>4, <1>5 DEF Next, Tick, vars, dbVars

LEMMA InitInvariant == Init => IInv
<1> SUFFICES ASSUME Init PROVE IInv
  OBVIOUS
<1> USE SessionsAssumption DEF Init, U!TableInit, T!TableInit
<1>1. TypeOK
  BY DEF TypeOK, UserRows, Steps, Ops, Outcomes
<1>2. StepsMatchOps
  BY DEF StepsMatchOps
<1>3. ReadsNotNewer /\ NewTokensPrivate /\ StoredIdentified
  BY DEF ReadsNotNewer, NewTokensPrivate, StoredIdentified, Spending, Making
<1>4. WritesHeld /\ HoldersWrite
  BY DEF WritesHeld, OldRowHeld, NewRowHeld, HoldersWrite
<1>5. UserDraftsRows
  BY DEF UserDraftsRows
<1>6. QED
  BY <1>1, <1>2, <1>3, <1>4, <1>5 DEF IInv

THEOREM Invariant == Spec => []IInv
<1>1. IInv /\ [Next]_vars => IInv'
  BY TypeStep, TokenStep, OpsStep, UserStep DEF IInv, TokenInv
<1>2. QED
  BY InitInvariant, <1>1, PTL DEF Spec

(* Every variable of every request, table and log keeps its type.          *)
THEOREM TypeCorrect == Spec => []TypeOK
<1>1. IInv => TypeOK
  BY DEF IInv
<1>2. QED
  BY Invariant, <1>1, PTL

-----------------------------------------------------------------------------
(* The commits                                                             *)

LEMMA CommitEffects ==
  ASSUME IInv, NEW r \in Requests, Commits(r)
  PROVE  CommitEffect(r) /\ UNCHANGED identity
  BY CommitWrites DEF IInv, TokenInv, Commits

(* Nothing but a commit changes what is stored, and what create() has      *)
(* once set stays.                                                         *)
LEMMA OnlyCommitsShow ==
  ASSUME IInv, [Next]_vars
  PROVE  \/ \E r \in Requests : Commits(r)
         \/ /\ UNCHANGED tokenTable
            /\ \A t \in Tokens : tokenTable[t] # NoRow => identity'[t] = identity[t]
<1>1. ASSUME NEW r \in Requests,
             CommitRefresh(r) \/ CommitAndPublish(r) \/ CommitUnacknowledged(r)
      PROVE  Commits(r)
  BY <1>1
  DEF IInv, TypeOK, Commits, OthersAlone, CommitRefresh, CommitAndPublish,
      CommitUnacknowledged, Answer, Goto, At, Commit, inputVars
<1>2. ASSUME NEW r \in Requests, NEW n \in Tokens,
             LoginCreate(r, n) \/ UseAndRotate(r, n)
      PROVE  /\ UNCHANGED tokenTable
             /\ \A t \in Tokens :
                  tokenTable[t] # NoRow => identity'[t] = identity[t]
  BY <1>2
  DEF IInv, TypeOK, StoredIdentified, LoginCreate, UseAndRotate, Create, Fresh,
      dbVars, tokenVars
<1>3. ASSUME NEW r \in Requests,
             \/ Arrives(r) \/ Saves(r)
             \/ LoginRefused(r) \/ UseReplaced(r) \/ UseInvalid(r) \/ Revoke(r)
             \/ InsertNew(r) \/ ReuseSelect(r) \/ PushNext(r) \/ Published(r)
             \/ Respond(r) \/ ResponseLost(r) \/ DbFailure(r) \/ PushFails(r)
      PROVE  UNCHANGED <<tokenTable, identity>>
  BY <1>3
  DEF Arrives, Saves, LoginNotFound, LoginSelect, TokenNotFound, TokenSelect,
      SaveUser, SaveUserConflict, SaveToken, SaveTokenConflict, LoginRefused,
      UseReplaced, UseInvalid, Revoke, InsertNew, ReuseSelect, PushNext,
      Published, Respond, ResponseLost, DbFailure, PushFails, Rollback,
      T!Rollback, T!Insert, T!Update, T!Write, T!Conflict, T!tableVars,
      dbVars, tokenVars
<1>4. ASSUME Crash \/ Tick \/ UNCHANGED vars
      PROVE  UNCHANGED <<tokenTable, identity>>
  BY <1>4 DEF Crash, T!RollbackAll, Tick, vars, dbVars, tokenVars
<1>5. QED
  BY <1>1, <1>2, <1>3, <1>4 DEF Next, Proceeds, Saves, Fails

(* The update and the delete of a revoked row are impossible: whoever has  *)
(* written a row has loaded it unrevoked.                                  *)
THEOREM RevokedFrozen == Spec => RevokedRowsFrozen
<1>1. IInv /\ [Next]_vars =>
        [\A t \in Tokens : Revoked(t) => tokenTable'[t] = tokenTable[t]]_vars
  <2> SUFFICES ASSUME IInv, [Next]_vars, NEW t \in Tokens, Revoked(t)
               PROVE  tokenTable'[t] = tokenTable[t]
    OBVIOUS
  <2>1. CASE UNCHANGED tokenTable
    BY <2>1
  <2>2. ASSUME NEW r \in Requests, Commits(r)
        PROVE  tokenTable'[t] = tokenTable[t]
    BY <2>2, CommitEffects
    DEF CommitEffect, Spent, Made, Revoked, Stored
  <2>3. QED
    BY <2>1, <2>2, OnlyCommitsShow
<1>2. QED
  BY Invariant, <1>1, PTL DEF Spec, RevokedRowsFrozen

-----------------------------------------------------------------------------
(* RefreshSessions implements SessionChains                                *)

(* A link as SessionChains changes it, written out.                        *)
Link(t, revoked, next) ==
  [user |-> identity[t].user, session |-> identity[t].session,
   revoked |-> revoked, next |-> next]

LEMMA LinkFields ==
  ASSUME NEW e \in Links
  PROVE  e = [user |-> e.user, session |-> e.session,
              revoked |-> e.revoked, next |-> e.next]
  BY DEF Links

LEMMA LinkChanges ==
  ASSUME NEW l \in Links, NEW n \in Tokens
  PROVE  /\ Chains!ReplacedBy(l, n) =
              [user |-> l.user, session |-> l.session,
               revoked |-> TRUE, next |-> n]
         /\ [l EXCEPT !.revoked = TRUE] =
              [user |-> l.user, session |-> l.session,
               revoked |-> TRUE, next |-> l.next]
<1>1. Chains!ReplacedBy(l, n) \in Links /\ [l EXCEPT !.revoked = TRUE] \in Links
  BY DEF Links, Chains!ReplacedBy
<1>2. /\ Chains!ReplacedBy(l, n).user = l.user
      /\ Chains!ReplacedBy(l, n).session = l.session
      /\ Chains!ReplacedBy(l, n).revoked = TRUE
      /\ Chains!ReplacedBy(l, n).next = n
  BY DEF Links, Chains!ReplacedBy
<1>3. LET e == [l EXCEPT !.revoked = TRUE]
      IN  e.user = l.user /\ e.session = l.session /\ e.revoked = TRUE
          /\ e.next = l.next
  BY DEF Links
<1>4. QED
  BY <1>1, <1>2, <1>3, LinkFields

LEMMA ViewUnchanged ==
  ASSUME UNCHANGED tokenTable,
         \A t \in Tokens : tokenTable[t] # NoRow => identity'[t] = identity[t]
  PROVE  UNCHANGED ChainView
  BY DEF ChainView, Stored

LEMMA CommitImplements ==
  ASSUME IInv, NEW r \in Requests, Commits(r)
  PROVE  Chains!Next
<1>1. CommitEffect(r) /\ UNCHANGED identity
  BY CommitEffects
<1>2. TypeOK /\ SessionsAssumption
  BY SessionsAssumption DEF IInv
<1>3. NewDraft # NoRow /\ NewDraft.data.revoked = FALSE
      /\ NewDraft.data.replacedBy = NoToken
  BY <1>2, NewDraftType DEF NewDraft, SessionsAssumption
<1>4. ASSUME op[r] # "login"
      PROVE  /\ presented[r] \in Tokens
             /\ ChainView[presented[r]] =
                  Link(presented[r], FALSE, loaded[r].data.replacedBy)
             /\ ChainView'[presented[r]] =
                  Link(presented[r], TRUE, Entity(r).replacedBy)
             /\ ChainView[presented[r]] \in Links
             /\ Chains!Usable(presented[r])
  <2>1. Spent(r)
    BY <1>1, <1>4 DEF CommitEffect
  <2>2. OldDraft(r) # NoRow /\ OldDraft(r).data = Entity(r)
        /\ Entity(r).revoked = TRUE /\ loaded[r] # NoRow
    BY <1>2, <2>1, OldDraftType
    DEF OldDraft, Entity, Spent, SessionsAssumption
  <2>3. identity[presented[r]] \in Identities
    BY <1>2, <2>1, <2>2 DEF IInv, StoredIdentified, Spent, TypeOK
  <2>4. loaded[r].data.revoked = FALSE
    BY <2>1 DEF Spent, TokenRows, TokenData
  <2>5. /\ presented[r] \in Tokens
        /\ ChainView[presented[r]] =
             Link(presented[r], FALSE, loaded[r].data.replacedBy)
        /\ ChainView'[presented[r]] =
             Link(presented[r], TRUE, Entity(r).replacedBy)
    BY <1>1, <2>1, <2>2, <2>4 DEF Spent, ChainView, Stored, Link
  <2>6. Link(presented[r], FALSE, loaded[r].data.replacedBy) \in Links
    BY <2>1, <2>3 DEF Spent, TokenRows, TokenData, Links, Identities, Link
  <2>7. ChainView[presented[r]] # NoRow
    BY <1>2, <2>5, <2>6 DEF SessionsAssumption
  <2>8. ChainView[presented[r]].revoked = FALSE
    BY <2>5 DEF Link
  <2>9. QED
    BY <2>5, <2>6, <2>7, <2>8 DEF Chains!Usable, Chains!Issued
<1>5. ASSUME op[r] # "revoke"
      PROVE  /\ created[r] \in Tokens
             /\ ~Chains!Issued(created[r])
             /\ ChainView'[created[r]] = Link(created[r], FALSE, NoToken)
  BY <1>1, <1>3, <1>5
  DEF CommitEffect, Made, ChainView, Stored, Chains!Issued, Link
<1>6. ASSUME NEW t \in Tokens,
             op[r] = "login" \/ t # presented[r],
             op[r] = "revoke" \/ t # created[r]
      PROVE  ChainView'[t] = ChainView[t]
  BY <1>1, <1>6 DEF CommitEffect, ChainView, Stored
<1>7. /\ ChainView = [t \in Tokens |-> ChainView[t]]
      /\ ChainView' = [t \in Tokens |-> ChainView'[t]]
  BY DEF ChainView
<1>8. CASE op[r] = "login"
  <2>1. /\ Made(r) /\ identity[created[r]].session = created[r]
        /\ identity[created[r]].user \in Users
    BY <1>1, <1>8, <1>2
    DEF CommitEffect, IInv, NewTokensPrivate, Making, Commits, TypeOK,
        Identities
  <2>2. ChainView' = [ChainView EXCEPT
          ![created[r]] = Chains!NewLink(identity[created[r]].user,
          created[r])]
    BY <1>5, <1>6, <1>7, <1>8, <2>1 DEF Chains!NewLink, Link
  <2>3. Chains!Open(identity[created[r]].user, created[r])
    BY <1>5, <1>8, <2>2 DEF Chains!Open
  <2>4. QED
    BY <1>5, <1>8, <2>1, <2>3 DEF Chains!Next
<1>9. CASE op[r] = "refresh"
  <2>1. /\ identity[created[r]].session = identity[presented[r]].session
        /\ identity[created[r]].user = identity[presented[r]].user
        /\ presented[r] # created[r]
    BY <1>1, <1>2, <1>9, <1>4, <1>5
    DEF CommitEffect, IInv, NewTokensPrivate, Making, Commits, Chains!Usable,
        Chains!Issued
  <2>2. Entity(r).replacedBy = created[r]
    BY <1>9 DEF Entity
  <2>3. /\ ChainView'[presented[r]] =
             Chains!ReplacedBy(ChainView[presented[r]], created[r])
        /\ Chains!NewLink(ChainView[presented[r]].user,
                          ChainView[presented[r]].session) =
             Link(presented[r], FALSE, NoToken)
    <3>1. /\ ChainView[presented[r]].user = identity[presented[r]].user
          /\ ChainView[presented[r]].session = identity[presented[r]].session
      BY <1>4, <1>9 DEF Link
    <3>2. QED
      BY <1>4, <1>5, <1>9, <2>2, <3>1, LinkChanges DEF Link, Chains!NewLink
  <2>4. ChainView'[created[r]] = Link(presented[r], FALSE, NoToken)
    BY <1>5, <1>9, <2>1 DEF Link
  <2>5. Chains!Rotate(presented[r], created[r])
    BY <1>4, <1>5, <1>6, <1>7, <1>9, <2>1, <2>3, <2>4 DEF Chains!Rotate
  <2>6. QED
    BY <1>4, <1>5, <1>9, <2>5 DEF Chains!Next
<1>10. CASE op[r] = "revoke"
  <2>1. Entity(r).replacedBy = loaded[r].data.replacedBy
    BY <1>10 DEF Entity
  <2>2. ChainView'[presented[r]] = [ChainView[presented[r]] EXCEPT !.revoked = TRUE]
    <3>1. LET l == ChainView[presented[r]]
          IN  /\ l.user = identity[presented[r]].user
              /\ l.session = identity[presented[r]].session
              /\ l.next = loaded[r].data.replacedBy
      BY <1>4, <1>10 DEF Link
    <3>2. Tokens # {}
      BY <1>4, <1>10
    <3>3. QED
      BY <1>4, <1>10, <2>1, <3>1, <3>2, LinkChanges DEF Link
  <2>3. Chains!End(presented[r])
    BY <1>4, <1>6, <1>7, <1>10, <2>2 DEF Chains!End
  <2>4. QED
    BY <1>4, <1>10, <2>3 DEF Chains!Next
<1>11. QED
  BY <1>2, <1>8, <1>9, <1>10 DEF TypeOK, Ops

(* Whatever the interleaving, the failures and the crashes: the stored     *)
(* tokens change only as SessionChains allows.                             *)
THEOREM Implements == Spec => ImplementsSessionChains
<1>1. Init => Chains!Init
  BY DEF Init, T!TableInit, Chains!Init, ChainView, Stored
<1>2. IInv /\ [Next]_vars => [Chains!Next]_ChainView
  BY OnlyCommitsShow, ViewUnchanged, CommitImplements
<1>3. QED
  BY Invariant, <1>1, <1>2, PTL DEF Spec, ImplementsSessionChains, Chains!Spec
-----------------------------------------------------------------------------
(* What SessionChains promises holds of the stored tokens                  *)

ChainProofs ==
  INSTANCE SessionChainsProofs WITH NoLink <- NoRow, chain <- ChainView

LEMMA StoredIssued ==
  ASSUME IInv, NEW t \in Tokens, Stored(t)
  PROVE  /\ ChainView[t] # NoRow
         /\ ChainView[t].session = identity[t].session
         /\ ChainView[t].next = tokenTable[t].data.replacedBy
<1>1. tokenTable[t] \in TokenRows /\ identity[t] \in Identities
  BY DEF IInv, TypeOK, StoredIdentified, Stored
<1>2. ChainView[t] = Link(t, tokenTable[t].data.revoked,
                          tokenTable[t].data.replacedBy)
  BY DEF ChainView, Link
<1>3. Link(t, tokenTable[t].data.revoked,
tokenTable[t].data.replacedBy) \in Links
  BY <1>1 DEF TokenRows, TokenData, Identities, Links, Link
<1>4. QED
  BY <1>2, <1>3, SessionsAssumption DEF SessionsAssumption, Link

LEMMA ChainConstants == ChainProofs!ChainsAssumption
  BY SessionsAssumption
  DEF SessionsAssumption, ChainProofs!ChainsAssumption, ChainProofs!Links,
      Links

LEMMA FollowsChains == Spec => ChainProofs!Spec
<1>1. Chains!Init => ChainProofs!Init
  BY DEF Chains!Init, ChainProofs!Init
<1>2. [Chains!Next]_ChainView => [ChainProofs!Next]_ChainView
  BY DEF Chains!Next, Chains!Open, Chains!Rotate, Chains!End, Chains!Usable,
         Chains!Issued, Chains!NewLink, Chains!ReplacedBy,
         ChainProofs!Next, ChainProofs!Open, ChainProofs!Rotate,
         ChainProofs!End, ChainProofs!Usable, ChainProofs!Issued,
         ChainProofs!NewLink, ChainProofs!ReplacedBy
<1>3. QED
  BY Implements, <1>1, <1>2, PTL
  DEF ImplementsSessionChains, Chains!Spec, ChainProofs!Spec

(* Two refreshes of one token cannot both succeed: a session never has two *)
(* tokens without a successor.                                             *)
THEOREM SessionsKeepOneTip == Spec => []OneTipPerSession
<1>1. ChainProofs!Spec => []ChainProofs!OneTip
  BY ChainConstants, ChainProofs!SessionsNeverFork
<1>2. IInv /\ ChainProofs!OneTip => OneTipPerSession
  <2> SUFFICES ASSUME IInv, ChainProofs!OneTip, NEW s \in Tokens,
                      NEW t \in Tokens,
                      Stored(s), Stored(t),
                      identity[s].session = identity[t].session,
                      Successor(s) = NoToken, Successor(t) = NoToken
               PROVE  s = t
    BY DEF OneTipPerSession
  <2>1. ASSUME NEW u \in {s, t}
        PROVE  /\ ChainProofs!Issued(u)
               /\ ChainView[u].session = identity[u].session
               /\ ChainView[u].next = Successor(u)
    BY <2>1, StoredIssued DEF Successor, ChainProofs!Issued
  <2>2. QED
    BY <2>1 DEF ChainProofs!OneTip
<1>3. QED
  BY Invariant, FollowsChains, <1>1, <1>2, PTL

(* A session that has been revoked stays so, although rotations that have  *)
(* passed their checks before may still be on their way to the database.   *)
THEOREM StoredSessionsEndForGood == Spec => EndedForGood
<1>1. ChainProofs!Spec => ChainProofs!EndedForGood
  BY ChainConstants, ChainProofs!SessionsEndForGood
<1>2. (\A s \in Tokens : ChainProofs!Ended(s) => ChainProofs!Ended(s)')
        => (\A s \in Tokens : Chains!Ended(s) => Chains!Ended(s)')
  BY DEF ChainProofs!Ended, ChainProofs!Issued, Chains!Ended, Chains!Issued
<1>3. QED
  BY FollowsChains, <1>1, <1>2, PTL
  DEF EndedForGood, Chains!EndedForGood, ChainProofs!EndedForGood
-----------------------------------------------------------------------------
(* What clients hold is stored                                             *)

(* A request that has made a token either still has to commit it or has    *)
(* committed it.                                                           *)
CreatedKept ==
  \A r \in Requests :
    created[r] # NoToken =>
      \/ Making(r)
      \/ pc[r] \in {"publish", "respond"} /\ Stored(created[r])

LEMMA StoredStays ==
  ASSUME IInv, [Next]_vars, NEW t \in Tokens, Stored(t)
  PROVE  Stored(t)'
<1>1. CASE UNCHANGED tokenTable
  BY <1>1 DEF Stored
<1>2. ASSUME NEW r \in Requests, Commits(r) PROVE Stored(t)'
  <2>1. CommitEffect(r)
    BY <1>2, CommitEffects
  <2>2. NewDraft # NoRow
    BY NewDraftType, SessionsAssumption DEF SessionsAssumption
  <2>3. Spent(r) => OldDraft(r) # NoRow
    BY OldDraftType, SessionsAssumption DEF IInv, Spent, SessionsAssumption
  <2>4. QED
    BY <2>1, <2>2, <2>3 DEF CommitEffect, Spent, Made, Stored
<1>3. QED
  BY <1>1, <1>2, OnlyCommitsShow

(* The steps after which the request holds no token.                       *)
Drops(r) ==
  \/ LoginNotFound(r) \/ LoginRefused(r) \/ SaveUserConflict(r)
  \/ \E o \in {"refresh", "revoke"} :
       TokenNotFound(r, o, NoToken) \/ \E t \in Tokens : TokenNotFound(r, o, t)
  \/ UseInvalid(r) \/ SaveTokenConflict(r) \/ CommitUnacknowledged(r)
  \/ DbFailure(r) \/ PushFails(r) \/ Respond(r) \/ ResponseLost(r)

(* The steps that leave the token where it is.                             *)
Keeps(r) ==
  \/ \E u \in Users : LoginSelect(r, u)
  \/ \E o \in {"refresh", "revoke"}, t \in Tokens : TokenSelect(r, o, t)
  \/ SaveUser(r) \/ InsertNew(r) \/ UseReplaced(r) \/ Revoke(r)
  \/ SaveToken(r) \/ ReuseSelect(r) \/ PushNext(r) \/ Published(r)

LEMMA CreatedKeptStep == IInv /\ CreatedKept /\ [Next]_vars => CreatedKept'
<1> SUFFICES ASSUME IInv, CreatedKept, [Next]_vars PROVE CreatedKept'
  OBVIOUS
<1>1. \A t \in Tokens : Stored(t) => Stored(t)'
  BY StoredStays
<1>2. NoToken \notin Tokens /\ created \in [Requests -> Tokens \union {NoToken}]
  BY SessionsAssumption DEF SessionsAssumption, IInv, TypeOK
<1>3. ASSUME NEW r \in Requests, Drops(r) PROVE CreatedKept'
  <2>1. created'[r] = NoToken
    BY <1>3, <1>2
    DEF Drops, LoginNotFound, LoginRefused, SaveUserConflict, TokenNotFound,
        UseInvalid, SaveTokenConflict, CommitUnacknowledged, DbFailure,
        PushFails, Respond, ResponseLost, Answer, Forget, IInv, TypeOK
  <2>2. \A q \in Requests \ {r} :
          created'[q] = created[q] /\ pc'[q] = pc[q] /\ op'[q] = op[q]
    BY <1>3
    DEF Drops, LoginNotFound, LoginRefused, SaveUserConflict, TokenNotFound,
        UseInvalid, SaveTokenConflict, CommitUnacknowledged, DbFailure,
        PushFails, Respond, ResponseLost, Answer, Forget, Goto, IInv, TypeOK
  <2>3. QED
    BY <1>1, <1>2, <2>1, <2>2 DEF CreatedKept, Making
<1>4. ASSUME NEW r \in Requests, Keeps(r) PROVE CreatedKept'
  <2>1. created' = [created EXCEPT ![r] = created'[r]]
        /\ created'[r] \in {created[r], NoToken}
    BY <1>4
    DEF Keeps, LoginSelect, TokenSelect, SaveUser, InsertNew, UseReplaced,
        Revoke, SaveToken, ReuseSelect, PushNext, Published, Answer, IInv,
        TypeOK
  <2>2. \A q \in Requests \ {r} : pc'[q] = pc[q] /\ op'[q] = op[q]
    BY <1>4
    DEF Keeps, LoginSelect, TokenSelect, SaveUser, InsertNew, UseReplaced,
        Revoke, SaveToken, ReuseSelect, PushNext, Published, Answer, Goto,
        inputVars, IInv, TypeOK
  <2>3. ASSUME created[r] # NoToken
        PROVE  \/ Making(r) /\ Making(r)'
               \/ /\ pc[r] \in {"publish", "respond"} /\ Stored(created[r])
                  /\ pc'[r] \in {"publish", "respond"}
    BY <1>4, <2>3
    DEF CreatedKept, Making, Keeps, LoginSelect, TokenSelect, SaveUser,
        InsertNew, UseReplaced, Revoke, SaveToken, ReuseSelect, PushNext,
        Published, Answer, Goto, At, AfterSave, inputVars, IInv, TypeOK,
        StepsMatchOps, Ops
  <2>4. QED
    BY <1>1, <1>2, <2>1, <2>2, <2>3 DEF CreatedKept, Making
<1>5. ASSUME NEW r \in Requests, NEW n \in Tokens,
             LoginCreate(r, n) \/ UseAndRotate(r, n)
      PROVE  CreatedKept'
  <2>1. /\ \A q \in Requests \ {r} :
             created'[q] = created[q] /\ pc'[q] = pc[q] /\ op'[q] = op[q]
        /\ Making(r)'
        /\ UNCHANGED tokenTable
    BY <1>5
    DEF LoginCreate, UseAndRotate, Create, Goto, At, Making, inputVars, IInv,
        TypeOK, StepsMatchOps, dbVars, tokenVars
  <2> SUFFICES ASSUME NEW q \in Requests, created'[q] # NoToken
               PROVE  \/ Making(q)'
                      \/ /\ pc'[q] \in {"publish", "respond"}
                         /\ Stored(created[q])'
    BY DEF CreatedKept, Making, Stored
  <2>2. CASE q = r
    BY <2>1, <2>2 DEF Making
  <2>3. CASE q # r
    BY <2>1, <2>3 DEF CreatedKept, Making, Stored
  <2>4. QED
    BY <2>2, <2>3
<1>6. ASSUME NEW r \in Requests, CommitRefresh(r) \/ CommitAndPublish(r)
      PROVE  CreatedKept'
  <2>1. /\ created' = created
        /\ \A q \in Requests \ {r} : pc'[q] = pc[q]
        /\ op' = op /\ pc'[r] \in {"publish", "respond"}
        /\ Commits(r)
    BY <1>6
    DEF CommitRefresh, CommitAndPublish, Answer, Goto, At, inputVars, IInv,
        TypeOK, Commits, OthersAlone, Commit
  <2>2. created[r] # NoToken => Stored(created[r])'
    <3>1. NewDraft # NoRow
      BY NewDraftType, SessionsAssumption DEF SessionsAssumption
    <3>2. created[r] # NoToken => op[r] # "revoke"
      BY <2>1 DEF CreatedKept, Making, Commits
    <3>3. QED
      BY <2>1, <3>1, <3>2, CommitEffects DEF CommitEffect, Made, Stored
  <2>3. QED
    BY <1>1, <1>2, <2>1, <2>2 DEF CreatedKept, Making
<1>7. ASSUME Crash PROVE CreatedKept'
  BY <1>7 DEF Crash, Forget, CreatedKept
<1>8. ASSUME Tick \/ UNCHANGED vars PROVE CreatedKept'
  BY <1>8 DEF Tick, vars, dbVars, tokenVars, requestVars, inputVars,
              CreatedKept,
              Making, Stored
<1>9. delivered \subseteq Tokens
  BY DEF IInv, TypeOK
<1>10. QED
  BY <1>3, <1>4, <1>5, <1>6, <1>7, <1>8, <1>9
  DEF Next, Arrives, Proceeds, Saves, Fails, Drops, Keeps

(* A client never holds a token the database does not know.                *)
THEOREM ClientTokensStored == Spec => []DeliveredPersisted
<1> DEFINE Kept == CreatedKept /\ DeliveredPersisted
<1>1. Init => Kept
  BY DEF Init, CreatedKept, DeliveredPersisted
<1>2. IInv /\ Kept /\ [Next]_vars => Kept'
  <2> SUFFICES ASSUME IInv, Kept, [Next]_vars PROVE Kept'
    OBVIOUS
  <2>1. CreatedKept'
    BY CreatedKeptStep
  <2>2. \A t \in delivered' : \/ t \in delivered
                              \/ t \in Tokens /\ Stored(t)
    <3>1. ASSUME NEW r \in Requests, Respond(r)
          PROVE  delivered' = delivered
                 \/ /\ delivered' = delivered \union {created[r]}
                    /\ created[r] \in Tokens /\ Stored(created[r])
      BY <3>1 DEF Respond, At, CreatedKept, Making, IInv, TypeOK
    <3>2. ASSUME ~\E r \in Requests : Respond(r)
          PROVE  delivered' = delivered
      BY <3>2
      DEF Next, Arrives, Proceeds, Saves, Fails, LoginNotFound, LoginSelect,
          TokenNotFound, TokenSelect, LoginRefused, LoginCreate, UseAndRotate,
          UseReplaced, UseInvalid, Revoke, SaveUser, SaveUserConflict,
          SaveToken, SaveTokenConflict, InsertNew, ReuseSelect, CommitRefresh,
          CommitAndPublish, CommitUnacknowledged, DbFailure, PushNext,
          PushFails, Published, ResponseLost, Crash, Tick, vars
    <3>3. QED
      BY <3>1, <3>2
  <2>3. delivered \subseteq Tokens
    BY DEF IInv, TypeOK
  <2>4. QED
    BY <2>1, <2>2, <2>3, StoredStays DEF DeliveredPersisted
<1>3. QED
  BY Invariant, <1>1, <1>2, PTL DEF Spec

-----------------------------------------------------------------------------
(* Rotations and refusals                                                  *)

(* A rotation is decided on while the predecessor is alive.                *)
NewTokensInTime ==
  \A r \in Requests :
    Making(r) /\ op[r] = "refresh" =>
      identity[created[r]].expires <= identity[presented[r]].expires + Lifetime

(* The second version of a row is its revocation.                          *)
UpdatesRevoke ==
  \A t \in Tokens :
    Stored(t) /\ tokenTable[t].version > 1 => tokenTable[t].data.revoked

HasSuccessor(t) == Stored(t) /\ Successor(t) # NoToken

(* What a request has seen of a spent token is final.                      *)
SeenFinal(r) ==
  /\ At(r, "idle") \/ op[r] = "login" => presented[r] = NoToken
  /\ presented[r] # NoToken => Stored(presented[r])
  /\ At(r, "use") /\ (loaded[r].data.revoked \/ IsReplaced(r)) =>
       loaded[r] = tokenTable[presented[r]]
  /\ At(r, "reuse") \/ (At(r, "publish") /\ op[r] = "refresh") =>
       presented[r] # NoToken /\ HasSuccessor(presented[r])
RefusalTrue(r) ==
  At(r, "respond") /\ presented[r] # NoToken =>
    LET t == presented[r] IN
    /\ outcome[r] = "ConcurrencyError" => Revoked(t)
    /\ outcome[r] = "RefreshTokenReuse" => HasSuccessor(t)
    /\ outcome[r] = "TokenError" => Revoked(t) \/ now > identity[t].expires
RefusalsTrue == \A r \in Requests : SeenFinal(r) /\ RefusalTrue(r)

-----------------------------------------------------------------------------
(* What every step leaves alone                                            *)

Acts(r) == Arrives(r) \/ Proceeds(r) \/ Saves(r) \/ Fails(r)

Untouched(q) ==
  /\ pc'[q] = pc[q] /\ op'[q] = op[q] /\ presented'[q] = presented[q]
  /\ loaded'[q] = loaded[q] /\ created'[q] = created[q]
  /\ todo'[q] = todo[q] /\ outcome'[q] = outcome[q]

LEMMA OnlyOneActs ==
  ASSUME TypeOK, NEW r \in Requests, Acts(r), NEW q \in Requests \ {r}
  PROVE  Untouched(q)
<1> USE DEF TypeOK, Untouched
<1>1. ASSUME Arrives(r) PROVE Untouched(q)
  BY <1>1
  DEF Arrives, LoginNotFound, LoginSelect, TokenNotFound, TokenSelect, Answer,
      Goto
<1>2. ASSUME NEW n \in Tokens, LoginCreate(r, n) \/ UseAndRotate(r, n)
      PROVE  Untouched(q)
  BY <1>2 DEF LoginCreate, UseAndRotate, Create, Goto, inputVars
<1>3. ASSUME \/ LoginRefused(r) \/ UseInvalid(r) \/ SaveUserConflict(r)
             \/ SaveTokenConflict(r) \/ CommitRefresh(r) \/ Published(r)
             \/ CommitUnacknowledged(r) \/ DbFailure(r) \/ PushFails(r)
      PROVE  Untouched(q)
  BY <1>3
  DEF LoginRefused, UseInvalid, SaveUserConflict, SaveTokenConflict,
      CommitRefresh, Published, CommitUnacknowledged, DbFailure, PushFails,
      Answer, Goto
<1>4. ASSUME \/ UseReplaced(r) \/ Revoke(r) \/ InsertNew(r) \/ ReuseSelect(r)
             \/ CommitAndPublish(r) \/ PushNext(r) \/ SaveUser(r)
             \/ SaveToken(r)
      PROVE  Untouched(q)
  BY <1>4
  DEF UseReplaced, Revoke, InsertNew, ReuseSelect, CommitAndPublish, PushNext,
      SaveUser, SaveToken, Goto, inputVars
<1>5. ASSUME Respond(r) \/ ResponseLost(r) PROVE Untouched(q)
  BY <1>5 DEF Respond, ResponseLost, Forget
<1>6. QED
  BY <1>1, <1>2, <1>3, <1>4, <1>5, Zenon DEF Acts, Proceeds, Saves, Fails

LEMMA IdentityStays ==
  ASSUME IInv, [Next]_vars
  PROVE  \A t \in Tokens : identity[t] # NoRow => identity'[t] = identity[t]
<1>1. ASSUME NEW r \in Requests, NEW n \in Tokens,
             LoginCreate(r, n) \/ UseAndRotate(r, n)
      PROVE  \A t \in Tokens : identity[t] # NoRow => identity'[t] = identity[t]
  BY <1>1 DEF IInv, TypeOK, LoginCreate, UseAndRotate, Create, Fresh
<1>2. ASSUME ~\E r \in Requests, n \in Tokens :
                LoginCreate(r, n) \/ UseAndRotate(r, n)
      PROVE  UNCHANGED identity
  BY <1>2
  DEF Next, Arrives, Proceeds, Saves, Fails, LoginNotFound, LoginSelect,
      TokenNotFound, TokenSelect, LoginRefused, UseReplaced, UseInvalid,
      Revoke, SaveUser, SaveUserConflict, SaveToken, SaveTokenConflict,
      InsertNew, ReuseSelect, CommitRefresh, CommitAndPublish,
      CommitUnacknowledged, DbFailure, PushNext, PushFails, Published, Respond,
      ResponseLost, Crash, Tick, vars
<1>3. QED
  BY <1>1, <1>2

LEMMA RevokedStays ==
  ASSUME IInv, [Next]_vars, NEW t \in Tokens, Revoked(t)
  PROVE  tokenTable'[t] = tokenTable[t]
<1>1. CASE UNCHANGED tokenTable
  BY <1>1
<1>2. ASSUME NEW r \in Requests, Commits(r)
      PROVE  tokenTable'[t] = tokenTable[t]
  BY <1>2, CommitEffects
  DEF CommitEffect, Spent, Made, Revoked, Stored
<1>3. QED
  BY <1>1, <1>2, OnlyCommitsShow

-----------------------------------------------------------------------------
(* Rotations are well formed                                               *)

(* Whoever is rotating a token has just begun or was already.              *)
LEMMA RotationGoesOn ==
  ASSUME IInv, [Next]_vars, NEW q \in Requests, Making(q)', op'[q] = "refresh"
  PROVE  \/ \E n \in Tokens :
              /\ UseAndRotate(q, n)
              /\ created'[q] = n /\ presented'[q] = presented[q]
         \/ /\ Making(q) /\ op[q] = "refresh"
            /\ created'[q] = created[q] /\ presented'[q] = presented[q]
<1> DEFINE Begins == \E n \in Tokens :
             /\ UseAndRotate(q, n)
             /\ created'[q] = n /\ presented'[q] = presented[q]
           GoesOn == /\ Making(q) /\ op[q] = "refresh"
                     /\ created'[q] = created[q]
                     /\ presented'[q] = presented[q]
<1> SUFFICES Begins \/ GoesOn
  OBVIOUS
<1>1. ASSUME NEW r \in Requests, r # q, Acts(r) PROVE GoesOn
  BY <1>1, OnlyOneActs DEF IInv, Untouched, Making
<1>2. ASSUME NEW n \in Tokens, UseAndRotate(q, n) PROVE Begins
  BY <1>2 DEF UseAndRotate, Create, inputVars, IInv, TypeOK
<1>3. ASSUME InsertNew(q) \/ SaveToken(q) PROVE GoesOn
  BY <1>3
  DEF InsertNew, SaveToken, AfterSave, inputVars, Goto, At, Making, IInv,
      TypeOK, StepsMatchOps
<1>4. ASSUME NEW n \in Tokens, LoginCreate(q, n) PROVE FALSE
  BY <1>4 DEF LoginCreate, inputVars, At, IInv, StepsMatchOps
<1>5. ASSUME \/ SaveUser(q) \/ Revoke(q) \/ PushNext(q) \/ UseReplaced(q)
             \/ ReuseSelect(q) \/ CommitAndPublish(q)
      PROVE  FALSE
  BY <1>5
  DEF SaveUser, Revoke, PushNext, UseReplaced, ReuseSelect, CommitAndPublish,
      inputVars, Goto, At, Making, IInv, TypeOK, StepsMatchOps
<1>6. ASSUME \/ LoginRefused(q) \/ UseInvalid(q) \/ SaveUserConflict(q)
             \/ SaveTokenConflict(q) \/ CommitRefresh(q) \/ Published(q)
             \/ CommitUnacknowledged(q) \/ DbFailure(q) \/ PushFails(q)
      PROVE  FALSE
  BY <1>6
  DEF LoginRefused, UseInvalid, SaveUserConflict, SaveTokenConflict,
      CommitRefresh, Published, CommitUnacknowledged, DbFailure, PushFails,
      Answer, Goto, Making, IInv, TypeOK
<1>7. ASSUME Arrives(q) \/ Respond(q) \/ ResponseLost(q) PROVE FALSE
  BY <1>7
  DEF Arrives, LoginNotFound, LoginSelect, TokenNotFound, TokenSelect, Answer,
      Respond, ResponseLost, Forget, Goto, Making, IInv, TypeOK
<1>8. ASSUME Crash PROVE FALSE
  BY <1>8 DEF Crash, Forget, Making
<1>9. ASSUME Tick \/ UNCHANGED vars PROVE GoesOn
  BY <1>9 DEF Tick, vars, requestVars, inputVars, Making
<1>10. ASSUME Acts(q) PROVE Begins \/ GoesOn
  <2> HIDE DEF Begins, GoesOn
  <2>1. QED
    BY <1>10, <1>2, <1>3, <1>4, <1>5, <1>6, <1>7, Zenon
    DEF Acts, Proceeds, Saves, Fails
<1>11. QED
  <2> HIDE DEF Begins, GoesOn
  <2>1. QED
    BY <1>1, <1>8, <1>9, <1>10, Zenon DEF Next, Acts

LEMMA InTimeStep ==
  ASSUME IInv, NewTokensInTime, [Next]_vars
  PROVE  NewTokensInTime'
<1> SUFFICES ASSUME NEW q \in Requests, Making(q)', op'[q] = "refresh"
             PROVE  identity'[created'[q]].expires
                      <= identity'[presented'[q]].expires + Lifetime
  BY DEF NewTokensInTime, Making
<1>1. ASSUME NEW n \in Tokens, UseAndRotate(q, n),
             created'[q] = n, presented'[q] = presented[q]
      PROVE  identity'[created'[q]].expires
               <= identity'[presented'[q]].expires + Lifetime
  <2>1. presented[q] \in Tokens /\ identity[presented[q]] # NoRow
    BY <1>1
    DEF UseAndRotate, At, IInv, ReadsNotNewer, Spending, StoredIdentified
  <2>2. identity[presented[q]].expires \in Nat /\ now \in Nat
    BY <2>1 DEF IInv, TypeOK, Identities
  <2>3. now <= identity[presented[q]].expires
    BY <1>1, <2>2 DEF UseAndRotate, IsRevokedOrExpired
  <2>4. /\ identity'[n].expires = now + Lifetime
        /\ identity'[presented[q]] = identity[presented[q]]
    BY <1>1, <2>1, IdentityStays
    DEF UseAndRotate, Create, NewToken, IInv, TypeOK
  <2>5. QED
    BY <1>1, <2>2, <2>3, <2>4, SessionsAssumption DEF SessionsAssumption
<1>2. ASSUME Making(q), op[q] = "refresh",
             created'[q] = created[q], presented'[q] = presented[q]
      PROVE  identity'[created'[q]].expires
               <= identity'[presented'[q]].expires + Lifetime
  <2>1. created[q] \in Tokens /\ identity[created[q]] # NoRow
    BY <1>2 DEF IInv, NewTokensPrivate
  <2>2. presented[q] \in Tokens /\ identity[presented[q]] # NoRow
    BY <1>2
    DEF Making, IInv, ReadsNotNewer, Spending, StoredIdentified
  <2>3. QED
    BY <1>2, <2>1, <2>2, IdentityStays DEF NewTokensInTime
<1>3. QED
  BY <1>1, <1>2, RotationGoesOn

(* A row of the table after a commit: the spent one, the new one, or one   *)
(* that was there before.                                                  *)
LEMMA RowsAfterCommit ==
  ASSUME IInv, RotationWellFormed, NEW r \in Requests, Commits(r),
         NEW t \in Tokens, Stored(t)', Successor(t)' # NoToken
  PROVE  \/ /\ op[r] = "refresh" /\ t = presented[r] /\ Revoked(t)'
            /\ Successor(t)' = created[r]
         \/ tokenTable'[t] = tokenTable[t]
<1>1. CommitEffect(r)
  BY CommitEffects
<1>2. ASSUME op[r] # "revoke", t = created[r] PROVE FALSE
  BY <1>1, <1>2 DEF CommitEffect, Made, NewDraft, Successor
<1>3. ASSUME op[r] # "login", t = presented[r]
      PROVE  /\ op[r] = "refresh" /\ Revoked(t)'
             /\ Successor(t)' = created[r]
  <2>1. Spent(r)
    BY <1>1, <1>3 DEF CommitEffect
  <2>2. tokenTable'[t].data = Entity(r)
    BY <1>3, <2>1 DEF Spent, OldDraft
  <2>3. op[r] = "refresh"
    <3>1. SUFFICES ASSUME op[r] # "refresh" PROVE FALSE
      OBVIOUS
    <3>2. Successor(t) # NoToken
      BY <1>3, <2>1, <2>2, <3>1 DEF Entity, Successor, Spent
    <3>3. tokenTable[t] \in TokenRows
      BY <1>3, <2>1 DEF Spent
    <3>4. Revoked(t)
      BY <3>2, <3>3, SessionsAssumption
      DEF RotationWellFormed, Stored, SessionsAssumption
    <3>5. QED
      BY <1>3, <2>1, <3>4 DEF Spent, Revoked
  <2>4. QED
    BY <2>2, <2>3 DEF Entity, Successor, Revoked
<1>4. QED
  BY <1>1, <1>2, <1>3 DEF CommitEffect

LEMMA RotationStep ==
  ASSUME IInv, RotationWellFormed, NewTokensInTime, [Next]_vars
  PROVE  RotationWellFormed'
<1>1. \A t \in Tokens : Stored(t) => Stored(t)' /\ identity'[t] = identity[t]
  BY StoredStays, IdentityStays DEF IInv, StoredIdentified, Stored
<1>2. \A t \in Tokens : Revoked(t) => tokenTable'[t] = tokenTable[t]
  BY RevokedStays
<1>3. ASSUME NEW r \in Requests, Commits(r) PROVE RotationWellFormed'
  <2> SUFFICES ASSUME NEW t \in Tokens, Stored(t)', Successor(t)' # NoToken
               PROVE  /\ Revoked(t)'
                      /\ Stored(Successor(t))'
                      /\ identity'[Successor(t)'].user = identity'[t].user
                      /\ identity'[Successor(t)'].session = identity'[t].session
                      /\ identity'[Successor(t)'].expires
                           <= identity'[t].expires + Lifetime
                      /\ \A s \in Tokens :
                           Stored(s)' /\ Successor(s)' = Successor(t)' => s = t
    BY DEF RotationWellFormed, Stored, Revoked, Successor
  <2>1. CASE tokenTable'[t] = tokenTable[t]
    <3>1. Stored(t) /\ Successor(t)' = Successor(t) /\ Revoked(t)
      BY <2>1 DEF Stored, Successor, RotationWellFormed
    <3> DEFINE n == Successor(t)
    <3>2. /\ Stored(n)
          /\ identity[n].user = identity[t].user
          /\ identity[n].session = identity[t].session
          /\ identity[n].expires <= identity[t].expires + Lifetime
          /\ \A s \in Tokens : Stored(s) /\ Successor(s) = n => s = t
      BY <3>1 DEF RotationWellFormed
    <3>3. n \in Tokens
      BY <3>1 DEF IInv, TypeOK, TokenRows, TokenData, Successor, Stored
    <3>4. ASSUME NEW s \in Tokens, Stored(s)', Successor(s)' = n PROVE s = t
      <4>1. CASE tokenTable'[s] = tokenTable[s]
        BY <3>2, <3>4, <4>1 DEF Stored, Successor
      <4>2. CASE op[r] = "refresh" /\ Successor(s)' = created[r]
        BY <3>2, <3>4, <4>2, <1>3
        DEF Commits, IInv, NewTokensPrivate, Making, Stored
      <4>3. QED
        BY <4>1, <4>2, <3>1, <3>4, <1>3, RowsAfterCommit
    <3>5. Revoked(t)'
      BY <3>1, <2>1 DEF Revoked, Stored
    <3>6. QED
      BY <1>1, <3>1, <3>2, <3>3, <3>4, <3>5 DEF Stored
  <2>2. CASE /\ op[r] = "refresh" /\ t = presented[r] /\ Revoked(t)'
             /\ Successor(t)' = created[r]
    <3>0. PICK n : n = created[r]
      OBVIOUS
    <3>1. /\ n \in Tokens /\ identity[n] # NoRow /\ tokenTable[n] = NoRow
          /\ identity[n].session = identity[t].session
          /\ identity[n].user = identity[t].user
          /\ identity[n].expires <= identity[t].expires + Lifetime
      BY <2>2, <3>0, <1>3
      DEF Commits, IInv, NewTokensPrivate, NewTokensInTime, Making
    <3>2. UNCHANGED identity /\ CommitEffect(r)
      BY <1>3, CommitEffects
    <3>3. Stored(n)'
      BY <2>2, <3>0, <3>2, NewDraftType, SessionsAssumption
      DEF CommitEffect, Made, Stored, SessionsAssumption
    <3>4. ASSUME NEW s \in Tokens, Stored(s)', Successor(s)' = n PROVE s = t
      <4>1. n # NoToken
        BY <3>1, SessionsAssumption DEF SessionsAssumption
      <4>2. CASE tokenTable'[s] = tokenTable[s]
        BY <3>1, <3>4, <4>1, <4>2 DEF RotationWellFormed, Stored, Successor
      <4>3. CASE s = presented[r]
        BY <2>2, <4>3
      <4>4. QED
        BY <4>1, <4>2, <4>3, <3>4, <1>3, RowsAfterCommit
    <3>5. QED
      BY <2>2, <3>0, <3>1, <3>2, <3>3, <3>4
  <2>3. QED
    BY <2>1, <2>2, <1>3, RowsAfterCommit
<1>4. CASE UNCHANGED tokenTable
  BY <1>1, <1>4 DEF RotationWellFormed, Stored, Revoked, Successor, IInv,
                    TypeOK, TokenRows, TokenData
<1>5. QED
  BY <1>3, <1>4, OnlyCommitsShow

(* The successor a stored token names is stored too, of the same user and  *)
(* session, made in the token's lifetime, and the successor of no other.   *)
THEOREM RotationsWellFormed == Spec => []RotationWellFormed
<1> DEFINE Rotations == RotationWellFormed /\ NewTokensInTime
<1>1. Init => Rotations
  BY DEF Init, T!TableInit, RotationWellFormed, NewTokensInTime, Stored, Making
<1>2. IInv /\ Rotations /\ [Next]_vars => Rotations'
  BY InTimeStep, RotationStep
<1>3. QED
  BY Invariant, <1>1, <1>2, PTL DEF Spec

-----------------------------------------------------------------------------
(* Refusals are justified                                                  *)

LEMMA UpdatesStep ==
  ASSUME IInv, UpdatesRevoke, [Next]_vars
  PROVE  UpdatesRevoke'
<1>1. ASSUME NEW r \in Requests, Commits(r), NEW t \in Tokens, Stored(t)',
             tokenTable'[t].version > 1
      PROVE  tokenTable'[t].data.revoked
  <2>1. CommitEffect(r)
    BY <1>1, CommitEffects
  <2>2. NewDraft.version = 1 /\ OldDraft(r).data.revoked
    BY DEF NewDraft, OldDraft, Entity
  <2>3. QED
    BY <1>1, <2>1, <2>2 DEF CommitEffect, Spent, Made, UpdatesRevoke, Stored
<1>2. CASE UNCHANGED tokenTable
  BY <1>2 DEF UpdatesRevoke, Stored
<1>3. QED
  BY <1>1, <1>2, OnlyCommitsShow DEF UpdatesRevoke, Stored

(* What is known of a stored token stays true.                             *)
Lasting ==
  \A t \in Tokens :
    /\ Stored(t) => Stored(t)' /\ identity'[t] = identity[t]
    /\ Revoked(t) => Revoked(t)' /\ tokenTable'[t] = tokenTable[t]
    /\ HasSuccessor(t) => Revoked(t) /\ HasSuccessor(t)'

LEMMA KnownLasts ==
  ASSUME IInv, RotationWellFormed, [Next]_vars
  PROVE  Lasting
<1>1. \A t \in Tokens : Stored(t) => Stored(t)' /\ identity'[t] = identity[t]
  BY StoredStays, IdentityStays DEF IInv, StoredIdentified, Stored
<1>2. \A t \in Tokens : Revoked(t) => Revoked(t)' /\ tokenTable'[t] = tokenTable[t]
  BY <1>1, RevokedStays DEF Revoked
<1>3. \A t \in Tokens : HasSuccessor(t) => Revoked(t) /\ HasSuccessor(t)'
  BY <1>1, <1>2 DEF RotationWellFormed, HasSuccessor, Successor
<1>4. QED
  BY <1>1, <1>2, <1>3 DEF Lasting

LEMMA TimeGoesOn ==
  ASSUME IInv, [Next]_vars
  PROVE  now' \in Nat /\ now <= now'
<1>1. now \in Nat
  BY DEF IInv, TypeOK
<1>2. CASE Tick
  BY <1>1, <1>2 DEF Tick
<1>3. CASE ~Tick
  <2>1. UNCHANGED now
    BY <1>3
    DEF Next, Arrives, Proceeds, Saves, Fails, LoginNotFound, LoginSelect,
        TokenNotFound, TokenSelect, LoginRefused, LoginCreate, UseAndRotate,
        UseReplaced, UseInvalid, Revoke, SaveUser, SaveUserConflict, SaveToken,
        SaveTokenConflict, InsertNew, ReuseSelect, CommitRefresh,
        CommitAndPublish, CommitUnacknowledged, DbFailure, PushNext, PushFails,
        Published, Respond, ResponseLost, Crash, vars
  <2>2. QED
    BY <1>1, <2>1
<1>4. QED
  BY <1>2, <1>3

Seen(r) == SeenFinal(r) /\ RefusalTrue(r)

LEMMA SeenStays ==
  ASSUME IInv, Lasting, now <= now', now' \in Nat, NEW q \in Requests,
         pc'[q] = pc[q], op'[q] = op[q], presented'[q] = presented[q],
         loaded'[q] = loaded[q], outcome'[q] = outcome[q], Seen(q)
  PROVE  Seen(q)'
<1>1. PICK t : t = presented[q]
  OBVIOUS
<1>2. PICK l : l = loaded[q]
  OBVIOUS
<1>3. t \in Tokens \/ t = NoToken
  BY <1>1 DEF IInv, TypeOK
<1>4. t \in Tokens => /\ Stored(t)
                       /\ Stored(t)' /\ identity'[t] = identity[t]
                       /\ (Revoked(t) => /\ Revoked(t)'
                                         /\ tokenTable'[t] = tokenTable[t])
                       /\ (HasSuccessor(t) => Revoked(t) /\ HasSuccessor(t)')
  BY <1>1, SessionsAssumption
  DEF Lasting, Seen, SeenFinal, Stored, Revoked, SessionsAssumption
<1>5. SeenFinal(q)'
  <2>1. /\ At(q, "idle")' \/ op'[q] = "login" => presented'[q] = NoToken
        /\ presented'[q] # NoToken => Stored(t)'
    BY <1>1, <1>3, <1>4 DEF Seen, SeenFinal, At
  <2>2. ASSUME At(q, "use"), l.data.revoked \/ l.data.replacedBy # NoToken
        PROVE  l = tokenTable'[t]
    <3>1. l = tokenTable[t] /\ t \in Tokens
      BY <2>2, <1>1, <1>2
      DEF Seen, SeenFinal, IsReplaced, At, IInv, StepsMatchOps, ReadsNotNewer,
          Spending
    <3>2. Revoked(t)
      BY <2>2, <3>1, <1>4 DEF Revoked, HasSuccessor, Successor
    <3>3. QED
      BY <3>1, <3>2, <1>4
  <2>3. ASSUME At(q, "reuse") \/ (At(q, "publish") /\ op[q] = "refresh")
        PROVE  t # NoToken /\ HasSuccessor(t)'
    <3>1. t # NoToken /\ HasSuccessor(t)
      BY <2>3, <1>1 DEF Seen, SeenFinal
    <3>2. t \in Tokens
      BY <3>1, <1>3
    <3>3. QED
      BY <3>1, <3>2, <1>4
  <2>4. QED
    BY <1>1, <1>2, <2>1, <2>2, <2>3
    DEF SeenFinal, IsReplaced, At, Stored, HasSuccessor, Successor
<1>6. RefusalTrue(q)'
  <2>1. ASSUME At(q, "respond"), t \in Tokens
        PROVE  /\ outcome[q] = "ConcurrencyError" => Revoked(t)'
               /\ outcome[q] = "RefreshTokenReuse" => HasSuccessor(t)'
               /\ outcome[q] = "TokenError" =>
                    Revoked(t)' \/ now' > identity'[t].expires
    <3>1. identity[t].expires \in Nat /\ now \in Nat
      BY <2>1, <1>4 DEF IInv, TypeOK, Identities, StoredIdentified, Stored
    <3>2. /\ outcome[q] = "ConcurrencyError" => Revoked(t)
          /\ outcome[q] = "RefreshTokenReuse" => HasSuccessor(t)
          /\ outcome[q] = "TokenError" => Revoked(t) \/ now > identity[t].expires
      BY <2>1, <1>1, SessionsAssumption
      DEF Seen, RefusalTrue, SessionsAssumption
    <3>3. QED
      BY <2>1, <1>4, <3>1, <3>2
  <2>2. QED
    BY <1>1, <1>3, <2>1
    DEF RefusalTrue, At, Stored, Revoked, HasSuccessor, Successor
<1>7. QED
  BY <1>5, <1>6 DEF Seen

(* A request that waits for nothing it has read, or has read nothing.      *)
LEMMA SeenNothing ==
  ASSUME NEW q \in Requests, presented'[q] = NoToken,
         pc'[q] \notin {"use", "reuse"},
         pc'[q] = "publish" => op'[q] # "refresh"
  PROVE  Seen(q)'
  BY DEF Seen, SeenFinal, RefusalTrue, At

(* A failure or a success says nothing about the token.                    *)
LEMMA SeenPlain ==
  ASSUME IInv, Lasting, NEW q \in Requests, Seen(q),
         op'[q] = op[q], presented'[q] = presented[q],
         \/ pc'[q] \in {"save_token", "insert", "commit", "save_user"}
         \/ pc'[q] = "publish" /\ op[q] # "refresh"
         \/ pc'[q] = "respond" /\ outcome'[q] \in {"ok", "ServerError"}
  PROVE  Seen(q)'
<1>1. PICK t : t = presented[q]
  OBVIOUS
<1>2. t # NoToken => Stored(t)'
  BY <1>1 DEF Seen, SeenFinal, Lasting, IInv, TypeOK
<1>3. presented'[q] # NoToken => Stored(presented[q])'
  BY <1>1, <1>2 DEF Stored
<1>4. SeenFinal(q)'
  BY <1>3 DEF Seen, SeenFinal, At
<1>5. RefusalTrue(q)'
  BY DEF RefusalTrue, At
<1>6. QED
  BY <1>4, <1>5 DEF Seen

LEMMA SeenConflict ==
  ASSUME IInv, UpdatesRevoke, NEW r \in Requests, SaveTokenConflict(r)
  PROVE  presented[r] \in Tokens /\ Revoked(presented[r])
<1>1. PICK t : t = presented[r]
  OBVIOUS
<1>2. /\ t \in Tokens /\ loaded[r] \in TokenRows /\ tokenTable[t] \in TokenRows
      /\ \/ loaded[r] = tokenTable[t]
         \/ loaded[r].version < tokenTable[t].version
  BY <1>1
  DEF SaveTokenConflict, At, IInv, TypeOK, StepsMatchOps, ReadsNotNewer,
      Spending
<1>3. T!Visible(r, t) = tokenTable[t]
  <2>1. tokenHolder[t] # r
    BY <1>2 DEF SaveTokenConflict, At, IInv, HoldersWrite
  <2>2. QED
    BY <2>1 DEF T!Visible
<1>4. tokenTable[t] # NoRow
  BY <1>2, SessionsAssumption DEF SessionsAssumption
<1>5. tokenTable[t].version # loaded[r].version
  BY <1>1, <1>3, <1>4 DEF SaveTokenConflict, T!Conflict, T!Matches
<1>6. tokenTable[t].version > 1
  <2>1. loaded[r].version \in Nat \ {0} /\ tokenTable[t].version \in Nat
    BY <1>2 DEF TokenRows
  <2>2. QED
    BY <1>2, <1>5, <2>1
<1>7. QED
  BY <1>1, <1>2, <1>4, <1>6 DEF UpdatesRevoke, Revoked, Stored

LEMMA SeenByActor ==
  ASSUME IInv, UpdatesRevoke, Lasting, now <= now', now' \in Nat,
         NEW r \in Requests, Seen(r), Acts(r)
  PROVE  Seen(r)'
<1> DEFINE Done == Seen(r)'
<1> SUFFICES Done
  OBVIOUS
<1>1. ASSUME LoginNotFound(r) PROVE Done
  <2>1. presented[r] = NoToken
    BY <1>1 DEF LoginNotFound, Seen, SeenFinal
  <2>2. QED
    BY <1>1, <2>1, SeenNothing DEF LoginNotFound, Answer, Goto, IInv, TypeOK
<1>2. ASSUME NEW u \in Users, LoginSelect(r, u) PROVE Done
  <2>1. presented[r] = NoToken
    BY <1>2 DEF LoginSelect, Seen, SeenFinal
  <2>2. QED
    BY <1>2, <2>1, SeenNothing DEF LoginSelect, Goto, IInv, TypeOK
<1>3. ASSUME NEW o, NEW t, TokenNotFound(r, o, t) PROVE Done
  <2>1. presented[r] = NoToken
    BY <1>3 DEF TokenNotFound, Seen, SeenFinal
  <2>2. QED
    BY <1>3, <2>1, SeenNothing DEF TokenNotFound, Answer, Goto, IInv, TypeOK
<1>4. ASSUME NEW o \in {"refresh", "revoke"}, NEW t \in Tokens,
             TokenSelect(r, o, t)
      PROVE  Done
  <2>1. T!Visible(r, t) = tokenTable[t] /\ Stored(t)
    BY <1>4 DEF TokenSelect, T!Visible, At, IInv, HoldersWrite, Stored
  <2>2. /\ pc'[r] = "use" /\ op'[r] = o /\ presented'[r] = t
        /\ loaded'[r] = tokenTable[t] /\ tokenTable' = tokenTable
    BY <1>4, <2>1
    DEF TokenSelect, Goto, dbVars, tokenVars, IInv, TypeOK
  <2>3. QED
    BY <2>1, <2>2 DEF Seen, SeenFinal, RefusalTrue, At, Stored
<1>5. ASSUME SaveUserConflict(r) \/ LoginRefused(r) PROVE Done
  <2>1. presented[r] = NoToken
    BY <1>5
    DEF SaveUserConflict, LoginRefused, At, IInv, StepsMatchOps, Seen,
        SeenFinal
  <2>2. QED
    BY <1>5, <2>1, SeenNothing
    DEF SaveUserConflict, LoginRefused, Answer, Goto, IInv, TypeOK
<1>6. ASSUME NEW n \in Tokens, LoginCreate(r, n) \/ UseAndRotate(r, n)
      PROVE  Done
  BY <1>6, SeenPlain
  DEF LoginCreate, UseAndRotate, Goto, inputVars, IInv, TypeOK
<1>7. ASSUME \/ Revoke(r) \/ SaveUser(r) \/ SaveToken(r) \/ InsertNew(r)
             \/ CommitAndPublish(r)
      PROVE  Done
  BY <1>7, SeenPlain
  DEF Revoke, SaveUser, SaveToken, AfterSave, InsertNew, CommitAndPublish,
      Goto, inputVars, IInv, TypeOK
<1>8. ASSUME \/ CommitRefresh(r) \/ CommitUnacknowledged(r) \/ DbFailure(r)
             \/ PushFails(r)
      PROVE  Done
  BY <1>8, SeenPlain
  DEF CommitRefresh, CommitUnacknowledged, DbFailure, PushFails, Answer, Goto,
      IInv, TypeOK
<1>9. ASSUME UseReplaced(r) PROVE Done
  <2>1. PICK t : t = presented[r]
    OBVIOUS
  <2>2. t \in Tokens /\ loaded[r] = tokenTable[t] /\ HasSuccessor(t)
    BY <1>9, <2>1
    DEF UseReplaced, At, Seen, SeenFinal, IsReplaced, HasSuccessor, Stored,
        Successor, IInv, ReadsNotNewer, Spending
  <2>3. t # NoToken /\ Stored(t)' /\ HasSuccessor(t)'
    BY <2>2, SessionsAssumption
    DEF Lasting, HasSuccessor, Stored, SessionsAssumption
  <2>4. /\ pc'[r] = "reuse" /\ op'[r] = "refresh" /\ presented'[r] = t
    BY <1>9, <2>1 DEF UseReplaced, Goto, inputVars, IInv, TypeOK
  <2>5. QED
    BY <2>3, <2>4
    DEF Seen, SeenFinal, RefusalTrue, At, Stored, HasSuccessor, Successor
<1>10. ASSUME ReuseSelect(r) \/ PushNext(r) PROVE Done
  <2>1. PICK t : t = presented[r]
    OBVIOUS
  <2>2. /\ t # NoToken => Stored(t)'
        /\ op[r] = "refresh" => t # NoToken /\ HasSuccessor(t)'
    BY <1>10, <2>1
    DEF ReuseSelect, PushNext, At, Seen, SeenFinal, Lasting, IInv, TypeOK
  <2>3. /\ pc'[r] = "publish" /\ op'[r] = op[r] /\ presented'[r] = t
        /\ op[r] = "login" => t = NoToken
    BY <1>10, <2>1
    DEF ReuseSelect, PushNext, At, Goto, inputVars, IInv, TypeOK, Seen,
        SeenFinal
  <2>4. QED
    BY <2>2, <2>3
    DEF Seen, SeenFinal, RefusalTrue, At, Stored, HasSuccessor, Successor
<1>11. ASSUME Published(r) PROVE Done
  <2>1. CASE op[r] # "refresh"
    BY <1>11, <2>1, SeenPlain DEF Published, Answer, Goto, IInv, TypeOK
  <2>2. CASE op[r] = "refresh"
    <3>1. PICK t : t = presented[r]
      OBVIOUS
    <3>2. t # NoToken /\ HasSuccessor(t)' /\ Stored(t)'
      BY <1>11, <2>2, <3>1
      DEF Published, At, Seen, SeenFinal, Lasting, IInv, TypeOK
    <3>3. /\ pc'[r] = "respond" /\ op'[r] = "refresh" /\ presented'[r] = t
          /\ outcome'[r] = "RefreshTokenReuse"
      BY <1>11, <2>2, <3>1 DEF Published, Answer, Goto, IInv, TypeOK
    <3>4. QED
      BY <3>2, <3>3
      DEF Seen, SeenFinal, RefusalTrue, At, Stored, HasSuccessor, Successor
  <2>3. QED
    BY <2>1, <2>2
<1>12. ASSUME UseInvalid(r) PROVE Done
  <2>1. PICK t : t = presented[r]
    OBVIOUS
  <2>2. t \in Tokens /\ Stored(t)
    BY <1>12, <2>1
    DEF UseInvalid, At, IInv, StepsMatchOps, ReadsNotNewer, Spending, Stored
  <2>3. Revoked(t) \/ now > identity[t].expires
    BY <1>12, <2>1, <2>2
    DEF UseInvalid, At, IsRevokedOrExpired, Seen, SeenFinal, Revoked
  <2>4. identity[t].expires \in Nat /\ now \in Nat
    BY <2>2 DEF IInv, TypeOK, Identities, StoredIdentified, Stored
  <2>5. Stored(t)' /\ (Revoked(t)' \/ now' > identity'[t].expires)
    BY <2>2, <2>3, <2>4 DEF Lasting
  <2>6. /\ pc'[r] = "respond" /\ op'[r] = op[r] /\ presented'[r] = t
        /\ outcome'[r] = "TokenError" /\ op[r] # "login"
    BY <1>12, <2>1
    DEF UseInvalid, At, Answer, Goto, IInv, TypeOK, StepsMatchOps
  <2>7. QED
    BY <2>5, <2>6
    DEF Seen, SeenFinal, RefusalTrue, At, Stored, Revoked
<1>13. ASSUME SaveTokenConflict(r) PROVE Done
  <2>1. PICK t : t = presented[r]
    OBVIOUS
  <2>2. t \in Tokens /\ Stored(t)' /\ Revoked(t)'
    BY <1>13, <2>1, SeenConflict DEF Lasting, Revoked
  <2>3. /\ pc'[r] = "respond" /\ op'[r] = op[r] /\ presented'[r] = t
        /\ outcome'[r] = "ConcurrencyError" /\ op[r] # "login"
    BY <1>13, <2>1
    DEF SaveTokenConflict, At, Answer, Goto, IInv, TypeOK, StepsMatchOps
  <2>4. QED
    BY <2>2, <2>3
    DEF Seen, SeenFinal, RefusalTrue, At, Stored, Revoked
<1>14. ASSUME Respond(r) \/ ResponseLost(r) PROVE Done
  BY <1>14, SeenNothing DEF Respond, ResponseLost, Forget
<1>15. QED
  <2> HIDE DEF Done
  <2>1. delivered \subseteq Tokens
    BY DEF IInv, TypeOK
  <2>2. ASSUME Arrives(r) PROVE Done
    BY <2>1, <2>2, <1>1, <1>2, <1>3, <1>4 DEF Arrives
  <2>3. ASSUME Proceeds(r) \/ Saves(r) \/ Fails(r) PROVE Done
    BY <2>3, <1>5, <1>6, <1>7, <1>8, <1>9, <1>10, <1>11, <1>12, <1>13, <1>14,
       Zenon DEF Proceeds, Saves, Fails
  <2>4. QED
    BY <2>2, <2>3 DEF Acts

LEMMA RefusalsStep ==
  ASSUME IInv, RotationWellFormed, UpdatesRevoke, RefusalsTrue, [Next]_vars
  PROVE  RefusalsTrue'
<1> SUFFICES ASSUME NEW q \in Requests PROVE Seen(q)'
  BY DEF RefusalsTrue, Seen
<1>1. Seen(q) /\ Lasting /\ now <= now' /\ now' \in Nat
  BY KnownLasts, TimeGoesOn DEF RefusalsTrue, Seen
<1>2. CASE Acts(q)
  BY <1>1, <1>2, SeenByActor
<1>3. ASSUME NEW r \in Requests, r # q, Acts(r) PROVE Seen(q)'
  <2>1. Untouched(q)
    BY <1>3, OnlyOneActs DEF IInv
  <2>2. QED
    BY <1>1, <2>1, SeenStays DEF Untouched
<1>4. CASE Crash
  BY <1>4, SeenNothing DEF Crash, Forget
<1>5. CASE Tick \/ UNCHANGED vars
  BY <1>1, <1>5, SeenStays DEF Tick, vars, requestVars, inputVars
<1>6. QED
  BY <1>2, <1>3, <1>4, <1>5 DEF Next, Acts

(* Whatever other requests do between the read a refusal is decided on and *)
(* the moment the client reads it: a conflict means that the token has     *)
(* been spent, reuse that it has a successor, TokenError that it is dead.  *)
THEOREM RefusalsAreTrue == Spec => []RefusalsJustified
<1> DEFINE Refusals ==
      /\ RotationWellFormed /\ NewTokensInTime
      /\ UpdatesRevoke /\ RefusalsTrue
<1>1. Init => Refusals
  BY SessionsAssumption
  DEF Init, T!TableInit, RotationWellFormed, NewTokensInTime, Stored, Making,
      UpdatesRevoke, RefusalsTrue, SeenFinal, RefusalTrue, At
<1>2. IInv /\ Refusals /\ [Next]_vars => Refusals'
  BY InTimeStep, RotationStep, UpdatesStep, RefusalsStep
<1>3. Refusals => RefusalsJustified
  BY DEF RefusalsTrue, RefusalTrue, RefusalsJustified, HasSuccessor
<1>4. QED
  BY Invariant, <1>1, <1>2, <1>3, PTL DEF Spec

-----------------------------------------------------------------------------
(* The audit log                                                           *)

Logged(e) == \E i \in 1 .. Len(audit) : audit[i] = e
CreatedEvent(t) == Event("RefreshTokenCreated", t)
RevokedEvent(t) == Event("RefreshTokenRevoked", t)
LoginMade(t) == identity[t].session = t

(* What a request is going to say once it has committed.                   *)
RevocationEvents(t) ==
  <<Event("SuspiciousRefreshTokenRevocation", t), RevokedEvent(t)>>
TodoKnown(r) ==
  /\ op[r] = "login" /\ pc[r] \in {"save_user", "insert", "commit"} =>
       todo[r] = <<CreatedEvent(created[r])>>
  /\ op[r] = "revoke" /\ pc[r] \in {"save_token", "commit"} =>
       todo[r] = RevocationEvents(presented[r])

(* An entry, pushed or to be pushed, is true and said once.                *)
EntryTrue(e) ==
  /\ e.type = "RefreshTokenCreated" => Stored(e.token)
  /\ e.type = "RefreshTokenRevoked" => Revoked(e.token)
ToPush(r, i) ==
  At(r, "publish") /\ i \in DOMAIN todo[r] /\ todo[r][i].type \in DomainEvents
OrderKept(e) ==
  e.type = "RefreshTokenRevoked" /\ LoginMade(e.token) =>
    Logged(CreatedEvent(e.token))
PendingTrue ==
  \A r \in Requests : \A i \in DOMAIN todo[r] :
    ToPush(r, i) =>
      /\ EntryTrue(todo[r][i])
      /\ ~Logged(todo[r][i])
      /\ OrderKept(todo[r][i])
      /\ \A q \in Requests : \A j \in DOMAIN todo[q] :
           ToPush(q, j) /\ todo[q][j] = todo[r][i] => q = r /\ j = i

(* A client holds a token of a login only after its creation is logged.    *)
DeliveredLogged ==
  \A t \in delivered : LoginMade(t) => Logged(CreatedEvent(t))
LoginTold(r) ==
  /\ presented[r] # NoToken => presented[r] \in delivered
  /\ created[r] # NoToken /\ LoginMade(created[r]) =>
       /\ At(r, "publish") =>
            \/ Logged(CreatedEvent(created[r]))
            \/ todo[r] = <<CreatedEvent(created[r])>>
       /\ At(r, "respond") => Logged(CreatedEvent(created[r]))
  /\ Making(r) /\ op[r] = "refresh" => ~LoginMade(created[r])
SessionsKnown ==
  \A t \in Tokens :
    identity[t] # NoRow => identity[identity[t].session] # NoRow

AuditInv ==
  /\ \A r \in Requests : TodoKnown(r)
  /\ PendingTrue
  /\ DeliveredLogged
  /\ \A r \in Requests : LoginTold(r)
  /\ SessionsKnown
  /\ AuditTruthful

(* Head and Tail, element by element.                                      *)
LEMMA HeadAndTail ==
  ASSUME NEW s \in Seq(Events), s # <<>>
  PROVE  /\ 1 \in DOMAIN s /\ Head(s) = s[1] /\ Head(s) \in Events
         /\ Tail(s) \in Seq(Events)
         /\ \A i \in DOMAIN Tail(s) :
              i \in Nat /\ i + 1 \in DOMAIN s /\ Tail(s)[i] = s[i + 1]
  OBVIOUS

(* The log and what is still to be pushed stay as they are.                *)
LEMMA LogUnchanged ==
  ASSUME IInv, Lasting, PendingTrue, AuditTruthful, UNCHANGED audit,
         todo' \in [Requests -> Seq(Events)],
         \A q \in Requests : \A i \in DOMAIN todo'[q] :
           ToPush(q, i)' =>
             i \in DOMAIN todo[q] /\ ToPush(q, i) /\ todo'[q][i] = todo[q][i]
  PROVE  PendingTrue' /\ AuditTruthful'
<1> DEFINE Same(e) ==
      /\ EntryTrue(e) => EntryTrue(e)' /\ (OrderKept(e) => OrderKept(e)')
      /\ Logged(e)' <=> Logged(e)
<1>1. ASSUME NEW e \in Events PROVE Same(e)
  <2>1. e.token \in Tokens
    BY DEF Events
  <2>2. Logged(e)' <=> Logged(e)
    BY DEF Logged
  <2>3. EntryTrue(e) => EntryTrue(e)'
    BY <2>1 DEF EntryTrue, Lasting, Stored, Revoked
  <2>4. EntryTrue(e) /\ OrderKept(e) => OrderKept(e)'
    BY <2>1 DEF EntryTrue, OrderKept, LoginMade, Lasting, Revoked, Logged
  <2>5. QED
    BY <2>2, <2>3, <2>4
<1>2. PendingTrue'
  <2> SUFFICES ASSUME NEW r \in Requests, NEW i \in DOMAIN todo'[r],
                      ToPush(r, i)'
               PROVE  /\ EntryTrue(todo[r][i])'
                      /\ ~Logged(todo[r][i])'
                      /\ OrderKept(todo[r][i])'
                      /\ \A q \in Requests : \A j \in DOMAIN todo'[q] :
                           ToPush(q, j)' /\ todo'[q][j] = todo'[r][i]
                             => q = r /\ j = i
    BY DEF PendingTrue, ToPush, At
  <2>1. PICK e : e = todo[r][i]
    OBVIOUS
  <2>2. /\ i \in DOMAIN todo[r] /\ ToPush(r, i) /\ todo'[r][i] = e
        /\ e \in Events
    BY <2>1 DEF IInv, TypeOK
  <2>3. EntryTrue(e) /\ ~Logged(e) /\ OrderKept(e)
    BY <2>1, <2>2 DEF PendingTrue
  <2>4. EntryTrue(e)' /\ ~Logged(e)' /\ OrderKept(e)'
    BY <1>1, <2>2, <2>3
  <2>5. \A q \in Requests : \A j \in DOMAIN todo'[q] :
          ToPush(q, j)' /\ todo'[q][j] = todo'[r][i] => q = r /\ j = i
    BY <2>1, <2>2 DEF PendingTrue
  <2>6. QED
    BY <2>2, <2>4, <2>5
    DEF EntryTrue, OrderKept, Logged, Stored, Revoked, LoginMade
<1>3. AuditTruthful'
  <2>1. \A i \in 1 .. Len(audit) : audit[i] \in Events
    BY DEF IInv, TypeOK
  <2>2. ASSUME NEW i \in 1 .. Len(audit)
        PROVE  /\ audit[i].type = "RefreshTokenCreated" =>
                    Stored(audit[i].token)'
               /\ audit[i].type = "RefreshTokenRevoked" =>
                    /\ Revoked(audit[i].token)'
                    /\ identity'[audit[i].token].session = audit[i].token =>
                         \E j \in 1 .. i - 1 :
                           audit[j] = Event("RefreshTokenCreated",
                                            audit[i].token)
    <3>1. PICK e \in Events : e = audit[i]
      BY <2>1
    <3>2. e.token \in Tokens
      BY DEF Events
    <3>3. /\ e.type = "RefreshTokenCreated" => Stored(e.token)
          /\ e.type = "RefreshTokenRevoked" =>
               /\ Revoked(e.token)
               /\ identity[e.token].session = e.token =>
                    \E j \in 1 .. i - 1 :
                      audit[j] = Event("RefreshTokenCreated", e.token)
      BY <3>1 DEF AuditTruthful
    <3>4. /\ Stored(e.token) =>
               Stored(e.token)' /\ identity'[e.token] = identity[e.token]
          /\ Revoked(e.token) => Revoked(e.token)' /\ Stored(e.token)
      BY <3>2 DEF Lasting, Revoked
    <3>5. QED
      BY <3>1, <3>3, <3>4 DEF Stored, Revoked
  <2>3. QED
    BY <2>2 DEF AuditTruthful, Stored, Revoked
<1>4. QED
  BY <1>2, <1>3

(* The next event of a request is pushed.                                  *)
LEMMA LogGrows ==
  ASSUME IInv, PendingTrue, AuditTruthful, NEW r \in Requests,
         At(r, "publish"), todo[r] # <<>>, Head(todo[r]).type \in DomainEvents,
         audit' = Append(audit, Head(todo[r])),
         UNCHANGED <<tokenTable, identity>>,
         todo' \in [Requests -> Seq(Events)],
         \A q \in Requests \ {r} : todo'[q] = todo[q] /\ pc'[q] = pc[q],
         \/ pc'[r] # "publish"
         \/ todo'[r] = Tail(todo[r])
  PROVE  PendingTrue' /\ AuditTruthful'
<1>1. PICK h : h = Head(todo[r])
  OBVIOUS
<1>2. /\ h \in Events /\ h = todo[r][1] /\ ToPush(r, 1) /\ 1 \in DOMAIN todo[r]
  BY <1>1, HeadAndTail DEF ToPush, IInv, TypeOK
<1>3. EntryTrue(h) /\ ~Logged(h) /\ OrderKept(h)
  BY <1>2 DEF PendingTrue
<1>4. /\ audit \in Seq(Events) /\ Len(audit) \in Nat
      /\ Len(audit') = Len(audit) + 1
      /\ \A i \in 1 .. Len(audit) : audit'[i] = audit[i] /\ audit[i] \in Events
      /\ audit'[Len(audit) + 1] = h
  BY <1>1, <1>2 DEF IInv, TypeOK
<1>5. \A e : Logged(e)' <=> Logged(e) \/ e = h
  <2>1. \A i \in 1 .. Len(audit') : i \in 1 .. Len(audit) \/ i = Len(audit) + 1
    BY <1>4
  <2>2. \A i \in 1 .. Len(audit) : i \in 1 .. Len(audit')
    BY <1>4
  <2>3. Len(audit) + 1 \in 1 .. Len(audit')
    BY <1>4
  <2>4. QED
    BY <1>4, <2>1, <2>2, <2>3 DEF Logged
<1>6. PendingTrue'
  <2> DEFINE Was(q, i) == IF q = r THEN i + 1 ELSE i
  <2>1. ASSUME NEW q \in Requests, NEW i \in DOMAIN todo'[q], ToPush(q, i)'
        PROVE  /\ Was(q, i) \in DOMAIN todo[q] /\ ToPush(q, Was(q, i))
               /\ todo'[q][i] = todo[q][Was(q, i)]
               /\ q = r => i \in Nat /\ Was(q, i) # 1
    <3>1. CASE q = r
      <4>1. todo'[r] = Tail(todo[r]) /\ pc[r] = "publish"
        BY <2>1, <3>1 DEF ToPush, At
      <4>2. /\ i \in Nat /\ i + 1 \in DOMAIN todo[r]
            /\ todo'[r][i] = todo[r][i + 1]
        BY <2>1, <3>1, <4>1, HeadAndTail DEF IInv, TypeOK
      <4>3. i # 0
        BY <2>1, <3>1, <4>1 DEF IInv, TypeOK
      <4>4. QED
        BY <2>1, <3>1, <4>1, <4>2, <4>3 DEF ToPush, At
    <3>2. CASE q # r
      BY <2>1, <3>2 DEF ToPush, At
    <3>3. QED
      BY <3>1, <3>2
  <2> SUFFICES ASSUME NEW p \in Requests, NEW i \in DOMAIN todo'[p],
                      ToPush(p, i)'
               PROVE  /\ EntryTrue(todo[p][i])'
                      /\ ~Logged(todo[p][i])'
                      /\ OrderKept(todo[p][i])'
                      /\ \A q \in Requests : \A j \in DOMAIN todo'[q] :
                           ToPush(q, j)' /\ todo'[q][j] = todo'[p][i]
                             => q = p /\ j = i
    BY DEF PendingTrue, ToPush, At
  <2>2. PICK e : e = todo'[p][i]
    OBVIOUS
  <2>3. PICK k : k = Was(p, i)
    OBVIOUS
  <2>4. k \in DOMAIN todo[p] /\ ToPush(p, k) /\ e = todo[p][k]
        /\ (p = r => k # 1)
    BY <2>1, <2>2, <2>3
  <2> HIDE DEF Was
  <2>5. EntryTrue(e) /\ ~Logged(e) /\ OrderKept(e)
    BY <2>4 DEF PendingTrue
  <2>6. e # h
    BY <1>2, <2>4 DEF PendingTrue
  <2>7. EntryTrue(e)' /\ ~Logged(e)' /\ OrderKept(e)'
    BY <1>5, <2>5, <2>6 DEF EntryTrue, OrderKept, Stored, Revoked, LoginMade
  <2>8. ASSUME NEW q \in Requests, NEW j \in DOMAIN todo'[q], ToPush(q, j)',
               todo'[q][j] = e
        PROVE  q = p /\ j = i
    <3>1. PICK l : l = Was(q, j)
      OBVIOUS
    <3>2. l \in DOMAIN todo[q] /\ ToPush(q, l) /\ e = todo[q][l]
      BY <2>1, <2>8, <3>1
    <3>3. q = p /\ l = k
      <4>1. todo[q][l] = todo[p][k]
        BY <2>4, <3>2
      <4>2. QED
        BY <2>4, <3>2, <4>1, Zenon DEF PendingTrue
    <3>4. j = i
      <4>1. CASE p = r
        BY <2>1, <2>3, <2>8, <3>1, <3>3, <4>1 DEF Was
      <4>2. CASE p # r
        BY <2>3, <3>1, <3>3, <4>2 DEF Was
      <4>3. QED
        BY <4>1, <4>2
    <3>5. QED
      BY <3>3, <3>4
  <2>9. QED
    BY <2>2, <2>7, <2>8
    DEF EntryTrue, OrderKept, Logged, Stored, Revoked, LoginMade
<1>7. AuditTruthful'
  <2> DEFINE n == Len(audit) + 1
             Entry(log, i) ==
               /\ log[i].type = "RefreshTokenCreated" => Stored(log[i].token)
               /\ log[i].type = "RefreshTokenRevoked" =>
                    /\ Revoked(log[i].token)
                    /\ LoginMade(log[i].token) =>
                         \E j \in 1 .. i - 1 :
                           log[j] = CreatedEvent(log[i].token)
             Entries(log) ==
               /\ \A i \in 1 .. Len(log) : Entry(log, i)
               /\ \A i, j \in 1 .. Len(log) : log[i] = log[j] => i = j
  <2>1. Entries(audit)
    BY DEF AuditTruthful, LoginMade, CreatedEvent
  <2>2. PICK log : log = audit'
    OBVIOUS
  <2>3. /\ Len(log) = n /\ log[n] = h /\ Len(audit) \in Nat
        /\ \A i \in 1 .. Len(audit) : log[i] = audit[i]
    BY <1>4, <2>2
  <2>4. ASSUME NEW i \in 1 .. n PROVE Entry(log, i)
    <3>1. CASE i \in 1 .. Len(audit)
      <4>1. Entry(audit, i)
        BY <2>1, <3>1
      <4>2. \A j \in 1 .. i - 1 : log[j] = audit[j]
        BY <2>3, <3>1
      <4>3. QED
        BY <2>3, <3>1, <4>1, <4>2
    <3>2. CASE i = n
      <4>1. OrderKept(h) => (h.type = "RefreshTokenRevoked" /\ LoginMade(h.token)
              => \E j \in 1 .. i - 1 : log[j] = CreatedEvent(h.token))
        <5>1. 1 .. i - 1 = 1 .. Len(audit)
          BY <2>3, <3>2
        <5>2. QED
          BY <2>3, <5>1 DEF OrderKept, Logged
      <4>2. QED
        BY <1>3, <2>3, <3>2, <4>1 DEF EntryTrue
    <3>3. QED
      BY <2>3, <3>1, <3>2
  <2>5. ASSUME NEW i \in 1 .. n, NEW j \in 1 .. n, log[i] = log[j] PROVE i = j
    <3>1. \A m \in 1 .. Len(audit) : log[m] # h
      BY <1>3, <2>3 DEF Logged
    <3>2. QED
      BY <2>1, <2>3, <2>5, <3>1
  <2>6. Entries(log)
    BY <2>3, <2>4, <2>5
  <2>7. QED
    BY <2>2, <2>6 DEF AuditTruthful, LoginMade, CreatedEvent, Stored, Revoked
<1>8. QED
  BY <1>6, <1>7

(* A commit makes its request's events true, and nobody has said or is     *)
(* going to say them: they were not true before.                           *)
LEMMA LogCommit ==
  ASSUME IInv, Lasting, AuditInv, NEW r \in Requests, CommitAndPublish(r)
  PROVE  PendingTrue' /\ AuditTruthful'
<1> USE DEF AuditInv
<1>1. /\ At(r, "commit") /\ op[r] \in {"login", "revoke"} /\ pc'[r] = "publish"
      /\ \A q \in Requests \ {r} : pc'[q] = pc[q]
      /\ UNCHANGED <<todo, audit, identity>>
  BY DEF CommitAndPublish, Goto, inputVars, IInv, TypeOK, Ops
<1>2. Commits(r)
  BY DEF CommitAndPublish, Commits, OthersAlone, Commit, Goto, At, inputVars,
         IInv, TypeOK
<1>3. CommitEffect(r)
  BY <1>2, CommitEffects
<1>4. \A q \in Requests : \A i \in DOMAIN todo[q] : todo[q][i] \in Events
  BY DEF IInv, TypeOK
(* the only event of r that goes to the log                                *)
<1>5. PICK t : t = IF op[r] = "login" THEN created[r] ELSE presented[r]
  OBVIOUS
<1>6. PICK h : h = IF op[r] = "login" THEN CreatedEvent(t) ELSE RevokedEvent(t)
  OBVIOUS
<1>7. /\ t \in Tokens
      /\ EntryTrue(h)' /\ ~EntryTrue(h)
      /\ OrderKept(h)
  <2>1. CASE op[r] = "login"
    <3>1. /\ t \in Tokens /\ ~Stored(t) /\ tokenTable'[t] = NewDraft
          /\ h = CreatedEvent(t)
      BY <1>3, <1>5, <1>6, <2>1 DEF CommitEffect, Made, Stored
    <3>2. tokenTable'[t] # NoRow
      BY <3>1, NewDraftType, SessionsAssumption DEF SessionsAssumption
    <3>3. QED
      BY <3>1, <3>2
      DEF EntryTrue, OrderKept, CreatedEvent, Event, Stored, Revoked
  <2>2. CASE op[r] = "revoke"
    <3>1. /\ t \in Tokens /\ ~Revoked(t) /\ tokenTable'[t] = OldDraft(r)
          /\ h = RevokedEvent(t) /\ loaded[r] \in TokenRows
      BY <1>3, <1>5, <1>6, <2>2 DEF CommitEffect, Spent, Revoked
    <3>2. Revoked(t)'
      BY <3>1, OldDraftType, SessionsAssumption
      DEF SessionsAssumption, IInv, OldDraft, Entity, Revoked, Stored
    <3>3. LoginMade(t) => Logged(CreatedEvent(t))
      BY <1>5, <2>2, <3>1, SessionsAssumption
      DEF LoginTold, DeliveredLogged, SessionsAssumption
    <3>4. QED
      BY <3>1, <3>2, <3>3
      DEF EntryTrue, OrderKept, RevokedEvent, Event, Stored, Revoked
  <2>3. QED
    BY <1>1, <2>1, <2>2
<1>8. \A i \in DOMAIN todo[r] : todo[r][i].type \in DomainEvents =>
        todo[r][i] = h /\ \A j \in DOMAIN todo[r] :
                          todo[r][j] = h => j = i
  <2>1. CASE op[r] = "login"
    <3>1. todo[r] = <<h>>
      BY <1>1, <1>5, <1>6, <2>1 DEF TodoKnown, At
    <3>2. QED
      BY <3>1
  <2>2. CASE op[r] = "revoke"
    <3>1. PICK g : g = Event("SuspiciousRefreshTokenRevocation", t)
      OBVIOUS
    <3>2. todo[r] = <<g, h>>
      BY <1>1, <1>5, <1>6, <2>2, <3>1 DEF TodoKnown, RevocationEvents, At
    <3>3. g.type \notin DomainEvents /\ g # h
      BY <1>6, <2>2, <3>1 DEF Event, RevokedEvent, DomainEvents
    <3>4. QED
      BY <3>2, <3>3
  <2>3. QED
    BY <1>1, <2>1, <2>2
<1>9. ~Logged(h)
  <2>1. ASSUME NEW i \in 1 .. Len(audit), audit[i] = h PROVE FALSE
    BY <1>7, <2>1 DEF AuditTruthful, EntryTrue
  <2>2. QED
    BY <2>1 DEF Logged
<1>10. ASSUME NEW e \in Events, EntryTrue(e) /\ ~Logged(e) /\ OrderKept(e)
       PROVE  EntryTrue(e)' /\ ~Logged(e)' /\ OrderKept(e)'
  <2>1. e.token \in Tokens
    BY DEF Events
  <2>2. Logged(e)' <=> Logged(e)
    BY <1>1 DEF Logged
  <2>3. EntryTrue(e)'
    BY <2>1, <1>10 DEF EntryTrue, Lasting, Stored, Revoked
  <2>4. OrderKept(e)'
    BY <2>1, <1>1, <1>10 DEF OrderKept, LoginMade, Logged
  <2>5. QED
    BY <1>10, <2>2, <2>3, <2>4
<1>11. OrderKept(h)' /\ ~Logged(h)'
  BY <1>1, <1>7, <1>9 DEF OrderKept, LoginMade, Logged
<1>12. PendingTrue'
  <2> SUFFICES ASSUME NEW p \in Requests, NEW i \in DOMAIN todo[p],
                      ToPush(p, i)'
               PROVE  /\ EntryTrue(todo[p][i])'
                      /\ ~Logged(todo[p][i])'
                      /\ OrderKept(todo[p][i])'
                      /\ \A q \in Requests : \A j \in DOMAIN todo[q] :
                           ToPush(q, j)' /\ todo[q][j] = todo[p][i]
                             => q = p /\ j = i
    BY <1>1 DEF PendingTrue, ToPush, At
  <2>1. PICK e : e = todo[p][i]
    OBVIOUS
  <2>2. ASSUME NEW q \in Requests, NEW j \in DOMAIN todo[q], ToPush(q, j)'
        PROVE  \/ q = r /\ todo[q][j] = h
               \/ q # r /\ ToPush(q, j) /\ EntryTrue(todo[q][j])
    BY <1>1, <1>8, <2>2 DEF PendingTrue, ToPush, At
  <2>3. CASE p = r
    <3>1. e = h
      BY <2>1, <2>2, <2>3
    <3>2. ASSUME NEW q \in Requests, NEW j \in DOMAIN todo[q], ToPush(q, j)',
                 todo[q][j] = h
          PROVE  q = p /\ j = i
      <4>1. q = r
        BY <1>7, <2>2, <3>2
      <4>2. todo[r][i].type \in DomainEvents
        BY <1>1, <2>3 DEF ToPush
      <4>3. QED
        BY <1>8, <2>3, <3>2, <4>1, <4>2
    <3>3. EntryTrue(e)' /\ ~Logged(e)' /\ OrderKept(e)'
      BY <1>7, <1>11, <3>1
    <3>4. QED
      BY <1>1, <2>1, <3>1, <3>2, <3>3
      DEF EntryTrue, OrderKept, Logged, Stored, Revoked, LoginMade
  <2>4. CASE p # r
    <3>1. ToPush(p, i) /\ e \in Events
      BY <1>4, <2>1, <2>2, <2>4
    <3>2. EntryTrue(e) /\ ~Logged(e) /\ OrderKept(e)
      BY <2>1, <3>1 DEF PendingTrue
    <3>3. EntryTrue(e)' /\ ~Logged(e)' /\ OrderKept(e)'
      BY <1>10, <3>1, <3>2
    <3>4. ASSUME NEW q \in Requests, NEW j \in DOMAIN todo[q], ToPush(q, j)',
                 todo[q][j] = e
          PROVE  q = p /\ j = i
      <4>1. q # r /\ ToPush(q, j)
        BY <1>7, <2>2, <3>2, <3>4
      <4>2. todo[q][j] = todo[p][i]
        BY <2>1, <3>4
      <4>3. QED
        BY <3>1, <4>1, <4>2, Zenon DEF PendingTrue
    <3>5. QED
      BY <1>1, <2>1, <3>3, <3>4
      DEF EntryTrue, OrderKept, Logged, Stored, Revoked, LoginMade
  <2>5. QED
    BY <2>3, <2>4
<1>13. AuditTruthful'
  <2>1. ASSUME NEW i \in 1 .. Len(audit)
        PROVE  /\ audit[i].type = "RefreshTokenCreated" =>
                    Stored(audit[i].token)'
               /\ audit[i].type = "RefreshTokenRevoked" =>
                    Revoked(audit[i].token)'
    <3>1. PICK e \in Events : e = audit[i]
      BY DEF IInv, TypeOK
    <3>2. e.token \in Tokens
      BY DEF Events
    <3>3. /\ e.type = "RefreshTokenCreated" => Stored(e.token)
          /\ e.type = "RefreshTokenRevoked" => Revoked(e.token)
      BY <3>1 DEF AuditTruthful
    <3>4. /\ Stored(e.token) => Stored(e.token)'
          /\ Revoked(e.token) => Revoked(e.token)'
      BY <3>2 DEF Lasting
    <3>5. QED
      BY <1>1, <3>1, <3>3, <3>4 DEF Stored, Revoked
  <2>2. QED
    BY <1>1, <2>1 DEF AuditTruthful, Stored, Revoked
<1>14. QED
  BY <1>12, <1>13

(* An event that the log does not take: the next one moves to the front.   *)
LEMMA LogShifts ==
  ASSUME IInv, PendingTrue, AuditTruthful, NEW r \in Requests,
         At(r, "publish"), todo[r] # <<>>,
         UNCHANGED <<audit, tokenTable, identity, pc>>,
         todo' \in [Requests -> Seq(Events)],
         \A q \in Requests \ {r} : todo'[q] = todo[q],
         todo'[r] = Tail(todo[r])
  PROVE  PendingTrue' /\ AuditTruthful'
<1> DEFINE Was(q, i) == IF q = r THEN i + 1 ELSE i
<1>1. ASSUME NEW q \in Requests, NEW i \in DOMAIN todo'[q], ToPush(q, i)'
      PROVE  /\ Was(q, i) \in DOMAIN todo[q] /\ ToPush(q, Was(q, i))
             /\ todo'[q][i] = todo[q][Was(q, i)] /\ (q = r => i \in Nat)
  <2>1. CASE q = r
    <3>1. /\ i \in Nat /\ i + 1 \in DOMAIN todo[r]
          /\ todo'[r][i] = todo[r][i + 1]
      BY <1>1, <2>1, HeadAndTail DEF IInv, TypeOK
    <3>2. QED
      BY <1>1, <2>1, <3>1 DEF ToPush, At
  <2>2. CASE q # r
    BY <1>1, <2>2 DEF ToPush, At
  <2>3. QED
    BY <2>1, <2>2
<1>2. PendingTrue'
  <2> SUFFICES ASSUME NEW p \in Requests, NEW i \in DOMAIN todo'[p],
                      ToPush(p, i)'
               PROVE  /\ EntryTrue(todo[p][i])'
                      /\ ~Logged(todo[p][i])'
                      /\ OrderKept(todo[p][i])'
                      /\ \A q \in Requests : \A j \in DOMAIN todo'[q] :
                           ToPush(q, j)' /\ todo'[q][j] = todo'[p][i]
                             => q = p /\ j = i
    BY DEF PendingTrue, ToPush, At
  <2>1. PICK e : e = todo'[p][i]
    OBVIOUS
  <2>2. PICK k : k = Was(p, i)
    OBVIOUS
  <2>3. k \in DOMAIN todo[p] /\ ToPush(p, k) /\ e = todo[p][k]
    BY <1>1, <2>1, <2>2
  <2>4. EntryTrue(e) /\ ~Logged(e) /\ OrderKept(e)
    BY <2>3 DEF PendingTrue
  <2>5. ASSUME NEW q \in Requests, NEW j \in DOMAIN todo'[q], ToPush(q, j)',
               todo'[q][j] = e
        PROVE  q = p /\ j = i
    <3>1. PICK l : l = Was(q, j)
      OBVIOUS
    <3>2. l \in DOMAIN todo[q] /\ ToPush(q, l) /\ todo[q][l] = todo[p][k]
      BY <1>1, <2>3, <2>5, <3>1
    <3>3. q = p /\ l = k
      BY <2>3, <3>2, Zenon DEF PendingTrue
    <3>4. j = i
      <4>1. CASE p = r
        BY <1>1, <2>2, <2>5, <3>1, <3>3, <4>1
      <4>2. CASE p # r
        BY <2>2, <3>1, <3>3, <4>2
      <4>3. QED
        BY <4>1, <4>2
    <3>5. QED
      BY <3>3, <3>4
  <2>6. QED
    BY <2>1, <2>4, <2>5
    DEF EntryTrue, OrderKept, Logged, Stored, Revoked, LoginMade
<1>3. AuditTruthful'
  BY DEF AuditTruthful, Stored, Revoked
<1>4. QED
  BY <1>2, <1>3

(* The other steps push nothing and have nothing new to push.              *)
LEMMA LogStep ==
  ASSUME IInv, Lasting, AuditInv, TypeOK', [Next]_vars
  PROVE  PendingTrue' /\ AuditTruthful'
<1> DEFINE Quiet == /\ UNCHANGED audit
                    /\ \A q \in Requests : \A i \in DOMAIN todo'[q] :
                         ToPush(q, i)' => /\ i \in DOMAIN todo[q]
                                          /\ ToPush(q, i)
                                          /\ todo'[q][i] = todo[q][i]
           Done == PendingTrue' /\ AuditTruthful'
<1>1. todo' \in [Requests -> Seq(Events)] /\ todo \in [Requests -> Seq(Events)]
  BY DEF IInv, TypeOK
<1>2. ASSUME Quiet PROVE Done
  BY <1>1, <1>2, LogUnchanged DEF AuditInv
<1>3. ASSUME NEW r \in Requests, Acts(r), UNCHANGED audit,
             \A i \in DOMAIN todo'[r] :
               pc'[r] = "publish" /\ todo'[r][i].type \in DomainEvents =>
                 ToPush(r, i) /\ todo'[r][i] = todo[r][i]
      PROVE  Done
  <2>1. \A q \in Requests \ {r} : Untouched(q)
    BY <1>3, OnlyOneActs DEF IInv
  <2>2. Quiet
    BY <1>3, <2>1 DEF Untouched, ToPush, At
  <2> HIDE DEF Quiet, Done
  <2>3. QED
    BY <2>2, <1>2
<1>4. ASSUME NEW r \in Requests, PushNext(r) PROVE Done
  <2>1. \A q \in Requests \ {r} : Untouched(q)
    BY <1>4, OnlyOneActs DEF Acts, Proceeds, IInv
  <2>2. /\ At(r, "publish") /\ todo[r] # <<>> /\ todo'[r] = Tail(todo[r])
        /\ UNCHANGED <<tokenTable, identity, pc>>
    BY <1>1, <1>4 DEF PushNext, dbVars, tokenVars
  <2>3. CASE Head(todo[r]).type \in DomainEvents
    <3>1. audit' = Append(audit, Head(todo[r]))
      BY <1>4, <2>3 DEF PushNext, Pushed
    <3>2. QED
      BY <1>1, <2>1, <2>2, <2>3, <3>1, LogGrows DEF AuditInv, Untouched
  <2>4. CASE Head(todo[r]).type \notin DomainEvents
    <3>1. UNCHANGED audit
      BY <1>4, <2>4 DEF PushNext, Pushed
    <3>2. QED
      BY <1>1, <2>1, <2>2, <3>1, LogShifts DEF AuditInv, Untouched
  <2>5. QED
    BY <2>3, <2>4
<1>5. ASSUME NEW r \in Requests, PushFails(r) PROVE Done
  <2>1. \A q \in Requests \ {r} : Untouched(q)
    BY <1>5, OnlyOneActs DEF Acts, Fails, IInv
  <2>2. /\ At(r, "publish") /\ todo[r] # <<>> /\ pc'[r] = "respond"
        /\ Head(todo[r]).type \in DomainEvents /\ todo'[r] = <<>>
        /\ UNCHANGED <<tokenTable, identity>>
    BY <1>1, <1>5 DEF PushFails, Answer, Goto, dbVars, tokenVars, IInv, TypeOK
  <2>3. CASE audit' = Append(audit, Head(todo[r]))
    BY <1>1, <2>1, <2>2, <2>3, LogGrows DEF AuditInv, Untouched
  <2>4. CASE audit' = audit
    <3>1. Quiet
      BY <2>1, <2>2, <2>4 DEF ToPush, At, Untouched
    <3> HIDE DEF Quiet, Done
    <3>2. QED
      BY <3>1, <1>2
  <2>5. QED
    BY <1>5, <2>2, <2>3, <2>4 DEF PushFails, Pushed
<1>6. ASSUME NEW r \in Requests, CommitAndPublish(r) PROVE Done
  BY <1>6, LogCommit
<1>7. ASSUME NEW r \in Requests, Arrives(r) PROVE Done
  <2>1. /\ UNCHANGED audit /\ pc'[r] # "publish"
    BY <1>7
    DEF Arrives, LoginNotFound, LoginSelect, TokenNotFound, TokenSelect,
        Answer, Goto, IInv, TypeOK
  <2>2. QED
    BY <1>3, <1>7, <2>1 DEF Acts
<1>8. ASSUME NEW r \in Requests,
             \/ LoginRefused(r) \/ UseInvalid(r) \/ SaveUserConflict(r)
             \/ SaveTokenConflict(r) \/ CommitRefresh(r) \/ Published(r)
             \/ CommitUnacknowledged(r) \/ DbFailure(r) \/ Respond(r)
             \/ ResponseLost(r)
      PROVE  Done
  <2>1. UNCHANGED audit /\ pc'[r] # "publish"
    BY <1>8
    DEF LoginRefused, UseInvalid, SaveUserConflict, SaveTokenConflict,
        CommitRefresh, Published, CommitUnacknowledged, DbFailure, Respond,
        ResponseLost, Answer, Forget, Goto, IInv, TypeOK
  <2>2. Acts(r)
    BY <1>8, Zenon DEF Acts, Proceeds, Saves, Fails
  <2>3. QED
    BY <1>3, <2>1, <2>2
<1>9. ASSUME NEW r \in Requests,
             \/ \E n \in Tokens : LoginCreate(r, n) \/ UseAndRotate(r, n)
             \/ UseReplaced(r) \/ Revoke(r) \/ InsertNew(r) \/ SaveUser(r)
             \/ SaveToken(r)
      PROVE  Done
  <2>1. UNCHANGED audit /\ pc'[r] # "publish"
    BY <1>9
    DEF LoginCreate, UseAndRotate, UseReplaced, Revoke, InsertNew, SaveUser,
        SaveToken, AfterSave, Goto, IInv, TypeOK
  <2>2. Acts(r)
    BY <1>9, Zenon DEF Acts, Proceeds, Saves, Fails
  <2>3. QED
    BY <1>3, <2>1, <2>2
<1>10. ASSUME NEW r \in Requests, ReuseSelect(r) PROVE Done
  <2>1. /\ UNCHANGED audit
        /\ todo'[r] \in {<<>>, <<Event("RefreshTokenReuseDetected", presented[r])>>}
    BY <1>1, <1>10 DEF ReuseSelect
  <2>2. \A i \in DOMAIN todo'[r] : todo'[r][i].type \notin DomainEvents
    BY <2>1 DEF Event, DomainEvents
  <2>3. Acts(r)
    BY <1>10, Zenon DEF Acts, Proceeds
  <2>4. QED
    BY <1>3, <2>1, <2>2, <2>3
<1>11. ASSUME Crash PROVE Done
  <2>1. Quiet
    BY <1>11 DEF Crash, Forget, ToPush, At
  <2> HIDE DEF Quiet, Done
  <2>2. QED
    BY <2>1, <1>2
<1>12. ASSUME Tick \/ UNCHANGED vars PROVE Done
  <2>1. Quiet
    BY <1>12 DEF Tick, vars, requestVars, ToPush, At
  <2> HIDE DEF Quiet, Done
  <2>2. QED
    BY <2>1, <1>2
<1>13. QED
  <2> HIDE DEF Quiet, Done
  <2>1. ASSUME NEW r \in Requests, Proceeds(r) \/ Saves(r) \/ Fails(r) PROVE Done
    BY <2>1, <1>4, <1>5, <1>6, <1>8, <1>9, <1>10, Zenon
    DEF Proceeds, Saves, Fails
  <2>2. Done
    BY <2>1, <1>7, <1>11, <1>12, Zenon DEF Next
  <2>3. QED
    BY <2>2 DEF Done

LEMMA TodoStep ==
  ASSUME IInv, \A r \in Requests : TodoKnown(r), [Next]_vars
  PROVE  \A r \in Requests : TodoKnown(r)'
<1> SUFFICES ASSUME NEW q \in Requests PROVE TodoKnown(q)'
  OBVIOUS
<1> DEFINE Done == TodoKnown(q)'
<1> SUFFICES Done
  OBVIOUS
<1>1. ASSUME NEW r \in Requests, r # q, Acts(r) PROVE Done
  BY <1>1, OnlyOneActs DEF IInv, Untouched, TodoKnown
<1>2. ASSUME Arrives(q) \/ Respond(q) \/ ResponseLost(q) PROVE Done
  <2>1. pc'[q] \in {"idle", "login", "use", "respond"}
    BY <1>2
    DEF Arrives, LoginNotFound, LoginSelect, TokenNotFound, TokenSelect,
        Answer, Respond, ResponseLost, Forget, Goto, IInv, TypeOK
  <2>2. QED
    BY <2>1 DEF TodoKnown
<1>3. ASSUME \/ LoginRefused(q) \/ UseInvalid(q) \/ SaveUserConflict(q)
             \/ SaveTokenConflict(q) \/ CommitRefresh(q) \/ Published(q)
             \/ CommitUnacknowledged(q) \/ DbFailure(q) \/ PushFails(q)
      PROVE  Done
  <2>1. pc'[q] = "respond"
    BY <1>3
    DEF LoginRefused, UseInvalid, SaveUserConflict, SaveTokenConflict,
        CommitRefresh, Published, CommitUnacknowledged, DbFailure, PushFails,
        Answer, Goto, IInv, TypeOK
  <2>2. QED
    BY <2>1 DEF TodoKnown
<1>4. ASSUME NEW n \in Tokens, LoginCreate(q, n) PROVE Done
  BY <1>4
  DEF LoginCreate, Create, Goto, At, inputVars, IInv, TypeOK, StepsMatchOps,
      CreatedEvent, TodoKnown
<1>5. ASSUME NEW n \in Tokens, UseAndRotate(q, n) PROVE Done
  BY <1>5 DEF UseAndRotate, Goto, inputVars, IInv, TypeOK, TodoKnown
<1>6. ASSUME Revoke(q) PROVE Done
  BY <1>6
  DEF Revoke, Goto, inputVars, IInv, TypeOK, RevokedEvent, RevocationEvents,
      TodoKnown
<1>7. ASSUME SaveUser(q) \/ SaveToken(q) \/ InsertNew(q) PROVE Done
  BY <1>7
  DEF SaveUser, SaveToken, AfterSave, InsertNew, Goto, At, inputVars, IInv,
      TypeOK, StepsMatchOps, TodoKnown
<1>8. ASSUME \/ UseReplaced(q) \/ ReuseSelect(q) \/ CommitAndPublish(q)
             \/ PushNext(q)
      PROVE  Done
  <2>1. pc'[q] \in {"reuse", "publish"}
    BY <1>8
    DEF UseReplaced, ReuseSelect, CommitAndPublish, PushNext, Goto, At, IInv,
        TypeOK
  <2>2. QED
    BY <2>1 DEF TodoKnown
<1>9. ASSUME Crash PROVE Done
  BY <1>9 DEF Crash, Forget, TodoKnown
<1>10. ASSUME Tick \/ UNCHANGED vars PROVE Done
  BY <1>10 DEF Tick, vars, requestVars, inputVars, TodoKnown
<1>11. QED
  <2> HIDE DEF Done
  <2>1. ASSUME Acts(q) PROVE Done
    BY <2>1, <1>2, <1>3, <1>4, <1>5, <1>6, <1>7, <1>8, Zenon
    DEF Acts, Proceeds, Saves, Fails
  <2>2. QED
    BY <2>1, <1>1, <1>9, <1>10, Zenon DEF Next, Acts

LEMMA SessionsStep ==
  ASSUME IInv, SessionsKnown, [Next]_vars
  PROVE  SessionsKnown'
<1>1. \A t \in Tokens : identity[t] # NoRow =>
        /\ identity'[t] = identity[t] /\ identity[t] \in Identities
        /\ identity[t].session \in Tokens
  BY IdentityStays DEF IInv, TypeOK, Identities
<1>2. ASSUME NEW r \in Requests, NEW n \in Tokens, LoginCreate(r, n)
      PROVE  SessionsKnown'
  <2>1. /\ identity' = [identity EXCEPT ![n] = NewToken(account[r], n)]
        /\ NewToken(account[r], n) \in Identities
    BY <1>2, SessionsAssumption
    DEF LoginCreate, Create, At, IInv, TypeOK, StepsMatchOps, NewToken,
        Identities, SessionsAssumption
  <2>2. NewToken(account[r], n).session = n
    BY DEF NewToken
  <2>3. NewToken(account[r], n) # NoRow
    BY <2>1, SessionsAssumption DEF SessionsAssumption
  <2>4. QED
    BY <1>1, <2>1, <2>2, <2>3 DEF SessionsKnown, IInv, TypeOK
<1>3. ASSUME NEW r \in Requests, NEW n \in Tokens, UseAndRotate(r, n)
      PROVE  SessionsKnown'
  <2>1. PICK t : t = presented[r]
    OBVIOUS
  <2>2. t \in Tokens /\ identity[t] # NoRow
    BY <1>3, <2>1
    DEF UseAndRotate, At, IInv, ReadsNotNewer, Spending, StoredIdentified
  <2>3. PICK e : e = NewToken(identity[t].user, identity[t].session)
    OBVIOUS
  <2>4. identity' = [identity EXCEPT ![n] = e] /\ e.session = identity[t].session
    BY <1>3, <2>1, <2>3 DEF UseAndRotate, Create, NewToken
  <2>5. /\ identity[e.session] # NoRow /\ e.session \in Tokens
        /\ e.session # n
    BY <1>1, <1>3, <2>2, <2>4 DEF SessionsKnown, UseAndRotate, Create, Fresh
  <2>6. QED
    BY <1>1, <2>4, <2>5 DEF SessionsKnown, IInv, TypeOK
<1>4. ASSUME UNCHANGED identity PROVE SessionsKnown'
  BY <1>4 DEF SessionsKnown
<1>5. ASSUME ~\E r \in Requests, n \in Tokens :
                LoginCreate(r, n) \/ UseAndRotate(r, n)
      PROVE  UNCHANGED identity
  BY <1>5
  DEF Next, Arrives, Proceeds, Saves, Fails, LoginNotFound, LoginSelect,
      TokenNotFound, TokenSelect, LoginRefused, UseReplaced, UseInvalid,
      Revoke, SaveUser, SaveUserConflict, SaveToken, SaveTokenConflict,
      InsertNew, ReuseSelect, CommitRefresh, CommitAndPublish,
      CommitUnacknowledged, DbFailure, PushNext, PushFails, Published, Respond,
      ResponseLost, Crash, Tick, vars
<1>6. QED
  BY <1>2, <1>3, <1>4, <1>5

(* The log and the set of known tokens only grow.                          *)
LEMMA LoggedStays ==
  ASSUME IInv, [Next]_vars
  PROVE  \A e : Logged(e) => Logged(e)'
<1>1. CASE UNCHANGED audit
  BY <1>1 DEF Logged
<1>2. ASSUME NEW h \in Events, audit' = Append(audit, h)
      PROVE  \A e : Logged(e) => Logged(e)'
  <2>1. /\ Len(audit) \in Nat /\ Len(audit') = Len(audit) + 1
        /\ \A i \in 1 .. Len(audit) : audit'[i] = audit[i]
    BY <1>2 DEF IInv, TypeOK
  <2>2. \A i \in 1 .. Len(audit) : i \in 1 .. Len(audit')
    BY <2>1
  <2>3. QED
    BY <2>1, <2>2 DEF Logged
<1>3. ASSUME NEW r \in Requests, PushNext(r) \/ PushFails(r)
      PROVE  UNCHANGED audit \/ \E h \in Events : audit' = Append(audit, h)
  <2>1. Head(todo[r]) \in Events
    BY <1>3, HeadAndTail DEF PushNext, PushFails, IInv, TypeOK
  <2>2. QED
    BY <1>3, <2>1 DEF PushNext, PushFails, Pushed
<1>4. ASSUME ~\E r \in Requests : PushNext(r) \/ PushFails(r)
      PROVE  UNCHANGED audit
  BY <1>4
  DEF Next, Arrives, Proceeds, Saves, Fails, LoginNotFound, LoginSelect,
      TokenNotFound, TokenSelect, LoginRefused, LoginCreate, UseAndRotate,
      UseReplaced, UseInvalid, Revoke, SaveUser, SaveUserConflict, SaveToken,
      SaveTokenConflict, InsertNew, ReuseSelect, CommitRefresh,
      CommitAndPublish, CommitUnacknowledged, DbFailure, Published, Respond,
      ResponseLost, Crash, Tick, vars
<1>5. QED
  BY <1>1, <1>2, <1>3, <1>4

(* What holds of a login's token once it is known stays so.                *)
LoginsLast ==
  /\ \A e : Logged(e) => Logged(e)'
  /\ \A t \in Tokens : identity[t] # NoRow => (LoginMade(t)' <=> LoginMade(t))

LEMMA LoginsStay == IInv /\ [Next]_vars => LoginsLast
<1> SUFFICES ASSUME IInv, [Next]_vars PROVE LoginsLast
  OBVIOUS
<1>1. \A t \in Tokens : identity[t] # NoRow => identity'[t] = identity[t]
  BY IdentityStays
<1>2. \A e : Logged(e) => Logged(e)'
  BY LoggedStays
<1>3. QED
  BY <1>1, <1>2 DEF LoginsLast, LoginMade

LEMMA CreatedKnown ==
  ASSUME IInv, CreatedKept, NEW r \in Requests, created[r] # NoToken
  PROVE  created[r] \in Tokens /\ identity[created[r]] # NoRow
  BY DEF IInv, TypeOK, CreatedKept, NewTokensPrivate, StoredIdentified, Stored

(* Only an answered request adds to what clients hold.                     *)
LEMMA Deliveries ==
  ASSUME IInv, [Next]_vars
  PROVE  \/ UNCHANGED delivered
         \/ \E r \in Requests :
              /\ At(r, "respond") /\ created[r] # NoToken
              /\ delivered' = delivered \union {created[r]}
<1>1. ASSUME NEW r \in Requests, Respond(r)
      PROVE  \/ UNCHANGED delivered
             \/ /\ At(r, "respond") /\ created[r] # NoToken
                /\ delivered' = delivered \union {created[r]}
  BY <1>1 DEF Respond
<1>2. ASSUME ~\E r \in Requests : Respond(r)
      PROVE  UNCHANGED delivered
  BY <1>2
  DEF Next, Arrives, Proceeds, Saves, Fails, LoginNotFound, LoginSelect,
      TokenNotFound, TokenSelect, LoginRefused, LoginCreate, UseAndRotate,
      UseReplaced, UseInvalid, Revoke, SaveUser, SaveUserConflict, SaveToken,
      SaveTokenConflict, InsertNew, ReuseSelect, CommitRefresh,
      CommitAndPublish, CommitUnacknowledged, DbFailure, PushNext, PushFails,
      Published, ResponseLost, Crash, Tick, vars
<1>3. QED
  BY <1>1, <1>2

LEMMA DeliveredStep ==
  ASSUME IInv, CreatedKept, DeliveredPersisted, AuditInv, LoginsLast,
         [Next]_vars
  PROVE  DeliveredLogged' /\ delivered \subseteq delivered'
<1>1. ASSUME NEW t \in Tokens, identity[t] # NoRow,
             LoginMade(t) => Logged(CreatedEvent(t))
      PROVE  LoginMade(t)' => Logged(CreatedEvent(t))'
  BY <1>1 DEF LoginsLast
<1>2. \A t \in delivered : /\ t \in Tokens /\ identity[t] # NoRow
                           /\ LoginMade(t) => Logged(CreatedEvent(t))
  BY DEF IInv, TypeOK, DeliveredPersisted, StoredIdentified, Stored, AuditInv,
         DeliveredLogged
<1>3. ASSUME NEW r \in Requests, At(r, "respond"), created[r] # NoToken
      PROVE  /\ created[r] \in Tokens /\ identity[created[r]] # NoRow
             /\ LoginMade(created[r]) => Logged(CreatedEvent(created[r]))
  BY <1>3, CreatedKnown DEF AuditInv, LoginTold
<1>4. QED
  BY <1>1, <1>2, <1>3, Deliveries
  DEF DeliveredLogged, Logged, LoginMade, CreatedEvent

LEMMA ToldStays ==
  ASSUME IInv, CreatedKept, LoginsLast, delivered \subseteq delivered',
         NEW q \in Requests, LoginTold(q), pc'[q] = pc[q], op'[q] = op[q],
         presented'[q] = presented[q], created'[q] = created[q],
         todo'[q] = todo[q]
  PROVE  LoginTold(q)'
<1>1. PICK c : c = created[q]
  OBVIOUS
<1>2. c = NoToken \/ (LoginMade(c)' <=> LoginMade(c))
  BY <1>1, CreatedKnown DEF LoginsLast
<1>3. Making(q) => c # NoToken
  BY <1>1, SessionsAssumption
  DEF IInv, NewTokensPrivate, SessionsAssumption
<1>4. QED
  BY <1>1, <1>2, <1>3
  DEF LoginTold, LoginsLast, At, Making, Logged, LoginMade, CreatedEvent

(* A request that holds no token and has not changed the one presented.    *)
LEMMA ToldNothing ==
  ASSUME NEW q \in Requests, LoginTold(q), delivered \subseteq delivered',
         presented'[q] \in {presented[q], NoToken} \union delivered,
         \/ created'[q] = NoToken
         \/ pc'[q] \notin {"publish", "respond"},
         pc'[q] \notin {"save_token", "insert", "commit"} \/ op'[q] # "refresh"
  PROVE  LoginTold(q)'
  BY DEF LoginTold, At, Making

LEMMA ToldByActor ==
  ASSUME IInv, CreatedKept, AuditInv, LoginsLast, delivered \subseteq delivered',
         NEW r \in Requests, Acts(r)
  PROVE  LoginTold(r)'
<1> DEFINE Done == LoginTold(r)'
<1> SUFFICES Done
  OBVIOUS
<1>1. LoginTold(r) /\ TodoKnown(r)
  BY DEF AuditInv
<1>2. ASSUME NEW o \in {"refresh", "revoke"}, NEW t \in delivered,
             TokenSelect(r, o, t)
      PROVE  Done
  BY <1>1, <1>2, ToldNothing DEF TokenSelect, Goto, IInv, TypeOK
<1>3. ASSUME NEW u \in Users, LoginSelect(r, u) PROVE Done
  BY <1>1, <1>3, ToldNothing DEF LoginSelect, Goto, IInv, TypeOK
<1>4. ASSUME Drops(r) PROVE Done
  <2>1. /\ created'[r] = NoToken /\ presented'[r] \in {presented[r], NoToken}
        /\ pc'[r] \in {"idle", "respond"}
    BY <1>4, SessionsAssumption
    DEF Drops, LoginNotFound, LoginRefused, SaveUserConflict, TokenNotFound,
        UseInvalid, SaveTokenConflict, CommitUnacknowledged, DbFailure,
        PushFails, Respond, ResponseLost, Answer, Forget, Goto, IInv, TypeOK
  <2>2. QED
    BY <1>1, <2>1, ToldNothing
<1>5. ASSUME NEW n \in Tokens, LoginCreate(r, n) PROVE Done
  BY <1>1, <1>5, ToldNothing
  DEF LoginCreate, Goto, At, inputVars, IInv, TypeOK
<1>6. ASSUME NEW n \in Tokens, UseAndRotate(r, n) PROVE Done
  <2>1. PICK t : t = presented[r]
    OBVIOUS
  <2>2. t \in Tokens /\ identity[t] # NoRow
    BY <1>6, <2>1
    DEF UseAndRotate, At, IInv, ReadsNotNewer, Spending, StoredIdentified
  <2>3. identity[t].session # n
    BY <1>6, <2>2 DEF AuditInv, SessionsKnown, UseAndRotate, Create, Fresh
  <2>4. identity'[n].session = identity[t].session
    BY <1>6, <2>1 DEF UseAndRotate, Create, NewToken, IInv, TypeOK
  <2>5. created'[r] = n /\ presented'[r] = t /\ pc'[r] = "save_token"
    BY <1>6, <2>1 DEF UseAndRotate, Create, Goto, inputVars, IInv, TypeOK
  <2>6. QED
    BY <1>1, <2>1, <2>3, <2>4, <2>5 DEF LoginTold, At, LoginMade
<1>7. ASSUME SaveUser(r) \/ SaveToken(r) \/ InsertNew(r) PROVE Done
  <2>1. PICK c : c = created[r]
    OBVIOUS
  <2>2. /\ created'[r] = c /\ presented'[r] = presented[r] /\ op'[r] = op[r]
        /\ pc'[r] \in {"insert", "commit"}
        /\ op[r] = "refresh" => Making(r)
    BY <1>7, <2>1
    DEF SaveUser, SaveToken, AfterSave, InsertNew, Goto, At, Making, inputVars,
        IInv, TypeOK, StepsMatchOps
  <2>3. op[r] = "refresh" => ~LoginMade(c)'
    BY <1>1, <2>1, <2>2 DEF LoginTold, LoginsLast, IInv, NewTokensPrivate
  <2>4. QED
    BY <1>1, <2>2, <2>3 DEF LoginTold, At, LoginMade
<1>8. ASSUME UseReplaced(r) \/ Revoke(r) PROVE Done
  BY <1>1, <1>8, ToldNothing
  DEF UseReplaced, Revoke, Goto, At, inputVars, IInv, TypeOK
<1>9. ASSUME ReuseSelect(r) PROVE Done
  <2>1. created[r] = NoToken
    BY <1>9 DEF ReuseSelect, At, CreatedKept, Making
  <2>2. QED
    BY <1>1, <1>9, <2>1, ToldNothing
    DEF ReuseSelect, Goto, inputVars, IInv, TypeOK
<1>10. ASSUME CommitAndPublish(r) PROVE Done
  <2>1. PICK c : c = created[r]
    OBVIOUS
  <2>2. /\ created'[r] = c /\ presented'[r] = presented[r] /\ op'[r] = op[r]
        /\ pc'[r] = "publish" /\ todo'[r] = todo[r]
    BY <1>10, <2>1 DEF CommitAndPublish, Goto, inputVars, IInv, TypeOK
  <2>3. c # NoToken => todo[r] = <<CreatedEvent(c)>>
    BY <1>1, <1>10, <2>1 DEF CommitAndPublish, At, CreatedKept, Making, TodoKnown
  <2>4. QED
    BY <1>1, <2>2, <2>3 DEF LoginTold, At, Making, CreatedEvent
<1>11. ASSUME CommitRefresh(r) PROVE Done
  <2>1. PICK c : c = created[r]
    OBVIOUS
  <2>2. /\ created'[r] = c /\ presented'[r] = presented[r]
        /\ pc'[r] = "respond"
    BY <1>11, <2>1 DEF CommitRefresh, Answer, Goto, IInv, TypeOK
  <2>3. ~LoginMade(c)'
    BY <1>1, <1>11, <2>1
    DEF CommitRefresh, At, Making, LoginTold, LoginsLast, IInv,
        NewTokensPrivate
  <2>4. QED
    BY <1>1, <2>2, <2>3 DEF LoginTold, At, Making, LoginMade
<1>12. ASSUME PushNext(r) PROVE Done
  <2>1. PICK c : c = created[r]
    OBVIOUS
  <2>2. /\ created'[r] = c /\ presented'[r] = presented[r]
        /\ pc'[r] = "publish" /\ At(r, "publish")
    BY <1>12, <2>1 DEF PushNext, At, inputVars
  <2>3. ASSUME todo[r] = <<CreatedEvent(c)>> PROVE Logged(CreatedEvent(c))'
    <3>1. audit' = Append(audit, CreatedEvent(c)) /\ audit \in Seq(Events)
      BY <1>12, <2>3
      DEF PushNext, Pushed, CreatedEvent, Event, DomainEvents, IInv, TypeOK
    <3>2. Len(audit') \in 1 .. Len(audit') /\ audit'[Len(audit')] = CreatedEvent(c)
      BY <3>1
    <3>3. QED
      BY <3>2 DEF Logged, CreatedEvent
  <2>4. c # NoToken /\ LoginMade(c)' => Logged(CreatedEvent(c))'
    BY <1>1, <2>1, <2>2, <2>3, CreatedKnown DEF LoginTold, LoginsLast
  <2>5. QED
    BY <1>1, <2>2, <2>4 DEF LoginTold, At, Making, LoginMade, Logged, CreatedEvent
<1>13. ASSUME Published(r) PROVE Done
  <2>1. PICK c : c = created[r]
    OBVIOUS
  <2>2. /\ created'[r] \in {c, NoToken} /\ presented'[r] = presented[r]
        /\ pc'[r] = "respond"
    BY <1>13, <2>1 DEF Published, Answer, Goto, IInv, TypeOK
  <2>3. c # NoToken /\ LoginMade(c) => Logged(CreatedEvent(c))
    BY <1>1, <1>13, <2>1 DEF Published, At, LoginTold
  <2>4. c # NoToken /\ LoginMade(c)' => Logged(CreatedEvent(c))'
    BY <2>1, <2>3, CreatedKnown DEF LoginsLast
  <2>5. QED
    BY <1>1, <2>2, <2>4 DEF LoginTold, At, Making, LoginMade, Logged, CreatedEvent
<1>14. QED
  <2> HIDE DEF Done
  <2>1. delivered \subseteq Tokens
    BY DEF IInv, TypeOK
  <2>2. ASSUME Arrives(r) PROVE Done
    BY <2>1, <2>2, <1>2, <1>3, <1>4 DEF Arrives, Drops
  <2>3. ASSUME Proceeds(r) \/ Saves(r) \/ Fails(r) PROVE Done
    BY <2>3, <1>4, <1>5, <1>6, <1>7, <1>8, <1>9, <1>10, <1>11, <1>12, <1>13,
       Zenon DEF Proceeds, Saves, Fails, Drops
  <2>4. QED
    BY <2>2, <2>3 DEF Acts

LEMMA ToldStep ==
  ASSUME IInv, CreatedKept, AuditInv, LoginsLast, delivered \subseteq delivered',
         [Next]_vars
  PROVE  \A q \in Requests : LoginTold(q)'
<1> SUFFICES ASSUME NEW q \in Requests PROVE LoginTold(q)'
  OBVIOUS
<1>1. LoginTold(q)
  BY DEF AuditInv
<1>2. CASE Acts(q)
  BY <1>2, ToldByActor
<1>3. ASSUME NEW r \in Requests, r # q, Acts(r) PROVE LoginTold(q)'
  <2>1. Untouched(q)
    BY <1>3, OnlyOneActs DEF IInv
  <2>2. QED
    BY <1>1, <2>1, ToldStays DEF Untouched
<1>4. CASE Crash
  BY <1>1, <1>4, ToldNothing DEF Crash, Forget
<1>5. CASE Tick \/ UNCHANGED vars
  BY <1>1, <1>5, ToldStays DEF Tick, vars, requestVars, inputVars
<1>6. QED
  BY <1>2, <1>3, <1>4, <1>5 DEF Next, Acts

(* What the audit log says has been committed and is said once, and a      *)
(* login's token is created in it before it is revoked, although requests  *)
(* publish after their commits and may fail or die in between.             *)
THEOREM AuditIsTruthful == Spec => []AuditTruthful
<1> DEFINE Audit == /\ RotationWellFormed /\ NewTokensInTime
                    /\ CreatedKept /\ DeliveredPersisted /\ AuditInv
<1>1. Init => Audit
  <2> SUFFICES ASSUME Init PROVE Audit
    OBVIOUS
  <2>1. RotationWellFormed /\ NewTokensInTime /\ CreatedKept /\ DeliveredPersisted
    BY DEF Init, T!TableInit, RotationWellFormed, NewTokensInTime, Stored,
           Making, CreatedKept, DeliveredPersisted
  <2>2. /\ \A r \in Requests : TodoKnown(r) /\ LoginTold(r)
        /\ PendingTrue /\ DeliveredLogged /\ SessionsKnown
    BY SessionsAssumption
    DEF Init, TodoKnown, LoginTold, PendingTrue, DeliveredLogged,
        SessionsKnown, ToPush, At, Making
  <2>3. AuditTruthful
    BY DEF Init, AuditTruthful
  <2>4. QED
    BY <2>1, <2>2, <2>3 DEF AuditInv
<1>2. IInv /\ Audit /\ [Next]_vars /\ IInv' /\ DeliveredPersisted' => Audit'
  <2> SUFFICES ASSUME IInv, Audit, [Next]_vars, IInv', DeliveredPersisted'
               PROVE  Audit'
    OBVIOUS
  <2>1. RotationWellFormed' /\ NewTokensInTime' /\ CreatedKept'
    BY InTimeStep, RotationStep, CreatedKeptStep
  <2>2. Lasting /\ LoginsLast /\ TypeOK'
    BY KnownLasts, LoginsStay DEF IInv
  <2>3. PendingTrue' /\ AuditTruthful'
    BY <2>2, LogStep
  <2>4. DeliveredLogged' /\ delivered \subseteq delivered'
    BY <2>2, DeliveredStep
  <2>5. /\ \A r \in Requests : LoginTold(r)'
        /\ \A r \in Requests : TodoKnown(r)'
        /\ SessionsKnown'
    BY <2>2, <2>4, ToldStep, TodoStep, SessionsStep DEF AuditInv
  <2>6. QED
    BY <2>1, <2>3, <2>4, <2>5 DEF AuditInv
<1>3. Audit => AuditTruthful
  BY DEF AuditInv
<1>4. QED
  BY Invariant, ClientTokensStored, <1>1, <1>2, <1>3, PTL DEF Spec

=============================================================================
