----------------------- MODULE AccountLifecycleProofs -----------------------
(***************************************************************************)
(* Theorems about AccountLifecycle, for any number of users, tokens and    *)
(* concurrent requests: what is committed is what was decided, no request  *)
(* waits for one that waits, answers and notifications are true, every     *)
(* commit is a step of Accounts, and the audit log tells facts.            *)
(***************************************************************************)
EXTENDS AccountLifecycle, FiniteSetTheorems, TLAPS

Decided(r) == pc[r] \in {"save_user", "save_token", "commit"}
Issues(r) == Op(r) \in {"register", "recover_request"}
UsesToken(r) == Op(r) \in TokenOps
Creates(r) == Op(r) = "register" /\ seenUser[r] = NoRow

(* What a request knows at each of its steps, from its own variables.      *)
IdleShape(r) ==
  At(r, "idle") =>
    /\ input[r] = NoRow
    /\ user[r] = NoUser /\ seenUser[r] = NoRow
    /\ token[r] = NoToken /\ seenToken[r] = NoRow

ReadShape(r) ==
  /\ ~At(r, "idle") => input[r] \in Inputs
  /\ seenUser[r] # NoRow => user[r] \in Users
  /\ seenToken[r] # NoRow =>
       /\ UsesToken(r) /\ token[r] \in Tokens
       /\ user[r] = seenToken[r].data.user
  /\ At(r, "load_user") \/ At(r, "decide") \/ Decided(r) =>
       (UsesToken(r) <=> seenToken[r] # NoRow)
  /\ At(r, "load_user") => UsesToken(r)
  /\ At(r, "decide") \/ Decided(r) =>
       (seenUser[r] = NoRow => Op(r) = "register")
  /\ ~At(r, "idle") /\ Op(r) \in {"login", "change_password"} =>
       token[r] = NoToken
  /\ At(r, "decide") /\ ~UsesToken(r) => token[r] = NoToken

(* What was decided on stays as the request has seen it.                   *)
DecisionShape(r) ==
  Decided(r) =>
    /\ user[r] \in Users
    /\ Issues(r) => token[r] \in Tokens
    /\ At(r, "save_token") => Issues(r) \/ UsesToken(r)
    /\ Op(r) = "register" /\ seenUser[r] # NoRow => ~Stored(r).verified
    /\ Op(r) = "verify_email" =>
         /\ ~Stored(r).verified
         /\ seenToken[r].data.purpose = VERIFY_EMAIL
    /\ Op(r) = "recover" => seenToken[r].data.purpose = RECOVER_PASSWORD
    /\ UsesToken(r) => ~seenToken[r].data.used
    /\ Op(r) \in {"login", "recover_request", "change_password"} =>
         Stored(r).verified

(* The notifications among the events are about the token that was made.   *)
TodoShape(r) ==
  /\ ~(Decided(r) \/ At(r, "publish")) => todo[r] = <<>>
  /\ \A i \in DOMAIN todo[r] :
       IsNotification(todo[r][i]) =>
         Issues(r) /\ token[r] \in Tokens /\ todo[r][i].token = token[r]

(* A refusal that is about a row comes from a request that has read it.    *)
AnswerShape(r) ==
  /\ ~At(r, "respond") => outcome[r] = "none"
  /\ At(r, "respond") =>
       /\ \/ outcome[r] \in {"UserAlreadyExists", "ConcurrencyError"}
          \/ outcome[r] = "UserError" /\ Op(r) = "verify_email"
          => seenUser[r] # NoRow
       /\ outcome[r] = "TokenError" => seenToken[r] # NoRow

Shape(r) ==
  /\ IdleShape(r)
  /\ ReadShape(r)
  /\ DecisionShape(r)
  /\ TodoShape(r)
  /\ AnswerShape(r)

RequestShapes == \A r \in Requests : Shape(r)

(* Rows only grow: what identifies them stays, what was granted stays.     *)
UserGrown(old, new) ==
  /\ new # NoRow
  /\ new = old \/ old.version < new.version
  /\ new.data.email = old.data.email
  /\ old.data.verified => new.data.verified
OttGrown(old, new) ==
  /\ new # NoRow
  /\ new = old \/ old.version < new.version
  /\ new.data.user = old.data.user
  /\ new.data.purpose = old.data.purpose
  /\ new.data.expires = old.data.expires
  /\ old.data.used => new.data.used

(* What a request has read is the committed row or an older one.           *)
ReadsNotNewer ==
  \A r \in Requests :
    /\ seenUser[r] # NoRow => UserGrown(seenUser[r], Row(user[r]))
    /\ seenToken[r] # NoRow => OttGrown(seenToken[r], Ott(token[r]))
    /\ seenUser[r] # NoRow /\ Op(r) = "change_password" => Stored(r).verified

(* The keys of new rows belong to one request until they are committed.    *)
KeysPrivate ==
  \A r \in Requests :
    Decided(r) =>
      /\ Creates(r) =>
           /\ Row(user[r]) = NoRow
           /\ \A q \in Requests \ {r} : user[q] # user[r]
      /\ Issues(r) =>
           /\ Ott(token[r]) = NoRow
           /\ \A q \in Requests \ {r} : token[q] # token[r]

(* A written row stays locked, and the row it replaces stays the one that  *)
(* was read, until the transaction ends.                                   *)
NewUserRow(r) ==
  [version |-> IF seenUser[r] = NoRow THEN 1 ELSE seenUser[r].version + 1,
   data |-> UserEntity(r)]
NewOttRow(r) ==
  [version |-> IF seenToken[r] = NoRow THEN 1 ELSE seenToken[r].version + 1,
   data |-> OttEntity(r)]
UserRowHeld(r) ==
  pc[r] \in {"save_token", "commit"} =>
    /\ userHolder[user[r]] = r
    /\ userDraft[user[r]] = NewUserRow(r)
    /\ Row(user[r]) = seenUser[r]
OttRowHeld(r) ==
  At(r, "commit") /\ (Issues(r) \/ UsesToken(r)) =>
    /\ ottHolder[token[r]] = r
    /\ ottDraft[token[r]] = NewOttRow(r)
    /\ Ott(token[r]) = seenToken[r]
WritesHeld == \A r \in Requests : UserRowHeld(r) /\ OttRowHeld(r)

(* No other row is locked.                                                 *)
HoldersWrite ==
  \A r \in Requests :
    /\ \A u \in Users :
         userHolder[u] = r =>
           pc[r] \in {"save_token", "commit"} /\ u = user[r]
    /\ \A t \in Tokens :
         ottHolder[t] = r =>
           At(r, "commit") /\ (Issues(r) \/ UsesToken(r)) /\ t = token[r]

(* The email of an uncommitted account is nobody else's.                   *)
Inserted(r) == pc[r] \in {"save_token", "commit"} /\ Creates(r)
NewEmailsFree ==
  \A r \in Requests :
    Inserted(r) =>
      /\ ~EmailTaken(input[r].email.address)
      /\ \A q \in Requests \ {r} :
           Inserted(q) => input[q].email.address # input[r].email.address

(* A stored token belongs to a stored account and is written once more,    *)
(* when it is used.                                                        *)
TokensStored ==
  \A t \in Tokens :
    Ott(t) # NoRow =>
      /\ Row(Ott(t).data.user) # NoRow
      /\ Ott(t).version = IF Ott(t).data.used THEN 2 ELSE 1

(* Only verified accounts have access tokens.                              *)
AccessVerified ==
  /\ \A u \in Users :
       access[u] > 0 => Row(u) # NoRow /\ Row(u).data.verified
  /\ \A r \in Requests :
       outcome[r] = "ok" /\ Op(r) = "login" =>
         /\ user[r] \in Users
         /\ Row(user[r]) # NoRow /\ Row(user[r]).data.verified

(* Notifications still to be published are about committed tokens.         *)
PublishesCommitted ==
  \A r \in Requests :
    /\ At(r, "publish") =>
         /\ Op(r) = "login" => user[r] \in Users /\ Row(user[r]) # NoRow
                               /\ Row(user[r]).data.verified
         /\ Issues(r) => token[r] \in Tokens /\ Ott(token[r]) # NoRow

IInv ==
  /\ TypeOK
  /\ RequestShapes
  /\ ReadsNotNewer
  /\ KeysPrivate
  /\ WritesHeld
  /\ HoldersWrite
  /\ NewEmailsFree
  /\ TokensStored
  /\ AccessVerified
  /\ PublishesCommitted
  /\ NotifiedPersisted
  /\ RefusalsJustified

-----------------------------------------------------------------------------
(* Types                                                                   *)

LEMMA InputFields ==
  ASSUME NEW in \in Inputs
  PROVE  /\ in # NoRow
         /\ in.op \in Ops
         /\ in.op \in EmailOps => in.email \in RawEmails
                                  /\ in.email.address \in Addresses
         /\ in.op \in {"register", "change_password", "recover"} =>
              in.password \in RawPasswords /\ in.password.word \in Words
  BY LifecycleAssumption
  DEF Inputs, Ops, EmailOps, TokenOps, RawEmails, RawPasswords

LEMMA RowFields ==
  /\ \A row \in UserRows :
       /\ row # NoRow /\ row.data # NoRow
       /\ row.version \in Nat \ {0} /\ row.data \in UserData
       /\ row.data.email \in Addresses /\ row.data.password \in Words
       /\ row.data.verified \in BOOLEAN
  /\ \A row \in OttRows :
       /\ row # NoRow
       /\ row.version \in Nat \ {0} /\ row.data \in OttData
       /\ row.data.user \in Users /\ row.data.purpose \in Purposes
       /\ row.data.expires \in Nat /\ row.data.used \in BOOLEAN
  BY LifecycleAssumption DEF UserRows, UserData, OttRows, OttData

(* What a request that has decided is going to write.                      *)
LEMMA EntityTypes ==
  ASSUME TypeOK, RequestShapes, NEW r \in Requests, Decided(r)
  PROVE  /\ UserEntity(r) \in UserData /\ NewUserRow(r) \in UserRows
         /\ Issues(r) \/ UsesToken(r) =>
              OttEntity(r) \in OttData /\ NewOttRow(r) \in OttRows
<1>1. /\ input[r] \in Inputs /\ user[r] \in Users
      /\ seenUser[r] = NoRow => Op(r) = "register"
      /\ UsesToken(r) <=> seenToken[r] # NoRow
  BY DEF RequestShapes, Shape, ReadShape, DecisionShape, Decided, At
<1>2. /\ seenUser[r] # NoRow => seenUser[r] \in UserRows
      /\ seenToken[r] # NoRow => seenToken[r] \in OttRows
      /\ expires[r] \in Nat
  BY DEF TypeOK
<1>3. UserEntity(r) \in UserData
  <2>1. CASE seenUser[r] = NoRow
    BY <1>1, <2>1, InputFields DEF UserEntity, UserData, Op, EmailOps
  <2>2. CASE seenUser[r] # NoRow
    BY <1>1, <1>2, <2>2, InputFields, RowFields
    DEF UserEntity, UserData, Op, Stored
  <2>3. QED
    BY <2>1, <2>2
<1>4. NewUserRow(r) \in UserRows
  BY <1>2, <1>3, RowFields DEF NewUserRow, UserRows
<1>5. ASSUME Issues(r) \/ UsesToken(r) PROVE OttEntity(r) \in OttData
  <2>1. CASE seenToken[r] # NoRow
    BY <1>2, <2>1, RowFields DEF OttEntity, OttData
  <2>2. CASE seenToken[r] = NoRow
    BY <1>1, <1>2, <2>2 DEF OttEntity, OttData, Purposes
  <2>3. QED
    BY <2>1, <2>2
<1>6. ASSUME Issues(r) \/ UsesToken(r) PROVE NewOttRow(r) \in OttRows
  BY <1>2, <1>5, <1>6, RowFields DEF NewOttRow, OttRows
<1>7. QED
  BY <1>3, <1>4, <1>5, <1>6

(* A commit takes the rows of the tables from the drafts.                  *)
DatabaseTypes ==
  /\ userTable \in [Users -> UserRows \union {NoRow}]
  /\ userDraft \in [Users -> UserRows \union {NoRow}]
  /\ userHolder \in [Users -> Requests \union {NoRequest}]
  /\ ottTable \in [Tokens -> OttRows \union {NoRow}]
  /\ ottDraft \in [Tokens -> OttRows \union {NoRow}]
  /\ ottHolder \in [Tokens -> Requests \union {NoRequest}]

LEMMA EndTypes ==
  ASSUME TypeOK, NEW r \in Requests, Commit(r) \/ Rollback(r)
  PROVE  DatabaseTypes'
<1>1. CASE Commit(r)
  BY <1>1 DEF TypeOK, DatabaseTypes, Commit, U!Commit, U!Release, O!Commit,
              O!Release
<1>2. CASE Rollback(r)
  BY <1>2 DEF TypeOK, DatabaseTypes, Rollback, U!Rollback, U!Release,
              O!Rollback, O!Release
<1>3. QED
  BY <1>1, <1>2

LEMMA EventTyped ==
  /\ \A u \in Users, t \in Tokens \union {NoToken}, type \in EventTypes :
       /\ Event(type, u, t) \in Events
       /\ Event(type, u, t).type = type
       /\ Event(type, u, t).token = t
  /\ \A e, f \in Events : <<e>> \in Seq(Events) /\ <<e, f>> \in Seq(Events)
<1>1. \A u \in Users, t \in Tokens \union {NoToken}, type \in EventTypes :
        /\ Event(type, u, t) \in Events
        /\ Event(type, u, t).type = type
        /\ Event(type, u, t).token = t
  BY DEF Event, Events
<1>2. \A e, f \in Events : <<e>> \in Seq(Events) /\ <<e, f>> \in Seq(Events)
  OBVIOUS
<1>3. QED
  BY <1>1, <1>2

LEMMA LoggedType ==
  ASSUME TypeOK, NEW event \in Events, ~IsNotification(event)
  PROVE  Logged(audit, event) \in [Users -> [AuditTypes -> Nat]]
<1>1. event.user \in Users /\ event.type \in AuditTypes
  BY DEF Events, IsNotification, EventTypes
<1>2. audit[event.user] \in [AuditTypes -> Nat]
  BY <1>1 DEF TypeOK
<1> DEFINE entries == [audit[event.user] EXCEPT ![event.type] = @ + 1]
<1>3. entries \in [AuditTypes -> Nat]
  BY <1>1, <1>2
<1>4. Logged(audit, event) = [audit EXCEPT ![event.user] = entries]
  BY DEF Logged
<1> HIDE DEF entries
<1>5. QED
  BY <1>1, <1>3, <1>4 DEF TypeOK

LEMMA TypeStep == IInv /\ [Next]_vars => TypeOK'
<1> SUFFICES ASSUME IInv, [Next]_vars PROVE TypeOK'
  OBVIOUS
<1> USE DEF IInv, TypeOK
<1>1. ASSUME NEW r \in Requests, NEW in \in Inputs, NEW u \in Users,
             SelectByEmail(r, in, u) \/ SelectByAccessToken(r, in, u)
      PROVE  TypeOK'
  <2>1. U!Visible(r, u) \in UserRows \union {NoRow}
    BY DEF U!Visible
  <2>2. CASE SelectByEmail(r, in, u)
    BY <2>1, <2>2 DEF SelectByEmail, Arrive, Goto, Steps, dbVars, userVars,
                      ottVars
  <2>3. CASE SelectByAccessToken(r, in, u)
    BY <2>1, <2>3 DEF SelectByAccessToken, Arrive, Goto, Steps, dbVars,
                      userVars, ottVars, clientVars
  <2>4. QED
    BY <1>1, <2>2, <2>3
<1>2. ASSUME NEW r \in Requests, NEW in \in Inputs,
             EmailNotFound(r, in) \/ AccessExpired(r, in) \/ TokenNotFound(r, in)
      PROVE  TypeOK'
  <2>1. CASE EmailNotFound(r, in)
    <3>1. Arrive(r, in)
      BY <2>1, Zenon DEF EmailNotFound
    <3>2. UNCHANGED <<dbVars, now, user, seenUser, token, seenToken, expires,
                      notifications, mailbox, access, audit>>
      BY <2>1, Zenon DEF EmailNotFound
    <3>3. \/ Goto(r, "decide") /\ UNCHANGED <<todo, outcome>>
          \/ Answer(r, "UserNotFound")
      BY <2>1, Zenon DEF EmailNotFound
    <3>4. /\ pc' \in [Requests -> Steps]
          /\ todo' \in [Requests -> Seq(Events)]
          /\ outcome' \in [Requests -> Outcomes]
      <4>1. CASE Goto(r, "decide") /\ UNCHANGED <<todo, outcome>>
        BY <4>1 DEF Goto, Steps
      <4>2. CASE Answer(r, "UserNotFound")
        BY <4>2 DEF Answer, Goto, Steps, Outcomes, BaseErrors
      <4>3. QED
        BY <3>3, <4>1, <4>2
    <3>5. /\ input' \in [Requests -> Inputs \union {NoRow}]
          /\ arrivals' \in Nat
      BY <3>1 DEF Arrive
    <3>6. QED
      BY <3>2, <3>4, <3>5 DEF dbVars, userVars, ottVars
  <2>2. CASE AccessExpired(r, in)
    BY <2>2 DEF AccessExpired, Arrive, Answer, Goto, Steps, Outcomes,
                BaseErrors, dbVars, userVars, ottVars
  <2>3. CASE TokenNotFound(r, in)
    BY <2>3 DEF TokenNotFound, Arrive, Answer, Goto, Steps, Outcomes,
                BaseErrors, dbVars, userVars, ottVars
  <2>4. QED
    BY <1>2, <2>1, <2>2, <2>3
<1>3. ASSUME NEW r \in Requests, NEW in \in Inputs, NEW t \in mailbox,
             SelectToken(r, in, t)
      PROVE  TypeOK'
  <2>1. t \in Tokens /\ O!Visible(r, t) \in OttRows
    BY <1>3 DEF SelectToken, O!Visible
  <2>2. O!Visible(r, t).data.user \in Users
    BY <2>1, RowFields
  <2>3. QED
    BY <1>3, <2>1, <2>2 DEF SelectToken, Arrive, Goto, Steps, dbVars,
                            userVars, ottVars
<1>4. ASSUME NEW r \in Requests, LoadUser(r) PROVE TypeOK'
  <2>1. user[r] \in Users
    <3>1. seenToken[r] # NoRow /\ user[r] = seenToken[r].data.user
      BY <1>4 DEF LoadUser, RequestShapes, Shape, ReadShape
    <3>2. QED
      BY <3>1, RowFields
  <2>2. U!Visible(r, user[r]) \in UserRows \union {NoRow}
    BY <2>1 DEF U!Visible
  <2>3. QED
    BY <1>4, <2>2 DEF LoadUser, Goto, Steps, dbVars, userVars, ottVars,
                      clientVars
<1>5. ASSUME NEW r \in Requests, NEW out \in BaseErrors, Refused(r, out)
      PROVE  TypeOK'
  <2>1. DatabaseTypes'
    BY <1>5, EndTypes DEF Refused
  <2>2. QED
    BY <1>5, <2>1 DEF Refused, DatabaseTypes, Answer, Goto, Steps, Outcomes,
                      localVars, clientVars
<1>6. ASSUME NEW r \in Requests, NEW u \in Users, NEW t \in Tokens,
             AcceptNewUser(r, u, t)
      PROVE  TypeOK'
  <2>1. <<Event("UserCreated", u, NoToken),
          Event("UserEmailVerificationRequested", u, t)>> \in Seq(Events)
    BY EventTyped DEF EventTypes, AuditTypes, NotificationTypes
  <2>2. now + Lifetime[VERIFY_EMAIL] \in Nat
    BY LifecycleAssumption DEF Purposes
  <2>3. QED
    BY <1>6, <2>1, <2>2
    DEF AcceptNewUser, Accepts, MakeToken, Goto, Steps, dbVars, userVars,
        ottVars, clientVars
<1>7. ASSUME NEW r \in Requests, NEW t \in Tokens, AcceptOldUser(r, t)
      PROVE  TypeOK'
  <2>1. user[r] \in Users
    BY <1>7 DEF AcceptOldUser, RequestShapes, Shape, ReadShape
  <2>2. /\ <<Event("UserEmailVerificationRequested", user[r], t)>>
             \in Seq(Events)
        /\ <<Event("UserPasswordRecoverRequested", user[r], t)>>
             \in Seq(Events)
    BY <2>1, EventTyped DEF EventTypes, AuditTypes, NotificationTypes
  <2>3. \A purpose \in Purposes : now + Lifetime[purpose] \in Nat
    BY LifecycleAssumption
  <2>4. /\ todo' \in [Requests -> Seq(Events)]
        /\ token' \in [Requests -> Tokens \union {NoToken}]
        /\ expires' \in [Requests -> Nat]
    <3>1. PICK purpose \in Purposes : MakeToken(r, t, purpose)
      BY <1>7 DEF AcceptOldUser, Purposes
    <3>2. \E events \in Seq(Events) : todo' = [todo EXCEPT ![r] = events]
      BY <1>7, <2>2 DEF AcceptOldUser
    <3>3. QED
      BY <2>3, <3>1, <3>2 DEF MakeToken
  <2>5. QED
    BY <1>7, <2>4
    DEF AcceptOldUser, Accepts, Goto, Steps, dbVars, userVars, ottVars,
        clientVars
<1>8. ASSUME NEW r \in Requests, AcceptUpdate(r) PROVE TypeOK'
  <2>1. user[r] \in Users
    <3>1. seenUser[r] # NoRow
      BY <1>8 DEF AcceptUpdate, Accepts, EventOf, RequestShapes, Shape,
                  ReadShape
    <3>2. QED
      BY <3>1 DEF RequestShapes, Shape, ReadShape
  <2>2. EventOf[Op(r)] \in EventTypes
    BY <1>8 DEF AcceptUpdate, EventOf, EventTypes, AuditTypes
  <2>3. <<Event(EventOf[Op(r)], user[r], NoToken)>> \in Seq(Events)
    BY <2>1, <2>2, EventTyped
  <2>4. QED
    BY <1>8, <2>3
    DEF AcceptUpdate, Accepts, Goto, Steps, dbVars, userVars, ottVars,
        localVars, clientVars
<1>9. ASSUME NEW r \in Requests, AcceptLogin(r) PROVE TypeOK'
  BY <1>9, LifecycleAssumption
  DEF AcceptLogin, Accepts, Goto, Steps, dbVars, userVars, ottVars, clientVars
<1>10. ASSUME NEW r \in Requests, InsertUser(r) \/ UpdateUser(r)
       PROVE  TypeOK'
  <2>1. user[r] \in Users
    BY <1>10 DEF InsertUser, UpdateUser, RequestShapes, Shape, DecisionShape,
                 Decided, At
  <2>2. UserEntity(r) \in UserData
    BY <1>10, EntityTypes DEF InsertUser, UpdateUser, Decided, At
  <2>3. /\ [version |-> 1, data |-> UserEntity(r)] \in UserRows
        /\ seenUser[r] # NoRow =>
             [version |-> seenUser[r].version + 1, data |-> UserEntity(r)]
               \in UserRows
    BY <2>2, RowFields DEF UserRows
  <2>4. QED
    <3>1. CASE InsertUser(r)
      BY <2>1, <2>3, <3>1
      DEF InsertUser, U!Insert, U!Write, AfterSaveUser, Goto, Steps, ottVars,
          localVars, clientVars
    <3>2. CASE UpdateUser(r)
      BY <2>1, <2>3, <3>2
      DEF UpdateUser, U!Update, U!Write, AfterSaveUser, Goto, Steps, ottVars,
          localVars, clientVars
    <3>3. QED
      BY <1>10, <3>1, <3>2
<1>11. ASSUME NEW r \in Requests,
              \/ InsertUserFails(r) \/ UpdateTokenConflict(r)
              \/ CommitUnacknowledged(r) \/ DbFailure(r)
       PROVE  TypeOK'
  <2>1. DatabaseTypes'
    BY <1>11, EndTypes DEF InsertUserFails, UpdateTokenConflict,
                           CommitUnacknowledged, DbFailure
  <2>2. QED
    <3>1. \E out \in Outcomes : Answer(r, out)
      BY <1>11 DEF InsertUserFails, UpdateTokenConflict, CommitUnacknowledged,
                   DbFailure, Outcomes, BaseErrors
    <3>2. UNCHANGED <<now, localVars, notifications, clientVars, audit>>
      BY <1>11 DEF InsertUserFails, UpdateTokenConflict, CommitUnacknowledged,
                   DbFailure
    <3>3. QED
      BY <2>1, <3>1, <3>2
      DEF DatabaseTypes, Answer, Goto, Steps, localVars, clientVars
<1>12. ASSUME NEW r \in Requests, UpdateUserConflict(r) PROVE TypeOK'
  BY <1>12
  DEF UpdateUserConflict, U!Conflict, U!tableVars, Answer, Goto, Steps,
      Outcomes, BaseErrors, ottVars, localVars, clientVars
<1>13. ASSUME NEW r \in Requests, InsertToken(r) \/ UpdateToken(r)
       PROVE  TypeOK'
  <2>1. Decided(r) /\ (Issues(r) \/ UsesToken(r))
    BY <1>13 DEF InsertToken, UpdateToken, RequestShapes, Shape,
                 DecisionShape, Decided, At
  <2>2. OttEntity(r) \in OttData
    BY <2>1, EntityTypes
  <2>3. /\ [version |-> 1, data |-> OttEntity(r)] \in OttRows
        /\ seenToken[r] # NoRow =>
             [version |-> seenToken[r].version + 1, data |-> OttEntity(r)]
               \in OttRows
    BY <2>2, RowFields DEF OttRows
  <2>4. QED
    <3>1. CASE InsertToken(r)
      BY <2>3, <3>1
      DEF InsertToken, O!Insert, O!Write, Goto, Steps, userVars, localVars,
          clientVars
    <3>2. CASE UpdateToken(r)
      BY <2>3, <3>2
      DEF UpdateToken, O!Update, O!Write, Goto, Steps, userVars, localVars,
          clientVars
    <3>3. QED
      BY <1>13, <3>1, <3>2
<1>14. ASSUME NEW r \in Requests, CommitAndPublish(r) PROVE TypeOK'
  <2>1. DatabaseTypes'
    BY <1>14, EndTypes DEF CommitAndPublish
  <2>2. QED
    BY <1>14, <2>1 DEF CommitAndPublish, DatabaseTypes, Goto, Steps,
                       localVars, clientVars
<1>15. ASSUME NEW r \in Requests, PublishNext(r) PROVE TypeOK'
  <2>1. Head(todo[r]) = todo[r][1] /\ 1 \in DOMAIN todo[r]
        /\ Head(todo[r]) \in Events /\ Tail(todo[r]) \in Seq(Events)
    BY <1>15 DEF PublishNext
  <2>2. IsNotification(Head(todo[r])) => Head(todo[r]).token \in Tokens
    BY <2>1 DEF RequestShapes, Shape, TodoShape
  <2>3. ~IsNotification(Head(todo[r])) =>
          Logged(audit, Head(todo[r])) \in [Users -> [AuditTypes -> Nat]]
    BY <2>1, LoggedType
  <2>4. /\ notifications' \subseteq Tokens
        /\ audit' \in [Users -> [AuditTypes -> Nat]]
    BY <1>15, <2>2, <2>3 DEF PublishNext
  <2>5. QED
    BY <1>15, <2>1, <2>4
    DEF PublishNext, dbVars, userVars, ottVars, localVars, clientVars
<1>16. ASSUME NEW r \in Requests, PushFails(r) PROVE TypeOK'
  <2>1. Head(todo[r]) \in Events
    BY <1>16 DEF PushFails
  <2>2. audit' \in [Users -> [AuditTypes -> Nat]]
    BY <1>16, <2>1, LoggedType DEF PushFails
  <2>3. QED
    BY <1>16, <2>2
    DEF PushFails, Answer, Goto, Steps, Outcomes, dbVars, userVars, ottVars,
        localVars, clientVars
<1>17. ASSUME NEW r \in Requests, Published(r) PROVE TypeOK'
  BY <1>17
  DEF Published, Answer, Goto, Steps, Outcomes, dbVars, userVars, ottVars,
      localVars, clientVars
<1>18. ASSUME NEW r \in Requests, Respond(r) PROVE TypeOK'
  <2>1. access' \in [Users -> Nat]
    BY <1>18 DEF Respond, AccessVerified
  <2>2. QED
    BY <1>18, <2>1
    DEF Respond, Forget, Steps, Outcomes, dbVars, userVars, ottVars
<1>19. ASSUME NEW r \in Requests, ResponseLost(r) PROVE TypeOK'
  BY <1>19 DEF ResponseLost, Forget, Steps, Outcomes, dbVars, userVars,
               ottVars, clientVars
<1>20. ASSUME Crash PROVE TypeOK'
  BY <1>20 DEF Crash, Forget, U!RollbackAll, O!RollbackAll, Steps, Outcomes,
               clientVars
<1>21. ASSUME Deliver \/ Tick \/ UNCHANGED vars PROVE TypeOK'
  BY <1>21 DEF Deliver, Tick, vars, requestVars, localVars, dbVars, userVars,
               ottVars, clientVars
<1>22. QED
  BY <1>1, <1>2, <1>3, <1>4, <1>5, <1>6, <1>7, <1>8, <1>9, <1>10, <1>11,
     <1>12, <1>13, <1>14, <1>15, <1>16, <1>17, <1>18, <1>19, <1>20, <1>21
  DEF Next, Arrives, Proceeds, Saves, Fails

-----------------------------------------------------------------------------
(* What a step leaves alone                                                *)

Step(r) == Arrives(r) \/ Proceeds(r) \/ Saves(r) \/ Fails(r)

RemembersRow(q) ==
  /\ input'[q] = input[q] /\ user'[q] = user[q] /\ seenUser'[q] = seenUser[q]
  /\ token'[q] = token[q] /\ seenToken'[q] = seenToken[q]
Alone(q) ==
  /\ pc'[q] = pc[q] /\ RemembersRow(q) /\ expires'[q] = expires[q]
  /\ todo'[q] = todo[q] /\ outcome'[q] = outcome[q]
OthersAlone(r) == \A q \in Requests \ {r} : Alone(q)

(* A request changes no local variable of another one.                     *)
LEMMA StepsAlone ==
  ASSUME TypeOK, NEW r \in Requests, Step(r)
  PROVE  OthersAlone(r)
<1> USE DEF TypeOK, OthersAlone, Alone, RemembersRow, Goto, Answer
<1>1. ASSUME Arrives(r) PROVE OthersAlone(r)
  <2>1. PICK in \in Inputs :
          \/ \E u \in Users : SelectByEmail(r, in, u) \/ SelectByAccessToken(r, in, u)
          \/ EmailNotFound(r, in)
          \/ AccessExpired(r, in)
          \/ TokenNotFound(r, in)
          \/ \E t \in mailbox : SelectToken(r, in, t)
    BY <1>1, Zenon DEF Arrives
  <2>2. ASSUME NEW u \in Users, SelectByEmail(r, in, u) PROVE OthersAlone(r)
    BY <2>2 DEF SelectByEmail, Arrive
  <2>3. ASSUME NEW u \in Users, SelectByAccessToken(r, in, u)
        PROVE  OthersAlone(r)
    BY <2>3 DEF SelectByAccessToken, Arrive
  <2>4. CASE EmailNotFound(r, in)
    <3>1. /\ Arrive(r, in)
          /\ UNCHANGED <<user, seenUser, token, seenToken, expires>>
      BY <2>4, Zenon DEF EmailNotFound
    <3>2. \/ Goto(r, "decide") /\ UNCHANGED <<todo, outcome>>
          \/ Answer(r, "UserNotFound")
      BY <2>4, Zenon DEF EmailNotFound
    <3>3. \A q \in Requests \ {r} :
            pc'[q] = pc[q] /\ todo'[q] = todo[q] /\ outcome'[q] = outcome[q]
      <4>1. CASE Goto(r, "decide") /\ UNCHANGED <<todo, outcome>>
        BY <4>1
      <4>2. CASE Answer(r, "UserNotFound")
        BY <4>2
      <4>3. QED
        BY <3>2, <4>1, <4>2
    <3>4. QED
      BY <3>1, <3>3 DEF Arrive
  <2>5. CASE AccessExpired(r, in)
    BY <2>5 DEF AccessExpired, Arrive
  <2>6. CASE TokenNotFound(r, in)
    BY <2>6 DEF TokenNotFound, Arrive
  <2>7. ASSUME NEW t \in mailbox, SelectToken(r, in, t) PROVE OthersAlone(r)
    BY <2>7 DEF SelectToken, Arrive
  <2>8. QED
    BY <2>1, <2>2, <2>3, <2>4, <2>5, <2>6, <2>7
<1>2. ASSUME LoadUser(r) PROVE OthersAlone(r)
  BY <1>2 DEF LoadUser
<1>3. ASSUME NEW out \in BaseErrors, Refused(r, out) PROVE OthersAlone(r)
  BY <1>3 DEF Refused, localVars
<1>4. ASSUME NEW t \in Tokens, AcceptOldUser(r, t) PROVE OthersAlone(r)
  <2>1. \E purpose : MakeToken(r, t, purpose)
    BY <1>4, Zenon DEF AcceptOldUser
  <2>2. \A q \in Requests \ {r} : todo'[q] = todo[q]
    BY <1>4 DEF AcceptOldUser
  <2>3. QED
    BY <1>4, <2>1, <2>2 DEF AcceptOldUser, Accepts, MakeToken
<1>5. ASSUME NEW u \in Users, NEW t \in Tokens, AcceptNewUser(r, u, t)
      PROVE  OthersAlone(r)
  BY <1>5 DEF AcceptNewUser, Accepts, MakeToken
<1>6. ASSUME AcceptUpdate(r) PROVE OthersAlone(r)
  BY <1>6 DEF AcceptUpdate, Accepts, localVars
<1>7. ASSUME AcceptLogin(r) PROVE OthersAlone(r)
  BY <1>7 DEF AcceptLogin, Accepts
<1>8. ASSUME InsertToken(r) PROVE OthersAlone(r)
  BY <1>8 DEF InsertToken, localVars
<1>9. ASSUME UpdateToken(r) PROVE OthersAlone(r)
  BY <1>9 DEF UpdateToken, localVars
<1>10. ASSUME UpdateTokenConflict(r) PROVE OthersAlone(r)
  BY <1>10 DEF UpdateTokenConflict, localVars
<1>11. ASSUME CommitAndPublish(r) PROVE OthersAlone(r)
  BY <1>11 DEF CommitAndPublish, localVars
<1>12. ASSUME PublishNext(r) PROVE OthersAlone(r)
  BY <1>12 DEF PublishNext, localVars
<1>13. ASSUME Published(r) PROVE OthersAlone(r)
  BY <1>13 DEF Published, localVars
<1>14. ASSUME Respond(r) \/ ResponseLost(r) PROVE OthersAlone(r)
  BY <1>14 DEF Respond, ResponseLost, Forget
<1>15. ASSUME Saves(r) PROVE OthersAlone(r)
  BY <1>15 DEF Saves, InsertUser, InsertUserFails, UpdateUser,
               UpdateUserConflict, localVars
<1>16. ASSUME Fails(r) PROVE OthersAlone(r)
  BY <1>16 DEF Fails, CommitUnacknowledged, DbFailure, PushFails, localVars
<1>17. QED
  BY <1>1, <1>2, <1>3, <1>4, <1>5, <1>6, <1>7, <1>8, <1>9, <1>10, <1>11,
     <1>12, <1>13, <1>14, <1>15, <1>16
  DEF Step, Proceeds

-----------------------------------------------------------------------------
(* What a request knows                                                    *)

LEMMA ShapeAlone ==
  ASSUME NEW q \in Requests, Shape(q), Alone(q)
  PROVE  Shape(q)'
<1> USE DEF Alone, RemembersRow, At, Op, Decided, Issues, UsesToken, Stored
<1>1. IdleShape(q)'
  BY DEF Shape, IdleShape
<1>2. ReadShape(q)'
  BY DEF Shape, ReadShape
<1>3. DecisionShape(q)'
  BY DEF Shape, DecisionShape
<1>4. TodoShape(q)'
  BY DEF Shape, TodoShape, IsNotification
<1>5. AnswerShape(q)'
  BY DEF Shape, AnswerShape
<1>6. QED
  BY <1>1, <1>2, <1>3, <1>4, <1>5 DEF Shape

(* What has been decided on when no check has raised.                      *)
LEMMA Accepted ==
  ASSUME NEW r \in Requests, Accepts(r)
  PROVE  /\ Op(r) = "register" /\ seenUser[r] # NoRow => ~Stored(r).verified
         /\ Op(r) = "verify_email" =>
              ~Stored(r).verified /\ ~Unfit(r, VERIFY_EMAIL)
         /\ Op(r) = "recover" => ~Unfit(r, RECOVER_PASSWORD)
         /\ Op(r) \in {"login", "recover_request"} => Stored(r).verified
<1>1. /\ ~Refuses(r, "UserAlreadyExists") /\ ~Refuses(r, "UserError")
      /\ ~Refuses(r, "TokenError") /\ ~Refuses(r, "PasswordValidationError")
  BY DEF Accepts, BaseErrors
<1>2. QED
  BY <1>1 DEF Refuses, RefusesRegister, RefusesVerify, RefusesLogin,
              RefusesRequest, RefusesRecover

(* A request that forgets everything has the shape of an idle one.         *)
LEMMA IdleAgain ==
  ASSUME TypeOK, NEW rs \in SUBSET Requests, Forget(rs), NEW r \in rs
  PROVE  Shape(r)'
BY DEF TypeOK, Forget, Shape, IdleShape, ReadShape, DecisionShape, TodoShape,
       AnswerShape, At, Decided

(* An answer, with the row it is about.                                    *)
LEMMA AnswerKeepsShape ==
  ASSUME TypeOK, NEW r \in Requests, NEW out \in Outcomes, Answer(r, out),
         Shape(r), ~At(r, "idle"), RemembersRow(r),
         \/ out \in {"UserAlreadyExists", "ConcurrencyError"}
         \/ out = "UserError" /\ Op(r) = "verify_email"
         => seenUser[r] # NoRow,
         out = "TokenError" => seenToken[r] # NoRow
  PROVE  Shape(r)'
<1>1. pc'[r] = "respond" /\ outcome'[r] = out /\ todo'[r] = <<>>
  BY DEF TypeOK, Answer, Goto
<1> USE <1>1 DEF RemembersRow, At, Op, Decided, Issues, UsesToken, Stored
<1>2. IdleShape(r)' /\ DecisionShape(r)'
  BY DEF IdleShape, DecisionShape
<1>3. ReadShape(r)'
  BY DEF Shape, ReadShape
<1>4. TodoShape(r)'
  BY DEF TodoShape
<1>5. AnswerShape(r)'
  BY DEF AnswerShape
<1>6. QED
  BY <1>2, <1>3, <1>4, <1>5 DEF Shape

(* A request that goes on from one decided step to another, or to the      *)
(* events, remembers what it has decided on.                               *)
LEMMA SaveKeepsShape ==
  ASSUME TypeOK, NEW r \in Requests, Shape(r), Decided(r),
         NEW step \in {"save_token", "commit", "publish"}, Goto(r, step),
         step = "save_token" => Issues(r) \/ UsesToken(r),
         RemembersRow(r), UNCHANGED todo, UNCHANGED outcome
  PROVE  Shape(r)'
<1>1. pc'[r] = step
  BY DEF TypeOK, Goto
<1> USE <1>1 DEF RemembersRow, At, Op, Decided, Issues, UsesToken, Stored
<1>2. IdleShape(r)' /\ AnswerShape(r)'
  BY DEF Shape, IdleShape, AnswerShape
<1>3. ReadShape(r)'
  BY DEF Shape, ReadShape
<1>4. DecisionShape(r)'
  BY DEF Shape, DecisionShape
<1>5. TodoShape(r)'
  BY DEF Shape, TodoShape, IsNotification
<1>6. QED
  BY <1>2, <1>3, <1>4, <1>5 DEF Shape

(* An idle request holds no row.                                           *)
LEMMA SeesCommitted ==
  ASSUME IInv, NEW r \in Requests
  PROVE  /\ pc[r] \notin {"save_token", "commit"} =>
              \A u \in Users : U!Visible(r, u) = Row(u)
         /\ ~At(r, "commit") => \A t \in Tokens : O!Visible(r, t) = Ott(t)
BY DEF IInv, HoldersWrite, U!Visible, O!Visible, Row, Ott, At

(* The reads of a request: it starts from nothing.                         *)
LEMMA ArrivesShape ==
  ASSUME IInv, NEW r \in Requests, Arrives(r)
  PROVE  Shape(r)'
<1> USE DEF IInv
<1>1. PICK in \in Inputs :
        \/ \E u \in Users : SelectByEmail(r, in, u) \/ SelectByAccessToken(r, in, u)
        \/ EmailNotFound(r, in)
        \/ AccessExpired(r, in)
        \/ TokenNotFound(r, in)
        \/ \E t \in mailbox : SelectToken(r, in, t)
  BY Zenon DEF Arrives
<1>2. Arrive(r, in)
  BY <1>1, Zenon DEF SelectByEmail, SelectByAccessToken, EmailNotFound,
                     AccessExpired, TokenNotFound, SelectToken
<1>3. /\ At(r, "idle") /\ input'[r] = in /\ in \in Inputs /\ in.op \in Ops
      /\ user[r] = NoUser /\ seenUser[r] = NoRow /\ token[r] = NoToken
      /\ seenToken[r] = NoRow /\ outcome[r] = "none" /\ todo[r] = <<>>
  <2>1. Shape(r) /\ At(r, "idle")
    BY <1>2 DEF RequestShapes, Arrive
  <2>2. input'[r] = in
    BY <1>2 DEF Arrive, TypeOK
  <2>3. QED
    BY <2>1, <2>2, InputFields
    DEF Shape, IdleShape, TodoShape, AnswerShape, Decided, At
<1>4. \A u \in Users : U!Visible(r, u) = Row(u)
  BY <1>3, SeesCommitted DEF At
<1>5. \A t \in Tokens : O!Visible(r, t) = Ott(t)
  BY <1>3, SeesCommitted DEF At
<1>6. ASSUME NEW u \in Users, user'[r] = u, seenUser'[r] # NoRow,
             pc'[r] = "decide", token'[r] = NoToken, seenToken'[r] = NoRow,
             todo'[r] = <<>>, outcome'[r] = "none", in.op \notin TokenOps
      PROVE  Shape(r)'
  BY <1>3, <1>6
  DEF Shape, IdleShape, ReadShape, DecisionShape, TodoShape, AnswerShape, At,
      Decided, Op, UsesToken
<1>7. ASSUME NEW u \in Users, SelectByEmail(r, in, u) PROVE Shape(r)'
  <2>1. /\ user'[r] = u /\ seenUser'[r] = U!Visible(r, u)
        /\ U!Visible(r, u) # NoRow
        /\ pc'[r] = "decide" /\ UNCHANGED <<token, seenToken, todo, outcome>>
        /\ in.op \in EmailOps
    BY <1>7 DEF SelectByEmail, FoundByEmail, Goto, TypeOK
  <2>2. QED
    BY <1>3, <1>6, <2>1 DEF EmailOps, TokenOps
<1>8. ASSUME NEW u \in Users, SelectByAccessToken(r, in, u) PROVE Shape(r)'
  <2>1. /\ user'[r] = u /\ seenUser'[r] = U!Visible(r, u)
        /\ now < access[u]
        /\ pc'[r] = "decide" /\ UNCHANGED <<token, seenToken, todo, outcome>>
        /\ in.op = "change_password"
    BY <1>8 DEF SelectByAccessToken, Goto, TypeOK
  <2>2. access[u] > 0
    BY <2>1 DEF TypeOK
  <2>3. U!Visible(r, u) # NoRow
    BY <1>4, <2>2 DEF AccessVerified
  <2>4. QED
    BY <1>3, <1>6, <2>1, <2>3 DEF TokenOps
<1>9. ASSUME NEW out \in {"UserNotFound", "AccessTokenExpired",
                          "OneTimeTokenNotFound"},
             Answer(r, out), UNCHANGED <<user, seenUser, token, seenToken>>
      PROVE  Shape(r)'
  <2>1. pc'[r] = "respond" /\ outcome'[r] = out /\ todo'[r] = <<>>
    BY <1>9 DEF Answer, Goto, TypeOK
  <2>2. QED
    BY <1>3, <1>9, <2>1
    DEF Shape, IdleShape, ReadShape, DecisionShape, TodoShape, AnswerShape,
        At, Decided, Op, UsesToken
<1>10. CASE EmailNotFound(r, in)
  <2>1. UNCHANGED <<user, seenUser, token, seenToken>>
    BY <1>10, Zenon DEF EmailNotFound
  <2>2. \/ in.op = "register" /\ Goto(r, "decide") /\ UNCHANGED <<todo, outcome>>
        \/ Answer(r, "UserNotFound")
    BY <1>10, Zenon DEF EmailNotFound
  <2>3. CASE in.op = "register" /\ Goto(r, "decide") /\ UNCHANGED <<todo, outcome>>
    <3>1. pc'[r] = "decide"
      BY <2>3 DEF Goto, TypeOK
    <3>2. QED
      BY <1>3, <2>1, <2>3, <3>1
      DEF Shape, IdleShape, ReadShape, DecisionShape, TodoShape, AnswerShape,
          At, Decided, Op, UsesToken, TokenOps
  <2>4. QED
    BY <1>9, <2>1, <2>2, <2>3
<1>11. CASE AccessExpired(r, in) \/ TokenNotFound(r, in)
  BY <1>9, <1>11 DEF AccessExpired, TokenNotFound
<1>12. ASSUME NEW t \in mailbox, SelectToken(r, in, t) PROVE Shape(r)'
  <2>1. /\ token'[r] = t /\ t \in Tokens
        /\ seenToken'[r] = O!Visible(r, t) /\ seenToken'[r] # NoRow
        /\ user'[r] = O!Visible(r, t).data.user
        /\ pc'[r] = "load_user" /\ UNCHANGED <<seenUser, todo, outcome>>
        /\ in.op \in TokenOps
    BY <1>12 DEF SelectToken, Goto, TypeOK
  <2>2. QED
    BY <1>3, <2>1
    DEF Shape, IdleShape, ReadShape, DecisionShape, TodoShape, AnswerShape,
        At, Decided, Op, UsesToken, TokenOps
<1>13. QED
  BY <1>1, <1>7, <1>8, <1>10, <1>11, <1>12

(* The user of a token that has been read.                                 *)
LEMMA LoadUserShape ==
  ASSUME IInv, NEW r \in Requests, LoadUser(r)
  PROVE  Shape(r)'
<1> USE DEF IInv
<1>1. /\ Shape(r) /\ At(r, "load_user") /\ pc'[r] = "decide"
      /\ seenUser'[r] = U!Visible(r, user[r])
      /\ UNCHANGED <<input, user, token, seenToken, todo, outcome>>
  BY DEF LoadUser, Goto, RequestShapes, TypeOK
<1>2. /\ UsesToken(r) /\ seenToken[r] # NoRow /\ token[r] \in Tokens
      /\ user[r] = seenToken[r].data.user /\ input[r] \in Inputs
      /\ todo[r] = <<>> /\ outcome[r] = "none"
  BY <1>1 DEF Shape, ReadShape, TodoShape, AnswerShape, At, Decided
<1>3. user[r] \in Users
  BY <1>2, RowFields DEF TypeOK
<1>4. seenUser'[r] # NoRow
  <2>1. U!Visible(r, user[r]) = Row(user[r])
    BY <1>1, <1>3, SeesCommitted DEF At
  <2>2. OttGrown(seenToken[r], Ott(token[r]))
    BY <1>2 DEF ReadsNotNewer
  <2>3. QED
    BY <1>1, <1>2, <2>1, <2>2 DEF OttGrown, TokensStored
<1>5. QED
  BY <1>1, <1>2, <1>3, <1>4
  DEF Shape, IdleShape, ReadShape, DecisionShape, TodoShape, AnswerShape, At,
      Decided, Op, UsesToken, TokenOps

(* The decision.                                                           *)
LEMMA RefusedShape ==
  ASSUME IInv, NEW r \in Requests, NEW out \in BaseErrors, Refused(r, out)
  PROVE  Shape(r)'
<1> USE DEF IInv
<1>1. /\ Shape(r) /\ At(r, "decide") /\ Refuses(r, out) /\ Answer(r, out)
      /\ RemembersRow(r)
  BY DEF Refused, RequestShapes, RemembersRow, localVars
<1>2. /\ seenUser[r] = NoRow => Op(r) = "register"
      /\ UsesToken(r) <=> seenToken[r] # NoRow
  BY <1>1 DEF Shape, ReadShape
<1>3. \/ out \in {"UserAlreadyExists", "ConcurrencyError"}
      \/ out = "UserError" /\ Op(r) = "verify_email"
      => seenUser[r] # NoRow
  BY <1>1, <1>2 DEF Refuses, RefusesRegister, RefusesVerify, RefusesLogin,
                    RefusesChange, RefusesRequest, RefusesRecover
<1>4. out = "TokenError" => seenToken[r] # NoRow
  BY <1>1, <1>2 DEF Refuses, RefusesRegister, RefusesVerify, RefusesLogin,
                    RefusesChange, RefusesRequest, RefusesRecover, UsesToken,
                    TokenOps
<1>5. QED
  BY <1>1, <1>3, <1>4, AnswerKeepsShape DEF Outcomes, At

LEMMA AcceptsShape ==
  ASSUME IInv, NEW r \in Requests, Accepts(r),
         input'[r] = input[r], seenUser'[r] = seenUser[r],
         seenToken'[r] = seenToken[r],
         Issues(r) => token'[r] \in Tokens, ~Issues(r) => token'[r] = token[r],
         seenUser[r] # NoRow => user'[r] = user[r],
         seenUser[r] = NoRow => user'[r] \in Users, UNCHANGED outcome,
         \A i \in DOMAIN todo'[r] :
           IsNotification(todo'[r][i]) =>
             Issues(r) /\ todo'[r][i].token = token'[r]
  PROVE  Shape(r)'
<1> USE DEF IInv
<1>1. Shape(r) /\ At(r, "decide") /\ pc'[r] = "save_user"
  BY DEF Accepts, Goto, RequestShapes, TypeOK
<1>2. /\ input[r] \in Inputs
      /\ seenUser[r] # NoRow => user[r] \in Users
      /\ seenToken[r] # NoRow => /\ UsesToken(r) /\ token[r] \in Tokens
                                 /\ user[r] = seenToken[r].data.user
      /\ UsesToken(r) <=> seenToken[r] # NoRow
      /\ seenUser[r] = NoRow => Op(r) = "register"
      /\ ~UsesToken(r) => token[r] = NoToken
  BY <1>1 DEF Shape, ReadShape, At, Decided
<1>3. Issues(r) => ~UsesToken(r) /\ Op(r) \notin {"login", "change_password"}
  BY DEF Issues, UsesToken, TokenOps
<1>4. Op(r)' = Op(r) /\ Issues(r)' = Issues(r) /\ UsesToken(r)' = UsesToken(r)
  BY DEF Op, Issues, UsesToken
<1>5. IdleShape(r)' /\ AnswerShape(r)'
  BY <1>1 DEF Shape, IdleShape, AnswerShape, At
<1>6. ReadShape(r)'
  <2>1. ~UsesToken(r) /\ Op(r) \in {"login", "change_password"} =>
          token'[r] = NoToken
    BY <1>2, <1>3
  <2>2. Op(r) \in {"login", "change_password"} => ~UsesToken(r)
    BY DEF UsesToken, TokenOps
  <2>3. UsesToken(r) => ~Issues(r) /\ seenUser[r] # NoRow
    BY <1>2, <1>3 DEF UsesToken, TokenOps
  <2>4. QED
    BY <1>1, <1>2, <1>4, <2>1, <2>2, <2>3 DEF ReadShape, At, Decided
<1>7. DecisionShape(r)'
  <2>1. user'[r] \in Users
    BY <1>2
  <2>2. /\ Op(r) = "register" /\ seenUser[r] # NoRow => ~Stored(r).verified
        /\ Op(r) = "verify_email" =>
             /\ ~Stored(r).verified
             /\ seenToken[r].data.purpose = VERIFY_EMAIL
        /\ Op(r) = "recover" => seenToken[r].data.purpose = RECOVER_PASSWORD
        /\ Op(r) \in {"login", "recover_request"} => Stored(r).verified
    BY Accepted DEF Unfit
  <2>3. UsesToken(r) => ~seenToken[r].data.used
    BY <1>2, Accepted DEF Unfit, IsUsable, UsesToken, TokenOps
  <2>4. Op(r) = "change_password" => Stored(r).verified
    BY <1>2 DEF ReadsNotNewer
  <2>5. QED
    BY <1>1, <1>4, <2>1, <2>2, <2>3, <2>4 DEF DecisionShape, At, Stored
<1>8. TodoShape(r)'
  BY <1>1, <1>4 DEF TodoShape, Decided, IsNotification
<1>9. QED
  BY <1>5, <1>6, <1>7, <1>8 DEF Shape

LEMMA AcceptNewUserShape ==
  ASSUME IInv, NEW r \in Requests, NEW u \in Users, NEW t \in Tokens,
         AcceptNewUser(r, u, t)
  PROVE  Shape(r)'
<1>1. /\ Accepts(r) /\ Issues(r) /\ seenUser[r] = NoRow
      /\ input'[r] = input[r] /\ seenUser'[r] = seenUser[r]
      /\ seenToken'[r] = seenToken[r]
      /\ token'[r] = t /\ user'[r] = u /\ UNCHANGED outcome
  BY DEF AcceptNewUser, MakeToken, Issues, IInv, TypeOK
<1>2. todo'[r] = <<Event("UserCreated", u, NoToken),
                   Event("UserEmailVerificationRequested", u, t)>>
  BY DEF AcceptNewUser, IInv, TypeOK
<1>3. \A i \in DOMAIN todo'[r] : IsNotification(todo'[r][i]) =>
        todo'[r][i].token = t
  BY <1>2 DEF Event, IsNotification, NotificationTypes
<1>4. QED
  BY <1>1, <1>3, AcceptsShape

LEMMA AcceptOldUserShape ==
  ASSUME IInv, NEW r \in Requests, NEW t \in Tokens, AcceptOldUser(r, t)
  PROVE  Shape(r)'
<1>1. /\ Accepts(r) /\ seenUser[r] # NoRow
      /\ input'[r] = input[r] /\ seenUser'[r] = seenUser[r]
      /\ seenToken'[r] = seenToken[r] /\ user'[r] = user[r]
      /\ UNCHANGED outcome
  BY DEF AcceptOldUser
<1>2. PICK purpose : MakeToken(r, t, purpose)
  BY Zenon DEF AcceptOldUser
<1>3. token'[r] = t /\ Issues(r)
  <2>1. token'[r] = t
    BY <1>2 DEF MakeToken, IInv, TypeOK
  <2>2. Issues(r)
    BY Zenon DEF AcceptOldUser, Issues
  <2>3. QED
    BY <2>1, <2>2
<1>4. \E type \in EventTypes : todo'[r] = <<Event(type, user[r], t)>>
  BY DEF AcceptOldUser, IInv, TypeOK, EventTypes, NotificationTypes
<1>5. \A i \in DOMAIN todo'[r] : IsNotification(todo'[r][i]) =>
        todo'[r][i].token = t
  BY <1>4 DEF Event
<1>6. QED
  BY <1>1, <1>3, <1>5, AcceptsShape

LEMMA AcceptUpdateShape ==
  ASSUME IInv, NEW r \in Requests, AcceptUpdate(r)
  PROVE  Shape(r)'
<1>1. /\ Accepts(r) /\ Op(r) \in DOMAIN EventOf
      /\ UNCHANGED <<input, user, seenUser, token, seenToken, outcome>>
  BY DEF AcceptUpdate, localVars
<1>2. ~Issues(r) /\ seenUser[r] # NoRow
  <2>1. Op(r) # "register" /\ ~Issues(r)
    BY <1>1 DEF EventOf, Issues
  <2>2. At(r, "decide") /\ Shape(r)
    BY <1>1 DEF Accepts, IInv, RequestShapes
  <2>3. QED
    BY <2>1, <2>2 DEF Shape, ReadShape
<1>3. \A i \in DOMAIN todo'[r] : ~IsNotification(todo'[r][i])
  <2>1. todo'[r] = <<Event(EventOf[Op(r)], user[r], NoToken)>>
    BY DEF AcceptUpdate, IInv, TypeOK
  <2>2. EventOf[Op(r)] \notin NotificationTypes
    BY <1>1 DEF EventOf, NotificationTypes
  <2>3. QED
    BY <2>1, <2>2 DEF Event, IsNotification
<1>4. QED
  BY <1>1, <1>2, <1>3, AcceptsShape

LEMMA AcceptLoginShape ==
  ASSUME IInv, NEW r \in Requests, AcceptLogin(r)
  PROVE  Shape(r)'
<1>1. /\ Accepts(r) /\ Op(r) = "login"
      /\ UNCHANGED <<input, user, seenUser, token, seenToken, todo, outcome>>
  BY DEF AcceptLogin
<1>2. /\ ~Issues(r) /\ seenUser[r] # NoRow /\ todo[r] = <<>>
  <2>1. At(r, "decide") /\ Shape(r)
    BY <1>1 DEF Accepts, IInv, RequestShapes
  <2>2. QED
    BY <1>1, <2>1 DEF Shape, ReadShape, TodoShape, Decided, Issues, At
<1>3. QED
  BY <1>1, <1>2, AcceptsShape

(* The writes, the commit and the end.                                     *)
LEMMA SavesShape ==
  ASSUME IInv, NEW r \in Requests,
         \/ InsertUser(r) \/ UpdateUser(r)
         \/ InsertToken(r) \/ UpdateToken(r) \/ CommitAndPublish(r)
  PROVE  Shape(r)'
<1>1. /\ Shape(r) /\ Decided(r) /\ RemembersRow(r)
      /\ UNCHANGED todo /\ UNCHANGED outcome
  BY DEF IInv, RequestShapes, Decided, At, RemembersRow, localVars,
         InsertUser, UpdateUser, InsertToken, UpdateToken, CommitAndPublish
<1>2. \/ Goto(r, "commit") \/ Goto(r, "publish")
      \/ /\ Op(r) \notin {"login", "change_password"}
         /\ Goto(r, "save_token")
  BY DEF InsertUser, UpdateUser, InsertToken, UpdateToken, CommitAndPublish,
         AfterSaveUser
<1>3. Op(r) \notin {"login", "change_password"} => Issues(r) \/ UsesToken(r)
  <2>1. Op(r) \in Ops
    BY <1>1, InputFields DEF Op, Shape, ReadShape, Decided, At
  <2>2. QED
    BY <2>1 DEF Ops, EmailOps, TokenOps, Issues, UsesToken
<1>4. QED
  BY <1>1, <1>2, <1>3, SaveKeepsShape DEF IInv

LEMMA EndsShape ==
  ASSUME IInv, NEW r \in Requests,
         \/ InsertUserFails(r) \/ UpdateUserConflict(r)
         \/ UpdateTokenConflict(r) \/ DbFailure(r) \/ CommitUnacknowledged(r)
         \/ PushFails(r) \/ Published(r)
  PROVE  Shape(r)'
<1>1. Shape(r) /\ ~At(r, "idle") /\ RemembersRow(r)
  BY DEF IInv, RequestShapes, At, RemembersRow, localVars, InsertUserFails,
         UpdateUserConflict, UpdateTokenConflict, DbFailure,
         CommitUnacknowledged, PushFails, Published
<1>2. \/ \E out \in {"IntegrityError", "ServerError", "ok"} : Answer(r, out)
      \/ seenUser[r] # NoRow /\ Answer(r, "ConcurrencyError")
  <2>1. CASE UpdateTokenConflict(r)
    <3>1. seenToken[r] # NoRow /\ At(r, "save_token")
          /\ Answer(r, "ConcurrencyError")
      BY <2>1 DEF UpdateTokenConflict
    <3>2. UsesToken(r) /\ (seenUser[r] = NoRow => Op(r) = "register")
      BY <1>1, <3>1 DEF Shape, ReadShape, At, Decided
    <3>3. QED
      BY <3>1, <3>2 DEF UsesToken, TokenOps
  <2>2. QED
    BY <2>1 DEF InsertUserFails, UpdateUserConflict, DbFailure,
                CommitUnacknowledged, PushFails, Published
<1>3. QED
  BY <1>1, <1>2, AnswerKeepsShape DEF IInv, Outcomes, BaseErrors

LEMMA PublishNextShape ==
  ASSUME IInv, NEW r \in Requests, PublishNext(r)
  PROVE  Shape(r)'
<1>1. /\ Shape(r) /\ At(r, "publish") /\ RemembersRow(r) /\ UNCHANGED <<pc, outcome>>
      /\ todo[r] # <<>> /\ todo'[r] = Tail(todo[r]) /\ todo[r] \in Seq(Events)
  BY DEF IInv, TypeOK, RequestShapes, PublishNext, RemembersRow, localVars
<1>2. \A i \in DOMAIN todo'[r] :
        i + 1 \in DOMAIN todo[r] /\ todo'[r][i] = todo[r][i + 1]
  BY <1>1
<1>3. TodoShape(r)'
  BY <1>1, <1>2 DEF Shape, TodoShape, RemembersRow, At, Issues, Op,
                    IsNotification
<1> USE <1>1 DEF RemembersRow, At, Op, Decided, Issues, UsesToken, Stored
<1>4. IdleShape(r)' /\ DecisionShape(r)' /\ AnswerShape(r)'
  BY DEF Shape, IdleShape, DecisionShape, AnswerShape
<1>5. ReadShape(r)'
  BY DEF Shape, ReadShape
<1>6. QED
  BY <1>3, <1>4, <1>5 DEF Shape

LEMMA ShapesStep == IInv /\ [Next]_vars => RequestShapes'
<1> SUFFICES ASSUME IInv, [Next]_vars PROVE RequestShapes'
  OBVIOUS
<1>1. ASSUME NEW r \in Requests, Step(r) PROVE RequestShapes'
  <2>1. Shape(r)'
    <3>1. Respond(r) \/ ResponseLost(r) => Shape(r)'
      BY IdleAgain DEF Respond, ResponseLost, IInv
    <3>2. (\E out \in BaseErrors : Refused(r, out)) => Shape(r)'
      BY RefusedShape
    <3>3. (\E t \in Tokens : AcceptOldUser(r, t)
             \/ \E u \in Users : AcceptNewUser(r, u, t)) => Shape(r)'
      BY AcceptOldUserShape, AcceptNewUserShape
    <3>4. QED
      BY <1>1, <3>1, <3>2, <3>3, ArrivesShape, LoadUserShape,
         AcceptUpdateShape, AcceptLoginShape, SavesShape, EndsShape,
         PublishNextShape, Zenon
      DEF Step, Proceeds, Saves, Fails
  <2>2. \A q \in Requests \ {r} : Shape(q)'
    BY <1>1, StepsAlone, ShapeAlone DEF IInv, OthersAlone, RequestShapes
  <2>3. QED
    BY <2>1, <2>2 DEF RequestShapes
<1>2. CASE Crash
  BY <1>2, IdleAgain DEF Crash, RequestShapes, IInv
<1>3. CASE Deliver \/ Tick \/ UNCHANGED vars
  <2>1. \A q \in Requests : Alone(q)
    BY <1>3 DEF Deliver, Tick, vars, requestVars, localVars, Alone,
                RemembersRow
  <2>2. QED
    BY <2>1, ShapeAlone DEF RequestShapes, IInv
<1>4. QED
  BY <1>1, <1>2, <1>3 DEF Next, Step

-----------------------------------------------------------------------------
(* What shows in the tables                                                *)

TablesGrow ==
  /\ \A u \in Users : Row(u) # NoRow => UserGrown(Row(u), Row(u)')
  /\ \A t \in Tokens : Ott(t) # NoRow => OttGrown(Ott(t), Ott(t)')

(* The statements of a request, seen from the database.                    *)
LEMMA DatabaseStep ==
  ASSUME NEW r \in Requests, Step(r)
  PROVE  \/ UNCHANGED dbVars /\ pc[r] \notin {"save_token", "commit"}
         \/ Rollback(r) /\ Goto(r, "respond") /\ ~At(r, "publish")
         \/ InsertUser(r) \/ UpdateUser(r) \/ InsertToken(r) \/ UpdateToken(r)
         \/ CommitAndPublish(r) \/ CommitUnacknowledged(r)
<1> DEFINE Quiet == UNCHANGED dbVars /\ pc[r] \notin {"save_token", "commit"}
           RolledBack == Rollback(r) /\ Goto(r, "respond") /\ ~At(r, "publish")
<1>1. ASSUME Arrives(r) PROVE Quiet
  <2>1. UNCHANGED dbVars /\ At(r, "idle")
    BY <1>1, Zenon DEF Arrives, SelectByEmail, SelectByAccessToken,
                       EmailNotFound, AccessExpired, TokenNotFound,
                       SelectToken, Arrive
  <2>2. QED
    BY <2>1 DEF At
<1>2. ASSUME Fails(r) PROVE Quiet \/ CommitUnacknowledged(r) \/ RolledBack
  BY <1>2 DEF Fails, DbFailure, PushFails, Answer, At
<1>3. ASSUME Saves(r)
      PROVE  Quiet \/ InsertUser(r) \/ UpdateUser(r) \/ RolledBack
  BY <1>3 DEF Saves, InsertUserFails, UpdateUserConflict, U!Conflict,
              U!tableVars, dbVars, userVars, Answer, At
<1>4. ASSUME Proceeds(r)
      PROVE  \/ Quiet \/ RolledBack
             \/ InsertToken(r) \/ UpdateToken(r) \/ CommitAndPublish(r)
  <2>1. (\E out \in BaseErrors : Refused(r, out)) \/ UpdateTokenConflict(r) =>
          RolledBack
    BY DEF Refused, UpdateTokenConflict, Answer, At
  <2>2. ASSUME \E t \in Tokens : AcceptOldUser(r, t)
                 \/ \E u \in Users : AcceptNewUser(r, u, t)
        PROVE  Quiet
    <3>1. UNCHANGED dbVars /\ At(r, "decide")
      BY <2>2, Zenon DEF AcceptOldUser, AcceptNewUser, Accepts
    <3>2. QED
      BY <3>1 DEF At
  <2>3. ASSUME \/ LoadUser(r) \/ AcceptUpdate(r) \/ AcceptLogin(r)
               \/ PublishNext(r) \/ Published(r)
               \/ Respond(r) \/ ResponseLost(r)
        PROVE  Quiet
    BY <2>3 DEF LoadUser, AcceptUpdate, AcceptLogin, Accepts, PublishNext,
                Published, Respond, ResponseLost, At
  <2>4. QED
    BY <1>4, <2>1, <2>2, <2>3, Zenon DEF Proceeds
<1>5. QED
  BY <1>1, <1>2, <1>3, <1>4 DEF Step

(* A commit shows the user row that was written and the token row, if the  *)
(* use case has one, in place of the rows that were read.                  *)
LEMMA CommitEffects ==
  ASSUME IInv, NEW r \in Requests, At(r, "commit"), Commit(r)
  PROVE  /\ user[r] \in Users
         /\ Row(user[r]) = seenUser[r] /\ userTable'[user[r]] = NewUserRow(r)
         /\ \A u \in Users \ {user[r]} : userTable'[u] = Row(u)
         /\ Issues(r) \/ UsesToken(r) =>
              /\ token[r] \in Tokens
              /\ Ott(token[r]) = seenToken[r]
              /\ ottTable'[token[r]] = NewOttRow(r)
              /\ \A t \in Tokens \ {token[r]} : ottTable'[t] = Ott(t)
         /\ ~(Issues(r) \/ UsesToken(r)) =>
              \A t \in Tokens : ottTable'[t] = Ott(t)
<1> USE DEF IInv
<1>1. /\ user[r] \in Users
      /\ Issues(r) \/ UsesToken(r) => token[r] \in Tokens
  BY DEF RequestShapes, Shape, ReadShape, DecisionShape, Decided, At
<1>2. /\ userHolder[user[r]] = r /\ userDraft[user[r]] = NewUserRow(r)
      /\ Row(user[r]) = seenUser[r]
      /\ Issues(r) \/ UsesToken(r) =>
           /\ ottHolder[token[r]] = r /\ ottDraft[token[r]] = NewOttRow(r)
           /\ Ott(token[r]) = seenToken[r]
  BY DEF WritesHeld, UserRowHeld, OttRowHeld, At
<1>3. /\ \A u \in Users \ {user[r]} : userHolder[u] # r
      /\ \A t \in Tokens : ottHolder[t] = r =>
           (Issues(r) \/ UsesToken(r)) /\ t = token[r]
  BY DEF HoldersWrite
<1>4. /\ \A u \in Users :
           userTable'[u] = IF userHolder[u] = r THEN userDraft[u] ELSE Row(u)
      /\ \A t \in Tokens :
           ottTable'[t] = IF ottHolder[t] = r THEN ottDraft[t] ELSE Ott(t)
  BY DEF Commit, U!Commit, O!Commit, Row, Ott
<1>5. QED
  BY <1>1, <1>2, <1>3, <1>4

LEMMA NewRowsGrown ==
  ASSUME IInv, NEW r \in Requests, Decided(r)
  PROVE  /\ NewUserRow(r) \in UserRows
         /\ seenUser[r] # NoRow => UserGrown(seenUser[r], NewUserRow(r))
         /\ Issues(r) \/ UsesToken(r) => NewOttRow(r) \in OttRows
         /\ seenToken[r] # NoRow => OttGrown(seenToken[r], NewOttRow(r))
<1> USE DEF IInv
<1>1. /\ NewUserRow(r) \in UserRows
      /\ Issues(r) \/ UsesToken(r) => NewOttRow(r) \in OttRows
  BY EntityTypes
<1>2. /\ seenUser[r] # NoRow => seenUser[r] \in UserRows
      /\ seenToken[r] # NoRow => seenToken[r] \in OttRows /\ UsesToken(r)
  BY DEF TypeOK, RequestShapes, Shape, ReadShape
<1>3. ASSUME seenUser[r] # NoRow PROVE UserGrown(seenUser[r], NewUserRow(r))
  BY <1>1, <1>2, <1>3, RowFields
  DEF UserGrown, NewUserRow, UserEntity, Stored
<1>4. ASSUME seenToken[r] # NoRow PROVE OttGrown(seenToken[r], NewOttRow(r))
  <2>1. /\ NewOttRow(r).version = seenToken[r].version + 1
        /\ NewOttRow(r).data = [seenToken[r].data EXCEPT !.used = TRUE]
    BY <1>4 DEF NewOttRow, OttEntity
  <2>2. seenToken[r].data \in OttData
    BY <1>2, <1>4, RowFields
  <2>3. QED
    BY <1>1, <1>2, <1>4, <2>1, <2>2, RowFields DEF OttGrown, OttData
<1>5. QED
  BY <1>1, <1>3, <1>4

LEMMA GrownReflexive ==
  /\ \A row \in UserRows : UserGrown(row, row)
  /\ \A row \in OttRows : OttGrown(row, row)
BY RowFields DEF UserGrown, OttGrown

LEMMA GrownTransitive ==
  /\ \A a, b, c \in UserRows :
       UserGrown(a, b) /\ UserGrown(b, c) => UserGrown(a, c)
  /\ \A a, b, c \in OttRows :
       OttGrown(a, b) /\ OttGrown(b, c) => OttGrown(a, c)
BY RowFields DEF UserGrown, OttGrown

(* Only a commit changes a table, and no commit takes anything back.       *)
LEMMA CommitsGrow ==
  ASSUME IInv, NEW r \in Requests, At(r, "commit"), Commit(r)
  PROVE  TablesGrow
<1>1. Decided(r)
  BY DEF Decided, At
<1>2. ASSUME NEW u \in Users, Row(u) # NoRow PROVE UserGrown(Row(u), Row(u)')
  <2>1. Row(u) \in UserRows
    BY <1>2 DEF IInv, TypeOK, Row
  <2>2. QED
    BY <1>1, <1>2, <2>1, CommitEffects, NewRowsGrown, GrownReflexive
    DEF Row, Ott
<1>3. ASSUME NEW t \in Tokens, Ott(t) # NoRow PROVE OttGrown(Ott(t), Ott(t)')
  <2>1. Ott(t) \in OttRows
    BY <1>3 DEF IInv, TypeOK, Ott
  <2>2. QED
    BY <1>1, <1>3, <2>1, CommitEffects, NewRowsGrown, GrownReflexive
    DEF Row, Ott
<1>4. QED
  BY <1>2, <1>3 DEF TablesGrow

LEMMA UnchangedGrow ==
  ASSUME TypeOK, UNCHANGED <<userTable, ottTable>>
  PROVE  TablesGrow
BY GrownReflexive DEF TypeOK, TablesGrow, Row, Ott

LEMMA StepsGrow ==
  ASSUME IInv, [Next]_vars
  PROVE  TablesGrow
<1>1. ASSUME NEW r \in Requests, Step(r) PROVE TablesGrow
  <2>1. CASE UNCHANGED dbVars
    BY <2>1, UnchangedGrow DEF dbVars, userVars, ottVars, IInv
  <2>2. CASE Rollback(r)
    BY <2>2, UnchangedGrow DEF Rollback, U!Rollback, O!Rollback, IInv
  <2>3. CASE InsertUser(r) \/ UpdateUser(r)
    BY <2>3, UnchangedGrow
    DEF InsertUser, UpdateUser, U!Insert, U!Update, U!Write, ottVars, IInv
  <2>4. CASE InsertToken(r) \/ UpdateToken(r)
    BY <2>4, UnchangedGrow
    DEF InsertToken, UpdateToken, O!Insert, O!Update, O!Write, userVars, IInv
  <2>5. CASE CommitAndPublish(r) \/ CommitUnacknowledged(r)
    BY <2>5, CommitsGrow DEF CommitAndPublish, CommitUnacknowledged
  <2>6. QED
    BY <1>1, <2>1, <2>2, <2>3, <2>4, <2>5, DatabaseStep
<1>2. CASE Crash
  BY <1>2, UnchangedGrow DEF Crash, U!RollbackAll, O!RollbackAll, IInv
<1>3. CASE Deliver \/ Tick \/ UNCHANGED vars
  BY <1>3, UnchangedGrow DEF Deliver, Tick, vars, dbVars, userVars, ottVars,
                             IInv
<1>4. QED
  BY <1>1, <1>2, <1>3 DEF Next, Step

(* A row that was once committed has grown into the one of the next state. *)
LEMMA GrowsOn ==
  ASSUME TypeOK, TypeOK', TablesGrow
  PROVE  /\ \A u \in Users, row \in UserRows :
              UserGrown(row, Row(u)) => UserGrown(row, Row(u)')
         /\ \A t \in Tokens, row \in OttRows :
              OttGrown(row, Ott(t)) => OttGrown(row, Ott(t)')
<1>1. ASSUME NEW u \in Users, NEW row \in UserRows, UserGrown(row, Row(u))
      PROVE  UserGrown(row, Row(u)')
  <2>1. Row(u) # NoRow /\ UserGrown(Row(u), Row(u)')
    BY <1>1 DEF UserGrown, TablesGrow
  <2>2. Row(u) \in UserRows /\ Row(u)' \in UserRows
    BY <2>1 DEF UserGrown, TypeOK, Row
  <2>3. QED
    BY <1>1, <2>1, <2>2, GrownTransitive
<1>2. ASSUME NEW t \in Tokens, NEW row \in OttRows, OttGrown(row, Ott(t))
      PROVE  OttGrown(row, Ott(t)')
  <2>1. Ott(t) # NoRow /\ OttGrown(Ott(t), Ott(t)')
    BY <1>2 DEF OttGrown, TablesGrow
  <2>2. Ott(t) \in OttRows /\ Ott(t)' \in OttRows
    BY <2>1 DEF OttGrown, TypeOK, Ott
  <2>3. QED
    BY <1>2, <2>1, <2>2, GrownTransitive
<1>3. QED
  BY <1>1, <1>2

-----------------------------------------------------------------------------
(* Reads and keys                                                          *)

(* A request keeps what it has read, or forgets it, or reads what is       *)
(* committed.                                                              *)
ReadsCommitted(r) ==
  /\ \/ seenUser'[r] = NoRow
     \/ UNCHANGED <<input[r], user[r], seenUser[r]>>
     \/ /\ user'[r] \in Users /\ seenUser'[r] = userTable[user'[r]]
        /\ input'[r].op = "change_password" => seenUser'[r].data.verified
  /\ \/ seenToken'[r] = NoRow
     \/ UNCHANGED <<token[r], seenToken[r]>>
     \/ token'[r] \in Tokens /\ seenToken'[r] = ottTable[token'[r]]

(* A request works on the keys it had, on stored ones or on fresh ones.    *)
KeysKnown(r) ==
  /\ \/ user'[r] \in {user[r], NoUser}
     \/ user'[r] \in Users /\ userTable[user'[r]] # NoRow
     \/ FreshUser(user'[r])
  /\ \/ token'[r] \in {token[r], NoToken}
     \/ token'[r] \in Tokens /\ ottTable[token'[r]] # NoRow
     \/ FreshToken(token'[r])

LEMMA ArrivesReads ==
  ASSUME IInv, NEW r \in Requests, Arrives(r)
  PROVE  ReadsCommitted(r) /\ KeysKnown(r)
<1> USE DEF IInv
<1>1. PICK in \in Inputs :
        \/ \E u \in Users : SelectByEmail(r, in, u) \/ SelectByAccessToken(r, in, u)
        \/ EmailNotFound(r, in)
        \/ AccessExpired(r, in)
        \/ TokenNotFound(r, in)
        \/ \E t \in mailbox : SelectToken(r, in, t)
  BY Zenon DEF Arrives
<1>2. At(r, "idle") /\ input'[r] = in
  <2>1. Arrive(r, in)
    BY <1>1, Zenon DEF SelectByEmail, SelectByAccessToken, EmailNotFound,
                       AccessExpired, TokenNotFound, SelectToken
  <2>2. QED
    BY <2>1 DEF Arrive, TypeOK
<1>3. seenUser[r] = NoRow /\ seenToken[r] = NoRow
  BY <1>2 DEF RequestShapes, Shape, IdleShape
<1>4. /\ \A u \in Users : U!Visible(r, u) = Row(u)
      /\ \A t \in Tokens : O!Visible(r, t) = Ott(t)
  BY <1>2, SeesCommitted DEF At
<1>5. ASSUME NEW u \in Users, SelectByEmail(r, in, u)
      PROVE  ReadsCommitted(r) /\ KeysKnown(r)
  <2>1. /\ user'[r] = u /\ seenUser'[r] = userTable[u]
        /\ userTable[u] # NoRow
        /\ UNCHANGED <<token, seenToken>> /\ in.op # "change_password"
    BY <1>4, <1>5 DEF SelectByEmail, FoundByEmail, TypeOK, EmailOps, Row
  <2>2. QED
    BY <1>2, <2>1 DEF ReadsCommitted, KeysKnown
<1>6. ASSUME NEW u \in Users, SelectByAccessToken(r, in, u)
      PROVE  ReadsCommitted(r) /\ KeysKnown(r)
  <2>1. /\ user'[r] = u /\ seenUser'[r] = userTable[u]
        /\ now < access[u] /\ UNCHANGED <<token, seenToken>>
    BY <1>4, <1>6 DEF SelectByAccessToken, TypeOK, Row
  <2>2. access[u] > 0
    BY <2>1 DEF TypeOK
  <2>3. userTable[u] # NoRow /\ userTable[u].data.verified
    BY <2>2 DEF AccessVerified, Row
  <2>4. QED
    BY <1>2, <2>1, <2>3 DEF ReadsCommitted, KeysKnown
<1>7. CASE EmailNotFound(r, in) \/ AccessExpired(r, in) \/ TokenNotFound(r, in)
  <2>1. UNCHANGED <<user, seenUser, token, seenToken>>
    BY <1>7, Zenon DEF EmailNotFound, AccessExpired, TokenNotFound
  <2>2. QED
    BY <1>3, <2>1 DEF ReadsCommitted, KeysKnown
<1>8. ASSUME NEW t \in mailbox, SelectToken(r, in, t)
      PROVE  ReadsCommitted(r) /\ KeysKnown(r)
  <2>1. /\ t \in Tokens /\ token'[r] = t /\ seenToken'[r] = ottTable[t]
        /\ ottTable[t] # NoRow /\ user'[r] = ottTable[t].data.user
        /\ UNCHANGED seenUser
    BY <1>4, <1>8 DEF SelectToken, TypeOK, Ott
  <2>2. user'[r] \in Users /\ userTable[user'[r]] # NoRow
    <3>1. ottTable[t] \in OttRows
      BY <2>1 DEF TypeOK
    <3>2. QED
      BY <2>1, <3>1, RowFields DEF TokensStored, Ott, Row
  <2>3. QED
    BY <1>3, <2>1, <2>2 DEF ReadsCommitted, KeysKnown
<1>9. QED
  BY <1>1, <1>5, <1>6, <1>7, <1>8

LEMMA AcceptsReads ==
  ASSUME IInv, NEW r \in Requests, NEW t \in Tokens,
         \/ AcceptOldUser(r, t) \/ \E u \in Users : AcceptNewUser(r, u, t)
  PROVE  /\ ReadsCommitted(r) /\ KeysKnown(r)
         /\ input'[r] = input[r] /\ seenUser'[r] = seenUser[r]
         /\ seenUser[r] = NoRow => FreshUser(user'[r])
         /\ FreshToken(token'[r])
<1>1. PICK purpose : MakeToken(r, t, purpose)
  BY Zenon DEF AcceptOldUser, AcceptNewUser
<1>2. FreshToken(t) /\ token'[r] = t
  BY <1>1 DEF MakeToken, IInv, TypeOK
<1>3. /\ At(r, "decide") /\ Issues(r)
      /\ UNCHANGED <<input, seenUser, seenToken>>
  BY Zenon DEF AcceptOldUser, AcceptNewUser, Accepts, Issues
<1>4. seenToken[r] = NoRow
  BY <1>3 DEF IInv, RequestShapes, Shape, ReadShape, Issues, UsesToken,
              TokenOps
<1>5. CASE AcceptOldUser(r, t)
  <2>1. user' = user /\ seenUser[r] # NoRow
    BY <1>5 DEF AcceptOldUser
  <2>2. QED
    BY <1>2, <1>3, <1>4, <2>1 DEF ReadsCommitted, KeysKnown
<1>6. ASSUME NEW u \in Users, AcceptNewUser(r, u, t)
      PROVE  user'[r] = u /\ FreshUser(u) /\ seenUser[r] = NoRow
  BY <1>6 DEF AcceptNewUser, IInv, TypeOK
<1>7. ASSUME NEW u \in Users, AcceptNewUser(r, u, t)
      PROVE  /\ ReadsCommitted(r) /\ KeysKnown(r)
             /\ FreshUser(user'[r])
  BY <1>2, <1>3, <1>4, <1>6, <1>7 DEF ReadsCommitted, KeysKnown
<1>8. QED
  BY <1>2, <1>3, <1>5, <1>7

LEMMA RemembersReads ==
  ASSUME NEW r \in Requests, RemembersRow(r)
  PROVE  ReadsCommitted(r) /\ KeysKnown(r)
BY DEF RemembersRow, ReadsCommitted, KeysKnown

LEMMA ForgetsReads ==
  ASSUME NEW rs \in SUBSET Requests, Forget(rs), NEW r \in rs
  PROVE  ReadsCommitted(r) /\ KeysKnown(r)
BY DEF Forget, ReadsCommitted, KeysKnown

LEMMA LoadUserReads ==
  ASSUME IInv, NEW r \in Requests, LoadUser(r)
  PROVE  ReadsCommitted(r) /\ KeysKnown(r)
<1> USE DEF IInv
<1>1. /\ At(r, "load_user") /\ seenUser'[r] = U!Visible(r, user[r])
      /\ UNCHANGED <<input, user, token, seenToken>>
  BY DEF LoadUser, TypeOK
<1>2. user[r] \in Users /\ Op(r) # "change_password"
  <2>1. seenToken[r] # NoRow /\ user[r] = seenToken[r].data.user /\ UsesToken(r)
    BY <1>1 DEF RequestShapes, Shape, ReadShape
  <2>2. QED
    BY <2>1, RowFields DEF TypeOK, UsesToken, TokenOps
<1>3. seenUser'[r] = userTable[user[r]]
  BY <1>1, <1>2, SeesCommitted DEF Row, At
<1>4. QED
  BY <1>1, <1>2, <1>3 DEF ReadsCommitted, KeysKnown, Op

LEMMA StepReads ==
  ASSUME IInv, NEW r \in Requests, Step(r)
  PROVE  ReadsCommitted(r) /\ KeysKnown(r)
<1>1. CASE Arrives(r)
  BY <1>1, ArrivesReads
<1>2. CASE LoadUser(r)
  BY <1>2, LoadUserReads
<1>3. ASSUME NEW t \in Tokens,
             \/ AcceptOldUser(r, t) \/ \E u \in Users : AcceptNewUser(r, u, t)
      PROVE  ReadsCommitted(r) /\ KeysKnown(r)
  BY <1>3, AcceptsReads
<1>4. CASE Respond(r) \/ ResponseLost(r)
  BY <1>4, ForgetsReads DEF Respond, ResponseLost
<1>5. ASSUME NEW out \in BaseErrors, Refused(r, out) PROVE RemembersRow(r)
  BY <1>5 DEF Refused, localVars, RemembersRow
<1>6. CASE \/ AcceptUpdate(r) \/ AcceptLogin(r)
           \/ InsertToken(r) \/ UpdateToken(r) \/ UpdateTokenConflict(r)
           \/ CommitAndPublish(r) \/ PublishNext(r) \/ Published(r)
  <2>1. RemembersRow(r)
    BY <1>6 DEF AcceptUpdate, AcceptLogin, InsertToken, UpdateToken,
                UpdateTokenConflict, CommitAndPublish, PublishNext, Published,
                localVars, RemembersRow
  <2>2. QED
    BY <2>1, RemembersReads
<1>7. CASE Saves(r) \/ Fails(r)
  <2>1. RemembersRow(r)
    BY <1>7 DEF Saves, Fails, InsertUser, InsertUserFails, UpdateUser,
                UpdateUserConflict, CommitUnacknowledged, DbFailure,
                PushFails, localVars, RemembersRow
  <2>2. QED
    BY <2>1, RemembersReads
<1>8. QED
  BY <1>1, <1>2, <1>3, <1>4, <1>5, <1>6, <1>7, RemembersReads, Zenon
  DEF Step, Proceeds

LEMMA ReadsNotNewerStep ==
  IInv /\ [Next]_vars /\ TypeOK' /\ RequestShapes' => ReadsNotNewer'
<1> SUFFICES ASSUME IInv, [Next]_vars, TypeOK', RequestShapes',
                    NEW q \in Requests
             PROVE  (/\ seenUser[q] # NoRow => UserGrown(seenUser[q], Row(user[q]))
                     /\ seenToken[q] # NoRow => OttGrown(seenToken[q], Ott(token[q]))
                     /\ seenUser[q] # NoRow /\ Op(q) = "change_password" =>
                          Stored(q).verified)'
  BY DEF ReadsNotNewer
<1> USE DEF IInv
<1>1. ReadsCommitted(q)
  <2>1. ASSUME NEW r \in Requests, Step(r) PROVE ReadsCommitted(q)
    <3>1. CASE q = r
      BY <2>1, <3>1, StepReads
    <3>2. CASE q # r
      BY <2>1, <3>2, StepsAlone, RemembersReads DEF OthersAlone, Alone
    <3>3. QED
      BY <3>1, <3>2
  <2>2. CASE Crash
    BY <2>2, ForgetsReads DEF Crash
  <2>3. CASE Deliver \/ Tick \/ UNCHANGED vars
    BY <2>3 DEF Deliver, Tick, vars, requestVars, localVars, ReadsCommitted
  <2>4. QED
    BY <2>1, <2>2, <2>3 DEF Next, Step
<1>2. TablesGrow
  BY StepsGrow
<1>3. /\ seenUser[q] # NoRow =>
           user[q] \in Users /\ seenUser[q] \in UserRows
      /\ seenToken[q] # NoRow =>
           token[q] \in Tokens /\ seenToken[q] \in OttRows
  BY DEF TypeOK, RequestShapes, Shape, ReadShape
<1>4. ASSUME seenUser'[q] # NoRow
      PROVE  /\ user'[q] \in Users
             /\ UserGrown(seenUser'[q], userTable'[user'[q]])
             /\ input'[q].op = "change_password" => seenUser'[q].data.verified
  <2>1. CASE UNCHANGED <<input[q], user[q], seenUser[q]>>
    <3>1. UserGrown(seenUser[q], Row(user[q]))
      BY <1>4, <2>1 DEF ReadsNotNewer
    <3>2. UserGrown(seenUser[q], userTable'[user[q]])
      BY <1>2, <1>3, <1>4, <2>1, <3>1, GrowsOn DEF Row
    <3>3. QED
      BY <1>3, <1>4, <2>1, <3>2 DEF ReadsNotNewer, Op, Stored
  <2>2. CASE /\ user'[q] \in Users /\ seenUser'[q] = userTable[user'[q]]
             /\ input'[q].op = "change_password" => seenUser'[q].data.verified
    BY <1>2, <1>4, <2>2 DEF TablesGrow, Row
  <2>3. QED
    BY <1>1, <1>4, <2>1, <2>2 DEF ReadsCommitted
<1>5. ASSUME seenToken'[q] # NoRow
      PROVE  OttGrown(seenToken'[q], ottTable'[token'[q]])
  <2>1. CASE UNCHANGED <<token[q], seenToken[q]>>
    <3>1. OttGrown(seenToken[q], Ott(token[q]))
      BY <1>5, <2>1 DEF ReadsNotNewer
    <3>2. QED
      BY <1>2, <1>3, <1>5, <2>1, <3>1, GrowsOn DEF Ott
  <2>2. CASE token'[q] \in Tokens /\ seenToken'[q] = ottTable[token'[q]]
    BY <1>2, <1>5, <2>2 DEF TablesGrow, Ott
  <2>3. QED
    BY <1>1, <1>5, <2>1, <2>2 DEF ReadsCommitted
<1>6. QED
  BY <1>4, <1>5 DEF Row, Ott, Op, Stored

(* A request that has decided in the next state has just decided, on keys  *)
(* that are fresh if they are new, or goes on with what it had decided.    *)
Decides(r) ==
  /\ pc'[r] = "save_user" /\ UNCHANGED dbVars /\ At(r, "decide")
  /\ UNCHANGED <<input[r], seenUser[r]>>
  /\ seenUser[r] = NoRow => FreshUser(user'[r])
  /\ Issues(r) => FreshToken(token'[r])
GoesOn(r) ==
  /\ Decided(r) /\ RemembersRow(r) /\ UNCHANGED expires
  /\ UNCHANGED <<userTable, ottTable>>
  /\ \/ InsertUser(r) \/ UpdateUser(r) \/ InsertToken(r) \/ UpdateToken(r)

LEMMA DecidedStep ==
  ASSUME IInv, NEW r \in Requests, Step(r), Decided(r)'
  PROVE  Decides(r) \/ GoesOn(r)
<1> USE DEF IInv
<1>1. pc'[r] \notin {"idle", "load_user", "decide", "publish", "respond"}
  BY DEF Decided
<1>2. ~Arrives(r)
  <2>1. ASSUME NEW in \in Inputs, EmailNotFound(r, in) PROVE FALSE
    <3>1. \/ Goto(r, "decide")
          \/ Answer(r, "UserNotFound")
      BY <2>1, Zenon DEF EmailNotFound
    <3>2. QED
      BY <1>1, <3>1 DEF Answer, Goto, TypeOK
  <2>2. ASSUME NEW in \in Inputs, NEW u \in Users,
               SelectByEmail(r, in, u) \/ SelectByAccessToken(r, in, u)
        PROVE  FALSE
    BY <1>1, <2>2 DEF SelectByEmail, SelectByAccessToken, Goto, TypeOK
  <2>3. ASSUME NEW in \in Inputs, AccessExpired(r, in) \/ TokenNotFound(r, in)
        PROVE  FALSE
    BY <1>1, <2>3 DEF AccessExpired, TokenNotFound, Answer, Goto, TypeOK
  <2>4. ASSUME NEW in \in Inputs, NEW t \in mailbox, SelectToken(r, in, t)
        PROVE  FALSE
    BY <1>1, <2>4 DEF SelectToken, Goto, TypeOK
  <2>5. QED
    BY <2>1, <2>2, <2>3, <2>4, Zenon DEF Arrives
<1>3. ~Answer(r, "ServerError") /\ ~Goto(r, "respond") /\ ~Goto(r, "publish")
      /\ ~Goto(r, "decide") /\ ~Forget({r})
      /\ (UNCHANGED pc => Decided(r) /\ ~At(r, "publish"))
  BY <1>1 DEF Answer, Goto, TypeOK, Forget, Decided, At
<1>4. ASSUME NEW t \in Tokens,
             \/ AcceptOldUser(r, t) \/ \E u \in Users : AcceptNewUser(r, u, t)
      PROVE  Decides(r)
  <2>1. Accepts(r) /\ UNCHANGED dbVars
    BY <1>4, Zenon DEF AcceptOldUser, AcceptNewUser
  <2>2. pc'[r] = "save_user" /\ At(r, "decide")
    BY <2>1 DEF Accepts, Goto, TypeOK
  <2>3. QED
    BY <1>4, <2>1, <2>2, AcceptsReads DEF Decides
<1>5. ASSUME AcceptUpdate(r) \/ AcceptLogin(r) PROVE Decides(r)
  <2>1. /\ Accepts(r) /\ UNCHANGED dbVars /\ Op(r) \notin {"register", "recover_request"}
        /\ UNCHANGED <<input, seenUser>>
    BY <1>5 DEF AcceptUpdate, AcceptLogin, EventOf, localVars
  <2>2. At(r, "decide") /\ Shape(r) /\ pc'[r] = "save_user"
    BY <2>1 DEF Accepts, RequestShapes, Goto, TypeOK
  <2>3. seenUser[r] # NoRow /\ ~Issues(r)
    BY <2>1, <2>2 DEF Shape, ReadShape, Issues
  <2>4. QED
    BY <2>1, <2>2, <2>3 DEF Decides
<1>6. ASSUME \/ InsertUser(r) \/ UpdateUser(r) \/ InsertToken(r) \/ UpdateToken(r)
      PROVE  GoesOn(r)
  BY <1>6 DEF GoesOn, RemembersRow, Decided, At, InsertUser, UpdateUser,
              InsertToken, UpdateToken, U!Insert, U!Update, U!Write, O!Insert,
              O!Update, O!Write, ottVars, userVars, localVars
<1>7. ~Fails(r) /\ ~InsertUserFails(r) /\ ~UpdateUserConflict(r)
      /\ ~UpdateTokenConflict(r) /\ ~CommitAndPublish(r) /\ ~Published(r)
      /\ ~LoadUser(r) /\ ~Respond(r) /\ ~ResponseLost(r) /\ ~PublishNext(r)
      /\ \A out \in BaseErrors : ~Refused(r, out)
  BY <1>3 DEF Fails, CommitUnacknowledged, DbFailure, PushFails,
              InsertUserFails, UpdateUserConflict, UpdateTokenConflict,
              CommitAndPublish, Published, LoadUser, Respond, ResponseLost,
              PublishNext, Refused, Answer
<1>8. QED
  BY <1>2, <1>4, <1>5, <1>6, <1>7, Zenon DEF Step, Proceeds, Saves

LEMMA KeysPrivateStep ==
  IInv /\ [Next]_vars /\ RequestShapes' => KeysPrivate'
<1> SUFFICES ASSUME IInv, [Next]_vars, RequestShapes', NEW q \in Requests,
                    Decided(q)'
             PROVE  /\ Creates(q)' =>
                         /\ userTable'[user'[q]] = NoRow
                         /\ \A p \in Requests \ {q} : user'[p] # user'[q]
                    /\ Issues(q)' =>
                         /\ ottTable'[token'[q]] = NoRow
                         /\ \A p \in Requests \ {q} : token'[p] # token'[q]
  BY DEF KeysPrivate, Row, Ott
<1> USE DEF IInv
<1>1. user'[q] \in Users /\ (Issues(q)' => token'[q] \in Tokens)
  BY DEF RequestShapes, Shape, DecisionShape
<1>2. user'[q] # NoUser /\ (Issues(q)' => token'[q] # NoToken)
  BY <1>1, LifecycleAssumption
<1>3. ASSUME NEW r \in Requests, Step(r), r # q
      PROVE  /\ Creates(q)' =>
                  /\ userTable'[user'[q]] = NoRow
                  /\ \A p \in Requests \ {q} : user'[p] # user'[q]
             /\ Issues(q)' =>
                  /\ ottTable'[token'[q]] = NoRow
                  /\ \A p \in Requests \ {q} : token'[p] # token'[q]
  <2>1. Alone(q) /\ \A p \in Requests \ {q, r} : Alone(p)
    BY <1>3, StepsAlone DEF OthersAlone
  <2>2. Decided(q) /\ (Creates(q)' <=> Creates(q)) /\ (Issues(q)' <=> Issues(q))
    BY <2>1 DEF Alone, RemembersRow, Decided, Creates, Issues, Op
  <2>3. KeysKnown(r)
    BY <1>3, StepReads
  <2>4. /\ Creates(q) => user'[r] # user[q]
        /\ Issues(q) => token'[r] # token[q]
    BY <1>1, <1>2, <1>3, <2>1, <2>2, <2>3
    DEF KeysKnown, FreshUser, FreshToken, KeysPrivate, Row, Ott, Alone,
        RemembersRow
  <2>5. /\ Creates(q) => userTable'[user[q]] = NoRow
        /\ Issues(q) => ottTable'[token[q]] = NoRow
    <3>1. CASE UNCHANGED <<userTable, ottTable>>
      BY <2>2, <3>1 DEF KeysPrivate, Row, Ott
    <3>2. CASE At(r, "commit") /\ Commit(r)
      <4>1. Creates(q) => user[q] \in Users \ {user[r]}
        BY <1>1, <1>3, <2>1, <2>2 DEF KeysPrivate, Alone, RemembersRow
      <4>2. Issues(q) => token[q] \in Tokens \ {token[r]}
        BY <1>1, <1>3, <2>1, <2>2 DEF KeysPrivate, Alone, RemembersRow
      <4>3. QED
        BY <2>2, <3>2, <4>1, <4>2, CommitEffects DEF KeysPrivate, Row, Ott
    <3>3. QED
      BY <1>3, <3>1, <3>2, DatabaseStep
      DEF dbVars, userVars, ottVars, Rollback, U!Rollback, O!Rollback,
          InsertUser, UpdateUser, InsertToken, UpdateToken, U!Insert,
          U!Update, U!Write, O!Insert, O!Update, O!Write, CommitAndPublish,
          CommitUnacknowledged
  <2>6. QED
    BY <2>1, <2>2, <2>4, <2>5 DEF Alone, RemembersRow, KeysPrivate
<1>4. CASE Step(q)
  <2>1. \A p \in Requests \ {q} : Alone(p)
    BY <1>4, StepsAlone DEF OthersAlone
  <2>2. CASE Decides(q)
    BY <2>1, <2>2
    DEF Decides, Alone, RemembersRow, FreshUser, FreshToken, Creates, Issues,
        Op, dbVars, userVars, ottVars
  <2>3. CASE GoesOn(q)
    BY <2>1, <2>3
    DEF GoesOn, Alone, RemembersRow, KeysPrivate, Creates, Issues, Op, Row,
        Ott
  <2>4. QED
    BY <1>4, <2>2, <2>3, DecidedStep
<1>5. CASE Crash
  BY <1>5 DEF Crash, Forget, Decided
<1>6. CASE Deliver \/ Tick \/ UNCHANGED vars
  BY <1>6 DEF Deliver, Tick, vars, dbVars, userVars, ottVars, requestVars,
              localVars, KeysPrivate, Decided, Creates, Issues, Op, Row, Ott
<1>7. QED
  BY <1>3, <1>4, <1>5, <1>6 DEF Next, Step

-----------------------------------------------------------------------------
(* Row locks                                                               *)

(* A request that is neither the one that steps nor waiting for its first  *)
(* write keeps its locks, its drafts and the rows under them.              *)
LEMMA LocksKept ==
  ASSUME TypeOK, NEW r \in Requests, NEW q \in Requests \ {r},
         \/ UNCHANGED dbVars \/ Rollback(r) \/ Commit(r)
         \/ InsertUser(r) \/ UpdateUser(r) \/ InsertToken(r) \/ UpdateToken(r)
  PROVE  /\ \A u \in Users :
              /\ userHolder'[u] = q <=> userHolder[u] = q
              /\ userHolder[u] = q =>
                   UNCHANGED <<userDraft[u], userTable[u]>>
         /\ \A t \in Tokens :
              /\ ottHolder'[t] = q <=> ottHolder[t] = q
              /\ ottHolder[t] = q => UNCHANGED <<ottDraft[t], ottTable[t]>>
<1> USE DEF TypeOK
<1>1. q # NoRequest /\ r # NoRequest
  BY LifecycleAssumption
<1>2. CASE UNCHANGED dbVars
  BY <1>2 DEF dbVars, userVars, ottVars
<1>3. CASE Rollback(r)
  BY <1>1, <1>3 DEF Rollback, U!Rollback, U!Release, O!Rollback, O!Release
<1>4. CASE Commit(r)
  BY <1>1, <1>4 DEF Commit, U!Commit, U!Release, O!Commit, O!Release
<1>5. CASE InsertUser(r)
  BY <1>1, <1>5 DEF InsertUser, U!Insert, U!Write, U!Unlocked, ottVars
<1>6. CASE UpdateUser(r)
  BY <1>1, <1>6 DEF UpdateUser, U!Update, U!Write, U!Unlocked, ottVars
<1>7. CASE InsertToken(r)
  BY <1>1, <1>7 DEF InsertToken, O!Insert, O!Write, O!Unlocked, userVars
<1>8. CASE UpdateToken(r)
  BY <1>1, <1>8 DEF UpdateToken, O!Update, O!Write, O!Unlocked, userVars
<1>9. QED
  BY <1>2, <1>3, <1>4, <1>5, <1>6, <1>7, <1>8

(* The first write takes the lock of the row that was read.                *)
LEMMA UserWritten ==
  ASSUME IInv, NEW r \in Requests, InsertUser(r) \/ UpdateUser(r)
  PROVE  /\ At(r, "save_user") /\ Decided(r) /\ user[r] \in Users
         /\ RemembersRow(r) /\ UNCHANGED <<expires, ottVars, userTable>>
         /\ pc' = [pc EXCEPT ![r] = AfterSaveUser(r)]
         /\ userHolder' = [userHolder EXCEPT ![user[r]] = r]
         /\ userDraft' = [userDraft EXCEPT ![user[r]] = NewUserRow(r)]
         /\ Row(user[r]) = seenUser[r]
<1> USE DEF IInv
<1>1. /\ At(r, "save_user") /\ RemembersRow(r)
      /\ UNCHANGED <<expires, ottVars, userTable>>
      /\ pc' = [pc EXCEPT ![r] = AfterSaveUser(r)]
  BY DEF InsertUser, UpdateUser, RemembersRow, localVars, Goto, U!Insert,
         U!Update, U!Write
<1>2. Decided(r) /\ user[r] \in Users
  BY <1>1 DEF RequestShapes, Shape, DecisionShape, Decided, At
<1>3. U!Visible(r, user[r]) = Row(user[r])
  BY <1>1, <1>2, SeesCommitted DEF At
<1>4. CASE InsertUser(r)
  BY <1>1, <1>2, <1>3, <1>4 DEF InsertUser, U!Insert, U!Write, NewUserRow
<1>5. CASE UpdateUser(r)
  <2>1. UserGrown(seenUser[r], Row(user[r]))
    BY <1>5 DEF UpdateUser, ReadsNotNewer
  <2>2. Row(user[r]).version = seenUser[r].version
    BY <1>3, <1>5 DEF UpdateUser, U!Update, U!Matches
  <2>3. seenUser[r] \in UserRows
    BY <1>5 DEF UpdateUser, TypeOK
  <2>4. Row(user[r]) = seenUser[r]
    BY <2>1, <2>2, <2>3, RowFields DEF UserGrown
  <2>5. QED
    BY <1>1, <1>2, <1>5, <2>4 DEF UpdateUser, U!Update, U!Write, NewUserRow
<1>6. QED
  BY <1>4, <1>5

(* So does the second one.                                                 *)
LEMMA TokenWritten ==
  ASSUME IInv, NEW r \in Requests, InsertToken(r) \/ UpdateToken(r)
  PROVE  /\ At(r, "save_token") /\ Decided(r) /\ token[r] \in Tokens
         /\ Issues(r) \/ UsesToken(r)
         /\ RemembersRow(r) /\ UNCHANGED <<expires, userVars, ottTable>>
         /\ pc' = [pc EXCEPT ![r] = "commit"]
         /\ ottHolder' = [ottHolder EXCEPT ![token[r]] = r]
         /\ ottDraft' = [ottDraft EXCEPT ![token[r]] = NewOttRow(r)]
         /\ Ott(token[r]) = seenToken[r]
<1> USE DEF IInv
<1>1. /\ At(r, "save_token") /\ RemembersRow(r)
      /\ UNCHANGED <<expires, userVars, ottTable>>
      /\ pc' = [pc EXCEPT ![r] = "commit"]
  BY DEF InsertToken, UpdateToken, RemembersRow, localVars, Goto, O!Insert,
         O!Update, O!Write
<1>2. Decided(r) /\ token[r] \in Tokens /\ (Issues(r) \/ UsesToken(r))
  BY <1>1 DEF RequestShapes, Shape, ReadShape, DecisionShape, Decided, At
<1>3. O!Visible(r, token[r]) = Ott(token[r])
  BY <1>1, <1>2, SeesCommitted DEF At
<1>4. CASE InsertToken(r)
  BY <1>1, <1>2, <1>3, <1>4 DEF InsertToken, O!Insert, O!Write, NewOttRow
<1>5. CASE UpdateToken(r)
  <2>1. OttGrown(seenToken[r], Ott(token[r]))
    BY <1>5 DEF UpdateToken, ReadsNotNewer
  <2>2. Ott(token[r]).version = seenToken[r].version
    BY <1>3, <1>5 DEF UpdateToken, O!Update, O!Matches
  <2>3. seenToken[r] \in OttRows
    BY <1>5 DEF UpdateToken, TypeOK
  <2>4. Ott(token[r]) = seenToken[r]
    BY <2>1, <2>2, <2>3, RowFields DEF OttGrown
  <2>5. QED
    BY <1>1, <1>2, <1>5, <2>4 DEF UpdateToken, O!Update, O!Write, NewOttRow
<1>6. QED
  BY <1>4, <1>5

LEMMA CommitStep ==
  ASSUME TypeOK, NEW r \in Requests, CommitAndPublish(r) \/ CommitUnacknowledged(r)
  PROVE  /\ At(r, "commit") /\ Commit(r)
         /\ RemembersRow(r) /\ UNCHANGED expires
         /\ \/ CommitAndPublish(r) /\ pc'[r] = "publish"
            \/ CommitUnacknowledged(r) /\ pc'[r] = "respond"
BY DEF TypeOK, CommitAndPublish, CommitUnacknowledged, localVars, Goto,
       Answer, RemembersRow

LEMMA RowsToWrite ==
  ASSUME NEW q \in Requests, RemembersRow(q), expires'[q] = expires[q]
  PROVE  /\ NewUserRow(q)' = NewUserRow(q) /\ NewOttRow(q)' = NewOttRow(q)
         /\ Issues(q)' = Issues(q) /\ UsesToken(q)' = UsesToken(q)
         /\ Creates(q)' = Creates(q)
BY DEF RemembersRow, NewUserRow, NewOttRow, UserEntity, OttEntity, Stored, Op,
       Issues, UsesToken, Creates

LEMMA WritesHeldStep ==
  IInv /\ [Next]_vars /\ RequestShapes' => WritesHeld'
<1> SUFFICES ASSUME IInv, [Next]_vars, RequestShapes', NEW q \in Requests
             PROVE  UserRowHeld(q)' /\ OttRowHeld(q)'
  BY DEF WritesHeld
<1> USE DEF IInv
<1> DEFINE
  UserHeldNext == pc'[q] \in {"save_token", "commit"} =>
    /\ userHolder'[user'[q]] = q
    /\ userDraft'[user'[q]] = NewUserRow(q)'
    /\ userTable'[user'[q]] = seenUser'[q]
  OttHeldNext == pc'[q] = "commit" /\ (Issues(q)' \/ UsesToken(q)') =>
    /\ ottHolder'[token'[q]] = q
    /\ ottDraft'[token'[q]] = NewOttRow(q)'
    /\ ottTable'[token'[q]] = seenToken'[q]
<1> SUFFICES UserHeldNext /\ OttHeldNext
  BY DEF UserRowHeld, OttRowHeld, Row, Ott, At
<1>1. ASSUME NEW r \in Requests, Step(r), r # q
      PROVE  UserHeldNext /\ OttHeldNext
  <2>1. Alone(q)
    BY <1>1, StepsAlone DEF OthersAlone
  <2>2. \/ UNCHANGED dbVars \/ Rollback(r) \/ Commit(r)
        \/ InsertUser(r) \/ UpdateUser(r) \/ InsertToken(r) \/ UpdateToken(r)
    BY <1>1, DatabaseStep DEF CommitAndPublish, CommitUnacknowledged
  <2>3. /\ NewUserRow(q)' = NewUserRow(q) /\ NewOttRow(q)' = NewOttRow(q)
        /\ Issues(q)' = Issues(q) /\ UsesToken(q)' = UsesToken(q)
    BY <2>1, RowsToWrite DEF Alone
  <2>4. UserHeldNext
    <3>1. SUFFICES ASSUME pc[q] \in {"save_token", "commit"}
                   PROVE  UserHeldNext
      BY <2>1 DEF Alone
    <3>2. user[q] \in Users
      BY <3>1 DEF RequestShapes, Shape, DecisionShape, Decided
    <3>3. /\ userHolder[user[q]] = q /\ userDraft[user[q]] = NewUserRow(q)
          /\ userTable[user[q]] = seenUser[q]
      BY <3>1 DEF WritesHeld, UserRowHeld, Row
    <3>4. /\ userHolder'[user[q]] = q
          /\ UNCHANGED <<userDraft[user[q]], userTable[user[q]]>>
      <4>1. \A u \in Users :
              userHolder[u] = q => /\ userHolder'[u] = q
                                   /\ userDraft'[u] = userDraft[u]
                                   /\ userTable'[u] = userTable[u]
        BY <1>1, <2>2, LocksKept
      <4>2. user'[q] = user[q]
        BY <2>1 DEF Alone, RemembersRow
      <4>3. QED
        BY <3>2, <3>3, <4>1, <4>2
    <3>5. QED
      BY <2>1, <2>3, <3>3, <3>4 DEF Alone, RemembersRow
  <2>5. OttHeldNext
    <3>1. SUFFICES ASSUME At(q, "commit"), Issues(q) \/ UsesToken(q)
                   PROVE  OttHeldNext
      BY <2>1, <2>3 DEF Alone, At
    <3>2. token[q] \in Tokens
      BY <3>1 DEF RequestShapes, Shape, ReadShape, DecisionShape, Decided, At
    <3>3. /\ ottHolder[token[q]] = q /\ ottDraft[token[q]] = NewOttRow(q)
          /\ ottTable[token[q]] = seenToken[q]
      BY <3>1 DEF WritesHeld, OttRowHeld, Ott
    <3>4. /\ ottHolder'[token[q]] = q
          /\ UNCHANGED <<ottDraft[token[q]], ottTable[token[q]]>>
      <4>1. \A t \in Tokens :
              ottHolder[t] = q => /\ ottHolder'[t] = q
                                  /\ ottDraft'[t] = ottDraft[t]
                                  /\ ottTable'[t] = ottTable[t]
        BY <1>1, <2>2, LocksKept
      <4>2. token'[q] = token[q]
        BY <2>1 DEF Alone, RemembersRow
      <4>3. QED
        BY <3>2, <3>3, <4>1, <4>2
    <3>5. QED
      BY <2>1, <2>3, <3>3, <3>4 DEF Alone, RemembersRow
  <2>6. QED
    BY <2>4, <2>5
<1>2. CASE Step(q)
  <2>1. CASE InsertUser(q) \/ UpdateUser(q)
    <3>1. /\ user[q] \in Users /\ RemembersRow(q) /\ UNCHANGED <<expires, userTable>>
          /\ pc' = [pc EXCEPT ![q] = AfterSaveUser(q)]
          /\ userHolder' = [userHolder EXCEPT ![user[q]] = q]
          /\ userDraft' = [userDraft EXCEPT ![user[q]] = NewUserRow(q)]
          /\ Row(user[q]) = seenUser[q]
      BY <2>1, UserWritten
    <3>2. /\ NewUserRow(q)' = NewUserRow(q)
          /\ Issues(q)' = Issues(q) /\ UsesToken(q)' = UsesToken(q)
      BY <3>1, RowsToWrite
    <3>3. UserHeldNext
      BY <3>1, <3>2 DEF RemembersRow, TypeOK, Row
    <3>4. pc'[q] = "commit" => ~Issues(q) /\ ~UsesToken(q)
      BY <3>1 DEF AfterSaveUser, TypeOK, Issues, UsesToken, TokenOps
    <3>5. QED
      BY <3>2, <3>3, <3>4
  <2>2. CASE InsertToken(q) \/ UpdateToken(q)
    <3>1. /\ token[q] \in Tokens /\ At(q, "save_token")
          /\ RemembersRow(q) /\ UNCHANGED <<expires, userVars, ottTable>>
          /\ ottHolder' = [ottHolder EXCEPT ![token[q]] = q]
          /\ ottDraft' = [ottDraft EXCEPT ![token[q]] = NewOttRow(q)]
          /\ Ott(token[q]) = seenToken[q]
      BY <2>2, TokenWritten
    <3>2. NewUserRow(q)' = NewUserRow(q) /\ NewOttRow(q)' = NewOttRow(q)
      BY <3>1, RowsToWrite
    <3>3. OttHeldNext
      BY <3>1, <3>2 DEF RemembersRow, TypeOK, Ott
    <3>4. /\ userHolder[user[q]] = q /\ userDraft[user[q]] = NewUserRow(q)
          /\ userTable[user[q]] = seenUser[q]
      BY <3>1 DEF WritesHeld, UserRowHeld, Row, At
    <3>5. QED
      BY <3>1, <3>2, <3>3, <3>4 DEF RemembersRow, userVars
  <2>3. CASE pc'[q] \notin {"save_token", "commit"}
    BY <2>3
  <2>4. CASE pc'[q] \in {"save_token", "commit"}
    <3>1. GoesOn(q)
      BY <1>2, <2>4, DecidedStep DEF Decided, Decides
    <3>2. QED
      BY <2>1, <2>2, <3>1 DEF GoesOn
  <2>5. QED
    BY <2>3, <2>4
<1>3. CASE Crash
  BY <1>3 DEF Crash, Forget
<1>4. CASE Deliver \/ Tick \/ UNCHANGED vars
  <2>1. /\ UNCHANGED <<userTable, userDraft, userHolder>>
        /\ UNCHANGED <<ottTable, ottDraft, ottHolder>>
        /\ UNCHANGED pc /\ RemembersRow(q) /\ UNCHANGED expires
    BY <1>4 DEF Deliver, Tick, vars, dbVars, userVars, ottVars, requestVars,
                localVars, RemembersRow
  <2>2. /\ NewUserRow(q)' = NewUserRow(q) /\ NewOttRow(q)' = NewOttRow(q)
        /\ Issues(q)' = Issues(q) /\ UsesToken(q)' = UsesToken(q)
    BY <2>1, RowsToWrite
  <2>3. UserRowHeld(q) /\ OttRowHeld(q)
    BY DEF WritesHeld
  <2>4. QED
    BY <2>1, <2>2, <2>3 DEF UserRowHeld, OttRowHeld, Row, Ott, At,
                            RemembersRow
<1>5. QED
  BY <1>1, <1>2, <1>3, <1>4 DEF Next, Step

LEMMA HoldersWriteStep ==
  IInv /\ [Next]_vars /\ RequestShapes' => HoldersWrite'
<1> SUFFICES ASSUME IInv, [Next]_vars, NEW q \in Requests
             PROVE  /\ \A u \in Users :
                         userHolder'[u] = q =>
                           /\ pc'[q] \in {"save_token", "commit"}
                           /\ u = user'[q]
                    /\ \A t \in Tokens :
                         ottHolder'[t] = q =>
                           /\ pc'[q] = "commit" /\ (Issues(q)' \/ UsesToken(q)')
                           /\ t = token'[q]
  BY DEF HoldersWrite, At
<1> USE DEF IInv
<1>0. q # NoRequest
  BY LifecycleAssumption
<1>1. /\ \A u \in Users :
           userHolder[u] = q =>
             pc[q] \in {"save_token", "commit"} /\ u = user[q]
      /\ \A t \in Tokens :
           ottHolder[t] = q =>
             pc[q] = "commit" /\ (Issues(q) \/ UsesToken(q)) /\ t = token[q]
  BY DEF HoldersWrite, At
<1> DEFINE
  HoldsNext ==
    /\ \A u \in Users :
         userHolder'[u] = q =>
           pc'[q] \in {"save_token", "commit"} /\ u = user'[q]
    /\ \A t \in Tokens :
         ottHolder'[t] = q =>
           /\ pc'[q] = "commit" /\ (Issues(q)' \/ UsesToken(q)')
           /\ t = token'[q]
<1> SUFFICES HoldsNext
  OBVIOUS
<1>2. ASSUME NEW r \in Requests, Step(r), r # q PROVE HoldsNext
  <2>1. Alone(q)
    BY <1>2, StepsAlone DEF OthersAlone
  <2>2. \/ UNCHANGED dbVars \/ Rollback(r) \/ Commit(r)
        \/ InsertUser(r) \/ UpdateUser(r) \/ InsertToken(r) \/ UpdateToken(r)
    BY <1>2, DatabaseStep DEF CommitAndPublish, CommitUnacknowledged
  <2>3. /\ \A u \in Users : userHolder'[u] = q => userHolder[u] = q
        /\ \A t \in Tokens : ottHolder'[t] = q => ottHolder[t] = q
    BY <1>2, <2>2, LocksKept
  <2>4. Issues(q)' = Issues(q) /\ UsesToken(q)' = UsesToken(q)
    BY <2>1, RowsToWrite DEF Alone
  <2>5. QED
    BY <1>1, <2>1, <2>3, <2>4 DEF Alone, RemembersRow
<1>3. CASE Step(q)
  <2>1. CASE InsertUser(q) \/ UpdateUser(q)
    <3>1. /\ At(q, "save_user") /\ user[q] \in Users /\ RemembersRow(q)
          /\ UNCHANGED ottVars
          /\ pc' = [pc EXCEPT ![q] = AfterSaveUser(q)]
          /\ userHolder' = [userHolder EXCEPT ![user[q]] = q]
      BY <2>1, UserWritten
    <3>2. pc'[q] \in {"save_token", "commit"}
      BY <3>1 DEF TypeOK, AfterSaveUser
    <3>3. QED
      BY <1>1, <3>1, <3>2 DEF TypeOK, RemembersRow, At, ottVars
  <2>2. CASE InsertToken(q) \/ UpdateToken(q)
    <3>1. /\ At(q, "save_token") /\ token[q] \in Tokens
          /\ Issues(q) \/ UsesToken(q)
          /\ RemembersRow(q) /\ UNCHANGED <<expires, userVars>>
          /\ pc' = [pc EXCEPT ![q] = "commit"]
          /\ ottHolder' = [ottHolder EXCEPT ![token[q]] = q]
      BY <2>2, TokenWritten
    <3>2. Issues(q)' = Issues(q) /\ UsesToken(q)' = UsesToken(q)
      BY <3>1, RowsToWrite
    <3>3. QED
      BY <1>1, <3>1, <3>2 DEF TypeOK, RemembersRow, At, userVars
  <2>3. CASE Rollback(q) \/ Commit(q)
    <3>1. /\ \A u \in Users : userHolder'[u] # q
          /\ \A t \in Tokens : ottHolder'[t] # q
      BY <1>0, <2>3 DEF Rollback, Commit, U!Rollback, U!Commit, U!Release,
                        O!Rollback, O!Commit, O!Release
    <3>2. QED
      BY <3>1
  <2>4. CASE UNCHANGED dbVars /\ pc[q] \notin {"save_token", "commit"}
    BY <1>1, <2>4 DEF dbVars, userVars, ottVars
  <2>5. QED
    BY <1>3, <2>1, <2>2, <2>3, <2>4, DatabaseStep
    DEF CommitAndPublish, CommitUnacknowledged
<1>4. CASE Crash
  BY <1>0, <1>4 DEF Crash, U!RollbackAll, O!RollbackAll
<1>5. CASE Deliver \/ Tick \/ UNCHANGED vars
  <2>1. /\ UNCHANGED <<userHolder, ottHolder, pc, user, token, input>>
    BY <1>5 DEF Deliver, Tick, vars, dbVars, userVars, ottVars, requestVars,
                localVars
  <2>2. QED
    BY <1>1, <2>1 DEF Issues, UsesToken, Op
<1>6. QED
  BY <1>2, <1>3, <1>4, <1>5 DEF Next, Step

-----------------------------------------------------------------------------
(* The other parts of the invariant                                        *)

(* A row of a table in the next state is the row of this one, or the row   *)
(* that the request at its commit has written.                             *)
LEMMA TablesStep ==
  ASSUME IInv, [Next]_vars
  PROVE  \/ UNCHANGED <<userTable, ottTable>>
         \/ \E r \in Requests :
              /\ At(r, "commit") /\ Commit(r) /\ Step(r)
              /\ CommitAndPublish(r) \/ CommitUnacknowledged(r)
<1>1. ASSUME NEW r \in Requests, Step(r),
             ~(CommitAndPublish(r) \/ CommitUnacknowledged(r))
      PROVE  UNCHANGED <<userTable, ottTable>>
  BY <1>1, DatabaseStep
  DEF dbVars, userVars, ottVars, Rollback, U!Rollback, O!Rollback, InsertUser,
      UpdateUser, InsertToken, UpdateToken, U!Insert, U!Update, U!Write,
      O!Insert, O!Update, O!Write
<1>2. ASSUME NEW r \in Requests, CommitAndPublish(r) \/ CommitUnacknowledged(r)
      PROVE  At(r, "commit") /\ Commit(r)
  BY <1>2 DEF CommitAndPublish, CommitUnacknowledged
<1>3. Crash \/ Deliver \/ Tick \/ UNCHANGED vars =>
        UNCHANGED <<userTable, ottTable>>
  BY DEF Crash, U!RollbackAll, O!RollbackAll, Deliver, Tick, vars, dbVars,
         userVars, ottVars
<1>4. QED
  BY <1>1, <1>2, <1>3 DEF Next, Step

LEMMA TokensStoredStep ==
  IInv /\ [Next]_vars /\ TypeOK' => TokensStored'
<1> SUFFICES ASSUME IInv, [Next]_vars, TypeOK', NEW t \in Tokens,
                    ottTable'[t] # NoRow
             PROVE  /\ userTable'[ottTable'[t].data.user] # NoRow
                    /\ ottTable'[t].version
                         = IF ottTable'[t].data.used THEN 2 ELSE 1
  BY DEF TokensStored, Ott, Row
<1> USE DEF IInv
<1>1. CASE ottTable'[t] = ottTable[t]
  <2>1. /\ Row(ottTable[t].data.user) # NoRow
        /\ ottTable[t].version = IF ottTable[t].data.used THEN 2 ELSE 1
    BY <1>1 DEF TokensStored, Ott
  <2>2. ottTable[t].data.user \in Users
    BY <1>1, RowFields DEF TypeOK
  <2>3. userTable'[ottTable[t].data.user] # NoRow
    BY <2>1, <2>2, StepsGrow DEF TablesGrow, UserGrown, Row
  <2>4. QED
    BY <1>1, <2>1, <2>3
<1>2. CASE ottTable'[t] # ottTable[t]
  <2>1. PICK r \in Requests : At(r, "commit") /\ Commit(r)
    BY <1>2, TablesStep
  <2>2. /\ (Issues(r) \/ UsesToken(r)) /\ t = token[r]
        /\ ottTable'[t] = NewOttRow(r) /\ Ott(t) = seenToken[r]
        /\ userTable'[user[r]] = NewUserRow(r)
    BY <1>2, <2>1, CommitEffects DEF Ott
  <2>3. NewUserRow(r) # NoRow
    BY <2>1, NewRowsGrown, RowFields DEF Decided, At
  <2>4. Shape(r) /\ Decided(r)
    BY <2>1 DEF RequestShapes, Decided, At
  <2>5. CASE seenToken[r] = NoRow
    <3>1. NewOttRow(r).data.user = user[r] /\ NewOttRow(r).version = 1
          /\ NewOttRow(r).data.used = FALSE
      BY <2>5 DEF NewOttRow, OttEntity
    <3>2. QED
      BY <2>2, <2>3, <3>1
  <2>6. CASE seenToken[r] # NoRow
    <3>1. UsesToken(r) /\ user[r] = seenToken[r].data.user
          /\ ~seenToken[r].data.used
      BY <2>4, <2>6 DEF Shape, ReadShape, DecisionShape
    <3>2. seenToken[r].version = 1 /\ seenToken[r].data \in OttData
      BY <2>2, <2>6, <3>1, RowFields DEF TokensStored, TypeOK
    <3>3. /\ NewOttRow(r).data.user = seenToken[r].data.user
          /\ NewOttRow(r).version = 2 /\ NewOttRow(r).data.used = TRUE
      BY <2>6, <3>2 DEF NewOttRow, OttEntity, OttData
    <3>4. QED
      BY <2>2, <2>3, <3>1, <3>3
  <2>7. QED
    BY <2>5, <2>6
<1>3. QED
  BY <1>1, <1>2

(* An account that is inserted is inserted by this step or was before.     *)
LEMMA InsertedStep ==
  ASSUME IInv, NEW q \in Requests, Step(q), Inserted(q)'
  PROVE  /\ RemembersRow(q) /\ UNCHANGED <<userTable, ottTable>>
         /\ InsertUser(q) \/ Inserted(q)
<1>1. GoesOn(q) /\ Creates(q)'
  BY DecidedStep DEF Inserted, Decided, Decides
<1>2. RemembersRow(q) /\ UNCHANGED <<userTable, ottTable>> /\ Creates(q)
  BY <1>1 DEF GoesOn, Creates, RemembersRow, Op
<1>3. InsertUser(q) \/ Inserted(q)
  BY <1>1, <1>2 DEF GoesOn, Inserted, Creates, UpdateUser, InsertToken,
                    UpdateToken, At
<1>4. QED
  BY <1>2, <1>3

LEMMA EmailStaysFree ==
  ASSUME IInv, [Next]_vars, NEW q \in Requests, Inserted(q),
         pc'[q] \in {"save_token", "commit"}
  PROVE  \A u \in Users :
           userTable'[u] # NoRow =>
             userTable'[u].data.email # input[q].email.address
<1> USE DEF IInv
<1> DEFINE e == input[q].email.address
<1>1. SUFFICES ASSUME NEW u \in Users, userTable'[u] # NoRow,
                      userTable'[u].data.email = e
               PROVE  FALSE
  OBVIOUS
<1>2. ~EmailTaken(e)
  BY DEF NewEmailsFree
<1>3. userTable'[u] # userTable[u]
  BY <1>1, <1>2 DEF EmailTaken
<1>4. PICK r \in Requests :
        /\ At(r, "commit") /\ Commit(r)
        /\ CommitAndPublish(r) \/ CommitUnacknowledged(r)
  BY <1>3, TablesStep
<1>5. r # q
  BY <1>4, CommitStep
<1>6. u = user[r] /\ userTable'[u] = NewUserRow(r) /\ Row(u) = seenUser[r]
  BY <1>3, <1>4, CommitEffects DEF Row
<1>7. CASE seenUser[r] = NoRow
  <2>1. Inserted(r)
    BY <1>4, <1>7
    DEF RequestShapes, Shape, ReadShape, Decided, At, Inserted, Creates
  <2>2. NewUserRow(r).data.email = input[r].email.address
    BY <1>7 DEF NewUserRow, UserEntity
  <2>3. QED
    BY <1>1, <1>5, <1>6, <2>1, <2>2 DEF NewEmailsFree
<1>8. CASE seenUser[r] # NoRow
  <2>1. NewUserRow(r).data.email = seenUser[r].data.email
    BY <1>8 DEF NewUserRow, UserEntity, Stored
  <2>2. QED
    BY <1>1, <1>2, <1>6, <1>8, <2>1 DEF EmailTaken, Row
<1>9. QED
  BY <1>7, <1>8

LEMMA NewEmailsFreeStep ==
  IInv /\ [Next]_vars => NewEmailsFree'
<1> SUFFICES ASSUME IInv, [Next]_vars, NEW q \in Requests, Inserted(q)'
             PROVE  /\ \A u \in Users :
                         userTable'[u] # NoRow =>
                           userTable'[u].data.email # input'[q].email.address
                    /\ \A p \in Requests \ {q} :
                         Inserted(p)' =>
                           input'[p].email.address # input'[q].email.address
  BY DEF NewEmailsFree, EmailTaken
<1> USE DEF IInv
<1>1. ASSUME NEW p \in Requests, NEW r \in Requests, Inserted(p)', Step(r)
      PROVE  /\ input'[p] = input[p]
             /\ Inserted(p) \/ (p = r /\ InsertUser(r))
  <2>1. CASE p = r
    BY <1>1, <2>1, InsertedStep DEF RemembersRow
  <2>2. CASE p # r
    <3>1. Alone(p)
      BY <1>1, <2>2, StepsAlone DEF OthersAlone
    <3>2. QED
      BY <1>1, <3>1 DEF Alone, RemembersRow, Inserted, Creates, Op
  <2>3. QED
    BY <2>1, <2>2
<1>2. ASSUME NEW p \in Requests, Inserted(p)',
             Crash \/ Deliver \/ Tick \/ UNCHANGED vars
      PROVE  input'[p] = input[p] /\ Inserted(p)
  <2>1. ~Crash
    BY <1>2 DEF Crash, Forget, Inserted
  <2>2. UNCHANGED <<pc, input, seenUser>>
    BY <1>2, <2>1 DEF Deliver, Tick, vars, requestVars, localVars
  <2>3. QED
    BY <1>2, <2>2 DEF Inserted, Creates, Op
(* The email of the row that is inserted is not that of another one.       *)
<1>3. ASSUME NEW r \in Requests, InsertUser(r), NEW p \in Requests \ {r},
             Inserted(p)
      PROVE  input[p].email.address # input[r].email.address
  <2>1. user[p] \in Users /\ userHolder[user[p]] = p
        /\ userDraft[user[p]] = NewUserRow(p)
    BY <1>3 DEF Inserted, WritesHeld, UserRowHeld, RequestShapes, Shape,
                DecisionShape, Decided
  <2>2. NewUserRow(p) # NoRow
    BY <1>3, NewRowsGrown, RowFields DEF Inserted, Decided
  <2>3. NewUserRow(p).data.email = input[p].email.address
    BY <1>3 DEF Inserted, Creates, NewUserRow, UserEntity
  <2>4. ~EmailWaits(r, input[r].email.address)
    BY <1>3 DEF InsertUser
  <2>5. p # NoRequest
    BY LifecycleAssumption
  <2>6. QED
    BY <2>1, <2>2, <2>3, <2>4, <2>5 DEF EmailWaits
<1>4. ASSUME NEW r \in Requests, Step(r)
      PROVE  /\ \A u \in Users :
                  userTable'[u] # NoRow =>
                    userTable'[u].data.email # input'[q].email.address
             /\ \A p \in Requests \ {q} :
                  Inserted(p)' =>
                    input'[p].email.address # input'[q].email.address
  <2>1. \A u \in Users :
          userTable'[u] # NoRow =>
            userTable'[u].data.email # input'[q].email.address
    <3>1. CASE Inserted(q)
      BY <1>1, <1>4, <3>1, EmailStaysFree DEF Inserted
    <3>2. CASE q = r /\ InsertUser(r)
      <4>1. ~EmailTaken(input[q].email.address) /\ userTable' = userTable
        BY <3>2 DEF InsertUser, U!Insert, U!Write
      <4>2. QED
        BY <1>1, <1>4, <4>1 DEF EmailTaken
    <3>3. QED
      BY <1>1, <1>4, <3>1, <3>2
  <2>2. ASSUME NEW p \in Requests \ {q}, Inserted(p)'
        PROVE  input'[p].email.address # input'[q].email.address
    <3>1. /\ input'[p] = input[p] /\ input'[q] = input[q]
          /\ Inserted(p) \/ (p = r /\ InsertUser(r))
          /\ Inserted(q) \/ (q = r /\ InsertUser(r))
      BY <1>1, <1>4, <2>2
    <3>2. QED
      BY <1>3, <2>2, <3>1 DEF NewEmailsFree
  <2>3. QED
    BY <2>1, <2>2
<1>5. CASE Crash \/ Deliver \/ Tick \/ UNCHANGED vars
  <2>1. input'[q] = input[q] /\ Inserted(q)
    BY <1>2, <1>5
  <2>2. \A u \in Users :
          userTable'[u] # NoRow =>
            userTable'[u].data.email # input'[q].email.address
    BY <2>1, EmailStaysFree DEF Inserted
  <2>3. QED
    BY <1>2, <1>5, <2>1, <2>2 DEF NewEmailsFree
<1>6. QED
  BY <1>4, <1>5 DEF Next, Step

(* A request that ends at a publish or a response came from one step.      *)
LEMMA PublishStep ==
  ASSUME IInv, NEW r \in Requests, Step(r), pc'[r] = "publish"
  PROVE  /\ RemembersRow(r)
         /\ CommitAndPublish(r) \/ (At(r, "publish") /\ PublishNext(r))
<1> USE DEF IInv
<1>1. ~Goto(r, "respond") /\ ~Goto(r, "decide") /\ ~Goto(r, "load_user")
      /\ ~Goto(r, "save_user") /\ ~Goto(r, "commit") /\ ~Goto(r, "save_token")
      /\ ~Forget({r})
  BY DEF Goto, TypeOK, Forget
<1>2. ~Arrives(r)
  BY <1>1, Zenon DEF Arrives, SelectByEmail, SelectByAccessToken,
                     EmailNotFound, AccessExpired, TokenNotFound, SelectToken,
                     Answer
<1>3. ~Saves(r)
  BY <1>1 DEF Saves, InsertUser, InsertUserFails, UpdateUser, AfterSaveUser,
              UpdateUserConflict, Answer
<1>4. ~Fails(r)
  BY <1>1 DEF Fails, CommitUnacknowledged, DbFailure, PushFails, Answer
<1>5. ASSUME Proceeds(r) PROVE CommitAndPublish(r) \/ PublishNext(r)
  <2>1. \A t \in Tokens, u \in Users :
          ~AcceptOldUser(r, t) /\ ~AcceptNewUser(r, u, t)
    BY <1>1, Zenon DEF AcceptOldUser, AcceptNewUser, Accepts
  <2>2. \A t \in Tokens : ~AcceptOldUser(r, t)
    BY <1>1, Zenon DEF AcceptOldUser, Accepts
  <2>3. \A out \in BaseErrors : ~Refused(r, out)
    BY <1>1, Zenon DEF Refused, Answer
  <2>4. ~LoadUser(r) /\ ~AcceptUpdate(r) /\ ~AcceptLogin(r) /\ ~InsertToken(r)
        /\ ~UpdateToken(r) /\ ~UpdateTokenConflict(r) /\ ~Published(r)
        /\ ~Respond(r) /\ ~ResponseLost(r)
    BY <1>1 DEF LoadUser, AcceptUpdate, AcceptLogin, Accepts, InsertToken,
                UpdateToken, UpdateTokenConflict, Published, Respond,
                ResponseLost, Answer
  <2>5. QED
    BY <1>5, <2>1, <2>2, <2>3, <2>4, Zenon DEF Proceeds
<1>6. QED
  BY <1>2, <1>3, <1>4, <1>5
  DEF Step, CommitAndPublish, PublishNext, RemembersRow, localVars

(* How a request comes to its answer.                                      *)
LEMMA RespondStep ==
  ASSUME IInv, NEW r \in Requests, Step(r), pc'[r] = "respond"
  PROVE  \/ outcome'[r] \in {"UserNotFound", "AccessTokenExpired",
                             "OneTimeTokenNotFound", "ServerError"}
         \/ outcome'[r] \in BaseErrors /\ Refused(r, outcome'[r])
         \/ outcome'[r] = "IntegrityError" /\ InsertUserFails(r)
         \/ /\ outcome'[r] = "ConcurrencyError"
            /\ UpdateUserConflict(r) \/ UpdateTokenConflict(r)
         \/ outcome'[r] = "ok" /\ Published(r)
<1> USE DEF IInv
<1>1. ~Goto(r, "decide") /\ ~Goto(r, "load_user") /\ ~Goto(r, "publish")
      /\ ~Goto(r, "save_user") /\ ~Goto(r, "commit") /\ ~Goto(r, "save_token")
      /\ ~Forget({r})
  BY DEF Goto, TypeOK, Forget
<1>2. \A out : Answer(r, out) => outcome'[r] = out
  BY DEF Answer, TypeOK
<1>3. ASSUME Arrives(r)
      PROVE  \E out \in {"UserNotFound", "AccessTokenExpired",
                         "OneTimeTokenNotFound"} : Answer(r, out)
  BY <1>1, <1>3, Zenon
  DEF Arrives, SelectByEmail, SelectByAccessToken, EmailNotFound,
      AccessExpired, TokenNotFound, SelectToken
<1>4. ASSUME Saves(r)
      PROVE  \/ InsertUserFails(r) /\ Answer(r, "IntegrityError")
             \/ UpdateUserConflict(r) /\ Answer(r, "ConcurrencyError")
  BY <1>1, <1>4 DEF Saves, InsertUser, InsertUserFails, UpdateUser,
                    AfterSaveUser, UpdateUserConflict
<1>5. ASSUME Fails(r) PROVE Answer(r, "ServerError")
  BY <1>5 DEF Fails, CommitUnacknowledged, DbFailure, PushFails
<1>6. ASSUME Proceeds(r)
      PROVE  \/ \E out \in BaseErrors : Refused(r, out) /\ Answer(r, out)
             \/ UpdateTokenConflict(r) /\ Answer(r, "ConcurrencyError")
             \/ Published(r) /\ Answer(r, "ok")
  <2>1. \A t \in Tokens, u \in Users :
          ~AcceptOldUser(r, t) /\ ~AcceptNewUser(r, u, t)
    BY <1>1, Zenon DEF AcceptOldUser, AcceptNewUser, Accepts
  <2>2. \A t \in Tokens : ~AcceptOldUser(r, t)
    BY <1>1, Zenon DEF AcceptOldUser, Accepts
  <2>3. \A out \in BaseErrors : Refused(r, out) => Answer(r, out)
    BY Zenon DEF Refused
  <2>4. ~LoadUser(r) /\ ~AcceptUpdate(r) /\ ~AcceptLogin(r) /\ ~InsertToken(r)
        /\ ~UpdateToken(r) /\ ~CommitAndPublish(r)
        /\ ~Respond(r) /\ ~ResponseLost(r)
    BY <1>1 DEF LoadUser, AcceptUpdate, AcceptLogin, Accepts, InsertToken,
                UpdateToken, CommitAndPublish, Respond, ResponseLost
  <2>5. ~PublishNext(r)
    BY DEF PublishNext, At
  <2>6. QED
    BY <1>6, <2>1, <2>2, <2>3, <2>4, <2>5, Zenon
    DEF Proceeds, UpdateTokenConflict, Published
<1>7. QED
  BY <1>2, <1>3, <1>4, <1>5, <1>6 DEF Step

(* Only the events and the response of a request reach outside of it.      *)
LEMMA OutsideStep ==
  ASSUME NEW r \in Requests, Step(r)
  PROVE  \/ UNCHANGED <<now, notifications, mailbox, access, audit>>
         \/ PublishNext(r) \/ PushFails(r) \/ Respond(r)
<1> DEFINE Silent == UNCHANGED <<now, notifications, mailbox, access, audit>>
<1>1. ASSUME Arrives(r) PROVE Silent
  BY <1>1, Zenon DEF Arrives, SelectByEmail, SelectByAccessToken,
        EmailNotFound, AccessExpired, TokenNotFound, SelectToken
<1>2. ASSUME Saves(r) PROVE Silent
  BY <1>2 DEF Saves, InsertUser, InsertUserFails, UpdateUser,
              UpdateUserConflict, clientVars
<1>3. ASSUME Fails(r) PROVE Silent \/ PushFails(r)
  BY <1>3 DEF Fails, CommitUnacknowledged, DbFailure, clientVars
<1>4. ASSUME NEW out \in BaseErrors, Refused(r, out) PROVE Silent
  BY <1>4 DEF Refused, clientVars
<1>5. ASSUME NEW t \in Tokens,
             \/ AcceptOldUser(r, t) \/ \E u \in Users : AcceptNewUser(r, u, t)
      PROVE  Silent
  <2>1. UNCHANGED <<now, notifications, clientVars, audit>>
    BY <1>5, Zenon DEF AcceptOldUser, AcceptNewUser
  <2>2. QED
    BY <2>1 DEF clientVars
<1>6. ASSUME \/ LoadUser(r) \/ AcceptUpdate(r) \/ AcceptLogin(r)
             \/ InsertToken(r) \/ UpdateToken(r) \/ UpdateTokenConflict(r)
             \/ CommitAndPublish(r) \/ Published(r) \/ ResponseLost(r)
      PROVE  Silent
  BY <1>6 DEF LoadUser, AcceptUpdate, AcceptLogin, InsertToken, UpdateToken,
              UpdateTokenConflict, CommitAndPublish, Published, ResponseLost,
              clientVars
<1> HIDE DEF Silent
<1>7. Silent \/ PublishNext(r) \/ PushFails(r) \/ Respond(r)
  BY <1>1, <1>2, <1>3, <1>4, <1>5, <1>6, Zenon DEF Step, Proceeds
<1>8. QED
  BY <1>7 DEF Silent

LEMMA PublishesCommittedStep ==
  IInv /\ [Next]_vars /\ TypeOK' /\ RequestShapes' => PublishesCommitted'
<1> SUFFICES ASSUME IInv, [Next]_vars, TypeOK', RequestShapes',
                    NEW q \in Requests, pc'[q] = "publish"
             PROVE  /\ input'[q].op = "login" =>
                         /\ user'[q] \in Users /\ userTable'[user'[q]] # NoRow
                         /\ userTable'[user'[q]].data.verified
                    /\ input'[q].op \in {"register", "recover_request"} =>
                         /\ token'[q] \in Tokens
                         /\ ottTable'[token'[q]] # NoRow
  BY DEF PublishesCommitted, At, Op, Issues, Row, Ott
<1> USE DEF IInv
<1>1. CASE At(q, "publish") /\ RemembersRow(q)
  <2>1. /\ Op(q) = "login" => user[q] \in Users /\ Row(user[q]) # NoRow
                              /\ Row(user[q]).data.verified
        /\ Issues(q) => token[q] \in Tokens /\ Ott(token[q]) # NoRow
    BY <1>1 DEF PublishesCommitted
  <2>2. /\ Op(q) = "login" => userTable'[user[q]] # NoRow
                              /\ userTable'[user[q]].data.verified
        /\ Issues(q) => ottTable'[token[q]] # NoRow
    BY <2>1, StepsGrow DEF TablesGrow, UserGrown, OttGrown, Row, Ott
  <2>3. QED
    BY <1>1, <2>1, <2>2 DEF RemembersRow, Op, Issues
<1>2. CASE CommitAndPublish(q)
  <2>1. At(q, "commit") /\ Commit(q) /\ RemembersRow(q) /\ Decided(q)
    BY <1>2, CommitStep DEF Decided, At
  <2>2. /\ user[q] \in Users /\ userTable'[user[q]] = NewUserRow(q)
        /\ Issues(q) => /\ token[q] \in Tokens
                        /\ ottTable'[token[q]] = NewOttRow(q)
    BY <2>1, CommitEffects
  <2>3. /\ NewUserRow(q) # NoRow
        /\ Issues(q) => NewOttRow(q) # NoRow
    BY <2>1, NewRowsGrown, RowFields
  <2>4. Op(q) = "login" => NewUserRow(q).data.verified
    <3>1. Op(q) = "login" => seenUser[q] # NoRow /\ Stored(q).verified
      BY <2>1 DEF RequestShapes, Shape, ReadShape, DecisionShape
    <3>2. QED
      BY <3>1 DEF NewUserRow, UserEntity
  <2>5. QED
    BY <2>1, <2>2, <2>3, <2>4 DEF RemembersRow, Op, Issues
<1>3. ASSUME NEW r \in Requests, Step(r)
      PROVE  (At(q, "publish") /\ RemembersRow(q)) \/ CommitAndPublish(q)
  BY <1>3, StepsAlone, PublishStep DEF OthersAlone, Alone, At
<1>4. ~Crash
  BY DEF Crash, Forget
<1>5. CASE Deliver \/ Tick \/ UNCHANGED vars
  BY <1>1, <1>5 DEF Deliver, Tick, vars, requestVars, localVars, RemembersRow,
                    At
<1>6. QED
  BY <1>1, <1>2, <1>3, <1>4, <1>5 DEF Next, Step

LEMMA AccessVerifiedStep ==
  IInv /\ [Next]_vars /\ TypeOK' /\ RequestShapes' => AccessVerified'
<1> SUFFICES ASSUME IInv, [Next]_vars, TypeOK', RequestShapes'
             PROVE  AccessVerified'
  OBVIOUS
<1> USE DEF IInv
<1>1. \A u \in Users :
        Row(u) # NoRow /\ Row(u).data.verified =>
          userTable'[u] # NoRow /\ userTable'[u].data.verified
  BY StepsGrow DEF TablesGrow, UserGrown, Row
<1>2. ASSUME NEW u \in Users, access'[u] > 0
      PROVE  userTable'[u] # NoRow /\ userTable'[u].data.verified
  <2>1. CASE access[u] > 0
    BY <1>1, <2>1 DEF AccessVerified
  <2>2. CASE ~(access[u] > 0)
    <3>1. access' # access
      BY <1>2, <2>2
    <3>2. PICK r \in Requests : Respond(r)
      <4>1. ASSUME NEW r \in Requests, Step(r), ~Respond(r)
            PROVE  access' = access
        BY <4>1, OutsideStep DEF PublishNext, PushFails, clientVars
      <4>2. Crash \/ Deliver \/ Tick \/ UNCHANGED vars => access' = access
        BY DEF Crash, Deliver, Tick, vars, clientVars
      <4>3. QED
        BY <3>1, <4>1, <4>2 DEF Next, Step
    <3>3. Op(r) = "login" /\ outcome[r] = "ok" /\ u = user[r]
      BY <1>2, <2>2, <3>1, <3>2 DEF Respond, TypeOK
    <3>4. QED
      BY <1>1, <3>3 DEF AccessVerified
  <2>3. QED
    BY <2>1, <2>2
<1>3. ASSUME NEW q \in Requests, outcome'[q] = "ok", input'[q].op = "login"
      PROVE  /\ user'[q] \in Users
             /\ userTable'[user'[q]] # NoRow
             /\ userTable'[user'[q]].data.verified
  <2>1. pc'[q] = "respond"
    BY <1>3 DEF RequestShapes, Shape, AnswerShape, At
  <2>2. /\ RemembersRow(q)
        /\ outcome[q] = "ok" \/ At(q, "publish")
    <3>1. ASSUME NEW r \in Requests, Step(r), r # q
          PROVE  RemembersRow(q) /\ outcome[q] = "ok"
      BY <1>3, <3>1, StepsAlone DEF OthersAlone, Alone
    <3>2. CASE Step(q)
      <4>1. Published(q)
        BY <1>3, <2>1, <3>2, RespondStep DEF BaseErrors
      <4>2. QED
        BY <4>1 DEF Published, RemembersRow, localVars
    <3>3. ~Crash
      BY <2>1 DEF Crash, Forget
    <3>4. Deliver \/ Tick \/ UNCHANGED vars =>
            RemembersRow(q) /\ outcome[q] = "ok"
      BY <1>3 DEF Deliver, Tick, vars, requestVars, localVars, RemembersRow
    <3>5. QED
      BY <3>1, <3>2, <3>3, <3>4 DEF Next, Step
  <2>3. Op(q) = "login"
    BY <1>3, <2>2 DEF RemembersRow, Op
  <2>4. /\ user[q] \in Users /\ Row(user[q]) # NoRow
        /\ Row(user[q]).data.verified
    BY <2>2, <2>3 DEF AccessVerified, PublishesCommitted
  <2>5. QED
    BY <1>1, <2>2, <2>4 DEF RemembersRow
<1>4. QED
  BY <1>2, <1>3 DEF AccessVerified, Row, Op

LEMMA NotifiedPersistedStep ==
  IInv /\ [Next]_vars => NotifiedPersisted'
<1> SUFFICES ASSUME IInv, [Next]_vars,
                    NEW t \in notifications' \union mailbox'
             PROVE  /\ ottTable'[t] # NoRow
                    /\ userTable'[ottTable'[t].data.user] # NoRow
  BY DEF NotifiedPersisted, Ott, Row
<1> USE DEF IInv
<1>1. t \in Tokens /\ Ott(t) # NoRow
  <2>1. CASE t \in notifications \union mailbox
    BY <2>1 DEF NotifiedPersisted, TypeOK
  <2>2. CASE t \notin notifications \union mailbox
    <3>1. PICK r \in Requests :
            /\ PublishNext(r) /\ IsNotification(Head(todo[r]))
            /\ t = Head(todo[r]).token
      <4>1. ASSUME NEW r \in Requests, Step(r), ~PublishNext(r)
            PROVE  UNCHANGED <<notifications, mailbox>>
        BY <4>1, OutsideStep DEF Respond, PushFails, clientVars
      <4>2. ASSUME NEW r \in Requests, PublishNext(r)
            PROVE  /\ IsNotification(Head(todo[r]))
                   /\ t = Head(todo[r]).token
        BY <2>2, <4>2 DEF PublishNext, clientVars
      <4>3. Crash \/ Deliver \/ Tick \/ UNCHANGED vars =>
              notifications' \union mailbox'
                \subseteq notifications \union mailbox
        BY DEF Crash, Deliver, Tick, vars, clientVars
      <4>4. QED
        BY <2>2, <4>1, <4>2, <4>3 DEF Next, Step
    <3>2. At(r, "publish") /\ Head(todo[r]) = todo[r][1] /\ 1 \in DOMAIN todo[r]
      BY <3>1 DEF PublishNext, TypeOK
    <3>3. Issues(r) /\ token[r] \in Tokens /\ t = token[r]
      BY <3>1, <3>2 DEF RequestShapes, Shape, TodoShape
    <3>4. QED
      BY <3>2, <3>3 DEF PublishesCommitted
  <2>3. QED
    BY <2>1, <2>2
<1>2. OttGrown(Ott(t), ottTable'[t])
  BY <1>1, StepsGrow DEF TablesGrow, Ott
<1>3. Ott(t).data.user \in Users /\ Row(Ott(t).data.user) # NoRow
  BY <1>1, RowFields DEF TypeOK, TokensStored, Ott
<1>4. userTable'[Ott(t).data.user] # NoRow
  BY <1>3, StepsGrow DEF TablesGrow, UserGrown, Row
<1>5. QED
  BY <1>2, <1>4 DEF OttGrown

LEMMA ClockStep == TypeOK /\ [Next]_vars => now' >= now
<1> SUFFICES ASSUME TypeOK, [Next]_vars PROVE now' >= now
  OBVIOUS
<1>1. now' = now \/ now' = now + 1
  <2>1. ASSUME NEW r \in Requests, Step(r) PROVE now' = now
    BY <2>1, OutsideStep DEF PublishNext, PushFails, Respond
  <2>2. QED
    BY <2>1 DEF Next, Step, Crash, Deliver, Tick, vars
<1>2. QED
  BY <1>1 DEF TypeOK

(* The answers of one request, in the terms of its own variables.          *)
Justified(out, op, e, row, u, seenOtt, t) ==
  /\ out = "UserAlreadyExists" => Row(u).data.verified
  /\ out = "IntegrityError" => EmailTaken(e)
  /\ out = "UserError" /\ op = "verify_email" => Row(u).data.verified
  /\ out = "TokenError" =>
       \/ Ott(t).data.used
       \/ now > Ott(t).data.expires
       \/ Ott(t).data.purpose # (IF op = "recover" THEN RECOVER_PASSWORD
                                                   ELSE VERIFY_EMAIL)
  /\ out = "ConcurrencyError" =>
       \/ Row(u).version > row.version
       \/ t # NoToken /\ seenOtt # NoRow /\ Ott(t).data.used
JustifiedAnswer(r) ==
  At(r, "respond") =>
    Justified(outcome[r], Op(r), input[r].email.address, seenUser[r], user[r],
              seenToken[r], token[r])

LEMMA RefusalsPerRequest ==
  RefusalsJustified <=> \A r \in Requests : JustifiedAnswer(r)
BY DEF RefusalsJustified, JustifiedAnswer, Justified, Ended, At

(* A true answer stays true.                                               *)
LEMMA JustifiedStays ==
  ASSUME IInv, [Next]_vars, TypeOK', NEW r \in Requests, At(r, "respond")
  PROVE  Justified(outcome[r], Op(r), input[r].email.address, seenUser[r],
                   user[r], seenToken[r], token[r])
         => /\ outcome[r] = "UserAlreadyExists" =>
                 userTable'[user[r]].data.verified
            /\ outcome[r] = "IntegrityError" =>
                 \E u \in Users :
                   /\ userTable'[u] # NoRow
                   /\ userTable'[u].data.email = input[r].email.address
            /\ outcome[r] = "UserError" /\ Op(r) = "verify_email" =>
                 userTable'[user[r]].data.verified
            /\ outcome[r] = "TokenError" =>
                 \/ ottTable'[token[r]].data.used
                 \/ now' > ottTable'[token[r]].data.expires
                 \/ ottTable'[token[r]].data.purpose
                      # (IF Op(r) = "recover" THEN RECOVER_PASSWORD
                                              ELSE VERIFY_EMAIL)
            /\ outcome[r] = "ConcurrencyError" =>
                 \/ userTable'[user[r]].version > seenUser[r].version
                 \/ /\ token[r] # NoToken /\ seenToken[r] # NoRow
                    /\ ottTable'[token[r]].data.used
<1> USE DEF IInv
<1> SUFFICES ASSUME Justified(outcome[r], Op(r), input[r].email.address,
                              seenUser[r], user[r], seenToken[r], token[r])
             PROVE  (/\ outcome[r] = "UserAlreadyExists" =>
                          userTable'[user[r]].data.verified
                     /\ outcome[r] = "IntegrityError" =>
                          \E u \in Users :
                            /\ userTable'[u] # NoRow
                            /\ userTable'[u].data.email = input[r].email.address
                     /\ outcome[r] = "UserError" /\ Op(r) = "verify_email" =>
                          userTable'[user[r]].data.verified
                     /\ outcome[r] = "TokenError" =>
                          \/ ottTable'[token[r]].data.used
                          \/ now' > ottTable'[token[r]].data.expires
                          \/ ottTable'[token[r]].data.purpose
                               # (IF Op(r) = "recover" THEN RECOVER_PASSWORD
                                                       ELSE VERIFY_EMAIL)
                     /\ outcome[r] = "ConcurrencyError" =>
                          \/ userTable'[user[r]].version > seenUser[r].version
                          \/ /\ token[r] # NoToken /\ seenToken[r] # NoRow
                             /\ ottTable'[token[r]].data.used)
  OBVIOUS
<1>1. Shape(r)
  BY DEF RequestShapes
<1>2. ASSUME seenUser[r] # NoRow
      PROVE  /\ user[r] \in Users /\ Row(user[r]) \in UserRows
             /\ userTable'[user[r]] \in UserRows
             /\ UserGrown(Row(user[r]), userTable'[user[r]])
             /\ seenUser[r] \in UserRows
  <2>1. user[r] \in Users /\ UserGrown(seenUser[r], Row(user[r]))
    BY <1>1, <1>2 DEF Shape, ReadShape, ReadsNotNewer
  <2>2. Row(user[r]) # NoRow /\ UserGrown(Row(user[r]), userTable'[user[r]])
    BY <2>1, StepsGrow DEF UserGrown, TablesGrow, Row
  <2>3. userTable'[user[r]] # NoRow
    BY <2>2 DEF UserGrown
  <2>4. QED
    BY <1>2, <2>1, <2>2, <2>3 DEF TypeOK, Row
<1>3. ASSUME seenToken[r] # NoRow
      PROVE  /\ Ott(token[r]) \in OttRows
             /\ OttGrown(Ott(token[r]), ottTable'[token[r]])
  <2>1. token[r] \in Tokens /\ OttGrown(seenToken[r], Ott(token[r]))
    BY <1>1, <1>3 DEF Shape, ReadShape, ReadsNotNewer
  <2>2. Ott(token[r]) # NoRow /\ OttGrown(Ott(token[r]), ottTable'[token[r]])
    BY <2>1, StepsGrow DEF OttGrown, TablesGrow, Ott
  <2>3. QED
    BY <2>1, <2>2 DEF TypeOK, Ott
<1>4. /\ \/ outcome[r] \in {"UserAlreadyExists", "ConcurrencyError"}
         \/ outcome[r] = "UserError" /\ Op(r) = "verify_email"
         => seenUser[r] # NoRow
      /\ outcome[r] = "TokenError" => seenToken[r] # NoRow
  BY <1>1 DEF Shape, AnswerShape
<1>5. \/ outcome[r] = "UserAlreadyExists"
      \/ outcome[r] = "UserError" /\ Op(r) = "verify_email"
      => userTable'[user[r]].data.verified
  BY <1>2, <1>4 DEF Justified, UserGrown
<1>6. ASSUME outcome[r] = "IntegrityError"
      PROVE  \E u \in Users :
               /\ userTable'[u] # NoRow
               /\ userTable'[u].data.email = input[r].email.address
  <2>1. PICK u \in Users : /\ userTable[u] # NoRow
                           /\ userTable[u].data.email = input[r].email.address
    BY <1>6 DEF Justified, EmailTaken
  <2>2. UserGrown(userTable[u], userTable'[u])
    BY <2>1, StepsGrow DEF TablesGrow, Row
  <2>3. QED
    BY <2>1, <2>2 DEF UserGrown
<1>7. ASSUME outcome[r] = "TokenError"
      PROVE  \/ ottTable'[token[r]].data.used
             \/ now' > ottTable'[token[r]].data.expires
             \/ ottTable'[token[r]].data.purpose
                  # (IF Op(r) = "recover" THEN RECOVER_PASSWORD
                                          ELSE VERIFY_EMAIL)
  <2>1. now' >= now /\ now \in Nat /\ now' \in Nat
    BY ClockStep DEF TypeOK
  <2>2. /\ Ott(token[r]).data.expires \in Nat
        /\ OttGrown(Ott(token[r]), ottTable'[token[r]])
    BY <1>3, <1>4, <1>7, RowFields
  <2>3. \/ Ott(token[r]).data.used
        \/ now > Ott(token[r]).data.expires
        \/ Ott(token[r]).data.purpose
             # (IF Op(r) = "recover" THEN RECOVER_PASSWORD ELSE VERIFY_EMAIL)
    BY <1>7 DEF Justified
  <2>4. QED
    BY <2>1, <2>2, <2>3 DEF OttGrown
<1>8. ASSUME outcome[r] = "ConcurrencyError"
      PROVE  \/ userTable'[user[r]].version > seenUser[r].version
             \/ /\ token[r] # NoToken /\ seenToken[r] # NoRow
                /\ ottTable'[token[r]].data.used
  <2>1. CASE Row(user[r]).version > seenUser[r].version
    BY <1>2, <1>4, <1>8, <2>1, RowFields DEF UserGrown
  <2>2. CASE /\ token[r] # NoToken /\ seenToken[r] # NoRow
             /\ Ott(token[r]).data.used
    BY <1>3, <2>2 DEF OttGrown
  <2>3. QED
    BY <1>8, <2>1, <2>2 DEF Justified
<1>9. QED
  BY <1>5, <1>6, <1>7, <1>8

(* A refusal is true of the rows at the moment it is decided.              *)
LEMMA RefusedJustified ==
  ASSUME IInv, NEW r \in Requests, NEW out \in BaseErrors, Refused(r, out)
  PROVE  /\ UNCHANGED <<userTable, ottTable, now>> /\ RemembersRow(r)
         /\ Justified(out, Op(r), input[r].email.address, seenUser[r], user[r],
                      seenToken[r], token[r])
<1> USE DEF IInv
<1>1. /\ At(r, "decide") /\ Refuses(r, out) /\ Rollback(r) /\ RemembersRow(r)
  BY DEF Refused, RemembersRow, localVars
<1>2. UNCHANGED <<userTable, ottTable, now>>
  BY <1>1 DEF Refused, Rollback, U!Rollback, O!Rollback
<1>3. /\ seenUser[r] = NoRow => Op(r) = "register"
      /\ UsesToken(r) <=> seenToken[r] # NoRow
  BY <1>1 DEF RequestShapes, Shape, ReadShape
<1>4. /\ seenUser[r] # NoRow => UserGrown(seenUser[r], Row(user[r]))
      /\ seenToken[r] # NoRow => OttGrown(seenToken[r], Ott(token[r]))
  BY DEF ReadsNotNewer
<1>5. out = "UserAlreadyExists" => Row(user[r]).data.verified
  BY <1>1, <1>4 DEF Refuses, RefusesRegister, RefusesVerify, RefusesLogin,
                    RefusesChange, RefusesRequest, RefusesRecover, Stored,
                    UserGrown
<1>6. out = "UserError" /\ Op(r) = "verify_email" => Row(user[r]).data.verified
  BY <1>1, <1>3, <1>4
  DEF Refuses, RefusesRegister, RefusesVerify, RefusesLogin, RefusesChange,
      RefusesRequest, RefusesRecover, Stored, UserGrown
<1>7. out = "TokenError" =>
        \/ Ott(token[r]).data.used
        \/ now > Ott(token[r]).data.expires
        \/ Ott(token[r]).data.purpose
             # (IF Op(r) = "recover" THEN RECOVER_PASSWORD ELSE VERIFY_EMAIL)
  <2>1. ASSUME out = "TokenError"
        PROVE  Unfit(r, IF Op(r) = "recover" THEN RECOVER_PASSWORD
                                             ELSE VERIFY_EMAIL)
               /\ UsesToken(r)
    BY <1>1, <2>1 DEF Refuses, RefusesRegister, RefusesVerify, RefusesLogin,
                      RefusesChange, RefusesRequest, RefusesRecover,
                      UsesToken, TokenOps
  <2>2. seenToken[r] # NoRow => seenToken[r].data.expires \in Nat
    BY RowFields DEF TypeOK
  <2>3. QED
    BY <1>3, <1>4, <2>1, <2>2 DEF Unfit, IsUsable, OttGrown, TypeOK
<1>8. out # "IntegrityError" /\ out # "ConcurrencyError"
  BY <1>1 DEF Refuses, RefusesRegister, RefusesVerify, RefusesLogin,
              RefusesChange, RefusesRequest, RefusesRecover
<1>9. QED
  BY <1>1, <1>2, <1>5, <1>6, <1>7, <1>8 DEF Justified

LEMMA ConflictJustified ==
  ASSUME IInv, NEW r \in Requests,
         UpdateUserConflict(r) \/ UpdateTokenConflict(r)
  PROVE  /\ UNCHANGED <<userTable, ottTable, now>> /\ RemembersRow(r)
         /\ \/ Row(user[r]).version > seenUser[r].version
            \/ /\ token[r] # NoToken /\ seenToken[r] # NoRow
               /\ Ott(token[r]).data.used
<1> USE DEF IInv
<1>1. UNCHANGED <<userTable, ottTable, now>> /\ RemembersRow(r)
  BY DEF UpdateUserConflict, UpdateTokenConflict, U!Conflict, U!tableVars,
         ottVars, Rollback, U!Rollback, O!Rollback, localVars, RemembersRow
<1>2. CASE UpdateUserConflict(r)
  <2>1. /\ At(r, "save_user") /\ seenUser[r] # NoRow
        /\ ~U!Matches(r, user[r], seenUser[r].version)
    BY <1>2 DEF UpdateUserConflict, U!Conflict
  <2>2. user[r] \in Users /\ UserGrown(seenUser[r], Row(user[r]))
    BY <2>1 DEF RequestShapes, Shape, ReadShape, ReadsNotNewer
  <2>3. U!Visible(r, user[r]) = Row(user[r])
    BY <2>1, <2>2, SeesCommitted DEF At
  <2>4. Row(user[r]).version # seenUser[r].version
    BY <2>1, <2>2, <2>3 DEF U!Matches, UserGrown
  <2>5. Row(user[r]) \in UserRows /\ seenUser[r] \in UserRows
    BY <2>1, <2>2 DEF UserGrown, TypeOK, Row
  <2>6. QED
    BY <1>1, <2>2, <2>4, <2>5, RowFields DEF UserGrown
<1>3. CASE UpdateTokenConflict(r)
  <2>1. /\ At(r, "save_token") /\ seenToken[r] # NoRow
        /\ ~O!Matches(r, token[r], seenToken[r].version)
    BY <1>3 DEF UpdateTokenConflict, O!Conflict
  <2>2. token[r] \in Tokens /\ OttGrown(seenToken[r], Ott(token[r]))
    BY <2>1 DEF RequestShapes, Shape, ReadShape, ReadsNotNewer
  <2>3. O!Visible(r, token[r]) = Ott(token[r])
    BY <2>1, <2>2, SeesCommitted DEF At
  <2>4. Ott(token[r]).version # seenToken[r].version
    BY <2>1, <2>2, <2>3 DEF O!Matches, OttGrown
  <2>5. Ott(token[r]) \in OttRows /\ seenToken[r] \in OttRows
    BY <2>1, <2>2 DEF OttGrown, TypeOK, Ott
  <2>6. Ott(token[r]).version > 1
    BY <2>2, <2>4, <2>5, RowFields DEF OttGrown
  <2>7. Ott(token[r]).data.used
    BY <2>2, <2>6 DEF TokensStored, OttGrown
  <2>8. QED
    BY <1>1, <2>1, <2>2, <2>7, LifecycleAssumption
<1>4. QED
  BY <1>2, <1>3

LEMMA RefusalsJustifiedStep ==
  IInv /\ [Next]_vars /\ TypeOK' => RefusalsJustified'
<1> SUFFICES ASSUME IInv, [Next]_vars, TypeOK', NEW q \in Requests,
                    pc'[q] = "respond"
             PROVE  JustifiedAnswer(q)'
  BY DEF RefusalsJustified, JustifiedAnswer, Justified, Ended, At
<1> USE DEF IInv
<1>1. CASE At(q, "respond") /\ outcome'[q] = outcome[q] /\ RemembersRow(q)
  <2>1. Justified(outcome[q], Op(q), input[q].email.address, seenUser[q],
                  user[q], seenToken[q], token[q])
    BY <1>1, RefusalsPerRequest DEF JustifiedAnswer
  <2>2. QED
    BY <1>1, <2>1, JustifiedStays
    DEF JustifiedAnswer, Justified, RemembersRow, Op, Row, Ott, EmailTaken
<1>2. ASSUME UNCHANGED <<userTable, ottTable, now>>, RemembersRow(q),
             Justified(outcome'[q], Op(q), input[q].email.address,
                       seenUser[q], user[q], seenToken[q], token[q])
      PROVE  JustifiedAnswer(q)'
  BY <1>2 DEF JustifiedAnswer, Justified, RemembersRow, Op, Row, Ott,
              EmailTaken
<1>3. CASE Step(q)
  <2>1. CASE outcome'[q] \in {"UserNotFound", "AccessTokenExpired",
                              "OneTimeTokenNotFound", "ServerError", "ok"}
    BY <2>1 DEF JustifiedAnswer, Justified
  <2>2. CASE outcome'[q] \in BaseErrors /\ Refused(q, outcome'[q])
    BY <1>2, <2>2, RefusedJustified
  <2>3. CASE outcome'[q] = "IntegrityError" /\ InsertUserFails(q)
    <3>1. /\ EmailTaken(input[q].email.address) /\ RemembersRow(q)
          /\ UNCHANGED <<userTable, ottTable, now>>
      BY <2>3 DEF InsertUserFails, Rollback, U!Rollback, O!Rollback,
                  localVars, RemembersRow
    <3>2. QED
      BY <1>2, <2>3, <3>1 DEF Justified
  <2>4. CASE /\ outcome'[q] = "ConcurrencyError"
             /\ UpdateUserConflict(q) \/ UpdateTokenConflict(q)
    <3>1. QED
      BY <1>2, <2>4, ConflictJustified DEF Justified
  <2>5. QED
    BY <1>3, <2>1, <2>2, <2>3, <2>4, RespondStep
<1>4. ASSUME NEW r \in Requests, Step(r), r # q
      PROVE  At(q, "respond") /\ outcome'[q] = outcome[q] /\ RemembersRow(q)
  BY <1>4, StepsAlone DEF OthersAlone, Alone, At
<1>5. ~Crash
  BY DEF Crash, Forget
<1>6. ASSUME Deliver \/ Tick \/ UNCHANGED vars
      PROVE  At(q, "respond") /\ outcome'[q] = outcome[q] /\ RemembersRow(q)
  BY <1>6 DEF Deliver, Tick, vars, requestVars, localVars, RemembersRow, At
<1>7. QED
  BY <1>1, <1>3, <1>4, <1>5, <1>6 DEF Next, Step

-----------------------------------------------------------------------------
(* The invariant and what it gives                                         *)

LEMMA PastFirst ==
  \A p \in Past : /\ p.user \in Users /\ p.token \in Tokens
                 /\ p.email \in Addresses /\ p.password \in Words
                 /\ PastUser(p.user) = p /\ PastToken(p.token) = p
<1>1. \A p \in Past : /\ p.user \in Users /\ p.token \in Tokens
                     /\ p.email \in Addresses /\ p.password \in Words
  BY LifecycleAssumption
<1>2. ASSUME NEW p \in Past
      PROVE  PastUser(p.user) = p /\ PastToken(p.token) = p
  BY LifecycleAssumption DEF PastUser, PastToken
<1>3. QED
  BY <1>1, <1>2

LEMMA InitTypes ==
  ASSUME Init
  PROVE  /\ TypeOK
         /\ \A u \in Users :
              Row(u) # NoRow => \E p \in Past :
                /\ p.user = u /\ Row(u).data.email = p.email
                /\ Row(u).data.password = p.password
                /\ Row(u).data.verified
         /\ \A p \in Past : Row(p.user) # NoRow
         /\ \A t \in Tokens :
              Ott(t) # NoRow => \E p \in Past :
                /\ p.token = t /\ Ott(t).data.user = p.user
                /\ Ott(t).data.purpose = VERIFY_EMAIL
                /\ Ott(t).version = 2 /\ Ott(t).data.used = TRUE
         /\ \A p \in Past : Ott(p.token) # NoRow
<1> DEFINE userRow(p) == [version |-> 2,
                          data |-> [email |-> p.email, password |-> p.password,
                                    verified |-> TRUE]]
           ottRow(p) == [version |-> 2,
                         data |-> [user |-> p.user, purpose |-> VERIFY_EMAIL,
                                   expires |-> 0, used |-> TRUE]]
<1>1. \A p \in Past : userRow(p) \in UserRows /\ ottRow(p) \in OttRows
  BY PastFirst DEF UserRows, UserData, OttRows, OttData, Purposes
<1>2. \A p \in Past : userRow(p) # NoRow /\ ottRow(p) # NoRow
  BY <1>1, RowFields
<1>3. \A u \in Users :
        \/ \E p \in Past : p.user = u /\ Row(u) = userRow(p)
        \/ Row(u) = NoRow /\ \A p \in Past : p.user # u
  BY PastFirst DEF Init, U!TableInit, Row
<1>4. \A t \in Tokens :
        \/ \E p \in Past : p.token = t /\ Ott(t) = ottRow(p)
        \/ Ott(t) = NoRow /\ \A p \in Past : p.token # t
  BY PastFirst DEF Init, O!TableInit, Ott
<1>5. TypeOK
  <2> HIDE DEF userRow, ottRow
  <2>1. userTable \in [Users -> UserRows \union {NoRow}]
    <3>1. \A u \in Users : userTable[u] \in UserRows \union {NoRow}
      BY <1>1, <1>3 DEF Row
    <3>2. QED
      BY <3>1 DEF Init, U!TableInit
  <2>2. ottTable \in [Tokens -> OttRows \union {NoRow}]
    <3>1. \A t \in Tokens : ottTable[t] \in OttRows \union {NoRow}
      BY <1>1, <1>4 DEF Ott
    <3>2. QED
      BY <3>1 DEF Init, O!TableInit
  <2>3. mailbox \subseteq Tokens
    BY PastFirst DEF Init
  <2>4. QED
    BY <2>1, <2>2, <2>3 DEF Init, TypeOK, U!TableInit, O!TableInit, Steps,
                            Outcomes
<1>6. \A p \in Past : Row(p.user) # NoRow /\ Ott(p.token) # NoRow
  BY <1>2, <1>3, <1>4, PastFirst
<1>7. \A u \in Users :
        Row(u) # NoRow => \E p \in Past :
          /\ p.user = u /\ Row(u).data.email = p.email
          /\ Row(u).data.password = p.password /\ Row(u).data.verified
  BY <1>3
<1>8. \A t \in Tokens :
        Ott(t) # NoRow => \E p \in Past :
          /\ p.token = t /\ Ott(t).data.user = p.user
          /\ Ott(t).data.purpose = VERIFY_EMAIL
          /\ Ott(t).version = 2 /\ Ott(t).data.used = TRUE
  BY <1>4
<1>9. QED
  BY <1>5, <1>6, <1>7, <1>8

LEMMA InitInvariant == Init => IInv
<1> SUFFICES ASSUME Init PROVE IInv
  OBVIOUS
<1>1. TypeOK
  BY InitTypes
<1>2. /\ \A r \in Requests :
           /\ pc[r] = "idle" /\ input[r] = NoRow
           /\ user[r] = NoUser /\ seenUser[r] = NoRow
           /\ token[r] = NoToken /\ seenToken[r] = NoRow
           /\ todo[r] = <<>> /\ outcome[r] = "none"
      /\ \A u \in Users : access[u] = 0 /\ userHolder[u] = NoRequest
      /\ \A t \in Tokens : ottHolder[t] = NoRequest
      /\ notifications = {}
  BY DEF Init, U!TableInit, O!TableInit
<1>3. RequestShapes
  BY <1>2 DEF RequestShapes, Shape, IdleShape, ReadShape, DecisionShape,
              TodoShape, AnswerShape, At, Decided
<1>4. /\ ReadsNotNewer /\ KeysPrivate /\ WritesHeld /\ NewEmailsFree
      /\ PublishesCommitted
  BY <1>2 DEF ReadsNotNewer, KeysPrivate, WritesHeld, UserRowHeld, OttRowHeld,
              NewEmailsFree, Inserted, PublishesCommitted, Decided, At
<1>5. HoldersWrite
  BY <1>2, LifecycleAssumption DEF HoldersWrite
<1>6. TokensStored
  BY InitTypes DEF TokensStored
<1>7. AccessVerified
  BY <1>2 DEF AccessVerified
<1>8. NotifiedPersisted
  <2>1. \A t \in notifications \union mailbox : \E p \in Past : t = p.token
    BY <1>2 DEF Init
  <2>2. \A t \in notifications \union mailbox : Ott(t) # NoRow
    BY <2>1, InitTypes
  <2>3. QED
    BY <1>6, <2>1, <2>2, PastFirst DEF NotifiedPersisted, TokensStored
<1>9. RefusalsJustified
  BY <1>2 DEF RefusalsJustified, Ended, At
<1>10. QED
  BY <1>1, <1>3, <1>4, <1>5, <1>6, <1>7, <1>8, <1>9 DEF IInv

(* The inductive invariant of the requests on accounts: what each request  *)
(* has read is not newer than what is committed, a written row stays       *)
(* locked over the row that was read, and new keys and emails are private. *)
(* (repositories/user.py:45-96, register.py:51-77)                         *)
THEOREM Invariant == Spec => []IInv
<1>1. IInv /\ [Next]_vars => IInv'
  <2> SUFFICES ASSUME IInv, [Next]_vars PROVE IInv'
    OBVIOUS
  <2>1. TypeOK' /\ RequestShapes'
    BY TypeStep, ShapesStep
  <2>2. ReadsNotNewer' /\ KeysPrivate' /\ WritesHeld' /\ HoldersWrite'
    BY <2>1, ReadsNotNewerStep, KeysPrivateStep, WritesHeldStep,
       HoldersWriteStep
  <2>3. NewEmailsFree' /\ TokensStored' /\ AccessVerified'
        /\ PublishesCommitted' /\ NotifiedPersisted' /\ RefusalsJustified'
    BY <2>1, NewEmailsFreeStep, TokensStoredStep, AccessVerifiedStep,
       PublishesCommittedStep, NotifiedPersistedStep, RefusalsJustifiedStep
  <2>4. QED
    BY <2>1, <2>2, <2>3 DEF IInv
<1>2. QED
  BY InitInvariant, <1>1, PTL DEF Spec

(* The variables of every request, the rows and the queues keep their      *)
(* types.  (entities/user.py:14-35, entities/one_time_token.py:26-47)      *)
THEOREM TypeCorrect == Spec => []TypeOK
<1>1. IInv => TypeOK
  BY DEF IInv
<1>2. QED
  BY <1>1, Invariant, PTL

(* A token that has left the server is committed, and so is its user.      *)
(* (register.py:67-77, password_recover_request.py:66-76)                  *)
THEOREM TokensThatLeaveWork == Spec => []NotifiedPersisted
<1>1. IInv => NotifiedPersisted
  BY DEF IInv
<1>2. QED
  BY <1>1, Invariant, PTL

(* Each refusal is true when the client reads it, though it was decided on *)
(* rows read earlier.  (register.py:53-55, one_time_token.py:87-113,       *)
(* user.py:117-128)                                                        *)
THEOREM RefusalsAreTrue == Spec => []RefusalsJustified
<1>1. IInv => RefusalsJustified
  BY DEF IInv
<1>2. QED
  BY <1>1, Invariant, PTL

(* What is committed is what was decided on: the rows under the locks of a *)
(* request at its commit are those that it has read.  (user.py:61-84,      *)
(* login.py:58-90, password_recover.py:54-82)                              *)
THEOREM CommitsAreDecided == Spec => []CommitsWhatItDecided
<1>1. IInv => CommitsWhatItDecided
  <2> SUFFICES ASSUME IInv, NEW r \in Requests, At(r, "commit")
               PROVE  /\ Row(user[r]) = seenUser[r]
                      /\ token[r] # NoToken => Ott(token[r]) = seenToken[r]
    BY DEF CommitsWhatItDecided
  <2>1. Shape(r) /\ UserRowHeld(r) /\ OttRowHeld(r)
    BY DEF IInv, RequestShapes, WritesHeld
  <2>2. token[r] # NoToken => Issues(r) \/ UsesToken(r)
    <3>1. Op(r) \in Ops
      BY <2>1, InputFields DEF Shape, ReadShape, At, Op
    <3>2. QED
      BY <2>1, <3>1 DEF Shape, ReadShape, Issues, UsesToken, Ops, EmailOps,
                        TokenOps, At
  <2>3. QED
    BY <2>1, <2>2 DEF UserRowHeld, OttRowHeld, At
<1>2. QED
  BY <1>1, Invariant, PTL

(* Whoever holds a row lock or a new email that another request waits for  *)
(* goes on by itself: a request that waits for a token's row has its       *)
(* user's row locked, so the holder of that token, whose user is the same, *)
(* could not hold it.  (register.py:73-74, verify_email.py:68-69,          *)
(* password_recover.py:81-82)                                              *)
THEOREM NoDeadlock == Spec => []HoldersNeverWait
<1>1. IInv => HoldersNeverWait
  <2> SUFFICES ASSUME IInv, NEW r \in Requests, NEW q \in Requests,
                      WaitsFor(r, q)
               PROVE  /\ pc[q] \in {"save_token", "commit"}
                      /\ \A p \in Requests : ~WaitsFor(q, p)
    BY DEF HoldersNeverWait
  <2> USE DEF IInv
  <2>1. pc[q] \in {"save_token", "commit"}
    <3>1. CASE At(r, "save_user")
      <4>1. user[r] \in Users
        BY <3>1 DEF RequestShapes, Shape, DecisionShape, Decided, At
      <4>2. \E u \in Users : userHolder[u] = q
        BY <3>1, <4>1 DEF WaitsFor, At
      <4>3. QED
        BY <4>2 DEF HoldersWrite
    <3>2. CASE At(r, "save_token")
      <4>1. token[r] \in Tokens
        BY <3>2 DEF RequestShapes, Shape, ReadShape, DecisionShape, Decided,
                    At
      <4>2. ottHolder[token[r]] = q
        BY <3>2 DEF WaitsFor, At
      <4>3. QED
        BY <4>1, <4>2 DEF HoldersWrite, At
    <3>3. QED
      BY <3>1, <3>2 DEF WaitsFor
  <2>2. ASSUME NEW p \in Requests, WaitsFor(q, p) PROVE FALSE
    <3>1. p # q /\ At(q, "save_token") /\ ottHolder[token[q]] = p
      BY <2>1, <2>2 DEF WaitsFor, At
    <3>2. /\ Decided(q) /\ token[q] \in Tokens
          /\ Issues(q) \/ UsesToken(q)
      BY <3>1 DEF RequestShapes, Shape, ReadShape, DecisionShape, Decided, At
    <3>3. At(p, "commit") /\ Decided(p) /\ (Issues(p) \/ UsesToken(p))
          /\ token[q] = token[p]
      BY <3>1, <3>2 DEF HoldersWrite, Decided, At
    <3>4. UsesToken(p) /\ UsesToken(q)
      BY <3>1, <3>2, <3>3 DEF KeysPrivate
    <3>5. Ott(token[p]) = seenToken[p] /\ seenToken[p] # NoRow
          /\ user[p] = seenToken[p].data.user
      BY <3>3, <3>4 DEF WritesHeld, OttRowHeld, RequestShapes, Shape,
                        ReadShape
    <3>6. seenToken[q] # NoRow /\ user[q] = seenToken[q].data.user
          /\ OttGrown(seenToken[q], Ott(token[q]))
      BY <3>2, <3>4 DEF ReadsNotNewer, RequestShapes, Shape, ReadShape
    <3>7. user[q] = user[p]
      BY <3>3, <3>5, <3>6 DEF OttGrown
    <3>8. userHolder[user[q]] = q /\ userHolder[user[p]] = p
      BY <3>1, <3>3 DEF WritesHeld, UserRowHeld, At
    <3>9. QED
      BY <3>1, <3>7, <3>8
  <2>3. QED
    BY <2>1, <2>2
<1>2. QED
  BY <1>1, Invariant, PTL

-----------------------------------------------------------------------------
(* Every commit is a step of Accounts                                      *)

OttFields(data) ==
  [user |-> data.user, purpose |-> data.purpose, used |-> data.used]

LEMMA ViewsOf ==
  ASSUME TypeOK
  PROVE  /\ AccountView \in [Users -> UserData \union {NoRow}]
         /\ \A u \in Users :
              /\ Row(u) = NoRow => AccountView[u] = NoRow
              /\ Row(u) # NoRow => AccountView[u] = Row(u).data
                                   /\ AccountView[u] # NoRow
         /\ DOMAIN OttView = Tokens
         /\ \A t \in Tokens :
              /\ Ott(t) = NoRow => OttView[t] = NoRow
              /\ Ott(t) # NoRow => OttView[t] = OttFields(Ott(t).data)
                                   /\ OttView[t] # NoRow
<1>1. \A u \in Users : Row(u) # NoRow =>
        Row(u).data \in UserData /\ Row(u).data # NoRow
  BY RowFields DEF TypeOK, Row
<1>2. \A t \in Tokens : Ott(t) # NoRow => OttFields(Ott(t).data) # NoRow
  BY RowFields, LifecycleAssumption DEF TypeOK, Ott, OttFields
<1>3. /\ AccountView = [u \in Users |->
                          IF Row(u) = NoRow THEN NoRow ELSE Row(u).data]
      /\ OttView = [t \in Tokens |->
                      IF Ott(t) = NoRow THEN NoRow ELSE OttFields(Ott(t).data)]
  BY DEF AccountView, OttView, OttFields
<1>4. QED
  BY <1>1, <1>2, <1>3

(* What a commit shows of the rows it has written.                         *)
LEMMA ViewsCommit ==
  ASSUME IInv, NEW r \in Requests, At(r, "commit"), Commit(r)
  PROVE  /\ user[r] \in Users
         /\ AccountView' = [AccountView EXCEPT ![user[r]] = UserEntity(r)]
         /\ Issues(r) \/ UsesToken(r) =>
              /\ token[r] \in Tokens
              /\ OttView' = [OttView EXCEPT
                               ![token[r]] = OttFields(OttEntity(r))]
         /\ ~(Issues(r) \/ UsesToken(r)) => OttView' = OttView
<1>1. /\ AccountView' = [u \in Users |->
             IF userTable'[u] = NoRow THEN NoRow ELSE userTable'[u].data]
      /\ AccountView = [u \in Users |->
             IF userTable[u] = NoRow THEN NoRow ELSE userTable[u].data]
      /\ OttView' = [t \in Tokens |->
             IF ottTable'[t] = NoRow THEN NoRow ELSE OttFields(ottTable'[t].data)]
      /\ OttView = [t \in Tokens |->
             IF ottTable[t] = NoRow THEN NoRow ELSE OttFields(ottTable[t].data)]
  BY DEF AccountView, OttView, OttFields, Row, Ott
<1>2. /\ NewUserRow(r) # NoRow /\ NewUserRow(r).data = UserEntity(r)
      /\ Issues(r) \/ UsesToken(r) =>
           NewOttRow(r) # NoRow /\ NewOttRow(r).data = OttEntity(r)
  BY NewRowsGrown, RowFields DEF Decided, At, NewUserRow, NewOttRow
<1>3. /\ user[r] \in Users /\ userTable'[user[r]] = NewUserRow(r)
      /\ \A u \in Users \ {user[r]} : userTable'[u] = userTable[u]
      /\ Issues(r) \/ UsesToken(r) =>
           /\ token[r] \in Tokens /\ ottTable'[token[r]] = NewOttRow(r)
           /\ \A t \in Tokens \ {token[r]} : ottTable'[t] = ottTable[t]
      /\ ~(Issues(r) \/ UsesToken(r)) =>
           \A t \in Tokens : ottTable'[t] = ottTable[t]
  BY CommitEffects DEF Row, Ott
<1> HIDE DEF OttFields
<1>4. AccountView' = [AccountView EXCEPT ![user[r]] = UserEntity(r)]
  BY <1>1, <1>2, <1>3
<1>5. ASSUME Issues(r) \/ UsesToken(r)
      PROVE  OttView' = [OttView EXCEPT ![token[r]] = OttFields(OttEntity(r))]
  BY <1>1, <1>2, <1>3, <1>5
<1>6. ASSUME ~(Issues(r) \/ UsesToken(r)) PROVE OttView' = OttView
  BY <1>1, <1>3, <1>6
<1>7. QED
  BY <1>3, <1>4, <1>5, <1>6

(* The entities after each decision.                                       *)
LEMMA EntityForms ==
  ASSUME IInv, NEW r \in Requests, Decided(r)
  PROVE  /\ seenUser[r] = NoRow =>
              /\ Op(r) = "register"
              /\ input[r].email.address \in Addresses
              /\ input[r].password.word \in Words
              /\ UserEntity(r) = A!NewAccount(input[r].email.address,
                                              input[r].password.word)
         /\ seenUser[r] # NoRow =>
              /\ Op(r) \in {"register", "recover_request", "login"} =>
                   UserEntity(r) = Stored(r)
              /\ Op(r) = "verify_email" =>
                   UserEntity(r) = [Stored(r) EXCEPT !.verified = TRUE]
              /\ Op(r) \in {"change_password", "recover"} =>
                   /\ input[r].password.word \in Words
                   /\ UserEntity(r) = [Stored(r) EXCEPT
                                         !.password = input[r].password.word]
         /\ Issues(r) =>
              OttFields(OttEntity(r)) =
                [user |-> user[r], used |-> FALSE,
                 purpose |-> IF Op(r) = "register" THEN VERIFY_EMAIL
                             ELSE RECOVER_PASSWORD]
         /\ UsesToken(r) =>
              OttFields(OttEntity(r)) =
                [OttFields(seenToken[r].data) EXCEPT !.used = TRUE]
<1> USE DEF IInv
<1>1. /\ Shape(r) /\ input[r] \in Inputs
      /\ seenUser[r] = NoRow => Op(r) = "register"
      /\ UsesToken(r) <=> seenToken[r] # NoRow
  BY DEF RequestShapes, Shape, ReadShape, Decided, At
<1>2. ASSUME seenUser[r] = NoRow
      PROVE  UserEntity(r) = A!NewAccount(input[r].email.address,
                                          input[r].password.word)
  BY <1>2 DEF UserEntity, A!NewAccount
<1>3. ASSUME seenUser[r] # NoRow
      PROVE  /\ Op(r) \in {"register", "recover_request", "login"} =>
                  UserEntity(r) = Stored(r)
             /\ Op(r) = "verify_email" =>
                  UserEntity(r) = [Stored(r) EXCEPT !.verified = TRUE]
             /\ Op(r) \in {"change_password", "recover"} =>
                  UserEntity(r) = [Stored(r) EXCEPT
                                     !.password = input[r].password.word]
  <2> DEFINE w == input[r].password.word
             p == IF Op(r) \in {"change_password", "recover"}
                  THEN w ELSE Stored(r).password
             v == Stored(r).verified \/ Op(r) = "verify_email"
  <2>1. Stored(r) \in UserData
    BY <1>3, RowFields DEF TypeOK, Stored
  <2>2. UserEntity(r) = [email |-> Stored(r).email, password |-> p, verified |-> v]
    BY <1>3 DEF UserEntity
  <2>3. /\ Op(r) \in {"register", "recover_request", "login"} =>
             p = Stored(r).password /\ (v <=> Stored(r).verified)
        /\ Op(r) = "verify_email" => p = Stored(r).password /\ v
        /\ Op(r) \in {"change_password", "recover"} =>
             p = w /\ (v <=> Stored(r).verified)
    OBVIOUS
  <2>4. v \in BOOLEAN /\ Stored(r).verified \in BOOLEAN
    BY <2>1 DEF UserData
  <2> HIDE DEF p, v
  <2>5. \A d \in UserData : \A x :
          /\ d = [email |-> d.email, password |-> d.password,
                  verified |-> d.verified]
          /\ [d EXCEPT !.verified = x] =
               [email |-> d.email, password |-> d.password, verified |-> x]
          /\ [d EXCEPT !.password = x] =
               [email |-> d.email, password |-> x, verified |-> d.verified]
    BY DEF UserData
  <2>6. [Stored(r) EXCEPT !.verified = TRUE] =
          [email |-> Stored(r).email, password |-> Stored(r).password,
           verified |-> TRUE]
    BY <2>1, <2>5, Zenon
  <2>7. ASSUME Op(r) \in {"register", "recover_request", "login"}
        PROVE  UserEntity(r) = Stored(r)
    <3>1. v = Stored(r).verified
      BY <2>3, <2>4, <2>7
    <3>2. QED
      BY <2>1, <2>2, <2>3, <2>5, <2>7, <3>1
  <2>8. ASSUME Op(r) = "verify_email"
        PROVE  UserEntity(r) = [Stored(r) EXCEPT !.verified = TRUE]
    <3>1. p = Stored(r).password /\ v = TRUE
      BY <2>3, <2>4, <2>8
    <3>2. QED
      BY <2>2, <2>6, <3>1, Zenon
  <2>9. ASSUME Op(r) \in {"change_password", "recover"}
        PROVE  UserEntity(r) = [Stored(r) EXCEPT !.password = w]
    <3>1. p = w /\ v = Stored(r).verified
      BY <2>3, <2>4, <2>9
    <3>2. QED
      BY <2>1, <2>2, <2>5, <3>1
  <2>10. QED
    BY <2>7, <2>8, <2>9
<1>4. /\ Op(r) = "register" => input[r].email.address \in Addresses
      /\ Op(r) \in {"register", "change_password", "recover"} =>
           input[r].password.word \in Words
  BY <1>1, InputFields DEF Op, EmailOps
<1>5. ASSUME Issues(r)
      PROVE  OttFields(OttEntity(r)) =
               [user |-> user[r], used |-> FALSE,
                purpose |-> IF Op(r) = "register" THEN VERIFY_EMAIL
                            ELSE RECOVER_PASSWORD]
  <2>1. seenToken[r] = NoRow
    BY <1>1, <1>5 DEF Issues, UsesToken, TokenOps
  <2>2. QED
    BY <2>1 DEF OttFields, OttEntity
<1>6. ASSUME UsesToken(r)
      PROVE  OttFields(OttEntity(r)) =
               [OttFields(seenToken[r].data) EXCEPT !.used = TRUE]
  <2> DEFINE d == seenToken[r].data
  <2>1. seenToken[r] # NoRow /\ d \in OttData
    BY <1>1, <1>6, RowFields DEF TypeOK
  <2>2. OttEntity(r) = [d EXCEPT !.used = TRUE]
    BY <2>1 DEF OttEntity
  <2>3. \A x \in OttData : \A y :
          OttFields([x EXCEPT !.used = y]) = [OttFields(x) EXCEPT !.used = y]
    BY DEF OttData, OttFields
  <2> HIDE DEF d, OttFields
  <2>4. OttFields([d EXCEPT !.used = TRUE]) = [OttFields(d) EXCEPT !.used = TRUE]
    BY <2>1, <2>3, Zenon
  <2>5. QED
    BY <2>2, <2>4 DEF d
<1>7. QED
  BY <1>1, <1>2, <1>3, <1>4, <1>5, <1>6

LEMMA CommitIsAccountsStep ==
  ASSUME IInv, NEW r \in Requests, At(r, "commit"), Commit(r)
  PROVE  A!Next \/ UNCHANGED <<AccountView, OttView>>
<1> USE DEF IInv
<1> DEFINE u == user[r]
           t == token[r]
           e == input[r].email.address
           w == input[r].password.word
<1>1. Decided(r) /\ Shape(r) /\ Op(r) \in Ops
  BY InputFields DEF Decided, At, RequestShapes, Shape, ReadShape, Op
<1>2. /\ u \in Users /\ Row(u) = seenUser[r]
      /\ Issues(r) \/ UsesToken(r) => t \in Tokens /\ Ott(t) = seenToken[r]
  BY CommitEffects
<1>3. /\ seenUser[r] = NoRow => AccountView[u] = NoRow
      /\ seenUser[r] # NoRow => AccountView[u] = Stored(r)
                                /\ AccountView[u] # NoRow
      /\ (Issues(r) \/ UsesToken(r)) /\ seenToken[r] = NoRow => OttView[t] = NoRow
      /\ (Issues(r) \/ UsesToken(r)) /\ seenToken[r] # NoRow =>
           OttView[t] = OttFields(seenToken[r].data) /\ OttView[t] # NoRow
  BY <1>2, ViewsOf DEF Stored
<1>4. /\ AccountView' = [AccountView EXCEPT ![u] = UserEntity(r)]
      /\ Issues(r) \/ UsesToken(r) =>
           OttView' = [OttView EXCEPT ![t] = OttFields(OttEntity(r))]
      /\ ~(Issues(r) \/ UsesToken(r)) => OttView' = OttView
  BY ViewsCommit
<1>5. /\ UsesToken(r) <=> seenToken[r] # NoRow
      /\ Issues(r) => ~UsesToken(r)
      /\ seenUser[r] = NoRow => Op(r) = "register"
  BY <1>1 DEF Shape, ReadShape, Issues, UsesToken, TokenOps
<1>6. Op(r) \in {"register", "recover_request", "login"} /\ seenUser[r] # NoRow =>
        AccountView' = AccountView
  <2>1. AccountView \in [Users -> UserData \union {NoRow}]
    BY ViewsOf
  <2>2. QED
    BY <1>1, <1>2, <1>3, <1>4, <2>1, EntityForms
<1>7. CASE Op(r) = "register" /\ seenUser[r] = NoRow
  <2>1. /\ e \in Addresses /\ w \in Words
        /\ UserEntity(r) = A!NewAccount(e, w)
        /\ OttFields(OttEntity(r)) =
             [user |-> u, purpose |-> VERIFY_EMAIL, used |-> FALSE]
    BY <1>1, <1>7, EntityForms DEF Issues
  <2>2. ~A!EmailTaken(e)
    <3>1. ~EmailTaken(e)
      BY <1>7 DEF NewEmailsFree, Inserted, Creates, At
    <3>2. \A v \in Users : AccountView[v] # NoRow =>
            userTable[v] # NoRow /\ AccountView[v] = userTable[v].data
      BY ViewsOf DEF Row
    <3>3. QED
      BY <3>1, <3>2 DEF A!EmailTaken, A!Has, EmailTaken
  <2>3. A!Issue(t, u, VERIFY_EMAIL)
    BY <1>2, <1>3, <1>4, <1>5, <1>7, <2>1 DEF A!Issue, Issues
  <2>4. A!Register(u, t, e, w)
    BY <1>3, <1>4, <1>7, <2>1, <2>2, <2>3
    DEF A!Register, A!Has, A!VERIFY_EMAIL, VERIFY_EMAIL
  <2>5. QED
    BY <1>2, <1>7, <2>1, <2>4 DEF A!Next, Issues
<1>8. CASE Op(r) = "register" /\ seenUser[r] # NoRow
  <2>1. OttFields(OttEntity(r)) =
          [user |-> u, purpose |-> VERIFY_EMAIL, used |-> FALSE]
    BY <1>1, <1>8, EntityForms DEF Issues
  <2>2. A!Issue(t, u, VERIFY_EMAIL)
    BY <1>2, <1>3, <1>4, <1>5, <1>8, <2>1 DEF A!Issue, Issues
  <2>3. ~Stored(r).verified
    BY <1>1, <1>8 DEF Shape, DecisionShape
  <2>4. A!Reissue(u, t)
    BY <1>3, <1>6, <1>8, <2>2, <2>3
    DEF A!Reissue, A!Has, A!VERIFY_EMAIL, VERIFY_EMAIL
  <2>5. QED
    BY <1>2, <1>8, <2>4 DEF A!Next, Issues
<1>9. CASE Op(r) = "recover_request"
  <2>1. OttFields(OttEntity(r)) =
          [user |-> u, purpose |-> RECOVER_PASSWORD, used |-> FALSE]
    BY <1>1, <1>9, EntityForms DEF Issues
  <2>2. A!Issue(t, u, RECOVER_PASSWORD)
    BY <1>2, <1>3, <1>4, <1>5, <1>9, <2>1 DEF A!Issue, Issues
  <2>3. Stored(r).verified /\ seenUser[r] # NoRow
    BY <1>1, <1>5, <1>9 DEF Shape, DecisionShape
  <2>4. A!RequestRecovery(u, t)
    BY <1>3, <1>6, <1>9, <2>2, <2>3
    DEF A!RequestRecovery, A!Has, A!RECOVER_PASSWORD, RECOVER_PASSWORD
  <2>5. QED
    BY <1>2, <1>9, <2>4 DEF A!Next, Issues
<1>10. ASSUME UsesToken(r), NEW purpose, seenToken[r].data.purpose = purpose
       PROVE  A!Use(t, purpose) /\ OttView[t].user = u
  <2>1. OttFields(OttEntity(r)) =
          [OttFields(seenToken[r].data) EXCEPT !.used = TRUE]
    BY <1>1, <1>10, EntityForms
  <2>2. ~seenToken[r].data.used /\ u = seenToken[r].data.user
    BY <1>1, <1>5, <1>10 DEF Shape, ReadShape, DecisionShape
  <2>3. /\ OttView[t] = OttFields(seenToken[r].data) /\ OttView[t] # NoRow
        /\ OttView' = [OttView EXCEPT ![t] = [OttView[t] EXCEPT !.used = TRUE]]
    BY <1>3, <1>4, <1>5, <1>10, <2>1
  <2>4. QED
    BY <1>10, <2>2, <2>3 DEF A!Use, OttFields
<1>11. CASE Op(r) = "verify_email"
  <2>1. UsesToken(r) /\ seenToken[r].data.purpose = VERIFY_EMAIL
        /\ ~Stored(r).verified /\ seenUser[r] # NoRow
    BY <1>1, <1>5, <1>11 DEF Shape, DecisionShape, UsesToken, TokenOps
  <2>2. AccountView' = [AccountView EXCEPT
                          ![u] = [AccountView[u] EXCEPT !.verified = TRUE]]
    BY <1>1, <1>3, <1>4, <1>11, <2>1, EntityForms
  <2>3. A!Verify(u, t)
    BY <1>3, <1>10, <2>1, <2>2
    DEF A!Verify, A!Has, A!VERIFY_EMAIL, VERIFY_EMAIL
  <2>4. QED
    BY <1>2, <2>1, <2>3 DEF A!Next
<1>12. CASE Op(r) = "recover"
  <2>1. UsesToken(r) /\ seenToken[r].data.purpose = RECOVER_PASSWORD
        /\ seenUser[r] # NoRow
    BY <1>1, <1>5, <1>12 DEF Shape, DecisionShape, UsesToken, TokenOps
  <2>2. w \in Words
        /\ AccountView' = [AccountView EXCEPT
                             ![u] = [AccountView[u] EXCEPT !.password = w]]
    BY <1>1, <1>3, <1>4, <1>12, <2>1, EntityForms
  <2>3. A!Recover(u, t, w)
    BY <1>3, <1>10, <2>1, <2>2
    DEF A!Recover, A!Has, A!RECOVER_PASSWORD, RECOVER_PASSWORD
  <2>4. QED
    BY <1>2, <2>1, <2>2, <2>3 DEF A!Next
<1>13. CASE Op(r) = "change_password"
  <2>1. Stored(r).verified /\ seenUser[r] # NoRow
        /\ ~Issues(r) /\ ~UsesToken(r)
    BY <1>1, <1>5, <1>13 DEF Shape, DecisionShape, Issues, UsesToken, TokenOps
  <2>2. w \in Words
        /\ AccountView' = [AccountView EXCEPT
                             ![u] = [AccountView[u] EXCEPT !.password = w]]
    BY <1>1, <1>3, <1>4, <1>13, <2>1, EntityForms
  <2>3. A!Change(u, w)
    BY <1>3, <1>4, <2>1, <2>2 DEF A!Change, A!Has
  <2>4. QED
    BY <1>2, <2>2, <2>3 DEF A!Next
<1>14. CASE Op(r) = "login"
  <2>1. seenUser[r] # NoRow /\ ~Issues(r) /\ ~UsesToken(r)
    BY <1>5, <1>14 DEF Issues, UsesToken, TokenOps
  <2>2. QED
    BY <1>4, <1>6, <1>14, <2>1
<1>15. QED
  BY <1>1, <1>7, <1>8, <1>9, <1>11, <1>12, <1>13, <1>14
  DEF Ops, EmailOps, TokenOps

(* The requests implement the abstract accounts: whatever interleaves,     *)
(* fails or crashes, what is committed changes by one account operation at *)
(* a time, on the accounts as they are at that moment.  (register.py,      *)
(* verify_email.py, change_password.py, password_recover.py)               *)
THEOREM Refinement == Spec => ImplementsAccounts
<1>1. Init => A!Init
  <2> SUFFICES ASSUME Init PROVE A!Init
    OBVIOUS
  <2>1. AccountView = [u \in Users |->
          IF \E p \in Past : p.user = u
          THEN [email |-> PastUser(u).email, password |-> PastUser(u).password,
                verified |-> TRUE]
          ELSE NoRow]
    <3>1. \A u \in Users :
            AccountView[u] = IF \E p \in Past : p.user = u
              THEN [email |-> PastUser(u).email,
                    password |-> PastUser(u).password, verified |-> TRUE]
              ELSE NoRow
      <4> TAKE u \in Users
      <4>1. CASE \E p \in Past : p.user = u
        <5>1. /\ Row(u) # NoRow
              /\ Row(u) = [version |-> 2,
                   data |-> [email |-> PastUser(u).email,
                             password |-> PastUser(u).password,
                             verified |-> TRUE]]
          <6>1. Row(u) # NoRow
            BY <4>1, InitTypes
          <6>2. QED
            BY <4>1, <6>1 DEF Init, U!TableInit, Row
        <5>2. Row(u).data = [email |-> PastUser(u).email,
                             password |-> PastUser(u).password,
                             verified |-> TRUE]
          BY <5>1
        <5>3. QED
          BY <4>1, <5>1, <5>2, InitTypes, ViewsOf
      <4>2. CASE ~\E p \in Past : p.user = u
        BY <4>2 DEF Init, U!TableInit, Row, AccountView
      <4>3. QED
        BY <4>1, <4>2
    <3>2. QED
      BY <3>1 DEF AccountView
  <2>2. OttView = [t \in Tokens |->
          IF \E p \in Past : p.token = t
          THEN [user |-> PastToken(t).user, purpose |-> VERIFY_EMAIL,
                used |-> TRUE]
          ELSE NoRow]
    <3>1. \A t \in Tokens :
            OttView[t] = IF \E p \in Past : p.token = t
              THEN [user |-> PastToken(t).user, purpose |-> VERIFY_EMAIL,
                    used |-> TRUE]
              ELSE NoRow
      <4> TAKE t \in Tokens
      <4>1. CASE \E p \in Past : p.token = t
        <5>1. /\ Ott(t) # NoRow
              /\ Ott(t) = [version |-> 2,
                   data |-> [user |-> PastToken(t).user,
                             purpose |-> VERIFY_EMAIL, expires |-> 0,
                             used |-> TRUE]]
          <6>1. Ott(t) # NoRow
            BY <4>1, InitTypes
          <6>2. QED
            BY <4>1, <6>1 DEF Init, O!TableInit, Ott
        <5>2. OttFields(Ott(t).data) =
                [user |-> PastToken(t).user, purpose |-> VERIFY_EMAIL,
                 used |-> TRUE]
          <6> DEFINE d == Ott(t).data
          <6>1. /\ d.user = PastToken(t).user /\ d.purpose = VERIFY_EMAIL
                /\ d.used = TRUE
            BY <5>1
          <6> HIDE DEF d
          <6>2. QED
            BY <6>1, Zenon DEF OttFields, d
        <5>3. QED
          BY <4>1, <5>1, <5>2, InitTypes, ViewsOf
      <4>2. CASE ~\E p \in Past : p.token = t
        BY <4>2 DEF Init, O!TableInit, Ott, OttView
      <4>3. QED
        BY <4>1, <4>2
    <3>2. QED
      BY <3>1 DEF OttView
  <2>3. QED
    BY <2>1, <2>2 DEF A!Init, PastUser, PastToken, VERIFY_EMAIL,
                      A!VERIFY_EMAIL
<1>2. IInv /\ [Next]_vars => [A!Next]_<<AccountView, OttView>>
  <2> SUFFICES ASSUME IInv, [Next]_vars
               PROVE  A!Next \/ UNCHANGED <<AccountView, OttView>>
    OBVIOUS
  <2>1. CASE UNCHANGED <<userTable, ottTable>>
    BY <2>1 DEF AccountView, OttView, Row, Ott
  <2>2. ASSUME NEW r \in Requests, At(r, "commit"), Commit(r)
        PROVE  A!Next \/ UNCHANGED <<AccountView, OttView>>
    BY <2>2, CommitIsAccountsStep
  <2>3. QED
    BY <2>1, <2>2, TablesStep
<1>3. QED
  BY <1>1, <1>2, Invariant, PTL DEF Spec, ImplementsAccounts, A!Spec,
                                    A!accountsVars

-----------------------------------------------------------------------------
(* The audit log and the facts                                             *)

(* The event for the audit log, if there is one, comes first, is about the *)
(* user of the request and tells what the request has done.                *)
AuditShape(r) ==
  /\ \A i \in DOMAIN todo[r] :
       /\ todo[r][i].user = user[r]
       /\ i > 1 => IsNotification(todo[r][i])
  /\ todo[r] # <<>> =>
       LET event == todo[r][1] IN
       /\ event.type = "UserCreated" => Creates(r)
       /\ event.type = "UserEmailVerified" => Op(r) = "verify_email"
       /\ event.type = "UserPasswordRecovered" => Op(r) = "recover"
AuditShapes == \A r \in Requests : AuditShape(r)

(* What the log says of a user, and what it will say once every request    *)
(* that has committed has published its event, is a fact of the tables.    *)
Classes == {"UserCreated", "UserEmailVerified", "UserPasswordRecovered", "any"}
TypesOf(class) == IF class = "any" THEN AuditTypes ELSE {class}
Logs(u, class) ==
  IF class = "any"
  THEN audit[u]["UserCreated"] + audit[u]["UserEmailVerified"]
         + audit[u]["UserPasswordRecovered"] + audit[u]["UserPasswordChanged"]
  ELSE audit[u][class]
Pending(u, class) ==
  {r \in Requests : /\ At(r, "publish") /\ todo[r] # <<>>
                    /\ Head(todo[r]).user = u
                    /\ Head(todo[r]).type \in TypesOf(class)}
Claims(u, class) == Logs(u, class) + Cardinality(Pending(u, class))

Recoveries(u) ==
  {t \in Tokens : Ott(t) # NoRow /\ Ott(t).data.user = u /\ Ott(t).data.used
                    /\ Ott(t).data.purpose = RECOVER_PASSWORD}
Facts(u, class) ==
  IF Row(u) = NoRow THEN 0
  ELSE CASE class = "UserCreated" -> 1
         [] class = "UserEmailVerified" -> IF Row(u).data.verified THEN 1 ELSE 0
         [] class = "UserPasswordRecovered" -> Cardinality(Recoveries(u))
         [] class = "any" -> Row(u).version

ClaimsBacked ==
  \A u \in Users, class \in Classes : Claims(u, class) <= Facts(u, class)

(* The list of events of a request from one step to the next.              *)
LEMMA TodoStep ==
  ASSUME IInv, NEW r \in Requests, Step(r)
  PROVE  \/ todo'[r] = <<>>
         \/ todo'[r] = todo[r] /\ RemembersRow(r)
         \/ PublishNext(r) \/ AcceptUpdate(r)
         \/ \E t \in Tokens : \/ AcceptOldUser(r, t)
                              \/ \E u \in Users : AcceptNewUser(r, u, t)
<1> DEFINE Kept == \/ todo'[r] = <<>>
                   \/ todo'[r] = todo[r] /\ RemembersRow(r)
<1>1. /\ At(r, "idle") \/ At(r, "decide") \/ At(r, "load_user") => todo[r] = <<>>
      /\ todo \in [Requests -> Seq(Events)]
  BY DEF IInv, TypeOK, RequestShapes, Shape, TodoShape, Decided, At
<1>2. (\E out : Answer(r, out)) => todo'[r] = <<>>
  BY <1>1 DEF Answer
<1>3. ASSUME Arrives(r) PROVE Kept
  <2>1. At(r, "idle")
    BY <1>3, Zenon DEF Arrives, SelectByEmail, SelectByAccessToken,
       EmailNotFound, AccessExpired, TokenNotFound, SelectToken, Arrive
  <2>2. UNCHANGED todo \/ \E out : Answer(r, out)
    BY <1>3, Zenon DEF Arrives, SelectByEmail, SelectByAccessToken,
       EmailNotFound, AccessExpired, TokenNotFound, SelectToken
  <2>3. QED
    BY <1>1, <1>2, <2>1, <2>2
<1>4. ASSUME Saves(r) PROVE Kept
  <2>1. UNCHANGED localVars /\ (UNCHANGED todo \/ \E out : Answer(r, out))
    BY <1>4, Zenon DEF Saves, InsertUser, InsertUserFails, UpdateUser,
                       UpdateUserConflict
  <2>2. QED
    BY <1>2, <2>1 DEF localVars, RemembersRow
<1>5. ASSUME Fails(r) PROVE Kept
  BY <1>2, <1>5, Zenon DEF Fails, CommitUnacknowledged, DbFailure, PushFails
<1>6. ASSUME NEW out \in BaseErrors, Refused(r, out) PROVE Kept
  BY <1>2, <1>6, Zenon DEF Refused
<1>7. ASSUME LoadUser(r) \/ AcceptLogin(r) PROVE Kept
  BY <1>1, <1>7 DEF LoadUser, AcceptLogin, Accepts
<1>8. ASSUME \/ InsertToken(r) \/ UpdateToken(r) \/ CommitAndPublish(r)
      PROVE  Kept
  BY <1>8 DEF InsertToken, UpdateToken, CommitAndPublish, localVars,
              RemembersRow
<1>9. ASSUME UpdateTokenConflict(r) \/ Published(r) PROVE Kept
  BY <1>2, <1>9, Zenon DEF UpdateTokenConflict, Published
<1>10. ASSUME Respond(r) \/ ResponseLost(r) PROVE Kept
  BY <1>10 DEF Respond, ResponseLost, Forget
<1> HIDE DEF Kept
<1>11. \/ Kept \/ PublishNext(r) \/ AcceptUpdate(r)
       \/ \E t \in Tokens : \/ AcceptOldUser(r, t)
                            \/ \E u \in Users : AcceptNewUser(r, u, t)
  BY <1>3, <1>4, <1>5, <1>6, <1>7, <1>8, <1>9, <1>10, Zenon
  DEF Step, Proceeds
<1>12. QED
  BY <1>11 DEF Kept

LEMMA Heads ==
  \A s \in Seq(Events) : s # <<>> => 1 \in DOMAIN s /\ Head(s) = s[1]
OBVIOUS

LEMMA EventsOf ==
  /\ \A u, t, type : LET e == Event(type, u, t) IN
       e.user = u /\ e.type = type /\ e.token = t
  /\ IsNotification(Event("UserEmailVerificationRequested", NoUser, NoToken))
  /\ AuditTypes \intersect NotificationTypes = {}
BY DEF Event, IsNotification, AuditTypes, NotificationTypes

(* What is left of the list after its head tells nothing to the audit log. *)
LEMMA TailSilent ==
  ASSUME IInv, AuditShapes, NEW r \in Requests, PublishNext(r)
  PROVE  /\ todo'[r] = Tail(todo[r]) /\ todo[r] # <<>> /\ At(r, "publish")
         /\ todo[r] \in Seq(Events) /\ todo'[r] \in Seq(Events)
         /\ RemembersRow(r)
         /\ \A i \in DOMAIN todo'[r] :
              /\ IsNotification(todo'[r][i])
              /\ todo'[r][i].type \notin AuditTypes
              /\ todo'[r][i].user = user[r]
<1>1. /\ At(r, "publish") /\ RemembersRow(r) /\ todo[r] # <<>>
      /\ todo'[r] = Tail(todo[r]) /\ todo[r] \in Seq(Events)
  BY DEF IInv, TypeOK, PublishNext, RemembersRow, localVars
<1>2. \A i \in DOMAIN todo'[r] :
        i + 1 \in DOMAIN todo[r] /\ i + 1 > 1
        /\ todo'[r][i] = todo[r][i + 1]
  BY <1>1
<1>3. QED
  BY <1>1, <1>2, EventsOf DEF AuditShapes, AuditShape, IsNotification

LEMMA AuditShapesStep ==
  IInv /\ AuditShapes /\ [Next]_vars => AuditShapes'
<1> SUFFICES ASSUME IInv, AuditShapes, [Next]_vars PROVE AuditShapes'
  OBVIOUS
<1>1. \A q \in Requests :
        (todo'[q] = todo[q] /\ RemembersRow(q)) \/ todo'[q] = <<>>
        => AuditShape(q)'
  BY DEF AuditShapes, AuditShape, RemembersRow, Creates, Op, IsNotification
<1>2. ASSUME NEW r \in Requests, Step(r) PROVE AuditShapes'
  <2>1. \A q \in Requests \ {r} : AuditShape(q)'
    <3>1. TypeOK
      BY DEF IInv
    <3>2. QED
      BY <1>1, <1>2, <3>1, StepsAlone DEF OthersAlone, Alone
  <2>2. AuditShape(r)'
    <3>1. CASE PublishNext(r)
      <4>1. /\ todo'[r] \in Seq(Events) /\ todo[r] \in Seq(Events)
            /\ RemembersRow(r)
            /\ \A i \in DOMAIN todo'[r] :
                 /\ IsNotification(todo'[r][i])
                 /\ todo'[r][i].type \notin AuditTypes
                 /\ todo'[r][i].user = user[r]
        BY <3>1, TailSilent
      <4>2. todo'[r] # <<>> =>
              todo'[r][1].type \notin
                {"UserCreated", "UserEmailVerified", "UserPasswordRecovered"}
        <5>1. todo'[r] # <<>> => 1 \in DOMAIN todo'[r]
          BY <4>1, Heads
        <5>2. QED
          BY <4>1, <5>1 DEF AuditTypes
      <4>3. \A i \in DOMAIN todo'[r] :
              todo'[r][i].user = user'[r] /\ IsNotification(todo'[r][i])
        BY <4>1 DEF RemembersRow
      <4>4. QED
        BY <4>2, <4>3 DEF AuditShape, IsNotification
    <3>2. CASE AcceptUpdate(r)
      <4>1. /\ todo'[r] = <<Event(EventOf[Op(r)], user[r], NoToken)>>
            /\ RemembersRow(r) /\ Op(r) \in DOMAIN EventOf
        BY <3>2 DEF AcceptUpdate, localVars, RemembersRow, IInv, TypeOK
      <4>2. QED
        BY <4>1, EventsOf DEF AuditShape, EventOf, RemembersRow, Op
    <3>3. ASSUME NEW t \in Tokens, AcceptOldUser(r, t) PROVE AuditShape(r)'
      <4>1. user'[r] = user[r] /\ \E type \in NotificationTypes :
              todo'[r] = <<Event(type, user[r], t)>>
        BY <3>3 DEF AcceptOldUser, IInv, TypeOK, NotificationTypes
      <4>2. QED
        BY <4>1, EventsOf DEF AuditShape, NotificationTypes, IsNotification
    <3>4. ASSUME NEW t \in Tokens, NEW u \in Users, AcceptNewUser(r, u, t)
          PROVE  AuditShape(r)'
      <4>1. /\ user'[r] = u /\ seenUser'[r] = NoRow /\ Op(r)' = "register"
            /\ todo'[r] = <<Event("UserCreated", u, NoToken),
                            Event("UserEmailVerificationRequested", u, t)>>
        BY <3>4 DEF AcceptNewUser, IInv, TypeOK, Op
      <4>2. QED
        BY <4>1, EventsOf DEF AuditShape, NotificationTypes, IsNotification,
                              Creates
    <3>5. QED
      BY <1>1, <1>2, <3>1, <3>2, <3>3, <3>4, TodoStep
  <2>3. QED
    BY <2>1, <2>2 DEF AuditShapes
<1>3. CASE Crash
  BY <1>1, <1>3 DEF Crash, Forget, AuditShapes
<1>4. CASE Deliver \/ Tick \/ UNCHANGED vars
  BY <1>1, <1>4 DEF Deliver, Tick, vars, requestVars, localVars, RemembersRow,
                    AuditShapes
<1>5. QED
  BY <1>2, <1>3, <1>4 DEF Next, Step

-----------------------------------------------------------------------------
(* What the log claims and what the tables show                            *)

LEMMA PendingStep ==
  ASSUME IInv, AuditShapes, NEW r \in Requests, Step(r),
         NEW u \in Users, NEW class \in Classes
  PROVE  /\ Pending(u, class)' \ {r} \subseteq Pending(u, class) \ {r}
         /\ ~CommitAndPublish(r) => r \notin Pending(u, class)'
<1>1. Pending(u, class)' \ {r} \subseteq Pending(u, class) \ {r}
  <2>1. \A q \in Requests \ {r} : pc'[q] = pc[q] /\ todo'[q] = todo[q]
    BY StepsAlone DEF IInv, OthersAlone, Alone
  <2>2. QED
    BY <2>1 DEF Pending, At
<1>2. ASSUME ~CommitAndPublish(r), r \in Pending(u, class)' PROVE FALSE
  <2>1. pc'[r] = "publish" /\ todo'[r] # <<>>
        /\ Head(todo'[r]).type \in TypesOf(class)
    BY <1>2 DEF Pending, At
  <2>2. PublishNext(r)
    BY <1>2, <2>1, PublishStep
  <2>3. Head(todo'[r]).type \notin AuditTypes
    BY <2>1, <2>2, TailSilent, Heads
  <2>4. QED
    BY <2>1, <2>3 DEF TypesOf, Classes, AuditTypes
<1>3. QED
  BY <1>1, <1>2

LEMMA PendingCounts ==
  ASSUME FinitenessAssumption, NEW u \in Users, NEW class \in Classes
  PROVE  /\ IsFiniteSet(Pending(u, class)) /\ IsFiniteSet(Pending(u, class)')
         /\ Cardinality(Pending(u, class)) \in Nat
         /\ Cardinality(Pending(u, class)') \in Nat
<1>1. Pending(u, class) \subseteq Requests /\ Pending(u, class)' \subseteq Requests
  BY DEF Pending
<1>2. QED
  BY <1>1, FS_Subset, FS_CardinalityType DEF FinitenessAssumption

(* One entry more in the log of one user.                                  *)
LEMMA LoggedCounts ==
  ASSUME TypeOK, NEW event \in Events, ~IsNotification(event),
         audit' = Logged(audit, event), NEW u \in Users, NEW class \in Classes
  PROVE  Logs(u, class)' =
           IF event.user = u /\ event.type \in TypesOf(class)
           THEN Logs(u, class) + 1 ELSE Logs(u, class)
<1>1. event.user \in Users /\ event.type \in AuditTypes
  BY DEF Events, IsNotification, EventTypes
<1>2. \A v \in Users, type \in AuditTypes :
        /\ audit[v][type] \in Nat
        /\ audit'[v][type] = IF v = event.user /\ type = event.type
                             THEN audit[v][type] + 1 ELSE audit[v][type]
  <2> DEFINE entries == [audit[event.user] EXCEPT ![event.type] = @ + 1]
  <2>1. audit' = [audit EXCEPT ![event.user] = entries]
    BY DEF Logged
  <2>2. \A v \in Users, type \in AuditTypes : audit[v][type] \in Nat
    BY DEF TypeOK
  <2>3. \A type \in AuditTypes :
          entries[type] = IF type = event.type THEN audit[event.user][type] + 1
                          ELSE audit[event.user][type]
    BY <1>1 DEF TypeOK
  <2> HIDE DEF entries
  <2>4. \A v \in Users : audit'[v] = IF v = event.user THEN entries ELSE audit[v]
    BY <2>1 DEF TypeOK
  <2>5. QED
    BY <2>2, <2>3, <2>4
<1>3. CASE class = "any"
  BY <1>1, <1>2, <1>3 DEF Logs, TypesOf, AuditTypes
<1>4. CASE class # "any"
  BY <1>1, <1>2, <1>4 DEF Logs, TypesOf, Classes, AuditTypes
<1>5. QED
  BY <1>3, <1>4

LEMMA LogsCount ==
  ASSUME NEW u \in Users, NEW class \in Classes
  PROVE  /\ TypeOK => Logs(u, class) \in Nat
         /\ TypeOK' => Logs(u, class)' \in Nat
<1>1. TypeOK => \A type \in AuditTypes : audit[u][type] \in Nat
  BY DEF TypeOK
<1>2. TypeOK' => \A type \in AuditTypes : audit'[u][type] \in Nat
  BY DEF TypeOK
<1>3. CASE class = "any"
  BY <1>1, <1>2, <1>3 DEF Logs, AuditTypes
<1>4. CASE class # "any"
  BY <1>1, <1>2, <1>4 DEF Logs, Classes, AuditTypes
<1>5. QED
  BY <1>3, <1>4

(* A request that logs its event claims nothing more, and no other step    *)
(* but the commit makes a claim.                                           *)
LEMMA ClaimsStep ==
  ASSUME IInv, TypeOK', AuditShapes, NEW r \in Requests, Step(r),
         ~CommitAndPublish(r), NEW u \in Users, NEW class \in Classes
  PROVE  Claims(u, class)' <= Claims(u, class)
<1> DEFINE P == Pending(u, class)
           Q == Pending(u, class)'
<1>1. Q \subseteq P \ {r}
  BY PendingStep
<1>2. /\ IsFiniteSet(P) /\ Cardinality(P) \in Nat
      /\ IsFiniteSet(Q) /\ Cardinality(Q) \in Nat
      /\ Logs(u, class) \in Nat /\ Logs(u, class)' \in Nat
  BY PendingCounts, LogsCount, FinitenessAssumption DEF IInv
<1>3. /\ IsFiniteSet(P \ {r})
      /\ Cardinality(P \ {r}) = IF r \in P THEN Cardinality(P) - 1
                                ELSE Cardinality(P)
  BY <1>2, FS_RemoveElement
<1>4. Cardinality(Q) <= Cardinality(P \ {r})
  BY <1>1, <1>3, FS_Subset
<1>5. CASE UNCHANGED audit
  <2>1. Logs(u, class)' = Logs(u, class)
    BY <1>5 DEF Logs
  <2>2. QED
    BY <1>2, <1>3, <1>4, <2>1 DEF Claims
<1>6. CASE /\ At(r, "publish") /\ todo[r] # <<>>
           /\ ~IsNotification(Head(todo[r]))
           /\ audit' = Logged(audit, Head(todo[r]))
  <2>1. Head(todo[r]) \in Events
    BY <1>6 DEF IInv, TypeOK
  <2>2. Logs(u, class)' = IF r \in P THEN Logs(u, class) + 1
                          ELSE Logs(u, class)
    BY <1>6, <2>1, LoggedCounts DEF IInv, Pending
  <2>3. QED
    BY <1>2, <1>3, <1>4, <2>2 DEF Claims
<1>7. QED
  <2>1. \/ UNCHANGED audit
        \/ PublishNext(r) \/ PushFails(r) \/ Respond(r)
    BY OutsideStep
  <2>2. QED
    BY <1>5, <1>6, <2>1 DEF PublishNext, PushFails, Respond

(* The facts, one class after the other.                                   *)
LEMMA FactsOf ==
  ASSUME NEW u \in Users
  PROVE  /\ Row(u) = NoRow => \A class \in Classes : Facts(u, class) = 0
         /\ Row(u) # NoRow =>
              /\ Facts(u, "UserCreated") = 1
              /\ Facts(u, "UserEmailVerified") =
                   IF Row(u).data.verified THEN 1 ELSE 0
              /\ Facts(u, "UserPasswordRecovered") = Cardinality(Recoveries(u))
              /\ Facts(u, "any") = Row(u).version
BY DEF Facts

LEMMA FactsOfNext ==
  ASSUME NEW u \in Users
  PROVE  /\ Row(u)' = NoRow => \A class \in Classes : Facts(u, class)' = 0
         /\ Row(u)' # NoRow =>
              /\ Facts(u, "UserCreated")' = 1
              /\ Facts(u, "UserEmailVerified")' =
                   IF Row(u)'.data.verified THEN 1 ELSE 0
              /\ Facts(u, "UserPasswordRecovered")' = Cardinality(Recoveries(u)')
              /\ Facts(u, "any")' = Row(u)'.version
BY DEF Facts

LEMMA FactsCount ==
  ASSUME FinitenessAssumption, NEW u \in Users, NEW class \in Classes
  PROVE  /\ IsFiniteSet(Recoveries(u)) /\ IsFiniteSet(Recoveries(u)')
         /\ Cardinality(Recoveries(u)) \in Nat
         /\ Cardinality(Recoveries(u)') \in Nat
         /\ TypeOK => Facts(u, class) \in Nat
         /\ TypeOK' => Facts(u, class)' \in Nat
<1>1. Recoveries(u) \subseteq Tokens /\ Recoveries(u)' \subseteq Tokens
  BY DEF Recoveries
<1>2. /\ IsFiniteSet(Recoveries(u)) /\ IsFiniteSet(Recoveries(u)')
      /\ Cardinality(Recoveries(u)) \in Nat
      /\ Cardinality(Recoveries(u)') \in Nat
  BY <1>1, FS_Subset, FS_CardinalityType DEF FinitenessAssumption
<1>3. /\ TypeOK /\ Row(u) # NoRow => Row(u).version \in Nat
      /\ TypeOK' /\ Row(u)' # NoRow => Row(u)'.version \in Nat
  BY RowFields DEF TypeOK, Row
<1>4. TypeOK => Facts(u, class) \in Nat
  BY <1>2, <1>3, FactsOf DEF Classes
<1>5. TypeOK' => Facts(u, class)' \in Nat
  BY <1>2, <1>3, FactsOfNext DEF Classes
<1>6. QED
  BY <1>2, <1>4, <1>5

(* What the tables show is never taken back.                               *)
LEMMA FactsGrow ==
  ASSUME TypeOK, TypeOK', TablesGrow, FinitenessAssumption,
         NEW u \in Users, NEW class \in Classes
  PROVE  /\ Facts(u, class) <= Facts(u, class)'
         /\ Recoveries(u) \subseteq Recoveries(u)'
<1>1. /\ Facts(u, class) \in Nat /\ Facts(u, class)' \in Nat
      /\ IsFiniteSet(Recoveries(u)')
  BY FactsCount, FinitenessAssumption
<1>2. Recoveries(u) \subseteq Recoveries(u)'
  <2> SUFFICES ASSUME NEW t \in Recoveries(u) PROVE t \in Recoveries(u)'
    OBVIOUS
  <2>1. t \in Tokens /\ OttGrown(Ott(t), Ott(t)')
    BY DEF TablesGrow, Recoveries
  <2>2. QED
    BY <2>1 DEF Recoveries, OttGrown
<1>3. Cardinality(Recoveries(u)) <= Cardinality(Recoveries(u)')
  BY <1>1, <1>2, FS_Subset
<1>4. CASE Row(u) = NoRow
  <2>1. Facts(u, class) = 0
    BY <1>4, FactsOf
  <2>2. QED
    BY <1>1, <1>2, <2>1
<1>5. CASE Row(u) # NoRow
  <2>1. UserGrown(Row(u), Row(u)') /\ Row(u)' # NoRow
    BY <1>5 DEF TablesGrow, UserGrown
  <2>2. /\ Row(u).version \in Nat /\ Row(u)'.version \in Nat
        /\ Row(u).version <= Row(u)'.version
        /\ Row(u).data.verified => Row(u)'.data.verified
    BY <1>5, <2>1, RowFields DEF TypeOK, Row, UserGrown
  <2>3. \A c \in Classes : c = class => Facts(u, c) <= Facts(u, c)'
    BY <1>3, <1>5, <2>1, <2>2, FactsOf, FactsOfNext DEF Classes
  <2>4. QED
    BY <1>2, <2>3
<1>6. QED
  BY <1>4, <1>5

(* A commit brings the fact that its event is going to tell.               *)
LEMMA CommitBringsFact ==
  ASSUME IInv, AuditShapes, TypeOK', TablesGrow, FinitenessAssumption,
         NEW r \in Requests, At(r, "commit"), Commit(r), todo[r] # <<>>,
         NEW u \in Users, u = user[r],
         NEW class \in Classes, Head(todo[r]).type \in TypesOf(class)
  PROVE  Facts(u, class) + 1 <= Facts(u, class)'
<1> USE DEF IInv
<1>0. PICK t : t = token[r]
  OBVIOUS
<1>1. /\ Decided(r) /\ Shape(r)
      /\ Head(todo[r]) = todo[r][1] /\ todo[r] \in Seq(Events)
  BY Heads DEF Decided, At, RequestShapes, TypeOK
<1>2. Row(u) = seenUser[r] /\ Row(u)' = NewUserRow(r)
  BY CommitEffects DEF Row
<1>3. /\ NewUserRow(r) # NoRow /\ NewUserRow(r).data = UserEntity(r)
      /\ NewUserRow(r).version = IF seenUser[r] = NoRow THEN 1
                                 ELSE seenUser[r].version + 1
  BY <1>1, NewRowsGrown, RowFields DEF NewUserRow
<1>4. Row(u)' # NoRow
  BY <1>2, <1>3
<1>5. CASE class = "UserCreated"
  <2>1. seenUser[r] = NoRow
    BY <1>1, <1>5 DEF AuditShapes, AuditShape, TypesOf, Creates
  <2>2. QED
    BY <1>2, <1>4, <1>5, <2>1, FactsOf, FactsOfNext
<1>6. CASE class = "UserEmailVerified"
  <2>1. Op(r) = "verify_email"
    BY <1>1, <1>6 DEF AuditShapes, AuditShape, TypesOf
  <2>2. seenUser[r] # NoRow /\ ~Stored(r).verified
    BY <1>1, <2>1 DEF Shape, ReadShape, DecisionShape
  <2>3. UserEntity(r).verified
    BY <2>1, <2>2 DEF UserEntity
  <2>4. QED
    BY <1>2, <1>3, <1>4, <1>6, <2>2, <2>3, FactsOf, FactsOfNext DEF Stored
<1>7. CASE class = "UserPasswordRecovered"
  <2>1. Op(r) = "recover" /\ UsesToken(r)
    BY <1>1, <1>7 DEF AuditShapes, AuditShape, TypesOf, UsesToken, TokenOps
  <2>2. /\ seenUser[r] # NoRow /\ seenToken[r] # NoRow
        /\ ~seenToken[r].data.used /\ u = seenToken[r].data.user
        /\ seenToken[r].data.purpose = RECOVER_PASSWORD
    BY <1>1, <2>1 DEF Shape, ReadShape, DecisionShape
  <2>3. /\ t \in Tokens /\ Ott(t) = seenToken[r] /\ Ott(t)' = NewOttRow(r)
    BY <1>0, <2>1, CommitEffects DEF Ott
  <2>4. NewOttRow(r) # NoRow /\ OttGrown(seenToken[r], NewOttRow(r))
    BY <2>2, <2>3 DEF TablesGrow, OttGrown
  <2>5. NewOttRow(r).data.used
    BY <2>2, RowFields DEF NewOttRow, OttEntity, TypeOK, OttData
  <2>6. t \notin Recoveries(u) /\ t \in Recoveries(u)'
    BY <2>2, <2>3, <2>4, <2>5 DEF Recoveries, OttGrown
  <2>7. Recoveries(u) \union {t} \subseteq Recoveries(u)'
    BY <2>6, FactsGrow
  <2>8. Cardinality(Recoveries(u)) + 1 <= Cardinality(Recoveries(u)')
    <3>1. /\ IsFiniteSet(Recoveries(u)) /\ IsFiniteSet(Recoveries(u)')
          /\ Cardinality(Recoveries(u)) \in Nat
      BY FactsCount, FinitenessAssumption
    <3>2. Cardinality(Recoveries(u) \union {t}) = Cardinality(Recoveries(u)) + 1
      BY <2>6, <3>1, FS_AddElement
    <3>3. QED
      BY <2>7, <3>1, <3>2, FS_Subset
  <2>9. QED
    BY <1>2, <1>4, <1>7, <2>2, <2>8, FactsOf, FactsOfNext
<1>8. CASE class = "any"
  <2>1. seenUser[r] # NoRow => seenUser[r].version \in Nat
    BY RowFields DEF TypeOK
  <2>2. QED
    BY <1>2, <1>3, <1>4, <1>8, <2>1, FactsOf, FactsOfNext
<1>9. QED
  BY <1>5, <1>6, <1>7, <1>8 DEF Classes

LEMMA ClaimsBackedStep ==
  IInv /\ TypeOK' /\ AuditShapes /\ ClaimsBacked /\ [Next]_vars
    => ClaimsBacked'
<1> SUFFICES ASSUME IInv, TypeOK', AuditShapes, ClaimsBacked, [Next]_vars,
                    NEW u \in Users, NEW class \in Classes
             PROVE  Claims(u, class)' <= Facts(u, class)'
  BY DEF ClaimsBacked
<1> DEFINE P == Pending(u, class)
           Q == Pending(u, class)'
<1>1. TypeOK /\ TablesGrow
  BY StepsGrow DEF IInv
<1>2. /\ IsFiniteSet(P) /\ Cardinality(P) \in Nat
      /\ IsFiniteSet(Q) /\ Cardinality(Q) \in Nat
      /\ Logs(u, class) \in Nat /\ Logs(u, class)' \in Nat
      /\ Facts(u, class) \in Nat /\ Facts(u, class)' \in Nat
  BY <1>1, PendingCounts, LogsCount, FactsCount, FinitenessAssumption
<1>3. Claims(u, class) \in Nat /\ Claims(u, class)' \in Nat
  BY <1>2 DEF Claims
<1>4. /\ Claims(u, class) <= Facts(u, class)
      /\ Facts(u, class) <= Facts(u, class)'
  BY <1>1, FactsGrow, FinitenessAssumption DEF ClaimsBacked
<1>5. SUFFICES \/ Claims(u, class)' <= Claims(u, class)
               \/ /\ Claims(u, class)' <= Claims(u, class) + 1
                  /\ Facts(u, class) + 1 <= Facts(u, class)'
  BY <1>2, <1>3, <1>4
<1>6. ASSUME Q \subseteq P, UNCHANGED audit
      PROVE  Claims(u, class)' <= Claims(u, class)
  <2>1. Cardinality(Q) <= Cardinality(P)
    BY <1>2, <1>6, FS_Subset
  <2>2. Logs(u, class)' = Logs(u, class)
    BY <1>6 DEF Logs
  <2>3. QED
    BY <1>2, <2>1, <2>2 DEF Claims
<1>7. ASSUME NEW r \in Requests, Step(r), CommitAndPublish(r)
      PROVE  \/ Claims(u, class)' <= Claims(u, class)
             \/ /\ Claims(u, class)' <= Claims(u, class) + 1
                /\ Facts(u, class) + 1 <= Facts(u, class)'
  <2>1. /\ At(r, "commit") /\ Commit(r) /\ todo'[r] = todo[r]
        /\ UNCHANGED audit
    BY <1>7 DEF CommitAndPublish
  <2>2. Q \subseteq P \union {r} /\ r \notin P
    BY <1>7, <2>1, PendingStep DEF Pending, At
  <2>3. CASE r \notin Q
    BY <1>6, <2>1, <2>2, <2>3
  <2>4. CASE r \in Q
    <3>1. todo[r] # <<>> /\ Head(todo[r]).user = u
          /\ Head(todo[r]).type \in TypesOf(class)
      BY <2>1, <2>4 DEF Pending
    <3>2. u = user[r]
      BY <3>1, Heads DEF IInv, TypeOK, AuditShapes, AuditShape
    <3>3. Facts(u, class) + 1 <= Facts(u, class)'
      BY <1>1, <2>1, <3>1, <3>2, CommitBringsFact, FinitenessAssumption
    <3>4. Cardinality(P \union {r}) = Cardinality(P) + 1
          /\ IsFiniteSet(P \union {r})
      BY <1>2, <2>2, FS_AddElement
    <3>5. Cardinality(Q) <= Cardinality(P) + 1
      BY <2>2, <3>4, FS_Subset
    <3>6. Logs(u, class)' = Logs(u, class)
      BY <2>1 DEF Logs
    <3>7. QED
      BY <1>2, <3>3, <3>5, <3>6 DEF Claims
  <2>5. QED
    BY <2>3, <2>4
<1>8. CASE Crash
  BY <1>6, <1>8 DEF Crash, Forget, Pending, At
<1>9. CASE Deliver \/ Tick \/ UNCHANGED vars
  <2>1. UNCHANGED <<pc, todo, audit>>
    BY <1>9 DEF Deliver, Tick, vars, requestVars
  <2>2. QED
    BY <1>6, <2>1 DEF Pending, At
<1>10. QED
  BY <1>7, <1>8, <1>9, ClaimsStep DEF Next, Step

LEMMA InitClaims == Init => AuditShapes /\ ClaimsBacked
<1> SUFFICES ASSUME Init PROVE AuditShapes /\ ClaimsBacked
  OBVIOUS
<1>1. AuditShapes
  BY DEF Init, AuditShapes, AuditShape
<1>2. ASSUME NEW u \in Users, NEW class \in Classes
      PROVE  Claims(u, class) <= Facts(u, class)
  <2>1. Facts(u, class) \in Nat
    BY FactsCount, InitTypes, FinitenessAssumption
  <2>2. Logs(u, class) = 0
    <3>1. \A type \in AuditTypes : audit[u][type] = 0
      BY DEF Init
    <3>2. CASE class = "any"
      BY <3>1, <3>2 DEF Logs, AuditTypes
    <3>3. CASE class # "any"
      BY <3>1, <3>3 DEF Logs, Classes, AuditTypes
    <3>4. QED
      BY <3>2, <3>3
  <2>3. Pending(u, class) = {}
    BY DEF Init, Pending, At
  <2>4. Claims(u, class) = 0
    BY <2>2, <2>3, FS_EmptySet DEF Claims
  <2>5. QED
    BY <2>1, <2>4
<1>3. QED
  BY <1>1, <1>2 DEF ClaimsBacked

(* The audit log never says more than the tables, whatever fails, repeats  *)
(* or is lost between a commit and its entry.  (register.py:69-77,         *)
(* event_publisher.py:26-41)                                               *)
THEOREM AuditIsFactual == Spec => []AuditWithinFacts
<1>1. Init => IInv /\ AuditShapes /\ ClaimsBacked
  BY InitInvariant, InitClaims
<1>2. AuditShapes /\ ClaimsBacked /\ IInv /\ IInv' /\ [Next]_vars
        => AuditShapes' /\ ClaimsBacked'
  BY AuditShapesStep, ClaimsBackedStep DEF IInv
<1>3. IInv /\ ClaimsBacked => AuditWithinFacts
  <2> SUFFICES ASSUME IInv, ClaimsBacked, NEW u \in Users
               PROVE  /\ Row(u) = NoRow =>
                           \A type \in AuditTypes : audit[u][type] = 0
                      /\ Row(u) # NoRow =>
                           /\ audit[u]["UserCreated"] <= 1
                           /\ audit[u]["UserEmailVerified"] <=
                                IF Row(u).data.verified THEN 1 ELSE 0
                           /\ audit[u]["UserPasswordRecovered"] <=
                                Cardinality(Recoveries(u))
                           /\ Logs(u, "any") <= Row(u).version
    BY DEF AuditWithinFacts, Recoveries, Logs
  <2>1. \A class \in Classes :
          /\ Logs(u, class) \in Nat /\ Facts(u, class) \in Nat
          /\ Cardinality(Pending(u, class)) \in Nat
          /\ Claims(u, class) <= Facts(u, class)
    BY LogsCount, FactsCount, PendingCounts, FinitenessAssumption
    DEF IInv, ClaimsBacked
  <2>2. \A class \in Classes : Logs(u, class) <= Facts(u, class)
    BY <2>1 DEF Claims
  <2>3. \A type \in AuditTypes : audit[u][type] \in Nat
    BY DEF IInv, TypeOK
  <2>4. CASE Row(u) = NoRow
    <3>1. "any" \in Classes /\ Facts(u, "any") = 0
      BY <2>4, FactsOf DEF Classes
    <3>2. Logs(u, "any") = 0
      BY <2>1, <2>2, <3>1
    <3>3. /\ audit[u]["UserCreated"] \in Nat
          /\ audit[u]["UserEmailVerified"] \in Nat
          /\ audit[u]["UserPasswordRecovered"] \in Nat
          /\ audit[u]["UserPasswordChanged"] \in Nat
      BY <2>3 DEF AuditTypes
    <3>4. /\ audit[u]["UserCreated"] = 0
          /\ audit[u]["UserEmailVerified"] = 0
          /\ audit[u]["UserPasswordRecovered"] = 0
          /\ audit[u]["UserPasswordChanged"] = 0
      <4>1. audit[u]["UserCreated"] + audit[u]["UserEmailVerified"]
              + audit[u]["UserPasswordRecovered"]
              + audit[u]["UserPasswordChanged"] = 0
        BY <3>2 DEF Logs
      <4>2. \A a, b, c, d \in Nat :
              a + b + c + d = 0 => a = 0 /\ b = 0 /\ c = 0 /\ d = 0
        OBVIOUS
      <4>3. QED
        BY <3>3, <4>1, <4>2
    <3>5. QED
      BY <2>4, <3>4 DEF AuditTypes
  <2>5. CASE Row(u) # NoRow
    BY <2>2, <2>5, FactsOf DEF Logs, Classes
  <2>6. QED
    BY <2>4, <2>5
<1>4. QED
  BY <1>1, <1>2, <1>3, Invariant, PTL DEF Spec

-----------------------------------------------------------------------------
(* What Accounts promises holds of the committed rows                      *)

AccountTheorems ==
  INSTANCE AccountsProofs WITH Emails <- Addresses, Passwords <- Words,
                               account <- AccountView, ott <- OttView

LEMMA AccountConstants == AccountTheorems!AccountsAssumption
  BY LifecycleAssumption
  DEF AccountTheorems!AccountsAssumption, AccountTheorems!AccountData,
      AccountTheorems!OttData, AccountTheorems!PastAccounts,
      AccountTheorems!Purposes, AccountTheorems!VERIFY_EMAIL,
      AccountTheorems!RECOVER_PASSWORD, UserData, Purposes, VERIFY_EMAIL,
      RECOVER_PASSWORD

LEMMA FollowsAccounts == Spec => AccountTheorems!Spec
<1>1. A!Init => AccountTheorems!Init
  BY DEF A!Init, AccountTheorems!Init, A!VERIFY_EMAIL,
         AccountTheorems!VERIFY_EMAIL
<1>2. [A!Next]_<<AccountView, OttView>>
        => [AccountTheorems!Next]_<<AccountView, OttView>>
  BY DEF A!Next, A!Register, A!Reissue, A!Verify, A!RequestRecovery,
         A!Recover, A!Change, A!Has, A!EmailTaken, A!NewAccount, A!Issue,
         A!Use, A!VERIFY_EMAIL, A!RECOVER_PASSWORD,
         AccountTheorems!Next, AccountTheorems!Register,
         AccountTheorems!Reissue, AccountTheorems!Verify,
         AccountTheorems!RequestRecovery, AccountTheorems!Recover,
         AccountTheorems!Change, AccountTheorems!Has,
         AccountTheorems!EmailTaken, AccountTheorems!NewAccount,
         AccountTheorems!Issue, AccountTheorems!Use,
         AccountTheorems!VERIFY_EMAIL, AccountTheorems!RECOVER_PASSWORD
<1>3. QED
  BY Refinement, <1>1, <1>2, PTL
  DEF ImplementsAccounts, A!Spec, A!accountsVars, AccountTheorems!Spec,
      AccountTheorems!accountsVars

(* However many registrations are under way at once, no two committed      *)
(* accounts share an email.  (register.py:53-74, models/user.py:19)        *)
THEOREM StoredEmailsUnique == Spec => []A!UniqueEmail
<1>1. AccountTheorems!Spec => []AccountTheorems!UniqueEmail
  BY AccountConstants, AccountTheorems!EmailsUnique
<1>2. AccountTheorems!UniqueEmail => A!UniqueEmail
  BY DEF AccountTheorems!UniqueEmail, A!UniqueEmail,
         AccountTheorems!Has, A!Has
<1>3. QED
  BY FollowsAccounts, <1>1, <1>2, PTL

(* A committed account is verified exactly when one of its verification    *)
(* tokens is marked used, and never two: not by requests that use two of   *)
(* them at the same time either.  (verify_email.py:59-69)                  *)
THEOREM StoredVerifiedOnce == Spec => []A!VerifiedByOneToken
<1>1. AccountTheorems!Spec => []AccountTheorems!VerifiedByOneToken
  BY AccountConstants, AccountTheorems!OneTokenVerifies
<1>2. AccountTheorems!VerifiedByOneToken => A!VerifiedByOneToken
  BY DEF AccountTheorems!VerifiedByOneToken, A!VerifiedByOneToken,
         AccountTheorems!UsedFor, A!UsedFor, AccountTheorems!VERIFY_EMAIL,
         A!VERIFY_EMAIL, AccountTheorems!Has, A!Has
<1>3. QED
  BY FollowsAccounts, <1>1, <1>2, PTL

(* A recovery token that has been committed is of a verified account.      *)
(* (password_recover_request.py:55-71, user.py:105-115)                    *)
THEOREM StoredRecoveriesVerified == Spec => []A!RecoveryNeedsVerification
<1>1. AccountTheorems!Spec => []AccountTheorems!RecoveryNeedsVerification
  BY AccountConstants, AccountTheorems!RecoveriesVerified
<1>2. AccountTheorems!RecoveryNeedsVerification => A!RecoveryNeedsVerification
  BY DEF AccountTheorems!RecoveryNeedsVerification,
         A!RecoveryNeedsVerification, AccountTheorems!RECOVER_PASSWORD,
         A!RECOVER_PASSWORD
<1>3. QED
  BY FollowsAccounts, <1>1, <1>2, PTL

(* The committed password of an account is the one it was registered with  *)
(* until the account is verified, and no commit takes a verification back, *)
(* although an UPDATE writes the whole row as its request has read it.     *)
(* (user.py:84-186, repositories/user.py:61-84)                            *)
THEOREM StoredPasswordsSettled == Spec => A!PasswordSettledUntilVerified
<1>1. AccountTheorems!Spec => AccountTheorems!PasswordSettledUntilVerified
  BY AccountConstants, AccountTheorems!PasswordsSettled
<1>2. AccountTheorems!PasswordSettledUntilVerified
        => A!PasswordSettledUntilVerified
  BY PTL
  DEF AccountTheorems!PasswordSettledUntilVerified,
      A!PasswordSettledUntilVerified, AccountTheorems!Has, A!Has,
      AccountTheorems!accountsVars, A!accountsVars
<1>3. QED
  BY FollowsAccounts, <1>1, <1>2, PTL

=============================================================================
