--------------------------- MODULE AccountLifecycle ---------------------------
(***************************************************************************)
(* The requests on accounts: register, verify_email, login, change the     *)
(* password, ask for a recovery token and use it.  Each use case is a      *)
(* chain of awaits that interleaves with the other requests, over the      *)
(* tables users and one_time_tokens, the audit log and the notifications   *)
(* that carry one-time tokens to their users.                              *)
(*                                                                         *)
(* An email is sent in its normal spelling (stripped, lower case) or not,  *)
(* a password with blanks around it or without; the rows hold the normal   *)
(* address and the hash of the stripped password, which is here the word   *)
(* itself.  users.active is left out: no use case changes it.  The refresh *)
(* token that a login inserts is in RefreshSessions.                       *)
(***************************************************************************)
EXTENDS Naturals, Sequences, FiniteSets

CONSTANTS Users, Tokens, Requests,
          NoUser, NoToken, NoRequest, NoRow,
          Addresses,       \* email addresses, in the normal spelling
          Words,           \* stripped passwords
          Weak,            \* those that validate_password rejects
          Spellings,       \* is an email sent in its normal spelling?
          Paddings,        \* has a password blanks around it?
          Past,            \* accounts verified before, see Accounts
          Lifetime,        \* Lifetime[purpose] of a one-time token, in ticks
          AccessLifetime,  \* ACCESS_TOKEN_EXPIRY in ticks
          MaxTime,         \* bound on the clock
          MaxArrivals      \* bound on the number of requests

VERIFY_EMAIL == "verify_email"
RECOVER_PASSWORD == "recover_password"
Purposes == {VERIFY_EMAIL, RECOVER_PASSWORD}

UserData == [email : Addresses, password : Words, verified : BOOLEAN]
UserRows == [version : Nat \ {0}, data : UserData]
OttData == [user : Users, purpose : Purposes, expires : Nat, used : BOOLEAN]
OttRows == [version : Nat \ {0}, data : OttData]

(* What the client sends.                                                  *)
RawEmails == [address : Addresses, normal : Spellings]
RawPasswords == [word : Words, padded : Paddings]

EmailOps == {"register", "recover_request", "login"}
TokenOps == {"verify_email", "recover"}
Ops == EmailOps \union TokenOps \union {"change_password"}

(* secret: the password to check; password: the one to set.  The tokens    *)
(* that come with an input are chosen by the actions.                      *)
Inputs ==
       [op : {"register"}, email : RawEmails, password : RawPasswords]
  \union [op : {"recover_request"}, email : RawEmails]
  \union [op : {"login"}, email : RawEmails, secret : RawPasswords]
  \union [op : {"change_password"}, secret : RawPasswords,
          password : RawPasswords]
  \union [op : {"verify_email"}]
  \union [op : {"recover"}, password : RawPasswords]

ASSUME LifecycleAssumption ==
  /\ NoUser \notin Users /\ NoToken \notin Tokens
  /\ NoRequest \notin Requests
  /\ NoRow \notin UserRows \union OttRows \union Inputs
  /\ NoRow \notin UserData
  /\ NoRow \notin [user : Users, purpose : Purposes, used : BOOLEAN]
  /\ Weak \subseteq Words
  /\ Spellings \subseteq BOOLEAN /\ Paddings \subseteq BOOLEAN
  /\ Past \subseteq [user : Users, token : Tokens, email : Addresses,
                     password : Words]
  /\ \A p, q \in Past :
       p.user = q.user \/ p.token = q.token \/ p.email = q.email => p = q
  /\ Lifetime \in [Purposes -> Nat]
  /\ AccessLifetime \in Nat /\ MaxTime \in Nat /\ MaxArrivals \in Nat

ASSUME FinitenessAssumption == IsFiniteSet(Requests) /\ IsFiniteSet(Tokens)

VARIABLES
  userTable, userDraft, userHolder,   \* table users
  ottTable, ottDraft, ottHolder,      \* table one_time_tokens
  now,            \* utc_now()
  pc,             \* where the request's use case is waiting
  input,          \* what the client sent
  user,           \* the key of the user the use case is about
  seenUser,       \* the row of that user as it was read, NoRow: a new user
  token,          \* the key of the one-time token used or made
  seenToken,      \* the row of that token as it was read, NoRow: a new one
  expires,        \* expiry of the one-time or access token that was made
  todo,           \* events, those still to be published
  outcome,        \* how the use case ended
  notifications,  \* InMemoryNotificationQueue: the tokens in its events
  mailbox,        \* the tokens their users have received
  access,         \* until when the newest access token of a user is good
  audit,          \* audit[u][type]: the entries about u in auth:events
  arrivals        \* bound: requests so far

userVars == <<userTable, userDraft, userHolder>>
ottVars == <<ottTable, ottDraft, ottHolder>>
dbVars == <<userVars, ottVars>>
localVars == <<input, user, seenUser, token, seenToken, expires>>
requestVars == <<pc, localVars, todo, outcome>>
clientVars == <<mailbox, access, arrivals>>
vars == <<dbVars, now, requestVars, notifications, clientVars, audit>>

U == INSTANCE Table WITH
       Ids <- Users, Txns <- Requests, NoTxn <- NoRequest,
       table <- userTable, draft <- userDraft, holder <- userHolder
O == INSTANCE Table WITH
       Ids <- Tokens, Txns <- Requests, NoTxn <- NoRequest,
       table <- ottTable, draft <- ottDraft, holder <- ottHolder

Steps == {"idle", "load_user", "decide", "save_user", "save_token", "commit",
          "publish", "respond"}

BaseErrors == {"UserNotFound", "OneTimeTokenNotFound", "UserAlreadyExists",
               "PasswordValidationError", "UserError", "TokenError",
               "AccessTokenExpired", "ConcurrencyError"}
(* IntegrityError is SQLAlchemy's, "ServerError" any other exception.      *)
Outcomes == {"none", "ok", "IntegrityError", "ServerError"} \union BaseErrors

AuditTypes == {"UserCreated", "UserEmailVerified", "UserPasswordChanged",
               "UserPasswordRecovered"}
NotificationTypes == {"UserEmailVerificationRequested",
                      "UserPasswordRecoverRequested"}
EventTypes == AuditTypes \union NotificationTypes

-----------------------------------------------------------------------------

PastUser(u) == CHOOSE p \in Past : p.user = u
PastToken(t) == CHOOSE p \in Past : p.token = t

Init ==
  /\ U!TableInit([u \in Users |->
       IF \E p \in Past : p.user = u
       THEN [version |-> 2,
             data |-> [email |-> PastUser(u).email,
                       password |-> PastUser(u).password, verified |-> TRUE]]
       ELSE NoRow])
  /\ O!TableInit([t \in Tokens |->
       IF \E p \in Past : p.token = t
       THEN [version |-> 2,
             data |-> [user |-> PastToken(t).user, purpose |-> VERIFY_EMAIL,
                       expires |-> 0, used |-> TRUE]]
       ELSE NoRow])
  /\ now = 0
  /\ pc = [r \in Requests |-> "idle"]
  /\ input = [r \in Requests |-> NoRow]
  /\ user = [r \in Requests |-> NoUser]
  /\ seenUser = [r \in Requests |-> NoRow]
  /\ token = [r \in Requests |-> NoToken]
  /\ seenToken = [r \in Requests |-> NoRow]
  /\ expires = [r \in Requests |-> 0]
  /\ todo = [r \in Requests |-> <<>>]
  /\ outcome = [r \in Requests |-> "none"]
  /\ notifications = {}
  /\ mailbox = {p.token : p \in Past}
  /\ access = [u \in Users |-> 0]
  /\ audit = [u \in Users |-> [type \in AuditTypes |-> 0]]
  /\ arrivals = 0

At(r, step) == pc[r] = step
Goto(r, step) == pc' = [pc EXCEPT ![r] = step]
Op(r) == input[r].op

(* The use case returns or raises.                                         *)
Answer(r, out) ==
  /\ Goto(r, "respond")
  /\ outcome' = [outcome EXCEPT ![r] = out]
  /\ todo' = [todo EXCEPT ![r] = <<>>]

(* SQLAlchemyTransaction.__aexit__, with and without an exception          *)
Rollback(r) == U!Rollback(r) /\ O!Rollback(r)
Commit(r) == U!Commit(r) /\ O!Commit(r)

(* No other request has or is about to insert the key.                     *)
FreshUser(u) == userTable[u] = NoRow /\ \A r \in Requests : user[r] # u
FreshToken(t) == ottTable[t] = NoRow /\ \A r \in Requests : token[r] # t

(* Bound: a request that may need keys starts only while some are left.    *)
Deciding(ops) == {r \in Requests : At(r, "decide") /\ Op(r) \in ops}
Room(op) ==
  /\ op \in {"register", "recover_request"} =>
       Cardinality({t \in Tokens : FreshToken(t)}) >
       Cardinality(Deciding({"register", "recover_request"}))
  /\ op = "register" =>
       Cardinality({u \in Users : FreshUser(u)}) >
       Cardinality(Deciding({"register"}))

Arrive(r, in) ==
  /\ At(r, "idle")
  /\ arrivals < MaxArrivals
  /\ Room(in.op)
  /\ arrivals' = arrivals + 1
  /\ input' = [input EXCEPT ![r] = in]

-----------------------------------------------------------------------------
(* The reads                                                               *)

(* WHERE email = :email, with the email as it was sent.                    *)
FoundByEmail(r, email, u) ==
  /\ U!Visible(r, u) # NoRow
  /\ email.normal
  /\ U!Visible(r, u).data.email = email.address

SelectByEmail(r, in, u) ==
  /\ in.op \in EmailOps
  /\ Arrive(r, in)
  /\ FoundByEmail(r, in.email, u)
  /\ user' = [user EXCEPT ![r] = u]
  /\ seenUser' = [seenUser EXCEPT ![r] = U!Visible(r, u)]
  /\ Goto(r, "decide")
  /\ UNCHANGED <<dbVars, now, token, seenToken, expires, todo, outcome,
                 notifications, mailbox, access, audit>>

(* Only a registration goes on.                                            *)
EmailNotFound(r, in) ==
  /\ in.op \in EmailOps
  /\ Arrive(r, in)
  /\ \A u \in Users : ~FoundByEmail(r, in.email, u)
  /\ IF in.op = "register"
     THEN Goto(r, "decide") /\ UNCHANGED <<todo, outcome>>
     ELSE Answer(r, "UserNotFound")
  /\ UNCHANGED <<dbVars, now, user, seenUser, token, seenToken, expires,
                 notifications, mailbox, access, audit>>

(* AccessTokenVerifier.verify, then get_by_id of its subject.              *)
AccessExpired(r, in) ==
  /\ in.op = "change_password"
  /\ Arrive(r, in)
  /\ Answer(r, "AccessTokenExpired")
  /\ UNCHANGED <<dbVars, now, user, seenUser, token, seenToken, expires,
                 notifications, mailbox, access, audit>>

SelectByAccessToken(r, in, u) ==
  /\ in.op = "change_password"
  /\ Arrive(r, in)
  /\ now < access[u]
  /\ user' = [user EXCEPT ![r] = u]
  /\ seenUser' = [seenUser EXCEPT ![r] = U!Visible(r, u)]
  /\ Goto(r, "decide")
  /\ UNCHANGED <<dbVars, now, token, seenToken, expires, todo, outcome,
                 notifications, mailbox, access, audit>>

TokenNotFound(r, in) ==
  /\ in.op \in TokenOps
  /\ Arrive(r, in)
  /\ Answer(r, "OneTimeTokenNotFound")
  /\ UNCHANGED <<dbVars, now, user, seenUser, token, seenToken, expires,
                 notifications, mailbox, access, audit>>

(* get_by_string                                                           *)
SelectToken(r, in, t) ==
  /\ in.op \in TokenOps
  /\ Arrive(r, in)
  /\ O!Visible(r, t) # NoRow
  /\ token' = [token EXCEPT ![r] = t]
  /\ seenToken' = [seenToken EXCEPT ![r] = O!Visible(r, t)]
  /\ user' = [user EXCEPT ![r] = O!Visible(r, t).data.user]
  /\ Goto(r, "load_user")
  /\ UNCHANGED <<dbVars, now, seenUser, expires, todo, outcome, notifications,
                 mailbox, access, audit>>

(* The user of the token: the entity comes from selectinload or, when the  *)
(* identity map has lost that object, from get_by_id.                      *)
LoadUser(r) ==
  /\ At(r, "load_user")
  /\ seenUser' = [seenUser EXCEPT ![r] = U!Visible(r, user[r])]
  /\ Goto(r, "decide")
  /\ UNCHANGED <<dbVars, now, input, user, token, seenToken, expires, todo,
                 outcome, notifications, clientVars, audit>>

-----------------------------------------------------------------------------
(* The decision, on the rows as they were read                             *)

(* bcrypt compares the password as sent with the stripped one.             *)
Verifies(raw, word) == raw.word = word /\ ~raw.padded

IsUsable(r) == ~seenToken[r].data.used /\ now <= seenToken[r].data.expires

(* OneTimeToken.use refuses the token.                                     *)
Unfit(r, purpose) ==
  seenToken[r].data.purpose # purpose \/ ~IsUsable(r)

Stored(r) == seenUser[r].data

(* The checks in the order of the code: which of them raises, if any.      *)
RefusesRegister(r, out) ==
  /\ Op(r) = "register"
  /\ \/ /\ seenUser[r] # NoRow
        /\ Stored(r).verified
        /\ out = "UserAlreadyExists"
     \/ /\ seenUser[r] = NoRow
        /\ input[r].password.word \in Weak
        /\ out = "PasswordValidationError"

RefusesVerify(r, out) ==
  /\ Op(r) = "verify_email"
  /\ \/ Unfit(r, VERIFY_EMAIL) /\ out = "TokenError"
     \/ ~Unfit(r, VERIFY_EMAIL) /\ Stored(r).verified /\ out = "UserError"

RefusesLogin(r, out) ==
  /\ Op(r) = "login"
  /\ \/ ~Stored(r).verified
     \/ ~Verifies(input[r].secret, Stored(r).password)
  /\ out = "UserError"

RefusesChange(r, out) ==
  /\ Op(r) = "change_password"
  /\ LET refused == \/ ~Verifies(input[r].secret, Stored(r).password)
                    \/ input[r].secret = input[r].password
     IN \/ refused /\ out = "UserError"
        \/ /\ ~refused
           /\ input[r].password.word \in Weak
           /\ out = "PasswordValidationError"

RefusesRequest(r, out) ==
  /\ Op(r) = "recover_request"
  /\ ~Stored(r).verified
  /\ out = "UserError"

RefusesRecover(r, out) ==
  /\ Op(r) = "recover"
  /\ \/ /\ input[r].password.word \in Weak
        /\ out = "PasswordValidationError"
     \/ /\ input[r].password.word \notin Weak
        /\ Unfit(r, RECOVER_PASSWORD)
        /\ out = "TokenError"

Refuses(r, out) ==
  \/ RefusesRegister(r, out)
  \/ RefusesVerify(r, out)
  \/ RefusesLogin(r, out)
  \/ RefusesChange(r, out)
  \/ RefusesRequest(r, out)
  \/ RefusesRecover(r, out)

Refused(r, out) ==
  /\ At(r, "decide")
  /\ Refuses(r, out)
  /\ Rollback(r)
  /\ Answer(r, out)
  /\ UNCHANGED <<now, localVars, notifications, clientVars, audit>>

Accepts(r) ==
  /\ At(r, "decide")
  /\ \A out \in BaseErrors : ~Refuses(r, out)
  /\ Goto(r, "save_user")

Event(type, u, t) == [type |-> type, user |-> u, token |-> t]

(* OneTimeToken.create                                                     *)
MakeToken(r, t, purpose) ==
  /\ FreshToken(t)
  /\ token' = [token EXCEPT ![r] = t]
  /\ expires' = [expires EXCEPT ![r] = now + Lifetime[purpose]]

(* User.create, EmailVerificationService.request_verification              *)
AcceptNewUser(r, u, t) ==
  /\ Accepts(r)
  /\ Op(r) = "register"
  /\ seenUser[r] = NoRow
  /\ FreshUser(u)
  /\ user' = [user EXCEPT ![r] = u]
  /\ MakeToken(r, t, VERIFY_EMAIL)
  /\ todo' = [todo EXCEPT ![r] =
       <<Event("UserCreated", u, NoToken),
         Event("UserEmailVerificationRequested", u, t)>>]
  /\ UNCHANGED <<dbVars, now, input, seenUser, seenToken, outcome,
                 notifications, clientVars, audit>>

(* request_verification for the unverified user, whose password stays the  *)
(* first one; PasswordRecoverService.request_password_recover              *)
AcceptOldUser(r, t) ==
  /\ Accepts(r)
  /\ seenUser[r] # NoRow
  /\ \/ /\ Op(r) = "register"
        /\ MakeToken(r, t, VERIFY_EMAIL)
        /\ todo' = [todo EXCEPT ![r] =
             <<Event("UserEmailVerificationRequested", user[r], t)>>]
     \/ /\ Op(r) = "recover_request"
        /\ MakeToken(r, t, RECOVER_PASSWORD)
        /\ todo' = [todo EXCEPT ![r] =
             <<Event("UserPasswordRecoverRequested", user[r], t)>>]
  /\ UNCHANGED <<dbVars, now, input, user, seenUser, seenToken, outcome,
                 notifications, clientVars, audit>>

EventOf == [verify_email |-> "UserEmailVerified",
            change_password |-> "UserPasswordChanged",
            recover |-> "UserPasswordRecovered"]

(* User.verify_email, change_password, recover_password                    *)
AcceptUpdate(r) ==
  /\ Accepts(r)
  /\ Op(r) \in DOMAIN EventOf
  /\ todo' = [todo EXCEPT ![r] = <<Event(EventOf[Op(r)], user[r], NoToken)>>]
  /\ UNCHANGED <<dbVars, now, localVars, outcome, notifications, clientVars,
                 audit>>

(* AccessTokenIssuer.issue                                                 *)
AcceptLogin(r) ==
  /\ Accepts(r)
  /\ Op(r) = "login"
  /\ expires' = [expires EXCEPT ![r] = now + AccessLifetime]
  /\ UNCHANGED <<dbVars, now, input, user, seenUser, token, seenToken, todo,
                 outcome, notifications, clientVars, audit>>

-----------------------------------------------------------------------------
(* The writes                                                              *)

(* The entity User after the decision.                                     *)
UserEntity(r) ==
  [email |-> IF seenUser[r] = NoRow THEN input[r].email.address
             ELSE Stored(r).email,
   password |-> IF seenUser[r] = NoRow \/ Op(r) \in {"change_password", "recover"}
                THEN input[r].password.word ELSE Stored(r).password,
   verified |-> IF seenUser[r] = NoRow THEN FALSE
                ELSE Stored(r).verified \/ Op(r) = "verify_email"]

(* The entity OneTimeToken after the decision.                             *)
OttEntityOnePurpose(r) ==
  IF seenToken[r] # NoRow
  THEN [seenToken[r].data EXCEPT !.used = TRUE]
  ELSE [user |-> user[r], expires |-> expires[r], used |-> FALSE,
        purpose |-> VERIFY_EMAIL]
OttEntityUnused(r) ==
  IF seenToken[r] # NoRow
  THEN seenToken[r].data
  ELSE [user |-> user[r], expires |-> expires[r], used |-> FALSE,
        purpose |-> IF Op(r) = "register" THEN VERIFY_EMAIL
                    ELSE RECOVER_PASSWORD]
OttEntity(r) ==
  IF seenToken[r] # NoRow
  THEN [seenToken[r].data EXCEPT !.used = TRUE]
  ELSE [user |-> user[r], expires |-> expires[r], used |-> FALSE,
        purpose |-> IF Op(r) = "register" THEN VERIFY_EMAIL
                    ELSE RECOVER_PASSWORD]

(* The unique index on users.email: an INSERT waits for another            *)
(* transaction's uncommitted row with the email, and fails on a committed  *)
(* one.                                                                    *)
EmailWaits(r, e) ==
  \E u \in Users : /\ userHolder[u] \notin {NoRequest, r}
                   /\ userDraft[u] # NoRow
                   /\ userDraft[u].data.email = e
EmailNotTaken(e) == FALSE
EmailTaken(e) ==
  \E u \in Users : userTable[u] # NoRow /\ userTable[u].data.email = e

AfterSaveUser(r) ==
  IF Op(r) \in {"login", "change_password"} THEN "commit" ELSE "save_token"

InsertUser(r) ==
  /\ At(r, "save_user")
  /\ seenUser[r] = NoRow
  /\ LET e == input[r].email.address IN ~EmailWaits(r, e) /\ ~EmailTaken(e)
  /\ U!Insert(r, user[r], UserEntity(r))
  /\ Goto(r, AfterSaveUser(r))
  /\ UNCHANGED <<ottVars, now, localVars, todo, outcome, notifications,
                 clientVars, audit>>

InsertUserFails(r) ==
  /\ At(r, "save_user")
  /\ seenUser[r] = NoRow
  /\ EmailTaken(input[r].email.address)
  /\ Rollback(r)
  /\ Answer(r, "IntegrityError")
  /\ UNCHANGED <<now, localVars, notifications, clientVars, audit>>

UpdateUser(r) ==
  /\ At(r, "save_user")
  /\ seenUser[r] # NoRow
  /\ U!Update(r, user[r], seenUser[r].version, UserEntity(r))
  /\ Goto(r, AfterSaveUser(r))
  /\ UNCHANGED <<ottVars, now, localVars, todo, outcome, notifications,
                 clientVars, audit>>

(* The first write of the transaction conflicts: nothing to roll back.     *)
UpdateUserConflict(r) ==
  /\ At(r, "save_user")
  /\ seenUser[r] # NoRow
  /\ U!Conflict(r, user[r], seenUser[r].version)
  /\ Answer(r, "ConcurrencyError")
  /\ UNCHANGED <<ottVars, now, localVars, notifications, clientVars, audit>>

InsertToken(r) ==
  /\ At(r, "save_token")
  /\ seenToken[r] = NoRow
  /\ O!Insert(r, token[r], OttEntity(r))
  /\ Goto(r, "commit")
  /\ UNCHANGED <<userVars, now, localVars, todo, outcome, notifications,
                 clientVars, audit>>

UpdateToken(r) ==
  /\ At(r, "save_token")
  /\ seenToken[r] # NoRow
  /\ O!Update(r, token[r], seenToken[r].version, OttEntity(r))
  /\ Goto(r, "commit")
  /\ UNCHANGED <<userVars, now, localVars, todo, outcome, notifications,
                 clientVars, audit>>

(* Another recovery has used the token between the two SELECTs.            *)
UpdateTokenConflict(r) ==
  /\ At(r, "save_token")
  /\ seenToken[r] # NoRow
  /\ O!Conflict(r, token[r], seenToken[r].version)
  /\ Rollback(r)
  /\ Answer(r, "ConcurrencyError")
  /\ UNCHANGED <<now, localVars, notifications, clientVars, audit>>

-----------------------------------------------------------------------------
(* The end of the transaction, the events, the response                    *)

CommitAndPublish(r) ==
  /\ At(r, "commit")
  /\ Commit(r)
  /\ Goto(r, "publish")
  /\ UNCHANGED <<now, localVars, todo, outcome, notifications, clientVars,
                 audit>>

(* The connection breaks while the COMMIT is answered.                     *)
CommitUnacknowledged(r) ==
  /\ At(r, "commit")
  /\ Commit(r)
  /\ Answer(r, "ServerError")
  /\ UNCHANGED <<now, localVars, notifications, clientVars, audit>>

(* A statement fails, or the connection breaks before the COMMIT.          *)
DbFailure(r) ==
  /\ pc[r] \in {"load_user", "save_user", "save_token", "commit"}
  /\ Rollback(r)
  /\ Answer(r, "ServerError")
  /\ UNCHANGED <<now, localVars, notifications, clientVars, audit>>

(* EventPublisher.publish: a NotificationEvent goes to the list of the     *)
(* process, any other event to the audit log.                              *)
IsNotification(event) == event.type \in NotificationTypes

Logged(log, event) ==
  [log EXCEPT ![event.user] = [log[event.user] EXCEPT ![event.type] = @ + 1]]

PublishNext(r) ==
  /\ At(r, "publish")
  /\ todo[r] # <<>>
  /\ LET event == Head(todo[r]) IN
       IF IsNotification(event)
       THEN /\ notifications' = notifications \union {event.token}
            /\ UNCHANGED audit
       ELSE /\ audit' = Logged(audit, event)
            /\ UNCHANGED notifications
  /\ todo' = [todo EXCEPT ![r] = Tail(@)]
  /\ UNCHANGED <<dbVars, now, pc, localVars, outcome, clientVars>>

(* RPUSH fails, before or after Redis has appended the event.              *)
PushFails(r) ==
  /\ At(r, "publish")
  /\ todo[r] # <<>>
  /\ ~IsNotification(Head(todo[r]))
  /\ audit' \in {audit, Logged(audit, Head(todo[r]))}
  /\ Answer(r, "ServerError")
  /\ UNCHANGED <<dbVars, now, localVars, notifications, clientVars>>

Published(r) ==
  /\ At(r, "publish")
  /\ todo[r] = <<>>
  /\ Answer(r, "ok")
  /\ UNCHANGED <<dbVars, now, localVars, notifications, clientVars, audit>>

(* Everything a request remembers is gone once it is answered.             *)
Forget(rs) ==
  /\ pc' = [r \in Requests |-> IF r \in rs THEN "idle" ELSE pc[r]]
  /\ input' = [r \in Requests |-> IF r \in rs THEN NoRow ELSE input[r]]
  /\ user' = [r \in Requests |-> IF r \in rs THEN NoUser ELSE user[r]]
  /\ seenUser' = [r \in Requests |-> IF r \in rs THEN NoRow ELSE seenUser[r]]
  /\ token' = [r \in Requests |-> IF r \in rs THEN NoToken ELSE token[r]]
  /\ seenToken' = [r \in Requests |-> IF r \in rs THEN NoRow ELSE seenToken[r]]
  /\ expires' = [r \in Requests |-> IF r \in rs THEN 0 ELSE expires[r]]
  /\ todo' = [r \in Requests |-> IF r \in rs THEN <<>> ELSE todo[r]]
  /\ outcome' = [r \in Requests |-> IF r \in rs THEN "none" ELSE outcome[r]]

(* A login gives the client its access token.                              *)
Respond(r) ==
  /\ At(r, "respond")
  /\ access' = IF Op(r) = "login" /\ outcome[r] = "ok" /\ expires[r] > access[user[r]]
               THEN [access EXCEPT ![user[r]] = expires[r]]
               ELSE access
  /\ Forget({r})
  /\ UNCHANGED <<dbVars, now, notifications, mailbox, arrivals, audit>>

(* The client never sees the answer.                                       *)
ResponseLost(r) ==
  /\ At(r, "respond")
  /\ Forget({r})
  /\ UNCHANGED <<dbVars, now, notifications, clientVars, audit>>

(* A mailer takes the notifications to their users.                        *)
Deliver ==
  /\ notifications # {}
  /\ mailbox' = mailbox \union notifications
  /\ notifications' = {}
  /\ UNCHANGED <<dbVars, now, requestVars, access, arrivals, audit>>

(* The server process dies, and with it the list of notifications.         *)
Crash ==
  /\ notifications # {} \/ \E r \in Requests : ~At(r, "idle")
  /\ Forget(Requests)
  /\ U!RollbackAll
  /\ O!RollbackAll
  /\ notifications' = {}
  /\ UNCHANGED <<now, clientVars, audit>>

Tick ==
  /\ now < MaxTime
  /\ now' = now + 1
  /\ UNCHANGED <<dbVars, requestVars, notifications, clientVars, audit>>

Arrives(r) ==
  \E in \in Inputs :
    \/ \E u \in Users : SelectByEmail(r, in, u) \/ SelectByAccessToken(r, in, u)
    \/ EmailNotFound(r, in)
    \/ AccessExpired(r, in)
    \/ TokenNotFound(r, in)
    \/ \E t \in mailbox : SelectToken(r, in, t)

Proceeds(r) ==
  \/ LoadUser(r)
  \/ \E out \in BaseErrors : Refused(r, out)
  \/ \E t \in Tokens :
       AcceptOldUser(r, t) \/ \E u \in Users : AcceptNewUser(r, u, t)
  \/ AcceptUpdate(r)
  \/ AcceptLogin(r)
  \/ InsertToken(r)
  \/ UpdateToken(r) \/ UpdateTokenConflict(r)
  \/ CommitAndPublish(r)
  \/ PublishNext(r)
  \/ Published(r)
  \/ Respond(r)
  \/ ResponseLost(r)

(* The steps that may have to wait for a row lock or the unique index.     *)
Saves(r) ==
  \/ InsertUser(r) \/ InsertUserFails(r)
  \/ UpdateUser(r) \/ UpdateUserConflict(r)

Fails(r) == CommitUnacknowledged(r) \/ DbFailure(r) \/ PushFails(r)

Next ==
  \/ \E r \in Requests : Arrives(r) \/ Proceeds(r) \/ Saves(r) \/ Fails(r)
  \/ Deliver
  \/ Crash
  \/ Tick

Spec == Init /\ [][Next]_vars

(* The event loop runs every ready coroutine, and PostgreSQL grants a row  *)
(* lock to its waiters in turn.                                            *)
Fairness ==
  \A r \in Requests : WF_vars(Proceeds(r)) /\ SF_vars(Saves(r))

FairSpec == Spec /\ Fairness

-----------------------------------------------------------------------------

Events == [type : EventTypes, user : Users, token : Tokens \union {NoToken}]

TypeOK ==
  /\ userTable \in [Users -> UserRows \union {NoRow}]
  /\ userDraft \in [Users -> UserRows \union {NoRow}]
  /\ userHolder \in [Users -> Requests \union {NoRequest}]
  /\ ottTable \in [Tokens -> OttRows \union {NoRow}]
  /\ ottDraft \in [Tokens -> OttRows \union {NoRow}]
  /\ ottHolder \in [Tokens -> Requests \union {NoRequest}]
  /\ now \in Nat
  /\ pc \in [Requests -> Steps]
  /\ input \in [Requests -> Inputs \union {NoRow}]
  /\ user \in [Requests -> Users \union {NoUser}]
  /\ seenUser \in [Requests -> UserRows \union {NoRow}]
  /\ token \in [Requests -> Tokens \union {NoToken}]
  /\ seenToken \in [Requests -> OttRows \union {NoRow}]
  /\ expires \in [Requests -> Nat]
  /\ todo \in [Requests -> Seq(Events)]
  /\ outcome \in [Requests -> Outcomes]
  /\ notifications \subseteq Tokens
  /\ mailbox \subseteq Tokens
  /\ access \in [Users -> Nat]
  /\ audit \in [Users -> [AuditTypes -> Nat]]
  /\ arrivals \in Nat

Row(u) == userTable[u]
Ott(t) == ottTable[t]
Ended(r, out) == At(r, "respond") /\ outcome[r] = out

(* What is committed is what was decided on: when a request commits, the   *)
(* rows it read awaits ago are still the committed ones.  So a login with  *)
(* the old password cannot overtake a password change, and two uses of one *)
(* recovery token cannot both succeed.  (user.py:61-84, login.py:58-90,    *)
(* password_recover.py:54-82)                                              *)
CommitsWhatItDecided ==
  \A r \in Requests :
    At(r, "commit") =>
      /\ Row(user[r]) = seenUser[r]
      /\ token[r] # NoToken => Ott(token[r]) = seenToken[r]

(* A token that has left the server works: it is committed, and so is the  *)
(* user it names, whatever fails between the saves, the commit and the     *)
(* notification.  (register.py:67-77, password_recover_request.py:66-76)   *)
NotifiedPersisted ==
  \A t \in notifications \union mailbox :
    Ott(t) # NoRow /\ Row(Ott(t).data.user) # NoRow

(* Whoever holds a row lock or a new email that another request waits for  *)
(* can go on by itself: it has an open transaction and waits for nobody,   *)
(* so no two requests wait for each other, whatever rows of users and      *)
(* one_time_tokens they write and whatever has failed before.              *)
(* (register.py:73-74, verify_email.py:68-69, password_recover.py:81-82)   *)
WaitsFor(r, q) ==
  /\ q # r
  /\ \/ /\ At(r, "save_user")
        /\ \/ userHolder[user[r]] = q
           \/ /\ seenUser[r] = NoRow
              /\ \E u \in Users :
                   /\ userHolder[u] = q
                   /\ userDraft[u].data.email = input[r].email.address
     \/ At(r, "save_token") /\ ottHolder[token[r]] = q

HoldersNeverWait ==
  \A r, q \in Requests :
    WaitsFor(r, q) =>
      /\ pc[q] \in {"save_token", "commit"}
      /\ \A p \in Requests : ~WaitsFor(q, p)

(* Each refusal is true when the client reads it, though it was decided on *)
(* rows read earlier: the email belongs to a verified account, or to some  *)
(* account; the token is spent, expired or for another purpose; the email  *)
(* is verified; a conflict means that another request has changed the user *)
(* or used the token.  (register.py:53-55, one_time_token.py:87-113,       *)
(* user.py:117-128, repositories/user.py:80-81)                            *)
RefusalsJustified ==
  \A r \in Requests :
    /\ Ended(r, "UserAlreadyExists") => Row(user[r]).data.verified
    /\ Ended(r, "IntegrityError") => EmailTaken(input[r].email.address)
    /\ Ended(r, "UserError") /\ Op(r) = "verify_email" =>
         Row(user[r]).data.verified
    /\ Ended(r, "TokenError") =>
         LET ott == Ott(token[r]).data IN
         \/ ott.used
         \/ now > ott.expires
         \/ ott.purpose # (IF Op(r) = "recover" THEN RECOVER_PASSWORD
                                                ELSE VERIFY_EMAIL)
    /\ Ended(r, "ConcurrencyError") =>
         \/ Row(user[r]).version > seenUser[r].version
         \/ token[r] # NoToken /\ seenToken[r] # NoRow /\ Ott(token[r]).data.used

(* The audit log never says more than the tables: an account is created    *)
(* and verified once, its password is recovered at most once per used      *)
(* recovery token, and every entry stands for a version of the user, while *)
(* pushes fail, repeat after a crash or are lost.  (register.py:69-77,     *)
(* event_publisher.py:26-41)                                               *)
AuditWithinFacts ==
  \A u \in Users :
    LET log == audit[u]
        recoveries == {t \in Tokens :
          Ott(t) # NoRow /\ Ott(t).data.user = u /\ Ott(t).data.used
            /\ Ott(t).data.purpose = RECOVER_PASSWORD}
    IN IF Row(u) = NoRow THEN \A type \in AuditTypes : log[type] = 0
       ELSE /\ log["UserCreated"] <= 1
            /\ log["UserEmailVerified"] <= IF Row(u).data.verified THEN 1 ELSE 0
            /\ log["UserPasswordRecovered"] <= Cardinality(recoveries)
            /\ log["UserCreated"] + log["UserEmailVerified"]
                 + log["UserPasswordRecovered"] + log["UserPasswordChanged"]
                 <= Row(u).version

(* The committed rows as Accounts sees them.                               *)
AccountView ==
  [u \in Users |-> IF Row(u) = NoRow THEN NoRow ELSE Row(u).data]
OttView ==
  [t \in Tokens |->
     IF Ott(t) = NoRow THEN NoRow
     ELSE [user |-> Ott(t).data.user, purpose |-> Ott(t).data.purpose,
           used |-> Ott(t).data.used]]

A == INSTANCE Accounts WITH Emails <- Addresses, Passwords <- Words,
                            account <- AccountView, ott <- OttView

(* Every commit is one of the steps of Accounts, on the accounts as they   *)
(* are at that moment, and nothing else ever shows.                        *)
ImplementsAccounts == A!Spec

(* No request waits for ever, on a row lock, the unique index or           *)
(* otherwise.                                                              *)
EveryRequestAnswered ==
  \A r \in Requests : ~At(r, "idle") ~> At(r, "idle")

-----------------------------------------------------------------------------
(* What the documentation says and the code does not do.                   *)

(* RegisterUserCase.execute: "Raises: UserAlreadyExists: If a verified     *)
(* user with the same email already exists."                               *)
VerifiedEmailAnswered ==
  \A r \in Requests : Ended(r, "IntegrityError") =>
    \A u \in Users : Row(u) # NoRow /\ Row(u).data.verified =>
      Row(u).data.email # input[r].email.address

(* User.change_password: "Raises: UserError: If old password is incorrect  *)
(* or new password is same as old."                                        *)
ChangeChanges ==
  \A r \in Requests :
    Ended(r, "ok") /\ Op(r) = "change_password" =>
      input[r].password.word # Stored(r).password

=============================================================================
