--------------------------- MODULE RefreshSessions ---------------------------
(***************************************************************************)
(* Login, refresh and revoke: the three HTTP requests on refresh tokens,   *)
(* each running its use case as a chain of awaits that interleaves with    *)
(* the other requests, over the users and refresh_tokens tables and the    *)
(* audit log.                                                              *)
(*                                                                         *)
(* The data that login checks (password, active, verified) belongs to the  *)
(* accounts and is a free choice here; the raw token strings are the       *)
(* tokens themselves; client metadata is what RiskPolicy is about.         *)
(***************************************************************************)
EXTENDS Naturals, Sequences, FiniteSets

CONSTANTS Users,       \* registered accounts
          Tokens,      \* refresh token keys; bounds how many are ever made
          Requests,    \* HTTP requests that run at the same time
          NoUser, NoToken, NoRequest, NoRow,
          Lifetime,    \* REFRESH_TOKEN_EXPIRY in ticks
          MaxTime      \* bound on the clock

(* The columns that create() sets and nothing changes, with the session    *)
(* (history): the login's first token.                                     *)
Identities == [user : Users, expires : Nat, session : Tokens]

UserRows == [version : Nat \ {0}, data : {"account"}]
TokenData == [revoked : BOOLEAN, replacedBy : Tokens \union {NoToken}]
TokenRows == [version : Nat \ {0}, data : TokenData]

Links == [user : Users, session : Tokens, revoked : BOOLEAN,
          next : Tokens \union {NoToken}]

ASSUME SessionsAssumption ==
  /\ NoUser \notin Users
  /\ NoToken \notin Tokens
  /\ NoRequest \notin Requests
  /\ NoRow \notin Identities \union UserRows \union TokenRows \union Links
  /\ Lifetime \in Nat
  /\ MaxTime \in Nat

VARIABLES
  userTable, userDraft, userHolder,      \* table users
  tokenTable, tokenDraft, tokenHolder,   \* table refresh_tokens
  identity,    \* the Identities of the tokens made so far
  now,         \* utc_now()
  pc,          \* where the request's use case is waiting
  op,          \* "login", "refresh" or "revoke"
  account,     \* the user a login has loaded
  userVersion, \* the __version of that user
  presented,   \* the token the client sent
  loaded,      \* the row of that token, as get_by_string returned it
  created,     \* the token made by RefreshToken.create
  todo,        \* events, those still to be published
  outcome,     \* how the use case ended, until the response is sent
  delivered,   \* history: the tokens clients hold
  audit        \* the Redis list auth:events

userVars == <<userTable, userDraft, userHolder>>
tokenVars == <<tokenTable, tokenDraft, tokenHolder>>
dbVars == <<userVars, tokenVars>>
inputVars == <<op, account, userVersion, presented, loaded>>
requestVars == <<pc, inputVars, created, todo, outcome>>
vars == <<dbVars, identity, now, requestVars, delivered, audit>>

U == INSTANCE Table WITH
       Ids <- Users, Txns <- Requests, NoTxn <- NoRequest,
       table <- userTable, draft <- userDraft, holder <- userHolder
T == INSTANCE Table WITH
       Ids <- Tokens, Txns <- Requests, NoTxn <- NoRequest,
       table <- tokenTable, draft <- tokenDraft, holder <- tokenHolder

Ops == {"login", "refresh", "revoke"}

Steps == {"idle", "login", "save_user", "use", "save_token", "insert",
          "commit", "reuse", "publish", "respond"}

(* BaseErrors reach the router's except clause, "ServerError" stands for   *)
(* any other exception: the framework's 500.                               *)
BaseErrors == {"UserNotFound", "UserError", "RefreshTokenNotFound",
               "TokenError", "RefreshTokenReuse", "ConcurrencyError"}
Outcomes == {"none", "ok", "ServerError"} \union BaseErrors

(* RefreshTokenCreated and RefreshTokenRevoked are DomainEvents, the other *)
(* two derive from BaseEvent.                                              *)
DomainEvents == {"RefreshTokenCreated", "RefreshTokenRevoked"}
SecurityEvents == {"RefreshTokenReuseDetected",
                   "SuspiciousRefreshTokenRevocation"}
Event(type, t) == [type |-> type, token |-> t]

HttpStatus(o, out) ==
  CASE out = "ok" -> 200
    [] out = "ServerError" -> 500
    [] out \in BaseErrors -> IF o = "login" THEN 401 ELSE 400

-----------------------------------------------------------------------------

Init ==
  /\ U!TableInit([u \in Users |-> [version |-> 1, data |-> "account"]])
  /\ T!TableInit([t \in Tokens |-> NoRow])
  /\ identity = [t \in Tokens |-> NoRow]
  /\ now = 0
  /\ pc = [r \in Requests |-> "idle"]
  /\ op = [r \in Requests |-> "login"]
  /\ account = [r \in Requests |-> NoUser]
  /\ userVersion = [r \in Requests |-> 0]
  /\ presented = [r \in Requests |-> NoToken]
  /\ loaded = [r \in Requests |-> NoRow]
  /\ created = [r \in Requests |-> NoToken]
  /\ todo = [r \in Requests |-> <<>>]
  /\ outcome = [r \in Requests |-> "none"]
  /\ delivered = {}
  /\ audit = <<>>

At(r, step) == pc[r] = step
Goto(r, step) == pc' = [pc EXCEPT ![r] = step]

(* The use case returns or raises; its local variables go out of scope.    *)
Answer(r, out) ==
  /\ Goto(r, "respond")
  /\ outcome' = [outcome EXCEPT ![r] = out]
  /\ account' = [account EXCEPT ![r] = NoUser]
  /\ userVersion' = [userVersion EXCEPT ![r] = 0]
  /\ loaded' = [loaded EXCEPT ![r] = NoRow]
  /\ created' = [created EXCEPT ![r] = IF out = "ok" THEN @ ELSE NoToken]
  /\ todo' = [todo EXCEPT ![r] = <<>>]

(* SQLAlchemyTransaction.__aexit__, with and without an exception          *)
Rollback(r) == U!Rollback(r) /\ T!Rollback(r)
Commit(r) == U!Commit(r) /\ T!Commit(r)

Fresh(t) == identity[t] = NoRow

(* Bound: a request that may need a token key starts only while one is     *)
(* left for it.                                                            *)
RoomForToken ==
  Cardinality({t \in Tokens : Fresh(t)}) >
  Cardinality({r \in Requests :
                 \/ At(r, "login")
                 \/ At(r, "use") /\ op[r] = "refresh"})

-----------------------------------------------------------------------------
(* LoginUserCase.execute                                                   *)

LoginNotFound(r) ==
  /\ At(r, "idle")
  /\ Answer(r, "UserNotFound")
  /\ op' = [op EXCEPT ![r] = "login"]
  /\ UNCHANGED <<dbVars, identity, now, presented, delivered, audit>>

(* get_by_email                                                            *)
LoginSelect(r, u) ==
  /\ At(r, "idle")
  /\ RoomForToken
  /\ Goto(r, "login")
  /\ op' = [op EXCEPT ![r] = "login"]
  /\ account' = [account EXCEPT ![r] = u]
  /\ userVersion' = [userVersion EXCEPT ![r] = U!Visible(r, u).version]
  /\ UNCHANGED <<dbVars, identity, now, presented, loaded, created, todo,
                 outcome, delivered, audit>>

(* assert_can_login raises.                                                *)
LoginRefused(r) ==
  /\ At(r, "login")
  /\ Rollback(r)
  /\ Answer(r, "UserError")
  /\ UNCHANGED <<identity, now, op, presented, delivered, audit>>

(* RefreshToken.create: the entity that is not yet saved.                  *)
NewToken(u, s) == [user |-> u, expires |-> now + Lifetime, session |-> s]

Create(r, n, u, s) ==
  /\ Fresh(n)
  /\ identity' = [identity EXCEPT ![n] = NewToken(u, s)]
  /\ created' = [created EXCEPT ![r] = n]

LoginCreate(r, n) ==
  /\ At(r, "login")
  /\ Create(r, n, account[r], n)
  /\ todo' = [todo EXCEPT ![r] = <<Event("RefreshTokenCreated", n)>>]
  /\ Goto(r, "save_user")
  /\ UNCHANGED <<dbVars, now, inputVars, outcome, delivered, audit>>

(* user_repo.save of the unchanged user: only its version grows.           *)
SaveUser(r) ==
  /\ At(r, "save_user")
  /\ U!Update(r, account[r], userVersion[r], "account")
  /\ Goto(r, "insert")
  /\ UNCHANGED <<tokenVars, identity, now, inputVars, created, todo, outcome,
                 delivered, audit>>

(* The first write of the transaction conflicts: nothing to roll back.     *)
SaveUserConflict(r) ==
  /\ At(r, "save_user")
  /\ U!Conflict(r, account[r], userVersion[r])
  /\ Answer(r, "ConcurrencyError")
  /\ UNCHANGED <<tokenVars, identity, now, op, presented, delivered, audit>>

(* refresh_token_repo.save of the new token, by login and by refresh.      *)
InsertNew(r) ==
  /\ At(r, "insert")
  /\ T!Insert(r, created[r], [revoked |-> FALSE, replacedBy |-> NoToken])
  /\ Goto(r, "commit")
  /\ UNCHANGED <<userVars, identity, now, inputVars, created, todo, outcome,
                 delivered, audit>>

-----------------------------------------------------------------------------
(* RefreshTokenCase.execute and RevokeTokenCase.execute                    *)

TokenNotFound(r, o, t) ==
  /\ At(r, "idle")
  /\ t \in Tokens => T!Visible(r, t) = NoRow
  /\ Answer(r, "RefreshTokenNotFound")
  /\ op' = [op EXCEPT ![r] = o]
  /\ UNCHANGED <<dbVars, identity, now, presented, delivered, audit>>

(* get_by_string                                                           *)
TokenSelect(r, o, t) ==
  /\ At(r, "idle")
  /\ T!Visible(r, t) # NoRow
  /\ o = "refresh" => RoomForToken
  /\ Goto(r, "use")
  /\ op' = [op EXCEPT ![r] = o]
  /\ presented' = [presented EXCEPT ![r] = t]
  /\ loaded' = [loaded EXCEPT ![r] = T!Visible(r, t)]
  /\ UNCHANGED <<dbVars, identity, now, account, userVersion, created, todo,
                 outcome, delivered, audit>>

ExpiredOnly(r) == now > identity[presented[r]].expires
IsRevokedOrExpired(r) ==
  loaded[r].data.revoked \/ now > identity[presented[r]].expires

IsReplaced(r) == loaded[r].data.replacedBy # NoToken

(* use() raises RefreshTokenReuse, the transaction rolls back, the handler *)
(* opens another.                                                          *)
UseReplaced(r) ==
  /\ At(r, "use")
  /\ op[r] = "refresh"
  /\ IsReplaced(r)
  /\ Rollback(r)
  /\ Goto(r, "reuse")
  /\ UNCHANGED <<identity, now, inputVars, created, todo, outcome, delivered,
                 audit>>

(* use() or revoke() raises TokenError.                                    *)
UseInvalid(r) ==
  /\ At(r, "use")
  /\ op[r] = "refresh" => ~IsReplaced(r)
  /\ IsRevokedOrExpired(r)
  /\ Rollback(r)
  /\ Answer(r, "TokenError")
  /\ UNCHANGED <<identity, now, op, presented, delivered, audit>>

(* use(), RefreshTokenRotationService.rotate, pull_domain_events: no await *)
(* in between, one clock tick is far longer.                               *)
UseAndRotate(r, n) ==
  /\ At(r, "use")
  /\ op[r] = "refresh"
  /\ ~IsReplaced(r)
  /\ ~IsRevokedOrExpired(r)
  /\ Create(r, n, identity[presented[r]].user, identity[presented[r]].session)
  /\ todo' = [todo EXCEPT ![r] = <<Event("RefreshTokenRevoked", presented[r]),
                                  Event("RefreshTokenCreated", n)>>]
  /\ Goto(r, "save_token")
  /\ UNCHANGED <<dbVars, now, inputVars, outcome, delivered, audit>>

(* revoke(); the loaded token has no client metadata, so assess_risk       *)
(* always finds a threat.                                                  *)
Revoke(r) ==
  /\ At(r, "use")
  /\ op[r] = "revoke"
  /\ ~IsRevokedOrExpired(r)
  /\ todo' = [todo EXCEPT ![r] =
                <<Event("SuspiciousRefreshTokenRevocation", presented[r]),
                  Event("RefreshTokenRevoked", presented[r])>>]
  /\ Goto(r, "save_token")
  /\ UNCHANGED <<dbVars, identity, now, inputVars, created, outcome, delivered,
                 audit>>

(* The entity after use() and mark_as_replaced_by, or after revoke().      *)
Entity(r) ==
  [revoked |-> TRUE,
   replacedBy |-> IF op[r] = "refresh" THEN created[r]
                  ELSE loaded[r].data.replacedBy]

CommitNext(r) == "commit"
AfterSave(r) == IF op[r] = "refresh" THEN "insert" ELSE "commit"

SaveToken(r) ==
  /\ At(r, "save_token")
  /\ T!Update(r, presented[r], loaded[r].version, Entity(r))
  /\ Goto(r, AfterSave(r))
  /\ UNCHANGED <<userVars, identity, now, inputVars, created, todo, outcome,
                 delivered, audit>>

SaveTokenConflict(r) ==
  /\ At(r, "save_token")
  /\ T!Conflict(r, presented[r], loaded[r].version)
  /\ Answer(r, "ConcurrencyError")
  /\ UNCHANGED <<userVars, identity, now, op, presented, delivered, audit>>

(* The second transaction of RefreshTokenCase's except clause.             *)
ReuseSelect(r) ==
  /\ At(r, "reuse")
  /\ todo' = [todo EXCEPT ![r] =
                IF T!Visible(r, presented[r]) = NoRow THEN <<>>
                ELSE <<Event("RefreshTokenReuseDetected", presented[r])>>]
  /\ Goto(r, "publish")
  /\ UNCHANGED <<dbVars, identity, now, inputVars, created, outcome, delivered,
                 audit>>

-----------------------------------------------------------------------------
(* The end of the transaction, the events, the response                    *)

(* A refresh returns straight after the commit, without publishing.        *)
CommitRefresh(r) ==
  /\ At(r, "commit")
  /\ op[r] = "refresh"
  /\ Commit(r)
  /\ Answer(r, "ok")
  /\ UNCHANGED <<identity, now, op, presented, delivered, audit>>

CommitAndPublish(r) ==
  /\ At(r, "commit")
  /\ op[r] # "refresh"
  /\ Commit(r)
  /\ Goto(r, "publish")
  /\ UNCHANGED <<identity, now, inputVars, created, todo, outcome, delivered,
                 audit>>

(* The connection breaks while the COMMIT is answered.                     *)
CommitUnacknowledged(r) ==
  /\ At(r, "commit")
  /\ Commit(r)
  /\ Answer(r, "ServerError")
  /\ UNCHANGED <<identity, now, op, presented, delivered, audit>>

(* A statement fails, or the connection breaks before the COMMIT.          *)
DbFailure(r) ==
  /\ pc[r] \in {"save_user", "save_token", "insert", "commit", "reuse"}
  /\ Rollback(r)
  /\ Answer(r, "ServerError")
  /\ UNCHANGED <<identity, now, op, presented, delivered, audit>>

(* EventPublisher.publish hands every event to RedisEventQueue.push, which *)
(* skips what is not a DomainEvent.                                        *)
Pushed(log, event) ==
  IF event.type \in DomainEvents THEN Append(log, event) ELSE log

PushNext(r) ==
  /\ At(r, "publish")
  /\ todo[r] # <<>>
  /\ audit' = Pushed(audit, Head(todo[r]))
  /\ todo' = [todo EXCEPT ![r] = Tail(@)]
  /\ UNCHANGED <<dbVars, identity, now, pc, inputVars, created, outcome,
                 delivered>>

(* RPUSH fails, before or after Redis has appended the event.              *)
PushFails(r) ==
  /\ At(r, "publish")
  /\ todo[r] # <<>>
  /\ Head(todo[r]).type \in DomainEvents
  /\ audit' \in {audit, Pushed(audit, Head(todo[r]))}
  /\ Answer(r, "ServerError")
  /\ UNCHANGED <<dbVars, identity, now, op, presented, delivered>>

Published(r) ==
  /\ At(r, "publish")
  /\ todo[r] = <<>>
  /\ Answer(r, IF op[r] = "refresh" THEN "RefreshTokenReuse" ELSE "ok")
  /\ UNCHANGED <<dbVars, identity, now, op, presented, delivered, audit>>

(* Everything a request remembers is gone once it is answered.             *)
Forget(rs) ==
  /\ pc' = [r \in Requests |-> IF r \in rs THEN "idle" ELSE pc[r]]
  /\ op' = [r \in Requests |-> IF r \in rs THEN "login" ELSE op[r]]
  /\ account' = [r \in Requests |-> IF r \in rs THEN NoUser ELSE account[r]]
  /\ userVersion' = [r \in Requests |-> IF r \in rs THEN 0 ELSE userVersion[r]]
  /\ presented' = [r \in Requests |-> IF r \in rs THEN NoToken ELSE presented[r]]
  /\ loaded' = [r \in Requests |-> IF r \in rs THEN NoRow ELSE loaded[r]]
  /\ created' = [r \in Requests |-> IF r \in rs THEN NoToken ELSE created[r]]
  /\ todo' = [r \in Requests |-> IF r \in rs THEN <<>> ELSE todo[r]]
  /\ outcome' = [r \in Requests |-> IF r \in rs THEN "none" ELSE outcome[r]]

Respond(r) ==
  /\ At(r, "respond")
  /\ delivered' = IF created[r] = NoToken THEN delivered
                  ELSE delivered \union {created[r]}
  /\ Forget({r})
  /\ UNCHANGED <<dbVars, identity, now, audit>>

(* The client never sees the answer.                                       *)
ResponseLost(r) ==
  /\ At(r, "respond")
  /\ Forget({r})
  /\ UNCHANGED <<dbVars, identity, now, delivered, audit>>

(* The server process dies; PostgreSQL and Redis stay.                     *)
Crash ==
  /\ \E r \in Requests : ~At(r, "idle")
  /\ Forget(Requests)
  /\ U!RollbackAll
  /\ T!RollbackAll
  /\ UNCHANGED <<identity, now, delivered, audit>>

Tick ==
  /\ now < MaxTime
  /\ now' = now + 1
  /\ UNCHANGED <<dbVars, identity, requestVars, delivered, audit>>

Fails(r) == CommitUnacknowledged(r) \/ DbFailure(r) \/ PushFails(r)

Arrives(r) ==
  \/ LoginNotFound(r)
  \/ \E u \in Users : LoginSelect(r, u)
  \/ \E o \in {"refresh", "revoke"} :
       \/ TokenNotFound(r, o, NoToken)
       \/ \E t \in delivered : TokenSelect(r, o, t) \/ TokenNotFound(r, o, t)

(* The steps an accepted request takes by itself.                          *)
Proceeds(r) ==
  \/ LoginRefused(r)
  \/ \E n \in Tokens : LoginCreate(r, n) \/ UseAndRotate(r, n)
  \/ UseReplaced(r)
  \/ UseInvalid(r)
  \/ Revoke(r)
  \/ SaveUserConflict(r)
  \/ SaveTokenConflict(r)
  \/ InsertNew(r)
  \/ ReuseSelect(r)
  \/ CommitRefresh(r)
  \/ CommitAndPublish(r)
  \/ PushNext(r)
  \/ Published(r)
  \/ Respond(r)
  \/ ResponseLost(r)

(* The steps that may have to wait for a row lock.                         *)
Saves(r) ==
  SaveUser(r) \/ SaveUserConflict(r) \/ SaveToken(r) \/ SaveTokenConflict(r)

Next ==
  \/ \E r \in Requests : Arrives(r) \/ Proceeds(r) \/ Saves(r) \/ Fails(r)
  \/ Crash
  \/ Tick

Spec == Init /\ [][Next]_vars

(* The event loop runs every ready coroutine, and PostgreSQL grants a row  *)
(* lock to its waiters in turn.                                            *)
Fairness ==
  \A r \in Requests : WF_vars(Proceeds(r)) /\ SF_vars(Saves(r))

FairSpec == Spec /\ Fairness

-----------------------------------------------------------------------------

Events == [type : DomainEvents \union SecurityEvents, token : Tokens]

TypeOK ==
  /\ userTable \in [Users -> UserRows]
  /\ userDraft \in [Users -> UserRows \union {NoRow}]
  /\ userHolder \in [Users -> Requests \union {NoRequest}]
  /\ tokenTable \in [Tokens -> TokenRows \union {NoRow}]
  /\ tokenDraft \in [Tokens -> TokenRows \union {NoRow}]
  /\ tokenHolder \in [Tokens -> Requests \union {NoRequest}]
  /\ identity \in [Tokens -> Identities \union {NoRow}]
  /\ now \in Nat
  /\ pc \in [Requests -> Steps]
  /\ op \in [Requests -> Ops]
  /\ account \in [Requests -> Users \union {NoUser}]
  /\ userVersion \in [Requests -> Nat]
  /\ presented \in [Requests -> Tokens \union {NoToken}]
  /\ loaded \in [Requests -> TokenRows \union {NoRow}]
  /\ created \in [Requests -> Tokens \union {NoToken}]
  /\ todo \in [Requests -> Seq(Events)]
  /\ outcome \in [Requests -> Outcomes]
  /\ delivered \subseteq Tokens
  /\ audit \in Seq(Events)

Stored(t) == tokenTable[t] # NoRow
Revoked(t) == Stored(t) /\ tokenTable[t].data.revoked
Successor(t) == tokenTable[t].data.replacedBy
Answered(r, o, out) == At(r, "respond") /\ op[r] = o /\ outcome[r] = out

(* Two refreshes of one token cannot both succeed, however their reads,    *)
(* saves and commits interleave: a session never has two tokens without a  *)
(* successor.  (refresh_token.py:58-89, repositories/refresh_token.py:72)  *)
OneTipPerSession ==
  \A s, t \in Tokens :
    /\ Stored(s) /\ Stored(t)
    /\ identity[s].session = identity[t].session
    /\ Successor(s) = NoToken /\ Successor(t) = NoToken
    => s = t

(* A rotation is all or nothing: the successor a committed row names is    *)
(* committed too, belongs to the same user and session, succeeds no other  *)
(* token, and was made while its predecessor was alive.                    *)
(* (refresh_token.py:68-89, refresh_token_rotation.py:33-41)               *)
RotationWellFormed ==
  \A t \in Tokens :
    Stored(t) /\ Successor(t) # NoToken =>
      LET n == Successor(t) IN
      /\ Revoked(t)
      /\ Stored(n)
      /\ identity[n].user = identity[t].user
      /\ identity[n].session = identity[t].session
      /\ identity[n].expires <= identity[t].expires + Lifetime
      /\ \A s \in Tokens : Stored(s) /\ Successor(s) = n => s = t

(* A client never holds a token the database does not know, whatever       *)
(* fails between create(), save, commit and the response.                  *)
(* (login.py:77-96, refresh_token.py:76-92)                                *)
DeliveredPersisted == \A t \in delivered : Stored(t)

(* Each refusal tells the truth at the moment the client reads it, though  *)
(* it was decided on a row read awaits earlier: a conflict means that the  *)
(* token has been spent by another request, so that retrying is useless;   *)
(* reuse means that it has a successor; TokenError that it is dead.        *)
(* (entities/refresh_token.py:112-154, repositories/refresh_token.py:92)   *)
RefusalsJustified ==
  \A r \in Requests :
    At(r, "respond") /\ presented[r] # NoToken =>
      LET t == presented[r] IN
      CASE outcome[r] = "ConcurrencyError" -> Revoked(t)
        [] outcome[r] = "RefreshTokenReuse" -> Successor(t) # NoToken
        [] outcome[r] = "TokenError" -> Revoked(t) \/ now > identity[t].expires
        [] OTHER -> TRUE

(* The audit log is true and in order, though events are pushed after the  *)
(* commit by requests that may fail in between: what it says has been      *)
(* committed, nothing is said twice, and the revocation of a token that    *)
(* a login made never comes before its creation.                           *)
(* (login.py:92-93, revoke_token.py:91-92, event_publisher.py:24-39)       *)
AuditTruthful ==
  /\ \A i \in 1 .. Len(audit) :
       LET e == audit[i] IN
       /\ e.type = "RefreshTokenCreated" => Stored(e.token)
       /\ e.type = "RefreshTokenRevoked" =>
            /\ Revoked(e.token)
            /\ identity[e.token].session = e.token =>
                 \E j \in 1 .. i - 1 :
                   audit[j] = Event("RefreshTokenCreated", e.token)
  /\ \A i, j \in 1 .. Len(audit) : audit[i] = audit[j] => i = j

(* A revoked row is never written again: no revived token, no second       *)
(* successor.  (entities/refresh_token.py:112-154)                         *)
RevokedRowsFrozen ==
  [][\A t \in Tokens : Revoked(t) => tokenTable'[t] = tokenTable[t]]_vars

(* The sessions as seen through the committed rows.                        *)
ChainView ==
  [t \in Tokens |->
     IF ~Stored(t) THEN NoRow
     ELSE [user |-> identity[t].user,
           session |-> identity[t].session,
           revoked |-> tokenTable[t].data.revoked,
           next |-> tokenTable[t].data.replacedBy]]

Chains == INSTANCE SessionChains WITH NoLink <- NoRow, chain <- ChainView

(* Every commit opens a session, rotates its tip or ends it, and nothing   *)
(* else ever shows.                                                        *)
ImplementsSessionChains == Chains!Spec

(* A session whose stored tokens are all revoked never gets a usable one   *)
(* again: a rotation that has passed its checks before the revocation      *)
(* commits does not revive it.  (revoke_token.py:60-89)                    *)
EndedForGood == Chains!EndedForGood

(* No request waits for ever, on a row lock or otherwise.                  *)
EveryRequestAnswered ==
  \A r \in Requests : ~At(r, "idle") ~> At(r, "idle")

-----------------------------------------------------------------------------
(* What the documentation says and the code does not do.                   *)

(* README.md, the application layer: a use case "publishes events after    *)
(* the commit".                                                            *)
RotationAudited ==
  \A r \in Requests :
    Answered(r, "refresh", "ok") =>
      \E i \in 1 .. Len(audit) :
        audit[i] = Event("RefreshTokenCreated", created[r])

(* event_publisher.py: everything but a notification goes to the           *)
(* persistent audit log.                                                   *)
ReuseAudited ==
  \A r \in Requests :
    Answered(r, "refresh", "RefreshTokenReuse") =>
      \E i \in 1 .. Len(audit) :
        audit[i] = Event("RefreshTokenReuseDetected", presented[r])

(* README.md: an attempt to use a revoked token again raises               *)
(* RefreshTokenReuse.                                                      *)
RevokedReuseDetected ==
  \A r \in Requests :
    Answered(r, "refresh", "TokenError") => ~Revoked(presented[r])

(* README.md: ConcurrencyError is HTTP 409.                                *)
ConflictIs409 ==
  \A r \in Requests :
    At(r, "respond") /\ outcome[r] = "ConcurrencyError" =>
      HttpStatus(op[r], outcome[r]) = 409

=============================================================================
