----------------------------- MODULE RequestScope -----------------------------
(***************************************************************************)
(* What a request is made of.  build_use_case turns the constructor of a   *)
(* use case into the providers that FastAPI calls, one after the other,    *)
(* for each request, keeping what each has returned until the request      *)
(* ends; plain functions are called in a pool of threads, so those of      *)
(* different requests overlap.  Then the use case runs its transaction, on *)
(* a connection of the engine's pool, and publishes after it.              *)
(***************************************************************************)
EXTENDS Naturals, Sequences, FiniteSets

CONSTANTS Requests,
          PoolSize,     \* connections of the engine
          None,
          MaxArrivals   \* bound on the number of requests

(* The ports of the constructors.                                          *)
RegisterPorts == <<"Transaction", "UserRepository", "OneTimeTokenRepository",
                   "Config", "EventPublisher">>
VerifyEmailPorts == <<"Transaction", "UserRepository",
                      "OneTimeTokenRepository", "EventPublisher">>
LoginPorts == <<"Transaction", "UserRepository", "RefreshTokenRepository",
                "Config", "EventPublisher", "AccessTokenIssuer">>
RefreshPorts == <<"Transaction", "RefreshTokenRepository", "Config",
                  "EventPublisher", "AccessTokenIssuer">>
RevokePorts == <<"Transaction", "RefreshTokenRepository", "Config",
                 "EventPublisher">>
ChangePorts == <<"Transaction", "UserRepository", "AccessTokenVerifier",
                 "EventPublisher">>
RecoverRequestPorts == <<"Transaction", "UserRepository",
                         "OneTimeTokenRepository", "Config", "EventPublisher">>
RecoverPorts == <<"Transaction", "UserRepository", "OneTimeTokenRepository",
                  "EventPublisher">>

Ports ==
  [RegisterUserCase |-> RegisterPorts, VerifyEmailCase |-> VerifyEmailPorts,
   LoginUserCase |-> LoginPorts, RefreshTokenCase |-> RefreshPorts,
   RevokeTokenCase |-> RevokePorts, ChangePasswordCase |-> ChangePorts,
   PasswordRecoverRequestCase |-> RecoverRequestPorts,
   PasswordRecoverCase |-> RecoverPorts]

UseCases == DOMAIN Ports

DEPENDENCY_PROVIDERS ==
  [Transaction |-> "get_transaction",
   UserRepository |-> "get_user_repo",
   OneTimeTokenRepository |-> "get_ott_repo",
   RefreshTokenRepository |-> "get_refresh_token_repo",
   Config |-> "get_config",
   EventQueue |-> "get_event_queue",
   EventPublisher |-> "get_event_publisher",
   AccessTokenIssuer |-> "get_access_token_issuer",
   AccessTokenVerifier |-> "get_access_token_verifier"]

OnSession == {"get_transaction", "get_user_repo", "get_ott_repo",
              "get_refresh_token_repo"}
Lazy == {"get_access_token_issuer", "get_access_token_verifier"}

(* The Depends() of a provider.                                            *)
Needs(p) ==
  CASE p \in OnSession -> {"get_session"}
    [] p = "get_event_publisher" ->
         {"get_event_queue", "get_notification_queue"}
    [] OTHER -> {}

(* build_use_case(u): the ValueError of an unknown port ends the import of *)
(* the routers, so a process that serves has none.                         *)
ASSUME EveryPortProvided ==
  \A u \in UseCases : \A i \in DOMAIN Ports[u] :
    Ports[u][i] \in DOMAIN DEPENDENCY_PROVIDERS
(* No constructor asks for a port twice, or for one that another of its    *)
(* ports is made of: it never finds a part of its own in the cache.        *)
ASSUME EveryPortOnce ==
  \A u \in UseCases : \A i, j \in DOMAIN Ports[u] :
    LET p == DEPENDENCY_PROVIDERS[Ports[u][i]]
        q == DEPENDENCY_PROVIDERS[Ports[u][j]]
    IN  (p = q => i = j) /\ p \notin Needs(q)
ASSUME ScopeAssumption ==
  /\ PoolSize \in Nat \ {0} /\ MaxArrivals \in Nat
  /\ IsFiniteSet(Requests)
  /\ None \notin Nat

BuildUseCase(u) ==
  [i \in DOMAIN Ports[u] |-> DEPENDENCY_PROVIDERS[Ports[u][i]]]

Providers == {"get_session", "get_event_queue", "get_notification_queue"}
  \union {DEPENDENCY_PROVIDERS[p] : p \in DOMAIN DEPENDENCY_PROVIDERS}

VARIABLES pc,         \* where the request is
          useCase,    \* the use case it is for
          parts,      \* the parts it still has to get, by their providers
          cache,      \* what they have returned so far
          looked,     \* the singletons, as its threads have found them
          singleton,  \* _access_token_issuer, _access_token_verifier
          objects,    \* sessions and singletons made so far
          connection, \* the request has a connection of the pool
          free,       \* connections in the pool
          arrivals    \* bound: requests so far

scopeVars == <<parts, cache, looked, singleton, objects>>
poolVars == <<connection, free>>
vars == <<pc, useCase, scopeVars, poolVars, arrivals>>

Init ==
  /\ pc = [r \in Requests |-> "idle"]
  /\ parts = [r \in Requests |-> <<>>]
  /\ cache = [r \in Requests |-> [p \in Providers |-> None]]
  /\ looked = [r \in Requests |-> [p \in Lazy |-> "no"]]
  /\ singleton = [p \in Lazy |-> None]
  /\ objects = 0
  /\ useCase = [r \in Requests |-> "RegisterUserCase"]
  /\ arrivals = 0
  /\ connection = [r \in Requests |-> FALSE]
  /\ free = PoolSize

Arrive(r, u) ==
  /\ pc[r] = "idle"
  /\ arrivals < MaxArrivals
  /\ arrivals' = arrivals + 1
  /\ pc' = [pc EXCEPT ![r] = "resolve"]
  /\ useCase' = [useCase EXCEPT ![r] = u]
  /\ parts' = [parts EXCEPT ![r] = BuildUseCase(u)]
  /\ cache' = [cache EXCEPT ![r] = [p \in Providers |-> None]]
  /\ UNCHANGED <<looked, singleton, objects, poolVars>>

(* Objects are numbers: 0 stands for those of the process.                 *)
TheProcess == 0

(* FastAPI gets the parts in their order.  What the provider of a part     *)
(* depends on is called before it, and not again for the same request; the *)
(* order of the two queues, both of the process, is left open.             *)
Missing(r) == {p \in Needs(Head(parts[r])) : cache[r][p] = None}

Calling(r, p) ==
  /\ pc[r] = "resolve" /\ parts[r] # <<>>
  /\ p \in Missing(r) \/ (Missing(r) = {} /\ p = Head(parts[r]))

(* The provider p returns object to r.                                     *)
Return(r, p, object) ==
  /\ cache' = [cache EXCEPT ![r][p] = object]
  /\ parts' = [parts EXCEPT ![r] = IF p = Head(@) THEN Tail(@) ELSE @]

kept == <<useCase, poolVars, arrivals>>

(* A new session for each request; in the mutated forms one for all, or    *)
(* another one for every object on it.                                     *)
GetSessionShared(r) ==
  /\ Calling(r, "get_session")
  /\ Return(r, "get_session", TheProcess)
  /\ UNCHANGED <<pc, looked, singleton, objects, kept>>
GetSession(r) ==
  /\ Calling(r, "get_session")
  /\ objects' = objects + 1
  /\ Return(r, "get_session", objects')
  /\ UNCHANGED <<pc, looked, singleton, kept>>

(* get_transaction and the repositories: an object on the session.         *)
OnOneEach(r, p) ==
  /\ Calling(r, p)
  /\ objects' = objects + 1
  /\ Return(r, p, objects')
  /\ UNCHANGED <<pc, looked, singleton, kept>>
OnTheSession(r, p) ==
  /\ Calling(r, p)
  /\ Return(r, p, cache[r]["get_session"])
  /\ UNCHANGED <<pc, looked, singleton, objects, kept>>

(* Config() and the queues and publisher over them hold nothing of their   *)
(* own or the objects of the process.                                      *)
Shared == Providers \ ({"get_session"} \union OnSession \union Lazy)
OfTheProcess(r, p) ==
  /\ Calling(r, p)
  /\ Return(r, p, TheProcess)
  /\ UNCHANGED <<pc, looked, singleton, objects, kept>>

(* get_access_token_issuer and _verifier: look, make one if there is none, *)
(* and return what the global holds then; two threads may both make one.   *)
Look(r, p) ==
  /\ Calling(r, p)
  /\ looked[r][p] = "no"
  /\ looked' = [looked EXCEPT ![r][p] =
                  IF singleton[p] = None THEN "unset" ELSE "set"]
  /\ UNCHANGED <<pc, parts, cache, singleton, objects, kept>>
Make(r, p) ==
  /\ Calling(r, p)
  /\ looked[r][p] = "unset"
  /\ objects' = objects + 1
  /\ singleton' = [singleton EXCEPT ![p] = objects']
  /\ looked' = [looked EXCEPT ![r][p] = "set"]
  /\ UNCHANGED <<pc, parts, cache, kept>>
ReturnGlobal(r, p) ==
  /\ Calling(r, p)
  /\ looked[r][p] = "set"
  /\ Return(r, p, singleton[p])
  /\ looked' = [looked EXCEPT ![r][p] = "no"]
  /\ UNCHANGED <<pc, singleton, objects, kept>>

Resolve(r) ==
  \/ GetSession(r)
  \/ \E p \in OnSession : OnTheSession(r, p)
  \/ \E p \in Shared : OfTheProcess(r, p)
  \/ \E p \in Lazy : Look(r, p) \/ Make(r, p) \/ ReturnGlobal(r, p)

-----------------------------------------------------------------------------
(* The use case                                                            *)

Goto(r, step) == pc' = [pc EXCEPT ![r] = step]

(* The session takes a connection with its first statement, the SELECT     *)
(* right after the transaction is entered.                                 *)
Enter(r) ==
  /\ pc[r] = "resolve" /\ parts[r] = <<>>
  /\ Goto(r, "begin")
  /\ UNCHANGED <<useCase, scopeVars, poolVars, arrivals>>

(* AccessTokenExpired, raised inside the transaction but before its first  *)
(* statement: no connection has been taken.                                *)
RefusedEarly(r) ==
  /\ pc[r] = "resolve" /\ parts[r] = <<>>
  /\ useCase[r] = "ChangePasswordCase"
  /\ Goto(r, "respond")
  /\ UNCHANGED <<useCase, scopeVars, poolVars, arrivals>>

Waiting(r) == pc[r] \in {"begin", "begin_again"}
InTransaction(r) == pc[r] \in {"transaction", "transaction_again"}

Checkout(r) ==
  /\ Waiting(r)
  /\ free > 0
  /\ free' = free - 1
  /\ connection' = [connection EXCEPT ![r] = TRUE]
  /\ Goto(r, IF pc[r] = "begin" THEN "transaction" ELSE "transaction_again")
  /\ UNCHANGED <<useCase, scopeVars, arrivals>>

(* The pool gives up waiting; the transaction ends with the error.         *)
PoolTimeout(r) ==
  /\ Waiting(r)
  /\ free = 0
  /\ Goto(r, "respond")
  /\ UNCHANGED <<useCase, scopeVars, poolVars, arrivals>>

(* __aexit__: COMMIT, or ROLLBACK after an exception (of the use case, of  *)
(* a statement, or of the COMMIT); either way the connection goes back, a  *)
(* broken one being replaced.  A reused refresh token is looked up in a    *)
(* second transaction of the same session.  In the mutated form the        *)
(* connection is kept until the events are published.                      *)
AexitAfterPublish(r, raised) ==
  /\ InTransaction(r)
  /\ Goto(r, "publish")
  /\ UNCHANGED <<useCase, scopeVars, poolVars, arrivals>>
Aexit(r, raised) ==
  /\ InTransaction(r)
  /\ connection' = [connection EXCEPT ![r] = FALSE]
  /\ free' = free + 1
  /\ \/ ~raised /\ Goto(r, "publish")
     \/ raised /\ Goto(r, "respond")
     \/ /\ raised
        /\ useCase[r] = "RefreshTokenCase" /\ pc[r] = "transaction"
        /\ Goto(r, "begin_again")
  /\ UNCHANGED <<useCase, scopeVars, arrivals>>
Publish(r) ==
  /\ pc[r] = "publish"
  /\ Goto(r, "respond")
  /\ UNCHANGED <<useCase, scopeVars, poolVars, arrivals>>

Respond(r) ==
  /\ pc[r] = "respond"
  /\ Goto(r, "idle")
  /\ UNCHANGED <<useCase, scopeVars, poolVars, arrivals>>

Step(r) ==
  \/ Resolve(r)
  \/ Enter(r) \/ RefusedEarly(r)
  \/ Checkout(r) \/ PoolTimeout(r)
  \/ \E raised \in BOOLEAN : Aexit(r, raised)
  \/ Publish(r) \/ Respond(r)

Next ==
  \E r \in Requests :
    \/ \E u \in UseCases : Arrive(r, u)
    \/ Step(r)

(* What the event loop and the database are trusted with: a transaction    *)
(* ends, as its statements are answered or its connection breaks (an       *)
(* assumption, the engine sets no timeout), and a free connection goes to  *)
(* who waits for one.  Redis is trusted with nothing: its client sets no   *)
(* timeout either, so a request may publish for ever.                      *)
Fairness ==
  \A r \in Requests :
    /\ WF_vars(\E raised \in BOOLEAN : Aexit(r, raised))
    /\ WF_vars(Checkout(r))

Spec == Init /\ [][Next]_vars /\ Fairness

-----------------------------------------------------------------------------

Steps == {"idle", "resolve", "begin", "transaction", "begin_again",
          "transaction_again", "publish", "respond"}

TypeOK ==
  /\ pc \in [Requests -> Steps]
  /\ useCase \in [Requests -> UseCases]
  /\ parts \in [Requests -> Seq(Providers)]
  /\ cache \in [Requests -> [Providers -> {None} \union 0 .. objects]]
  /\ looked \in [Requests -> [Lazy -> {"no", "unset", "set"}]]
  /\ singleton \in [Lazy -> {None} \union 1 .. objects]
  /\ objects \in Nat /\ free \in 0 .. PoolSize
  /\ connection \in [Requests -> BOOLEAN]
  /\ arrivals \in 0 .. MaxArrivals

Running(r) == pc[r] \notin {"idle", "resolve"}

(* The transaction of a use case and all its repositories work on one      *)
(* session, so what it saves is committed together.                        *)
(* (nexus.py:95-140; transaction.py:5-15)                                  *)
OneSessionPerUseCase ==
  \A r \in Requests : Running(r) =>
    \A i \in DOMAIN Ports[useCase[r]] :
      LET p == BuildUseCase(useCase[r])[i] IN
      /\ cache[r][p] # None
      /\ p \in OnSession => cache[r][p] = cache[r]["get_session"]

(* No two requests share a session, nor does one get the session that the  *)
(* other has just used.  (nexus.py:95-96)                                  *)
SessionsAreOwn ==
  \A r, s \in Requests :
    r # s /\ cache[r]["get_session"] # None =>
      cache[r]["get_session"] # cache[s]["get_session"]

(* A connection is taken for a transaction and given back at its end,      *)
(* however it ends: none is held while Redis is asked, none is lost.       *)
(* (transaction.py:8-15, use cases: publish after the transaction)         *)
ConnectionsAccounted ==
  /\ free + Cardinality({r \in Requests : connection[r]}) = PoolSize
  /\ \A r \in Requests : connection[r] => InTransaction(r)

(* Whoever waits for a connection gets one, or gives up: neither a Redis   *)
(* that hangs nor any end of a request keeps the pool from the others.     *)
(* (transaction.py:13-15, redis/client.py:8-12, postgres.py:6-10)          *)
PoolNeverStarves == \A r \in Requests : Waiting(r) ~> ~Waiting(r)

=============================================================================
