-------------------------- MODULE RequestScopeProofs --------------------------
(***************************************************************************)
(* One session per use case, one use case per session, and no connection   *)
(* lost: theorems about RequestScope.                                      *)
(***************************************************************************)
EXTENDS RequestScope, FiniteSetTheorems, TLAPS

(* The providers of the ports of constructors.                             *)
OfPorts == {DEPENDENCY_PROVIDERS[p] : p \in DOMAIN DEPENDENCY_PROVIDERS}

(* What a request still has to get are ports of use cases, while it gets   *)
(* its parts ...                                                           *)
PartsArePorts ==
  \A r \in Requests :
    /\ parts[r] \in Seq(OfPorts)
    /\ pc[r] # "resolve" => parts[r] = <<>>

(* ... and what it has not got of its use case is still to be got.         *)
NothingForgotten ==
  \A r \in Requests : pc[r] # "idle" =>
    \A i \in DOMAIN Ports[useCase[r]] :
      \/ cache[r][BuildUseCase(useCase[r])[i]] # None
      \/ \E j \in DOMAIN parts[r] :
           parts[r][j] = BuildUseCase(useCase[r])[i]

(* Whatever works on a session works on that of the request.               *)
OnOwnSession ==
  \A r \in Requests : \A p \in OnSession :
    cache[r][p] # None => cache[r][p] = cache[r]["get_session"]

(* A connection is held within a transaction, and only there.              *)
HeldInTransaction == \A r \in Requests : connection[r] <=> InTransaction(r)

Holders == {r \in Requests : connection[r]}
ConnectionsAddUp == free + Cardinality(Holders) = PoolSize

(* A global that is set stays set.                                         *)
FoundSet ==
  \A r \in Requests : \A p \in Lazy :
    looked[r][p] = "set" => singleton[p] # None

IInv ==
  /\ TypeOK
  /\ FoundSet
  /\ PartsArePorts
  /\ NothingForgotten
  /\ OnOwnSession
  /\ SessionsAreOwn
  /\ HeldInTransaction
  /\ ConnectionsAddUp

-----------------------------------------------------------------------------
(* The tables of providers                                                 *)

LEMMA ProvidersApart ==
  /\ OfPorts \subseteq Providers /\ "get_session" \in Providers
  /\ "get_session" \notin OfPorts
  /\ OnSession \subseteq Providers /\ Lazy \subseteq Providers
  /\ Shared \subseteq Providers
  /\ "get_session" \notin OnSession /\ "get_session" \notin Lazy
  /\ "get_session" \notin Shared
  /\ Lazy \intersect OnSession = {} /\ Shared \intersect OnSession = {}
<1>1. OfPorts =
        {"get_transaction", "get_user_repo", "get_ott_repo",
         "get_refresh_token_repo", "get_config", "get_event_queue",
         "get_event_publisher", "get_access_token_issuer",
         "get_access_token_verifier"}
  BY DEF OfPorts, DEPENDENCY_PROVIDERS
<1> QED
  BY <1>1 DEF OfPorts, Providers, OnSession, Lazy, Shared

(* What an object on a session, or one of the process, is made of.         *)
LEMMA NeedsOf ==
  /\ \A p \in OnSession : Needs(p) = {"get_session"}
  /\ \A p : \A q \in Needs(p) :
       q \in {"get_session", "get_event_queue", "get_notification_queue"}
  BY DEF Needs, OnSession

LEMMA PortsAreSequences ==
  \A u \in UseCases : \E n \in Nat : DOMAIN Ports[u] = 1 .. n
<1>1. UseCases = {"RegisterUserCase", "VerifyEmailCase", "LoginUserCase",
                  "RefreshTokenCase", "RevokeTokenCase", "ChangePasswordCase",
                  "PasswordRecoverRequestCase", "PasswordRecoverCase"}
  BY DEF UseCases, Ports
<1>2. /\ DOMAIN RegisterPorts = 1 .. 5 /\ DOMAIN VerifyEmailPorts = 1 .. 4
      /\ DOMAIN LoginPorts = 1 .. 6 /\ DOMAIN RefreshPorts = 1 .. 5
      /\ DOMAIN RevokePorts = 1 .. 4 /\ DOMAIN ChangePorts = 1 .. 4
      /\ DOMAIN RecoverRequestPorts = 1 .. 5 /\ DOMAIN RecoverPorts = 1 .. 4
  BY DEF RegisterPorts, VerifyEmailPorts, LoginPorts, RefreshPorts,
         RevokePorts, ChangePorts, RecoverRequestPorts, RecoverPorts
<1>3. /\ Ports["RegisterUserCase"] = RegisterPorts
      /\ Ports["VerifyEmailCase"] = VerifyEmailPorts
      /\ Ports["LoginUserCase"] = LoginPorts
      /\ Ports["RefreshTokenCase"] = RefreshPorts
      /\ Ports["RevokeTokenCase"] = RevokePorts
      /\ Ports["ChangePasswordCase"] = ChangePorts
      /\ Ports["PasswordRecoverRequestCase"] = RecoverRequestPorts
      /\ Ports["PasswordRecoverCase"] = RecoverPorts
  BY DEF Ports
<1> QED
  BY <1>1, <1>2, <1>3

LEMMA BuiltOfPorts ==
  ASSUME NEW u \in UseCases
  PROVE  /\ BuildUseCase(u) \in Seq(OfPorts)
         /\ DOMAIN BuildUseCase(u) = DOMAIN Ports[u]
<1>1. PICK n \in Nat : DOMAIN Ports[u] = 1 .. n
  BY PortsAreSequences
<1>2. \A i \in 1 .. n : DEPENDENCY_PROVIDERS[Ports[u][i]] \in OfPorts
  BY <1>1, EveryPortProvided DEF OfPorts
<1>3. BuildUseCase(u) = [i \in 1 .. n |-> DEPENDENCY_PROVIDERS[Ports[u][i]]]
  BY <1>1 DEF BuildUseCase
<1> QED
  BY <1>1, <1>2, <1>3

LEMMA HeadAndTail ==
  ASSUME NEW S, NEW s \in Seq(S), s # <<>>
  PROVE  /\ Head(s) \in S /\ Tail(s) \in Seq(S)
         /\ \A j \in DOMAIN s : s[j] = Head(s)
              \/ \E k \in DOMAIN Tail(s) : Tail(s)[k] = s[j]
<1>1. /\ Head(s) \in S /\ Tail(s) \in Seq(S) /\ Len(s) \in Nat \ {0}
      /\ DOMAIN s = 1 .. Len(s) /\ Head(s) = s[1]
      /\ DOMAIN Tail(s) = 1 .. Len(s) - 1
      /\ \A k \in 1 .. Len(s) - 1 : Tail(s)[k] = s[k + 1]
  OBVIOUS
<1>2. ASSUME NEW j \in DOMAIN s, j # 1
      PROVE  \E k \in DOMAIN Tail(s) : Tail(s)[k] = s[j]
  <2>1. j - 1 \in DOMAIN Tail(s) /\ Tail(s)[j - 1] = s[j]
    BY <1>1, <1>2
  <2> QED
    BY <2>1
<1> QED
  BY <1>1, <1>2

-----------------------------------------------------------------------------
(* What a call of a provider amounts to                                    *)

(* r gets object from p.                                                   *)
Got(r, p, object) ==
  /\ pc[r] = "resolve" /\ parts[r] # <<>>
  /\ p \in Providers
  /\ object \in 0 .. objects'
  /\ p = "get_session" => object = objects + 1 /\ cache[r][p] = None
  /\ p \in OnSession => object = cache[r]["get_session"]
  /\ Return(r, p, object)

LEMMA ResolveStep ==
  ASSUME IInv, NEW r \in Requests, Resolve(r)
  PROVE  /\ UNCHANGED <<pc, kept>>
         /\ objects' \in {objects, objects + 1}
         /\ \/ \E p, object : Got(r, p, object)
            \/ UNCHANGED <<parts, cache>>
<1> DEFINE Got2 == \E p, object : Got(r, p, object)
<1>0. /\ objects \in Nat /\ None \notin Nat
      /\ \A p \in Providers : cache[r][p] \in {None} \union 0 .. objects
      /\ \A p \in Lazy : singleton[p] \in {None} \union 1 .. objects
      /\ PartsArePorts /\ FoundSet
  BY ScopeAssumption DEF IInv, TypeOK
<1>1. CASE GetSession(r)
  <2>1. Head(parts[r]) # "get_session"
    BY <1>0, <1>1, HeadAndTail, ProvidersApart
       DEF GetSession, Calling, PartsArePorts
  <2>2. Got(r, "get_session", objects + 1)
    BY <1>0, <1>1, <2>1, ProvidersApart
       DEF GetSession, Calling, Missing, Got
  <2> QED
    BY <1>0, <1>1, <2>2 DEF GetSession
<1>2. ASSUME NEW p \in OnSession, OnTheSession(r, p)
      PROVE  Got(r, p, cache[r]["get_session"])
  <2>1. p \notin Missing(r)
    BY NeedsOf DEF Missing, OnSession
  <2>2. cache[r]["get_session"] # None
    BY <1>2, <2>1, NeedsOf DEF OnTheSession, Calling, Missing
  <2>3. cache[r]["get_session"] \in 0 .. objects
    BY <1>0, <2>2, ProvidersApart
  <2> QED
    BY <1>2, <2>3, ProvidersApart DEF OnTheSession, Calling, Got
<1>3. ASSUME NEW p \in Shared, OfTheProcess(r, p)
      PROVE  Got(r, p, TheProcess)
  BY <1>0, <1>3, ProvidersApart DEF OfTheProcess, Calling, Got, TheProcess
<1>4. ASSUME NEW p \in Lazy, ReturnGlobal(r, p)
      PROVE  Got(r, p, singleton[p])
  <2>1. singleton[p] \in 0 .. objects /\ objects' = objects
    BY <1>0, <1>4 DEF ReturnGlobal, FoundSet
  <2> QED
    BY <1>4, <2>1, ProvidersApart DEF ReturnGlobal, Calling, Got
<1>5. ASSUME NEW p \in Lazy, Look(r, p) \/ Make(r, p) \/ ReturnGlobal(r, p)
      PROVE  /\ UNCHANGED <<pc, kept>>
             /\ objects' \in {objects, objects + 1}
             /\ Got2 \/ UNCHANGED <<parts, cache>>
  <2>1. CASE Look(r, p) \/ Make(r, p)
    BY <2>1 DEF Look, Make
  <2>2. CASE ReturnGlobal(r, p)
    <3>1. Got2
      BY <1>4, <2>2
    <3> QED
      BY <2>2, <3>1 DEF ReturnGlobal
  <2> QED
    BY <1>5, <2>1, <2>2
<1>6. ASSUME NEW p \in OnSession, OnTheSession(r, p)
      PROVE  UNCHANGED <<pc, kept>> /\ objects' = objects /\ Got2
  <2>1. Got2
    BY <1>2, <1>6
  <2> QED
    BY <1>6, <2>1 DEF OnTheSession
<1>7. ASSUME NEW p \in Shared, OfTheProcess(r, p)
      PROVE  UNCHANGED <<pc, kept>> /\ objects' = objects /\ Got2
  <2>1. Got2
    BY <1>3, <1>7
  <2> QED
    BY <1>7, <2>1 DEF OfTheProcess
<1> HIDE DEF Got2
<1> QED
  BY <1>1, <1>5, <1>6, <1>7 DEF Resolve, Got2

-----------------------------------------------------------------------------
(* The invariant                                                           *)

LEMMA InitInvariant == Init => IInv
<1> SUFFICES ASSUME Init PROVE IInv
  OBVIOUS
<1>1. "RegisterUserCase" \in UseCases
  BY DEF UseCases, Ports
<1>2. TypeOK
  BY <1>1, ScopeAssumption DEF Init, TypeOK, Steps
<1>3. PartsArePorts /\ NothingForgotten /\ FoundSet
  BY DEF Init, PartsArePorts, NothingForgotten, FoundSet
<1>4. OnOwnSession /\ SessionsAreOwn
  BY ProvidersApart DEF Init, OnOwnSession, SessionsAreOwn
<1>5. HeldInTransaction
  BY DEF Init, HeldInTransaction, InTransaction
<1>6. ConnectionsAddUp
  <2>1. Holders = {} /\ free = PoolSize
    BY DEF Init, Holders
  <2> QED
    BY <2>1, FS_EmptySet, ScopeAssumption DEF ConnectionsAddUp
<1> QED
  BY <1>2, <1>3, <1>4, <1>5, <1>6 DEF IInv

(* The steps of the use case, after its parts are there.                   *)
UseCaseStep(r) ==
  \/ Enter(r) \/ RefusedEarly(r) \/ Checkout(r) \/ PoolTimeout(r)
  \/ \E raised \in BOOLEAN : Aexit(r, raised)
  \/ Publish(r) \/ Respond(r)

LEMMA StepCases ==
  ASSUME NEW r \in Requests, Step(r)
  PROVE  Resolve(r) \/ UseCaseStep(r)
  BY DEF Step, UseCaseStep

(* They leave the parts alone, and start with all of them there.           *)
LEMMA RunningKeepsParts ==
  ASSUME PartsArePorts, NEW r \in Requests, UseCaseStep(r)
  PROVE  /\ UNCHANGED <<useCase, scopeVars, arrivals>>
         /\ pc[r] # "idle" /\ parts[r] = <<>>
         /\ \E step \in Steps \ {"resolve"} : Goto(r, step)
<1>1. UNCHANGED <<useCase, scopeVars, arrivals>>
  BY DEF UseCaseStep, Enter, RefusedEarly, Checkout, PoolTimeout, Aexit, Publish,
         Respond
<1>2. pc[r] # "idle" /\ parts[r] = <<>>
  BY DEF UseCaseStep, Enter, RefusedEarly, Checkout, PoolTimeout, Aexit, Publish,
         Respond, Waiting, InTransaction, PartsArePorts
<1>3. \E step \in Steps \ {"resolve"} : Goto(r, step)
  <2>1. CASE Enter(r)
    BY <2>1 DEF Enter, Steps
  <2>2. CASE RefusedEarly(r)
    BY <2>2 DEF RefusedEarly, Steps
  <2>3. CASE Checkout(r)
    BY <2>3 DEF Checkout, Steps
  <2>4. CASE PoolTimeout(r)
    BY <2>4 DEF PoolTimeout, Steps
  <2>5. ASSUME NEW raised \in BOOLEAN, Aexit(r, raised)
        PROVE  \E step \in Steps \ {"resolve"} : Goto(r, step)
    BY <2>5 DEF Aexit, Steps
  <2>6. CASE Publish(r)
    BY <2>6 DEF Publish, Steps
  <2>7. CASE Respond(r)
    BY <2>7 DEF Respond, Steps
  <2> QED
    BY <2>1, <2>2, <2>3, <2>4, <2>5, <2>6, <2>7 DEF UseCaseStep
<1> QED
  BY <1>1, <1>2, <1>3

(* Type correctness, part by part: what the requests are doing ...         *)
TypeOfRequests ==
  /\ pc \in [Requests -> Steps]
  /\ useCase \in [Requests -> UseCases]
  /\ arrivals \in 0 .. MaxArrivals

(* ... the objects ...                                                     *)
TypeOfObjects ==
  /\ objects \in Nat
  /\ looked \in [Requests -> [Lazy -> {"no", "unset", "set"}]]
  /\ singleton \in [Lazy -> {None} \union 1 .. objects]

(* ... what has been got of them ...                                       *)
TypeOfParts ==
  /\ parts \in [Requests -> Seq(Providers)]
  /\ cache \in [Requests -> [Providers -> {None} \union 0 .. objects]]

(* ... and the pool.                                                       *)
TypeOfPool ==
  /\ free \in 0 .. PoolSize
  /\ connection \in [Requests -> BOOLEAN]

LEMMA TypeParts ==
  TypeOK <=> TypeOfRequests /\ TypeOfObjects /\ TypeOfParts /\ TypeOfPool
  BY DEF TypeOK, TypeOfRequests, TypeOfObjects, TypeOfParts, TypeOfPool

LEMMA RequestsStep ==
  ASSUME IInv, [Next]_vars
  PROVE  TypeOfRequests'
<1>0. TypeOK /\ PartsArePorts
  BY DEF IInv
<1>1. ASSUME NEW r \in Requests, NEW u \in UseCases, Arrive(r, u)
      PROVE  TypeOfRequests'
  BY <1>0, <1>1, ScopeAssumption DEF TypeOK, TypeOfRequests, Arrive, Steps
<1>2. ASSUME NEW r \in Requests, Resolve(r)
      PROVE  TypeOfRequests'
  BY <1>0, <1>2, ResolveStep DEF TypeOK, TypeOfRequests, kept
<1>3. ASSUME NEW r \in Requests, UseCaseStep(r)
      PROVE  TypeOfRequests'
  <2>1. PICK step \in Steps : Goto(r, step)
    BY <1>0, <1>3, RunningKeepsParts
  <2>2. UNCHANGED <<useCase, arrivals>>
    BY <1>0, <1>3, RunningKeepsParts
  <2> QED
    BY <1>0, <2>1, <2>2 DEF TypeOK, TypeOfRequests, Goto
<1>4. CASE UNCHANGED vars
  BY <1>0, <1>4 DEF TypeOK, TypeOfRequests, vars
<1> QED
  BY <1>1, <1>2, <1>3, <1>4, StepCases DEF Next

LEMMA ObjectsStep ==
  ASSUME IInv, [Next]_vars
  PROVE  TypeOfObjects' /\ FoundSet' /\ objects' \in {objects, objects + 1}
<1>0. TypeOK /\ PartsArePorts /\ TypeOfObjects /\ FoundSet
  BY TypeParts DEF IInv
<1> DEFINE Kept == UNCHANGED <<objects, looked, singleton>>
           Done == /\ TypeOfObjects' /\ FoundSet'
                   /\ objects' \in {objects, objects + 1}
<1>1. Kept => Done
  BY <1>0 DEF TypeOfObjects, FoundSet
<1>2. ASSUME NEW r \in Requests, NEW u \in UseCases, Arrive(r, u)
      PROVE  Done
  BY <1>1, <1>2 DEF Arrive
<1>3. ASSUME NEW r \in Requests, UseCaseStep(r)
      PROVE  Done
  BY <1>0, <1>1, <1>3, RunningKeepsParts DEF scopeVars
<1>4. ASSUME NEW r \in Requests, GetSession(r)
      PROVE  Done
  BY <1>0, <1>4 DEF GetSession, TypeOfObjects, FoundSet
<1>5. ASSUME NEW r \in Requests, NEW p \in Lazy,
             NEW found \in {"no", "unset", "set"}, objects' \in Nat,
             looked' = [looked EXCEPT ![r][p] = found],
             objects' \in {objects, objects + 1},
             \/ singleton' = singleton
             \/ singleton' = [singleton EXCEPT ![p] = objects + 1]
                /\ objects' = objects + 1,
             found = "set" => singleton'[p] # None
      PROVE  Done
  <2>1. /\ looked' \in [Requests -> [Lazy -> {"no", "unset", "set"}]]
        /\ looked'[r][p] = found
        /\ \A s \in Requests : \A q \in Lazy :
             <<s, q>> # <<r, p>> => looked'[s][q] = looked[s][q]
    <3>1. looked[r] \in [Lazy -> {"no", "unset", "set"}]
      BY <1>0 DEF TypeOfObjects
    <3>2. PICK w : w = [looked[r] EXCEPT ![p] = found]
      OBVIOUS
    <3>3. /\ w \in [Lazy -> {"no", "unset", "set"}] /\ w[p] = found
          /\ \A q \in Lazy \ {p} : w[q] = looked[r][q]
      BY <3>1, <3>2
    <3>4. looked' = [looked EXCEPT ![r] = w]
      BY <1>5, <3>2
    <3> QED
      BY <1>0, <3>3, <3>4 DEF TypeOfObjects
  <2>2. /\ singleton' \in [Lazy -> {None} \union 1 .. objects']
        /\ \A q \in Lazy : singleton[q] # None => singleton'[q] # None
    BY <1>0, <1>5, ScopeAssumption DEF TypeOfObjects
  <2>3. FoundSet'
    BY <1>0, <1>5, <2>1, <2>2 DEF FoundSet
  <2> QED
    BY <1>5, <2>1, <2>2, <2>3 DEF TypeOfObjects
<1>6. ASSUME NEW r \in Requests, NEW p \in Lazy,
             Look(r, p) \/ Make(r, p) \/ ReturnGlobal(r, p)
      PROVE  Done
  <2>0. objects \in Nat /\ None \notin Nat
        /\ singleton \in [Lazy -> {None} \union 1 .. objects]
    BY <1>0, ScopeAssumption DEF TypeOfObjects
  <2>1. CASE Look(r, p)
    <3>1. PICK found \in {"no", "unset", "set"} :
            found = IF singleton[p] = None THEN "unset" ELSE "set"
      OBVIOUS
    <3>2. /\ looked' = [looked EXCEPT ![r][p] = found]
          /\ singleton' = singleton /\ objects' = objects
      BY <2>1, <3>1 DEF Look
    <3>3. found = "set" => singleton'[p] # None
      BY <3>1, <3>2
    <3> QED
      BY <1>5, <2>0, <3>2, <3>3
  <2>2. CASE Make(r, p)
    <3>1. /\ looked' = [looked EXCEPT ![r][p] = "set"]
          /\ singleton' = [singleton EXCEPT ![p] = objects + 1]
          /\ objects' = objects + 1
      BY <2>2 DEF Make
    <3>2. singleton'[p] # None /\ objects' \in Nat
      BY <2>0, <3>1
    <3> QED
      BY <1>5, <2>0, <3>1, <3>2
  <2>3. CASE ReturnGlobal(r, p)
    <3>1. /\ looked' = [looked EXCEPT ![r][p] = "no"]
          /\ singleton' = singleton /\ objects' = objects
      BY <2>3 DEF ReturnGlobal
    <3> QED
      BY <1>5, <2>0, <3>1
  <2> QED
    BY <1>6, <2>1, <2>2, <2>3
<1>7. ASSUME NEW r \in Requests, NEW p, OnTheSession(r, p) \/ OfTheProcess(r, p)
      PROVE  Done
  BY <1>1, <1>7 DEF OnTheSession, OfTheProcess
<1>8. CASE UNCHANGED vars
  BY <1>1, <1>8 DEF vars, scopeVars
<1>9. ASSUME NEW r \in Requests, Resolve(r)
      PROVE  Done
  BY <1>4, <1>6, <1>7, <1>9 DEF Resolve
<1> QED
  BY <1>2, <1>3, <1>8, <1>9, StepCases DEF Next

(* A call that returns changes the parts and the cache of its request.     *)
LEMMA GotUpdates ==
  ASSUME TypeOK, PartsArePorts, NEW r \in Requests, NEW p, NEW object,
         Got(r, p, object)
  PROVE  /\ parts' \in [Requests -> Seq(Providers)]
         /\ cache' = [cache EXCEPT ![r] = [@ EXCEPT ![p] = object]]
         /\ \A s \in Requests : s # r =>
              parts'[s] = parts[s] /\ cache'[s] = cache[s]
         /\ parts'[r] = IF p = Head(parts[r]) THEN Tail(parts[r]) ELSE parts[r]
         /\ \A q \in Providers :
              cache'[r][q] = IF q = p THEN object ELSE cache[r][q]
         /\ parts'[r] \in Seq(OfPorts)
<1>1. /\ parts[r] \in Seq(Providers) /\ parts[r] \in Seq(OfPorts)
      /\ parts[r] # <<>> /\ p \in Providers
      /\ cache[r] \in [Providers -> {None} \union 0 .. objects]
  BY DEF TypeOK, PartsArePorts, Got
<1>2. Tail(parts[r]) \in Seq(Providers) /\ Tail(parts[r]) \in Seq(OfPorts)
  BY <1>1, HeadAndTail
<1>3. /\ parts' = [parts EXCEPT ![r] = IF p = Head(@) THEN Tail(@) ELSE @]
      /\ cache' = [cache EXCEPT ![r][p] = object]
  BY DEF Got, Return
<1>4. /\ parts' \in [Requests -> Seq(Providers)]
      /\ parts'[r] = IF p = Head(parts[r]) THEN Tail(parts[r]) ELSE parts[r]
      /\ \A s \in Requests : s # r => parts'[s] = parts[s]
  BY <1>1, <1>2, <1>3 DEF TypeOK
<1>5. /\ \A s \in Requests : s # r => cache'[s] = cache[s]
      /\ cache'[r] = [cache[r] EXCEPT ![p] = object]
  BY <1>3 DEF TypeOK
<1> QED
  BY <1>1, <1>2, <1>3, <1>4, <1>5

LEMMA PartsStep ==
  ASSUME IInv, [Next]_vars
  PROVE  TypeOfParts'
<1>0. /\ TypeOK /\ PartsArePorts /\ objects \in Nat
      /\ objects' \in {objects, objects + 1}
  BY ObjectsStep DEF IInv, TypeOK
<1>1. UNCHANGED <<parts, cache>> => TypeOfParts'
  <2>1. SUFFICES ASSUME UNCHANGED <<parts, cache>> PROVE TypeOfParts'
    OBVIOUS
  <2>2. {None} \union 0 .. objects \subseteq {None} \union 0 .. objects'
    BY <1>0
  <2> QED
    BY <1>0, <2>1, <2>2 DEF TypeOK, TypeOfParts
<1>2. ASSUME NEW r \in Requests, NEW u \in UseCases, Arrive(r, u)
      PROVE  TypeOfParts'
  <2>1. BuildUseCase(u) \in Seq(Providers)
    <3>1. PICK n \in Nat : BuildUseCase(u) \in [1 .. n -> OfPorts]
      BY BuiltOfPorts
    <3> QED
      BY <3>1, ProvidersApart
  <2>2. objects' = objects
    BY <1>2 DEF Arrive
  <2> QED
    BY <1>0, <1>2, <2>1, <2>2 DEF TypeOK, TypeOfParts, Arrive
<1>3. ASSUME NEW r \in Requests, UseCaseStep(r)
      PROVE  TypeOfParts'
  BY <1>0, <1>1, <1>3, RunningKeepsParts DEF scopeVars
<1>4. ASSUME NEW r \in Requests, Resolve(r)
      PROVE  TypeOfParts'
  <2>1. CASE UNCHANGED <<parts, cache>>
    BY <1>1, <2>1
  <2>2. ASSUME NEW p, NEW object, Got(r, p, object)
        PROVE  TypeOfParts'
    <3> DEFINE Objects == {None} \union 0 .. objects'
    <3>1. object \in Objects /\ p \in Providers
      BY <2>2 DEF Got
    <3>2. \A s \in Requests : cache[s] \in [Providers -> Objects]
      BY <1>0 DEF TypeOK
    <3>3. cache \in [Requests -> [Providers -> Objects]]
      BY <1>0, <3>2 DEF TypeOK
    <3>4. /\ parts' \in [Requests -> Seq(Providers)]
          /\ cache' = [cache EXCEPT ![r] = [@ EXCEPT ![p] = object]]
      BY <1>0, <2>2, GotUpdates
    <3> HIDE DEF Objects
    <3>5. [cache[r] EXCEPT ![p] = object] \in [Providers -> Objects]
      BY <3>1, <3>2
    <3>6. cache' \in [Requests -> [Providers -> Objects]]
      BY <3>3, <3>4, <3>5
    <3> QED
      BY <3>4, <3>6 DEF TypeOfParts, Objects
  <2> QED
    BY <1>0, <1>4, <2>1, <2>2, ResolveStep
<1>5. CASE UNCHANGED vars
  BY <1>1, <1>5 DEF vars, scopeVars
<1> QED
  BY <1>2, <1>3, <1>4, <1>5, StepCases DEF Next

(* What a request still has to get.                                        *)
LEMMA PartsArePortsStep ==
  ASSUME IInv, [Next]_vars
  PROVE  PartsArePorts'
<1>0. TypeOK /\ PartsArePorts
  BY DEF IInv
<1>1. ASSUME NEW r \in Requests, NEW u \in UseCases, Arrive(r, u)
      PROVE  PartsArePorts'
  <2>1. BuildUseCase(u) \in Seq(OfPorts)
    BY BuiltOfPorts
  <2> QED
    BY <1>0, <1>1, <2>1 DEF TypeOK, PartsArePorts, Arrive
<1>2. ASSUME NEW r \in Requests, Resolve(r)
      PROVE  PartsArePorts'
  <2>0. UNCHANGED pc
    BY <1>0, <1>2, ResolveStep
  <2>1. CASE UNCHANGED <<parts, cache>>
    BY <1>0, <2>0, <2>1 DEF PartsArePorts
  <2>2. ASSUME NEW p, NEW object, Got(r, p, object)
        PROVE  PartsArePorts'
    <3>1. parts'[r] \in Seq(OfPorts) /\ pc[r] = "resolve"
      BY <1>0, <2>2, GotUpdates DEF Got
    <3>2. \A s \in Requests : s # r => parts'[s] = parts[s]
      BY <1>0, <2>2, GotUpdates
    <3> QED
      BY <1>0, <2>0, <3>1, <3>2 DEF PartsArePorts
  <2> QED
    BY <1>0, <1>2, <2>1, <2>2, ResolveStep
<1>3. ASSUME NEW r \in Requests, UseCaseStep(r)
      PROVE  PartsArePorts'
  <2>1. PICK step \in Steps \ {"resolve"} : Goto(r, step)
    BY <1>0, <1>3, RunningKeepsParts
  <2>2. UNCHANGED parts /\ parts[r] = <<>>
    BY <1>0, <1>3, RunningKeepsParts DEF scopeVars
  <2> QED
    BY <1>0, <2>1, <2>2 DEF TypeOK, PartsArePorts, Goto
<1>4. CASE UNCHANGED vars
  BY <1>0, <1>4 DEF vars, scopeVars, PartsArePorts
<1> QED
  BY <1>1, <1>2, <1>3, <1>4, StepCases DEF Next

LEMMA NothingForgottenStep ==
  ASSUME IInv, [Next]_vars
  PROVE  NothingForgotten'
<1>0. TypeOK /\ PartsArePorts /\ NothingForgotten
  BY DEF IInv
<1> DEFINE Known(s) ==
      \A i \in DOMAIN Ports[useCase[s]] :
        \/ cache[s][BuildUseCase(useCase[s])[i]] # None
        \/ \E j \in DOMAIN parts[s] :
             parts[s][j] = BuildUseCase(useCase[s])[i]
<1>1. \A s \in Requests : pc[s] # "idle" => Known(s)
  BY <1>0 DEF NothingForgotten
<1>2. ASSUME NEW s \in Requests, useCase'[s] = useCase[s],
             cache'[s] = cache[s], parts'[s] = parts[s], pc[s] # "idle"
      PROVE  Known(s)'
  <2>1. \A i \in DOMAIN Ports[useCase[s]] :
          \/ cache[s][BuildUseCase(useCase[s])[i]] # None
          \/ \E j \in DOMAIN parts[s] :
               parts[s][j] = BuildUseCase(useCase[s])[i]
    BY <1>1, <1>2
  <2> QED
    BY <1>2, <2>1 DEF BuildUseCase
<1>3. ASSUME NEW r \in Requests, NEW u \in UseCases, Arrive(r, u)
      PROVE  NothingForgotten'
  <2>1. /\ pc' = [pc EXCEPT ![r] = "resolve"]
        /\ useCase' = [useCase EXCEPT ![r] = u]
        /\ parts' = [parts EXCEPT ![r] = BuildUseCase(u)]
        /\ cache' = [cache EXCEPT ![r] = [p \in Providers |-> None]]
    BY <1>3 DEF Arrive
  <2>2. Known(r)'
    <3>1. useCase'[r] = u /\ parts'[r] = BuildUseCase(u)
      BY <1>0, <2>1 DEF TypeOK
    <3>2. DOMAIN BuildUseCase(u) = DOMAIN Ports[u]
      BY BuiltOfPorts
    <3>3. \A i \in DOMAIN Ports[useCase'[r]] :
            \E j \in DOMAIN parts'[r] :
              parts'[r][j] = BuildUseCase(useCase'[r])[i]
      BY <3>1, <3>2
    <3> QED
      BY <3>3 DEF BuildUseCase
  <2>3. ASSUME NEW s \in Requests, s # r, pc'[s] # "idle"
        PROVE  Known(s)'
    <3>1. /\ useCase'[s] = useCase[s] /\ cache'[s] = cache[s]
          /\ parts'[s] = parts[s] /\ pc[s] # "idle"
      BY <1>0, <2>1, <2>3 DEF TypeOK
    <3> QED
      BY <1>2, <3>1
  <2> QED
    BY <2>2, <2>3 DEF NothingForgotten
<1>4. ASSUME NEW r \in Requests, Resolve(r)
      PROVE  NothingForgotten'
  <2>0. UNCHANGED <<pc, useCase>>
    BY <1>0, <1>4, ResolveStep DEF kept
  <2>1. CASE UNCHANGED <<parts, cache>>
    BY <1>2, <2>0, <2>1 DEF NothingForgotten
  <2>2. ASSUME NEW p, NEW object, Got(r, p, object)
        PROVE  NothingForgotten'
    <3>1. object # None
      <4>1. object \in 0 .. objects' /\ objects' \in {objects, objects + 1}
            /\ objects \in Nat
        BY <1>0, <1>4, <2>2, ResolveStep DEF Got, TypeOK
      <4> QED
        BY <4>1, ScopeAssumption
    <3>2. /\ \A s \in Requests : s # r =>
               parts'[s] = parts[s] /\ cache'[s] = cache[s]
          /\ parts'[r] = IF p = Head(parts[r]) THEN Tail(parts[r])
                         ELSE parts[r]
          /\ \A q \in Providers :
               cache'[r][q] = IF q = p THEN object ELSE cache[r][q]
      BY <1>0, <2>2, GotUpdates
    <3>3. parts[r] \in Seq(OfPorts) /\ parts[r] # <<>> /\ pc[r] # "idle"
      BY <1>0, <2>2 DEF PartsArePorts, Got
    <3>4. useCase[r] \in UseCases
      BY <1>0 DEF TypeOK
    <3>5. ASSUME NEW i \in DOMAIN Ports[useCase[r]]
          PROVE  \/ cache'[r][BuildUseCase(useCase[r])[i]] # None
                 \/ \E j \in DOMAIN parts'[r] :
                      parts'[r][j] = BuildUseCase(useCase[r])[i]
      <4>1. PICK q : q = BuildUseCase(useCase[r])[i]
        OBVIOUS
      <4>2. q \in Providers
        <5>1. PICK n \in Nat :
                BuildUseCase(useCase[r]) \in [1 .. n -> OfPorts]
          BY <3>4, BuiltOfPorts
        <5>2. i \in 1 .. n
          BY <3>4, <3>5, <5>1, BuiltOfPorts
        <5> QED
          BY <4>1, <5>1, <5>2, ProvidersApart
      <4>3. cache[r][q] # None \/ \E j \in DOMAIN parts[r] : parts[r][j] = q
        BY <1>1, <3>3, <3>5, <4>1
      <4>4. CASE q = p \/ cache[r][q] # None
        BY <3>1, <3>2, <4>1, <4>2, <4>4
      <4>5. ASSUME NEW j \in DOMAIN parts[r], parts[r][j] = q, q # p
            PROVE  \E k \in DOMAIN parts'[r] : parts'[r][k] = q
        <5>1. CASE p = Head(parts[r])
          <6>1. parts[r][j] # Head(parts[r])
            BY <4>5, <5>1
          <6>2. \E k \in DOMAIN Tail(parts[r]) :
                  Tail(parts[r])[k] = parts[r][j]
            BY <3>3, <6>1, HeadAndTail
          <6> QED
            BY <3>2, <4>5, <5>1, <6>2
        <5>2. CASE p # Head(parts[r])
          BY <3>2, <4>5, <5>2
        <5> QED
          BY <5>1, <5>2
      <4> QED
        BY <4>1, <4>3, <4>4, <4>5
    <3>6. Known(r)'
      BY <2>0, <3>5 DEF BuildUseCase
    <3>7. ASSUME NEW s \in Requests, s # r, pc'[s] # "idle"
          PROVE  Known(s)'
      BY <1>2, <2>0, <3>2, <3>7
    <3> QED
      BY <3>6, <3>7 DEF NothingForgotten
  <2> QED
    BY <1>0, <1>4, <2>1, <2>2, ResolveStep
<1>5. ASSUME NEW r \in Requests, UseCaseStep(r)
      PROVE  NothingForgotten'
  <2>1. PICK step : Goto(r, step)
    BY <1>0, <1>5, RunningKeepsParts
  <2>2. UNCHANGED <<useCase, parts, cache>> /\ pc[r] # "idle"
    BY <1>0, <1>5, RunningKeepsParts DEF scopeVars
  <2>3. \A s \in Requests : pc'[s] # "idle" => pc[s] # "idle"
    BY <1>0, <2>1, <2>2 DEF TypeOK, Goto
  <2> QED
    BY <1>2, <2>2, <2>3 DEF NothingForgotten
<1>6. CASE UNCHANGED vars
  BY <1>2, <1>6 DEF vars, scopeVars, NothingForgotten
<1> QED
  BY <1>3, <1>4, <1>5, <1>6, StepCases DEF Next

(* get_session is called before anything works on the session, and never   *)
(* again; what comes later finds its session in the cache.                 *)
LEMMA OnOwnSessionStep ==
  ASSUME IInv, [Next]_vars
  PROVE  OnOwnSession'
<1>0. TypeOK /\ PartsArePorts /\ OnOwnSession
  BY DEF IInv
<1>1. UNCHANGED cache => OnOwnSession'
  BY <1>0 DEF OnOwnSession
<1>2. ASSUME NEW r \in Requests, NEW u \in UseCases, Arrive(r, u)
      PROVE  OnOwnSession'
  <2>1. cache' = [cache EXCEPT ![r] = [p \in Providers |-> None]]
    BY <1>2 DEF Arrive
  <2>2. \A p \in Providers : cache'[r][p] = None
    BY <1>0, <2>1 DEF TypeOK
  <2>3. \A s \in Requests : s # r => cache'[s] = cache[s]
    BY <1>0, <2>1 DEF TypeOK
  <2> QED
    BY <1>0, <2>2, <2>3, ProvidersApart DEF OnOwnSession
<1>3. ASSUME NEW r \in Requests, Resolve(r)
      PROVE  OnOwnSession'
  <2>1. ASSUME NEW p, NEW object, Got(r, p, object)
        PROVE  OnOwnSession'
    <3>1. /\ \A s \in Requests : s # r => cache'[s] = cache[s]
          /\ \A q \in Providers :
               cache'[r][q] = IF q = p THEN object ELSE cache[r][q]
      BY <1>0, <2>1, GotUpdates
    <3>2. \A q \in OnSession : cache[r][q] # None =>
            cache[r][q] = cache[r]["get_session"]
      BY <1>0 DEF OnOwnSession
    <3>3. CASE p = "get_session"
      <4>1. cache[r]["get_session"] = None
        BY <2>1, <3>3 DEF Got
      <4>2. \A q \in OnSession : cache'[r][q] = None
        BY <3>1, <3>2, <3>3, <4>1, ProvidersApart
      <4> QED
        BY <1>0, <3>1, <4>2 DEF OnOwnSession
    <3>4. CASE p # "get_session"
      <4>1. cache'[r]["get_session"] = cache[r]["get_session"]
        BY <3>1, <3>4, ProvidersApart
      <4>2. p \in OnSession => object = cache[r]["get_session"]
        BY <2>1 DEF Got
      <4>3. ASSUME NEW q \in OnSession, cache'[r][q] # None
            PROVE  cache'[r][q] = cache'[r]["get_session"]
        BY <3>1, <3>2, <4>1, <4>2, <4>3, ProvidersApart
      <4> QED
        BY <1>0, <3>1, <4>3 DEF OnOwnSession
    <3> QED
      BY <3>3, <3>4
  <2> QED
    BY <1>0, <1>1, <1>3, <2>1, ResolveStep
<1>4. ASSUME NEW r \in Requests, UseCaseStep(r)
      PROVE  OnOwnSession'
  BY <1>0, <1>1, <1>4, RunningKeepsParts DEF scopeVars
<1>5. CASE UNCHANGED vars
  BY <1>1, <1>5 DEF vars, scopeVars
<1> QED
  BY <1>2, <1>3, <1>4, <1>5, StepCases DEF Next

(* A new session is newer than all that requests have.                     *)
LEMMA SessionsAreOwnStep ==
  ASSUME IInv, [Next]_vars
  PROVE  SessionsAreOwn'
<1>0. TypeOK /\ PartsArePorts /\ SessionsAreOwn
  BY DEF IInv
<1> DEFINE Session(s) == cache[s]["get_session"]
<1>1. ASSUME NEW r \in Requests,
             \A s \in Requests : s # r => Session(s)' = Session(s),
             \/ Session(r)' \in {None, Session(r)}
             \/ \A s \in Requests : Session(s) # Session(r)'
      PROVE  SessionsAreOwn'
  <2>1. \A s, t \in Requests : s # t /\ Session(s) # None =>
          Session(s) # Session(t)
    BY <1>0 DEF SessionsAreOwn
  <2> HIDE DEF Session
  <2>2. \A s, t \in Requests : s # t /\ Session(s)' # None =>
          Session(s)' # Session(t)'
    BY <1>1, <2>1
  <2> QED
    BY <2>2 DEF SessionsAreOwn, Session
<1>2. ASSUME NEW r \in Requests, NEW u \in UseCases, Arrive(r, u)
      PROVE  SessionsAreOwn'
  <2>1. cache' = [cache EXCEPT ![r] = [p \in Providers |-> None]]
    BY <1>2 DEF Arrive
  <2>2. Session(r)' = None
    BY <1>0, <2>1, ProvidersApart DEF TypeOK
  <2>3. \A s \in Requests : s # r => Session(s)' = Session(s)
    BY <1>0, <2>1 DEF TypeOK
  <2> QED
    BY <1>1, <2>2, <2>3
<1>3. UNCHANGED cache => SessionsAreOwn'
  BY <1>0 DEF SessionsAreOwn
<1>4. ASSUME NEW r \in Requests, Resolve(r)
      PROVE  SessionsAreOwn'
  <2>1. ASSUME NEW p, NEW object, Got(r, p, object)
        PROVE  SessionsAreOwn'
    <3>1. /\ \A s \in Requests : s # r => Session(s)' = Session(s)
          /\ Session(r)' = IF p = "get_session" THEN object ELSE Session(r)
      BY <1>0, <2>1, GotUpdates, ProvidersApart
    <3>2. CASE p = "get_session"
      <4>1. object = objects + 1
        BY <2>1, <3>2 DEF Got
      <4>2. ASSUME NEW s \in Requests
            PROVE  Session(s) # object
        <5>1. Session(s) \in {None} \union 0 .. objects /\ objects \in Nat
          BY <1>0, ProvidersApart DEF TypeOK
        <5> QED
          BY <4>1, <5>1, ScopeAssumption
      <4> QED
        BY <1>1, <3>1, <3>2, <4>2
    <3>3. CASE p # "get_session"
      BY <1>1, <3>1, <3>3
    <3> QED
      BY <3>2, <3>3
  <2> QED
    BY <1>0, <1>3, <1>4, <2>1, ResolveStep
<1>5. ASSUME NEW r \in Requests, UseCaseStep(r)
      PROVE  SessionsAreOwn'
  BY <1>0, <1>3, <1>5, RunningKeepsParts DEF scopeVars
<1>6. CASE UNCHANGED vars
  BY <1>3, <1>6 DEF vars, scopeVars
<1> QED
  BY <1>2, <1>4, <1>5, <1>6, StepCases DEF Next

(* The pool gives to one and takes from one.                               *)
PoolInv == TypeOfPool /\ HeldInTransaction /\ ConnectionsAddUp

LEMMA PoolStep ==
  ASSUME IInv, [Next]_vars
  PROVE  PoolInv'
<1>0. /\ TypeOK /\ HeldInTransaction /\ ConnectionsAddUp
      /\ PartsArePorts /\ TypeOfPool
  BY TypeParts DEF IInv
<1>1. /\ IsFiniteSet(Holders) /\ Cardinality(Holders) \in Nat
      /\ free \in Nat /\ PoolSize \in Nat
  <2>1. IsFiniteSet(Holders)
    BY ScopeAssumption, FS_Subset DEF Holders
  <2> QED
    BY <1>0, <2>1, FS_CardinalityType, ScopeAssumption DEF TypeOK
<1>2. ASSUME UNCHANGED poolVars,
             \A s \in Requests : InTransaction(s)' <=> InTransaction(s)
      PROVE  PoolInv'
  <2>1. Holders' = Holders /\ free' = free /\ connection' = connection
    BY <1>2 DEF poolVars, Holders
  <2> QED
    BY <1>0, <1>2, <2>1
       DEF PoolInv, TypeOfPool, HeldInTransaction, ConnectionsAddUp
<1>3. ASSUME NEW r \in Requests, NEW step, UNCHANGED poolVars,
             Goto(r, step), ~InTransaction(r),
             step \notin {"transaction", "transaction_again"}
      PROVE  PoolInv'
  <2>1. \A s \in Requests : InTransaction(s)' <=> InTransaction(s)
    BY <1>0, <1>3 DEF TypeOK, Goto, InTransaction
  <2> QED
    BY <1>2, <1>3, <2>1
<1>4. ASSUME NEW r \in Requests, NEW u \in UseCases, Arrive(r, u)
      PROVE  PoolInv'
  BY <1>3, <1>4 DEF Arrive, Goto, InTransaction
<1>5. ASSUME NEW r \in Requests, Resolve(r)
      PROVE  PoolInv'
  <2>1. UNCHANGED <<pc, poolVars>>
    BY <1>0, <1>5, ResolveStep DEF kept
  <2> QED
    BY <1>2, <2>1 DEF InTransaction
<1>6. ASSUME NEW r \in Requests, Checkout(r)
      PROVE  PoolInv'
  <2>1. PICK step \in {"transaction", "transaction_again"} : Goto(r, step)
    BY <1>6 DEF Checkout
  <2>2. /\ free > 0 /\ free' = free - 1
        /\ connection' = [connection EXCEPT ![r] = TRUE]
        /\ ~InTransaction(r)
    BY <1>6 DEF Checkout, Waiting, InTransaction
  <2>3. r \notin Holders
    BY <1>0, <2>2 DEF HeldInTransaction, Holders
  <2>4. connection' \in [Requests -> BOOLEAN]
    BY <1>0, <2>2, Zenon DEF TypeOfPool
  <2>5. \A s \in Requests : connection'[s] <=> s = r \/ connection[s]
    BY <1>0, <2>2, Zenon DEF TypeOfPool
  <2>6. Holders' = Holders \union {r}
    BY <2>5 DEF Holders
  <2>7. Cardinality(Holders') = Cardinality(Holders) + 1
    BY <1>1, <2>3, <2>6, FS_AddElement
  <2>8. ConnectionsAddUp'
    BY <1>0, <1>1, <2>2, <2>7 DEF ConnectionsAddUp
  <2>9. \A s \in Requests : InTransaction(s)' <=> s = r \/ InTransaction(s)
    BY <1>0, <2>1 DEF TypeOK, Goto, InTransaction
  <2>10. HeldInTransaction'
    BY <1>0, <2>5, <2>9, Zenon DEF HeldInTransaction
  <2>11. free' \in 0 .. PoolSize
    BY <1>0, <1>1, <2>2 DEF TypeOfPool
  <2> QED
    BY <2>4, <2>8, <2>10, <2>11 DEF PoolInv, TypeOfPool
<1>7. ASSUME NEW r \in Requests, NEW raised, Aexit(r, raised)
      PROVE  PoolInv'
  <2>1. PICK step \in {"publish", "respond", "begin_again"} : Goto(r, step)
    BY <1>7 DEF Aexit
  <2>2. /\ free' = free + 1
        /\ connection' = [connection EXCEPT ![r] = FALSE]
        /\ InTransaction(r)
    BY <1>7 DEF Aexit
  <2>3. r \in Holders
    BY <1>0, <2>2 DEF HeldInTransaction, Holders
  <2>4. connection' \in [Requests -> BOOLEAN]
    BY <1>0, <2>2, Zenon DEF TypeOfPool
  <2>5. \A s \in Requests : connection'[s] <=> s # r /\ connection[s]
    BY <1>0, <2>2, Zenon DEF TypeOfPool
  <2>6. Holders' = Holders \ {r}
    BY <2>5 DEF Holders
  <2>7. /\ Cardinality(Holders') = Cardinality(Holders) - 1
        /\ IsFiniteSet(Holders')
    BY <1>1, <2>3, <2>6, FS_RemoveElement
  <2>8. ConnectionsAddUp'
    BY <1>0, <1>1, <2>2, <2>7 DEF ConnectionsAddUp
  <2>9. \A s \in Requests : InTransaction(s)' <=> s # r /\ InTransaction(s)
    BY <1>0, <2>1 DEF TypeOK, Goto, InTransaction
  <2>10. HeldInTransaction'
    BY <1>0, <2>5, <2>9, Zenon DEF HeldInTransaction
  <2>11. free' \in 0 .. PoolSize
    <3>1. Cardinality(Holders') \in Nat
      BY <2>7, FS_CardinalityType
    <3> QED
      BY <1>1, <2>2, <2>8, <3>1 DEF ConnectionsAddUp
  <2> QED
    BY <2>4, <2>8, <2>10, <2>11 DEF PoolInv, TypeOfPool
<1>8. ASSUME NEW r \in Requests,
             \/ Enter(r) \/ RefusedEarly(r) \/ PoolTimeout(r)
             \/ Publish(r) \/ Respond(r)
      PROVE  PoolInv'
  <2>1. UNCHANGED poolVars /\ ~InTransaction(r)
    BY <1>8 DEF Enter, RefusedEarly, PoolTimeout, Publish, Respond, Waiting,
                InTransaction
  <2>2. \E step \in {"begin", "respond", "idle"} : Goto(r, step)
    BY <1>8 DEF Enter, RefusedEarly, PoolTimeout, Publish, Respond
  <2> QED
    BY <1>3, <2>1, <2>2
<1>9. CASE UNCHANGED vars
  BY <1>2, <1>9 DEF vars, InTransaction
<1>10. ASSUME NEW r \in Requests, UseCaseStep(r)
       PROVE  PoolInv'
  BY <1>6, <1>7, <1>8, <1>10 DEF UseCaseStep
<1> QED
  BY <1>4, <1>5, <1>9, <1>10, StepCases DEF Next

LEMMA StepInvariant == IInv /\ [Next]_vars => IInv'
<1> SUFFICES ASSUME IInv, [Next]_vars PROVE IInv'
  OBVIOUS
<1>1. TypeOfRequests' /\ TypeOfObjects' /\ FoundSet' /\ TypeOfParts' /\ PoolInv'
  BY RequestsStep, ObjectsStep, PartsStep, PoolStep
<1>2. TypeOK'
  BY <1>1
     DEF TypeOK, TypeOfRequests, TypeOfObjects, TypeOfParts, TypeOfPool, PoolInv
<1>3. PartsArePorts' /\ NothingForgotten'
  BY PartsArePortsStep, NothingForgottenStep
<1>4. OnOwnSession' /\ SessionsAreOwn'
  BY OnOwnSessionStep, SessionsAreOwnStep
<1> QED
  BY <1>1, <1>2, <1>3, <1>4 DEF IInv, PoolInv

-----------------------------------------------------------------------------
(* The theorems                                                            *)

(* Requests, their parts and the pool keep their types, whatever the       *)
(* requests, the pool's size and the number of arrivals.                   *)
(* (nexus.py:24-140; cases.py:73-127)                                      *)
THEOREM TypeCorrect == Spec => []TypeOK
<1>1. IInv => TypeOK
  BY DEF IInv
<1> QED
  BY <1>1, InitInvariant, StepInvariant, PTL DEF Spec

(* A use case starts with all its parts there, its transaction and its     *)
(* repositories on one session: what it saves is committed together.       *)
(* (nexus.py:95-140; transaction.py:5-15)                                  *)
THEOREM PartsOnOneSession == Spec => []OneSessionPerUseCase
<1>1. IInv => OneSessionPerUseCase
  <2> SUFFICES ASSUME IInv, NEW r \in Requests, Running(r),
                      NEW i \in DOMAIN Ports[useCase[r]],
                      NEW p, p = BuildUseCase(useCase[r])[i]
               PROVE  /\ cache[r][p] # None
                      /\ p \in OnSession =>
                           cache[r][p] = cache[r]["get_session"]
    BY DEF OneSessionPerUseCase
  <2>1. pc[r] # "idle" /\ parts[r] = <<>>
    BY DEF IInv, Running, PartsArePorts
  <2>2. cache[r][p] # None
    BY <2>1 DEF IInv, NothingForgotten
  <2> QED
    BY <2>2 DEF IInv, OnOwnSession
<1> QED
  BY <1>1, InitInvariant, StepInvariant, PTL DEF Spec

(* However the calls of the providers of different requests interleave, no *)
(* two requests get the same session.  (nexus.py:95-96)                    *)
THEOREM NoSharedSession == Spec => []SessionsAreOwn
<1>1. IInv => SessionsAreOwn
  BY DEF IInv
<1> QED
  BY <1>1, InitInvariant, StepInvariant, PTL DEF Spec

(* The connections of the pool are free or held by a request that is in    *)
(* its transaction, whatever ends it; none is held while Redis is asked.   *)
(* (transaction.py:8-15)                                                   *)
THEOREM NoConnectionLost == Spec => []ConnectionsAccounted
<1>1. IInv => ConnectionsAccounted
  BY DEF IInv, ConnectionsAccounted, ConnectionsAddUp, Holders,
         HeldInTransaction
<1> QED
  BY <1>1, InitInvariant, StepInvariant, PTL DEF Spec

=============================================================================
