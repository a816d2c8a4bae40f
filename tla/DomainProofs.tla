---------------------------- MODULE DomainProofs -----------------------------
(***************************************************************************)
(* The domain layer: what a user's events tell and which passwords open    *)
(* the account, theorems about UserEntity; and what the security policy of *)
(* refresh tokens suspects and reports, theorems about ClientMetadata.     *)
(***************************************************************************)
EXTENDS UserEntity, ClientMetadata, TLAPS

(* What is stored is the password last accepted, stripped, and bcrypt      *)
(* takes it.                                                               *)
StoredIsGiven ==
  Exists => /\ user.password = Strip(given)
            /\ HashError(user.password) = "ok"

IInv ==
  /\ TypeOK
  /\ EventsTellState
  /\ RequestsMatchStory
  /\ StoredIsGiven

-----------------------------------------------------------------------------
(* The kinds of steps, by what they leave in the story                     *)

Tells(type) == Emit(type) /\ Done

(* A call that raises, one that only looks, and a pull.                    *)
Quiet ==
  /\ UNCHANGED <<user, given>>
  /\ outcome' \in Outcomes
  /\ \/ UNCHANGED <<events, pulled>>
     \/ pulled' = pulled \o events /\ events' = <<>>

Created(p) ==
  /\ ~Exists /\ PasswordError(p) = "ok"
  /\ user' = [password |-> Strip(p), active |-> TRUE, verified |-> FALSE]
  /\ given' = p
  /\ Tells(Creation)

PasswordSet(p, type) ==
  /\ Exists /\ PasswordError(p) = "ok"
  /\ user' = [user EXCEPT !.password = Strip(p)]
  /\ given' = p
  /\ Tells(type)

Verified ==
  /\ Exists /\ ~user.verified
  /\ user' = [user EXCEPT !.verified = TRUE]
  /\ UNCHANGED given
  /\ Tells("UserEmailVerified")

Requested(verified, type) ==
  /\ Exists /\ user.verified = verified
  /\ UNCHANGED <<user, given>>
  /\ Tells(type)

ActiveSet(active, type) ==
  /\ Exists /\ user.active # active
  /\ user' = [user EXCEPT !.active = active]
  /\ UNCHANGED given
  /\ Tells(type)

Kinds ==
  \/ Quiet
  \/ \E p \in RawPasswords : Created(p)
  \/ \E p \in RawPasswords, type \in PasswordEvents : PasswordSet(p, type)
  \/ Verified
  \/ Requested(FALSE, "UserEmailVerificationRequested")
  \/ Requested(TRUE, "UserPasswordRecoverRequested")
  \/ ActiveSet(TRUE, "UserActivated")
  \/ ActiveSet(FALSE, "UserDeactivated")

LEMMA ErrorsKnown ==
  /\ \A e \in Emails : EmailError(e) \in Outcomes
  /\ \A p \in RawPasswords : PasswordError(p) \in Outcomes
  /\ \A p \in RawPasswords : \A hash : Checked(p, hash) \in Outcomes
  /\ \A p \in RawPasswords : LoginOutcome(p) \in Outcomes
  BY DEF EmailError, PasswordError, HashError, Checked, LoginOutcome, Outcomes,
         Errors

LEMMA RaiseIsQuiet ==
  ASSUME NEW error \in Outcomes, Raise(error)
  PROVE  Quiet
  BY DEF Raise, Quiet

LEMMA StepKinds ==
  ASSUME TypeOK, [Next]_vars
  PROVE  Kinds
<1> DEFINE K == Kinds
<1>0. "UserError" \in Outcomes /\ "ok" \in Outcomes /\ "ValueError" \in Outcomes
  BY DEF Outcomes, Errors
<1>q. Quiet => K
  BY DEF Kinds
<1>1. ASSUME NEW p \in RawPasswords, NEW e \in Emails, Create(e, p)
      PROVE  K
  <2>1. CASE Raise(EmailError(e)) \/ Raise(PasswordError(p))
    BY <1>q, <2>1, ErrorsKnown, RaiseIsQuiet
  <2>2. Created(p) => K
    BY DEF Kinds
  <2> HIDE DEF K
  <2> QED
    BY <1>1, <2>1, <2>2 DEF Create, Created, Tells
<1>2. ASSUME NEW p \in RawPasswords, AssertCanLogin(p) \/ VerifyPassword(p)
      PROVE  K
  BY <1>q, <1>2, ErrorsKnown, RaiseIsQuiet DEF AssertCanLogin, VerifyPassword
<1>3. ASSUME NEW p \in RawPasswords, NEW type \in PasswordEvents, Exists,
             PasswordError(p) = "ok", SetPassword(p, type)
      PROVE  K
  <2>1. PasswordSet(p, type)
    BY <1>3 DEF SetPassword, PasswordSet, Tells
  <2> QED
    BY <2>1 DEF Kinds
<1>4. ASSUME NEW p \in RawPasswords, RecoverPassword(p)
      PROVE  K
  <2>1. CASE Raise(PasswordError(p))
    BY <1>q, <2>1, ErrorsKnown, RaiseIsQuiet
  <2> QED
    BY <1>3, <1>4, <2>1 DEF RecoverPassword, PasswordEvents
<1>5. ASSUME NEW p \in RawPasswords, NEW new \in RawPasswords,
             ChangePassword(p, new)
      PROVE  K
  <2>1. CASE \/ Raise("ValueError") \/ Raise("UserError")
             \/ Raise(PasswordError(new))
    BY <1>0, <1>q, <2>1, ErrorsKnown, RaiseIsQuiet
  <2> QED
    BY <1>3, <1>5, <2>1 DEF ChangePassword, PasswordEvents
<1>6. CASE RequestEmailVerification \/ RequestPasswordRecover
  <2>1. CASE Raise("UserError")
    BY <1>0, <1>q, <2>1, RaiseIsQuiet
  <2>2. CASE RequestEmailVerification
    BY <2>1, <2>2 DEF RequestEmailVerification, Request, Requested, Tells, Kinds
  <2>3. CASE RequestPasswordRecover
    BY <2>1, <2>3 DEF RequestPasswordRecover, Request, Requested, Tells, Kinds
  <2> QED
    BY <1>6, <2>2, <2>3
<1>7. CASE VerifyEmail
  <2>1. CASE Raise("UserError")
    BY <1>0, <1>q, <2>1, RaiseIsQuiet
  <2> QED
    BY <1>7, <2>1 DEF VerifyEmail, Verified, Tells, Kinds
<1>8. CASE Activate \/ Deactivate
  <2>1. CASE Raise("UserError")
    BY <1>0, <1>q, <2>1, RaiseIsQuiet
  <2>2. CASE Activate
    BY <2>1, <2>2 DEF Activate, SetActive, ActiveSet, Tells, Kinds
  <2>3. CASE Deactivate
    BY <2>1, <2>3 DEF Deactivate, SetActive, ActiveSet, Tells, Kinds
  <2> QED
    BY <1>8, <2>2, <2>3
<1>9. CASE Pull
  BY <1>0, <1>9, <1>q DEF Pull, Quiet
<1>10. CASE UNCHANGED vars
  BY <1>10, <1>q DEF vars, Quiet, TypeOK
<1> QED
  BY <1>1, <1>2, <1>4, <1>5, <1>6, <1>7, <1>8, <1>9, <1>10 DEF Next

-----------------------------------------------------------------------------
(* The story                                                               *)

LEMMA Joined ==
  ASSUME NEW S, NEW s \in Seq(S), NEW t \in Seq(S), NEW x \in S
  PROVE  /\ s \o t \in Seq(S)
         /\ (s \o t) \o <<>> = s \o t
         /\ s \o Append(t, x) = Append(s \o t, x)
<1>1. s \o t \in Seq(S) /\ (s \o t) \o <<>> = s \o t
  OBVIOUS
<1>2. s \o Append(t, x) \in Seq(S) /\ Append(s \o t, x) \in Seq(S)
  OBVIOUS
<1>3. Len(s \o Append(t, x)) = Len(Append(s \o t, x))
  OBVIOUS
<1>4. ASSUME NEW i \in 1 .. Len(s) + Len(t) + 1
      PROVE  (s \o Append(t, x))[i] = Append(s \o t, x)[i]
  OBVIOUS
<1> QED
  BY <1>1, <1>2, <1>3, <1>4

LEMMA StoryType ==
  ASSUME TypeOK
  PROVE  /\ Story \in Seq(EventTypes) /\ Len(Story) \in Nat
         /\ DOMAIN Story = 1 .. Len(Story)
         /\ \A t : Told(t) \subseteq 1 .. Len(Story)
<1>1. Story \in Seq(EventTypes)
  BY DEF TypeOK, Story
<1> QED
  BY <1>1 DEF Told

(* An event is told at the end of the story, and nothing else changes.     *)
LEMMA TellsAtTheEnd ==
  ASSUME TypeOK, NEW type \in EventTypes, Tells(type)
  PROVE  /\ Story' # <<>>
         /\ \A t : Told(t)' = IF t = type THEN Told(t) \union {Len(Story) + 1}
                              ELSE Told(t)
<1>1. Story \in Seq(EventTypes)
  BY StoryType
<1>2. Story' = Append(Story, type)
  BY Joined DEF TypeOK, Tells, Emit, Done, Story
<1>3. /\ Story' # <<>> /\ DOMAIN Story' = 1 .. Len(Story) + 1
      /\ \A i \in 1 .. Len(Story) : Story'[i] = Story[i]
      /\ Story'[Len(Story) + 1] = type
      /\ DOMAIN Story = 1 .. Len(Story) /\ Len(Story) \in Nat
  BY <1>1, <1>2
<1>4. ASSUME NEW t
      PROVE  Told(t)' = IF t = type THEN Told(t) \union {Len(Story) + 1}
                        ELSE Told(t)
  <2>1. Told(t)' = {i \in DOMAIN Story' : Story'[i] = t}
    BY DEF Told
  <2>2. Told(t) = {i \in DOMAIN Story : Story[i] = t}
    BY DEF Told
  <2> HIDE DEF Story
  <2> QED
    BY <1>3, <2>1, <2>2
<1> QED
  BY <1>3, <1>4

LEMMA QuietKeepsStory ==
  ASSUME TypeOK, Quiet
  PROVE  Story' = Story /\ \A t : Told(t)' = Told(t)
<1>1. Story' = Story
  BY DEF TypeOK, Quiet, Story
<1> QED
  BY <1>1 DEF Told

(* The fields that the kinds of steps leave behind.                        *)
LEMMA FieldsAfter ==
  ASSUME TypeOK
  PROVE  /\ \A p \in RawPasswords : Created(p) =>
              Exists' /\ user'.active = TRUE /\ user'.verified = FALSE
         /\ \A p \in RawPasswords : \A type : PasswordSet(p, type) =>
              /\ Exists /\ Exists'
              /\ user'.active = user.active /\ user'.verified = user.verified
         /\ Verified =>
              /\ Exists /\ Exists'
              /\ user'.active = user.active
              /\ user.verified = FALSE /\ user'.verified = TRUE
         /\ \A active \in BOOLEAN : \A type : ActiveSet(active, type) =>
              /\ Exists /\ Exists'
              /\ user.active = ~active /\ user'.active = active
              /\ user'.verified = user.verified
         /\ Exists => user.active \in BOOLEAN /\ user.verified \in BOOLEAN
<1>0. ASSUME Exists
      PROVE  /\ user \in UserRecords
             /\ user.active \in BOOLEAN /\ user.verified \in BOOLEAN
  BY <1>0 DEF TypeOK, Exists, UserRecords
<1>1. ASSUME NEW u \in UserRecords
      PROVE  u # NoUser
  BY <1>1, UserEntityAssumption
<1>2. ASSUME NEW p \in RawPasswords, Created(p)
      PROVE  Exists' /\ user'.active = TRUE /\ user'.verified = FALSE
  <2>1. user' = [password |-> Strip(p), active |-> TRUE, verified |-> FALSE]
    BY <1>2 DEF Created
  <2>2. user' \in UserRecords
    BY <1>2, <2>1, Zenon DEF UserRecords, Strip, RawPasswords
  <2> QED
    BY <1>1, <2>1, <2>2 DEF Exists
<1>3. ASSUME NEW p \in RawPasswords, NEW type, PasswordSet(p, type)
      PROVE  /\ Exists /\ Exists'
             /\ user'.active = user.active /\ user'.verified = user.verified
  <2>1. Exists /\ user' = [user EXCEPT !.password = Strip(p)]
    BY <1>3 DEF PasswordSet
  <2>2. user' \in UserRecords
    BY <1>0, <1>3, <2>1 DEF UserRecords, Strip, RawPasswords
  <2> QED
    BY <1>0, <1>1, <2>1, <2>2 DEF Exists, UserRecords
<1>4. ASSUME Verified
      PROVE  /\ Exists /\ Exists'
             /\ user'.active = user.active
             /\ user.verified = FALSE /\ user'.verified = TRUE
  <2>1. Exists /\ ~user.verified /\ user' = [user EXCEPT !.verified = TRUE]
    BY <1>4 DEF Verified
  <2>2. user' \in UserRecords
    BY <1>0, <2>1, Zenon DEF UserRecords
  <2>3. user'.active = user.active /\ user'.verified = TRUE
    BY <1>0, <2>1, Zenon DEF UserRecords
  <2>4. user.verified = FALSE
    BY <1>0, <2>1
  <2> QED
    BY <1>1, <2>1, <2>2, <2>3, <2>4 DEF Exists
<1>5. ASSUME NEW active \in BOOLEAN, NEW type, ActiveSet(active, type)
      PROVE  /\ Exists /\ Exists'
             /\ user.active = ~active /\ user'.active = active
             /\ user'.verified = user.verified
  <2>1. /\ Exists /\ user.active # active
        /\ user' = [user EXCEPT !.active = active]
    BY <1>5 DEF ActiveSet
  <2>2. user' \in UserRecords
    BY <1>0, <2>1, Zenon DEF UserRecords
  <2>3. user'.active = active /\ user'.verified = user.verified
    BY <1>0, <2>1, Zenon DEF UserRecords
  <2>4. user.active = ~active
    BY <1>0, <2>1
  <2> QED
    BY <1>1, <2>1, <2>2, <2>3, <2>4 DEF Exists
<1> QED
  BY <1>0, <1>2, <1>3, <1>4, <1>5

LEMMA UserTypeStep ==
  ASSUME TypeOK, Kinds
  PROVE  user' \in UserRecords \union {NoUser} /\ given' \in RawPasswords
<1> DEFINE Done1 == user' \in UserRecords \union {NoUser} /\ given' \in RawPasswords
<1>0. /\ Exists => user \in UserRecords
      /\ user \in UserRecords \union {NoUser} /\ given \in RawPasswords
  BY DEF TypeOK, Exists
<1>1. ASSUME UNCHANGED <<user, given>> PROVE Done1
  BY <1>0, <1>1
<1>2. ASSUME NEW p \in RawPasswords, Created(p) PROVE Done1
  <2>1. user' \in UserRecords
    BY <1>2, Zenon DEF Created, UserRecords, Strip, RawPasswords
  <2> QED
    BY <1>2, <2>1 DEF Created
<1>3. ASSUME NEW p \in RawPasswords, NEW type, PasswordSet(p, type) PROVE Done1
  <2>1. user' \in UserRecords
    BY <1>0, <1>3 DEF PasswordSet, UserRecords, Strip, RawPasswords
  <2> QED
    BY <1>3, <2>1 DEF PasswordSet
<1>4. ASSUME Verified PROVE Done1
  <2>1. user' \in UserRecords
    BY <1>0, <1>4, Zenon DEF Verified, UserRecords
  <2> QED
    BY <1>0, <1>4, <2>1 DEF Verified
<1>5. ASSUME NEW active \in BOOLEAN, NEW type, ActiveSet(active, type)
      PROVE  Done1
  <2>1. user' \in UserRecords
    BY <1>0, <1>5, Zenon DEF ActiveSet, UserRecords
  <2> QED
    BY <1>0, <1>5, <2>1 DEF ActiveSet
<1>6. ASSUME NEW verified, NEW type, Requested(verified, type) PROVE Done1
  BY <1>1, <1>6 DEF Requested
<1>7. Quiet => Done1
  BY <1>1 DEF Quiet
<1> HIDE DEF Done1
<1>8. Done1
  BY <1>2, <1>3, <1>4, <1>5, <1>6, <1>7 DEF Kinds
<1> QED
  BY <1>8 DEF Done1

LEMMA TypeStep ==
  ASSUME TypeOK, Kinds
  PROVE  TypeOK'
<1>1. \A type \in EventTypes : Tells(type) =>
        /\ events' \in Seq(EventTypes) /\ pulled' \in Seq(EventTypes)
        /\ outcome' \in Outcomes
  BY DEF TypeOK, Tells, Emit, Done, Outcomes
<1>2. Quiet => /\ events' \in Seq(EventTypes) /\ pulled' \in Seq(EventTypes)
               /\ outcome' \in Outcomes
  <2>1. pulled \o events \in Seq(EventTypes) /\ <<>> \in Seq(EventTypes)
    BY DEF TypeOK
  <2> QED
    BY <2>1 DEF TypeOK, Quiet
<1>3. Quiet \/ \E type \in EventTypes : Tells(type)
  BY DEF Kinds, Created, PasswordSet, Verified, Requested, ActiveSet,
         EventTypes, PasswordEvents, StatusEvents, Creation
<1> QED
  BY <1>1, <1>2, <1>3, UserTypeStep DEF TypeOK

LEMMA TypesOfEvents ==
  /\ {Creation, "UserEmailVerified", "UserActivated", "UserDeactivated",
      "UserEmailVerificationRequested", "UserPasswordRecoverRequested"}
       \union PasswordEvents \subseteq EventTypes
  /\ \A type \in PasswordEvents :
       type \notin {Creation, "UserEmailVerified", "UserActivated",
                    "UserDeactivated", "UserEmailVerificationRequested",
                    "UserPasswordRecoverRequested"}
  BY DEF EventTypes, PasswordEvents, StatusEvents, Creation

(* One step per kind: its event goes to the end of the story, after the    *)
(* one that its guard, by the state the story tells, knows to be there.    *)
LEMMA StateStep ==
  ASSUME TypeOK, EventsTellState, Kinds
  PROVE  EventsTellState'
<1> DEFINE N == Len(Story)
           V == Told("UserEmailVerified")
           A == Told("UserActivated")
           D == Told("UserDeactivated")
           C == Told(Creation)
           E == EventsTellState'
<1>0. /\ N \in Nat /\ V \subseteq 1 .. N /\ A \subseteq 1 .. N
      /\ D \subseteq 1 .. N /\ C \subseteq 1 .. N
  BY StoryType
<1>1. /\ Exists <=> C = {1}
      /\ ~Exists => Story = <<>>
      /\ Exists =>
           /\ user.verified <=> V # {}
           /\ \A i, j \in V : i = j
           /\ user.active <=> \A i \in D : \E j \in A : i < j
           /\ \A i, j \in D : i < j => \E k \in A : i < k /\ k < j
  BY DEF EventsTellState
<1>2. ASSUME Exists', C' = {1}, user'.verified <=> V' # {},
             \A i, j \in V' : i = j,
             user'.active <=> \A i \in D' : \E j \in A' : i < j,
             \A i, j \in D' : i < j => \E k \in A' : i < k /\ k < j
      PROVE  E
  BY <1>2, Zenon DEF EventsTellState
<1>3. ASSUME UNCHANGED user, Story' = Story, \A t : Told(t)' = Told(t)
      PROVE  E
  <2>1. Exists' <=> Exists
    BY <1>3 DEF Exists
  <2> QED
    BY <1>1, <1>3, <2>1, Zenon DEF EventsTellState
<1>4. ASSUME Quiet
      PROVE  E
  BY <1>3, <1>4, QuietKeepsStory DEF Quiet
<1>5. ASSUME NEW p \in RawPasswords, Created(p)
      PROVE  E
  <2>1. N = 0
    BY <1>1, <1>5 DEF Created
  <2>2. C' = {1} /\ V' = {} /\ A' = {} /\ D' = {}
    <3>1. /\ C' = C \union {N + 1} /\ V' = V /\ A' = A /\ D' = D
      BY <1>5, TellsAtTheEnd, TypesOfEvents DEF Created, Creation
    <3> HIDE DEF N, V, A, D, C
    <3>2. C = {} /\ V = {} /\ A = {} /\ D = {}
      BY <1>0, <2>1
    <3> QED
      BY <2>1, <3>1, <3>2
  <2>3. Exists' /\ user'.active = TRUE /\ user'.verified = FALSE
    BY <1>5, FieldsAfter
  <2> HIDE DEF N, V, A, D, C, E
  <2> QED
    BY <1>2, <2>2, <2>3
<1>6. ASSUME Exists, Exists', user'.active = user.active,
             user'.verified = user.verified,
             C' = C, V' = V, A' = A, D' = D
      PROVE  E
  <2> HIDE DEF N, V, A, D, C, E
  <2> QED
    BY <1>1, <1>2, <1>6
<1>7. ASSUME NEW p \in RawPasswords, NEW type \in PasswordEvents,
             PasswordSet(p, type)
      PROVE  E
  <2>1. /\ Exists /\ Exists'
        /\ user'.active = user.active /\ user'.verified = user.verified
    BY <1>7, FieldsAfter
  <2>2. C' = C /\ V' = V /\ A' = A /\ D' = D
    BY <1>7, TellsAtTheEnd, TypesOfEvents DEF PasswordSet
  <2> QED
    BY <1>6, <2>1, <2>2
<1>8. ASSUME NEW verified,
             NEW type \in {"UserEmailVerificationRequested",
                           "UserPasswordRecoverRequested"},
             Requested(verified, type)
      PROVE  E
  <2>1. Exists /\ Exists' /\ user' = user
    BY <1>8 DEF Requested, Exists
  <2>2. C' = C /\ V' = V /\ A' = A /\ D' = D
    BY <1>8, TellsAtTheEnd, TypesOfEvents DEF Requested, Creation
  <2> QED
    BY <1>6, <2>1, <2>2
<1>9. ASSUME Verified
      PROVE  E
  <2>1. /\ Exists /\ Exists' /\ user'.active = user.active
        /\ user.verified = FALSE /\ user'.verified = TRUE
    BY <1>9, FieldsAfter
  <2>2. C' = C /\ V' = V \union {N + 1} /\ A' = A /\ D' = D
    BY <1>9, TellsAtTheEnd, TypesOfEvents DEF Verified, Creation
  <2> HIDE DEF N, V, A, D, C, E
  <2>3. V' = {N + 1}
    BY <1>1, <2>1, <2>2
  <2> QED
    BY <1>1, <1>2, <2>1, <2>2, <2>3
<1>10. ASSUME ActiveSet(TRUE, "UserActivated")
       PROVE  E
  <2>1. /\ Exists /\ Exists' /\ user.active = FALSE /\ user'.active = TRUE
        /\ user'.verified = user.verified
    BY <1>10, FieldsAfter
  <2>2. C' = C /\ V' = V /\ A' = A \union {N + 1} /\ D' = D
    BY <1>10, TellsAtTheEnd, TypesOfEvents DEF ActiveSet, Creation
  <2> HIDE DEF N, V, A, D, C, E
  <2>3. \A i \in D' : \E j \in A' : i < j
    <3>1. ASSUME NEW i \in D'
          PROVE  N + 1 \in A' /\ i < N + 1
      BY <1>0, <2>2, <3>1
    <3> QED
      BY <3>1
  <2>4. \A i, j \in D' : i < j => \E k \in A' : i < k /\ k < j
    BY <1>1, <2>1, <2>2
  <2> QED
    BY <1>1, <1>2, <2>1, <2>2, <2>3, <2>4
<1>11. ASSUME ActiveSet(FALSE, "UserDeactivated")
       PROVE  E
  <2>1. /\ Exists /\ Exists' /\ user.active = TRUE /\ user'.active = FALSE
        /\ user'.verified = user.verified
    BY <1>11, FieldsAfter
  <2>2. C' = C /\ V' = V /\ A' = A /\ D' = D \union {N + 1}
    BY <1>11, TellsAtTheEnd, TypesOfEvents DEF ActiveSet, Creation
  <2> HIDE DEF N, V, A, D, C, E
  <2>3. ~ \A i \in D' : \E j \in A' : i < j
    <3>1. N + 1 \in D' /\ \A j \in A' : ~(N + 1 < j)
      BY <1>0, <2>2
    <3> QED
      BY <3>1
  <2>4. \A i \in D : \E j \in A : i < j
    BY <1>1, <2>1
  <2>5. ASSUME NEW i \in D', NEW j \in D', i < j
        PROVE  \E k \in A' : i < k /\ k < j
    <3>1. CASE j \in D
      <4>1. i \in D
        BY <1>0, <2>2, <2>5, <3>1
      <4> QED
        BY <1>1, <2>1, <2>2, <2>5, <3>1, <4>1
    <3>2. CASE j \notin D
      <4>1. j = N + 1 /\ i \in D
        BY <1>0, <2>2, <2>5, <3>2
      <4>2. PICK k \in A : i < k
        BY <2>4, <4>1
      <4>3. k < j
        BY <1>0, <4>1, <4>2
      <4> QED
        BY <2>2, <4>2, <4>3
    <3> QED
      BY <3>1, <3>2
  <2> QED
    BY <1>1, <1>2, <2>1, <2>2, <2>3, <2>5
<1> HIDE DEF E
<1>12. E
  BY <1>4, <1>5, <1>7, <1>8, <1>9, <1>10, <1>11 DEF Kinds
<1> QED
  BY <1>12 DEF E

(* Requests are told before the verification, or after it.                 *)
LEMMA RequestsStep ==
  ASSUME TypeOK, EventsTellState, RequestsMatchStory, Kinds
  PROVE  RequestsMatchStory'
<1> DEFINE N == Len(Story)
           V == Told("UserEmailVerified")
           Q == Told("UserEmailVerificationRequested")
           R == Told("UserPasswordRecoverRequested")
           G == RequestsMatchStory'
<1>0. /\ N \in Nat /\ V \subseteq 1 .. N /\ Q \subseteq 1 .. N
      /\ R \subseteq 1 .. N
  BY StoryType
<1>1. /\ \A i \in V : (\A j \in Q : j < i) /\ (\A j \in R : i < j)
      /\ R # {} => V # {}
  BY DEF RequestsMatchStory
<1>2. Exists => (user.verified <=> V # {})
  BY DEF EventsTellState
<1>3. ASSUME \A i \in V' : (\A j \in Q' : j < i) /\ (\A j \in R' : i < j),
             R' # {} => V' # {}
      PROVE  G
  BY <1>3, Zenon DEF RequestsMatchStory
<1>4. ASSUME V' = V, Q' = Q, R' = R
      PROVE  G
  <2> HIDE DEF V, Q, R, G
  <2> QED
    BY <1>1, <1>3, <1>4
<1>5. ASSUME Quiet
      PROVE  G
  BY <1>4, <1>5, QuietKeepsStory
<1>6. ASSUME NEW type \in EventTypes, Tells(type),
             type \notin {"UserEmailVerified", "UserEmailVerificationRequested",
                          "UserPasswordRecoverRequested"}
      PROVE  G
  BY <1>4, <1>6, TellsAtTheEnd
<1>7. ASSUME NEW p \in RawPasswords, Created(p) PROVE G
  BY <1>6, <1>7, TypesOfEvents DEF Created, Creation
<1>8. ASSUME NEW p \in RawPasswords, NEW type \in PasswordEvents,
             PasswordSet(p, type)
      PROVE  G
  BY <1>6, <1>8, TypesOfEvents DEF PasswordSet
<1>9. ASSUME ActiveSet(TRUE, "UserActivated") \/ ActiveSet(FALSE, "UserDeactivated")
      PROVE  G
  BY <1>6, <1>9, TypesOfEvents DEF ActiveSet
<1>10. ASSUME Verified
       PROVE  G
  <2>1. Exists /\ user.verified = FALSE
    BY <1>10, FieldsAfter
  <2>2. V' = V \union {N + 1} /\ Q' = Q /\ R' = R
    BY <1>10, TellsAtTheEnd, TypesOfEvents DEF Verified
  <2> HIDE DEF N, V, Q, R, G
  <2>3. V' = {N + 1} /\ R' = {}
    BY <1>1, <1>2, <2>1, <2>2
  <2> QED
    BY <1>0, <1>3, <2>2, <2>3
<1>11. ASSUME Requested(FALSE, "UserEmailVerificationRequested")
       PROVE  G
  <2>1. Exists /\ user.verified = FALSE
    BY <1>11 DEF Requested
  <2>2. V' = V /\ Q' = Q \union {N + 1} /\ R' = R
    BY <1>11, TellsAtTheEnd, TypesOfEvents DEF Requested
  <2> HIDE DEF N, V, Q, R, G
  <2>3. V' = {} /\ R' = {}
    BY <1>1, <1>2, <2>1, <2>2
  <2> QED
    BY <1>3, <2>3
<1>12. ASSUME Requested(TRUE, "UserPasswordRecoverRequested")
       PROVE  G
  <2>1. Exists /\ user.verified = TRUE
    BY <1>12 DEF Requested
  <2>2. V' = V /\ Q' = Q /\ R' = R \union {N + 1}
    BY <1>12, TellsAtTheEnd, TypesOfEvents DEF Requested
  <2> HIDE DEF N, V, Q, R, G
  <2>3. V' # {}
    BY <1>2, <2>1, <2>2
  <2>4. \A i \in V' : (\A j \in Q' : j < i) /\ (\A j \in R' : i < j)
    BY <1>0, <1>1, <2>2
  <2> QED
    BY <1>3, <2>3, <2>4
<1> HIDE DEF G
<1>13. G
  BY <1>5, <1>7, <1>8, <1>9, <1>10, <1>11, <1>12 DEF Kinds
<1> QED
  BY <1>13 DEF G

(* Only a password that is validated, hashed and remembered is stored.     *)
LEMMA StoredStep ==
  ASSUME TypeOK, StoredIsGiven, Kinds
  PROVE  StoredIsGiven'
<1> DEFINE G == StoredIsGiven'
<1>1. ASSUME UNCHANGED given, user' = user PROVE G
  BY <1>1 DEF StoredIsGiven, Exists, Strip, HashError
<1>2. ASSUME NEW p \in RawPasswords, PasswordError(p) = "ok", given' = p,
             user'.password = Strip(p)
      PROVE  G
  <2>1. HashError(Strip(p)) = "ok"
    BY <1>2 DEF PasswordError
  <2> QED
    BY <1>2, <2>1 DEF StoredIsGiven, HashError, Strip
<1>3. ASSUME UNCHANGED given, Exists, user'.password = user.password
      PROVE  G
  BY <1>3 DEF StoredIsGiven, HashError, Strip
<1>4. Exists => user \in UserRecords
  BY DEF TypeOK, Exists
<1>5. ASSUME NEW p \in RawPasswords, Created(p) PROVE G
  BY <1>2, <1>5 DEF Created
<1>6. ASSUME NEW p \in RawPasswords, NEW type, PasswordSet(p, type) PROVE G
  BY <1>2, <1>4, <1>6 DEF PasswordSet, UserRecords
<1>7. ASSUME Verified
      PROVE  G
  <2>1. Exists /\ UNCHANGED given /\ user'.password = user.password
    BY <1>4, <1>7, Zenon DEF Verified, UserRecords
  <2> QED
    BY <1>3, <2>1
<1>8. ASSUME NEW active \in BOOLEAN, NEW type, ActiveSet(active, type) PROVE G
  <2>1. Exists /\ UNCHANGED given /\ user'.password = user.password
    BY <1>4, <1>8, Zenon DEF ActiveSet, UserRecords
  <2> QED
    BY <1>3, <2>1
<1>9. ASSUME NEW verified, NEW type, Requested(verified, type) PROVE G
  BY <1>1, <1>9 DEF Requested
<1>10. Quiet => G
  BY <1>1 DEF Quiet
<1> HIDE DEF G
<1>11. G
  BY <1>5, <1>6, <1>7, <1>8, <1>9, <1>10 DEF Kinds
<1> QED
  BY <1>11 DEF G

-----------------------------------------------------------------------------
(* The theorems                                                            *)

LEMMA InitInvariant == Init => IInv
<1> SUFFICES ASSUME Init PROVE IInv
  OBVIOUS
<1>1. TypeOK
  BY DEF Init, TypeOK, Outcomes
<1>2. ~Exists /\ Story = <<>> /\ \A t : Told(t) = {}
  BY DEF Init, Exists, Story, Told
<1> QED
  BY <1>1, <1>2
     DEF IInv, EventsTellState, RequestsMatchStory, StoredIsGiven

LEMMA StepInvariant == IInv /\ [Next]_vars => IInv'
<1> SUFFICES ASSUME IInv, [Next]_vars PROVE IInv'
  OBVIOUS
<1>1. Kinds
  BY StepKinds DEF IInv
<1> QED
  BY <1>1, TypeStep, StateStep, RequestsStep, StoredStep DEF IInv

(* The user, its events and the outcomes of its calls keep their types.    *)
(* (user.py:45-233)                                                        *)
THEOREM TypeCorrect == Spec => []TypeOK
<1>1. IInv => TypeOK
  BY DEF IInv
<1> QED
  BY <1>1, InitInvariant, StepInvariant, PTL DEF Spec

(* However the methods are called, for any number of events: replaying     *)
(* them gives the state of the user.  (user.py:82, 117-128, 188-223)       *)
THEOREM EventsAreTheState == Spec => []EventsTellState
<1>1. IInv => EventsTellState
  BY DEF IInv
<1> QED
  BY <1>1, InitInvariant, StepInvariant, PTL DEF Spec

(* A verification is only requested before, a recovery only after the one  *)
(* verification of the email.  (user.py:94-115)                            *)
THEOREM RequestsInOrder == Spec => []RequestsMatchStory
<1>1. IInv => RequestsMatchStory
  BY DEF IInv
<1> QED
  BY <1>1, InitInvariant, StepInvariant, PTL DEF Spec

(* Whatever the limits of validation and of bcrypt are, a password that    *)
(* was accepted opens the account.  (password.py:30-44, security.py:7-12)  *)
THEOREM AcceptedOpens == Spec => []AcceptedPasswordOpens
<1>1. IInv => AcceptedPasswordOpens
  <2> SUFFICES ASSUME IInv, Exists, user.active, user.verified,
                      NEW p, p = [given EXCEPT !.blanks = 0]
               PROVE  LoginOutcome(p) = "ok"
    BY DEF AcceptedPasswordOpens
  <2>1. /\ given \in RawPasswords /\ user.password = given.word
        /\ HashError(user.password) = "ok"
    BY DEF IInv, TypeOK, StoredIsGiven, Strip
  <2>2. p.word = user.password /\ p.blanks = 0 /\ p.word \in Words
    BY <2>1 DEF RawPasswords
  <2>3. Bytes[p.word] \in Nat /\ HashLimit \in Nat
    BY <2>2, UserEntityAssumption
  <2>4. ~(Bytes[p.word] > HashLimit)
    BY <2>1, <2>2 DEF HashError
  <2>5. Checked(p, user.password) = "ok"
    BY <2>2, <2>3, <2>4 DEF Checked, Size
  <2> QED
    BY <2>5 DEF LoginOutcome
<1> QED
  BY <1>1, InitInvariant, StepInvariant, PTL DEF Spec

(* A method that raises has neither changed the user nor left an event     *)
(* behind, wherever in it the exception comes from.  (user.py:159-186)     *)
THEOREM FailuresLeaveNoTrace == Spec => FailedCallsChangeNothing
<1>1. ASSUME Next, outcome' \in Errors
      PROVE  UNCHANGED <<user, events, pulled>>
  <2>0. "ok" \notin Errors
    BY DEF Errors
  <2> DEFINE Same == UNCHANGED <<user, events, pulled>>
  <2>1. \A error : Raise(error) => Same
    BY DEF Raise
  <2>2. ~Done
    BY <1>1, <2>0 DEF Done
  <2>3. \A p, e : Create(e, p) => Same
    BY <2>1, <2>2 DEF Create
  <2>4. \A p : AssertCanLogin(p) \/ VerifyPassword(p) => Same
    BY <2>1 DEF AssertCanLogin, VerifyPassword
  <2>5. \A p, type : ~SetPassword(p, type)
    BY <2>2 DEF SetPassword
  <2>6. \A p, new : ChangePassword(p, new) \/ RecoverPassword(p) => Same
    BY <2>1, <2>5 DEF ChangePassword, RecoverPassword
  <2>7. RequestEmailVerification \/ RequestPasswordRecover => Same
    BY <2>1, <2>2 DEF RequestEmailVerification, RequestPasswordRecover, Request
  <2>8. VerifyEmail \/ Activate \/ Deactivate => Same
    BY <2>1, <2>2 DEF VerifyEmail, Activate, Deactivate, SetActive
  <2>9. ~Pull
    BY <1>1, <2>0 DEF Pull
  <2> HIDE DEF Same
  <2>10. Same
    BY <1>1, <2>3, <2>4, <2>6, <2>7, <2>8, <2>9 DEF Next
  <2> QED
    BY <2>10 DEF Same
<1>2. [Next]_vars => [outcome' \in Errors => UNCHANGED <<user, events, pulled>>]_vars
  BY <1>1
<1> QED
  BY <1>2, PTL DEF Spec, FailedCallsChangeNothing

-----------------------------------------------------------------------------
(* What the security policy of refresh tokens suspects, and reports        *)

(* A token that can still be revoked has no successor.                     *)
UnrevokedIsLast ==
  \A t \in Tokens :
    row[t] # None /\ ~row[t].revoked => row[t].replaced = None

(* Nobody is known to be the client that the token was issued to.          *)
RevocationsSuspected ==
  \A t \in Tokens : revokedBy[t] # None => t \in suspected

(* The token has met its end: c has revoked it.                            *)
Ended(t, c) ==
  /\ row[t] # None
  /\ row[t].revoked /\ row[t].replaced = None
  /\ revokedBy[t] = c

ReportsFinal == \A x \in reports : Ended(x.token, x.client)

(* What a revocation under way relies on: the version it has read is still *)
(* that of an unrevoked token, or is gone for ever.                        *)
Expects(v) ==
  /\ row[v.token] # None
  /\ v.suspicious
  /\ v.version <= row[v.token].version
  /\ v.values.version = v.version + 1
  /\ v.values.revoked /\ v.values.replaced = None
  /\ v.step = "save" /\ row[v.token].version = v.version =>
       ~row[v.token].revoked
  /\ v.step = "commit" =>
       row[v.token].version = v.version /\ ~row[v.token].revoked
  /\ v.step = "publish" => Ended(v.token, v.client)

RevocationsExpect ==
  \A q \in Requests : revoking[q] # None => Expects(revoking[q])

OneHolds ==
  \A p, q \in Requests :
    /\ Revoking(p, "commit") /\ Revoking(q, "commit")
    /\ revoking[p].token = revoking[q].token
    => p = q

ReportsInv ==
  /\ MetadataTypeOK
  /\ UnrevokedIsLast
  /\ RevocationsSuspected
  /\ ReportsFinal
  /\ RevocationsExpect
  /\ OneHolds

(* What the policy is told of a stored token is not enough to trust        *)
(* anybody.                                                                *)
LEMMA NobodyTrusted ==
  ASSUME NEW current
  PROVE  AssessRisk(NoMetadata, current) > 0
<1>1. /\ ~Mismatch(None, current.agent)
      /\ ~Mismatch(None, current.location)
      /\ ~SameIpRange(None, current.ip)
  BY DEF Mismatch, SameIpRange, IsIPv4
<1>2. NoMetadata.ip = None /\ NoMetadata.agent = None
      /\ NoMetadata.location = None
  BY DEF NoMetadata
<1>3. QED
  BY <1>1, <1>2 DEF AssessRisk

LEMMA ClientKnown ==
  ASSUME NEW h \in Clients
  PROVE  Client(h) \in Metadata
<1>1. h \in Headers
  BY ClientAssumption
<1>2. GetClientIp(h) \in IPv4s \union Others \union {UnknownIp}
  BY <1>1 DEF GetClientIp, FirstOf, Headers
<1>3. GetUserAgent(h) \in Agents \union {Unknown}
  BY <1>1 DEF GetUserAgent, FirstOf, Headers
<1>4. GetLocation(h) \in Countries \union {None}
  BY <1>1 DEF GetLocation, FirstOf, Headers
<1>5. QED
  BY <1>2, <1>3, <1>4 DEF Client, Metadata

(* A row with these fields.                                                *)
IsRow(r, version, revoked, replaced) ==
  /\ r \in Rows /\ r # None
  /\ r.version = version /\ r.revoked = revoked /\ r.replaced = replaced

LEMMA RowMade ==
  ASSUME NEW version, version \in Nat, NEW revoked, revoked \in BOOLEAN,
         NEW replaced, replaced \in Tokens \union {None}
  PROVE  IsRow([version |-> version, revoked |-> revoked,
                replaced |-> replaced], version, revoked, replaced)
  BY ClientAssumption DEF Rows, IsRow

(* The row of t becomes one with these fields.                             *)
RowBecomes(t, version, revoked, replaced) ==
  IsRow(row'[t], version, revoked, replaced)

(* A revocation that a step leaves alone, and whose token it leaves alone, *)
(* may go on.                                                              *)
LEMMA ExpectsStays ==
  ASSUME NEW v, Expects(v), row'[v.token] = row[v.token],
         revokedBy'[v.token] = revokedBy[v.token]
  PROVE  Expects(v)'
  BY DEF Expects, Ended

LEMMA ReportsStay ==
  ASSUME ReportsInv, UNCHANGED reports,
         \A t \in Tokens : row[t] # None /\ row[t].revoked =>
           row'[t] = row[t] /\ revokedBy'[t] = revokedBy[t]
  PROVE  ReportsFinal'
<1> SUFFICES ASSUME NEW x \in reports
             PROVE  Ended(x.token, x.client)'
  BY DEF ReportsFinal
<1>1. x.token \in Tokens
  BY DEF ReportsInv, MetadataTypeOK
<1>2. Ended(x.token, x.client)
  BY DEF ReportsInv, ReportsFinal
<1>3. QED
  BY <1>1, <1>2 DEF Ended

LEMMA LoginStep ==
  ASSUME ReportsInv, NEW h \in Clients, NEW t \in Tokens, Login(h, t)
  PROVE  ReportsInv'
<1> DEFINE r == [version |-> 1, revoked |-> FALSE, replaced |-> None]
<1>1. Domain2Orm(CreateToken(Client(h)), 1) = r
  BY DEF Domain2Orm, CreateToken
<1>2. IsRow(r, 1, FALSE, None)
  <2>1. 1 \in Nat
    OBVIOUS
  <2>2. QED
    BY <2>1, RowMade
<1> HIDE DEF r
<1>3. /\ row \in [Tokens -> Rows \union {None}]
      /\ row[t] = None /\ row' = [row EXCEPT ![t] = r]
      /\ UNCHANGED <<revokedBy, suspected, reports, revoking>>
  BY <1>1 DEF Login, ReportsInv, MetadataTypeOK
<1>4. RowBecomes(t, 1, FALSE, None)
      /\ \A s \in Tokens \ {t} : row'[s] = row[s]
  BY <1>2, <1>3 DEF RowBecomes, IsRow
<1>5. MetadataTypeOK'
  <2>1. row' \in [Tokens -> Rows \union {None}]
    BY <1>2, <1>3 DEF IsRow
  <2>2. issuedTo' \in [Tokens -> Metadata \union {None}]
    BY ClientKnown DEF Login, ReportsInv, MetadataTypeOK
  <2>3. QED
    BY <1>3, <2>1, <2>2 DEF ReportsInv, MetadataTypeOK
<1>6. UnrevokedIsLast'
  BY <1>4 DEF ReportsInv, UnrevokedIsLast, RowBecomes, IsRow
<1>7. RevocationsSuspected'
  BY <1>3 DEF ReportsInv, RevocationsSuspected
<1>8. ReportsFinal'
  BY <1>3, <1>4, ReportsStay
<1>9. RevocationsExpect'
  <2> SUFFICES ASSUME NEW q \in Requests, revoking[q] # None
               PROVE  Expects(revoking[q])'
    BY <1>3 DEF RevocationsExpect
  <2>1. revoking[q].token \in Tokens /\ Expects(revoking[q])
    BY DEF ReportsInv, MetadataTypeOK, Revocations, RevocationsExpect
  <2>2. revoking[q].token # t
    BY <1>3, <2>1 DEF Expects
  <2> DEFINE v == revoking[q]
  <2>3. Expects(v)' /\ v' = v
    BY <1>3, <1>4, <2>1, <2>2 DEF Expects, Ended
  <2>4. QED
    BY <2>3
<1>10. OneHolds'
  BY <1>3 DEF ReportsInv, OneHolds, Revoking
<1>11. QED
  BY <1>5, <1>6, <1>7, <1>8, <1>9, <1>10 DEF ReportsInv

LEMMA RefreshStep ==
  ASSUME ReportsInv, NEW h \in Clients, NEW t \in Tokens,
         NEW new \in Tokens, Refresh(h, t, new)
  PROVE  ReportsInv'
<1> DEFINE version == row[t].version + 1
           r == [version |-> version, revoked |-> TRUE, replaced |-> new]
           n == [version |-> 1, revoked |-> FALSE, replaced |-> None]
           rt == Orm2Domain(row[t])
<1>1. Domain2Orm(CreateToken(NoMetadata), 1) = n
  BY DEF Domain2Orm, CreateToken
<1>2. Domain2Orm([rt EXCEPT !.revoked = TRUE, !.replaced = new], version) = r
  BY DEF Domain2Orm, Orm2Domain
<1>3. rt.revoked = row[t].revoked
  BY DEF Orm2Domain
<1>4. row \in [Tokens -> Rows \union {None}]
      /\ row[t] # None /\ row[new] = None
  BY DEF Refresh, ReportsInv, MetadataTypeOK
<1>5. row[t] \in Rows /\ version \in Nat
  BY <1>4 DEF Rows
<1>6. IsRow(r, version, TRUE, new) /\ IsRow(n, 1, FALSE, None)
  <2> HIDE DEF version
  <2>1. 1 \in Nat
    OBVIOUS
  <2>2. IsRow(r, version, TRUE, new)
    BY <1>5, RowMade
  <2>3. IsRow(n, 1, FALSE, None)
    BY <2>1, RowMade
  <2>4. QED
    BY <2>2, <2>3
<1> HIDE DEF r, n
<1>7. /\ ~row[t].revoked /\ ~Locked(t)
      /\ row' = [row EXCEPT ![t] = r, ![new] = n]
      /\ UNCHANGED <<revokedBy, suspected, reports, revoking>>
  BY <1>1, <1>2, <1>3 DEF Refresh
<1>8. /\ RowBecomes(t, version, TRUE, new) /\ RowBecomes(new, 1, FALSE, None)
      /\ \A s \in Tokens \ {t, new} : row'[s] = row[s]
  BY <1>4, <1>6, <1>7 DEF RowBecomes, IsRow
<1>9. MetadataTypeOK'
  <2>1. row' \in [Tokens -> Rows \union {None}]
    BY <1>4, <1>6, <1>7 DEF IsRow
  <2>2. issuedTo' \in [Tokens -> Metadata \union {None}]
    BY ClientKnown DEF Refresh, ReportsInv, MetadataTypeOK
  <2>3. QED
    BY <1>7, <2>1, <2>2 DEF ReportsInv, MetadataTypeOK
<1>10. UnrevokedIsLast'
  BY <1>8 DEF ReportsInv, UnrevokedIsLast, RowBecomes, IsRow
<1>11. RevocationsSuspected'
  BY <1>7 DEF ReportsInv, RevocationsSuspected
<1>12. ReportsFinal'
  BY <1>4, <1>7, <1>8, ReportsStay
<1>13. RevocationsExpect'
  <2> SUFFICES ASSUME NEW q \in Requests, revoking[q] # None
               PROVE  Expects(revoking[q])'
    BY <1>7 DEF RevocationsExpect
  <2> DEFINE v == revoking[q]
  <2>1. v.token \in Tokens /\ v.version \in Nat /\ Expects(v)
    BY DEF ReportsInv, MetadataTypeOK, Revocations, RevocationsExpect
  <2>2. v.token # new
    BY <1>4, <2>1 DEF Expects
  <2>3. CASE v.token = t
    <3>1. v.step # "commit"
      BY <1>7, <2>3 DEF Locked, Revoking
    <3>2. v.step # "publish"
      BY <1>7, <2>1, <2>3 DEF Expects, Ended
    <3>3. v.version <= row[t].version /\ row[t].version \in Nat
      BY <1>5, <2>1, <2>3 DEF Expects, Rows
    <3>4. v.version <= row'[t].version /\ row'[t].version # v.version
      BY <1>8, <2>1, <3>3 DEF RowBecomes, IsRow
    <3>5. row'[t] # None
      BY <1>8 DEF RowBecomes, IsRow
    <3>6. v' = v
      BY <1>7
    <3>7. QED
      BY <2>1, <2>3, <3>1, <3>2, <3>4, <3>5, <3>6 DEF Expects
  <2>4. CASE v.token # t
    <3>1. v' = v /\ row'[v.token] = row[v.token]
          /\ revokedBy'[v.token] = revokedBy[v.token]
      BY <1>7, <1>8, <2>1, <2>2, <2>4
    <3>2. QED
      BY <2>1, <3>1 DEF Expects, Ended
  <2>5. QED
    BY <2>3, <2>4
<1>14. OneHolds'
  BY <1>7 DEF ReportsInv, OneHolds, Revoking
<1>15. QED
  BY <1>9, <1>10, <1>11, <1>12, <1>13, <1>14 DEF ReportsInv

(* The steps of a revocation that leave the rows alone: it begins, waits   *)
(* for its answer, or ends.                                                *)
RowsStay == UNCHANGED <<row, issuedTo, revokedBy, suspected>>

LEMMA RequestStep ==
  ASSUME ReportsInv, RowsStay, UNCHANGED reports, NEW q \in Requests,
         NEW v, revoking' = [revoking EXCEPT ![q] = v],
         v # None => v \in Revocations /\ Expects(v),
         v # None /\ v.step = "commit" => ~Locked(v.token)
  PROVE  ReportsInv'
<1>1. /\ revoking'[q] = v
      /\ \A p \in Requests \ {q} : revoking'[p] = revoking[p]
  BY DEF ReportsInv, MetadataTypeOK
<1>2. MetadataTypeOK'
  <2>1. v \in Revocations \union {None}
    OBVIOUS
  <2>2. revoking' \in [Requests -> Revocations \union {None}]
    BY <2>1 DEF ReportsInv, MetadataTypeOK
  <2>3. QED
    BY <2>2 DEF ReportsInv, MetadataTypeOK, RowsStay
<1>3. UnrevokedIsLast' /\ RevocationsSuspected'
  BY DEF ReportsInv, UnrevokedIsLast, RevocationsSuspected, RowsStay
<1>4. ReportsFinal'
  BY ReportsStay DEF RowsStay
<1>5. RevocationsExpect'
  <2> SUFFICES ASSUME NEW p \in Requests, revoking'[p] # None
               PROVE  Expects(revoking[p])'
    BY DEF RevocationsExpect
  <2>1. PICK w : w = revoking'[p]
    OBVIOUS
  <2>2. Expects(w)
    BY <1>1, <2>1 DEF ReportsInv, RevocationsExpect
  <2>3. QED
    BY <2>1, <2>2 DEF Expects, Ended, RowsStay
<1>6. OneHolds'
  <2> SUFFICES ASSUME NEW p \in Requests, NEW s \in Requests,
                      Revoking(p, "commit")', Revoking(s, "commit")',
                      revoking'[p].token = revoking'[s].token
               PROVE  p = s
    BY DEF OneHolds
  <2>1. CASE p # q /\ s # q
    BY <1>1, <2>1 DEF ReportsInv, OneHolds, Revoking
  <2>2. CASE p = q /\ s # q
    BY <1>1, <2>2 DEF Locked, Revoking
  <2>3. CASE p # q /\ s = q
    BY <1>1, <2>3 DEF Locked, Revoking
  <2>4. QED
    BY <2>1, <2>2, <2>3
<1>7. QED
  BY <1>2, <1>3, <1>4, <1>5, <1>6 DEF ReportsInv

LEMMA AssessStep ==
  ASSUME ReportsInv, NEW q \in Requests, NEW h \in Clients, NEW t \in Tokens,
         Assess(q, h, t)
  PROVE  ReportsInv'
<1> DEFINE rt == Orm2Domain(row[t])
           suspicious == AssessRisk(rt.metadata, Client(h)) > 0
           values == [version |-> row[t].version + 1, revoked |-> TRUE,
                      replaced |-> None]
           v == [step |-> "save", token |-> t, client |-> Client(h),
                 version |-> row[t].version, values |-> values,
                 suspicious |-> suspicious]
<1>1. row[t] # None /\ ~row[t].revoked
  BY DEF Assess, Orm2Domain
<1>2. row[t] \in Rows /\ row[t].version \in Nat
  BY <1>1 DEF ReportsInv, MetadataTypeOK, Rows
<1>3. row[t].replaced = None
  BY <1>1 DEF ReportsInv, UnrevokedIsLast
<1>4. Domain2Orm([rt EXCEPT !.revoked = TRUE], row[t].version + 1) = values
  BY <1>3 DEF Domain2Orm, Orm2Domain
<1>5. suspicious \in BOOLEAN /\ suspicious
  BY NobodyTrusted DEF Orm2Domain
<1>6. IsRow(values, row[t].version + 1, TRUE, None)
  <2>1. row[t].version + 1 \in Nat
    BY <1>2
  <2>2. QED
    BY <2>1, RowMade
<1>7. revoking' = [revoking EXCEPT ![q] = v]
      /\ UNCHANGED <<row, clientVars>>
  BY <1>4 DEF Assess
<1> HIDE DEF values, suspicious
<1>8. v \in Revocations
  BY <1>2, <1>5, <1>6, ClientKnown DEF Revocations, IsRow
<1>9. Expects(v)
  BY <1>1, <1>2, <1>5, <1>6 DEF Expects, IsRow
<1>10. v.step # "commit"
  OBVIOUS
<1>11. RowsStay /\ UNCHANGED reports
  BY <1>7 DEF RowsStay, clientVars
<1> HIDE DEF v
<1>12. QED
  BY <1>7, <1>8, <1>9, <1>10, <1>11, RequestStep

LEMMA Advanced ==
  ASSUME NEW v \in Revocations, NEW step \in {"save", "commit", "publish"},
         NEW w, w = [v EXCEPT !.step = step]
  PROVE  /\ w \in Revocations /\ w.step = step /\ w.token = v.token
         /\ w.client = v.client /\ w.version = v.version
         /\ w.values = v.values /\ w.suspicious = v.suspicious
  BY DEF Revocations

LEMMA SaveStep ==
  ASSUME ReportsInv, NEW q \in Requests, Save(q)
  PROVE  ReportsInv'
<1>1. PICK v : v = revoking[q]
  OBVIOUS
<1>2. PICK w : w = [v EXCEPT !.step = "commit"]
  OBVIOUS
<1>3. v \in Revocations /\ Expects(v) /\ v.step = "save"
  BY <1>1 DEF Save, Revoking, ReportsInv, MetadataTypeOK, RevocationsExpect
<1>4. /\ w \in Revocations /\ w.step = "commit" /\ w.token = v.token
      /\ w.client = v.client /\ w.version = v.version
      /\ w.values = v.values /\ w.suspicious = v.suspicious
  BY <1>2, <1>3, Advanced
<1>5. /\ revoking' = [revoking EXCEPT ![q] = w]
      /\ ~Locked(w.token) /\ row[w.token].version = w.version
      /\ RowsStay /\ UNCHANGED reports
  BY <1>1, <1>2, <1>4
     DEF Save, Advance, RowsStay, clientVars, ReportsInv, MetadataTypeOK
<1>6. Expects(w)
  BY <1>3, <1>4, <1>5 DEF Expects
<1>7. QED
  BY <1>4, <1>5, <1>6, RequestStep

LEMMA EndStep ==
  ASSUME ReportsInv, NEW q \in Requests, End(q),
         UNCHANGED <<row, clientVars>>
  PROVE  ReportsInv'
<1>1. PICK v : v = None
  OBVIOUS
<1>2. revoking' = [revoking EXCEPT ![q] = v] /\ RowsStay /\ UNCHANGED reports
  BY <1>1 DEF End, RowsStay, clientVars
<1>3. QED
  BY <1>1, <1>2, RequestStep

LEMMA CommitStep ==
  ASSUME ReportsInv, NEW q \in Requests, NEW answered \in BOOLEAN,
         Commit(q, answered)
  PROVE  ReportsInv'
<1>1. PICK v : v = revoking[q]
  OBVIOUS
<1>2. PICK w : w = IF answered THEN [v EXCEPT !.step = "publish"] ELSE None
  OBVIOUS
<1>3. v \in Revocations /\ Expects(v) /\ v.step = "commit" /\ v # None
  BY <1>1 DEF Commit, Revoking, ReportsInv, MetadataTypeOK, RevocationsExpect
<1>4. w # None =>
        /\ w \in Revocations /\ w.step = "publish" /\ w.token = v.token
        /\ w.client = v.client /\ w.version = v.version
        /\ w.values = v.values /\ w.suspicious = v.suspicious
  BY <1>2, <1>3, Advanced
<1>5. PICK t \in Tokens : t = v.token
  BY <1>3 DEF Revocations
<1>6. v.values \in Rows /\ v.client \in Metadata /\ v.version \in Nat
  BY <1>3 DEF Revocations
<1>7. /\ row[t] # None /\ ~row[t].revoked /\ row[t].version = v.version
      /\ v.suspicious /\ v.values.revoked /\ v.values.replaced = None
      /\ v.values.version = v.version + 1
  BY <1>3, <1>5 DEF Expects
<1>8. /\ row' = [row EXCEPT ![t] = v.values]
      /\ revokedBy' = [revokedBy EXCEPT ![t] = v.client]
      /\ suspected' = suspected \union {t}
      /\ UNCHANGED <<issuedTo, reports>>
  BY <1>1, <1>5, <1>7 DEF Commit
<1>9. revoking' = [revoking EXCEPT ![q] = w]
  BY <1>1, <1>2 DEF Commit, Advance, End, ReportsInv, MetadataTypeOK
<1>10. v.values # None
  BY <1>6, ClientAssumption
<1>11. /\ row'[t] = v.values /\ revokedBy'[t] = v.client
       /\ \A s \in Tokens \ {t} :
            row'[s] = row[s] /\ revokedBy'[s] = revokedBy[s]
  BY <1>8 DEF ReportsInv, MetadataTypeOK
<1>12. /\ revoking'[q] = w
       /\ \A p \in Requests \ {q} : revoking'[p] = revoking[p]
  BY <1>9 DEF ReportsInv, MetadataTypeOK
<1>13. MetadataTypeOK'
  <2>1. w \in Revocations \union {None}
    BY <1>4
  <2>2. revoking' \in [Requests -> Revocations \union {None}]
    BY <1>9, <2>1 DEF ReportsInv, MetadataTypeOK
  <2>3. QED
    BY <1>6, <1>8, <2>2 DEF ReportsInv, MetadataTypeOK
<1>14. UnrevokedIsLast'
  BY <1>7, <1>11 DEF ReportsInv, UnrevokedIsLast
<1>15. RevocationsSuspected'
  BY <1>8, <1>11 DEF ReportsInv, RevocationsSuspected
<1>16. ReportsFinal'
  BY <1>7, <1>8, <1>11, ReportsStay
<1>17. RevocationsExpect'
  <2> SUFFICES ASSUME NEW p \in Requests, revoking'[p] # None
               PROVE  Expects(revoking[p])'
    BY DEF RevocationsExpect
  <2>1. PICK x : x = revoking'[p]
    OBVIOUS
  <2>2. CASE p = q
    <3>1. x = w /\ w # None
      BY <1>12, <2>1, <2>2
    <3>2. row'[x.token] = v.values /\ revokedBy'[x.token] = x.client
          /\ x.token = t /\ x.step = "publish" /\ x.values = v.values
          /\ x.suspicious = v.suspicious /\ x.version = v.version
      BY <1>4, <1>5, <1>11, <3>1
    <3>3. x.version <= row'[x.token].version
      BY <1>6, <1>7, <3>2
    <3>4. QED
      BY <1>7, <1>10, <2>1, <3>2, <3>3 DEF Expects, Ended
  <2>3. CASE p # q
    <3>1. x = revoking[p] /\ x # None
      BY <1>12, <2>1, <2>3
    <3>2. x \in Revocations /\ Expects(x)
      BY <3>1 DEF ReportsInv, MetadataTypeOK, RevocationsExpect
    <3>3. x.token \in Tokens /\ x.version \in Nat
      BY <3>2 DEF Revocations
    <3>4. CASE x.token # t
      <4>1. row'[x.token] = row[x.token]
            /\ revokedBy'[x.token] = revokedBy[x.token]
        BY <1>11, <3>3, <3>4
      <4>2. QED
        BY <2>1, <3>2, <4>1 DEF Expects, Ended
    <3>5. CASE x.token = t
      <4>1. x.step # "commit"
        BY <1>1, <1>3, <1>5, <2>3, <3>1, <3>5
           DEF ReportsInv, OneHolds, Revoking
      <4>2. x.step # "publish"
        BY <1>7, <3>2, <3>5 DEF Expects, Ended
      <4>3. x.version <= v.version
        BY <1>7, <3>2, <3>5 DEF Expects
      <4>4. row'[x.token].version = v.version + 1
        BY <1>7, <1>11, <3>5
      <4>5. x.version <= row'[x.token].version
            /\ row'[x.token].version # x.version
        BY <1>6, <3>3, <4>3, <4>4
      <4>6. row'[x.token] # None
        BY <1>10, <1>11, <3>5
      <4>7. QED
        BY <2>1, <3>2, <4>1, <4>2, <4>5, <4>6 DEF Expects
    <3>6. QED
      BY <3>4, <3>5
  <2>4. QED
    BY <2>2, <2>3
<1>18. OneHolds'
  <2> SUFFICES ASSUME NEW p \in Requests, NEW s \in Requests,
                      Revoking(p, "commit")', Revoking(s, "commit")',
                      revoking'[p].token = revoking'[s].token
               PROVE  p = s
    BY DEF OneHolds
  <2>1. p # q /\ s # q
    BY <1>4, <1>12 DEF Revoking
  <2>2. QED
    BY <1>12, <2>1 DEF ReportsInv, OneHolds, Revoking
<1>19. QED
  BY <1>13, <1>14, <1>15, <1>16, <1>17, <1>18 DEF ReportsInv

LEMMA PublishStep ==
  ASSUME ReportsInv, NEW q \in Requests, Publish(q)
  PROVE  ReportsInv'
<1>1. PICK v : v = revoking[q]
  OBVIOUS
<1>2. v \in Revocations /\ Expects(v) /\ v.step = "publish"
  BY <1>1 DEF Publish, Revoking, ReportsInv, MetadataTypeOK,
              RevocationsExpect
<1>3. v.token \in Tokens /\ v.client \in Metadata
      /\ Ended(v.token, v.client) /\ v.suspicious
  BY <1>2 DEF Expects, Revocations
<1>4. /\ reports' = reports \union {[token |-> v.token, client |-> v.client]}
      /\ revoking' = [revoking EXCEPT ![q] = None] /\ RowsStay
  BY <1>1, <1>3 DEF Publish, End, RowsStay
<1>5. \A p \in Requests :
        revoking'[p] # None => p # q /\ revoking'[p] = revoking[p]
  BY <1>4 DEF ReportsInv, MetadataTypeOK
<1>6. MetadataTypeOK'
  BY <1>3, <1>4 DEF ReportsInv, MetadataTypeOK, RowsStay
<1>7. UnrevokedIsLast' /\ RevocationsSuspected'
  BY <1>4 DEF ReportsInv, UnrevokedIsLast, RevocationsSuspected, RowsStay
<1>8. ReportsFinal'
  <2> SUFFICES ASSUME NEW x \in reports'
               PROVE  Ended(x.token, x.client)'
    BY DEF ReportsFinal
  <2>1. PICK y : y = x
    OBVIOUS
  <2>2. Ended(y.token, y.client)
    <3>1. CASE y \in reports
      BY <3>1 DEF ReportsInv, ReportsFinal
    <3>2. CASE y = [token |-> v.token, client |-> v.client]
      BY <1>3, <3>2
    <3>3. QED
      BY <1>4, <2>1, <3>1, <3>2
  <2>3. QED
    BY <1>4, <2>1, <2>2 DEF Ended, RowsStay
<1>9. RevocationsExpect'
  <2> SUFFICES ASSUME NEW p \in Requests, revoking'[p] # None
               PROVE  Expects(revoking[p])'
    BY DEF RevocationsExpect
  <2>1. PICK w : w = revoking'[p]
    OBVIOUS
  <2>2. Expects(w)
    BY <1>5, <2>1 DEF ReportsInv, RevocationsExpect
  <2>3. QED
    BY <1>4, <2>1, <2>2 DEF Expects, Ended, RowsStay
<1>10. OneHolds'
  BY <1>5 DEF ReportsInv, OneHolds, Revoking
<1>11. QED
  BY <1>6, <1>7, <1>8, <1>9, <1>10 DEF ReportsInv

LEMMA ReportsInvariant == MetadataSpec => []ReportsInv
<1>1. MetadataInit => ReportsInv
  BY DEF MetadataInit, ReportsInv, MetadataTypeOK, UnrevokedIsLast,
         RevocationsSuspected, ReportsFinal, RevocationsExpect, OneHolds,
         Revoking
<1>2. ReportsInv /\ [MetadataNext]_metadataVars => ReportsInv'
  <2> SUFFICES ASSUME ReportsInv, [MetadataNext]_metadataVars
               PROVE  ReportsInv'
    OBVIOUS
  <2>1. CASE UNCHANGED metadataVars
    BY <2>1 DEF ReportsInv, MetadataTypeOK, UnrevokedIsLast,
                RevocationsSuspected, ReportsFinal, RevocationsExpect,
                OneHolds, Revoking, Expects, Ended, metadataVars, clientVars
  <2>2. ASSUME NEW q \in Requests, RevokeStep(q) PROVE ReportsInv'
    <3>1. ASSUME Conflict(q) \/ Fail(q) PROVE ReportsInv'
      BY <3>1, EndStep DEF Conflict, Fail
    <3>2. QED
      BY <2>2, <3>1, SaveStep, CommitStep, PublishStep DEF RevokeStep
  <2>3. CASE MetadataNext
    BY <2>2, <2>3, LoginStep, RefreshStep, AssessStep DEF MetadataNext
  <2>4. QED
    BY <2>1, <2>3
<1>3. QED
  BY <1>1, <1>2, PTL DEF MetadataSpec

(* Clients are known by metadata, rows, reports, revocations under way and *)
(* their history keep their types.  (dependencies/security.py:16-67)       *)
THEOREM ReportsTypeCorrect == MetadataSpec => []MetadataTypeOK
<1>1. ReportsInv => MetadataTypeOK
  BY DEF ReportsInv
<1>2. QED
  BY <1>1, ReportsInvariant, PTL

(* Every revocation of a stored token that is committed was found          *)
(* suspicious, that by the token's own client as well: the row keeps       *)
(* nothing by which the policy could know it.                              *)
(* (repositories/refresh_token.py:117-147, revoke_token.py:64-82)          *)
THEOREM EveryRevocationSuspected == MetadataSpec => []RevocationsSuspected
<1>1. ReportsInv => RevocationsSuspected
  BY DEF ReportsInv
<1>2. QED
  BY <1>1, ReportsInvariant, PTL

(* Whatever clients, addresses and agents there are: nobody revokes the    *)
(* token of a client it differs from without being suspected, although the *)
(* row has lost what the token was issued to, and however many revocations *)
(* and rotations race.                                                     *)
(* (refresh_token_security_policy.py:18-64, revoke_token.py:64-82,         *)
(* repositories/refresh_token.py:117-147)                                  *)
THEOREM DifferentClientsSuspected ==
  MetadataSpec => []DifferentClientSuspected
<1>1. ReportsInv => DifferentClientSuspected
  BY DEF ReportsInv, RevocationsSuspected, DifferentClientSuspected
<1>2. QED
  BY <1>1, ReportsInvariant, PTL

(* Through any number of rotations, and of revocations that race with them *)
(* and with each other, a token is reported once at most, by who has       *)
(* revoked it, and never after it was rotated.                             *)
(* (revoke_token.py:61-92, repositories/refresh_token.py:72-92)            *)
THEOREM ReportsAreOfRevocations == MetadataSpec => []ReportsMatchRevocations
<1>1. ReportsInv => ReportsMatchRevocations
  <2> SUFFICES ASSUME ReportsInv, NEW x \in reports, NEW y \in reports
               PROVE  /\ x.token = y.token => x = y
                      /\ revokedBy[x.token] = x.client
                      /\ row[x.token].revoked
                      /\ row[x.token].replaced = None
    BY DEF ReportsMatchRevocations
  <2>1. x \in [token : Tokens, client : Metadata]
        /\ y \in [token : Tokens, client : Metadata]
    BY DEF ReportsInv, MetadataTypeOK
  <2>2. Ended(x.token, x.client) /\ Ended(y.token, y.client)
    BY DEF ReportsInv, ReportsFinal
  <2>3. x.token = y.token => x.client = y.client
    BY <2>2 DEF Ended
  <2>4. QED
    BY <2>1, <2>2, <2>3 DEF Ended
<1>2. QED
  BY <1>1, ReportsInvariant, PTL

=============================================================================
