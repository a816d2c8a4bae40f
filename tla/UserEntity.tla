------------------------------ MODULE UserEntity ------------------------------
(***************************************************************************)
(* The aggregate User: every method of it, called in any order, on any     *)
(* email and password.  A password is a word between blanks.  What counts  *)
(* of a word is its length in characters, which validate_password limits,  *)
(* and in bytes, which bcrypt limits (72, from version 5.0 on with a       *)
(* ValueError); a hash is the word it was made of.                         *)
(***************************************************************************)
EXTENDS Integers, Sequences

CONSTANTS Words,      \* stripped passwords
          Chars,      \* Chars[w]: characters of w
          Bytes,      \* Bytes[w]: bytes of w in UTF-8
          MinLen, MaxLen,   \* min_password_len, max_password_len
          HashLimit,  \* bytes that bcrypt takes
          MaxBlanks,  \* bound on the blanks around a password
          Emails,     \* emails as sent
          Malformed,  \* those that do not have the form of an email
          NoUser,
          MaxEvents   \* bound on the events of the user

RawPasswords == [word : Words, blanks : 0 .. MaxBlanks]

UserRecords == [password : Words, active : BOOLEAN, verified : BOOLEAN]

ASSUME UserEntityAssumption ==
  /\ Chars \in [Words -> Nat] /\ Bytes \in [Words -> Nat]
  /\ \A w \in Words : Chars[w] <= Bytes[w]
  /\ MinLen \in Nat /\ MaxLen \in Nat /\ HashLimit \in Nat
  /\ MaxBlanks \in Nat /\ MaxEvents \in Nat
  /\ Malformed \subseteq Emails
  /\ NoUser \notin UserRecords

VARIABLES user,     \* the entity: what its row holds
          events,   \* _events
          pulled,   \* history: what pull_domain_events has returned
          outcome,  \* how the last call ended
          given     \* history: the last password the entity has accepted

vars == <<user, events, pulled, outcome, given>>

Creation == "UserCreated"
PasswordEvents == {"UserPasswordChanged", "UserPasswordRecovered"}
StatusEvents == {"UserActivated", "UserDeactivated"}
EventTypes == {Creation, "UserEmailVerified"} \union PasswordEvents
  \union StatusEvents
  \union {"UserEmailVerificationRequested", "UserPasswordRecoverRequested"}

Errors == {"EmailValidationError", "PasswordValidationError", "UserError",
           "ValueError"}
Outcomes == Errors \union {"ok", "no"}

-----------------------------------------------------------------------------
(* Validators and hashing                                                  *)

Strip(p) == p.word
Size(p) == Bytes[p.word] + p.blanks

(* validate_email                                                          *)
EmailError(e) == IF e \in Malformed THEN "EmailValidationError" ELSE "ok"

HashErrorNever(w) == "ok"
(* hash_password(w)                                                        *)
HashError(w) == IF Bytes[w] > HashLimit THEN "ValueError" ELSE "ok"

(* validate_hash_password: the limits are on the stripped password.        *)
PasswordError(p) ==
  IF Chars[Strip(p)] \in MinLen .. MaxLen
  THEN HashError(Strip(p)) ELSE "PasswordValidationError"

(* verify_password of core/utils/security.py: the password as it was sent. *)
Checked(p, hash) ==
  IF Size(p) > HashLimit THEN "ValueError"
  ELSE IF p.word = hash /\ p.blanks = 0 THEN "ok" ELSE "no"

LoginOutcome(p) ==
  IF ~user.active \/ ~user.verified THEN "UserError"
  ELSE IF Checked(p, user.password) = "no" THEN "UserError"
  ELSE Checked(p, user.password)

-----------------------------------------------------------------------------

Init ==
  /\ user = NoUser
  /\ events = <<>>
  /\ pulled = <<>>
  /\ outcome = "ok"
  /\ given \in {p \in RawPasswords : p.blanks = 0}

Exists == user # NoUser
Room == Len(pulled) + Len(events) < MaxEvents   \* bound

Emit(type) == events' = Append(events, type)

(* The call raises: it leaves the entity as it was.                        *)
Raise(error) ==
  /\ outcome' = error
  /\ UNCHANGED <<user, events, pulled, given>>

Done == outcome' = "ok" /\ UNCHANGED pulled

Create(e, p) ==
  /\ ~Exists /\ Room
  /\ \/ /\ EmailError(e) = "ok" /\ PasswordError(p) = "ok"
        /\ user' = [password |-> Strip(p), active |-> TRUE, verified |-> FALSE]
        /\ given' = p
        /\ Emit(Creation)
        /\ Done
     \/ /\ EmailError(e) # "ok"
        /\ Raise(EmailError(e))
     \/ /\ EmailError(e) = "ok" /\ PasswordError(p) # "ok"
        /\ Raise(PasswordError(p))

(* A call that only leaves an event behind, if the email is, or is not yet,*)
(* verified.                                                               *)
Request(verified, type) ==
  /\ Exists /\ Room
  /\ \/ /\ user.verified = verified
        /\ Emit(type)
        /\ Done
        /\ UNCHANGED <<user, given>>
     \/ /\ user.verified # verified
        /\ Raise("UserError")

RequestEmailVerification == Request(FALSE, "UserEmailVerificationRequested")
RequestPasswordRecoverAnyUser ==
  \E v \in BOOLEAN : Request(v, "UserPasswordRecoverRequested")
RequestPasswordRecover == Request(TRUE, "UserPasswordRecoverRequested")

VerifyEmail ==
  /\ Exists /\ Room
  /\ \/ /\ ~user.verified
        /\ user' = [user EXCEPT !.verified = TRUE]
        /\ Emit("UserEmailVerified")
        /\ Done
        /\ UNCHANGED given
     \/ /\ user.verified
        /\ Raise("UserError")

AssertCanLogin(p) ==
  /\ Exists
  /\ Raise(LoginOutcome(p))

VerifyPassword(p) ==
  /\ Exists
  /\ Raise(Checked(p, user.password))

SetPassword(p, type) ==
  /\ user' = [user EXCEPT !.password = Strip(p)]
  /\ given' = p
  /\ Emit(type)
  /\ Done

(* The event is emitted before the new password is validated.              *)
ChangePasswordEmitFirst(old, new) ==
  /\ Exists /\ Room
  /\ Checked(old, user.password) = "ok" /\ old # new
  /\ \/ /\ PasswordError(new) = "ok"
        /\ SetPassword(new, "UserPasswordChanged")
     \/ /\ PasswordError(new) # "ok"
        /\ outcome' = PasswordError(new)
        /\ Emit("UserPasswordChanged")
        /\ UNCHANGED <<user, pulled, given>>
ChangePassword(old, new) ==
  /\ Exists /\ Room
  /\ \/ /\ Checked(old, user.password) = "ValueError"
        /\ Raise("ValueError")
     \/ /\ Checked(old, user.password) = "no"
        /\ Raise("UserError")
     \/ /\ Checked(old, user.password) = "ok"
        /\ \/ old = new /\ Raise("UserError")
           \/ /\ old # new /\ PasswordError(new) # "ok"
              /\ Raise(PasswordError(new))
           \/ /\ old # new /\ PasswordError(new) = "ok"
              /\ SetPassword(new, "UserPasswordChanged")

RecoverPassword(p) ==
  /\ Exists /\ Room
  /\ \/ /\ PasswordError(p) = "ok"
        /\ SetPassword(p, "UserPasswordRecovered")
     \/ /\ PasswordError(p) # "ok"
        /\ Raise(PasswordError(p))

(* activate, deactivate                                                    *)
SetActive(active, type) ==
  /\ Exists /\ Room
  /\ \/ /\ user.active # active
        /\ user' = [user EXCEPT !.active = active]
        /\ Emit(type)
        /\ Done
        /\ UNCHANGED given
     \/ /\ user.active = active
        /\ Raise("UserError")

Activate == SetActive(TRUE, "UserActivated")
Deactivate == SetActive(FALSE, "UserDeactivated")

PullAgain ==
  /\ Exists
  /\ Len(pulled) + 2 * Len(events) <= MaxEvents
  /\ pulled' = pulled \o events
  /\ outcome' = "ok"
  /\ UNCHANGED <<user, events, given>>
Pull ==
  /\ Exists
  /\ pulled' = pulled \o events
  /\ events' = <<>>
  /\ outcome' = "ok"
  /\ UNCHANGED <<user, given>>

Next ==
  \/ \E p \in RawPasswords :
       \/ \E e \in Emails : Create(e, p)
       \/ AssertCanLogin(p)
       \/ VerifyPassword(p)
       \/ RecoverPassword(p)
       \/ \E new \in RawPasswords : ChangePassword(p, new)
  \/ RequestEmailVerification
  \/ RequestPasswordRecover
  \/ VerifyEmail
  \/ Activate
  \/ Deactivate
  \/ Pull

Spec == Init /\ [][Next]_vars

-----------------------------------------------------------------------------

TypeOK ==
  /\ user \in UserRecords \union {NoUser}
  /\ events \in Seq(EventTypes)
  /\ pulled \in Seq(EventTypes)
  /\ outcome \in Outcomes
  /\ given \in RawPasswords

Story == pulled \o events
Told(type) == {i \in DOMAIN Story : Story[i] = type}

(* Who replays the events of a user, those pulled before and those still   *)
(* pending, gets the state of the entity: it is created by the first and   *)
(* by no other event, verified by exactly one, and the statuses alternate  *)
(* and end in the present one.  (user.py:82, 117-128, 188-223)             *)
EventsTellState ==
  /\ Exists <=> Told(Creation) = {1}
  /\ ~Exists => Story = <<>>
  /\ Exists =>
       /\ user.verified <=> Told("UserEmailVerified") # {}
       /\ \A i, j \in Told("UserEmailVerified") : i = j
       /\ user.active <=>
            \A i \in Told("UserDeactivated") :
              \E j \in Told("UserActivated") : i < j
       /\ \A i, j \in Told("UserDeactivated") :
            i < j => \E k \in Told("UserActivated") : i < k /\ k < j

(* The requests in the story of a user are where they make sense: nobody   *)
(* was asked to verify an email that was verified, nor told how to recover *)
(* an account that was not.  (user.py:94-115)                              *)
RequestsMatchStory ==
  /\ \A i \in Told("UserEmailVerified") :
       /\ \A j \in Told("UserEmailVerificationRequested") : j < i
       /\ \A j \in Told("UserPasswordRecoverRequested") : i < j
  /\ Told("UserPasswordRecoverRequested") # {} =>
       Told("UserEmailVerified") # {}

(* A password that the entity has accepted opens the account: with the     *)
(* blanks around it taken away, which is how it was stored, it passes      *)
(* bcrypt's limit and matches.  (password.py:30-44, security.py:7-12)      *)
AcceptedPasswordOpens ==
  Exists /\ user.active /\ user.verified =>
    LoginOutcome([given EXCEPT !.blanks = 0]) = "ok"

(* A call that raises leaves neither a changed field nor an event behind,  *)
(* wherever in the method it raises: what the use case pulls afterwards is *)
(* what has happened.  (user.py:159-186)                                   *)
FailedCallsChangeNothing ==
  [][outcome' \in Errors => UNCHANGED <<user, events, pulled>>]_vars

(* The docstring of validate_hash_password: "Raises PasswordValidationError*)
(* on failure".  (password.py:35-44)                                       *)
PasswordsFailByValidation ==
  ~Exists => outcome # "ValueError"

=============================================================================
