------------------------------ MODULE Accounts -------------------------------
(***************************************************************************)
(* What the account requests promise, each taking effect in one step:      *)
(* accounts with a unique email, verified once by a one-time token, whose  *)
(* password then changes only by its owner or by a recovery token.         *)
(***************************************************************************)
EXTENDS FiniteSets

CONSTANTS Users,      \* account keys
          Tokens,     \* one-time token keys
          Emails,     \* addresses as they are stored
          Passwords,  \* passwords as they are stored
          NoRow,
          Past        \* accounts registered and verified by an earlier run

VARIABLES account,    \* account[u]: the account, or NoRow
          ott         \* ott[t]: the one-time token, or NoRow

accountsVars == <<account, ott>>

VERIFY_EMAIL == "verify_email"
RECOVER_PASSWORD == "recover_password"
Purposes == {VERIFY_EMAIL, RECOVER_PASSWORD}

AccountData == [email : Emails, password : Passwords, verified : BOOLEAN]
OttData == [user : Users, purpose : Purposes, used : BOOLEAN]
PastAccounts ==
  [user : Users, token : Tokens, email : Emails, password : Passwords]

(* A definition rather than an ASSUME, for the modules that instantiate    *)
(* this one to prove; MCAccounts assumes it.                               *)
AccountsAssumption ==
  /\ NoRow \notin AccountData \union OttData
  /\ Past \subseteq PastAccounts
  /\ \A p, q \in Past :
       p.user = q.user \/ p.token = q.token \/ p.email = q.email => p = q

-----------------------------------------------------------------------------

Has(u) == account[u] # NoRow

Init ==
  /\ account = [u \in Users |->
       IF \E p \in Past : p.user = u
       THEN LET p == CHOOSE p \in Past : p.user = u IN
            [email |-> p.email, password |-> p.password, verified |-> TRUE]
       ELSE NoRow]
  /\ ott = [t \in Tokens |->
       IF \E p \in Past : p.token = t
       THEN LET p == CHOOSE p \in Past : p.token = t IN
            [user |-> p.user, purpose |-> VERIFY_EMAIL, used |-> TRUE]
       ELSE NoRow]

NewAccount(e, p) == [email |-> e, password |-> p, verified |-> FALSE]

Issue(t, u, purpose) ==
  /\ ott[t] = NoRow
  /\ ott' = [ott EXCEPT
               ![t] = [user |-> u, purpose |-> purpose, used |-> FALSE]]

(* A one-time token is used once, and only for what it was issued.         *)
Use(t, purpose) ==
  /\ ott[t] # NoRow
  /\ ott[t].purpose = purpose
  /\ ~ott[t].used
  /\ ott' = [ott EXCEPT ![t] = [@ EXCEPT !.used = TRUE]]

EmailTakenByVerified(e) ==
  \E u \in Users : Has(u) /\ account[u].email = e /\ account[u].verified
EmailTaken(e) == \E u \in Users : Has(u) /\ account[u].email = e

Register(u, t, e, p) ==
  /\ ~Has(u)
  /\ ~EmailTaken(e)
  /\ account' = [account EXCEPT ![u] = NewAccount(e, p)]
  /\ Issue(t, u, VERIFY_EMAIL)

(* Registering again before the verification: the account stays as it is.  *)
(* The mutated form takes over the new password.                           *)
ReissueOverwriting(u, t) ==
  /\ Has(u)
  /\ ~account[u].verified
  /\ Issue(t, u, VERIFY_EMAIL)
  /\ \E p \in Passwords :
       account' = [account EXCEPT ![u] = [@ EXCEPT !.password = p]]
Reissue(u, t) ==
  /\ Has(u)
  /\ ~account[u].verified
  /\ Issue(t, u, VERIFY_EMAIL)
  /\ UNCHANGED account

VerifyAgain(u, t) ==
  /\ Has(u)
  /\ Use(t, VERIFY_EMAIL)
  /\ ott[t].user = u
  /\ account' = [account EXCEPT ![u] = [@ EXCEPT !.verified = TRUE]]
Verify(u, t) ==
  /\ Has(u)
  /\ ~account[u].verified
  /\ Use(t, VERIFY_EMAIL)
  /\ ott[t].user = u
  /\ account' = [account EXCEPT ![u] = [@ EXCEPT !.verified = TRUE]]

RequestRecoveryUnverified(u, t) ==
  /\ Has(u)
  /\ Issue(t, u, RECOVER_PASSWORD)
  /\ UNCHANGED account
RequestRecovery(u, t) ==
  /\ Has(u)
  /\ account[u].verified
  /\ Issue(t, u, RECOVER_PASSWORD)
  /\ UNCHANGED account

Recover(u, t, p) ==
  /\ Has(u)
  /\ Use(t, RECOVER_PASSWORD)
  /\ ott[t].user = u
  /\ account' = [account EXCEPT ![u] = [@ EXCEPT !.password = p]]

Change(u, p) ==
  /\ Has(u)
  /\ account[u].verified
  /\ account' = [account EXCEPT ![u] = [@ EXCEPT !.password = p]]
  /\ UNCHANGED ott

Next ==
  \E u \in Users :
    \/ \E t \in Tokens :
         \/ \E e \in Emails, p \in Passwords : Register(u, t, e, p)
         \/ Reissue(u, t)
         \/ Verify(u, t)
         \/ RequestRecovery(u, t)
         \/ \E p \in Passwords : Recover(u, t, p)
    \/ \E p \in Passwords : Change(u, p)

Spec == Init /\ [][Next]_accountsVars

-----------------------------------------------------------------------------

AccountsTypeOK ==
  /\ account \in [Users -> AccountData \union {NoRow}]
  /\ ott \in [Tokens -> OttData \union {NoRow}]
  /\ \A t \in Tokens : ott[t] # NoRow => Has(ott[t].user)

(* Two accounts never share an email.  (models/user.py:19, register.py:53) *)
UniqueEmail ==
  \A u, v \in Users :
    Has(u) /\ Has(v) /\ account[u].email = account[v].email => u = v

UsedFor(t, u, purpose) ==
  ott[t] = [user |-> u, purpose |-> purpose, used |-> TRUE]

(* An account is verified exactly when one of the verification tokens      *)
(* issued for it has been used, and no second one can be used afterwards,  *)
(* however many were issued.  (verify_email.py:59-69, user.py:117-128)     *)
VerifiedByOneToken ==
  /\ \A u \in Users : Has(u) =>
       (account[u].verified
          <=> \E t \in Tokens : UsedFor(t, u, VERIFY_EMAIL))
  /\ \A u \in Users : \A s, t \in Tokens :
       UsedFor(s, u, VERIFY_EMAIL) /\ UsedFor(t, u, VERIFY_EMAIL) => s = t

(* Nobody recovers the password of an account that is not verified: the    *)
(* recovery itself does not check it.  (user.py:105-115, user.py:178-186)  *)
RecoveryNeedsVerification ==
  \A t \in Tokens :
    ott[t] # NoRow /\ ott[t].purpose = RECOVER_PASSWORD =>
      account[ott[t].user].verified

(* The password of an account is the one it was registered with until the  *)
(* account is verified, and a verified account stays verified.             *)
(* (user.py:84-128, user.py:159-186)                                       *)
PasswordSettledUntilVerified ==
  [][\A u \in Users : Has(u) =>
       /\ account[u].verified => account'[u].verified
       /\ ~account[u].verified =>
            account'[u].password = account[u].password]_accountsVars

=============================================================================
