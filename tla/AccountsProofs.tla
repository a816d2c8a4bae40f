--------------------------- MODULE AccountsProofs ----------------------------
(***************************************************************************)
(* The abstract accounts: theorems about Accounts, for any number of       *)
(* accounts, one-time tokens, addresses and passwords.                     *)
(***************************************************************************)
EXTENDS Accounts, TLAPS

AccountsInv ==
  /\ AccountsTypeOK
  /\ UniqueEmail
  /\ VerifiedByOneToken
  /\ RecoveryNeedsVerification

(* The effects of the steps on one account and on one token.               *)
AccountBecomes(u, email, password, verified) ==
  /\ account'[u] # NoRow
  /\ account'[u].email = email
  /\ account'[u].password = password
  /\ account'[u].verified = verified
  /\ \A v \in Users \ {u} : account'[v] = account[v]
  /\ account' \in [Users -> AccountData \union {NoRow}]

TokenBecomes(t, u, purpose, used) ==
  /\ ott'[t] # NoRow
  /\ ott'[t] = [user |-> u, purpose |-> purpose, used |-> used]
  /\ \A s \in Tokens \ {t} : ott'[s] = ott[s]
  /\ ott' \in [Tokens -> OttData \union {NoRow}]

LEMMA AccountWritten ==
  ASSUME AccountsAssumption, AccountsTypeOK,
         NEW u \in Users, NEW a \in AccountData,
         account' = [account EXCEPT ![u] = a]
  PROVE  AccountBecomes(u, a.email, a.password, a.verified)
  BY DEF AccountsAssumption, AccountBecomes, AccountsTypeOK, AccountData

LEMMA AccountFields ==
  ASSUME AccountsTypeOK, NEW u \in Users, Has(u)
  PROVE  /\ account[u] \in AccountData
         /\ account[u].email \in Emails
         /\ account[u].password \in Passwords
         /\ account[u].verified \in BOOLEAN
  BY DEF AccountsTypeOK, Has, AccountData

LEMMA TokenFields ==
  ASSUME AccountsTypeOK, NEW t \in Tokens, ott[t] # NoRow
  PROVE  /\ ott[t].user \in Users
         /\ ott[t].purpose \in Purposes
         /\ ott[t].used \in BOOLEAN
         /\ ott[t] = [user |-> ott[t].user, purpose |-> ott[t].purpose,
                      used |-> ott[t].used]
         /\ Has(ott[t].user)
  BY DEF AccountsTypeOK, OttData

LEMMA IssueEffect ==
  ASSUME AccountsAssumption, AccountsTypeOK,
         NEW t \in Tokens, NEW u \in Users, NEW purpose \in Purposes,
         Issue(t, u, purpose)
  PROVE  ott[t] = NoRow /\ TokenBecomes(t, u, purpose, FALSE)
<1>1. [user |-> u, purpose |-> purpose, used |-> FALSE] \in OttData
  BY DEF OttData
<1>2. QED
  BY <1>1 DEF AccountsAssumption, Issue, TokenBecomes, AccountsTypeOK

LEMMA OttFields ==
  ASSUME NEW r \in OttData, NEW q \in OttData,
         r.user = q.user, r.purpose = q.purpose, r.used = q.used
  PROVE  r = q
  BY DEF OttData

LEMMA UsedToken ==
  ASSUME NEW r \in OttData
  PROVE  [r EXCEPT !.used = TRUE] =
           [user |-> r.user, purpose |-> r.purpose, used |-> TRUE]
<1> DEFINE q == [r EXCEPT !.used = TRUE]
           n == [user |-> r.user, purpose |-> r.purpose, used |-> TRUE]
<1>1. q \in OttData /\ q.user = r.user /\ q.purpose = r.purpose
      /\ q.used = TRUE
  BY DEF OttData
<1>2. n \in OttData /\ n.user = r.user /\ n.purpose = r.purpose
      /\ n.used = TRUE
  BY DEF OttData
<1> HIDE DEF q, n
<1>3. q = n
  BY <1>1, <1>2, OttFields
<1>4. QED
  BY <1>3 DEF q, n

LEMMA UseEffect ==
  ASSUME AccountsAssumption, AccountsTypeOK,
         NEW t \in Tokens, NEW purpose \in Purposes, Use(t, purpose)
  PROVE  /\ ott[t] = [user |-> ott[t].user, purpose |-> purpose, used |-> FALSE]
         /\ ott[t] # NoRow
         /\ TokenBecomes(t, ott[t].user, purpose, TRUE)
<1>1. /\ ott[t] # NoRow /\ ott[t].purpose = purpose /\ ott[t].used = FALSE
      /\ ott[t].user \in Users /\ ott[t] \in OttData
  BY TokenFields DEF Use, AccountsTypeOK
<1>2. ott[t] = [user |-> ott[t].user, purpose |-> purpose, used |-> FALSE]
  BY <1>1, TokenFields
<1> DEFINE n == [user |-> ott[t].user, purpose |-> purpose, used |-> TRUE]
<1>3. [ott[t] EXCEPT !.used = TRUE] = n
  BY <1>1, UsedToken
<1>4. n \in OttData
  BY <1>1 DEF OttData
<1>5. ott' = [ott EXCEPT ![t] = n]
  BY <1>3 DEF Use
<1> HIDE DEF n
<1>6. ott'[t] = n /\ n # NoRow
  BY <1>4, <1>5 DEF AccountsAssumption, AccountsTypeOK
<1>7. QED
  BY <1>1, <1>2, <1>4, <1>5, <1>6 DEF TokenBecomes, AccountsTypeOK, n

LEMMA PurposesDiffer == VERIFY_EMAIL # RECOVER_PASSWORD
                        /\ VERIFY_EMAIL \in Purposes /\ RECOVER_PASSWORD \in Purposes
  BY DEF VERIFY_EMAIL, RECOVER_PASSWORD, Purposes

-----------------------------------------------------------------------------

LEMMA InitInv ==
  ASSUME AccountsAssumption, Init
  PROVE  AccountsInv
<1>1. ASSUME NEW u \in Users, Has(u)
      PROVE  \E p \in Past :
               /\ p.user = u
               /\ account[u] = [email |-> p.email, password |-> p.password,
                                verified |-> TRUE]
  <2>1. \E p \in Past : p.user = u
    BY <1>1 DEF Init, Has
  <2> DEFINE p == CHOOSE p \in Past : p.user = u
  <2>2. p \in Past /\ p.user = u
    BY <2>1
  <2>3. account[u] = [email |-> p.email, password |-> p.password,
                      verified |-> TRUE]
    BY <2>1 DEF Init
  <2> HIDE DEF p
  <2>4. QED
    BY <2>2, <2>3
<1>2. ASSUME NEW t \in Tokens, ott[t] # NoRow
      PROVE  \E p \in Past :
               /\ p.token = t
               /\ ott[t] = [user |-> p.user, purpose |-> VERIFY_EMAIL,
                            used |-> TRUE]
  <2>1. \E p \in Past : p.token = t
    BY <1>2 DEF Init
  <2> DEFINE p == CHOOSE p \in Past : p.token = t
  <2>2. p \in Past /\ p.token = t
    BY <2>1
  <2>3. ott[t] = [user |-> p.user, purpose |-> VERIFY_EMAIL, used |-> TRUE]
    BY <2>1 DEF Init
  <2> HIDE DEF p
  <2>4. QED
    BY <2>2, <2>3
<1>3. ASSUME NEW p \in Past
      PROVE  /\ p.user \in Users /\ p.token \in Tokens
             /\ p.email \in Emails /\ p.password \in Passwords
             /\ account[p.user] = [email |-> p.email, password |-> p.password,
                                   verified |-> TRUE]
             /\ ott[p.token] = [user |-> p.user, purpose |-> VERIFY_EMAIL,
                                used |-> TRUE]
             /\ Has(p.user)
  <2>1. /\ p.user \in Users /\ p.token \in Tokens
        /\ p.email \in Emails /\ p.password \in Passwords
    BY DEF AccountsAssumption, PastAccounts
  <2>2. p = CHOOSE q \in Past : q.user = p.user
    BY DEF AccountsAssumption
  <2>3. p = CHOOSE q \in Past : q.token = p.token
    BY DEF AccountsAssumption
  <2>4. account[p.user] = [email |-> p.email, password |-> p.password,
                           verified |-> TRUE]
    BY <2>1, <2>2 DEF Init
  <2>5. ott[p.token] = [user |-> p.user, purpose |-> VERIFY_EMAIL,
                        used |-> TRUE]
    BY <2>1, <2>3 DEF Init
  <2>6. account[p.user] \in AccountData
    BY <2>1, <2>4 DEF AccountData
  <2>7. QED
    BY <2>1, <2>4, <2>5, <2>6 DEF AccountsAssumption, Has
<1>4. AccountsTypeOK
  <2>1. ASSUME NEW u \in Users PROVE account[u] \in AccountData \union {NoRow}
    <3>1. CASE Has(u)
      <4>1. PICK p \in Past :
              account[u] = [email |-> p.email, password |-> p.password,
                            verified |-> TRUE]
        BY <1>1, <3>1
      <4>2. p.email \in Emails /\ p.password \in Passwords
        BY <1>3
      <4>3. QED
        BY <4>1, <4>2 DEF AccountData
    <3>2. CASE ~Has(u)
      BY <3>2 DEF Has
    <3>3. QED
      BY <3>1, <3>2
  <2>2. ASSUME NEW t \in Tokens
        PROVE  /\ ott[t] \in OttData \union {NoRow}
               /\ ott[t] # NoRow => Has(ott[t].user)
    <3>1. CASE ott[t] # NoRow
      <4>1. PICK p \in Past :
              ott[t] = [user |-> p.user, purpose |-> VERIFY_EMAIL,
                        used |-> TRUE]
        BY <1>2, <3>1
      <4>2. p.user \in Users /\ Has(p.user)
        BY <1>3
      <4>3. ott[t].user = p.user
        BY <4>1
      <4>4. ott[t] \in OttData
        BY <4>1, <4>2, PurposesDiffer DEF OttData
      <4>5. QED
        BY <4>2, <4>3, <4>4
    <3>2. QED
      BY <3>1
  <2>3. account = [u \in Users |-> account[u]]
        /\ ott = [t \in Tokens |-> ott[t]]
    BY DEF Init
  <2>4. QED
    BY <2>1, <2>2, <2>3 DEF AccountsTypeOK
<1>5. UniqueEmail
  <2> SUFFICES ASSUME NEW u \in Users, NEW v \in Users, Has(u), Has(v),
                      account[u].email = account[v].email
               PROVE  u = v
    BY DEF UniqueEmail
  <2>1. PICK p \in Past : p.user = u
          /\ account[u] = [email |-> p.email, password |-> p.password,
                           verified |-> TRUE]
    BY <1>1
  <2>2. PICK q \in Past : q.user = v
          /\ account[v] = [email |-> q.email, password |-> q.password,
                           verified |-> TRUE]
    BY <1>1
  <2>3. p.email = q.email
    BY <2>1, <2>2
  <2>4. QED
    BY <2>1, <2>2, <2>3 DEF AccountsAssumption
<1>6. VerifiedByOneToken
  <2>1. ASSUME NEW u \in Users, Has(u)
        PROVE  /\ account[u].verified
               /\ \E t \in Tokens : UsedFor(t, u, VERIFY_EMAIL)
    <3>1. PICK p \in Past : p.user = u
            /\ account[u] = [email |-> p.email, password |-> p.password,
                             verified |-> TRUE]
      BY <1>1, <2>1
    <3>2. account[u].verified = TRUE
      BY <3>1
    <3>3. UsedFor(p.token, u, VERIFY_EMAIL) /\ p.token \in Tokens
      BY <1>3, <3>1 DEF UsedFor
    <3>4. QED
      BY <3>2, <3>3
  <2>2. ASSUME NEW u \in Users, NEW s \in Tokens, NEW t \in Tokens,
               UsedFor(s, u, VERIFY_EMAIL), UsedFor(t, u, VERIFY_EMAIL)
        PROVE  s = t
    <3>1. ott[s] # NoRow /\ ott[t] # NoRow /\ ott[s].user = u /\ ott[t].user = u
      <4>1. [user |-> u, purpose |-> VERIFY_EMAIL, used |-> TRUE] \in OttData
        BY PurposesDiffer DEF OttData
      <4>2. [user |-> u, purpose |-> VERIFY_EMAIL, used |-> TRUE] # NoRow
        BY <4>1 DEF AccountsAssumption
      <4>3. ott[s] = [user |-> u, purpose |-> VERIFY_EMAIL, used |-> TRUE]
            /\ ott[t] = [user |-> u, purpose |-> VERIFY_EMAIL, used |-> TRUE]
        BY <2>2 DEF UsedFor
      <4>4. QED
        BY <4>2, <4>3
    <3>2. PICK p \in Past : p.token = s
            /\ ott[s] = [user |-> p.user, purpose |-> VERIFY_EMAIL, used |-> TRUE]
      BY <1>2, <3>1
    <3>3. PICK q \in Past : q.token = t
            /\ ott[t] = [user |-> q.user, purpose |-> VERIFY_EMAIL, used |-> TRUE]
      BY <1>2, <3>1
    <3>4. p.user = q.user
      BY <3>1, <3>2, <3>3
    <3>5. QED
      BY <3>2, <3>3, <3>4 DEF AccountsAssumption
  <2>3. QED
    BY <2>1, <2>2 DEF VerifiedByOneToken
<1>7. RecoveryNeedsVerification
  <2>1. ASSUME NEW t \in Tokens, ott[t] # NoRow
        PROVE  ott[t].purpose # RECOVER_PASSWORD
    <3>1. PICK p \in Past :
            ott[t] = [user |-> p.user, purpose |-> VERIFY_EMAIL,
                      used |-> TRUE]
      BY <1>2, <2>1
    <3>2. ott[t].purpose = VERIFY_EMAIL
      BY <3>1
    <3>3. QED
      BY <3>2, PurposesDiffer
  <2>2. QED
    BY <2>1 DEF RecoveryNeedsVerification
<1>8. QED
  BY <1>4, <1>5, <1>6, <1>7 DEF AccountsInv

-----------------------------------------------------------------------------
(* The effect of each step                                                 *)

(* A token issued, and accounts left alone.                                *)
LEMMA IssueStep ==
  ASSUME AccountsAssumption, AccountsInv,
         NEW t \in Tokens, NEW u \in Users, NEW purpose \in Purposes,
         Issue(t, u, purpose), Has(u),
         purpose = RECOVER_PASSWORD => account[u].verified,
         UNCHANGED account
  PROVE  AccountsInv'
<1>1. AccountsTypeOK /\ ott[t] = NoRow /\ TokenBecomes(t, u, purpose, FALSE)
  BY IssueEffect DEF AccountsInv
<1>2. ott'[t].user = u /\ ott'[t].purpose = purpose /\ ott'[t].used = FALSE
  BY <1>1 DEF TokenBecomes
<1>3. AccountsTypeOK'
  BY <1>1, <1>2 DEF TokenBecomes, AccountsTypeOK, Has
<1>4. UniqueEmail'
  BY DEF AccountsInv, UniqueEmail, Has
<1>5. \A s \in Tokens, v \in Users :
        UsedFor(s, v, VERIFY_EMAIL)' <=> UsedFor(s, v, VERIFY_EMAIL)
  <2> SUFFICES ASSUME NEW s \in Tokens, NEW v \in Users
               PROVE  UsedFor(s, v, VERIFY_EMAIL)' <=> UsedFor(s, v, VERIFY_EMAIL)
    OBVIOUS
  <2>1. CASE s = t
    <3>1. [user |-> v, purpose |-> VERIFY_EMAIL, used |-> TRUE] # NoRow
      <4>1. [user |-> v, purpose |-> VERIFY_EMAIL, used |-> TRUE] \in OttData
        BY PurposesDiffer DEF OttData
      <4>2. QED
        BY <4>1 DEF AccountsAssumption
    <3>2. ~UsedFor(s, v, VERIFY_EMAIL)
      BY <1>1, <2>1, <3>1 DEF UsedFor
    <3>3. ~UsedFor(s, v, VERIFY_EMAIL)'
      BY <1>2, <2>1 DEF UsedFor
    <3>4. QED
      BY <3>2, <3>3
  <2>2. CASE s # t
    BY <1>1, <2>2 DEF TokenBecomes, UsedFor
  <2>3. QED
    BY <2>1, <2>2
<1>6. VerifiedByOneToken'
  BY <1>5 DEF AccountsInv, VerifiedByOneToken, Has
<1>7. RecoveryNeedsVerification'
  BY <1>1, <1>2 DEF AccountsInv, RecoveryNeedsVerification, TokenBecomes
<1>8. QED
  BY <1>3, <1>4, <1>6, <1>7 DEF AccountsInv

LEMMA RegisterStep ==
  ASSUME AccountsAssumption, AccountsInv,
         NEW u \in Users, NEW t \in Tokens, NEW e \in Emails,
         NEW p \in Passwords, Register(u, t, e, p)
  PROVE  AccountsInv'
<1> DEFINE a == NewAccount(e, p)
<1>1. a \in AccountData /\ a.email = e /\ a.password = p /\ a.verified = FALSE
  BY DEF NewAccount, AccountData
<1>2. AccountsTypeOK /\ ~Has(u) /\ ~EmailTaken(e)
      /\ account' = [account EXCEPT ![u] = a]
      /\ Issue(t, u, VERIFY_EMAIL)
  BY DEF AccountsInv, Register
<1> HIDE DEF a
<1>3. AccountBecomes(u, e, p, FALSE)
  BY <1>1, <1>2, AccountWritten
<1>4. ott[t] = NoRow /\ TokenBecomes(t, u, VERIFY_EMAIL, FALSE)
  BY <1>2, PurposesDiffer, IssueEffect
<1>5. ott'[t].user = u /\ ott'[t].purpose = VERIFY_EMAIL /\ ott'[t].used = FALSE
  BY <1>4 DEF TokenBecomes
<1>6. AccountsTypeOK'
  BY <1>2, <1>3, <1>4, <1>5 DEF AccountBecomes, TokenBecomes, AccountsTypeOK, Has
<1>7. UniqueEmail'
  BY <1>2, <1>3 DEF AccountsInv, AccountBecomes, UniqueEmail, EmailTaken, Has
<1>8. \A s \in Tokens, v \in Users :
        /\ UsedFor(s, v, VERIFY_EMAIL)' => UsedFor(s, v, VERIFY_EMAIL)
        /\ UsedFor(s, v, VERIFY_EMAIL) => UsedFor(s, v, VERIFY_EMAIL)' /\ Has(v)
  <2> SUFFICES ASSUME NEW s \in Tokens, NEW v \in Users
               PROVE
                 /\ UsedFor(s, v, VERIFY_EMAIL)' => UsedFor(s, v, VERIFY_EMAIL)
                 /\ UsedFor(s, v, VERIFY_EMAIL) =>
                      UsedFor(s, v, VERIFY_EMAIL)' /\ Has(v)
    OBVIOUS
  <2>0. [user |-> v, purpose |-> VERIFY_EMAIL, used |-> TRUE] # NoRow
    <3>1. [user |-> v, purpose |-> VERIFY_EMAIL, used |-> TRUE] \in OttData
      BY PurposesDiffer DEF OttData
    <3>2. QED
      BY <3>1 DEF AccountsAssumption
  <2>1. CASE s = t
    BY <1>4, <1>5, <2>0, <2>1 DEF UsedFor
  <2>2. CASE s # t
    <3>1. ott'[s] = ott[s]
      BY <1>4, <2>2 DEF TokenBecomes
    <3>2. UsedFor(s, v, VERIFY_EMAIL) => Has(v)
      BY <1>2, <2>0 DEF UsedFor, AccountsTypeOK
    <3>3. QED
      BY <3>1, <3>2 DEF UsedFor
  <2>3. QED
    BY <2>1, <2>2
<1>9. VerifiedByOneToken'
  <2>1. ASSUME NEW v \in Users, Has(v)'
        PROVE  account'[v].verified <=>
                 \E s \in Tokens : UsedFor(s, v, VERIFY_EMAIL)'
    <3>1. CASE v = u
      BY <1>2, <1>3, <1>8, <3>1 DEF AccountBecomes
    <3>2. CASE v # u
      BY <1>3, <1>8, <2>1, <3>2
      DEF AccountBecomes, AccountsInv, VerifiedByOneToken, Has
    <3>3. QED
      BY <3>1, <3>2
  <2>2. \A v \in Users : \A s, r \in Tokens :
          UsedFor(s, v, VERIFY_EMAIL)' /\ UsedFor(r, v, VERIFY_EMAIL)' => s = r
    BY <1>8 DEF AccountsInv, VerifiedByOneToken
  <2>3. QED
    BY <2>1, <2>2 DEF VerifiedByOneToken
<1>10. RecoveryNeedsVerification'
  <2> SUFFICES ASSUME NEW s \in Tokens, ott'[s] # NoRow,
                      ott'[s].purpose = RECOVER_PASSWORD
               PROVE  account'[ott'[s].user].verified
    BY DEF RecoveryNeedsVerification
  <2>1. s # t /\ ott'[s] = ott[s]
    BY <1>4, <1>5, PurposesDiffer DEF TokenBecomes
  <2>2. account[ott[s].user].verified /\ Has(ott[s].user) /\ ott[s].user \in Users
    BY <2>1, <1>2, TokenFields DEF AccountsInv, RecoveryNeedsVerification
  <2>3. QED
    BY <1>2, <1>3, <2>1, <2>2 DEF AccountBecomes
<1>11. QED
  BY <1>6, <1>7, <1>9, <1>10 DEF AccountsInv

LEMMA VerifyStep ==
  ASSUME AccountsAssumption, AccountsInv,
         NEW u \in Users, NEW t \in Tokens, Verify(u, t)
  PROVE  AccountsInv'
<1> DEFINE a == [account[u] EXCEPT !.verified = TRUE]
<1>1. AccountsTypeOK /\ Has(u) /\ account[u].verified = FALSE
      /\ ott[t].user = u /\ Use(t, VERIFY_EMAIL)
  BY AccountFields DEF AccountsInv, Verify
<1>2. account[u] \in AccountData
  BY <1>1, AccountFields
<1>3. a \in AccountData /\ a.email = account[u].email
      /\ a.password = account[u].password /\ a.verified = TRUE
  BY <1>2 DEF AccountData
<1>4. account' = [account EXCEPT ![u] = a]
  BY DEF Verify
<1> HIDE DEF a
<1>5. AccountBecomes(u, account[u].email, account[u].password, TRUE)
  BY <1>1, <1>3, <1>4, AccountWritten
<1>6. /\ ott[t] # NoRow /\ TokenBecomes(t, u, VERIFY_EMAIL, TRUE)
      /\ ott[t] = [user |-> u, purpose |-> VERIFY_EMAIL, used |-> FALSE]
  BY <1>1, PurposesDiffer, UseEffect
<1>7. ott'[t].user = u /\ ott'[t].purpose = VERIFY_EMAIL
      /\ UsedFor(t, u, VERIFY_EMAIL)'
  BY <1>6 DEF TokenBecomes, UsedFor
<1>8. AccountsTypeOK'
  <2>1. account' \in [Users -> AccountData \union {NoRow}]
        /\ ott' \in [Tokens -> OttData \union {NoRow}]
    BY <1>5, <1>6 DEF AccountBecomes, TokenBecomes
  <2>2. \A v \in Users : Has(v) => Has(v)'
    BY <1>5 DEF AccountBecomes, Has
  <2>3. ASSUME NEW s \in Tokens, ott'[s] # NoRow PROVE account'[ott'[s].user] # NoRow
    <3>1. ott'[s].user = ott[s].user /\ ott[s] # NoRow
      BY <1>1, <1>6, <1>7, <2>3 DEF TokenBecomes
    <3>2. Has(ott[s].user) /\ ott[s].user \in Users
      BY <1>1, <3>1, TokenFields
    <3>3. QED
      BY <2>2, <3>1, <3>2 DEF Has
  <2>4. QED
    BY <2>1, <2>3 DEF AccountsTypeOK, Has
<1>9. UniqueEmail'
  <2>1. \A v \in Users : Has(v)' =>
          Has(v) /\ account'[v].email = account[v].email
    BY <1>1, <1>5 DEF AccountBecomes, Has
  <2>2. QED
    BY <2>1 DEF AccountsInv, UniqueEmail
<1>10. \A s \in Tokens, v \in Users :
         UsedFor(s, v, VERIFY_EMAIL)' <=>
           (UsedFor(s, v, VERIFY_EMAIL) \/ (s = t /\ v = u))
  <2> SUFFICES ASSUME NEW s \in Tokens, NEW v \in Users
               PROVE  UsedFor(s, v, VERIFY_EMAIL)' <=>
                        (UsedFor(s, v, VERIFY_EMAIL) \/ (s = t /\ v = u))
    OBVIOUS
  <2>1. CASE s = t
    <3>1. ~UsedFor(t, v, VERIFY_EMAIL)
      BY <1>6 DEF UsedFor
    <3>2. UsedFor(t, v, VERIFY_EMAIL)' <=> v = u
      <4>1. UsedFor(t, v, VERIFY_EMAIL)' => v = ott'[t].user
        BY DEF UsedFor
      <4>2. QED
        BY <1>7, <4>1
    <3>3. QED
      BY <2>1, <3>1, <3>2
  <2>2. CASE s # t
    BY <1>6, <2>2 DEF TokenBecomes, UsedFor
  <2>3. QED
    BY <2>1, <2>2
<1>11. VerifiedByOneToken'
  <2>1. ASSUME NEW v \in Users, Has(v)'
        PROVE  account'[v].verified <=>
                 \E s \in Tokens : UsedFor(s, v, VERIFY_EMAIL)'
    <3>1. CASE v = u
      BY <1>5, <1>7, <3>1 DEF AccountBecomes
    <3>2. CASE v # u
      BY <1>5, <1>10, <2>1, <3>2
      DEF AccountBecomes, AccountsInv, VerifiedByOneToken, Has
    <3>3. QED
      BY <3>1, <3>2
  <2>2. ASSUME NEW v \in Users, NEW s \in Tokens, NEW r \in Tokens,
               UsedFor(s, v, VERIFY_EMAIL)', UsedFor(r, v, VERIFY_EMAIL)'
        PROVE  s = r
    <3>1. \A q \in Tokens : ~UsedFor(q, u, VERIFY_EMAIL)
      BY <1>1 DEF AccountsInv, VerifiedByOneToken
    <3>2. QED
      BY <1>10, <2>2, <3>1 DEF AccountsInv, VerifiedByOneToken
  <2>3. QED
    BY <2>1, <2>2 DEF VerifiedByOneToken
<1>12. RecoveryNeedsVerification'
  <2> SUFFICES ASSUME NEW s \in Tokens, ott'[s] # NoRow,
                      ott'[s].purpose = RECOVER_PASSWORD
               PROVE  account'[ott'[s].user].verified
    BY DEF RecoveryNeedsVerification
  <2>1. s # t /\ ott'[s] = ott[s]
    BY <1>6, <1>7, PurposesDiffer DEF TokenBecomes
  <2>2. account[ott[s].user].verified /\ ott[s].user \in Users
    BY <2>1, <1>1, TokenFields DEF AccountsInv, RecoveryNeedsVerification
  <2>3. QED
    BY <1>5, <2>1, <2>2 DEF AccountBecomes
<1>13. QED
  BY <1>8, <1>9, <1>11, <1>12 DEF AccountsInv

(* A new password: everything else about the account is as before.         *)
LEMMA PasswordStep ==
  ASSUME AccountsAssumption, AccountsInv,
         NEW u \in Users, NEW p \in Passwords, Has(u),
         account' = [account EXCEPT ![u] = [@ EXCEPT !.password = p]]
  PROVE  /\ AccountBecomes(u, account[u].email, p, account[u].verified)
         /\ UniqueEmail'
         /\ \A v \in Users : Has(v)' <=> Has(v)
         /\ \A v \in Users : Has(v) => account'[v].verified = account[v].verified
<1> DEFINE a == [account[u] EXCEPT !.password = p]
<1>1. AccountsTypeOK /\ account[u] \in AccountData
  BY AccountFields DEF AccountsInv
<1>2. a \in AccountData /\ a.email = account[u].email
      /\ a.password = p /\ a.verified = account[u].verified
  BY <1>1 DEF AccountData
<1>3. account' = [account EXCEPT ![u] = a]
  OBVIOUS
<1> HIDE DEF a
<1>4. AccountBecomes(u, account[u].email, p, account[u].verified)
  BY <1>1, <1>2, <1>3, AccountWritten
<1>5. \A v \in Users : Has(v)' <=> Has(v)
  BY <1>4 DEF AccountBecomes, Has
<1>6. \A v \in Users : Has(v) =>
        account'[v].verified = account[v].verified
        /\ account'[v].email = account[v].email
  BY <1>4 DEF AccountBecomes, Has
<1>7. UniqueEmail'
  BY <1>5, <1>6 DEF AccountsInv, UniqueEmail
<1>8. QED
  BY <1>4, <1>5, <1>6, <1>7

LEMMA ChangeStep ==
  ASSUME AccountsAssumption, AccountsInv,
         NEW u \in Users, NEW p \in Passwords, Change(u, p)
  PROVE  AccountsInv'
<1>1. /\ AccountsTypeOK /\ Has(u) /\ UNCHANGED ott
      /\ account' = [account EXCEPT ![u] = [@ EXCEPT !.password = p]]
  BY DEF AccountsInv, Change
<1>2. /\ AccountBecomes(u, account[u].email, p, account[u].verified)
      /\ UniqueEmail'
      /\ \A v \in Users : Has(v)' <=> Has(v)
      /\ \A v \in Users : Has(v) => account'[v].verified = account[v].verified
  BY <1>1, PasswordStep
<1>3. AccountsTypeOK'
  <2>1. \A t \in Tokens : ott[t] # NoRow => ott[t].user \in Users
    BY <1>1, TokenFields
  <2>2. QED
    BY <1>1, <1>2, <2>1 DEF AccountsTypeOK, AccountBecomes
<1>4. VerifiedByOneToken'
  BY <1>1, <1>2 DEF AccountsInv, VerifiedByOneToken, UsedFor
<1>5. RecoveryNeedsVerification'
  <2>1. \A t \in Tokens : ott[t] # NoRow => ott[t].user \in Users
                                          /\ Has(ott[t].user)
    BY <1>1, TokenFields
  <2>2. QED
    BY <1>1, <1>2, <2>1 DEF AccountsInv, RecoveryNeedsVerification
<1>6. QED
  BY <1>2, <1>3, <1>4, <1>5 DEF AccountsInv

LEMMA RecoverStep ==
  ASSUME AccountsAssumption, AccountsInv,
         NEW u \in Users, NEW t \in Tokens, NEW p \in Passwords,
         Recover(u, t, p)
  PROVE  AccountsInv'
<1>1. /\ AccountsTypeOK /\ Has(u) /\ Use(t, RECOVER_PASSWORD)
      /\ ott[t].user = u
      /\ account' = [account EXCEPT ![u] = [@ EXCEPT !.password = p]]
  BY DEF AccountsInv, Recover
<1>2. /\ AccountBecomes(u, account[u].email, p, account[u].verified)
      /\ UniqueEmail'
      /\ \A v \in Users : Has(v)' <=> Has(v)
      /\ \A v \in Users : Has(v) => account'[v].verified = account[v].verified
  BY <1>1, PasswordStep
<1>3. /\ ott[t] # NoRow /\ TokenBecomes(t, u, RECOVER_PASSWORD, TRUE)
      /\ ott[t] = [user |-> u, purpose |-> RECOVER_PASSWORD, used |-> FALSE]
  BY <1>1, PurposesDiffer, UseEffect
<1>4. ott'[t].user = u /\ ott'[t].purpose = RECOVER_PASSWORD
      /\ ott[t].purpose = RECOVER_PASSWORD
  BY <1>3 DEF TokenBecomes
<1>5. ASSUME NEW s \in Tokens
      PROVE  /\ ott'[s] # NoRow <=> ott[s] # NoRow
             /\ ott'[s].user = ott[s].user
             /\ ott'[s].purpose = ott[s].purpose
  BY <1>1, <1>3, <1>4 DEF TokenBecomes
<1>6. AccountsTypeOK'
  <2>1. ASSUME NEW s \in Tokens, ott'[s] # NoRow PROVE account'[ott'[s].user] # NoRow
    <3>1. ott[s] # NoRow /\ ott'[s].user = ott[s].user
      BY <1>5, <2>1
    <3>2. Has(ott[s].user) /\ ott[s].user \in Users
      BY <1>1, <3>1, TokenFields
    <3>3. QED
      BY <1>2, <3>1, <3>2 DEF Has
  <2>2. QED
    BY <1>2, <1>3, <2>1 DEF AccountsTypeOK, AccountBecomes, TokenBecomes, Has
<1>7. \A s \in Tokens, v \in Users :
        UsedFor(s, v, VERIFY_EMAIL)' <=> UsedFor(s, v, VERIFY_EMAIL)
  <2> SUFFICES ASSUME NEW s \in Tokens, NEW v \in Users
               PROVE  UsedFor(s, v, VERIFY_EMAIL)' <=> UsedFor(s, v, VERIFY_EMAIL)
    OBVIOUS
  <2>1. CASE s = t
    <3>1. UsedFor(t, v, VERIFY_EMAIL) => ott[t].purpose = VERIFY_EMAIL
      BY DEF UsedFor
    <3>2. UsedFor(t, v, VERIFY_EMAIL)' => ott'[t].purpose = VERIFY_EMAIL
      BY DEF UsedFor
    <3>3. QED
      BY <1>4, <2>1, <3>1, <3>2, PurposesDiffer
  <2>2. CASE s # t
    BY <1>3, <2>2 DEF TokenBecomes, UsedFor
  <2>3. QED
    BY <2>1, <2>2
<1>8. VerifiedByOneToken'
  BY <1>2, <1>7 DEF AccountsInv, VerifiedByOneToken
<1>9. RecoveryNeedsVerification'
  <2> SUFFICES ASSUME NEW s \in Tokens, ott'[s] # NoRow,
                      ott'[s].purpose = RECOVER_PASSWORD
               PROVE  account'[ott'[s].user].verified
    BY DEF RecoveryNeedsVerification
  <2>1. /\ ott[s] # NoRow /\ ott[s].purpose = RECOVER_PASSWORD
        /\ ott'[s].user = ott[s].user
    BY <1>5
  <2>2. account[ott[s].user].verified /\ ott[s].user \in Users
        /\ Has(ott[s].user)
    BY <1>1, <2>1, TokenFields DEF AccountsInv, RecoveryNeedsVerification
  <2>3. QED
    BY <1>2, <2>1, <2>2
<1>10. QED
  BY <1>2, <1>6, <1>8, <1>9 DEF AccountsInv

LEMMA NextKeeps ==
  ASSUME AccountsAssumption, AccountsInv,
         [Next]_accountsVars
  PROVE  AccountsInv'
<1>1. CASE UNCHANGED accountsVars
  BY <1>1 DEF AccountsInv, AccountsTypeOK, UniqueEmail, VerifiedByOneToken,
              RecoveryNeedsVerification, UsedFor, Has, accountsVars
<1>2. ASSUME NEW u \in Users, NEW t \in Tokens, NEW e \in Emails,
             NEW p \in Passwords, Register(u, t, e, p)
      PROVE  AccountsInv'
  BY <1>2, RegisterStep
<1>3. ASSUME NEW u \in Users, NEW t \in Tokens, Reissue(u, t)
      PROVE  AccountsInv'
  BY <1>3, PurposesDiffer, IssueStep DEF Reissue
<1>4. ASSUME NEW u \in Users, NEW t \in Tokens, Verify(u, t)
      PROVE  AccountsInv'
  BY <1>4, VerifyStep
<1>5. ASSUME NEW u \in Users, NEW t \in Tokens, RequestRecovery(u, t)
      PROVE  AccountsInv'
  BY <1>5, PurposesDiffer, IssueStep DEF RequestRecovery
<1>6. ASSUME NEW u \in Users, NEW t \in Tokens, NEW p \in Passwords,
             Recover(u, t, p)
      PROVE  AccountsInv'
  BY <1>6, RecoverStep
<1>7. ASSUME NEW u \in Users, NEW p \in Passwords, Change(u, p)
      PROVE  AccountsInv'
  BY <1>7, ChangeStep
<1>8. QED
  BY <1>1, <1>2, <1>3, <1>4, <1>5, <1>6, <1>7 DEF Next

THEOREM AccountsInvariant ==
  ASSUME AccountsAssumption
  PROVE  Spec => []AccountsInv
<1>0. Init => AccountsInv
  BY InitInv
<1>1. AccountsInv /\ [Next]_accountsVars => AccountsInv'
  BY NextKeeps
<1>2. QED
  BY <1>0, <1>1, PTL DEF Spec

(* Accounts and one-time tokens keep their types, and every token belongs  *)
(* to an account.  (models/one_time_token.py)                              *)
THEOREM AccountsTypeCorrect ==
  ASSUME AccountsAssumption
  PROVE  Spec => []AccountsTypeOK
<1>1. AccountsInv => AccountsTypeOK
  BY DEF AccountsInv
<1>2. QED
  BY AccountsInvariant, <1>1, PTL

(* However many registrations, two accounts never share an email.          *)
(* (models/user.py:19, register.py:53)                                     *)
THEOREM EmailsUnique ==
  ASSUME AccountsAssumption
  PROVE  Spec => []UniqueEmail
<1>1. AccountsInv => UniqueEmail
  BY DEF AccountsInv
<1>2. QED
  BY AccountsInvariant, <1>1, PTL

(* An account is verified exactly when one of its verification tokens has  *)
(* been used, and only one ever is.  (verify_email.py:59-69)               *)
THEOREM OneTokenVerifies ==
  ASSUME AccountsAssumption
  PROVE  Spec => []VerifiedByOneToken
<1>1. AccountsInv => VerifiedByOneToken
  BY DEF AccountsInv
<1>2. QED
  BY AccountsInvariant, <1>1, PTL

(* A recovery token exists for verified accounts only.  (user.py:105-115)  *)
THEOREM RecoveriesVerified ==
  ASSUME AccountsAssumption
  PROVE  Spec => []RecoveryNeedsVerification
<1>1. AccountsInv => RecoveryNeedsVerification
  BY DEF AccountsInv
<1>2. QED
  BY AccountsInvariant, <1>1, PTL

(* Before the verification no request changes the password of an account,  *)
(* afterwards none takes the verification back.  (user.py:84-186)          *)
THEOREM PasswordsSettled ==
  ASSUME AccountsAssumption
  PROVE  Spec => PasswordSettledUntilVerified
<1> DEFINE Settled ==
      \A u \in Users : Has(u) =>
        /\ account[u].verified => account'[u].verified
        /\ ~account[u].verified => account'[u].password = account[u].password
<1>1. ASSUME AccountsInv, Next PROVE Settled
  <2>1. ASSUME NEW u \in Users, NEW t \in Tokens, NEW e \in Emails,
               NEW p \in Passwords, Register(u, t, e, p)
        PROVE  Settled
    <3>1. ~Has(u) /\ \A v \in Users \ {u} : account'[v] = account[v]
      BY <1>1, <2>1 DEF Register, AccountsInv, AccountsTypeOK
    <3>2. QED
      BY <3>1
  <2>2. ASSUME UNCHANGED account PROVE Settled
    BY <2>2
  <2>3. ASSUME NEW u \in Users, NEW t \in Tokens, Verify(u, t)
        PROVE  Settled
    <3> DEFINE a == [account[u] EXCEPT !.verified = TRUE]
    <3>1. account[u] \in AccountData /\ AccountsTypeOK
      BY <1>1, <2>3, AccountFields DEF Verify, AccountsInv
    <3>2. a.verified = TRUE /\ a.password = account[u].password
      BY <3>1 DEF AccountData
    <3>3. account' = [account EXCEPT ![u] = a]
      BY <2>3 DEF Verify
    <3> HIDE DEF a
    <3>4. account'[u] = a /\ \A v \in Users \ {u} : account'[v] = account[v]
      BY <3>1, <3>3 DEF AccountsTypeOK
    <3>5. QED
      BY <3>2, <3>4
  <2>4. ASSUME NEW u \in Users, NEW p \in Passwords, Has(u), account[u].verified,
               account' = [account EXCEPT ![u] = [@ EXCEPT !.password = p]]
        PROVE  Settled
    <3>1. AccountBecomes(u, account[u].email, p, account[u].verified)
      BY <1>1, <2>4, PasswordStep
    <3>2. QED
      BY <2>4, <3>1 DEF AccountBecomes
  <2>5. ASSUME NEW u \in Users, NEW t \in Tokens, NEW p \in Passwords,
               Recover(u, t, p)
        PROVE  Has(u) /\ account[u].verified
    <3>1. ott[t] # NoRow /\ ott[t].purpose = RECOVER_PASSWORD
          /\ ott[t].user = u /\ Has(u)
      BY <2>5 DEF Recover, Use
    <3>2. QED
      BY <1>1, <3>1 DEF AccountsInv, RecoveryNeedsVerification
  <2>6. QED
    BY <1>1, <2>1, <2>2, <2>3, <2>4, <2>5
    DEF Next, Reissue, RequestRecovery, Recover, Change
<1>2. AccountsInv /\ [Next]_accountsVars => [Settled]_accountsVars
  BY <1>1
<1>3. QED
  BY AccountsInvariant, <1>2, PTL DEF Spec, PasswordSettledUntilVerified

=============================================================================
