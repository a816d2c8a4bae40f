------------------------- MODULE SessionChainsProofs -------------------------
(***************************************************************************)
(* The abstract sessions: theorems about SessionChains.                    *)
(***************************************************************************)
EXTENDS SessionChains, TLAPS

(* A session is named after an issued token, an unrevoked token has no     *)
(* successor, and there is one tip.                                        *)
SessionNamed == \A t \in Tokens : Issued(t) => Issued(chain[t].session)
UnrevokedIsTip ==
  \A t \in Tokens : Usable(t) => chain[t].next = NoToken

ChainsInv == ChainsTypeOK /\ SessionNamed /\ UnrevokedIsTip /\ OneTip

(* What Rotate and End do, field by field.                                 *)
Rotated(t, n) ==
  /\ t # n /\ Usable(t) /\ ~Issued(n)
  /\ chain'[t] # NoLink /\ chain'[n] # NoLink
  /\ chain'[t].revoked /\ ~chain'[n].revoked
  /\ chain'[t].next = n /\ chain'[n].next = NoToken
  /\ chain'[t].session = chain[t].session
  /\ chain'[n].session = chain[t].session
  /\ \A s \in Tokens \ {t, n} : chain'[s] = chain[s]

EndedToken(t) ==
  /\ Usable(t)
  /\ chain'[t] # NoLink
  /\ chain'[t].revoked
  /\ chain'[t].next = chain[t].next
  /\ chain'[t].session = chain[t].session
  /\ \A s \in Tokens \ {t} : chain'[s] = chain[s]

LEMMA RotateEffect ==
  ASSUME ChainsAssumption, ChainsTypeOK,
         NEW t \in Tokens, NEW n \in Tokens, Rotate(t, n)
  PROVE  ChainsTypeOK' /\ Rotated(t, n)
<1> USE ChainsAssumption DEF ChainsAssumption, ChainsTypeOK
<1>1. /\ chain[t] \in Links /\ ~chain[t].revoked /\ t # n
      /\ chain[n] = NoLink
  BY DEF Rotate, Usable, Issued
<1> DEFINE old == [chain[t] EXCEPT !.revoked = TRUE, !.next = n]
           new == [user |-> chain[t].user, session |-> chain[t].session,
                   revoked |-> FALSE, next |-> NoToken]
<1>2. /\ old \in Links /\ old.revoked /\ old.next = n
      /\ old.session = chain[t].session
  BY <1>1 DEF Links
<1>3. new \in Links
  BY <1>1 DEF Links
<1>4. /\ chain' = [chain EXCEPT ![t] = old, ![n] = new]
  BY DEF Rotate, ReplacedBy, NewLink
<1>5. chain'[t] = old /\ chain'[n] = new
  BY <1>1, <1>4
<1>6. QED
  BY <1>1, <1>2, <1>3, <1>4, <1>5 DEF Rotated, Usable, Issued

LEMMA EndEffect ==
  ASSUME ChainsAssumption, ChainsTypeOK, NEW t \in Tokens, End(t)
  PROVE  ChainsTypeOK' /\ EndedToken(t)
<1> USE ChainsAssumption DEF ChainsAssumption, ChainsTypeOK
<1>1. chain[t] \in Links /\ ~chain[t].revoked
  BY DEF End, Usable, Issued
<1> DEFINE old == [chain[t] EXCEPT !.revoked = TRUE]
<1>2. /\ old \in Links /\ old.revoked /\ old.next = chain[t].next
      /\ old.session = chain[t].session
  BY <1>1 DEF Links
<1>3. chain' = [chain EXCEPT ![t] = old]
  BY DEF End
<1>4. QED
  BY <1>1, <1>2, <1>3 DEF EndedToken, Usable, Issued

-----------------------------------------------------------------------------

LEMMA ChainsInit == Init => ChainsInv
  BY DEF Init, ChainsInv, ChainsTypeOK, SessionNamed, UnrevokedIsTip, OneTip,
         Usable, Issued

LEMMA OpenStep ==
  ASSUME ChainsAssumption, ChainsInv,
         NEW u \in Users, NEW t \in Tokens, Open(u, t)
  PROVE  ChainsInv'
<1> USE ChainsAssumption DEF ChainsAssumption,
      ChainsInv
<1>1. ChainsTypeOK'
  BY DEF ChainsTypeOK, Open, NewLink, Links
<1>2. SessionNamed'
  BY DEF ChainsTypeOK, SessionNamed, Open, NewLink, Links, Issued
<1>3. UnrevokedIsTip'
  BY DEF ChainsTypeOK, UnrevokedIsTip, Open, NewLink, Links, Usable, Issued
<1>4. OneTip'
  BY DEF ChainsTypeOK, OneTip, SessionNamed, Open, NewLink, Links, Issued
<1>5. QED
  BY <1>1, <1>2, <1>3, <1>4

LEMMA RotateStep ==
  ASSUME ChainsAssumption, ChainsInv,
         NEW t \in Tokens, NEW n \in Tokens, Rotate(t, n)
  PROVE  ChainsInv'
<1>1. ChainsTypeOK' /\ Rotated(t, n)
  BY ChainsAssumption, RotateEffect DEF ChainsInv
<1>2. SessionNamed'
  BY <1>1, ChainsAssumption
  DEF ChainsAssumption,
      ChainsInv, ChainsTypeOK, Links, SessionNamed, Rotated, Usable, Issued
<1>3. UnrevokedIsTip'
  BY <1>1 DEF ChainsInv, UnrevokedIsTip, Rotated, Usable, Issued
<1>4. OneTip'
  BY <1>1, ChainsAssumption
  DEF ChainsAssumption,
      ChainsInv, OneTip, UnrevokedIsTip, Rotated, Usable, Issued
<1>5. QED
  BY <1>1, <1>2, <1>3, <1>4 DEF ChainsInv

LEMMA EndStep ==
  ASSUME ChainsAssumption, ChainsInv, NEW t \in Tokens, End(t)
  PROVE  ChainsInv'
<1>1. ChainsTypeOK' /\ EndedToken(t)
  BY ChainsAssumption, EndEffect DEF ChainsInv
<1>2. SessionNamed'
  BY <1>1, ChainsAssumption
  DEF ChainsAssumption,
      ChainsInv, ChainsTypeOK, Links, SessionNamed, EndedToken, Usable, Issued
<1>3. UnrevokedIsTip'
  BY <1>1 DEF ChainsInv, UnrevokedIsTip, EndedToken, Usable, Issued
<1>4. OneTip'
  BY <1>1 DEF ChainsInv, OneTip, EndedToken, Usable, Issued
<1>5. QED
  BY <1>1, <1>2, <1>3, <1>4 DEF ChainsInv

THEOREM ChainsInvariant ==
  ASSUME ChainsAssumption
  PROVE  Spec => []ChainsInv
<1>1. ChainsInv /\ [Next]_chain => ChainsInv'
  <2>1. ChainsInv /\ UNCHANGED chain => ChainsInv'
    BY DEF ChainsInv, ChainsTypeOK, SessionNamed, UnrevokedIsTip, OneTip,
           Usable, Issued
  <2>2. QED
    BY <2>1, ChainsAssumption, OpenStep, RotateStep, EndStep DEF Next
<1>2. QED
  BY ChainsInit, <1>1, PTL DEF Spec

(* Every link is well-typed.  (refresh_token.py:60-110)                    *)
THEOREM ChainsTypeCorrect ==
  ASSUME ChainsAssumption
  PROVE  Spec => []ChainsTypeOK
<1>1. ChainsInv => ChainsTypeOK
  BY DEF ChainsInv
<1>2. QED
  BY ChainsAssumption, ChainsInvariant, <1>1, PTL

(* However many users and tokens there are, a session never forks.         *)
THEOREM SessionsNeverFork ==
  ASSUME ChainsAssumption
  PROVE  Spec => []OneTip
<1>1. ChainsInv => OneTip
  BY DEF ChainsInv
<1>2. QED
  BY ChainsAssumption, ChainsInvariant, <1>1, PTL

(* A session that has ended stays so: rotation needs a usable token of it. *)
THEOREM SessionsEndForGood ==
  ASSUME ChainsAssumption
  PROVE  Spec => EndedForGood
<1>1. ChainsInv /\ [Next]_chain =>
        [\A s \in Tokens : Ended(s) => Ended(s)']_chain
  <2> SUFFICES ASSUME ChainsInv, Next, NEW s \in Tokens, Ended(s)
               PROVE  Ended(s)'
    OBVIOUS
  <2>1. ASSUME NEW u \in Users, NEW t \in Tokens, Open(u, t) PROVE Ended(s)'
    BY <2>1, ChainsAssumption
    DEF ChainsAssumption,
        ChainsInv, ChainsTypeOK, Open, NewLink, Links, Ended, Issued
  <2>2. ASSUME NEW t \in Tokens, NEW n \in Tokens, Rotate(t, n)
        PROVE  Ended(s)'
    <3>1. Rotated(t, n)
      BY <2>2, ChainsAssumption, RotateEffect DEF ChainsInv
    <3>2. QED
      BY <3>1 DEF Rotated, Usable, Ended, Issued
  <2>3. ASSUME NEW t \in Tokens, End(t) PROVE Ended(s)'
    <3>1. EndedToken(t)
      BY <2>3, ChainsAssumption, EndEffect DEF ChainsInv
    <3>2. QED
      BY <3>1 DEF EndedToken, Usable, Ended, Issued
  <2>4. QED
    BY <2>1, <2>2, <2>3 DEF Next
<1>2. QED
  BY ChainsAssumption, ChainsInvariant, <1>1, PTL DEF Spec, EndedForGood

=============================================================================
