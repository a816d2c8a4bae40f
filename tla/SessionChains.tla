---------------------------- MODULE SessionChains ----------------------------
(***************************************************************************)
(* What refresh-token rotation promises, without requests, transactions,   *)
(* versions or clocks: a login opens a session, a rotation replaces the    *)
(* session's only unreplaced token by a new one, a revocation ends it.     *)
(* RefreshSessions is shown to implement this module.                      *)
(***************************************************************************)

CONSTANTS Users, Tokens,
          NoToken,   \* no successor
          NoLink     \* not issued

VARIABLE chain   \* chain[t]: the token's place in its session, or NoLink

Links == [user : Users, session : Tokens, revoked : BOOLEAN,
          next : Tokens \union {NoToken}]

(* What the theorems assume of the constants.                              *)
ChainsAssumption == NoToken \notin Tokens /\ NoLink \notin Links

Issued(t) == chain[t] # NoLink

Init == chain = [t \in Tokens |-> NoLink]

Usable(t) == Issued(t) /\ ~chain[t].revoked

NewLink(u, s) ==
  [user |-> u, session |-> s, revoked |-> FALSE, next |-> NoToken]

ReplacedBy(link, n) == [link EXCEPT !.revoked = TRUE, !.next = n]

(* The session is named after its first token.                             *)
Open(u, t) ==
  /\ ~Issued(t)
  /\ chain' = [chain EXCEPT ![t] = NewLink(u, t)]

Rotate(t, n) ==
  /\ Usable(t)
  /\ ~Issued(n)
  /\ chain' = [chain EXCEPT ![t] = ReplacedBy(chain[t], n),
                            ![n] = NewLink(chain[t].user, chain[t].session)]

End(t) ==
  /\ Usable(t)
  /\ chain' = [chain EXCEPT ![t].revoked = TRUE]

Next ==
  \E t \in Tokens :
    \/ \E u \in Users : Open(u, t)
    \/ \E n \in Tokens : Rotate(t, n)
    \/ End(t)

Spec == Init /\ [][Next]_chain

-----------------------------------------------------------------------------

ChainsTypeOK == chain \in [Tokens -> Links \union {NoLink}]

(* The tokens of a session form one line: only its newest token can still  *)
(* be rotated or revoked.                                                  *)
OneTip ==
  \A s, t \in Tokens :
    /\ Issued(s) /\ Issued(t)
    /\ chain[s].session = chain[t].session
    /\ chain[s].next = NoToken /\ chain[t].next = NoToken
    => s = t

Ended(s) ==
  /\ Issued(s)
  /\ \A t \in Tokens : Issued(t) /\ chain[t].session = s => chain[t].revoked

(* A session whose tokens are all revoked never gets a usable one again.   *)
EndedForGood == [][\A s \in Tokens : Ended(s) => Ended(s)']_chain

=============================================================================
