---------------------------- MODULE ClientMetadata ----------------------------
(***************************************************************************)
(* What the session routes know of a client: address, user agent and       *)
(* location, taken from the headers of a request, kept with a refresh      *)
(* token, lost when the token is saved or rotated, and compared with those *)
(* of the client that revokes it.  A revocation takes a step for each of   *)
(* its awaits, so two of them, or one and a rotation, may meet; a login    *)
(* and a rotation are one step each, and nothing expires: RefreshSessions  *)
(* has their awaits and the clock.                                         *)
(***************************************************************************)
EXTENDS Naturals, FiniteSets

CONSTANTS Tokens,    \* refresh tokens
          Requests,  \* revocations under way at a time
          Clients,   \* the headers that clients send, see Headers
          Nets,      \* /24 IPv4 networks
          Hosts,     \* addresses in a network
          Agents, Countries,
          None       \* absent header, Python's None

IPv4s == [kind : {"v4"}, net : Nets, host : Hosts]
(* Addresses that are not IPv4: IPv6, or nothing ip_address() takes.       *)
Others == [kind : {"v6", "invalid"}, host : Hosts]
UnknownIp == [kind |-> "unknown"]
Unknown == "unknown"
NoCountry == "XX"    \* what Cloudflare sends when it does not know

Headers ==
  [forwarded : IPv4s \union Others \union {None},  \* first of X-Forwarded-For
   realIp : IPv4s \union Others \union {None},
   peer : IPv4s \union Others \union {None},       \* request.client
   agent : Agents \union {None},
   cloudflare : Countries \union {NoCountry, None},
   nginx : Countries \union {None},
   language : Countries \union {None}]   \* the region of Accept-Language

Metadata ==
  [ip : IPv4s \union Others \union {UnknownIp},
   agent : Agents \union {Unknown},
   location : Countries \union {None}]

VARIABLES row,      \* table refresh_tokens, committed; None: no such row
          issuedTo, \* history: who got the token
          revokedBy,\* history: who has revoked it
          suspected,\* history: revocations that were found suspicious
          reports,  \* SuspiciousRefreshTokenRevocation events handed on
          revoking  \* the revocation of each request; None: no request

clientVars == <<issuedTo, revokedBy, suspected, reports>>
metadataVars == <<row, clientVars, revoking>>

Rows == [version : Nat, revoked : BOOLEAN, replaced : Tokens \union {None}]

(* The token as it was read, and its UPDATE: the version it expects and    *)
(* the values it sets; suspicious: the event is in the list of the request.*)
Revocations ==
  [step : {"save", "commit", "publish"}, token : Tokens, client : Metadata,
   version : Nat, values : Rows, suspicious : BOOLEAN]

ASSUME ClientAssumption ==
  /\ Clients \subseteq Headers
  /\ None \notin Tokens \union Agents \union Countries \union Rows

-----------------------------------------------------------------------------
(* What the routes read from the headers                                   *)

FirstOf(a, b) == IF a # None THEN a ELSE b

GetClientIp(h) ==
  FirstOf(h.forwarded, FirstOf(h.realIp, FirstOf(h.peer, UnknownIp)))
GetUserAgent(h) == FirstOf(h.agent, Unknown)
GetLocation(h) ==
  FirstOf(IF h.cloudflare = NoCountry THEN None ELSE h.cloudflare,
          FirstOf(h.nginx, h.language))

Client(h) == [ip |-> GetClientIp(h), agent |-> GetUserAgent(h),
              location |-> GetLocation(h)]

NoMetadata == [ip |-> None, agent |-> None, location |-> None]

(* What the policy makes of it.  An address that is missing or is not IPv4 *)
(* is in no range; the mutated form gives it the benefit of the doubt.     *)
IsIPv4(a) == a # None /\ a.kind = "v4"
SameIpRangeOrMissing(a, b) ==
  None \in {a, b} \/ (IsIPv4(a) /\ IsIPv4(b) /\ a.net = b.net)
SameIpRange(a, b) == IsIPv4(a) /\ IsIPv4(b) /\ a.net = b.net

Mismatch(a, b) == a # None /\ b # None /\ a # b

AssessRisk(token, current) ==
    (IF Mismatch(token.agent, current.agent) THEN 2 ELSE 0)
  + (IF Mismatch(token.location, current.location) THEN 2 ELSE 0)
  + (IF SameIpRange(token.ip, current.ip) THEN 0 ELSE 1)

-----------------------------------------------------------------------------

MetadataInit ==
  /\ row = [t \in Tokens |-> None]
  /\ issuedTo = [t \in Tokens |-> None]
  /\ revokedBy = [t \in Tokens |-> None]
  /\ suspected = {}
  /\ reports = {}
  /\ revoking = [q \in Requests |-> None]

(* Entities have metadata, rows do not: domain2orm leaves it out, and      *)
(* orm2domain gives an entity without.  The version is the repository's.   *)
Domain2Orm(rt, version) ==
  [version |-> version, revoked |-> rt.revoked, replaced |-> rt.replaced]
Orm2Domain(r) ==
  [revoked |-> r.revoked, replaced |-> r.replaced, metadata |-> NoMetadata]

CreateToken(metadata) ==
  [revoked |-> FALSE, replaced |-> None, metadata |-> metadata]

Revoking(q, step) == revoking[q] # None /\ revoking[q].step = step

(* An UPDATE of the token has not been committed yet.                      *)
Locked(t) == \E q \in Requests : Revoking(q, "commit") /\ revoking[q].token = t

Login(h, t) ==
  /\ row[t] = None
  /\ row' = [row EXCEPT ![t] = Domain2Orm(CreateToken(Client(h)), 1)]
  /\ issuedTo' = [issuedTo EXCEPT ![t] = Client(h)]
  /\ UNCHANGED <<revokedBy, suspected, reports, revoking>>

(* use() and rotate(): the new token is made without metadata.             *)
Refresh(h, t, new) ==
  /\ row[t] # None /\ ~Locked(t)
  /\ row[new] = None
  /\ LET rt == Orm2Domain(row[t]) IN
     /\ ~rt.revoked /\ rt.replaced = None
     /\ row' = [row EXCEPT
          ![t] = Domain2Orm([rt EXCEPT !.revoked = TRUE, !.replaced = new],
                            row[t].version + 1),
          ![new] = Domain2Orm(CreateToken(NoMetadata), 1)]
  /\ issuedTo' = [issuedTo EXCEPT ![new] = Client(h)]
  /\ UNCHANGED <<revokedBy, suspected, reports, revoking>>

(* RevokeTokenCase: SELECT, revoke(), and the policy, whose suspicion goes *)
(* into the list of events.  A token that is revoked ends the request      *)
(* before the policy is asked.                                             *)
Assess(q, h, t) ==
  /\ revoking[q] = None
  /\ row[t] # None
  /\ LET rt == Orm2Domain(row[t])
         current == Client(h)
     IN
     /\ ~rt.revoked
     /\ revoking' = [revoking EXCEPT ![q] =
          [step |-> "save", token |-> t, client |-> current,
           version |-> row[t].version,
           values |-> Domain2Orm([rt EXCEPT !.revoked = TRUE],
                                 row[t].version + 1),
           suspicious |-> AssessRisk(rt.metadata, current) > 0]]
  /\ UNCHANGED <<row, clientVars>>

Advance(q, step) == revoking' = [revoking EXCEPT ![q].step = step]
End(q) == revoking' = [revoking EXCEPT ![q] = None]

(* UPDATE ... WHERE version: it waits for another one of the same row; the *)
(* mutated form takes the row as it finds it.                              *)
SaveUnversioned(q) ==
  /\ Revoking(q, "save")
  /\ ~Locked(revoking[q].token)
  /\ Advance(q, "commit")
  /\ UNCHANGED <<row, clientVars>>
Save(q) ==
  /\ Revoking(q, "save")
  /\ ~Locked(revoking[q].token)
  /\ row[revoking[q].token].version = revoking[q].version
  /\ Advance(q, "commit")
  /\ UNCHANGED <<row, clientVars>>

(* No row with that version: ConcurrencyError, and a ROLLBACK.             *)
Conflict(q) ==
  /\ Revoking(q, "save")
  /\ ~Locked(revoking[q].token)
  /\ row[revoking[q].token].version # revoking[q].version
  /\ End(q)
  /\ UNCHANGED <<row, clientVars>>

(* COMMIT.  When its answer is lost the request ends with an error, though *)
(* the token is revoked.                                                   *)
Commit(q, answered) ==
  /\ Revoking(q, "commit")
  /\ LET v == revoking[q] IN
     /\ row' = [row EXCEPT ![v.token] = v.values]
     /\ revokedBy' = [revokedBy EXCEPT ![v.token] = v.client]
     /\ suspected' = suspected \union (IF v.suspicious THEN {v.token} ELSE {})
  /\ IF answered THEN Advance(q, "publish") ELSE End(q)
  /\ UNCHANGED <<issuedTo, reports>>

(* A statement or the COMMIT fails, the request is cancelled, or (for all  *)
(* requests) the process dies.  After the COMMIT its events are lost.      *)
Fail(q) ==
  /\ revoking[q] # None
  /\ End(q)
  /\ UNCHANGED <<row, clientVars>>

(* The publisher hands the event to the queue.  That is not yet the audit  *)
(* log: RedisEventQueue skips it, since it is no DomainEvent.              *)
Publish(q) ==
  /\ Revoking(q, "publish")
  /\ reports' = reports \union
       (IF revoking[q].suspicious
        THEN {[token |-> revoking[q].token, client |-> revoking[q].client]}
        ELSE {})
  /\ End(q)
  /\ UNCHANGED <<row, issuedTo, revokedBy, suspected>>

RevokeStep(q) ==
  \/ Save(q) \/ Conflict(q)
  \/ \E answered \in BOOLEAN : Commit(q, answered)
  \/ Fail(q) \/ Publish(q)

MetadataNext ==
  \/ \E h \in Clients, t \in Tokens :
       \/ Login(h, t)
       \/ \E new \in Tokens : Refresh(h, t, new)
       \/ \E q \in Requests : Assess(q, h, t)
  \/ \E q \in Requests : RevokeStep(q)

MetadataSpec == MetadataInit /\ [][MetadataNext]_metadataVars

-----------------------------------------------------------------------------

MetadataTypeOK ==
  /\ row \in [Tokens -> Rows \union {None}]
  /\ issuedTo \in [Tokens -> Metadata \union {None}]
  /\ revokedBy \in [Tokens -> Metadata \union {None}]
  /\ suspected \subseteq Tokens
  /\ reports \subseteq [token : Tokens, client : Metadata]
  /\ revoking \in [Requests -> Revocations \union {None}]

(* Two clients that the policy, asked about the one and the other as they  *)
(* present themselves, is meant to tell apart.                             *)
Differ(a, b) ==
  \/ a.agent # b.agent
  \/ None \notin {a.location, b.location} /\ a.location # b.location
  \/ ~SameIpRange(a.ip, b.ip)

(* No client revokes the token of another that differs from it without     *)
(* being suspected: with the metadata gone from the row, this hangs on the *)
(* policy's treating a missing address as a different one.  Whether the    *)
(* suspicion is heard of is another matter: the queue skips its event, and *)
(* a crash after the commit loses it.                                      *)
(* (refresh_token_security_policy.py:48-64, revoke_token.py:64-82)         *)
DifferentClientSuspected ==
  \A t \in Tokens :
    revokedBy[t] # None /\ Differ(issuedTo[t], revokedBy[t]) =>
      t \in suspected

(* A token has one end: it is reported once at most, as revoked by the     *)
(* client whose revocation was committed, and never after it was rotated,  *)
(* also when revocations and rotations of it race.                         *)
(* (revoke_token.py:61-92, repositories/refresh_token.py:72-92)            *)
ReportsMatchRevocations ==
  \A x, y \in reports :
    /\ x.token = y.token => x = y
    /\ revokedBy[x.token] = x.client
    /\ row[x.token].revoked /\ row[x.token].replaced = None

(* tests/unit/application/cases/test_revoke_token.py:56-68,                *)
(* test_no_suspicious_event_when_metadata_matches, said of stored tokens.  *)
NoReportWhenMetadataMatches ==
  \A r \in reports : AssessRisk(issuedTo[r.token], r.client) > 0

=============================================================================
