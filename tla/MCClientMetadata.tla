-------------------------- MODULE MCClientMetadata ---------------------------
(* A client behind a proxy, the same from a neighbouring address, from      *)
(* another network, with another agent, from another country, over IPv6,    *)
(* and one without headers.                                                 *)
EXTENDS ClientMetadata, TLC

CONSTANTS t1, t2, q1, q2

IP(n, h) == [kind |-> "v4", net |-> n, host |-> h]

Home == [forwarded |-> IP("n1", 1), realIp |-> None, peer |-> IP("n2", 1),
         agent |-> "Browser", cloudflare |-> "RU", nginx |-> None,
         language |-> None]
Bare == [forwarded |-> None, realIp |-> None, peer |-> None,
         agent |-> None, cloudflare |-> None, nginx |-> None,
         language |-> None]

MCClients ==
  {Home, Bare,
   [Home EXCEPT !.forwarded = IP("n1", 2)],
   [Home EXCEPT !.forwarded = None, !.realIp = IP("n2", 2)],
   [Home EXCEPT !.agent = "Script"],
   [Home EXCEPT !.cloudflare = NoCountry, !.language = "US"],
   [Home EXCEPT !.forwarded = [kind |-> "v6", host |-> 1]]}

Symmetry == Permutations(Tokens) \union Permutations(Requests)

=============================================================================
