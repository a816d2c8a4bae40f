----------------------------- MODULE MCAccounts ------------------------------
(* Three accounts, one of them verified long ago, with five one-time tokens. *)
EXTENDS Accounts, TLC

CONSTANTS u1, u2, u3, t1, t2, t3, t4, t5, e1, e2, p1, p2

MCPast == {[user |-> u1, token |-> t1, email |-> e1, password |-> p1]}

ASSUME MCAssumption == AccountsAssumption

Symmetry == Permutations({u2, u3}) \union Permutations({t2, t3, t4, t5})

=============================================================================
