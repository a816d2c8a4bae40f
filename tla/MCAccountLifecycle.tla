-------------------------- MODULE MCAccountLifecycle --------------------------
(* Registrations that race from an empty database, or one verified account  *)
(* whose password is changed and recovered, depending on the cfg.           *)
EXTENDS AccountLifecycle, TLC

CONSTANTS u1, t1, e1, p1

NothingPast == {}
OneVerified == {[user |-> u1, token |-> t1, email |-> e1, password |-> p1]}

NoTick == [purpose \in Purposes |-> 0]

Symmetry ==
  Permutations(Requests) \union Permutations(Users \ {u1})
    \union Permutations(Tokens \ {t1})

=============================================================================
