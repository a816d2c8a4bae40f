---------------------------- MODULE MCRepository ----------------------------
(* Two sessions over one repository.                                       *)
EXTENDS Repository, TLC

Symmetry == Permutations(Ids) \union Permutations(Txns) \union Permutations(Data)

=============================================================================
