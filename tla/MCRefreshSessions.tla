-------------------------- MODULE MCRefreshSessions --------------------------
EXTENDS RefreshSessions, TLC

Symmetry ==
  Permutations(Users) \union Permutations(Tokens) \union Permutations(Requests)

=============================================================================
