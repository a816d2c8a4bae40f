---------------------------- MODULE MCUserEntity -----------------------------
(* Passwords at the limits: one character short, the two lengths that are   *)
(* accepted, and one of more bytes than bcrypt takes although validation    *)
(* lets it pass (limits scaled down: 2..6 characters, 4 bytes).             *)
EXTENDS UserEntity

MCChars == [w \in Words |->
  CASE w = "short" -> 1 [] w = "least" -> 2 [] w = "full" -> 4
    [] w = "wide" -> 3 [] w = "huge" -> 7]
MCBytes == [w \in Words |->
  CASE w = "short" -> 1 [] w = "least" -> 2 [] w = "full" -> 4
    [] w = "wide" -> 6 [] w = "huge" -> 7]

=============================================================================
