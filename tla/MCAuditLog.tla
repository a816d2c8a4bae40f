----------------------------- MODULE MCAuditLog ------------------------------
(* Pages of two entries, or of one; three entries are there already, all of *)
(* them known, or the middle one from another version of the program.       *)
EXTENDS AuditLog

Entry(type, at) == [type |-> type, at |-> at]

AllKnown == [i \in 1 .. 3 |-> Entry("UserCreated", i)]
OneUnknown ==
  [i \in 1 .. 5 |-> Entry(IF i = 3 THEN "Unknown" ELSE "UserCreated", i)]

=============================================================================
