------------------------------ MODULE MCUsers ------------------------------
(* Two ways to type one address, and another address.                      *)
EXTENDS Users, TLC

MCLower(a) == IF a = "Bob" THEN "bob" ELSE "ann"

\* Nothing tells ids, requests and the strong passwords apart.
Symmetry == Permutations(Id) \cup Permutations(Request) \cup Permutations(Strong)

=============================================================================
