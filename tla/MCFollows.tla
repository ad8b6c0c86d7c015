----------------------------- MODULE MCFollows -----------------------------
(***************************************************************************)
(* Follows on a small instance: two users and the calls between them.      *)
(***************************************************************************)
EXTENDS Follows, TLC

\* Users, rows and slots are only ever compared for equality.
Symmetry == Permutations(Users) \cup Permutations(Rows) \cup Permutations(Calls)

=============================================================================
