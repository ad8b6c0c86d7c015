------------------------- MODULE MCAdministration -------------------------
(***************************************************************************)
(* Administration on a small instance.                                     *)
(***************************************************************************)
EXTENDS Administration, TLC

CONSTANTS a2, p1, m1

\* One of the two administrators wrote everything, the comment on the post.
MCHolders == [k \in Written |-> IF k = m1 THEN {a2, p1} ELSE {a2}]

Symmetry == Permutations(Requests)

=============================================================================
