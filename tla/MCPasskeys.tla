----------------------------- MODULE MCPasskeys -----------------------------
(***************************************************************************)
(* Passkeys on a small instance.                                           *)
(***************************************************************************)
EXTENDS Passkeys, TLC

Symmetry == Permutations(Challenges) \cup Permutations(Calls)

=============================================================================
