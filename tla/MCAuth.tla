------------------------------ MODULE MCAuth ------------------------------
(***************************************************************************)
(* Auth on a small instance: one account, two calls in flight, sessions    *)
(* that reach a third token.                                               *)
(***************************************************************************)
EXTENDS Auth, TLC

\* Slots and reset tokens are only ever compared for equality.
Symmetry == Permutations(Calls) \cup Permutations(ResetTokens)
                \cup Permutations(Tokens) \cup Permutations(Passwords)

=============================================================================
