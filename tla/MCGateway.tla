----------------------------- MODULE MCGateway -----------------------------
(***************************************************************************)
(* Gateway on a small instance.                                            *)
(***************************************************************************)
EXTENDS Gateway, TLC

\* All ids are only ever compared for equality.  The users of Chat and the
\* sockets of Presence are the same model values, and so are its calls and its
\* clients: no behaviour has both, and one permutation serves either.
Symmetry == Permutations(Users) \cup Permutations(Calls)
                \cup Permutations(Conversations) \cup Permutations(Messages)

=============================================================================
