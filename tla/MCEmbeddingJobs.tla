-------------------------- MODULE MCEmbeddingJobs --------------------------
(***************************************************************************)
(* EmbeddingJobs, and with it Posts, on a small instance.                  *)
(***************************************************************************)
EXTENDS EmbeddingJobs

CONSTANTS u1, u2, t1, t2

\* Captions with the same tags in opposite orders; one mentions the other user
\* and its author.
MCDrafts ==
    {[author |-> u1, tags |-> <<t1, t2>>, mentions |-> {}],
     [author |-> u1, tags |-> <<t2, t1>>, mentions |-> {u1, u2}]}

=============================================================================
