--------------------------- MODULE MCProfileCache ---------------------------
(***************************************************************************)
(* ProfileCache on a small instance.                                       *)
(***************************************************************************)
EXTENDS ProfileCache

=============================================================================
