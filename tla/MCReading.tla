----------------------------- MODULE MCReading -----------------------------
(***************************************************************************)
(* Reading on a small instance.                                            *)
(***************************************************************************)
EXTENDS Reading, TLC

CONSTANTS v, o, s1, s2, t1, t2

\* West of Greenwich, on it, and east.
MCZones == {0 - 1, 0, 1}

\* Evenings (odd) and mornings of February 28, March 1, 14, 15, 28, 29, 31 and
\* April 1: February lacks March 29 to 31, and 14 days lie between some.
MCMoments == {117, 118, 145, 146, 173, 174, 179, 180}

Symmetry == Permutations(Tales) \cup Permutations(Creators)

=============================================================================
