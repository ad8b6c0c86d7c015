--------------------------- MODULE MCEngagement ---------------------------
(***************************************************************************)
(* Engagement on a small instance.                                         *)
(***************************************************************************)
EXTENDS Engagement, TLC

CONSTANTS u1, u2, u3, p1, m1, s1, x1, k1, r1, q1, a1

\* A post and a story for sale, one of them promoted, a comment, a message.
MCMaker == (p1 :> u1) @@ (m1 :> u3) @@ (s1 :> u1) @@ (x1 :> u1) @@ (k1 :> u1) @@ (q1 :> u1)
MCWithin == (p1 :> {}) @@ (m1 :> {p1}) @@ (s1 :> {}) @@ (x1 :> {}) @@ (k1 :> {})
            @@ (q1 :> {})

\* What one of the actors can have marked is marked, the other has marked nothing.
MCSeedMarks ==
    [k \in {k \in Key : k[2] = u1 /\ k[3] \in (Seeds \cup Users) \ {u1}} |->
        IF k[1] = "bookmark" THEN k1
        ELSE IF k[1] \in {"reaction", "messageReaction"} THEN r1 ELSE None]

\* One of the users has an account to be paid to.
MCSeedAccounts == [u \in Users |-> IF u = u1 THEN a1 ELSE None]

Symmetry == Permutations(Calls)

=============================================================================
