--------------------------- MODULE TokenRotation ---------------------------
(***************************************************************************)
(* What the refresh tokens of circlesfera-backend promise, without the     *)
(* requests that bring it about.  A sign-in opens a session with one live  *)
(* token.  Redeeming a live token spends it and earns the right to exactly *)
(* one successor of the same session; that right is either exercised or    *)
(* lost.  Revoking a live token spends it and earns nothing.               *)
(***************************************************************************)

CONSTANTS Tokens, None

VARIABLES
    state,    \* [Tokens -> {"unissued", "live", "spent"}]
    session,  \* the token that opened the session a token belongs to, or None
    owed      \* spent tokens whose successor may still be issued

rotationVars == <<state, session, owed>>

RotationTypeOK ==
    /\ state \in [Tokens -> {"unissued", "live", "spent"}]
    /\ session \in [Tokens -> Tokens \cup {None}]
    /\ owed \subseteq Tokens

RotationInit ==
    /\ state = [t \in Tokens |-> "unissued"]
    /\ session = [t \in Tokens |-> None]
    /\ owed = {}

----------------------------------------------------------------------------

\* A sign-in: a fresh token starts a session of its own.
Open(t) ==
    /\ state[t] = "unissued"
    /\ state' = [state EXCEPT ![t] = "live"]
    /\ session' = [session EXCEPT ![t] = t]
    /\ UNCHANGED owed

\* A refresh spends the live token it presents.
Redeem(t) ==
    /\ state[t] = "live"
    /\ state' = [state EXCEPT ![t] = "spent"]
    /\ owed' = owed \cup {t}
    /\ UNCHANGED session

\* The refresh that spent p answers with the fresh token t.
Succeed(p, t) ==
    /\ p \in owed
    /\ state[t] = "unissued"
    /\ state' = [state EXCEPT ![t] = "live"]
    /\ session' = [session EXCEPT ![t] = session[p]]
    /\ owed' = owed \ {p}

\* The refresh that spent p dies before it answers: the session ends.
Forfeit(p) ==
    /\ p \in owed
    /\ owed' = owed \ {p}
    /\ UNCHANGED <<state, session>>

\* Logout, the purge of an expired row and the removal of an account spend
\* live tokens without a successor.
Revoke(S) ==
    /\ \A t \in S : state[t] = "live"
    /\ state' = [t \in Tokens |-> IF t \in S THEN "spent" ELSE state[t]]
    /\ UNCHANGED <<session, owed>>

RotationNext ==
    \/ \E t \in Tokens : Open(t) \/ Redeem(t) \/ Forfeit(t)
    \/ \E p, t \in Tokens : Succeed(p, t)
    \/ \E S \in SUBSET Tokens : Revoke(S)

RotationSpec == RotationInit /\ [][RotationNext]_rotationVars

----------------------------------------------------------------------------

\* A token carries its session forward while it is live, or spent with its
\* successor still owed.
Carries(t) == state[t] = "live" \/ t \in owed

\* A session is carried by at most one token at any time, however many
\* refreshes of it race: there is never a second live token to hand out.
OneCarrier ==
    \A t1, t2 \in Tokens :
        Carries(t1) /\ Carries(t2) /\ session[t1] = session[t2] => t1 = t2

=============================================================================
