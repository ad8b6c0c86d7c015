------------------------------- MODULE Auth -------------------------------
(***************************************************************************)
(* AuthService (src/src/auth/auth.service.ts): registration, sign-in with  *)
(* migration of legacy hashes, rotation of refresh tokens, logout,         *)
(* password reset and e-mail verification, as the HTTP handlers run them.  *)
(*                                                                         *)
(* A handler runs without interruption between two awaits of a database    *)
(* statement and every statement is atomic; the handlers of all processes  *)
(* interleave at the awaits.  call[c] holds what the handler in slot c     *)
(* remembers across its next await.  A call that answers an error without  *)
(* having written anything leaves no trace and is not a step.              *)
(***************************************************************************)
EXTENDS FiniteSets

CONSTANTS
    Users,        \* user ids; an id stands also for its unique e-mail and username
    SeededUsers,  \* the accounts that exist at the start
    LegacyUsers,  \* those whose stored hash is still a bcrypt one
    Passwords,    \* clear-text passwords
    ResetTokens,  \* the random UUIDs requestPasswordReset draws
    Tokens,       \* refresh tokens; the random jti makes every signed one new
    Calls,        \* slots for calls in flight at the same time
    None

ASSUME AuthAssumption ==
    /\ SeededUsers \subseteq Users
    /\ LegacyUsers \subseteq SeededUsers
    /\ None \notin Users \cup Passwords \cup ResetTokens \cup Tokens

VARIABLES
    account,       \* [Users -> {"absent", "present", "deleted"}]: User rows
    password,      \* User.password: the scheme and the secret it was made from
    active,        \* User.isActive, as a set
    unverified,    \* the users whose verificationToken is still set
    resetToken,    \* User.resetToken
    lapsed,        \* reset tokens past their resetTokenExpires
    drawn,         \* reset tokens drawn so far
    refreshToken,  \* the rows of the RefreshToken table, by token
    tokenUser,     \* whom an issued token names (sub, userId); None: not issued
    lifetime,      \* "fresh", then "jwtExpired", then "rowExpired"
    call,          \* the calls in flight
    \* History: what the properties speak of and no code reads.
    session,       \* the token of the sign-in a token descends from
    parent,        \* the token a token was exchanged for
    lastReset      \* the secret of the last reset that was answered

accountVars == <<account, password, active, unverified, resetToken, lapsed,
                 drawn, lastReset>>
tokenVars == <<refreshToken, tokenUser, lifetime, session, parent>>
vars == <<accountVars, tokenVars, call>>

Scheme == {"bcrypt", "argon2"}
Hash == [scheme : Scheme, secret : Passwords]
Step == {"idle", "create", "migrate", "migrateInactive", "lookup", "purge",
         "rotate", "issue", "resetWrite"}

\* What a handler remembers across an await.
CallRecord == [step : Step, user : Users \cup {None}, token : Tokens \cup {None},
               secret : Passwords \cup {None}]

Idle == [step |-> "idle", user |-> None, token |-> None, secret |-> None]

TypeOK ==
    /\ account \in [Users -> {"absent", "present", "deleted"}]
    /\ password \in [Users -> Hash \cup {None}]
    /\ active \subseteq Users
    /\ unverified \subseteq Users
    /\ resetToken \in [Users -> ResetTokens \cup {None}]
    /\ lapsed \subseteq ResetTokens
    /\ drawn \subseteq ResetTokens
    /\ refreshToken \subseteq Tokens
    /\ tokenUser \in [Tokens -> Users \cup {None}]
    /\ lifetime \in [Tokens -> {"fresh", "jwtExpired", "rowExpired"}]
    /\ call \in [Calls -> CallRecord]
    /\ session \in [Tokens -> Tokens \cup {None}]
    /\ parent \in [Tokens -> Tokens \cup {None}]
    /\ lastReset \in [Users -> Passwords \cup {None}]

Init ==
    /\ account = [u \in Users |-> IF u \in SeededUsers THEN "present" ELSE "absent"]
    /\ \E s \in Passwords :
        password = [u \in Users |->
            IF u \notin SeededUsers THEN None
            ELSE [scheme |-> IF u \in LegacyUsers THEN "bcrypt" ELSE "argon2",
                  secret |-> s]]
    /\ active = SeededUsers
    /\ unverified = {}
    /\ resetToken = [u \in Users |-> None]
    /\ lapsed = {}
    /\ drawn = {}
    /\ refreshToken = {}
    /\ tokenUser = [t \in Tokens |-> None]
    /\ lifetime = [t \in Tokens |-> "fresh"]
    /\ call = [c \in Calls |-> Idle]
    /\ session = [t \in Tokens |-> None]
    /\ parent = [t \in Tokens |-> None]
    /\ lastReset = [u \in Users |-> None]

Issued(t) == tokenUser[t] # None
Goto(c, rec) == call' = [call EXCEPT ![c] = rec]
Finish(c) == Goto(c, Idle)

----------------------------------------------------------------------------
(* Registration.  The two uniqueness reads find nothing; after the hash is *)
(* computed the INSERT is refused by the unique constraints when another   *)
(* registration was faster.  The verification e-mail follows the INSERT;   *)
(* when it cannot be sent the call dies in step "issue" (CallDies) and the *)
(* account stays.                                                          *)
(***************************************************************************)
RegisterCheck(c, u, s) ==
    /\ call[c] = Idle
    /\ account[u] = "absent"
    /\ Goto(c, [Idle EXCEPT !.step = "create", !.user = u, !.secret = s])
    /\ UNCHANGED <<accountVars, tokenVars>>

RegisterCreate(c) ==
    LET u == call[c].user IN
    /\ call[c].step = "create"
    /\ account[u] = "absent"
    /\ account' = [account EXCEPT ![u] = "present"]
    /\ password' = [password EXCEPT ![u] =
                        [scheme |-> "argon2", secret |-> call[c].secret]]
    /\ active' = active \cup {u}
    /\ unverified' = unverified \cup {u}
    /\ Goto(c, [Idle EXCEPT !.step = "issue", !.user = u])
    /\ UNCHANGED <<resetToken, lapsed, drawn, lastReset, tokenVars>>

\* verifyEmail: a token is looked up and the row it was found on is updated
\* by id.  Nothing the update writes depends on the row it read.
VerifyEmail(u) ==
    /\ account[u] = "present"
    /\ u \in unverified
    /\ unverified' = unverified \ {u}
    /\ UNCHANGED <<account, password, active, resetToken, lapsed, drawn,
                   lastReset, tokenVars, call>>

----------------------------------------------------------------------------
(* Sign-in.  The row is read once; the password is verified against that   *)
(* snapshot, a legacy hash is replaced by an Argon2 one, and only then     *)
(* isActive of the same snapshot is looked at.                             *)
(***************************************************************************)
\* Mutant: every verified sign-in rewrites the hash.
LoginFindRehashesAll(c, u, s) ==
    /\ call[c] = Idle
    /\ account[u] = "present"
    /\ password[u].secret = s
    /\ Goto(c, [Idle EXCEPT !.step = "migrate", !.user = u, !.secret = s])
    /\ UNCHANGED <<accountVars, tokenVars>>

LoginFind(c, u, s) ==
    /\ call[c] = Idle
    /\ account[u] = "present"
    /\ password[u].secret = s
    /\ \/ /\ password[u].scheme = "argon2"
          /\ u \in active
          /\ Goto(c, [Idle EXCEPT !.step = "issue", !.user = u])
       \/ /\ password[u].scheme = "bcrypt"
          /\ u \in active
          /\ Goto(c, [Idle EXCEPT !.step = "migrate", !.user = u, !.secret = s])
       \/ /\ password[u].scheme = "bcrypt"
          /\ u \notin active
          /\ Goto(c, [Idle EXCEPT !.step = "migrateInactive", !.user = u,
                                  !.secret = s])
    /\ UNCHANGED <<accountVars, tokenVars>>

LoginMigrate(c) ==
    LET u == call[c].user IN
    /\ call[c].step \in {"migrate", "migrateInactive"}
    /\ account[u] = "present"
    /\ password' = [password EXCEPT ![u] =
                        [scheme |-> "argon2", secret |-> call[c].secret]]
    /\ \/ /\ call[c].step = "migrate"
          /\ Goto(c, [Idle EXCEPT !.step = "issue", !.user = u])
       \/ /\ call[c].step = "migrateInactive"
          /\ Finish(c)
    /\ UNCHANGED <<account, active, unverified, resetToken, lapsed, drawn,
                   lastReset, tokenVars>>

\* loginById, after a passkey was verified.
LoginById(c, u) ==
    /\ call[c] = Idle
    /\ account[u] = "present"
    /\ u \in active
    /\ Goto(c, [Idle EXCEPT !.step = "issue", !.user = u])
    /\ UNCHANGED <<accountVars, tokenVars>>

----------------------------------------------------------------------------
(* generateTokens: sign a new pair, store the refresh token, answer.  The  *)
(* jti makes the signed token differ from every earlier one, and the       *)
(* foreign key refuses the row of a user who is gone.                      *)
(***************************************************************************)
\* Mutant: without the jti, two pairs signed in the same second are equal.
FreshTokensWithoutJti == Tokens \ refreshToken

FreshTokens == {t \in Tokens : ~Issued(t)}

GenerateTokens(c) ==
    LET u == call[c].user
        p == call[c].token
    IN
    /\ call[c].step = "issue"
    /\ account[u] = "present"
    /\ \E t \in FreshTokens :
        /\ refreshToken' = refreshToken \cup {t}
        /\ tokenUser' = [tokenUser EXCEPT ![t] = u]
        /\ parent' = [parent EXCEPT ![t] = p]
        /\ session' = [session EXCEPT ![t] = IF p = None THEN t ELSE session[p]]
    /\ Finish(c)
    /\ UNCHANGED <<accountVars, lifetime>>

----------------------------------------------------------------------------
(* Rotation.  The signature and the expiry in the JWT are verified before  *)
(* the row is looked up, the row's own expiry after it.  Deleting a row    *)
(* that is gone raises, which the catch turns into a 401.                  *)
(***************************************************************************)
RefreshVerify(c, t) ==
    /\ call[c] = Idle
    /\ Issued(t)
    /\ lifetime[t] = "fresh"
    /\ Goto(c, [Idle EXCEPT !.step = "lookup", !.user = tokenUser[t], !.token = t])
    /\ UNCHANGED <<accountVars, tokenVars>>

RefreshLookup(c) ==
    LET t == call[c].token IN
    /\ call[c].step = "lookup"
    /\ \/ /\ t \notin refreshToken
          /\ Finish(c)
       \/ /\ t \in refreshToken
          /\ lifetime[t] = "rowExpired"
          /\ Goto(c, [call[c] EXCEPT !.step = "purge"])
       \/ /\ t \in refreshToken
          /\ lifetime[t] # "rowExpired"
          /\ Goto(c, [call[c] EXCEPT !.step = "rotate"])
    /\ UNCHANGED <<accountVars, tokenVars>>

RefreshPurge(c) ==
    /\ call[c].step = "purge"
    /\ refreshToken' = refreshToken \ {call[c].token}
    /\ Finish(c)
    /\ UNCHANGED <<accountVars, tokenUser, lifetime, session, parent>>

\* Mutant: deleteMany, which does not fail on a row that is gone.
RefreshRotateDeleteMany(c) ==
    /\ call[c].step = "rotate"
    /\ refreshToken' = refreshToken \ {call[c].token}
    /\ Goto(c, [call[c] EXCEPT !.step = "issue"])
    /\ UNCHANGED <<accountVars, tokenUser, lifetime, session, parent>>

RefreshRotate(c) ==
    LET t == call[c].token IN
    /\ call[c].step = "rotate"
    /\ t \in refreshToken
    /\ refreshToken' = refreshToken \ {t}
    /\ Goto(c, [call[c] EXCEPT !.step = "issue"])
    /\ UNCHANGED <<accountVars, tokenUser, lifetime, session, parent>>

\* logout: one deleteMany, restricted to the caller's own rows.
Logout(u, t) ==
    /\ account[u] = "present"
    /\ t \in refreshToken
    /\ tokenUser[t] = u
    /\ refreshToken' = refreshToken \ {t}
    /\ UNCHANGED <<accountVars, tokenUser, lifetime, session, parent, call>>

\* The clock: both expiries are seven days ahead, the one in the JWT is
\* computed first and truncated to seconds.  It is followed for stored tokens
\* only: one whose row is gone is refused whatever its age.
TokenExpires(t) ==
    /\ t \in refreshToken
    /\ \/ /\ lifetime[t] = "fresh"
          /\ lifetime' = [lifetime EXCEPT ![t] = "jwtExpired"]
       \/ /\ lifetime[t] = "jwtExpired"
          /\ lifetime' = [lifetime EXCEPT ![t] = "rowExpired"]
    /\ UNCHANGED <<accountVars, refreshToken, tokenUser, session, parent, call>>

----------------------------------------------------------------------------
(* Password reset.                                                         *)
(***************************************************************************)
RequestPasswordReset(u) ==
    /\ account[u] = "present"
    /\ \E r \in ResetTokens \ drawn :
        /\ drawn' = drawn \cup {r}
        /\ resetToken' = [resetToken EXCEPT ![u] = r]
    /\ UNCHANGED <<account, password, active, unverified, lapsed, lastReset,
                   tokenVars, call>>

ResetTokenLapses(r) ==
    /\ r \in drawn \ lapsed
    /\ lapsed' = lapsed \cup {r}
    /\ UNCHANGED <<account, password, active, unverified, resetToken, drawn,
                   lastReset, tokenVars, call>>

ResetFind(c, u, s) ==
    /\ call[c] = Idle
    /\ account[u] = "present"
    /\ resetToken[u] # None
    /\ resetToken[u] \notin lapsed
    /\ Goto(c, [Idle EXCEPT !.step = "resetWrite", !.user = u, !.secret = s])
    /\ UNCHANGED <<accountVars, tokenVars>>

ResetWrite(c) ==
    LET u == call[c].user IN
    /\ call[c].step = "resetWrite"
    /\ account[u] = "present"
    /\ password' = [password EXCEPT ![u] =
                        [scheme |-> "argon2", secret |-> call[c].secret]]
    /\ resetToken' = [resetToken EXCEPT ![u] = None]
    /\ lastReset' = [lastReset EXCEPT ![u] = call[c].secret]
    /\ Finish(c)
    /\ UNCHANGED <<account, active, unverified, lapsed, drawn, tokenVars>>

----------------------------------------------------------------------------
(* What other services and the environment do to the same rows.            *)
(***************************************************************************)
\* banUser, unbanUser, updateUserStatus, deactivateAccount and deleteAccount (the
\* soft one) write isActive by id.
SetActive(u, on) ==
    /\ account[u] = "present"
    /\ (u \in active) # on
    /\ active' = IF on THEN active \cup {u} ELSE active \ {u}
    /\ UNCHANGED <<account, password, unverified, resetToken, lapsed, drawn,
                   lastReset, tokenVars, call>>

\* AdminService.deleteUser: the row goes, and by cascade its refresh tokens.
DeleteUser(u) ==
    /\ account[u] = "present"
    /\ account' = [account EXCEPT ![u] = "deleted"]
    /\ active' = active \ {u}
    /\ unverified' = unverified \ {u}
    /\ resetToken' = [resetToken EXCEPT ![u] = None]
    /\ refreshToken' = {t \in refreshToken : tokenUser[t] # u}
    /\ lastReset' = [lastReset EXCEPT ![u] = None]
    /\ UNCHANGED <<password, lapsed, drawn, tokenUser, lifetime, session, parent,
                   call>>

\* A call in flight ends without its remaining steps: the process stops, the
\* database or the mail service refuses, or a statement finds its row gone.
CallDies(c) ==
    /\ call[c] # Idle
    /\ Finish(c)
    /\ UNCHANGED <<accountVars, tokenVars>>

Next ==
    \/ \E c \in Calls, u \in Users, s \in Passwords :
        RegisterCheck(c, u, s) \/ LoginFind(c, u, s) \/ ResetFind(c, u, s)
    \/ \E c \in Calls :
        \/ RegisterCreate(c) \/ LoginMigrate(c) \/ GenerateTokens(c)
        \/ RefreshLookup(c) \/ RefreshPurge(c) \/ RefreshRotate(c)
        \/ ResetWrite(c) \/ CallDies(c)
    \/ \E c \in Calls, u \in Users : LoginById(c, u)
    \/ \E c \in Calls, t \in Tokens : RefreshVerify(c, t)
    \/ \E u \in Users, t \in Tokens : Logout(u, t)
    \/ \E t \in Tokens : TokenExpires(t)
    \/ \E r \in ResetTokens : ResetTokenLapses(r)
    \/ \E u \in Users :
        VerifyEmail(u) \/ RequestPasswordReset(u) \/ DeleteUser(u)
    \/ \E u \in Users, on \in BOOLEAN : SetActive(u, on)

Spec == Init /\ [][Next]_vars

----------------------------------------------------------------------------
(* Properties.                                                             *)
(***************************************************************************)
\* Calls that deleted the row of a token and have not stored its successor.
Redeeming == {c \in Calls : call[c].step = "issue" /\ call[c].token # None}

\* A session is carried on by its stored row or by one refresh in flight,
\* never by two of them (generateTokens runs only after the delete by id of
\* lines 307-310 succeeded): concurrent refreshes cannot fork a session.
OneTokenPerSession ==
    /\ \A t1, t2 \in refreshToken : session[t1] = session[t2] => t1 = t2
    /\ \A c \in Redeeming, t \in refreshToken :
           session[call[c].token] # session[t]
    /\ \A c1, c2 \in Redeeming :
           session[call[c1].token] = session[call[c2].token] => c1 = c2

\* A refresh token is exchanged at most once, even when several tabs, or a
\* retry after a lost answer, present it at the same time.
NoForkedRotation ==
    \A t1, t2 \in Tokens : parent[t1] = parent[t2] /\ parent[t1] # None => t1 = t2

SessionCarried(r) ==
    \/ \E t \in refreshToken : session[t] = r
    \/ \E c \in Redeeming : session[call[c].token] = r

\* A session that logout, the purge, the removal of the account or a refresh
\* that died has ended is never continued, by whatever call was in flight
\* when it ended.
EndedSessionStaysEnded ==
    [][\A r \in Tokens : Issued(r) /\ ~SessionCarried(r) => ~SessionCarried(r)']_vars

\* "Hashes the new password ... and clears the reset token" (line 157): once
\* a reset has been answered, the account's password is the one it set, until
\* the next reset.
ResetHolds(u) == lastReset[u] # None => password[u].secret = lastReset[u]

ResetIsEffective == \A u \in Users : ResetHolds(u)

\* It holds of every account whose hash was never a bcrypt one: no sign-in,
\* however long in flight, writes to such an account.  (Of a legacy account
\* it does not: the migration of a sign-in that began before the reset
\* overwrites it.)
ModernResetIsEffective == \A u \in Users \ LegacyUsers : ResetHolds(u)

\* The tokens implement TokenRotation.
Rotation == INSTANCE TokenRotation WITH
    state <- [t \in Tokens |-> IF t \in refreshToken THEN "live"
                               ELSE IF Issued(t) THEN "spent" ELSE "unissued"],
    session <- session,
    owed <- {call[c].token : c \in Redeeming}

\* Every behaviour of the handlers is one the rotation allows.
ImplementsRotation == Rotation!RotationSpec

----------------------------------------------------------------------------
(* The inductive strengthening of OneTokenPerSession and NoForkedRotation. *)
(***************************************************************************)
\* What a call remembers fits the step it waits in.
WellFormed(rec) ==
    /\ rec.step # "idle" => rec.user \in Users
    /\ rec.step \in {"create", "migrate", "migrateInactive", "resetWrite"} =>
           rec.secret \in Passwords
    /\ rec.step \in {"lookup", "purge", "rotate"} => rec.token \in Tokens
    /\ rec.token # None => Issued(rec.token)

CallsWellFormed == \A c \in Calls : WellFormed(call[c])

\* Only issued tokens have a row, a session and a parent, and a session is
\* named after an issued token: a fresh token is nowhere in the state.
FreshIsUnknown ==
    \A t \in Tokens :
        /\ t \in refreshToken => Issued(t)
        /\ Issued(t) <=> session[t] # None
        /\ session[t] # None => Issued(session[t])
        /\ parent[t] # None => Issued(t) /\ Issued(parent[t])

\* The token a refresh has redeemed has no row any more, and one that has a
\* child is neither stored nor being redeemed.
RedeemedIsSpent ==
    /\ \A c \in Redeeming : call[c].token \notin refreshToken
    /\ \A t \in Tokens : parent[t] # None =>
           /\ parent[t] \notin refreshToken
           /\ \A c \in Redeeming : call[c].token # parent[t]

RotationInv ==
    /\ TypeOK
    /\ CallsWellFormed
    /\ FreshIsUnknown
    /\ RedeemedIsSpent
    /\ OneTokenPerSession
    /\ NoForkedRotation

\* The inductive strengthening of ModernResetIsEffective: a modern account
\* has an Argon2 hash, so no sign-in is about to migrate it.
ModernInv ==
    \A u \in Users \ LegacyUsers :
        /\ account[u] = "present" => password[u] \in Hash /\ password[u].scheme = "argon2"
        /\ \A c \in Calls : call[c].step \in {"migrate", "migrateInactive"} =>
               call[c].user # u
        /\ account[u] = "absent" => lastReset[u] = None
        /\ ResetHolds(u)

=============================================================================
