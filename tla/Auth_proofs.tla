---------------------------- MODULE Auth_proofs ----------------------------
(***************************************************************************)
(* The sessions of Auth, for any number of users, tokens and calls in      *)
(* flight: type correctness, at most one carrier per session, no token     *)
(* exchanged twice, and the refinement of TokenRotation.                   *)
(***************************************************************************)
EXTENDS Auth, TLAPS

USE AuthAssumption

----------------------------------------------------------------------------
(* Type correctness.                                                       *)
(***************************************************************************)
\* An empty slot is a typed record.
LEMMA IdleTyped == Idle \in CallRecord
BY DEF Idle, CallRecord, Step

\* The records the handlers build from Idle are typed.
LEMMA RecordTyped ==
    ASSUME NEW step \in Step, NEW u \in Users \cup {None}
    PROVE  /\ [Idle EXCEPT !.step = step, !.user = u] \in CallRecord
           /\ \A s \in Passwords \cup {None} :
                [Idle EXCEPT !.step = step, !.user = u, !.secret = s] \in CallRecord
           /\ \A t \in Tokens \cup {None} :
                [Idle EXCEPT !.step = step, !.user = u, !.token = t] \in CallRecord
BY DEF Idle, CallRecord

\* Advancing a call to another step keeps its record typed.
LEMMA AdvanceTyped ==
    ASSUME NEW rec \in CallRecord, NEW step \in Step
    PROVE  [rec EXCEPT !.step = step] \in CallRecord
BY DEF CallRecord

\* The names of the awaits the handlers wait in.
LEMMA StepNames ==
    {"create", "migrate", "migrateInactive", "lookup", "purge", "rotate", "issue",
     "resetWrite"} \subseteq Step
BY DEF Step

\* The accounts that exist at the start, and empty tables, are typed.
LEMMA TypeInit == Init => TypeOK
BY IdleTyped DEF Init, TypeOK, Hash, Scheme

\* Moving a call keeps call typed when the new record is.
LEMMA GotoTyped ==
    ASSUME TypeOK, NEW c \in Calls, NEW rec \in CallRecord, Goto(c, rec)
    PROVE  call' \in [Calls -> CallRecord]
BY DEF TypeOK, Goto

\* A call that ends leaves the slots typed.
LEMMA FinishTyped ==
    ASSUME TypeOK, NEW c \in Calls, Finish(c)
    PROVE  call' \in [Calls -> CallRecord]
BY IdleTyped, GotoTyped DEF Finish

\* Every step keeps the state typed, given that calls remember the user,
\* token and secret their step will write.
LEMMA TypeNext ==
    ASSUME TypeOK, CallsWellFormed, [Next]_vars
    PROVE  TypeOK'
<1> USE DEF TypeOK
<1>a. ASSUME NEW c \in Calls, NEW u \in Users, NEW s \in Passwords,
             RegisterCheck(c, u, s) \/ LoginFind(c, u, s) \/ ResetFind(c, u, s)
      PROVE  TypeOK'
  <2>1. call' \in [Calls -> CallRecord]
    BY <1>a, RecordTyped, GotoTyped, StepNames
       DEF RegisterCheck, LoginFind, ResetFind
  <2>2. QED
    BY <1>a, <2>1
       DEF RegisterCheck, LoginFind, ResetFind, accountVars, tokenVars
<1>b. ASSUME NEW c \in Calls, RegisterCreate(c) \/ LoginMigrate(c) \/ ResetWrite(c)
      PROVE  TypeOK'
  <2>1. call[c].user \in Users /\ call[c].secret \in Passwords
    BY <1>b DEF RegisterCreate, LoginMigrate, ResetWrite, CallsWellFormed, WellFormed
  <2>2. call' \in [Calls -> CallRecord]
    BY <1>b, <2>1, RecordTyped, GotoTyped, FinishTyped, StepNames
       DEF RegisterCreate, LoginMigrate, ResetWrite
  <2>3. [scheme |-> "argon2", secret |-> call[c].secret] \in Hash
    BY <2>1 DEF Hash, Scheme
  <2>4. QED
    BY <1>b, <2>1, <2>2, <2>3 DEF RegisterCreate, LoginMigrate, ResetWrite, tokenVars
<1>c. ASSUME NEW c \in Calls, GenerateTokens(c)
      PROVE  TypeOK'
  <2>1. call' \in [Calls -> CallRecord]
    BY <1>c, FinishTyped DEF GenerateTokens
  <2>2. call[c] \in CallRecord
    OBVIOUS
  <2>3. call[c].user \in Users \cup {None} /\ call[c].token \in Tokens \cup {None}
    BY <2>2 DEF CallRecord
  <2>4. QED
    BY <1>c, <2>1, <2>3 DEF GenerateTokens, FreshTokens, accountVars
<1>d. ASSUME NEW c \in Calls,
             RefreshLookup(c) \/ RefreshPurge(c) \/ RefreshRotate(c) \/ CallDies(c)
      PROVE  TypeOK'
  <2>1. call[c] \in CallRecord
    OBVIOUS
  <2>2. call' \in [Calls -> CallRecord]
    BY <1>d, <2>1, AdvanceTyped, GotoTyped, FinishTyped, StepNames
       DEF RefreshLookup, RefreshPurge, RefreshRotate, CallDies
  <2>3. QED
    BY <1>d, <2>2
       DEF RefreshLookup, RefreshPurge, RefreshRotate, CallDies, accountVars, tokenVars
<1>e. ASSUME NEW c \in Calls, NEW t \in Tokens, RefreshVerify(c, t)
      PROVE  TypeOK'
  <2>1. call' \in [Calls -> CallRecord]
    BY <1>e, RecordTyped, GotoTyped, StepNames DEF RefreshVerify
  <2>2. QED
    BY <1>e, <2>1 DEF RefreshVerify, accountVars, tokenVars
<1>k. ASSUME NEW c \in Calls, NEW u \in Users, LoginById(c, u)
      PROVE  TypeOK'
  <2>1. call' \in [Calls -> CallRecord]
    BY <1>k, RecordTyped, GotoTyped, StepNames DEF LoginById
  <2>2. QED
    BY <1>k, <2>1 DEF LoginById, accountVars, tokenVars
<1>f. ASSUME NEW t \in Tokens, TokenExpires(t) \/ \E u \in Users : Logout(u, t)
      PROVE  TypeOK'
  BY <1>f DEF TokenExpires, Logout, accountVars
<1>g. ASSUME NEW u \in Users,
             \/ VerifyEmail(u) \/ RequestPasswordReset(u) \/ DeleteUser(u)
             \/ \E on \in BOOLEAN : SetActive(u, on)
      PROVE  TypeOK'
  BY <1>g DEF VerifyEmail, RequestPasswordReset, DeleteUser, SetActive, tokenVars
<1>h. ASSUME NEW r \in ResetTokens, ResetTokenLapses(r)
      PROVE  TypeOK'
  BY <1>h DEF ResetTokenLapses, tokenVars
<1>i. CASE UNCHANGED vars
  BY <1>i DEF vars, accountVars, tokenVars
<1>j. QED
  BY <1>a, <1>b, <1>c, <1>d, <1>e, <1>f, <1>g, <1>h, <1>i, <1>k DEF Next

----------------------------------------------------------------------------
(* The sessions.  Most steps only take carriers away: they delete rows, or *)
(* end or advance calls that redeem nothing.                               *)
(***************************************************************************)
SessionParts ==
    /\ FreshIsUnknown
    /\ RedeemedIsSpent
    /\ OneTokenPerSession
    /\ NoForkedRotation

\* A step that stores no token and starts no refresh cannot give a session a
\* second carrier, nor a redeemed token its row back.
LEMMA QuietKeeps ==
    ASSUME RotationInv,
           refreshToken' \subseteq refreshToken,
           UNCHANGED <<tokenUser, session, parent>>,
           \A c \in Redeeming' : c \in Redeeming /\ call'[c] = call[c]
    PROVE  SessionParts'
<1>1. FreshIsUnknown'
  BY DEF RotationInv, FreshIsUnknown, Issued
<1>2. RedeemedIsSpent'
  BY DEF RotationInv, RedeemedIsSpent
<1>3. OneTokenPerSession'
  BY DEF RotationInv, OneTokenPerSession
<1>4. NoForkedRotation'
  BY DEF RotationInv, NoForkedRotation
<1>5. QED
  BY <1>1, <1>2, <1>3, <1>4 DEF SessionParts

\* A call that moves to a record that redeems nothing adds no carrier.
LEMMA QuietGoto ==
    ASSUME RotationInv, NEW c \in Calls, NEW rec \in CallRecord, Goto(c, rec),
           rec.step = "issue" => rec.token = None
    PROVE  \A d \in Redeeming' : d \in Redeeming /\ call'[d] = call[d]
BY DEF RotationInv, TypeOK, Goto, Redeeming

\* A call that ends is not redeeming any more, and no other one starts to.
LEMMA QuietFinish ==
    ASSUME RotationInv, NEW c \in Calls, Finish(c)
    PROVE  \A d \in Redeeming' : d \in Redeeming /\ call'[d] = call[d]
BY IdleTyped, QuietGoto DEF Finish, Idle

\* Deleting the presented row by id hands the session from the row to the
\* call: no other row and no other call can carry it.
LEMMA RotateKeeps ==
    ASSUME RotationInv, NEW c \in Calls, RefreshRotate(c)
    PROVE  SessionParts'
<1> DEFINE t == call[c].token
<1>1. /\ t \in Tokens /\ t \in refreshToken /\ t # None /\ Issued(t)
      /\ c \notin Redeeming
      /\ refreshToken' = refreshToken \ {t}
      /\ UNCHANGED <<tokenUser, session, parent>>
  BY DEF RefreshRotate, RotationInv, CallsWellFormed, WellFormed, TypeOK, Redeeming
<1>2. call' = [call EXCEPT ![c] = [call[c] EXCEPT !.step = "issue"]]
  BY DEF RefreshRotate, Goto
<1>3. call[c] \in CallRecord /\ call'[c].token = t /\ call'[c].step = "issue"
  BY <1>2 DEF RotationInv, TypeOK, CallRecord
<1>4. /\ \A d \in Calls : d # c => call'[d] = call[d]
      /\ Redeeming' = Redeeming \cup {c}
  BY <1>1, <1>2, <1>3 DEF RotationInv, TypeOK, Redeeming
<1>5. FreshIsUnknown'
  BY <1>1 DEF RotationInv, FreshIsUnknown, Issued
<1>6. RedeemedIsSpent'
  BY <1>1, <1>3, <1>4 DEF RotationInv, RedeemedIsSpent, Redeeming
<1>7. OneTokenPerSession'
  BY <1>1, <1>3, <1>4 DEF RotationInv, OneTokenPerSession, Redeeming
<1>8. NoForkedRotation'
  BY <1>1 DEF RotationInv, NoForkedRotation
<1>9. QED
  BY <1>5, <1>6, <1>7, <1>8 DEF SessionParts

\* Storing a successor hands the session from the call to a fresh row; a
\* sign-in stores a row of a session nobody has.
LEMMA GenerateKeeps ==
    ASSUME RotationInv, NEW c \in Calls, GenerateTokens(c)
    PROVE  SessionParts'
<1> DEFINE p == call[c].token
<1>1. PICK t \in FreshTokens :
        /\ refreshToken' = refreshToken \cup {t}
        /\ tokenUser' = [tokenUser EXCEPT ![t] = call[c].user]
        /\ parent' = [parent EXCEPT ![t] = p]
        /\ session' = [session EXCEPT ![t] = IF p = None THEN t ELSE session[p]]
  BY DEF GenerateTokens
<1>2. /\ t \in Tokens /\ ~Issued(t) /\ t \notin refreshToken
      /\ session[t] = None /\ parent[t] = None /\ t # None
  BY <1>1 DEF FreshTokens, RotationInv, FreshIsUnknown
<1>3. call[c] \in CallRecord /\ call[c].step = "issue" /\ call[c].user \in Users
  BY DEF RotationInv, TypeOK, CallsWellFormed, WellFormed, GenerateTokens
<1>4. p = None \/ (p \in Tokens /\ c \in Redeeming /\ Issued(p) /\ p # t)
  BY <1>2, <1>3 DEF CallRecord, Redeeming, RotationInv, CallsWellFormed, WellFormed
<1>5. /\ \A d \in Calls : d # c => call'[d] = call[d]
      /\ call'[c] = Idle
  BY DEF GenerateTokens, Finish, Goto, RotationInv, TypeOK
<1>6. \A d \in Redeeming' : d \in Redeeming /\ d # c /\ call'[d] = call[d]
  BY <1>5 DEF Redeeming, Idle
<1>7. \A d \in Redeeming : /\ call[d].token \in Tokens /\ call[d].token # t
                           /\ Issued(call[d].token)
  BY <1>2 DEF Redeeming, RotationInv, TypeOK, CallRecord, CallsWellFormed, WellFormed
<1>8. /\ \A q \in Tokens : q # t => /\ session'[q] = session[q]
                                    /\ parent'[q] = parent[q]
                                    /\ tokenUser'[q] = tokenUser[q]
      /\ tokenUser'[t] # None
      /\ parent'[t] = p
      /\ session'[t] = IF p = None THEN t ELSE session[p]
  BY <1>1, <1>2, <1>3 DEF RotationInv, TypeOK
<1>9. \A q \in Tokens : tokenUser[q] # None =>
        session[q] \in Tokens /\ session[q] # t /\ tokenUser[session[q]] # None
  BY <1>2 DEF RotationInv, FreshIsUnknown, TypeOK, Issued
<1>10. FreshIsUnknown'
  <2>1. \A q \in Tokens : q # t =>
          /\ q \in refreshToken' => tokenUser'[q] # None
          /\ tokenUser'[q] # None <=> session'[q] # None
          /\ session'[q] # None => tokenUser'[session'[q]] # None
    BY <1>1, <1>2, <1>8, <1>9 DEF RotationInv, FreshIsUnknown, Issued
  <2>2. \A q \in Tokens : q # t /\ parent'[q] # None =>
          tokenUser'[q] # None /\ tokenUser'[parent'[q]] # None
    BY <1>1, <1>2, <1>8 DEF RotationInv, FreshIsUnknown, TypeOK, Issued
  <2>3. /\ session'[t] # None /\ tokenUser'[session'[t]] # None
        /\ parent'[t] # None => tokenUser'[parent'[t]] # None
    BY <1>2, <1>4, <1>8, <1>9 DEF Issued
  <2>4. QED
    BY <1>8, <2>1, <2>2, <2>3 DEF FreshIsUnknown, Issued
<1>11. RedeemedIsSpent'
  <2>1. \A d \in Redeeming' : call'[d].token \notin refreshToken'
    BY <1>1, <1>5, <1>6, <1>7 DEF RotationInv, RedeemedIsSpent
  <2>2. p # None => p \notin refreshToken' /\ \A d \in Redeeming' : call'[d].token # p
    BY <1>1, <1>4, <1>5, <1>6, <1>7 DEF RotationInv, RedeemedIsSpent, OneTokenPerSession
  <2>3. ASSUME NEW q \in Tokens, q # t, parent[q] # None
        PROVE  /\ parent[q] \notin refreshToken'
               /\ \A d \in Redeeming' : call'[d].token # parent[q]
    BY <1>1, <1>2, <1>5, <1>6, <2>3 DEF RotationInv, RedeemedIsSpent, FreshIsUnknown
  <2>4. QED
    BY <1>8, <2>1, <2>2, <2>3 DEF RedeemedIsSpent
<1>12. OneTokenPerSession'
  <2>1. \A q \in refreshToken : q \in Tokens /\ q # t /\ Issued(q)
    BY <1>2 DEF RotationInv, TypeOK, FreshIsUnknown
  <2>2. \A q \in refreshToken : session'[t] # session[q]
    BY <1>2, <1>4, <1>8, <1>9, <2>1 DEF RotationInv, OneTokenPerSession, Issued
  <2>3. \A d \in Redeeming' : session[call[d].token] # session'[t]
    BY <1>2, <1>4, <1>6, <1>7, <1>8, <1>9 DEF RotationInv, OneTokenPerSession, Issued
  <2>4. \A d \in Redeeming' : /\ call'[d] = call[d]
                              /\ session'[call[d].token] = session[call[d].token]
    BY <1>5, <1>6, <1>7, <1>8 DEF Redeeming
  <2>5. QED
    BY <1>1, <1>6, <1>8, <2>1, <2>2, <2>3, <2>4 DEF RotationInv, OneTokenPerSession
<1>13. NoForkedRotation'
  <2>1. \A q \in Tokens : p # None => parent[q] # p
    BY <1>4 DEF RotationInv, RedeemedIsSpent
  <2>2. QED
    BY <1>8, <2>1 DEF RotationInv, NoForkedRotation
<1>14. QED
  BY <1>10, <1>11, <1>12, <1>13 DEF SessionParts

----------------------------------------------------------------------------
(* What calls remember stays fit for their steps: an issued token is never *)
(* forgotten.                                                              *)
(***************************************************************************)
IssuedGrows == \A t \in Tokens : tokenUser[t] # None => tokenUser'[t] # None

\* A call that moves on with a fitting record leaves all calls fitting.
LEMMA WellFormedGoto ==
    ASSUME RotationInv, IssuedGrows,
           NEW c \in Calls, NEW rec \in CallRecord, Goto(c, rec), WellFormed(rec)
    PROVE  CallsWellFormed'
BY DEF RotationInv, TypeOK, CallRecord, IssuedGrows, Goto, CallsWellFormed, WellFormed,
       Issued

\* So does a call that ends.
LEMMA WellFormedFinish ==
    ASSUME RotationInv, IssuedGrows, NEW c \in Calls, Finish(c)
    PROVE  CallsWellFormed'
<1>1. WellFormed(Idle)
  BY DEF WellFormed, Idle
<1>2. QED
  BY <1>1, IdleTyped, WellFormedGoto DEF Finish

\* So does a step of no call.
LEMMA WellFormedSame ==
    ASSUME RotationInv, IssuedGrows, UNCHANGED call
    PROVE  CallsWellFormed'
BY DEF RotationInv, TypeOK, CallRecord, IssuedGrows, CallsWellFormed, WellFormed, Issued

----------------------------------------------------------------------------
\* A step that neither redeems nor issues a token.
Quiet ==
    /\ refreshToken' \subseteq refreshToken
    /\ UNCHANGED <<tokenUser, session, parent>>

\* A handler that moves on quietly keeps the sessions' part of the invariant.
LEMMA QuietMove ==
    ASSUME RotationInv, Quiet, NEW c \in Calls, NEW rec \in CallRecord,
           Goto(c, rec), WellFormed(rec), rec.step = "issue" => rec.token = None
    PROVE  CallsWellFormed' /\ SessionParts'
BY QuietKeeps, QuietGoto, WellFormedGoto DEF Quiet, IssuedGrows

\* So does a handler that ends quietly.
LEMMA QuietEnd ==
    ASSUME RotationInv, Quiet, NEW c \in Calls, Finish(c)
    PROVE  CallsWellFormed' /\ SessionParts'
BY QuietKeeps, QuietFinish, WellFormedFinish DEF Quiet, IssuedGrows

\* So does a quiet step of another service.
LEMMA QuietElsewhere ==
    ASSUME RotationInv, Quiet, UNCHANGED call
    PROVE  CallsWellFormed' /\ SessionParts'
<1>1. \A c \in Redeeming' : c \in Redeeming /\ call'[c] = call[c]
  BY DEF Redeeming
<1>2. QED
  BY <1>1, QuietKeeps, WellFormedSame DEF Quiet, IssuedGrows

\* Records built from Idle for a named user are fit when the secret is there
\* for the steps that write it, and redeem nothing unless a token is named.
LEMMA RecordFits ==
    ASSUME NEW step \in Step, NEW u \in Users
    PROVE  /\ step = "issue" =>
                WellFormed([Idle EXCEPT !.step = step, !.user = u])
           /\ [Idle EXCEPT !.step = step, !.user = u].token = None
           /\ \A s \in Passwords :
                LET rec == [Idle EXCEPT !.step = step, !.user = u, !.secret = s] IN
                step \notin {"lookup", "purge", "rotate"} =>
                    WellFormed(rec) /\ rec.token = None
           /\ \A t \in Tokens :
                LET rec == [Idle EXCEPT !.step = step, !.user = u, !.token = t] IN
                Issued(t) /\ step = "lookup" => WellFormed(rec) /\ rec.step = "lookup"
BY DEF WellFormed, Idle

\* Every step of the system preserves RotationInv.
LEMMA RotationNext ==
    ASSUME RotationInv, [Next]_vars
    PROVE  RotationInv'
<1> SUFFICES CallsWellFormed' /\ SessionParts'
  BY TypeNext DEF RotationInv, SessionParts
<1>a. ASSUME NEW c \in Calls, NEW u \in Users, NEW s \in Passwords,
             RegisterCheck(c, u, s) \/ LoginFind(c, u, s) \/ ResetFind(c, u, s)
      PROVE  CallsWellFormed' /\ SessionParts'
  BY ZenonT(30), <1>a, QuietMove, RecordTyped, RecordFits, StepNames
     DEF RegisterCheck, LoginFind, ResetFind, Quiet, tokenVars
<1>b. ASSUME NEW c \in Calls, RegisterCreate(c) \/ LoginMigrate(c)
      PROVE  CallsWellFormed' /\ SessionParts'
  <2>1. call[c].user \in Users
    BY <1>b DEF RegisterCreate, LoginMigrate, RotationInv, CallsWellFormed, WellFormed
  <2>2. QED
    BY <1>b, <2>1, QuietMove, QuietEnd, RecordTyped, RecordFits, StepNames
       DEF RegisterCreate, LoginMigrate, Quiet, tokenVars
<1>c. ASSUME NEW c \in Calls,
             RefreshPurge(c) \/ ResetWrite(c) \/ CallDies(c)
      PROVE  CallsWellFormed' /\ SessionParts'
  BY <1>c, QuietEnd DEF RefreshPurge, ResetWrite, CallDies, Quiet, tokenVars
<1>d. ASSUME NEW c \in Calls, RefreshLookup(c)
      PROVE  CallsWellFormed' /\ SessionParts'
  <2>1. call[c] \in CallRecord /\ WellFormed(call[c]) /\ call[c].step = "lookup"
    BY <1>d DEF RotationInv, TypeOK, CallsWellFormed, RefreshLookup
  <2>2. ASSUME NEW step \in {"purge", "rotate"}
        PROVE  LET rec == [call[c] EXCEPT !.step = step]
               IN  rec \in CallRecord /\ WellFormed(rec) /\ rec.step # "issue"
    BY <2>1 DEF CallRecord, Step, WellFormed
  <2>3. QED
    BY <1>d, <2>2, QuietMove, QuietEnd DEF RefreshLookup, Quiet, tokenVars
<1>e. ASSUME NEW c \in Calls, RefreshRotate(c)
      PROVE  CallsWellFormed' /\ SessionParts'
  <2>1. call[c] \in CallRecord /\ WellFormed(call[c]) /\ call[c].step = "rotate"
    BY <1>e DEF RotationInv, TypeOK, CallsWellFormed, RefreshRotate
  <2>2. LET rec == [call[c] EXCEPT !.step = "issue"]
        IN  rec \in CallRecord /\ WellFormed(rec)
    BY <2>1 DEF CallRecord, Step, WellFormed
  <2>3. IssuedGrows
    BY <1>e DEF RefreshRotate, IssuedGrows
  <2>4. QED
    BY <1>e, <2>2, <2>3, WellFormedGoto, RotateKeeps DEF RefreshRotate
<1>f. ASSUME NEW c \in Calls, GenerateTokens(c)
      PROVE  CallsWellFormed' /\ SessionParts'
  <2>1. call[c].user # None
    BY <1>f DEF GenerateTokens, RotationInv, CallsWellFormed, WellFormed
  <2>2. IssuedGrows
    BY <1>f, <2>1 DEF GenerateTokens, IssuedGrows, RotationInv, TypeOK, FreshTokens
  <2>3. QED
    BY <1>f, <2>2, WellFormedFinish, GenerateKeeps DEF GenerateTokens
<1>g. ASSUME NEW c \in Calls, NEW u \in Users, LoginById(c, u)
      PROVE  CallsWellFormed' /\ SessionParts'
  BY <1>g, QuietMove, RecordTyped, RecordFits, StepNames DEF LoginById, Quiet, tokenVars
<1>h. ASSUME NEW c \in Calls, NEW t \in Tokens, RefreshVerify(c, t)
      PROVE  CallsWellFormed' /\ SessionParts'
  <2>1. tokenUser[t] \in Users
    BY <1>h DEF RefreshVerify, Issued, RotationInv, TypeOK
  <2>2. QED
    BY <1>h, <2>1, QuietMove, RecordTyped, RecordFits, StepNames
       DEF RefreshVerify, Quiet, tokenVars
<1>i. ASSUME NEW t \in Tokens, TokenExpires(t) \/ \E u \in Users : Logout(u, t)
      PROVE  CallsWellFormed' /\ SessionParts'
  BY <1>i, QuietElsewhere DEF TokenExpires, Logout, Quiet
<1>j. ASSUME NEW u \in Users,
             \/ VerifyEmail(u) \/ RequestPasswordReset(u) \/ DeleteUser(u)
             \/ \E on \in BOOLEAN : SetActive(u, on)
      PROVE  CallsWellFormed' /\ SessionParts'
  BY <1>j, QuietElsewhere
     DEF VerifyEmail, RequestPasswordReset, DeleteUser, SetActive, Quiet, tokenVars
<1>k. ASSUME NEW r \in ResetTokens, ResetTokenLapses(r)
      PROVE  CallsWellFormed' /\ SessionParts'
  BY <1>k, QuietElsewhere DEF ResetTokenLapses, Quiet, tokenVars
<1>l. CASE UNCHANGED vars
  BY <1>l, QuietElsewhere DEF vars, Quiet, tokenVars
<1>m. QED
  BY <1>a, <1>b, <1>c, <1>d, <1>e, <1>f, <1>g, <1>h, <1>i, <1>j, <1>k, <1>l DEF Next

\* At the start no token is issued and no call in flight.
LEMMA RotationInit == Init => RotationInv
<1> SUFFICES ASSUME Init PROVE RotationInv
  OBVIOUS
<1>1. CallsWellFormed
  BY DEF Init, CallsWellFormed, WellFormed, Idle
<1>2. SessionParts
  BY DEF Init, SessionParts, FreshIsUnknown, RedeemedIsSpent, OneTokenPerSession,
         NoForkedRotation, Redeeming, Issued, Idle
<1>3. QED
  BY <1>1, <1>2, TypeInit DEF RotationInv, SessionParts

----------------------------------------------------------------------------
(* The theorems about single states.                                       *)
(***************************************************************************)
\* The strengthening is an invariant of every behaviour of the handlers.
THEOREM RotationInvariant == Spec => []RotationInv
<1>1. RotationInv /\ [Next]_vars => RotationInv'
  BY RotationNext
<1>2. QED
  BY RotationInit, <1>1, PTL DEF Spec

\* Every row and every record a handler keeps is well-typed.
THEOREM TypeCorrect == Spec => []TypeOK
<1>1. RotationInv => TypeOK
  BY DEF RotationInv
<1>2. QED
  BY <1>1, RotationInvariant, PTL

\* At most one stored row or pending refresh carries a session.
THEOREM SessionsNeverFork == Spec => []OneTokenPerSession
<1>1. RotationInv => OneTokenPerSession
  BY DEF RotationInv
<1>2. QED
  BY <1>1, RotationInvariant, PTL

\* No refresh token is exchanged twice.
THEOREM RotationIsOneTime == Spec => []NoForkedRotation
<1>1. RotationInv => NoForkedRotation
  BY DEF RotationInv
<1>2. QED
  BY <1>1, RotationInvariant, PTL

----------------------------------------------------------------------------
(* Every step does one of four things to the sessions.                     *)
(***************************************************************************)
\* Rows may go; the pending refreshes stay as they are.
Revoking ==
    /\ refreshToken' \subseteq refreshToken
    /\ UNCHANGED <<tokenUser, session, parent>>
    /\ Redeeming' = Redeeming
    /\ \A d \in Redeeming : call'[d] = call[d]

\* The pending refresh c goes; the rows stay as they are.
Forfeiting(c) ==
    /\ UNCHANGED <<refreshToken, tokenUser, session, parent>>
    /\ Redeeming' = Redeeming \ {c}
    /\ \A d \in Redeeming' : call'[d] = call[d]

\* A call that redeems nothing moves on to redeem nothing.
LEMMA RevokingGoto ==
    ASSUME RotationInv, Quiet, NEW c \in Calls, c \notin Redeeming,
           NEW rec \in CallRecord, Goto(c, rec), rec.step = "issue" => rec.token = None
    PROVE  Revoking
BY DEF RotationInv, TypeOK, Goto, Redeeming, Revoking, Quiet

\* A call that ends without having redeemed a token revokes at most.
LEMMA RevokingFinish ==
    ASSUME RotationInv, Quiet, NEW c \in Calls, c \notin Redeeming, Finish(c)
    PROVE  Revoking
BY IdleTyped, RevokingGoto DEF Finish, Idle

\* Seen through the sessions, a step revokes, forfeits, redeems or issues.
LEMMA StepKinds ==
    ASSUME RotationInv, [Next]_vars
    PROVE  \/ Revoking
           \/ \E c \in Redeeming : Forfeiting(c)
           \/ \E c \in Calls : RefreshRotate(c)
           \/ \E c \in Calls : GenerateTokens(c)
<1>a. ASSUME NEW c \in Calls, NEW u \in Users, NEW s \in Passwords,
             RegisterCheck(c, u, s) \/ LoginFind(c, u, s) \/ ResetFind(c, u, s)
      PROVE  Revoking
  <2>1. c \notin Redeeming
    BY <1>a DEF RegisterCheck, LoginFind, ResetFind, Redeeming, Idle
  <2>2. QED
    BY ZenonT(30), <1>a, <2>1, RevokingGoto, RecordTyped, RecordFits, StepNames
       DEF RegisterCheck, LoginFind, ResetFind, Quiet, tokenVars
<1>b. ASSUME NEW c \in Calls, RegisterCreate(c) \/ LoginMigrate(c)
      PROVE  Revoking
  <2>1. call[c].user \in Users /\ c \notin Redeeming
    BY <1>b DEF RegisterCreate, LoginMigrate, RotationInv, CallsWellFormed, WellFormed,
                Redeeming
  <2>2. QED
    BY ZenonT(30), <1>b, <2>1, RevokingGoto, RevokingFinish, RecordTyped, RecordFits, StepNames
       DEF RegisterCreate, LoginMigrate, Quiet, tokenVars
<1>c. ASSUME NEW c \in Calls, RefreshPurge(c) \/ ResetWrite(c)
      PROVE  Revoking
  <2>1. c \notin Redeeming
    BY <1>c DEF RefreshPurge, ResetWrite, Redeeming
  <2>2. QED
    BY <1>c, <2>1, RevokingFinish DEF RefreshPurge, ResetWrite, Quiet, tokenVars
<1>d. ASSUME NEW c \in Calls, CallDies(c)
      PROVE  Revoking \/ \E d \in Redeeming : Forfeiting(d)
  <2>1. CASE c \notin Redeeming
    BY <1>d, <2>1, RevokingFinish DEF CallDies, Quiet, tokenVars
  <2>2. CASE c \in Redeeming
    BY <1>d, <2>2
       DEF CallDies, Finish, Goto, Idle, RotationInv, TypeOK, Redeeming, Forfeiting,
           tokenVars
  <2>3. QED
    BY <2>1, <2>2
<1>e. ASSUME NEW c \in Calls, RefreshLookup(c)
      PROVE  Revoking
  <2>1. call[c] \in CallRecord /\ call[c].step = "lookup" /\ c \notin Redeeming
    BY <1>e DEF RotationInv, TypeOK, RefreshLookup, Redeeming
  <2>2. ASSUME NEW step \in {"purge", "rotate"}
        PROVE  LET rec == [call[c] EXCEPT !.step = step]
               IN  rec \in CallRecord /\ rec.step # "issue"
    BY <2>1 DEF CallRecord, Step
  <2>3. QED
    BY <1>e, <2>1, <2>2, RevokingGoto, RevokingFinish DEF RefreshLookup, Quiet, tokenVars
<1>f. ASSUME NEW c \in Calls, NEW u \in Users, LoginById(c, u)
      PROVE  Revoking
  <2> DEFINE rec == [Idle EXCEPT !.step = "issue", !.user = u]
  <2>1. c \notin Redeeming
    BY <1>f DEF LoginById, Redeeming, Idle
  <2>2. rec \in CallRecord /\ rec.token = None
    BY RecordTyped, RecordFits, StepNames
  <2>3. Goto(c, rec) /\ Quiet
    BY <1>f DEF LoginById, Quiet, tokenVars
  <2> HIDE DEF rec
  <2>4. QED
    BY <2>1, <2>2, <2>3, RevokingGoto
<1>g. ASSUME NEW c \in Calls, NEW t \in Tokens, RefreshVerify(c, t)
      PROVE  Revoking
  <2>1. tokenUser[t] \in Users /\ c \notin Redeeming
    BY <1>g DEF RefreshVerify, Issued, RotationInv, TypeOK, Redeeming, Idle
  <2>2. QED
    BY <1>g, <2>1, RevokingGoto, RecordTyped, RecordFits, StepNames
       DEF RefreshVerify, Quiet, tokenVars
<1>h. ASSUME NEW t \in Tokens, TokenExpires(t) \/ \E u \in Users : Logout(u, t)
      PROVE  Revoking
  BY <1>h DEF TokenExpires, Logout, Revoking, Redeeming
<1>i. ASSUME NEW u \in Users,
             \/ VerifyEmail(u) \/ RequestPasswordReset(u) \/ DeleteUser(u)
             \/ \E on \in BOOLEAN : SetActive(u, on)
      PROVE  Revoking
  BY <1>i DEF VerifyEmail, RequestPasswordReset, DeleteUser, SetActive, tokenVars,
              Revoking, Redeeming
<1>j. ASSUME NEW r \in ResetTokens, ResetTokenLapses(r)
      PROVE  Revoking
  BY <1>j DEF ResetTokenLapses, tokenVars, Revoking, Redeeming
<1>k. CASE UNCHANGED vars
  BY <1>k DEF vars, tokenVars, Revoking, Redeeming
<1>l. QED
  BY <1>a, <1>b, <1>c, <1>d, <1>e, <1>f, <1>g, <1>h, <1>i, <1>j, <1>k DEF Next

\* What RefreshRotate does to the carriers.
LEMMA RotateEffect ==
    ASSUME RotationInv, NEW c \in Calls, RefreshRotate(c)
    PROVE  LET t == call[c].token IN
           /\ t \in Tokens /\ t \in refreshToken /\ refreshToken' = refreshToken \ {t}
           /\ UNCHANGED <<tokenUser, session, parent>>
           /\ Redeeming' = Redeeming \cup {c} /\ c \notin Redeeming
           /\ \A d \in Redeeming' : call'[d].token = call[d].token
<1>1. call[c] \in CallRecord
  BY DEF RotationInv, TypeOK
<1>2. call' = [call EXCEPT ![c] = [call[c] EXCEPT !.step = "issue"]]
  BY DEF RefreshRotate, Goto
<1>3. call'[c].token = call[c].token /\ call'[c].step = "issue"
  BY <1>1, <1>2 DEF RotationInv, TypeOK, CallRecord
<1>4. \A d \in Calls : d # c => call'[d] = call[d]
  BY <1>2 DEF RotationInv, TypeOK
<1>5. call[c].token \in Tokens /\ call[c].token # None
  BY DEF RefreshRotate, RotationInv, CallsWellFormed, WellFormed
<1>6. QED
  BY <1>3, <1>4, <1>5 DEF RefreshRotate, Redeeming

\* What GenerateTokens does to the carriers.
LEMMA GenerateEffect ==
    ASSUME RotationInv, NEW c \in Calls, GenerateTokens(c)
    PROVE  LET p == call[c].token IN
           \E t \in Tokens :
             /\ ~Issued(t) /\ t \notin refreshToken
             /\ refreshToken' = refreshToken \cup {t}
             /\ tokenUser' = [tokenUser EXCEPT ![t] = call[c].user]
             /\ call[c].user # None
             /\ session' = [session EXCEPT ![t] = IF p = None THEN t ELSE session[p]]
             /\ p # None <=> c \in Redeeming
             /\ p # None => p \in Tokens
             /\ Redeeming' = Redeeming \ {c}
             /\ \A d \in Redeeming' : call'[d] = call[d]
<1>1. call[c] \in CallRecord /\ call[c].step = "issue" /\ call[c].user \in Users
  BY DEF RotationInv, TypeOK, CallsWellFormed, WellFormed, GenerateTokens
<1>2. /\ \A d \in Calls : d # c => call'[d] = call[d]
      /\ call'[c] = Idle
  BY DEF GenerateTokens, Finish, Goto, RotationInv, TypeOK
<1>3. /\ call[c].token # None <=> c \in Redeeming
      /\ call[c].token # None => call[c].token \in Tokens
      /\ Redeeming' = Redeeming \ {c}
      /\ \A d \in Redeeming' : call'[d] = call[d]
  BY <1>1, <1>2 DEF Redeeming, CallRecord, Idle
<1>4. \A t \in FreshTokens : t \in Tokens /\ ~Issued(t) /\ t \notin refreshToken
  BY DEF FreshTokens, RotationInv, FreshIsUnknown
<1>5. QED
  BY <1>1, <1>3, <1>4 DEF GenerateTokens

----------------------------------------------------------------------------
(* The theorems about steps.                                               *)
(***************************************************************************)
\* Only a fresh token, or a session that was carried, is carried afterwards.
LEMMA CarriedBefore ==
    ASSUME RotationInv, [Next]_vars,
           NEW r \in Tokens, Issued(r), SessionCarried(r)'
    PROVE  SessionCarried(r)
<1>1. CASE Revoking
  BY <1>1 DEF Revoking, SessionCarried
<1>2. CASE \E c \in Redeeming : Forfeiting(c)
  BY <1>2 DEF Forfeiting, SessionCarried
<1>3. ASSUME NEW c \in Calls, RefreshRotate(c)
      PROVE  SessionCarried(r)
  BY <1>3, RotateEffect DEF SessionCarried
<1>4. ASSUME NEW c \in Calls, GenerateTokens(c)
      PROVE  SessionCarried(r)
  <2> DEFINE p == call[c].token
  <2>1. PICK t \in Tokens :
          /\ ~Issued(t) /\ t \notin refreshToken
          /\ refreshToken' = refreshToken \cup {t}
          /\ session' = [session EXCEPT ![t] = IF p = None THEN t ELSE session[p]]
          /\ p # None <=> c \in Redeeming
          /\ Redeeming' = Redeeming \ {c}
          /\ \A d \in Redeeming' : call'[d] = call[d]
    BY <1>4, GenerateEffect
  <2>2. t # r
    BY <2>1
  <2>3. \A q \in refreshToken : q \in Tokens /\ session'[q] = session[q]
    BY <2>1 DEF RotationInv, TypeOK
  <2>4. \A d \in Redeeming : /\ call[d].token \in Tokens
                             /\ session'[call[d].token] = session[call[d].token]
    BY <2>1 DEF Redeeming, RotationInv, TypeOK, CallRecord, CallsWellFormed, WellFormed
  <2>5. session'[t] = IF p = None THEN t ELSE session[p]
    BY <2>1 DEF RotationInv, TypeOK
  <2>6. CASE \E q \in refreshToken' : session'[q] = r
    BY <2>1, <2>2, <2>3, <2>5, <2>6 DEF SessionCarried
  <2>7. CASE \E d \in Redeeming' : session'[call'[d].token] = r
    BY <2>1, <2>4, <2>7 DEF SessionCarried
  <2>8. QED
    BY <2>6, <2>7 DEF SessionCarried
<1>5. QED
  BY <1>1, <1>2, <1>3, <1>4, StepKinds

\* A session that has ended is never carried again.
THEOREM EndedSessionsStayEnded == Spec => EndedSessionStaysEnded
<1>1. RotationInv /\ [Next]_vars =>
        [\A r \in Tokens : Issued(r) /\ ~SessionCarried(r) => ~SessionCarried(r)']_vars
  BY CarriedBefore
<1>2. QED
  BY <1>1, RotationInvariant, PTL DEF Spec, EndedSessionStaysEnded

----------------------------------------------------------------------------
(* TokenRotation itself, of which the handlers are one implementation:     *)
(* whatever its tokens' states are made of, no two carry one session.      *)
(***************************************************************************)
VARIABLES state, owed
Any == INSTANCE TokenRotation

\* OneCarrier is inductive together with: the session of an issued token is
\* named after an issued token, and what is owed is spent.
CarrierInv ==
    /\ Any!RotationTypeOK
    /\ Any!OneCarrier
    /\ \A t \in Tokens : state[t] # "unissued" =>
           session[t] \in Tokens /\ state[session[t]] # "unissued"
    /\ \A t \in owed : state[t] = "spent"

\* Before the first sign-in nothing is issued.
LEMMA CarrierInit == Any!RotationInit => CarrierInv
BY DEF Any!RotationInit, CarrierInv, Any!RotationTypeOK, Any!OneCarrier, Any!Carries

\* A fresh token opens a session that no other token can have.
LEMMA OpenKeeps ==
    ASSUME CarrierInv, NEW t \in Tokens, Any!Open(t)
    PROVE  CarrierInv'
BY DEF CarrierInv, Any!RotationTypeOK, Any!OneCarrier, Any!Carries, Any!Open

\* A token that is redeemed goes on carrying its session: it is owed now.
LEMMA RedeemKeeps ==
    ASSUME CarrierInv, NEW t \in Tokens, Any!Redeem(t)
    PROVE  CarrierInv'
BY DEF CarrierInv, Any!RotationTypeOK, Any!OneCarrier, Any!Carries, Any!Redeem

\* The successor takes the session over from the token it is owed to.
LEMMA SucceedKeeps ==
    ASSUME CarrierInv, NEW p \in Tokens, NEW t \in Tokens, Any!Succeed(p, t)
    PROVE  CarrierInv'
<1>1. p # t /\ Any!Carries(p) /\ state[p] = "spent" /\ session[p] \in Tokens
  BY DEF CarrierInv, Any!RotationTypeOK, Any!Carries, Any!Succeed
<1>2. ~Any!Carries(p)' /\ \A q \in Tokens : q # t /\ Any!Carries(q)' => Any!Carries(q)
  BY <1>1 DEF CarrierInv, Any!RotationTypeOK, Any!Carries, Any!Succeed
<1>3. Any!OneCarrier'
  BY <1>1, <1>2 DEF CarrierInv, Any!RotationTypeOK, Any!OneCarrier, Any!Succeed
<1>4. QED
  BY <1>1, <1>3 DEF CarrierInv, Any!RotationTypeOK, Any!Succeed

\* A refresh that dies only takes carriers away.
LEMMA ForfeitKeeps ==
    ASSUME CarrierInv, NEW p \in Tokens, Any!Forfeit(p)
    PROVE  CarrierInv'
BY DEF CarrierInv, Any!RotationTypeOK, Any!OneCarrier, Any!Carries, Any!Forfeit

\* So does a revocation.
LEMMA RevokeKeeps ==
    ASSUME CarrierInv, NEW S \in SUBSET Tokens, Any!Revoke(S)
    PROVE  CarrierInv'
BY DEF CarrierInv, Any!RotationTypeOK, Any!OneCarrier, Any!Carries, Any!Revoke

\* No two tokens ever carry the same session.
THEOREM RotationOneCarrier == Any!RotationSpec => []Any!OneCarrier
<1>1. CarrierInv /\ [Any!RotationNext]_(Any!rotationVars) => CarrierInv'
  <2> SUFFICES ASSUME CarrierInv, [Any!RotationNext]_(Any!rotationVars)
               PROVE  CarrierInv'
    OBVIOUS
  <2>1. CASE Any!RotationNext
    BY <2>1, OpenKeeps, RedeemKeeps, SucceedKeeps, ForfeitKeeps, RevokeKeeps
       DEF Any!RotationNext
  <2>2. CASE UNCHANGED Any!rotationVars
    BY <2>2 DEF Any!rotationVars, CarrierInv, Any!RotationTypeOK, Any!OneCarrier, Any!Carries
  <2>3. QED
    BY <2>1, <2>2
<1>2. CarrierInv => Any!OneCarrier
  BY DEF CarrierInv
<1>3. QED
  BY CarrierInit, <1>1, <1>2, PTL DEF Any!RotationSpec

----------------------------------------------------------------------------
(* The refinement of TokenRotation.                                        *)
(***************************************************************************)
owedBar == {call[c].token : c \in Redeeming}
stateBar == [t \in Tokens |-> IF t \in refreshToken THEN "live"
                              ELSE IF Issued(t) THEN "spent" ELSE "unissued"]

\* Empty token tables are the abstract initial state.
LEMMA InitRefines == Init => Rotation!RotationInit
BY DEF Init, Rotation!RotationInit, Issued, Redeeming, Idle

\* Logout, the purge, the removal of an account and every step that touches
\* no token are revocations, of no token perhaps.
LEMMA RevokingRefines ==
    ASSUME RotationInv, Revoking
    PROVE  \E S \in SUBSET Tokens : Rotation!Revoke(S)
<1>1. owedBar' = owedBar
  BY DEF Revoking, owedBar
<1>2. refreshToken \subseteq Tokens /\ \A t \in refreshToken : Issued(t)
  BY DEF RotationInv, TypeOK, FreshIsUnknown
<1>3. PICK S \in SUBSET Tokens : S = refreshToken \ refreshToken'
  BY <1>2
<1>4. stateBar' = [t \in Tokens |-> IF t \in S THEN "spent" ELSE stateBar[t]]
  BY <1>2, <1>3 DEF Revoking, stateBar, Issued
<1>5. Rotation!Revoke(S)
  BY <1>1, <1>3, <1>4 DEF Revoking, Rotation!Revoke, owedBar, stateBar
<1>6. QED
  BY <1>5

\* A refresh that dies between delete and insert forfeits the successor.
LEMMA ForfeitingRefines ==
    ASSUME RotationInv, NEW c \in Redeeming, Forfeiting(c)
    PROVE  \E t \in Tokens : Rotation!Forfeit(t)
<1>1. PICK t \in Tokens : t = call[c].token
  BY DEF RotationInv, TypeOK, CallRecord, Redeeming
<1>2. \A d \in Redeeming : d # c => call[d].token # t
  BY <1>1 DEF RotationInv, OneTokenPerSession
<1>3. owedBar' = owedBar \ {t} /\ t \in owedBar
  BY <1>1, <1>2 DEF Forfeiting, owedBar
<1>4. stateBar' = stateBar
  BY DEF Forfeiting, stateBar, Issued
<1>5. Rotation!Forfeit(t)
  BY <1>3, <1>4 DEF Forfeiting, Rotation!Forfeit, owedBar, stateBar
<1>6. QED
  BY <1>5

\* The delete by id redeems the token.
LEMMA RotateRefines ==
    ASSUME RotationInv, NEW c \in Calls, RefreshRotate(c)
    PROVE  \E t \in Tokens : Rotation!Redeem(t)
<1>1. PICK t \in Tokens : t = call[c].token
  BY RotateEffect
<1>2. /\ t \in refreshToken /\ refreshToken' = refreshToken \ {t}
      /\ UNCHANGED <<tokenUser, session, parent>>
      /\ Redeeming' = Redeeming \cup {c}
      /\ \A d \in Redeeming' : call'[d].token = call[d].token
  BY <1>1, RotateEffect
<1>3. owedBar' = owedBar \cup {t}
  BY <1>1, <1>2 DEF owedBar
<1>4. Issued(t)
  BY <1>2 DEF RotationInv, FreshIsUnknown
<1>5. stateBar' = [stateBar EXCEPT ![t] = "spent"] /\ stateBar[t] = "live"
  BY <1>2, <1>4 DEF stateBar, Issued
<1>6. Rotation!Redeem(t)
  BY <1>2, <1>3, <1>5 DEF Rotation!Redeem, owedBar, stateBar
<1>7. QED
  BY <1>6

\* generateTokens opens a session, or answers the refresh it ends.
LEMMA GenerateRefines ==
    ASSUME RotationInv, NEW c \in Calls, GenerateTokens(c)
    PROVE  \E t \in Tokens :
             Rotation!Open(t) \/ \E p \in Tokens : Rotation!Succeed(p, t)
<1>0. PICK p \in Tokens \cup {None} : p = call[c].token
  BY GenerateEffect
<1>1. PICK t \in Tokens :
        /\ ~Issued(t) /\ t \notin refreshToken
        /\ refreshToken' = refreshToken \cup {t}
        /\ tokenUser' = [tokenUser EXCEPT ![t] = call[c].user]
        /\ call[c].user # None
        /\ session' = [session EXCEPT ![t] = IF p = None THEN t ELSE session[p]]
        /\ p # None <=> c \in Redeeming
        /\ p # None => p \in Tokens
        /\ Redeeming' = Redeeming \ {c}
        /\ \A d \in Redeeming' : call'[d] = call[d]
  BY <1>0, GenerateEffect
<1>2. \A q \in Tokens : (Issued(q)' <=> Issued(q) \/ q = t)
  BY <1>1 DEF Issued, RotationInv, TypeOK
<1>3. stateBar' = [stateBar EXCEPT ![t] = "live"] /\ stateBar[t] = "unissued"
  BY <1>1, <1>2 DEF stateBar
<1>4. CASE p = None
  <2>1. owedBar' = owedBar
    BY <1>1, <1>4 DEF owedBar
  <2>2. Rotation!Open(t)
    BY <1>1, <1>3, <1>4, <2>1 DEF Rotation!Open, owedBar, stateBar
  <2>3. QED
    BY <2>2
<1>5. CASE p # None
  <2>1. \A d \in Redeeming : d # c => call[d].token # p
    BY <1>0, <1>1, <1>5 DEF RotationInv, OneTokenPerSession
  <2>2. owedBar' = owedBar \ {p} /\ p \in owedBar
    BY <1>0, <1>1, <1>5, <2>1 DEF owedBar
  <2>3. Rotation!Succeed(p, t)
    BY <1>1, <1>3, <1>5, <2>2 DEF Rotation!Succeed, owedBar, stateBar
  <2>4. QED
    BY <1>1, <1>5, <2>3
<1>6. QED
  BY <1>4, <1>5

\* The handlers implement the rotation: what RotationOneCarrier says of it
\* holds of them.
THEOREM Implementation == Spec => ImplementsRotation
<1>1. RotationInv /\ [Next]_vars => [Rotation!RotationNext]_(Rotation!rotationVars)
  <2> SUFFICES ASSUME RotationInv, [Next]_vars
               PROVE  [Rotation!RotationNext]_(Rotation!rotationVars)
    OBVIOUS
  <2>1. CASE Revoking
    BY <2>1, RevokingRefines DEF Rotation!RotationNext
  <2>2. ASSUME NEW c \in Redeeming, Forfeiting(c)
        PROVE  Rotation!RotationNext
    BY <2>2, ForfeitingRefines DEF Rotation!RotationNext
  <2>3. ASSUME NEW c \in Calls, RefreshRotate(c)
        PROVE  Rotation!RotationNext
    BY <2>3, RotateRefines DEF Rotation!RotationNext
  <2>4. ASSUME NEW c \in Calls, GenerateTokens(c)
        PROVE  Rotation!RotationNext
    BY <2>4, GenerateRefines DEF Rotation!RotationNext
  <2>5. QED
    BY <2>1, <2>2, <2>3, <2>4, StepKinds
<1>2. QED
  BY InitRefines, <1>1, RotationInvariant, PTL
     DEF Spec, ImplementsRotation, Rotation!RotationSpec

----------------------------------------------------------------------------
(* Password resets of accounts that never had a legacy hash.               *)
(***************************************************************************)
\* At the start every account has the hash it is said to have.
LEMMA ModernInit == Init => ModernInv
BY DEF Init, ModernInv, ResetHolds, Hash, Scheme, Idle

\* A step that writes no password and starts no migration keeps ModernInv.
LEMMA ModernKept ==
    ASSUME ModernInv, UNCHANGED <<account, password, lastReset>>,
           \A c \in Calls, u \in Users \ LegacyUsers :
               call'[c].step \in {"migrate", "migrateInactive"} /\ call'[c].user = u =>
                   call[c].step \in {"migrate", "migrateInactive"} /\ call[c].user = u
    PROVE  ModernInv'
BY DEF ModernInv, ResetHolds

\* A record that is about to migrate nothing.
Harmless(rec) ==
    rec \in CallRecord /\ rec.step \notin {"migrate", "migrateInactive"}

\* The records of every handler but the migration's are harmless.
LEMMA HarmlessRecords ==
    ASSUME NEW u \in Users
    PROVE  /\ Harmless(Idle)
           /\ Harmless([Idle EXCEPT !.step = "issue", !.user = u])
           /\ \A s \in Passwords :
                /\ Harmless([Idle EXCEPT !.step = "create", !.user = u, !.secret = s])
                /\ Harmless([Idle EXCEPT !.step = "resetWrite", !.user = u, !.secret = s])
           /\ \A t \in Tokens :
                Harmless([Idle EXCEPT !.step = "lookup", !.user = u, !.token = t])
BY DEF Harmless, Idle, CallRecord, Step

\* Moving a call to a harmless record starts no migration.
LEMMA NoMigration ==
    ASSUME TypeOK, NEW c \in Calls, NEW rec, Goto(c, rec), Harmless(rec)
    PROVE  \A d \in Calls : call'[d].step \in {"migrate", "migrateInactive"} =>
               call'[d] = call[d]
BY DEF TypeOK, Goto, Harmless

\* A call that ends does not become a migration.
LEMMA NoMigrationFinish ==
    ASSUME TypeOK, NEW c \in Calls, Finish(c)
    PROVE  \A d \in Calls : call'[d].step \in {"migrate", "migrateInactive"} =>
               call'[d] = call[d]
<1>1. Harmless(Idle)
  BY IdleTyped DEF Harmless, Idle
<1>2. QED
  BY <1>1, NoMigration DEF Finish

\* A step that writes no account and starts no migration keeps ModernInv.
LEMMA ModernMove ==
    ASSUME TypeOK, ModernInv, UNCHANGED <<account, password, lastReset>>,
           NEW c \in Calls, NEW rec, Goto(c, rec), Harmless(rec)
    PROVE  ModernInv'
BY NoMigration, ModernKept

\* Every step preserves ModernInv.
LEMMA ModernNext ==
    ASSUME TypeOK, CallsWellFormed, ModernInv, [Next]_vars
    PROVE  ModernInv'
<1>a. ASSUME NEW c \in Calls, NEW u \in Users, NEW s \in Passwords,
             RegisterCheck(c, u, s) \/ ResetFind(c, u, s)
      PROVE  ModernInv'
  BY <1>a, ModernMove, HarmlessRecords
     DEF RegisterCheck, ResetFind, accountVars
<1>b. ASSUME NEW c \in Calls, NEW u \in Users, NEW s \in Passwords, LoginFind(c, u, s)
      PROVE  ModernInv'
  <2>1. CASE password[u].scheme = "argon2"
    <3>1. Goto(c, [Idle EXCEPT !.step = "issue", !.user = u])
      BY <1>b, <2>1 DEF LoginFind
    <3>2. QED
      BY <1>b, <3>1, ModernMove, HarmlessRecords
         DEF LoginFind, accountVars
  <2>2. CASE password[u].scheme = "bcrypt"
    <3>1. u \in LegacyUsers
      BY <1>b, <2>2 DEF LoginFind, ModernInv
    <3>2. PICK step \in Step :
            Goto(c, [Idle EXCEPT !.step = step, !.user = u, !.secret = s])
      BY <1>b, <2>2, StepNames DEF LoginFind
    <3>3. \A d \in Calls : call'[d] = call[d] \/ call'[d].user = u
      BY <3>2 DEF Goto, TypeOK, Idle
    <3>4. QED
      BY <1>b, <3>1, <3>3, ModernKept DEF LoginFind, accountVars
  <2>3. QED
    BY <1>b, <2>1, <2>2 DEF LoginFind
<1>c. ASSUME NEW c \in Calls, RegisterCreate(c)
      PROVE  ModernInv'
  <2> DEFINE v == call[c].user
  <2>1. v \in Users /\ call[c].secret \in Passwords
    BY <1>c DEF RegisterCreate, CallsWellFormed, WellFormed
  <2>2. \A d \in Calls : call'[d].step \in {"migrate", "migrateInactive"} =>
            call'[d] = call[d]
    BY <1>c, <2>1, NoMigration, HarmlessRecords DEF RegisterCreate
  <2>3. [scheme |-> "argon2", secret |-> call[c].secret] \in Hash
    BY <2>1 DEF Hash, Scheme
  <2>4. QED
    BY <1>c, <2>1, <2>2, <2>3 DEF RegisterCreate, TypeOK, ModernInv, ResetHolds
<1>d. ASSUME NEW c \in Calls, LoginMigrate(c)
      PROVE  ModernInv'
  <2> DEFINE v == call[c].user
  <2>1. v \in LegacyUsers /\ v \in Users
    BY <1>d DEF LoginMigrate, ModernInv, CallsWellFormed, WellFormed
  <2>2. \A d \in Calls : call'[d].step \in {"migrate", "migrateInactive"} =>
            call'[d] = call[d]
    BY <1>d, <2>1, NoMigration, NoMigrationFinish, HarmlessRecords DEF LoginMigrate
  <2>3. \A u \in Users \ LegacyUsers : password'[u] = password[u]
    BY <1>d, <2>1 DEF LoginMigrate, TypeOK
  <2>4. QED
    BY <1>d, <2>2, <2>3 DEF LoginMigrate, ModernInv, ResetHolds
<1>e. ASSUME NEW c \in Calls, ResetWrite(c)
      PROVE  ModernInv'
  <2> DEFINE v == call[c].user
  <2>1. v \in Users /\ call[c].secret \in Passwords
    BY <1>e DEF ResetWrite, CallsWellFormed, WellFormed
  <2>2. \A d \in Calls : call'[d].step \in {"migrate", "migrateInactive"} =>
            call'[d] = call[d]
    BY <1>e, NoMigrationFinish DEF ResetWrite
  <2>3. [scheme |-> "argon2", secret |-> call[c].secret] \in Hash
    BY <2>1 DEF Hash, Scheme
  <2>4. QED
    BY <1>e, <2>1, <2>2, <2>3 DEF ResetWrite, TypeOK, ModernInv, ResetHolds
<1>f. ASSUME NEW c \in Calls, GenerateTokens(c) \/ RefreshPurge(c) \/ CallDies(c)
      PROVE  ModernInv'
  BY <1>f, ModernKept, NoMigrationFinish
     DEF GenerateTokens, RefreshPurge, CallDies, accountVars
<1>g. ASSUME NEW c \in Calls, RefreshLookup(c) \/ RefreshRotate(c)
      PROVE  ModernInv'
  <2>1. call[c] \in CallRecord
    BY DEF TypeOK
  <2>2. ASSUME NEW step \in {"purge", "rotate", "issue"}
        PROVE  Harmless([call[c] EXCEPT !.step = step])
    BY <2>1 DEF Harmless, CallRecord, Step
  <2>3. \A d \in Calls : call'[d].step \in {"migrate", "migrateInactive"} =>
            call'[d] = call[d]
    BY <1>g, <2>2, NoMigration, NoMigrationFinish DEF RefreshLookup, RefreshRotate
  <2>4. QED
    BY <1>g, <2>3, ModernKept DEF RefreshLookup, RefreshRotate, accountVars
<1>h. ASSUME NEW c \in Calls, NEW u \in Users, LoginById(c, u)
      PROVE  ModernInv'
  BY <1>h, ModernMove, HarmlessRecords
     DEF LoginById, accountVars
<1>i. ASSUME NEW c \in Calls, NEW t \in Tokens, RefreshVerify(c, t)
      PROVE  ModernInv'
  <2>1. tokenUser[t] \in Users
    BY <1>i DEF RefreshVerify, Issued, TypeOK
  <2>2. QED
    BY <1>i, <2>1, ModernMove, HarmlessRecords
       DEF RefreshVerify, accountVars
<1>j. ASSUME NEW t \in Tokens, TokenExpires(t) \/ \E u \in Users : Logout(u, t)
      PROVE  ModernInv'
  BY <1>j, ModernKept DEF TokenExpires, Logout, accountVars
<1>k. ASSUME NEW u \in Users,
             \/ VerifyEmail(u) \/ RequestPasswordReset(u)
             \/ \E on \in BOOLEAN : SetActive(u, on)
      PROVE  ModernInv'
  BY <1>k, ModernKept DEF VerifyEmail, RequestPasswordReset, SetActive
<1>l. ASSUME NEW u \in Users, DeleteUser(u)
      PROVE  ModernInv'
  BY <1>l DEF DeleteUser, TypeOK, ModernInv, ResetHolds
<1>m. ASSUME NEW r \in ResetTokens, ResetTokenLapses(r)
      PROVE  ModernInv'
  BY <1>m, ModernKept DEF ResetTokenLapses
<1>n. CASE UNCHANGED vars
  BY <1>n, ModernKept DEF vars, accountVars
<1>o. QED
  BY <1>a, <1>b, <1>c, <1>d, <1>e, <1>f, <1>g, <1>h, <1>i, <1>j, <1>k, <1>l, <1>m, <1>n
     DEF Next

\* A completed reset stays in force on every account that was never a legacy
\* one, whatever sign-ins race with it.
THEOREM ModernResetsHold == Spec => []ModernResetIsEffective
<1>1. RotationInv /\ ModernInv /\ [Next]_vars => ModernInv'
  BY ModernNext DEF RotationInv
<1>2. ModernInv => ModernResetIsEffective
  BY DEF ModernInv, ModernResetIsEffective
<1>3. QED
  BY ModernInit, <1>1, <1>2, RotationInvariant, PTL DEF Spec

=============================================================================
