------------------------------ MODULE Passkeys ------------------------------
(***************************************************************************)
(* PasskeyService (src/src/auth/passkey/passkey.service.ts): WebAuthn      *)
(* ceremonies over the one column User.currentChallenge, and the passkeys  *)
(* they register and use.                                                  *)
(*                                                                         *)
(* Authenticators and the library that checks their responses are external:*)
(* a response names its ceremony, its credential, the challenge it signs   *)
(* and a signature counter, and a client may send it any number of times.  *)
(* The finds of the two generate methods and of deletePasskey decide       *)
(* nothing that the statement after them does not decide again, so each is *)
(* one step with it.                                                       *)
(***************************************************************************)
EXTENDS Naturals

CONSTANTS
    Users,
    Credentials,
    Counting,    \* the credentials whose authenticator counts its signatures
    Challenges,  \* drawn once each
    MaxCounter,  \* bound: signature counters
    Calls,       \* slots for calls in flight at the same time
    None

ASSUME PasskeyAssumption ==
    /\ None \notin Users \cup Credentials \cup Challenges
    /\ Counting \subseteq Credentials
    /\ MaxCounter \in Nat

VARIABLES
    users,             \* accounts that exist
    currentChallenge,  \* [Users -> Challenges \cup {None}]
    passkey,           \* [Credentials -> Row]
    offered,           \* the options that were answered: what clients may sign
    signed,            \* the responses clients may send
    call,              \* the calls in flight
    latest,            \* History: the last challenge offered to each user
    spent,             \* History: how often a challenge was cleared by the end
                       \* of its verification
    raced,             \* History: challenges and credentials of which two
                       \* verifications overlapped
    crossed,           \* History: challenges stored during a verification
    removed            \* History: passkeys removed when nothing could still
                       \* register them

vars == <<users, currentChallenge, passkey, offered, signed, call,
          latest, spent, raced, crossed, removed>>
history == <<latest, spent, raced, crossed, removed>>

Ceremony == {"create", "get"}
Offer == [type : Ceremony, user : Users, challenge : Challenges]
Response == [type : Ceremony, credential : Credentials, challenge : Challenges,
             counter : 0..MaxCounter]
\* A row, or NoRow.
Row == [user : Users \cup {None}, counter : 0..MaxCounter]
NoRow == [user |-> None, counter |-> 0]

Step == {"idle", "createPasskey", "updateCounter", "clearChallenge", "login"}
CallRecord == [step : Step, type : Ceremony, user : Users \cup {None},
               credential : Credentials \cup {None},
               challenge : Challenges \cup {None}, counter : 0..MaxCounter]

Idle == [step |-> "idle", type |-> "get", user |-> None, credential |-> None,
         challenge |-> None, counter |-> 0]

TypeOK ==
    /\ users \subseteq Users
    /\ currentChallenge \in [Users -> Challenges \cup {None}]
    /\ passkey \in [Credentials -> Row]
    /\ offered \subseteq Offer
    /\ signed \subseteq Response
    /\ call \in [Calls -> CallRecord]
    /\ latest \in [Users -> Challenges \cup {None}]
    /\ spent \in [Challenges -> Nat]
    /\ raced \subseteq Challenges \cup Credentials
    /\ crossed \subseteq Challenges
    /\ removed \subseteq Credentials

Init ==
    /\ users = Users
    /\ currentChallenge = [u \in Users |-> None]
    /\ passkey = [k \in Credentials |-> NoRow]
    /\ offered = {}
    /\ signed = {}
    /\ call = [c \in Calls |-> Idle]
    /\ latest = [u \in Users |-> None]
    /\ spent = [x \in Challenges |-> 0]
    /\ raced = {} /\ crossed = {} /\ removed = {}

Goto(c, rec) == call' = [call EXCEPT ![c] = rec]
Finish(c) == Goto(c, Idle)

Drawn == {o.challenge : o \in offered}
InFlight(c) == call[c].step # "idle"

----------------------------------------------------------------------------
(* The challenge replaces whatever was stored, and is answered.            *)
(***************************************************************************)
Store(type, u, x) ==
    /\ u \in users /\ x \notin Drawn
    /\ currentChallenge' = [currentChallenge EXCEPT ![u] = x]
    /\ offered' = offered \cup {[type |-> type, user |-> u, challenge |-> x]}
    /\ latest' = [latest EXCEPT ![u] = x]
    /\ crossed' = IF \E c \in Calls : InFlight(c) /\ call[c].user = u
                  THEN crossed \cup {x} ELSE crossed
    /\ UNCHANGED <<users, passkey, signed, call, spent, raced, removed>>

GenerateRegistrationOptions(u, x) == Store("create", u, x)

GenerateAuthenticationOptions(u, x) == Store("get", u, x)

----------------------------------------------------------------------------
(* The authenticators.                                                     *)
(***************************************************************************)
\* A new credential is made for every registration.
CreateCredential(k, o) ==
    /\ o \in offered /\ o.type = "create"
    /\ \A r \in signed : r.credential # k
    /\ signed' = signed \cup {[type |-> "create", credential |-> k,
                               challenge |-> o.challenge, counter |-> 0]}
    /\ UNCHANGED <<users, currentChallenge, passkey, offered, call, history>>

\* Counters only grow; an authenticator that does not count gives 0.
Sign(k, o) ==
    /\ o \in offered /\ o.type = "get"
    /\ \E r \in signed : r.credential = k
    /\ \E counter \in 0..MaxCounter :
        /\ k \in Counting => \A r \in signed : r.credential = k => r.counter < counter
        /\ k \notin Counting => counter = 0
        /\ signed' = signed \cup {[type |-> "get", credential |-> k,
                                   challenge |-> o.challenge, counter |-> counter]}
    /\ UNCHANGED <<users, currentChallenge, passkey, offered, call, history>>

\* The library's check: the counter went up, unless neither side counts.
CounterAccepted(stored, given) == given > stored \/ {given, stored} = {0}

----------------------------------------------------------------------------
(* verifyRegistration and verifyAuthentication.                            *)
(***************************************************************************)
\* What else is being verified with the same challenge or credential.
Rivals(c, r) ==
    UNION {{call[d].challenge, call[d].credential} \cap {r.challenge, r.credential} :
               d \in {d \in Calls \ {c} : InFlight(d)}}

\* The challenge read with the user is the one signed.  A response that is
\* refused ends the call.
Begin(c, u, r, step) ==
    /\ ~InFlight(c)
    /\ u \in users /\ r \in signed
    /\ currentChallenge[u] = r.challenge
    /\ Goto(c, [step |-> step, type |-> r.type, user |-> u, credential |-> r.credential,
                challenge |-> r.challenge, counter |-> r.counter])
    /\ raced' = raced \cup Rivals(c, r)

RegistrationFind(c, u, r) ==
    /\ r.type = "create"
    /\ Begin(c, u, r, "createPasskey")
    /\ UNCHANGED <<users, currentChallenge, passkey, offered, signed,
                   latest, spent, crossed, removed>>

\* Mutant: the stored counter is not compared.
AuthenticationFindAnyCounter(c, u, r) ==
    /\ r.type = "get"
    /\ passkey[r.credential].user = u
    /\ Begin(c, u, r, "updateCounter")
    /\ UNCHANGED <<users, currentChallenge, passkey, offered, signed,
                   latest, spent, crossed, removed>>

\* Mutant: the challenge is taken out when it is read.
AuthenticationFindClears(c, u, r) ==
    /\ r.type = "get"
    /\ passkey[r.credential].user = u
    /\ CounterAccepted(passkey[r.credential].counter, r.counter)
    /\ Begin(c, u, r, "updateCounter")
    /\ currentChallenge' = [currentChallenge EXCEPT ![u] = None]
    /\ UNCHANGED <<users, passkey, offered, signed, latest, spent, crossed, removed>>

\* The credential is among the user's passkeys.
AuthenticationFind(c, u, r) ==
    /\ r.type = "get"
    /\ passkey[r.credential].user = u
    /\ CounterAccepted(passkey[r.credential].counter, r.counter)
    /\ Begin(c, u, r, "updateCounter")
    /\ UNCHANGED <<users, currentChallenge, passkey, offered, signed,
                   latest, spent, crossed, removed>>

\* credentialID is unique.
RegistrationCreate(c) ==
    LET k == call[c].credential IN
    /\ call[c].step = "createPasskey"
    /\ call[c].user \in users /\ passkey[k] = NoRow
    /\ passkey' = [passkey EXCEPT ![k] = [user |-> call[c].user,
                                          counter |-> call[c].counter]]
    /\ Goto(c, [call[c] EXCEPT !.step = "clearChallenge"])
    /\ UNCHANGED <<users, currentChallenge, offered, signed, history>>

\* Mutant: an updateMany in place of the update.
AuthenticationCounterMany(c) ==
    LET k == call[c].credential IN
    /\ call[c].step = "updateCounter"
    /\ passkey' = IF passkey[k] = NoRow THEN passkey
                  ELSE [passkey EXCEPT ![k].counter = call[c].counter]
    /\ Goto(c, [call[c] EXCEPT !.step = "clearChallenge"])
    /\ UNCHANGED <<users, currentChallenge, offered, signed, history>>

\* The counter is written by credentialID, as the response gave it.
AuthenticationCounter(c) ==
    LET k == call[c].credential IN
    /\ call[c].step = "updateCounter"
    /\ passkey[k] # NoRow
    /\ passkey' = [passkey EXCEPT ![k].counter = call[c].counter]
    /\ Goto(c, [call[c] EXCEPT !.step = "clearChallenge"])
    /\ UNCHANGED <<users, currentChallenge, offered, signed, history>>

\* Mutant: the challenge stays.
ClearChallengeNot(c) ==
    /\ call[c].step = "clearChallenge"
    /\ call[c].user \in users
    /\ spent' = [spent EXCEPT ![call[c].challenge] = @ + 1]
    /\ IF call[c].type = "create" THEN Finish(c)
       ELSE Goto(c, [call[c] EXCEPT !.step = "login"])
    /\ UNCHANGED <<users, currentChallenge, passkey, offered, signed,
                   latest, raced, crossed, removed>>

\* The stored challenge is cleared, whichever it is by now.
ClearChallenge(c) ==
    /\ call[c].step = "clearChallenge"
    /\ call[c].user \in users
    /\ currentChallenge' = [currentChallenge EXCEPT ![call[c].user] = None]
    /\ spent' = [spent EXCEPT ![call[c].challenge] = @ + 1]
    /\ IF call[c].type = "create" THEN Finish(c)
       ELSE Goto(c, [call[c] EXCEPT !.step = "login"])
    /\ UNCHANGED <<users, passkey, offered, signed, latest, raced, crossed, removed>>

\* AuthService.loginById, which module Auth has in detail.
LoginById(c) ==
    /\ call[c].step = "login"
    /\ call[c].user \in users
    /\ Finish(c)
    /\ UNCHANGED <<users, currentChallenge, passkey, offered, signed, history>>

----------------------------------------------------------------------------
\* Whether a response or a call under way could register the credential.
Registrable(k) ==
    \/ \E c \in Calls : call[c].step = "createPasskey" /\ call[c].credential = k
    \/ \E u \in users, r \in signed :
           r.type = "create" /\ r.credential = k /\ currentChallenge[u] = r.challenge

DeletePasskey(k) ==
    /\ passkey[k] # NoRow
    /\ passkey' = [passkey EXCEPT ![k] = NoRow]
    /\ removed' = IF Registrable(k) THEN removed ELSE removed \cup {k}
    /\ UNCHANGED <<users, currentChallenge, offered, signed, call,
                   latest, spent, raced, crossed>>

\* Removing an account takes its passkeys.
DeleteUser(u) ==
    /\ u \in users
    /\ users' = users \ {u}
    /\ passkey' = [k \in Credentials |-> IF passkey[k].user = u THEN NoRow ELSE passkey[k]]
    /\ UNCHANGED <<currentChallenge, offered, signed, call, history>>

\* A statement fails or the process stops.
CallDies(c) ==
    /\ InFlight(c)
    /\ Finish(c)
    /\ UNCHANGED <<users, currentChallenge, passkey, offered, signed, history>>

Next ==
    \/ \E u \in Users, x \in Challenges :
        GenerateRegistrationOptions(u, x) \/ GenerateAuthenticationOptions(u, x)
    \/ \E k \in Credentials, o \in offered : CreateCredential(k, o) \/ Sign(k, o)
    \/ \E c \in Calls :
        \/ \E u \in Users, r \in signed : RegistrationFind(c, u, r) \/ AuthenticationFind(c, u, r)
        \/ RegistrationCreate(c) \/ AuthenticationCounter(c)
        \/ ClearChallenge(c) \/ LoginById(c) \/ CallDies(c)
    \/ \E k \in Credentials : DeletePasskey(k)
    \/ \E u \in Users : DeleteUser(u)

Spec == Init /\ [][Next]_vars

----------------------------------------------------------------------------
(* Properties.                                                             *)
(***************************************************************************)
\* A challenge serves one ceremony to its end.  It takes two verifications that
\* had both read it before either cleared it to have two.
ChallengeServesOnce ==
    \A x \in Challenges : spent[x] > 1 => x \in raced

\* The challenge a user was offered last stands until a verification of it has
\* ended: another ceremony's end takes it only if it was in flight when the
\* challenge was stored.
LatestChallengeStands ==
    \A u \in users :
        latest[u] # None /\ currentChallenge[u] # latest[u] =>
            spent[latest[u]] > 0 \/ latest[u] \in crossed

\* The counter of a passkey goes back only where two verifications of the
\* credential overlapped: out of order, the slower one writes the smaller
\* number.
CounterGoesBackByRaceOnly ==
    [][\A k \in Credentials :
           NoRow \notin {passkey[k], passkey'[k]} /\ passkey'[k].counter < passkey[k].counter
               => k \in raced]_vars

\* A passkey that was removed is out: the verifications that had found it and
\* not yet written its counter get no further, and no response on its way makes
\* it anew, unless one was still registering it.
RemovedPasskeyIsOut ==
    [][\A k \in removed :
           /\ passkey'[k] = NoRow
           /\ \A c \in Calls :
                  call[c].step = "updateCounter" /\ call[c].credential = k =>
                      call'[c].step \in {"idle", "updateCounter"}]_vars

----------------------------------------------------------------------------
(* The inductive strengthening of the properties.                          *)
(***************************************************************************)
\* A verification that has still to clear the challenge.
Verifying(c) == call[c].step \in {"createPasskey", "updateCounter", "clearChallenge"}

OfferedTo(u, x) == \E o \in offered : o.user = u /\ o.challenge = x

\* What is stored, remembered and under way goes back to offers, one for each
\* challenge, and to signed responses.
OriginsFit ==
    /\ \A o1, o2 \in offered : o1.challenge = o2.challenge => o1 = o2
    /\ \A u \in Users :
           /\ currentChallenge[u] \in {None, latest[u]}
           /\ latest[u] # None => OfferedTo(u, latest[u])
    /\ \A x \in Challenges : spent[x] > 0 => x \in Drawn
    /\ \A r \in signed : r.challenge \in Drawn /\ (r.type = "create" => r.counter = 0)
    /\ \A k \in Credentials :
           passkey[k] # NoRow \/ k \in removed => \E r \in signed : r.credential = k
    /\ \A c \in Calls : Verifying(c) =>
           /\ call[c].user \in Users
           /\ OfferedTo(call[c].user, call[c].challenge)
           /\ \E r \in signed : r.credential = call[c].credential
           /\ call[c].step = "createPasskey" => call[c].counter = 0

\* Two verifications under way at once are known to have raced.
RacesKnown ==
    \A c, d \in Calls : c # d /\ Verifying(c) /\ Verifying(d) =>
        /\ call[c].challenge = call[d].challenge => call[c].challenge \in raced
        /\ call[c].credential = call[d].credential => call[c].credential \in raced

\* A challenge that was cleared at the end of its verification is stored no more,
\* and who still verifies it raced.
SpentIsSpent ==
    \A x \in Challenges : spent[x] > 0 =>
        /\ \A u \in Users : currentChallenge[u] # x
        /\ \A c \in Calls : Verifying(c) /\ call[c].challenge = x => x \in raced

\* A verification of another challenge than the latest was crossed by it.
LateEndsKnown ==
    \A c \in Calls : Verifying(c) /\ call[c].challenge # latest[call[c].user] =>
        latest[call[c].user] \in crossed

\* Without a race nobody writes a counter under the one it was compared with.
CountersAhead ==
    \A c \in Calls :
        call[c].step = "updateCounter" /\ call[c].credential \notin raced =>
            passkey[call[c].credential].counter <= call[c].counter

RemovedIsGone ==
    \A k \in removed : passkey[k] = NoRow /\ ~Registrable(k)

PasskeyInv ==
    /\ TypeOK
    /\ OriginsFit
    /\ RacesKnown
    /\ SpentIsSpent
    /\ ChallengeServesOnce
    /\ LateEndsKnown
    /\ LatestChallengeStands
    /\ CountersAhead
    /\ RemovedIsGone

=============================================================================
