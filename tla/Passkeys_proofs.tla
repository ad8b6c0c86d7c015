--------------------------- MODULE Passkeys_proofs ---------------------------
(***************************************************************************)
(* What passkey ceremonies keep, for any numbers of users, credentials,    *)
(* challenges and calls.                                                   *)
(***************************************************************************)
EXTENDS Passkeys, TLAPS

\* An empty slot is a call.
LEMMA IdleIsCall == Idle \in CallRecord /\ NoRow \in Row
BY PasskeyAssumption DEF Idle, CallRecord, Step, Ceremony, NoRow, Row

\* A call that moves on with a record of the right type leaves all calls typed.
LEMMA GotoTyped ==
    ASSUME call \in [Calls -> CallRecord], NEW c \in Calls,
           NEW rec \in CallRecord, Goto(c, rec)
    PROVE  call' \in [Calls -> CallRecord] /\ call'[c] = rec
           /\ \A d \in Calls \ {c} : call'[d] = call[d]
BY DEF Goto

\* Before the first ceremony nothing is offered, stored or under way.
LEMMA PasskeysInit == Init => PasskeyInv
<1> SUFFICES ASSUME Init PROVE PasskeyInv
  OBVIOUS
<1>1. TypeOK
  BY IdleIsCall DEF Init, TypeOK
<1>2. /\ OriginsFit /\ RacesKnown /\ SpentIsSpent /\ LateEndsKnown
      /\ CountersAhead /\ RemovedIsGone
  BY DEF Init, OriginsFit, RacesKnown, SpentIsSpent, LateEndsKnown, CountersAhead,
         RemovedIsGone, Verifying, Idle
<1>3. ChallengeServesOnce /\ LatestChallengeStands
  BY DEF Init, ChallengeServesOnce, LatestChallengeStands
<1>4. QED
  BY <1>1, <1>2, <1>3 DEF PasskeyInv

\* Storing a challenge: it is new, so that nothing is spent on it, and whoever is
\* still verifying for the user is crossed by it.
LEMMA StoreKeeps ==
    ASSUME PasskeyInv, NEW type \in Ceremony, NEW u \in Users, NEW x \in Challenges,
           Store(type, u, x)
    PROVE  PasskeyInv'
<1> USE DEF PasskeyInv
<1>1. TypeOK'
  <2>1. [type |-> type, user |-> u, challenge |-> x] \in Offer
    BY DEF Offer
  <2>2. QED
    BY <2>1 DEF Store, TypeOK
<1>2. /\ x \notin Drawn /\ x # None
      /\ Drawn' = Drawn \cup {x}
      /\ \A v, y : OfferedTo(v, y) => OfferedTo(v, y)'
      /\ OfferedTo(u, x)'
      /\ currentChallenge'[u] = x /\ latest'[u] = x
      /\ \A v \in Users \ {u} : currentChallenge'[v] = currentChallenge[v]
                                /\ latest'[v] = latest[v]
  <2>1. x \notin Drawn /\ x # None
    BY PasskeyAssumption DEF Store
  <2>2. PICK o : o = [type |-> type, user |-> u, challenge |-> x]
    OBVIOUS
  <2>3. o.user = u /\ o.challenge = x
    BY <2>2
  <2>4. offered' = offered \cup {o}
    BY <2>2 DEF Store
  <2>5. Drawn' = Drawn \cup {x}
    BY <2>3, <2>4 DEF Drawn
  <2>6. OfferedTo(u, x)' /\ \A v, y : OfferedTo(v, y) => OfferedTo(v, y)'
    BY <2>3, <2>4 DEF OfferedTo
  <2>7. QED
    BY <2>1, <2>5, <2>6 DEF Store, TypeOK
<1>3. UNCHANGED <<users, passkey, signed, call, spent, raced, removed>>
  BY DEF Store
<1>4. OriginsFit'
  BY <1>2, <1>3 DEF OriginsFit, Store, Drawn, Verifying, TypeOK
<1>5. RacesKnown' /\ ChallengeServesOnce' /\ CountersAhead'
  BY <1>3 DEF RacesKnown, ChallengeServesOnce, CountersAhead, Verifying
<1>6. SpentIsSpent'
  BY <1>2, <1>3 DEF SpentIsSpent, OriginsFit, Verifying, TypeOK
<1>7. LateEndsKnown'
  BY <1>2, <1>3 DEF Store, LateEndsKnown, OriginsFit, Verifying, InFlight, TypeOK
<1>8. LatestChallengeStands'
  BY <1>2, <1>3 DEF Store, LatestChallengeStands, TypeOK
<1>9. RemovedIsGone'
  BY <1>2, <1>3 DEF RemovedIsGone, Registrable, OriginsFit, TypeOK
<1>10. QED
  BY <1>1, <1>4, <1>5, <1>6, <1>7, <1>8, <1>9

\* A new response signs a challenge that was offered.  Nothing that was removed is
\* registered by it: what was removed had signed before.
LEMMA SigningKeeps ==
    ASSUME PasskeyInv, NEW r \in Response, r.challenge \in Drawn,
           r.type = "create" => r.counter = 0 /\ \A q \in signed : q.credential # r.credential,
           signed' = signed \cup {r},
           UNCHANGED <<users, currentChallenge, passkey, offered, call, history>>
    PROVE  PasskeyInv'
<1> USE DEF PasskeyInv, history
<1>1. TypeOK'
  BY DEF TypeOK
<1>2. OriginsFit'
  BY DEF OriginsFit, Drawn, OfferedTo, Verifying
<1>3. /\ RacesKnown' /\ SpentIsSpent' /\ LateEndsKnown' /\ CountersAhead'
      /\ ChallengeServesOnce' /\ LatestChallengeStands'
  BY DEF RacesKnown, SpentIsSpent, LateEndsKnown, CountersAhead, ChallengeServesOnce,
         LatestChallengeStands, Verifying
<1>4. RemovedIsGone'
  <2>1. ASSUME NEW k \in removed PROVE r.type # "create" \/ r.credential # k
    BY DEF OriginsFit, TypeOK
  <2>2. QED
    BY <2>1 DEF RemovedIsGone, Registrable
<1>5. QED
  BY <1>1, <1>2, <1>3, <1>4

\* Both authenticator steps are of that kind.
LEMMA AuthenticatorsKeep ==
    ASSUME PasskeyInv, NEW k \in Credentials, NEW o \in offered,
           CreateCredential(k, o) \/ Sign(k, o)
    PROVE  PasskeyInv'
<1>1. o \in Offer /\ o.challenge \in Drawn
  BY DEF PasskeyInv, TypeOK, Drawn
<1>2. CASE CreateCredential(k, o)
  <2>1. PICK r : r = [type |-> "create", credential |-> k, challenge |-> o.challenge,
                      counter |-> 0]
    OBVIOUS
  <2>2. r \in Response
    BY <1>1, <2>1, PasskeyAssumption DEF Response, Offer, Ceremony
  <2>3. signed' = signed \cup {r}
    BY <1>2, <2>1 DEF CreateCredential
  <2>4. QED
    BY <1>1, <1>2, <2>1, <2>2, <2>3, SigningKeeps DEF CreateCredential
<1>3. CASE Sign(k, o)
  <2>1. PICK n \in 0..MaxCounter :
            signed' = signed \cup {[type |-> "get", credential |-> k,
                                    challenge |-> o.challenge, counter |-> n]}
    BY <1>3 DEF Sign
  <2>2. PICK r : r = [type |-> "get", credential |-> k, challenge |-> o.challenge,
                      counter |-> n]
    OBVIOUS
  <2>3. r \in Response
    BY <1>1, <2>1, <2>2 DEF Response, Offer, Ceremony
  <2>4. QED
    BY <1>1, <1>3, <2>1, <2>2, <2>3, SigningKeeps DEF Sign
<1>4. QED
  BY <1>2, <1>3

\* A verification begins: the stored challenge is the latest, unspent, and if
\* others verify it or the credential, that is a race.
LEMMA BeginKeeps ==
    ASSUME PasskeyInv, NEW c \in Calls, NEW u \in Users, NEW r \in signed,
           RegistrationFind(c, u, r) \/ AuthenticationFind(c, u, r)
    PROVE  PasskeyInv'
<1> USE DEF PasskeyInv
<1>1. PICK step \in {"createPasskey", "updateCounter"} :
          /\ Begin(c, u, r, step)
          /\ step = "createPasskey" <=> r.type = "create"
          /\ step = "updateCounter" =>
                 CounterAccepted(passkey[r.credential].counter, r.counter)
          /\ UNCHANGED <<users, currentChallenge, passkey, offered, signed,
                         latest, spent, crossed, removed>>
  BY DEF RegistrationFind, AuthenticationFind
<1>2. PICK rec : rec = [step |-> step, type |-> r.type, user |-> u,
                        credential |-> r.credential, challenge |-> r.challenge,
                        counter |-> r.counter]
  OBVIOUS
<1>3. /\ rec \in CallRecord /\ rec.step = step /\ rec.user = u
      /\ rec.credential = r.credential /\ rec.challenge = r.challenge
      /\ rec.counter = r.counter /\ r \in Response
  BY <1>2 DEF TypeOK, CallRecord, Step, Response
<1>4. /\ call' \in [Calls -> CallRecord] /\ call'[c] = rec
      /\ \A d \in Calls \ {c} : call'[d] = call[d]
  BY <1>1, <1>2, <1>3, GotoTyped DEF Begin, TypeOK
<1>5. currentChallenge[u] = r.challenge /\ u \in users /\ r.challenge \in Challenges
  BY <1>1, <1>3 DEF Begin, Response
<1>6. /\ raced \subseteq raced'
      /\ raced' \subseteq raced \cup {r.challenge, r.credential}
      /\ \A d \in Calls \ {c} : Verifying(d) =>
             /\ call[d].challenge = r.challenge => r.challenge \in raced'
             /\ call[d].credential = r.credential => r.credential \in raced'
  <2>1. raced' = raced \cup Rivals(c, r)
    BY <1>1 DEF Begin
  <2>2. ASSUME NEW d \in Calls \ {c}, Verifying(d)
        PROVE  {call[d].challenge, call[d].credential} \cap {r.challenge, r.credential}
                   \subseteq Rivals(c, r)
    BY <2>2 DEF Rivals, Verifying, InFlight
  <2>3. Rivals(c, r) \subseteq {r.challenge, r.credential}
    BY DEF Rivals
  <2>4. QED
    BY <2>1, <2>2, <2>3
<1>7. TypeOK'
  BY <1>1, <1>3, <1>4, <1>6 DEF TypeOK, Response
<1>8. latest[u] = r.challenge /\ OfferedTo(u, r.challenge) /\ spent[r.challenge] = 0
  <2>1. latest[u] = r.challenge /\ OfferedTo(u, r.challenge)
    BY <1>5, PasskeyAssumption DEF OriginsFit
  <2>2. spent[r.challenge] \in Nat /\ ~(spent[r.challenge] > 0)
    BY <1>5 DEF SpentIsSpent, TypeOK
  <2>3. QED
    BY <2>1, <2>2
<1>9. OriginsFit'
  BY <1>1, <1>3, <1>4, <1>8 DEF OriginsFit, Drawn, OfferedTo, Verifying
<1>10. RacesKnown'
  BY <1>3, <1>4, <1>6 DEF RacesKnown, Verifying
<1>11. SpentIsSpent' /\ ChallengeServesOnce'
  BY <1>1, <1>3, <1>4, <1>6, <1>8 DEF SpentIsSpent, ChallengeServesOnce, Verifying
<1>12. LateEndsKnown' /\ LatestChallengeStands'
  BY <1>1, <1>3, <1>4, <1>8 DEF LateEndsKnown, LatestChallengeStands, Verifying
<1>13. CountersAhead'
  <2>1. step = "updateCounter" => passkey[r.credential].counter <= r.counter
    BY SMTT(20), <1>1, <1>3 DEF CounterAccepted, TypeOK, Response, Row
  <2>2. QED
    BY <1>1, <1>3, <1>4, <1>6, <2>1 DEF CountersAhead
<1>14. RemovedIsGone'
  <2>1. ASSUME NEW k \in removed, step = "createPasskey" PROVE r.credential # k
    BY <1>1, <1>5, <2>1 DEF RemovedIsGone, Registrable
  <2>2. QED
    BY <1>1, <1>3, <1>4, <2>1 DEF RemovedIsGone, Registrable, TypeOK
<1>15. QED
  BY <1>7, <1>9, <1>10, <1>11, <1>12, <1>13, <1>14

\* The call that moves on; the rest of its record stays.
LEMMA StepMoves ==
    ASSUME TypeOK, NEW c \in Calls, NEW step \in Step,
           Goto(c, [call[c] EXCEPT !.step = step])
    PROVE  /\ call' \in [Calls -> CallRecord]
           /\ call'[c].step = step
           /\ call'[c].user = call[c].user /\ call'[c].credential = call[c].credential
           /\ call'[c].challenge = call[c].challenge /\ call'[c].counter = call[c].counter
           /\ \A d \in Calls \ {c} : call'[d] = call[d]
<1>1. PICK rec \in CallRecord : rec = call[c]
  BY DEF TypeOK
<1>2. PICK new : new = [rec EXCEPT !.step = step]
  OBVIOUS
<1>3. /\ new \in CallRecord /\ new.step = step /\ new.user = rec.user
      /\ new.credential = rec.credential /\ new.challenge = rec.challenge
      /\ new.counter = rec.counter
  BY <1>2 DEF CallRecord
<1>4. Goto(c, new)
  BY <1>1, <1>2 DEF Goto
<1>5. QED
  BY <1>1, <1>3, <1>4, GotoTyped DEF TypeOK

\* A call that ends, or goes on without verifying, leaves fewer to speak of.
LEMMA EndingKeeps ==
    ASSUME PasskeyInv, NEW c \in Calls,
           call' \in [Calls -> CallRecord], ~Verifying(c)',
           \A d \in Calls \ {c} : call'[d] = call[d],
           UNCHANGED <<users, currentChallenge, passkey, offered, signed, history>>
    PROVE  PasskeyInv'
<1> USE DEF PasskeyInv, history
<1>1. TypeOK'
  BY DEF TypeOK
<1>2. /\ OriginsFit' /\ RacesKnown' /\ SpentIsSpent' /\ LateEndsKnown'
      /\ CountersAhead' /\ ChallengeServesOnce' /\ LatestChallengeStands'
  BY DEF OriginsFit, Drawn, OfferedTo, RacesKnown, SpentIsSpent, LateEndsKnown,
         CountersAhead, ChallengeServesOnce, LatestChallengeStands, Verifying
<1>3. RemovedIsGone'
  BY DEF RemovedIsGone, Registrable, Verifying
<1>4. QED
  BY <1>1, <1>2, <1>3

\* A passkey is created with a counter nobody can be under: a registration gives 0.
LEMMA RegistrationCreateKeeps ==
    ASSUME PasskeyInv, NEW c \in Calls, RegistrationCreate(c)
    PROVE  PasskeyInv'
<1> USE DEF PasskeyInv
<1>1. PICK k \in Credentials : k = call[c].credential /\ call[c].user \in Users
  BY DEF RegistrationCreate, TypeOK, CallRecord, OriginsFit, Verifying, Response
<1>2. /\ call[c].step = "createPasskey" /\ passkey[k] = NoRow /\ call[c].counter = 0
      /\ UNCHANGED <<users, currentChallenge, offered, signed, history>>
      /\ \E r \in signed : r.credential = k
  BY <1>1 DEF RegistrationCreate, OriginsFit, Verifying
<1>3. PICK row \in Row : /\ row.user = call[c].user /\ row.counter = 0
                         /\ passkey' = [passkey EXCEPT ![k] = row]
  <2>1. [user |-> call[c].user, counter |-> call[c].counter] \in Row
    BY <1>1, <1>2, PasskeyAssumption DEF Row
  <2>2. QED
    BY <1>1, <1>2, <2>1 DEF RegistrationCreate
<1>4. /\ call' \in [Calls -> CallRecord] /\ call'[c].step = "clearChallenge"
      /\ call'[c].user = call[c].user /\ call'[c].credential = call[c].credential
      /\ call'[c].challenge = call[c].challenge /\ call'[c].counter = call[c].counter
      /\ \A d \in Calls \ {c} : call'[d] = call[d]
  BY StepMoves DEF RegistrationCreate, Step
<1>5. TypeOK'
  BY <1>2, <1>3, <1>4 DEF TypeOK, history
<1>6. OriginsFit'
  BY <1>2, <1>3, <1>4 DEF OriginsFit, Drawn, OfferedTo, Verifying, TypeOK, history
<1>7. /\ RacesKnown' /\ SpentIsSpent' /\ LateEndsKnown'
      /\ ChallengeServesOnce' /\ LatestChallengeStands'
  BY <1>2, <1>4 DEF RacesKnown, SpentIsSpent, LateEndsKnown, ChallengeServesOnce,
         LatestChallengeStands, Verifying, history
<1>8. CountersAhead'
  BY <1>2, <1>3, <1>4 DEF CountersAhead, TypeOK, CallRecord, history
<1>9. RemovedIsGone'
  <2>1. k \notin removed
    BY <1>1, <1>2 DEF RemovedIsGone, Registrable
  <2>2. QED
    BY <1>2, <1>3, <1>4, <2>1 DEF RemovedIsGone, Registrable, TypeOK, history
<1>10. QED
  BY <1>5, <1>6, <1>7, <1>8, <1>9

\* The counter is written; who else is about to write it has raced.
LEMMA CounterKeeps ==
    ASSUME PasskeyInv, NEW c \in Calls, AuthenticationCounter(c)
    PROVE  PasskeyInv'
<1> USE DEF PasskeyInv
<1>1. PICK k \in Credentials : k = call[c].credential
  BY DEF AuthenticationCounter, TypeOK, CallRecord, OriginsFit, Verifying, Response
<1>2. /\ call[c].step = "updateCounter" /\ passkey[k] # NoRow
      /\ UNCHANGED <<users, currentChallenge, offered, signed, history>>
  BY <1>1 DEF AuthenticationCounter
<1>3. PICK row \in Row : /\ row.counter = call[c].counter
                         /\ passkey' = [passkey EXCEPT ![k] = row]
  <2>1. PICK old \in Row, n \in 0..MaxCounter : old = passkey[k] /\ n = call[c].counter
    BY <1>1 DEF TypeOK, CallRecord
  <2>2. PICK row : row = [old EXCEPT !.counter = n]
    OBVIOUS
  <2>3. row \in Row /\ row.counter = n
    BY <2>2 DEF Row
  <2>4. passkey' = [passkey EXCEPT ![k] = row]
    BY <1>1, <2>1, <2>2 DEF AuthenticationCounter
  <2>5. QED
    BY <2>1, <2>3, <2>4
<1>4. /\ call' \in [Calls -> CallRecord] /\ call'[c].step = "clearChallenge"
      /\ call'[c].user = call[c].user /\ call'[c].credential = call[c].credential
      /\ call'[c].challenge = call[c].challenge /\ call'[c].counter = call[c].counter
      /\ \A d \in Calls \ {c} : call'[d] = call[d]
  BY StepMoves DEF AuthenticationCounter, Step
<1>5. TypeOK'
  BY <1>2, <1>3, <1>4 DEF TypeOK, history
<1>6. OriginsFit'
  BY <1>2, <1>3, <1>4 DEF OriginsFit, Drawn, OfferedTo, Verifying, TypeOK, history
<1>7. /\ RacesKnown' /\ SpentIsSpent' /\ LateEndsKnown'
      /\ ChallengeServesOnce' /\ LatestChallengeStands'
  BY <1>2, <1>4 DEF RacesKnown, SpentIsSpent, LateEndsKnown, ChallengeServesOnce,
         LatestChallengeStands, Verifying, history
<1>8. CountersAhead'
  <2>1. ASSUME NEW d \in Calls \ {c}, call[d].step = "updateCounter",
               call[d].credential = k
        PROVE  k \in raced
    BY <1>1, <1>2, <2>1 DEF RacesKnown, Verifying
  <2>2. QED
    BY <1>1, <1>2, <1>3, <1>4, <2>1 DEF CountersAhead, TypeOK, history
<1>9. RemovedIsGone'
  BY <1>2, <1>3, <1>4 DEF RemovedIsGone, Registrable, TypeOK, history
<1>10. QED
  BY <1>5, <1>6, <1>7, <1>8, <1>9

\* The end of a verification: its challenge is spent.  Who still verifies it raced,
\* and if it clears another one, that one was crossed.
LEMMA ClearKeeps ==
    ASSUME PasskeyInv, NEW c \in Calls, ClearChallenge(c)
    PROVE  PasskeyInv'
<1> USE DEF PasskeyInv
<1>1. PICK u \in Users, x \in Challenges :
          u = call[c].user /\ x = call[c].challenge /\ OfferedTo(u, x)
  BY DEF ClearChallenge, TypeOK, OriginsFit, Verifying, OfferedTo, Offer
<1>2. /\ call[c].step = "clearChallenge"
      /\ currentChallenge' = [currentChallenge EXCEPT ![u] = None]
      /\ spent' = [spent EXCEPT ![x] = @ + 1]
      /\ UNCHANGED <<users, passkey, offered, signed, latest, raced, crossed, removed>>
  BY <1>1 DEF ClearChallenge
<1>3. /\ spent' \in [Challenges -> Nat] /\ spent'[x] = spent[x] + 1
      /\ \A y \in Challenges \ {x} : spent'[y] = spent[y]
      /\ currentChallenge' \in [Users -> Challenges \cup {None}]
  BY <1>2 DEF TypeOK
<1>4. /\ call' \in [Calls -> CallRecord] /\ ~Verifying(c)'
      /\ \A d \in Calls \ {c} : call'[d] = call[d]
  <2>1. CASE Finish(c)
    BY <2>1, IdleIsCall, GotoTyped DEF Finish, TypeOK, Verifying, Idle
  <2>2. CASE Goto(c, [call[c] EXCEPT !.step = "login"])
    BY <2>2, StepMoves DEF Step, Verifying
  <2>3. QED
    BY <2>1, <2>2 DEF ClearChallenge
<1>5. TypeOK'
  BY <1>2, <1>3, <1>4 DEF TypeOK
<1>6. OriginsFit'
  BY <1>1, <1>2, <1>3, <1>4 DEF OriginsFit, Drawn, OfferedTo, Verifying, TypeOK
<1>7. RacesKnown' /\ CountersAhead' /\ LateEndsKnown'
  BY <1>2, <1>4 DEF RacesKnown, CountersAhead, LateEndsKnown, Verifying
<1>8. \A d \in Calls \ {c} : Verifying(d) /\ call[d].challenge = x => x \in raced
  BY <1>1, <1>2 DEF RacesKnown, Verifying
<1>9. SpentIsSpent'
  <2>1. \A v \in Users : currentChallenge'[v] # x
    <3>1. ASSUME NEW v \in Users, currentChallenge[v] = x PROVE v = u
      BY <1>1, <3>1, PasskeyAssumption DEF OriginsFit, OfferedTo
    <3>2. QED
      BY <1>2, <3>1, PasskeyAssumption DEF TypeOK
  <2>2. \A y \in Challenges \ {x}, v \in Users :
            currentChallenge'[v] = y => currentChallenge[v] = y
    BY <1>2, PasskeyAssumption DEF TypeOK
  <2>3. QED
    BY <1>2, <1>3, <1>4, <1>8, <2>1, <2>2 DEF SpentIsSpent, Verifying
<1>10. ChallengeServesOnce'
  <2>1. spent[x] > 0 => x \in raced
    BY <1>1, <1>2 DEF SpentIsSpent, Verifying
  <2>2. QED
    BY <1>2, <1>3, <2>1 DEF ChallengeServesOnce, TypeOK
<1>11. LatestChallengeStands'
  <2>1. latest[u] # x => latest[u] \in crossed
    BY <1>1, <1>2 DEF LateEndsKnown, Verifying
  <2>2. spent'[x] > 0
    BY <1>3 DEF TypeOK
  <2>3. ASSUME NEW v \in Users, latest[v] # None, spent[latest[v]] > 0
        PROVE  spent'[latest[v]] > 0
    BY <1>3, <2>3 DEF TypeOK
  <2>4. QED
    BY <1>2, <2>1, <2>2, <2>3 DEF LatestChallengeStands, TypeOK
<1>12. RemovedIsGone'
  BY <1>2, <1>3, <1>4, PasskeyAssumption DEF RemovedIsGone, Registrable, TypeOK, Response, Verifying
<1>13. QED
  BY <1>5, <1>6, <1>7, <1>9, <1>10, <1>11, <1>12

\* Removing a passkey, or an account with its passkeys, adds nothing; what is
\* marked removed can no longer be registered.
LEMMA RemovalKeeps ==
    ASSUME PasskeyInv, (\E k \in Credentials : DeletePasskey(k)) \/ (\E u \in Users : DeleteUser(u))
    PROVE  PasskeyInv'
<1> USE DEF PasskeyInv
<1>1. /\ users' \subseteq users
      /\ passkey' \in [Credentials -> Row]
      /\ \A k \in Credentials : passkey'[k] \in {passkey[k], NoRow}
      /\ removed \subseteq removed' /\ removed' \subseteq Credentials
      /\ \A k \in removed' \ removed :
             /\ passkey[k] # NoRow /\ passkey'[k] = NoRow
             /\ ~Registrable(k)
      /\ UNCHANGED <<currentChallenge, offered, signed, call, latest, spent, raced, crossed>>
  <2>1. CASE \E k \in Credentials : DeletePasskey(k)
    BY <2>1, IdleIsCall DEF DeletePasskey, TypeOK
  <2>2. CASE \E u \in Users : DeleteUser(u)
    BY <2>2, IdleIsCall DEF DeleteUser, TypeOK, history
  <2>3. QED
    BY <2>1, <2>2
<1>2. TypeOK'
  BY <1>1 DEF TypeOK
<1>3. OriginsFit'
  BY <1>1 DEF OriginsFit, Drawn, OfferedTo, Verifying
<1>4. /\ RacesKnown' /\ SpentIsSpent' /\ LateEndsKnown'
      /\ ChallengeServesOnce' /\ LatestChallengeStands'
  BY <1>1 DEF RacesKnown, SpentIsSpent, LateEndsKnown, ChallengeServesOnce,
              LatestChallengeStands, Verifying
<1>5. CountersAhead'
  <2>1. ASSUME NEW c \in Calls, call[c].step = "updateCounter"
        PROVE  call[c].credential \in Credentials /\ call[c].counter \in Nat
    BY <2>1, PasskeyAssumption DEF OriginsFit, Verifying, TypeOK, Response, CallRecord
  <2>2. NoRow.counter = 0
    BY DEF NoRow
  <2>3. QED
    BY <1>1, <2>1, <2>2 DEF CountersAhead
<1>6. RemovedIsGone'
  <2>1. \A k : Registrable(k)' => Registrable(k)
    BY <1>1 DEF Registrable
  <2>2. QED
    BY <1>1, <2>1 DEF RemovedIsGone, TypeOK
<1>7. QED
  BY <1>2, <1>3, <1>4, <1>5, <1>6

\* No step breaks the invariant.
LEMMA PasskeyStep == PasskeyInv /\ [Next]_vars => PasskeyInv'
<1> SUFFICES ASSUME PasskeyInv, [Next]_vars PROVE PasskeyInv'
  OBVIOUS
<1>1. CASE UNCHANGED vars
  BY <1>1 DEF vars, PasskeyInv, TypeOK, OriginsFit, RacesKnown, SpentIsSpent,
         ChallengeServesOnce, LateEndsKnown, LatestChallengeStands, CountersAhead,
         RemovedIsGone, Registrable, Verifying, OfferedTo, Drawn
<1>2. ASSUME NEW u \in Users, NEW x \in Challenges,
             GenerateRegistrationOptions(u, x) \/ GenerateAuthenticationOptions(u, x)
      PROVE  PasskeyInv'
  BY <1>2, StoreKeeps DEF GenerateRegistrationOptions, GenerateAuthenticationOptions, Ceremony
<1>3. ASSUME NEW c \in Calls, LoginById(c) \/ CallDies(c)
      PROVE  PasskeyInv'
  <2>1. /\ call' \in [Calls -> CallRecord] /\ ~Verifying(c)'
        /\ \A d \in Calls \ {c} : call'[d] = call[d]
    BY <1>3, IdleIsCall, GotoTyped
       DEF LoginById, CallDies, Finish, PasskeyInv, TypeOK, Verifying, Idle
  <2>2. QED
    BY <1>3, <2>1, EndingKeeps DEF LoginById, CallDies
<1>4. QED
  BY <1>1, <1>2, <1>3, AuthenticatorsKeep, BeginKeeps, RegistrationCreateKeeps,
     CounterKeeps, ClearKeeps, RemovalKeeps DEF Next

\* What the ceremonies keep between them.
THEOREM PasskeyInvariant == Spec => []PasskeyInv
<1>1. QED
  BY PasskeysInit, PasskeyStep, PTL DEF Spec

\* Every reachable state is well typed.
THEOREM PasskeyTypes == Spec => []TypeOK
<1>1. PasskeyInv => TypeOK
  BY DEF PasskeyInv
<1>2. QED
  BY <1>1, PasskeyInvariant, PTL

\* A challenge serves one ceremony, but for verifications that overlapped.
THEOREM ChallengesServeOnce == Spec => []ChallengeServesOnce
<1>1. PasskeyInv => ChallengeServesOnce
  BY DEF PasskeyInv
<1>2. QED
  BY <1>1, PasskeyInvariant, PTL

\* The challenge offered last stands until it was used, but for ceremonies that it
\* crossed.
THEOREM LatestChallengesStand == Spec => []LatestChallengeStands
<1>1. PasskeyInv => LatestChallengeStands
  BY DEF PasskeyInv
<1>2. QED
  BY <1>1, PasskeyInvariant, PTL

\* Only a sign-in writes a counter over another, and without a race it was
\* compared with no greater one.
LEMMA CounterStep ==
    ASSUME PasskeyInv, [Next]_vars, NEW k \in Credentials,
           NoRow \notin {passkey[k], passkey'[k]}, passkey'[k].counter < passkey[k].counter
    PROVE  k \in raced
<1> USE DEF PasskeyInv
<1>1. PICK old \in Row : old = passkey[k] /\ old.counter \in Nat
  BY PasskeyAssumption DEF TypeOK, Row
<1>2. passkey'[k] # passkey[k]
  <2>1. ~(old.counter < old.counter)
    BY <1>1
  <2>2. QED
    BY <1>1, <2>1
<1>3. PICK c \in Calls : AuthenticationCounter(c)
  <2>1. ASSUME NEW c \in Calls, RegistrationCreate(c) PROVE FALSE
    BY <1>2, <2>1 DEF RegistrationCreate, TypeOK
  <2>2. ASSUME NEW u \in Users, DeleteUser(u) PROVE FALSE
    BY <1>2, <2>2 DEF DeleteUser
  <2>3. ASSUME NEW j \in Credentials, DeletePasskey(j) PROVE FALSE
    BY <1>2, <2>3 DEF DeletePasskey, TypeOK
  <2>4. QED
    BY <1>2, <2>1, <2>2, <2>3
       DEF Next, vars, history, GenerateRegistrationOptions, GenerateAuthenticationOptions,
           Store, CreateCredential, Sign, RegistrationFind, AuthenticationFind,
           ClearChallenge, LoginById, CallDies
<1>4. PICK n \in 0..MaxCounter : n = call[c].counter
  BY DEF TypeOK, CallRecord
<1>5. k = call[c].credential /\ passkey'[k].counter = n
  <2>1. passkey' = [passkey EXCEPT ![call[c].credential] =
                        [passkey[call[c].credential] EXCEPT !.counter = n]]
    BY <1>3, <1>4 DEF AuthenticationCounter
  <2>2. k = call[c].credential
    BY <1>2, <2>1 DEF TypeOK
  <2>3. passkey'[k] = [old EXCEPT !.counter = n]
    BY <1>1, <2>1, <2>2 DEF TypeOK
  <2>4. QED
    BY <2>2, <2>3 DEF Row
<1>6. k \notin raced => old.counter <= n
  BY <1>1, <1>3, <1>4, <1>5 DEF CountersAhead, AuthenticationCounter
<1>7. n < old.counter /\ n \in Nat
  BY <1>1, <1>5, PasskeyAssumption
<1>8. QED
  BY <1>1, <1>6, <1>7

\* A counter goes back by a race only.
THEOREM CountersGrow == Spec => CounterGoesBackByRaceOnly
<1>1. PasskeyInv /\ [Next]_vars =>
          [\A k \in Credentials :
               NoRow \notin {passkey[k], passkey'[k]}
                   /\ passkey'[k].counter < passkey[k].counter => k \in raced]_vars
  BY CounterStep
<1>2. QED
  BY <1>1, PasskeyInvariant, PTL DEF Spec, CounterGoesBackByRaceOnly

\* A passkey marked removed has no row to write and nothing to make one from.
LEMMA RemovedStep ==
    ASSUME PasskeyInv, [Next]_vars, NEW k \in removed
    PROVE  /\ passkey'[k] = NoRow
           /\ \A c \in Calls :
                  call[c].step = "updateCounter" /\ call[c].credential = k =>
                      call'[c].step \in {"idle", "updateCounter"}
<1> USE DEF PasskeyInv
<1>1. k \in removed'
  BY DEF Next, vars, history, GenerateRegistrationOptions, GenerateAuthenticationOptions,
         Store, CreateCredential, Sign, RegistrationFind, AuthenticationFind,
         RegistrationCreate, AuthenticationCounter,
         ClearChallenge, LoginById, CallDies, DeletePasskey, DeleteUser
<1>2. passkey'[k] = NoRow
  BY <1>1, PasskeyStep DEF RemovedIsGone
<1>3. ASSUME NEW c \in Calls, call[c].step = "updateCounter", call[c].credential = k
      PROVE  call'[c].step \in {"idle", "updateCounter"}
  <2>1. passkey[k] = NoRow
    BY DEF RemovedIsGone
  <2>2. ASSUME NEW d \in Calls, NEW rec, d # c, Goto(d, rec) PROVE call'[c] = call[c]
    BY <2>2 DEF Goto, TypeOK
  <2>3. ASSUME Finish(c) PROVE call'[c].step = "idle"
    BY <2>3 DEF Finish, Goto, Idle, TypeOK
  <2>4. CASE UNCHANGED call
    BY <1>3, <2>4
  <2>5. ASSUME NEW d \in Calls, NEW u \in Users, NEW r \in signed,
               RegistrationFind(d, u, r) \/ AuthenticationFind(d, u, r)
        PROVE  call'[c] = call[c]
    BY <1>3, <2>2, <2>5 DEF RegistrationFind, AuthenticationFind, Begin, InFlight
  <2>6. ASSUME NEW d \in Calls, RegistrationCreate(d) \/ AuthenticationCounter(d)
        PROVE  call'[c] = call[c]
    BY <1>3, <2>1, <2>2, <2>6 DEF RegistrationCreate, AuthenticationCounter
  <2>7. ASSUME NEW d \in Calls, ClearChallenge(d) \/ LoginById(d)
        PROVE  call'[c] = call[c]
    BY <1>3, <2>2, <2>7 DEF ClearChallenge, LoginById, Finish
  <2>8. ASSUME NEW d \in Calls, CallDies(d)
        PROVE  call'[c] = call[c] \/ call'[c].step = "idle"
    BY <2>2, <2>3, <2>8 DEF CallDies, Finish
  <2>9. QED
    BY <1>3, <2>4, <2>5, <2>6, <2>7, <2>8
       DEF Next, vars, GenerateRegistrationOptions, GenerateAuthenticationOptions,
           Store, CreateCredential, Sign, DeletePasskey, DeleteUser
<1>4. QED
  BY <1>2, <1>3

\* A removed passkey is out, for verifications that had found it as well.
THEOREM RemovedPasskeysStayOut == Spec => RemovedPasskeyIsOut
<1>1. PasskeyInv /\ [Next]_vars =>
          [\A k \in removed :
               /\ passkey'[k] = NoRow
               /\ \A c \in Calls :
                      call[c].step = "updateCounter" /\ call[c].credential = k =>
                          call'[c].step \in {"idle", "updateCounter"}]_vars
  BY RemovedStep
<1>2. QED
  BY <1>1, PasskeyInvariant, PTL DEF Spec, RemovedPasskeyIsOut

=============================================================================
