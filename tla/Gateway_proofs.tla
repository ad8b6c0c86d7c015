--------------------------- MODULE Gateway_proofs ---------------------------
(***************************************************************************)
(* Conversations, messages and their announcements, for any number of      *)
(* users, conversations, messages and calls; and, from Presence on, who    *)
(* the gateway that delivers them shows as online, for any number of       *)
(* sockets.  A behaviour of the gateway is one of each (GatewayIsBoth), so *)
(* that what is shown of either holds of it.                               *)
(***************************************************************************)
EXTENDS Gateway, TLAPS

\* Whatever the gateway does is done by the chat or by the sockets, and the
\* other stays as it is.
THEOREM GatewayIsBoth == GatewaySpec => Spec /\ PresenceSpec
<1>1. GatewayInit => Init /\ PresenceInit
  BY DEF GatewayInit
<1>2. [GatewayNext]_gatewayVars => [Next]_vars /\ [PresenceNext]_presenceVars
  BY DEF GatewayNext, gatewayVars
<1>3. QED
  BY <1>1, <1>2, PTL DEF GatewaySpec, Spec, PresenceSpec

\* At first there are no rows and no calls.
LEMMA ChatInit == Init => ChatInv
<1> SUFFICES ASSUME Init PROVE ChatInv
  OBVIOUS
<1>1. Idle \in CallRecord /\ Idle.step = "idle"
  BY DEF Idle, CallRecord, Step
<1>2. \A c \in Calls : call[c] = Idle
  BY DEF Init
<1>3. TypeOK
  BY <1>1 DEF Init, TypeOK, ConversationRow, MessageRow, Status
<1>4. \A c \in Calls : call[c].step = "idle"
  BY <1>1, <1>2
<1>5. CallsFit /\ NoneFoundYet
  BY <1>4 DEF CallsFit, CallFits, LookFits, FoundFits, AddressFits, EmitFits, DeleteFits,
              NoneFoundYet, LookStands
<1>6. /\ ConversationsFit /\ UnsentFit /\ MessagesFit /\ ToldFits
      /\ DuplicateOnlyByRace /\ GoneWasAnnounced
  BY DEF Init, ConversationsFit, Used, UnsentFit, MessagesFit, ToldFits, DuplicateOnlyByRace,
         Live,
         GoneWasAnnounced
<1>7. QED
  BY <1>3, <1>5, <1>6 DEF ChatInv

----------------------------------------------------------------------------
(* What no step undoes.                                                    *)
(***************************************************************************)
ConversationsLast ==
    \A k \in Conversations : Used(k) =>
        /\ conversation'[k].status # "unused"
        /\ conversation'[k].isGroup = conversation[k].isGroup
        /\ conversation'[k].participants = conversation[k].participants
MessagesLast ==
    \A m \in Messages : message[m].status # "unused" =>
        /\ message'[m].status # "unused"
        /\ message'[m].conversation = message[m].conversation
        /\ message'[m].sender = message[m].sender
        /\ message'[m].recipient = message[m].recipient

\* What a call knows remains true while it waits.
LEMMA WaitingCallFits ==
    ASSUME ChatInv, ConversationsLast, MessagesLast, told \subseteq told',
           NEW c \in Calls, call'[c] = call[c]
    PROVE  CallFits(c)'
<1>1. CallFits(c)
  BY DEF ChatInv, CallsFit
<1>2. LookFits(c)'
  BY <1>1 DEF CallFits, LookFits
<1>3. FoundFits(c)'
  BY <1>1 DEF CallFits, FoundFits, ConversationsLast, Used
<1>4. AddressFits(c)'
  BY <1>1 DEF CallFits, AddressFits, FoundFits, ConversationsLast, Used, IsBetween
<1>5. EmitFits(c)'
  BY <1>1 DEF CallFits, EmitFits, MessagesLast
<1>6. DeleteFits(c)'
  BY <1>1 DEF CallFits, DeleteFits, FoundFits, ConversationsLast, Used, ToldOf
<1>7. QED
  BY <1>2, <1>3, <1>4, <1>5, <1>6 DEF CallFits

\* A slot that falls idle claims nothing.
LEMMA IdleFits ==
    ASSUME NEW c \in Calls, call'[c] = Idle
    PROVE  CallFits(c)' /\ LookStands(c)'
<1>1. call'[c].step = "idle"
  BY DEF Idle
<1>2. QED
  BY <1>1 DEF CallFits, LookFits, FoundFits, AddressFits, EmitFits, DeleteFits, LookStands

\* A call that moves on leaves the others as they were.
LEMMA GotoMoves ==
    ASSUME TypeOK, NEW c \in Calls, NEW rec \in CallRecord, Goto(c, rec)
    PROVE  /\ call' \in [Calls -> CallRecord] /\ call'[c] = rec
           /\ \A d \in Calls \ {c} : call'[d] = call[d]
BY DEF TypeOK, Goto

\* An empty slot is a call.
LEMMA IdleIsCall == Idle \in CallRecord
BY DEF Idle, CallRecord, Step

\* A step that changes one call and nothing else.
LEMMA CallAlone ==
    ASSUME ChatInv, NEW c \in Calls, NEW rec \in CallRecord, Goto(c, rec),
           UNCHANGED <<conversation, message, told, raced>>,
           CallFits(c)', LookStands(c)'
    PROVE  ChatInv'
<1>1. /\ call' \in [Calls -> CallRecord]
      /\ \A d \in Calls \ {c} : call'[d] = call[d]
  BY GotoMoves DEF ChatInv
<1>2. TypeOK'
  BY <1>1 DEF ChatInv, TypeOK
<1>3. ConversationsLast /\ MessagesLast /\ told \subseteq told'
  BY DEF ConversationsLast, MessagesLast, Used
<1>4. CallsFit'
  BY <1>1, <1>3, WaitingCallFits DEF CallsFit
<1>5. \A d \in Calls \ {c} : LookStands(d)'
  BY <1>1 DEF ChatInv, NoneFoundYet, LookStands, NoneMade, Live
<1>6. NoneFoundYet'
  BY <1>5 DEF NoneFoundYet
<1>7. /\ ConversationsFit' /\ UnsentFit' /\ MessagesFit' /\ ToldFits'
      /\ DuplicateOnlyByRace' /\ GoneWasAnnounced'
  BY DEF ChatInv, ConversationsFit, Used, UnsentFit, MessagesFit, ToldFits, DuplicateOnlyByRace,
         Live,
         GoneWasAnnounced, IsBetween
<1>8. QED
  BY <1>2, <1>4, <1>6, <1>7 DEF ChatInv

\* A call that ends without another statement.
LEMMA CallDiesKeeps ==
    ASSUME ChatInv, NEW c \in Calls, CallDies(c)
    PROVE  ChatInv'
<1>1. Goto(c, Idle) /\ UNCHANGED <<conversation, message, told, raced>>
  BY DEF CallDies, Finish
<1>2. call'[c] = Idle
  BY <1>1, IdleIsCall, GotoMoves DEF ChatInv
<1>3. QED
  BY <1>1, <1>2, IdleFits, IdleIsCall, CallAlone

----------------------------------------------------------------------------
(* Looking.                                                                *)
(***************************************************************************)
\* A pair for which nothing was found has no conversation.
LEMMA NothingFound ==
    ASSUME NEW u \in Users, NEW v \in Users, Direct(u, v) = {}
    PROVE  NoneMade({u, v})
BY DEF Direct, NoneMade

\* A call that found nothing is to create the conversation.
LEMMA MissKeeps ==
    ASSUME ChatInv, NEW c \in Calls, NEW u \in Users, NEW v \in Users, NEW rec \in CallRecord,
           Direct(u, v) = {}, UNCHANGED <<conversation, message, told, raced>>,
           rec.step = "createDirect", rec.user = u, rec.peer = v, Goto(c, rec)
    PROVE  ChatInv'
<1>1. call'[c] = rec
  BY GotoMoves DEF ChatInv
<1>2. CallFits(c)'
  BY <1>1 DEF CallFits, LookFits, FoundFits, AddressFits, EmitFits, DeleteFits
<1>3. LookStands(c)'
  BY <1>1, NothingFound DEF LookStands, NoneMade, Live
<1>4. QED
  BY <1>2, <1>3, CallAlone

\* A conversation with a user is looked up, and there is none.
LEMMA CreateGroupFindKeeps ==
    ASSUME ChatInv, NEW c \in Calls, NEW u \in Users, NEW v \in Users, CreateGroupFind(c, u, v)
    PROVE  ChatInv'
<1> DEFINE rec == [Idle EXCEPT !.step = "createDirect", !.user = u, !.peer = v]
<1>1. rec \in CallRecord /\ rec.step = "createDirect" /\ rec.user = u /\ rec.peer = v
  BY DEF Idle, CallRecord, Step
<1>2. QED
  BY <1>1, MissKeeps DEF CreateGroupFind

\* A call that found a live conversation is to write into it or to announce its end.
LEMMA FoundKeeps ==
    ASSUME ChatInv, NEW c \in Calls, NEW u \in Users, NEW v \in Users \cup {None},
           NEW k \in Conversations, NEW rec \in CallRecord,
           Live(k), v \notin {None, u} => k \in Direct(u, v),
           UNCHANGED <<conversation, message, told, raced>>,
           rec.step \in {"message", "announce"}, rec.user = u, rec.peer = v,
           rec.conversation = k, Goto(c, rec)
    PROVE  ChatInv'
<1>1. call'[c] = rec
  BY GotoMoves DEF ChatInv
<1>2. Used(k)
  BY DEF Live, Used
<1>3. ASSUME v \notin {None, u}
      PROVE  IsBetween(k, u, v)
  <2>1. conversation[k].isGroup = "no" /\ u \in conversation[k].participants
        /\ v \in conversation[k].participants
    BY <1>3 DEF Direct
  <2>2. PICK a \in Users, b \in Users : a # b /\ conversation[k].participants = {a, b}
    BY <1>2, <2>1 DEF ChatInv, ConversationsFit
  <2>3. QED
    BY <1>3, <2>1, <2>2 DEF IsBetween
<1>4. CallFits(c)'
  BY <1>1, <1>2, <1>3
     DEF CallFits, LookFits, FoundFits, AddressFits, EmitFits, DeleteFits, Used, IsBetween
<1>5. LookStands(c)'
  BY <1>1 DEF LookStands
<1>6. QED
  BY <1>4, <1>5, CallAlone

\* A message begins in a conversation of its author.
LEMMA SendFindKeeps ==
    ASSUME ChatInv, NEW c \in Calls, NEW u \in Users, NEW k \in Conversations, SendFind(c, u, k)
    PROVE  ChatInv'
<1> DEFINE rec == [Idle EXCEPT !.step = "message", !.user = u, !.conversation = k]
<1>1. /\ rec \in CallRecord
      /\ rec.step = "message" /\ rec.user = u /\ rec.peer = None /\ rec.conversation = k
  BY DEF Idle, CallRecord, Step
<1>2. QED
  BY <1>1, FoundKeeps DEF SendFind

\* A deletion begins in a conversation of the user.
LEMMA DeleteFindKeeps ==
    ASSUME ChatInv, NEW c \in Calls, NEW u \in Users, NEW k \in Conversations, DeleteFind(c, u, k)
    PROVE  ChatInv'
<1> DEFINE rec == [Idle EXCEPT !.step = "announce", !.user = u, !.conversation = k]
<1>1. /\ rec \in CallRecord
      /\ rec.step = "announce" /\ rec.user = u /\ rec.peer = None /\ rec.conversation = k
  BY DEF Idle, CallRecord, Step
<1>2. QED
  BY <1>1, FoundKeeps DEF DeleteFind

\* A message to a user begins with the conversations of the two looked up.
LEMMA SendFindDirectKeeps ==
    ASSUME ChatInv, NEW c \in Calls, NEW u \in Users, NEW v \in Users, SendFindDirect(c, u, v)
    PROVE  ChatInv'
<1> UNCHANGED <<conversation, message, told, raced>>
  BY DEF SendFindDirect
<1> DEFINE missed == [Idle EXCEPT !.step = "createDirect", !.user = u, !.peer = v,
                                  !.sends = "yes"]
           found(k) == [Idle EXCEPT !.step = "message", !.user = u, !.peer = v,
                                    !.conversation = k]
<1>1. CASE Direct(u, v) = {} /\ Goto(c, missed)
  <2>1. /\ missed \in CallRecord
        /\ missed.step = "createDirect" /\ missed.user = u /\ missed.peer = v
    BY DEF Idle, CallRecord, Step
  <2>2. QED
    BY <1>1, <2>1, MissKeeps
<1>2. ASSUME NEW k \in Direct(u, v), Goto(c, found(k))
      PROVE  ChatInv'
  <2>1. k \in Conversations /\ Live(k)
    BY DEF Direct
  <2>2. /\ found(k) \in CallRecord /\ found(k).step = "message" /\ found(k).user = u
        /\ found(k).peer = v /\ found(k).conversation = k
    BY <2>1 DEF Idle, CallRecord, Step
  <2>3. QED
    BY <1>2, <2>1, <2>2, FoundKeeps
<1>3. QED
  BY <1>1, <1>2 DEF SendFindDirect

----------------------------------------------------------------------------
(* New conversations.                                                      *)
(***************************************************************************)
\* A row is inserted and nothing was emitted or written into it yet.
LEMMA InsertFits ==
    ASSUME ChatInv, NEW k \in Conversations, NEW group \in {"no", "yes"},
           NEW members \in SUBSET Users, Insert(k, group, members), UNCHANGED <<message, told>>,
           group = "no" => \E u, v \in Users : u # v /\ members = {u, v}
    PROVE  /\ conversation' \in [Conversations -> ConversationRow]
           /\ ConversationsLast /\ MessagesLast
           /\ ConversationsFit' /\ UnsentFit' /\ MessagesFit' /\ ToldFits' /\ GoneWasAnnounced'
           /\ \A j \in Conversations \ {k} : conversation'[j] = conversation[j]
           /\ conversation'[k].status = "live" /\ conversation'[k].isGroup = group
           /\ conversation'[k].participants = members
           /\ conversation[k].status = "unused"
<1>1. /\ conversation[k].status = "unused"
      /\ conversation' = [conversation EXCEPT ![k] =
             [status |-> "live", isGroup |-> group, participants |-> members]]
      /\ conversation \in [Conversations -> ConversationRow]
  BY DEF Insert, ChatInv, TypeOK
<1>2. /\ \A j \in Conversations \ {k} : conversation'[j] = conversation[j]
      /\ conversation'[k].status = "live" /\ conversation'[k].isGroup = group
      /\ conversation'[k].participants = members
  BY <1>1
<1>3. conversation' \in [Conversations -> ConversationRow]
  BY <1>1 DEF ConversationRow, Status
<1>4. ConversationsLast /\ MessagesLast
  BY <1>1, <1>2 DEF ConversationsLast, MessagesLast, Used
<1>5. ConversationsFit'
  BY <1>2 DEF ChatInv, ConversationsFit, Used
<1>6. MessagesFit'
  BY <1>4 DEF ChatInv, MessagesFit, ConversationsLast, Used, IsBetween
<1>7. ToldFits'
  BY <1>4 DEF ChatInv, MessagesFit, ToldFits, ConversationsLast
<1>8. GoneWasAnnounced'
  BY <1>2 DEF ChatInv, GoneWasAnnounced
<1>9. UnsentFit'
  BY DEF ChatInv, UnsentFit
<1>10. QED
  BY <1>1, <1>2, <1>3, <1>4, <1>5, <1>6, <1>7, <1>8, <1>9

\* A group is no direct conversation.
LEMMA CreateGroupKeeps ==
    ASSUME ChatInv, NEW u \in Users, NEW others \in SUBSET Users, CreateGroup(u, others)
    PROVE  ChatInv'
<1>1. PICK k \in Conversations : Insert(k, "yes", (others \ {u}) \cup {u})
  BY DEF CreateGroup
<1>2. UNCHANGED <<message, told, call, raced>>
  BY DEF CreateGroup
<1>3. /\ conversation' \in [Conversations -> ConversationRow]
      /\ ConversationsLast /\ MessagesLast
      /\ ConversationsFit' /\ UnsentFit' /\ MessagesFit' /\ ToldFits' /\ GoneWasAnnounced'
      /\ \A j \in Conversations \ {k} : conversation'[j] = conversation[j]
      /\ conversation'[k].isGroup = "yes"
  BY <1>1, <1>2, InsertFits
<1>4. TypeOK'
  BY <1>2, <1>3 DEF ChatInv, TypeOK
<1>5. CallsFit'
  BY <1>2, <1>3, WaitingCallFits DEF CallsFit
<1>6. NoneFoundYet'
  BY <1>2, <1>3 DEF ChatInv, NoneFoundYet, LookStands, NoneMade, Live
<1>7. DuplicateOnlyByRace'
  BY <1>2, <1>3 DEF ChatInv, DuplicateOnlyByRace, Live
<1>8. QED
  BY <1>3, <1>4, <1>5, <1>6, <1>7 DEF ChatInv

\* The hard step: whoever else had missed the pair is in the race.
LEMMA CreateDirectKeeps ==
    ASSUME ChatInv, NEW c \in Calls, CreateDirect(c)
    PROVE  ChatInv'
<1>1. PICK u, v, pair : u = call[c].user /\ v = call[c].peer /\ pair = {u, v}
  OBVIOUS
<1>2. /\ call[c].step = "createDirect" /\ u # v
      /\ UNCHANGED <<message, told>>
      /\ raced' = IF Missed(pair) = {c} THEN raced ELSE raced \cup {pair}
  BY <1>1 DEF CreateDirect
<1>3. PICK k \in Conversations :
         /\ Insert(k, "no", pair)
         /\ \/ Goto(c, [call[c] EXCEPT !.step = "message", !.conversation = k])
            \/ Finish(c)
  BY <1>1 DEF CreateDirect
<1>4. u \in Users /\ v \in Users /\ call[c] \in CallRecord
  BY <1>1, <1>2 DEF ChatInv, CallsFit, CallFits, LookFits, TypeOK
<1>5. /\ conversation' \in [Conversations -> ConversationRow]
      /\ ConversationsLast /\ MessagesLast
      /\ ConversationsFit' /\ UnsentFit' /\ MessagesFit' /\ ToldFits' /\ GoneWasAnnounced'
      /\ \A j \in Conversations \ {k} : conversation'[j] = conversation[j]
      /\ conversation'[k].status = "live" /\ conversation'[k].isGroup = "no"
      /\ conversation'[k].participants = pair
      /\ conversation[k].status = "unused"
  BY <1>1, <1>2, <1>3, <1>4, InsertFits
<1>6. PICK rec \in CallRecord :
         /\ Goto(c, rec)
         /\ \/ rec = Idle
            \/ rec.step = "message" /\ rec.user = u /\ rec.peer = v /\ rec.conversation = k
  <2> DEFINE sending == [call[c] EXCEPT !.step = "message", !.conversation = k]
  <2>1. /\ sending \in CallRecord
        /\ sending.step = "message" /\ sending.user = u /\ sending.peer = v
        /\ sending.conversation = k
    BY <1>1, <1>4 DEF CallRecord, Step
  <2>2. CASE Goto(c, sending)
    BY <2>1, <2>2
  <2>3. CASE Finish(c)
    BY <2>3, IdleIsCall DEF Finish
  <2>4. QED
    BY <1>3, <2>2, <2>3
<1>7. /\ call' \in [Calls -> CallRecord] /\ call'[c] = rec
      /\ \A d \in Calls \ {c} : call'[d] = call[d]
  BY <1>6, GotoMoves DEF ChatInv
<1>8. TypeOK'
  BY <1>1, <1>2, <1>4, <1>5, <1>7 DEF ChatInv, TypeOK
<1>9. CallFits(c)' /\ LookStands(c)'
  <2>1. CASE rec = Idle
    BY <1>7, <2>1, IdleFits
  <2>2. CASE rec.step = "message" /\ rec.user = u /\ rec.peer = v /\ rec.conversation = k
    BY <1>1, <1>5, <1>7, <2>2
       DEF CallFits, LookFits, FoundFits, AddressFits, EmitFits, DeleteFits, Used, IsBetween,
           LookStands
  <2>3. QED
    BY <1>6, <2>1, <2>2
<1>10. CallsFit'
  BY <1>2, <1>5, <1>7, <1>9, WaitingCallFits DEF CallsFit
<1>11. ASSUME NEW d \in Calls \ {c}
       PROVE  LookStands(d)'
  <2>1. CASE call[d].step = "createDirect" /\ {call[d].user, call[d].peer} = pair
    <3>1. d \in Missed(pair)
      BY <2>1 DEF Missed
    <3>2. pair \in raced'
      BY <1>2, <3>1
    <3>3. QED
      BY <1>7, <2>1, <3>2 DEF LookStands
  <2>2. CASE ~(call[d].step = "createDirect" /\ {call[d].user, call[d].peer} = pair)
    <3>1. raced \subseteq raced'
      BY <1>2
    <3>2. QED
      BY <1>5, <1>7, <2>2, <3>1 DEF ChatInv, NoneFoundYet, LookStands, NoneMade, Live
  <2>3. QED
    BY <2>1, <2>2
<1>12. NoneFoundYet'
  BY <1>9, <1>11 DEF NoneFoundYet
<1>13. DuplicateOnlyByRace'
  <2>1. pair \in raced \/ NoneMade(pair)
    BY <1>1, <1>2 DEF ChatInv, NoneFoundYet, LookStands
  <2>2. raced \subseteq raced'
    BY <1>2
  <2>3. ASSUME NEW j \in Conversations \ {k}, Live(j), conversation[j].isGroup = "no",
               conversation[j].participants = pair
        PROVE  pair \in raced'
    BY <2>1, <2>2, <2>3 DEF NoneMade
  <2>4. QED
    BY <1>5, <2>2, <2>3 DEF ChatInv, DuplicateOnlyByRace, Live
<1>14. QED
  BY <1>5, <1>8, <1>10, <1>12, <1>13 DEF ChatInv

----------------------------------------------------------------------------
(* Messages.                                                               *)
(***************************************************************************)
\* The message lies where the call found its conversation; nobody was told of it.
LEMMA MessageCreateKeeps ==
    ASSUME ChatInv, NEW c \in Calls, MessageCreate(c)
    PROVE  ChatInv'
<1>1. PICK k, u, v : k = call[c].conversation /\ u = call[c].user /\ v = call[c].peer
  OBVIOUS
<1>2. /\ call[c].step = "message" /\ Live(k)
      /\ UNCHANGED <<conversation, told, raced>>
  BY <1>1 DEF MessageCreate
<1>3. /\ k \in Conversations /\ Used(k)
      /\ u \in Users \cup {None} /\ v \in Users \cup {None}
      /\ v \notin {None, u} => IsBetween(k, u, v)
  BY <1>1, <1>2 DEF ChatInv, CallsFit, CallFits, FoundFits, AddressFits, TypeOK, CallRecord
<1>4. PICK m \in Messages :
         /\ message[m].status = "unused"
         /\ message' = [message EXCEPT ![m] =
                [status |-> "live", conversation |-> k, sender |-> u, recipient |-> v]]
         /\ Goto(c, [Idle EXCEPT !.step = "emit", !.message = m, !.conversation = k])
  BY <1>1 DEF MessageCreate
<1> DEFINE rec == [Idle EXCEPT !.step = "emit", !.message = m, !.conversation = k]
<1>5. /\ rec \in CallRecord
      /\ rec.step = "emit" /\ rec.message = m /\ rec.conversation = k
  BY <1>3 DEF Idle, CallRecord, Step
<1> HIDE DEF rec
<1>6. Goto(c, rec)
  BY <1>4 DEF rec
<1>7. /\ call' \in [Calls -> CallRecord] /\ call'[c] = rec
      /\ \A d \in Calls \ {c} : call'[d] = call[d]
  BY <1>5, <1>6, GotoMoves DEF ChatInv
<1>8. message \in [Messages -> MessageRow]
  BY DEF ChatInv, TypeOK
<1>9. /\ \A n \in Messages \ {m} : message'[n] = message[n]
      /\ message'[m].status = "live" /\ message'[m].conversation = k
      /\ message'[m].sender = u /\ message'[m].recipient = v
  BY <1>4, <1>8
<1>10. message' \in [Messages -> MessageRow]
  BY <1>3, <1>4, <1>8 DEF MessageRow, Status
<1>11. TypeOK'
  BY <1>2, <1>7, <1>10 DEF ChatInv, TypeOK
<1>12. ConversationsLast /\ MessagesLast /\ told \subseteq told'
  BY <1>2, <1>4, <1>9 DEF ConversationsLast, MessagesLast, Used
<1>13. CallFits(c)'
  BY <1>2, <1>3, <1>5, <1>7, <1>9
     DEF CallFits, LookFits, FoundFits, AddressFits, EmitFits, DeleteFits, Used
<1>14. CallsFit'
  BY <1>7, <1>12, <1>13, WaitingCallFits DEF CallsFit
<1>15. MessagesFit'
  BY <1>2, <1>3, <1>9 DEF ChatInv, MessagesFit, Used, IsBetween
<1>16. ToldFits'
  BY <1>2, <1>4, <1>9 DEF ChatInv, ToldFits
<1>17. NoneFoundYet'
  BY <1>2, <1>5, <1>7 DEF ChatInv, NoneFoundYet, LookStands, NoneMade, Live
<1>18. UnsentFit'
  BY <1>9 DEF ChatInv, UnsentFit
<1>19. ConversationsFit' /\ DuplicateOnlyByRace' /\ GoneWasAnnounced'
  BY <1>2 DEF ChatInv, ConversationsFit, Used, DuplicateOnlyByRace, Live, GoneWasAnnounced
<1>20. QED
  BY <1>11, <1>14, <1>15, <1>16, <1>17, <1>18, <1>19 DEF ChatInv

\* The participants of the conversation are told.
LEMMA MessageEmitKeeps ==
    ASSUME ChatInv, NEW c \in Calls, MessageEmit(c)
    PROVE  ChatInv'
<1>1. PICK k, m : k = call[c].conversation /\ m = call[c].message
  OBVIOUS
<1>2. /\ call[c].step = "emit" /\ Goto(c, Idle)
      /\ UNCHANGED <<conversation, message, raced>>
      /\ told' = told \cup ({"receiveMessage"} \X {m} \X conversation[k].participants)
  BY <1>1 DEF MessageEmit, Finish
<1>3. /\ k \in Conversations /\ Used(k)
      /\ m \in Messages /\ message[m].status # "unused" /\ message[m].conversation = k
  BY <1>1, <1>2 DEF ChatInv, CallsFit, CallFits, FoundFits, EmitFits
<1>4. /\ call' \in [Calls -> CallRecord] /\ call'[c] = Idle
      /\ \A d \in Calls \ {c} : call'[d] = call[d]
  BY <1>2, IdleIsCall, GotoMoves DEF ChatInv
<1>5. conversation[k].participants \subseteq Users
  BY <1>3 DEF ChatInv, TypeOK, ConversationRow
<1>6. TypeOK'
  BY <1>2, <1>3, <1>4, <1>5 DEF ChatInv, TypeOK, Event
<1>7. ConversationsLast /\ MessagesLast /\ told \subseteq told'
  BY <1>2 DEF ConversationsLast, MessagesLast, Used
<1>8. CallFits(c)' /\ LookStands(c)'
  BY <1>4, IdleFits
<1>9. CallsFit'
  BY <1>4, <1>7, <1>8, WaitingCallFits DEF CallsFit
<1>10. NoneFoundYet'
  BY ZenonT(30), <1>2, <1>4, <1>8 DEF ChatInv, NoneFoundYet, LookStands, NoneMade, Live
<1>11. ToldFits'
  <2>1. ASSUME NEW n \in Messages, NEW u \in Users, <<"receiveMessage", n, u>> \in told'
        PROVE  /\ message[n].status # "unused"
               /\ u \in conversation[message[n].conversation].participants
    <3>1. CASE <<"receiveMessage", n, u>> \in told
      BY <3>1 DEF ChatInv, ToldFits
    <3>2. CASE n = m /\ u \in conversation[k].participants
      BY <1>3, <3>2
    <3>3. QED
      BY <1>2, <2>1, <3>1, <3>2
  <2>2. QED
    BY <1>2, <2>1 DEF ToldFits
<1>12. /\ ConversationsFit' /\ UnsentFit' /\ MessagesFit'
       /\ DuplicateOnlyByRace' /\ GoneWasAnnounced'
  BY <1>2, <1>7 DEF ChatInv, ConversationsFit, Used, UnsentFit, MessagesFit, IsBetween,
                    DuplicateOnlyByRace, Live, GoneWasAnnounced
<1>13. QED
  BY <1>6, <1>9, <1>10, <1>11, <1>12 DEF ChatInv

----------------------------------------------------------------------------
(* Removal.                                                                *)
(***************************************************************************)
\* All participants are told, or were by the one who was faster.
LEMMA DeleteAnnounceKeeps ==
    ASSUME ChatInv, NEW c \in Calls, DeleteAnnounce(c)
    PROVE  ChatInv'
<1>1. PICK k : k = call[c].conversation
  OBVIOUS
<1>2. /\ call[c].step = "announce"
      /\ \/ told' = told \cup ({"conversationDeleted"} \X {k} \X conversation[k].participants)
         \/ ~Live(k) /\ told' = told
      /\ UNCHANGED <<conversation, message, raced>>
  BY <1>1 DEF DeleteAnnounce
<1>3. k \in Conversations /\ Used(k) /\ call[c] \in CallRecord
  BY <1>1, <1>2 DEF ChatInv, CallsFit, CallFits, FoundFits, TypeOK
<1> DEFINE rec == [call[c] EXCEPT !.step = "delete"]
<1>4. rec \in CallRecord /\ rec.step = "delete" /\ rec.conversation = k
  BY <1>1, <1>3 DEF CallRecord, Step
<1> HIDE DEF rec
<1>5. Goto(c, rec)
  BY DEF DeleteAnnounce, rec
<1>6. /\ call' \in [Calls -> CallRecord] /\ call'[c] = rec
      /\ \A d \in Calls \ {c} : call'[d] = call[d]
  BY <1>4, <1>5, GotoMoves DEF ChatInv
<1>7. conversation[k].participants \subseteq Users
  BY <1>3 DEF ChatInv, TypeOK, ConversationRow
<1>8. TypeOK'
  BY <1>2, <1>3, <1>6, <1>7 DEF ChatInv, TypeOK, Event
<1>9. ConversationsLast /\ MessagesLast /\ told \subseteq told'
  BY <1>2 DEF ConversationsLast, MessagesLast, Used
<1>10. \A u \in conversation[k].participants : <<"conversationDeleted", k, u>> \in told'
  <2>1. CASE ~Live(k) /\ told' = told
    <3>1. conversation[k].status = "deleted"
      BY <1>3, <2>1 DEF ChatInv, TypeOK, ConversationRow, Status, Used, Live
    <3>2. QED
      BY <1>3, <2>1, <3>1 DEF ChatInv, GoneWasAnnounced
  <2>2. QED
    BY <1>2, <2>1
<1>11. CallFits(c)'
  BY <1>2, <1>3, <1>4, <1>6, <1>10
     DEF CallFits, LookFits, FoundFits, AddressFits, EmitFits, DeleteFits, Used, ToldOf
<1>12. CallsFit'
  BY <1>6, <1>9, <1>11, WaitingCallFits DEF CallsFit
<1>13. NoneFoundYet'
  BY <1>2, <1>4, <1>6 DEF ChatInv, NoneFoundYet, LookStands, NoneMade, Live
<1>14. \A m \in Messages, u \in Users :
          <<"receiveMessage", m, u>> \in told' => <<"receiveMessage", m, u>> \in told
  BY <1>2
<1>15. ToldFits'
  BY <1>2, <1>14 DEF ChatInv, ToldFits
<1>16. /\ ConversationsFit' /\ UnsentFit' /\ MessagesFit'
       /\ DuplicateOnlyByRace' /\ GoneWasAnnounced'
  BY <1>2, <1>9 DEF ChatInv, ConversationsFit, Used, UnsentFit, MessagesFit, IsBetween,
                    DuplicateOnlyByRace, Live, GoneWasAnnounced
<1>17. QED
  BY <1>8, <1>12, <1>13, <1>15, <1>16 DEF ChatInv

\* The call that deletes has announced; others that were to create are not affected.
LEMMA DeleteRowKeeps ==
    ASSUME ChatInv, NEW c \in Calls, DeleteRow(c)
    PROVE  ChatInv'
<1>1. PICK k : k = call[c].conversation
  OBVIOUS
<1>2. /\ call[c].step = "delete" /\ Live(k) /\ Goto(c, Idle) /\ UNCHANGED <<told, raced>>
      /\ conversation' = [conversation EXCEPT ![k].status = "deleted"]
      /\ message' = [m \in Messages |->
             IF message[m].conversation = k THEN [message[m] EXCEPT !.status = "deleted"]
             ELSE message[m]]
  BY <1>1 DEF DeleteRow, Finish
<1>3. k \in Conversations /\ Used(k) /\ ToldOf(k)
  BY <1>1, <1>2 DEF ChatInv, CallsFit, CallFits, FoundFits, DeleteFits
<1>4. /\ conversation \in [Conversations -> ConversationRow]
      /\ message \in [Messages -> MessageRow]
  BY DEF ChatInv, TypeOK
<1>5. /\ conversation' \in [Conversations -> ConversationRow]
      /\ \A j \in Conversations \ {k} : conversation'[j] = conversation[j]
      /\ conversation'[k].status = "deleted"
      /\ conversation'[k].isGroup = conversation[k].isGroup
      /\ conversation'[k].participants = conversation[k].participants
  BY <1>2, <1>3, <1>4 DEF ConversationRow, Status
<1>6. ASSUME NEW m \in Messages
      PROVE  /\ message'[m] \in MessageRow
             /\ message'[m].conversation = message[m].conversation
             /\ message'[m].sender = message[m].sender
             /\ message'[m].recipient = message[m].recipient
             /\ message'[m].status = IF message[m].conversation = k THEN "deleted"
                                     ELSE message[m].status
  <2>1. message[m] \in MessageRow
    BY <1>4
  <2>2. CASE message[m].conversation = k
    <3>1. message'[m] = [message[m] EXCEPT !.status = "deleted"]
      BY <1>2, <2>2
    <3>2. QED
      BY <2>1, <2>2, <3>1 DEF MessageRow, Status
  <2>3. CASE message[m].conversation # k
    BY <1>2, <2>1, <2>3
  <2>4. QED
    BY <2>2, <2>3
<1>7. message' \in [Messages -> MessageRow]
  BY <1>2, <1>6
<1>8. /\ call' \in [Calls -> CallRecord] /\ call'[c] = Idle
      /\ \A d \in Calls \ {c} : call'[d] = call[d]
  BY <1>2, IdleIsCall, GotoMoves DEF ChatInv
<1>9. TypeOK'
  BY <1>2, <1>5, <1>7, <1>8 DEF ChatInv, TypeOK
<1>10. ConversationsLast /\ MessagesLast /\ told \subseteq told'
  BY <1>2, <1>5, <1>6 DEF ConversationsLast, MessagesLast, Used
<1>11. CallFits(c)' /\ LookStands(c)'
  BY <1>8, IdleFits
<1>12. CallsFit'
  BY <1>8, <1>10, <1>11, WaitingCallFits DEF CallsFit
<1>13. \A j \in Conversations : Live(j)' => Live(j) /\ conversation'[j] = conversation[j]
  BY <1>5 DEF Live
<1>14. NoneFoundYet'
  BY ZenonT(30), <1>2, <1>8, <1>11, <1>13 DEF ChatInv, NoneFoundYet, LookStands, NoneMade
<1>15. DuplicateOnlyByRace'
  BY <1>2, <1>13 DEF ChatInv, DuplicateOnlyByRace
<1>16. GoneWasAnnounced'
  BY <1>2, <1>3, <1>5 DEF ChatInv, GoneWasAnnounced, ToldOf
<1>17. ConversationsFit'
  BY <1>3, <1>5 DEF ChatInv, ConversationsFit, Used
<1>18. \A m \in Messages : message'[m].status # "unused" <=> message[m].status # "unused"
  <2>1. \A m \in Messages : message[m].status = "unused" => message[m].conversation # k
    BY <1>3, AccountsAssumption, ChatAssumption DEF ChatInv, UnsentFit
  <2>2. QED
    BY <1>6, <2>1
<1>19. UnsentFit'
  BY <1>6, <1>18 DEF ChatInv, UnsentFit
<1>20. MessagesFit'
  BY <1>5, <1>6, <1>10, <1>18 DEF ChatInv, MessagesFit, ConversationsLast, Used, IsBetween
<1>21. ToldFits'
  <2>1. ASSUME NEW m \in Messages, NEW u \in Users, <<"receiveMessage", m, u>> \in told
        PROVE  /\ message'[m].status # "unused"
               /\ u \in conversation'[message'[m].conversation].participants
    <3>1. /\ message[m].status # "unused"
          /\ u \in conversation[message[m].conversation].participants
      BY <2>1 DEF ChatInv, ToldFits
    <3>2. message[m].conversation \in Conversations /\ Used(message[m].conversation)
      BY <3>1 DEF ChatInv, MessagesFit
    <3>3. QED
      BY <1>6, <1>10, <1>18, <3>1, <3>2 DEF ConversationsLast
  <2>2. QED
    BY <1>2, <2>1 DEF ToldFits
<1>22. QED
  BY <1>9, <1>12, <1>14, <1>15, <1>16, <1>17, <1>19, <1>20, <1>21 DEF ChatInv

----------------------------------------------------------------------------
\* Every step keeps the invariant.
LEMMA ChatStep == ChatInv /\ [Next]_vars => ChatInv'
<1> SUFFICES ASSUME ChatInv, [Next]_vars PROVE ChatInv'
  OBVIOUS
<1>1. CASE UNCHANGED vars
  BY <1>1 DEF vars, ChatInv, TypeOK, ConversationsFit, CallsFit, CallFits, LookFits, FoundFits,
              AddressFits, EmitFits, DeleteFits, ToldOf, UnsentFit, MessagesFit, ToldFits,
              NoneFoundYet, LookStands, NoneMade, DuplicateOnlyByRace, GoneWasAnnounced, Used,
              Live, IsBetween
<1>2. CASE Next
  BY <1>2, CreateGroupKeeps, CreateGroupFindKeeps, SendFindDirectKeeps, SendFindKeeps,
     DeleteFindKeeps, CreateDirectKeeps, MessageCreateKeeps, MessageEmitKeeps,
     DeleteAnnounceKeeps, DeleteRowKeeps, CallDiesKeeps DEF Next
<1>3. QED
  BY <1>1, <1>2

\* ChatInv holds throughout.
THEOREM ChatInvariant == Spec => []ChatInv
BY ChatInit, ChatStep, PTL DEF Spec

\* Every reachable state is well typed.
THEOREM ChatTypes == Spec => []TypeOK
<1>1. ChatInv => TypeOK
  BY DEF ChatInv
<1>2. QED
  BY <1>1, ChatInvariant, PTL

\* A pair has two direct conversations only if two calls that had looked in vain
\* overlapped, for any number of calls.
THEOREM DuplicatesComeByRace == Spec => []DuplicateOnlyByRace
<1>1. ChatInv => DuplicateOnlyByRace
  BY DEF ChatInv
<1>2. QED
  BY <1>1, ChatInvariant, PTL

\* What is sent to a recipient reaches the two only, for any number of groups
\* they share.
THEOREM MessagesReachTheirRecipient == Spec => []ReachesItsRecipientOnly
<1>1. ASSUME ChatInv PROVE ReachesItsRecipientOnly
  <2>1. ASSUME NEW m \in Messages, message[m].status # "unused",
               message[m].recipient \notin {None, message[m].sender}
        PROVE  /\ conversation[message[m].conversation].isGroup = "no"
               /\ conversation[message[m].conversation].participants =
                      {message[m].sender, message[m].recipient}
    BY <1>1, <2>1 DEF ChatInv, MessagesFit, IsBetween
  <2>2. QED
    BY <1>1, <2>1 DEF ReachesItsRecipientOnly, ChatInv, ToldFits
<1>2. QED
  BY <1>1, ChatInvariant, PTL

\* A conversation that is gone was announced to all its participants, whatever
\* deletions race or die.
THEOREM DeletionsAreAnnounced == Spec => []GoneWasAnnounced
<1>1. ChatInv => GoneWasAnnounced
  BY DEF ChatInv
<1>2. QED
  BY <1>1, ChatInvariant, PTL

----------------------------------------------------------------------------
(* Presence.                                                               *)
(***************************************************************************)
\* Before anybody connects nobody is online.
LEMMA PresenceInitKeeps == PresenceInit => PresenceInv
BY PresenceAssumption
   DEF PresenceInit, PresenceInv, PresenceTypeOK, SocketsFit, OnlineIsHeld, Connecting, Closing

\* A step of one socket that has no user's isOnline set, that does not make the
\* socket any less responsible and that opens it at most, keeps OnlineIsHeld.
LEMMA NobodyTurnsOnline ==
    ASSUME OnlineIsHeld,
           isOnline' = isOnline, stranded \subseteq stranded',
           \A w \in Sockets : Holds(w) /\ owner[w] \notin stranded'
                                  => Holds(w)' /\ owner'[w] = owner[w]
    PROVE  OnlineIsHeld'
BY DEF OnlineIsHeld, SocketsOf

\* What is sent to the sockets in a room is a status each of them can hear.
LEMMA TellIsHeard ==
    ASSUME PresenceTypeOK, NEW u \in Clients, NEW status \in {"online", "offline"},
           Tell(u, status)
    PROVE  heard' \in [Sockets -> [Clients -> {"nothing", "online", "offline"}]]
BY DEF PresenceTypeOK, Tell

\* A new connection is nobody's responsibility yet.
LEMMA HandleConnectionKeeps ==
    ASSUME PresenceInv, NEW s \in Sockets, NEW u \in Clients,
           HandleConnection(s, u)
    PROVE  PresenceInv'
<1> USE DEF PresenceInv
<1>1. connecting[s] = "idle" /\ closing[s] = "idle"
  BY PresenceAssumption DEF PresenceTypeOK, SocketsFit, HandleConnection, Connecting, Closing
<1>2. PresenceTypeOK'
  BY DEF PresenceTypeOK, HandleConnection, Connecting
<1>3. SocketsFit'
  BY <1>1 DEF PresenceTypeOK, SocketsFit, HandleConnection
<1>4. OnlineIsHeld'
  BY <1>1, NobodyTurnsOnline DEF PresenceTypeOK, Holds, HandleConnection
<1>5. QED
  BY <1>2, <1>3, <1>4

\* The awaits of handleConnection before the write change no responsibility.
LEMMA VerifyKeeps ==
    ASSUME PresenceInv, NEW s \in Sockets, Verify(s)
    PROVE  PresenceInv'
<1> USE DEF PresenceInv
<1>1. PresenceTypeOK' /\ SocketsFit'
  BY DEF PresenceTypeOK, SocketsFit, Verify, Connecting
<1>2. OnlineIsHeld'
  BY NobodyTurnsOnline DEF PresenceTypeOK, Holds, Verify
<1>3. QED
  BY <1>1, <1>2

\* Nor does joining the rooms.
LEMMA JoinRoomsKeeps ==
    ASSUME PresenceInv, NEW s \in Sockets, JoinRooms(s)
    PROVE  PresenceInv'
<1> USE DEF PresenceInv
<1>1. owner[s] \in Clients
  BY DEF PresenceTypeOK, SocketsFit, JoinRooms
<1>2. PresenceTypeOK' /\ SocketsFit'
  BY <1>1 DEF PresenceTypeOK, SocketsFit, JoinRooms, Connecting
<1>3. OnlineIsHeld'
  BY NobodyTurnsOnline DEF PresenceTypeOK, Holds, JoinRooms
<1>4. QED
  BY <1>2, <1>3

\* The socket that has isOnline set is responsible for it from now on, unless
\* its own disconnect was written before: then the user is stranded.
LEMMA SetOnlineKeeps ==
    ASSUME PresenceInv, NEW s \in Sockets, SetOnline(s)
    PROVE  PresenceInv'
<1> USE DEF PresenceInv
<1>1. owner[s] \in Clients
  BY DEF PresenceTypeOK, SocketsFit, SetOnline
<1>2. PresenceTypeOK' /\ SocketsFit'
  BY <1>1 DEF PresenceTypeOK, SocketsFit, SetOnline, Connecting
<1>3. owner[s] \in stranded' \/ Holds(s)'
  BY DEF PresenceTypeOK, Holds, SetOnline, Closing
<1>4. ASSUME NEW u \in isOnline', u # owner[s]
      PROVE  u \in stranded' \/ \E w \in SocketsOf(u)' : Holds(w)'
  <2>1. u \in isOnline
    BY <1>4 DEF SetOnline
  <2>2. CASE u \in stranded
    BY <2>2 DEF SetOnline
  <2>3. ASSUME NEW w \in SocketsOf(u), Holds(w)
        PROVE  w \in SocketsOf(u)' /\ Holds(w)'
    BY <1>4, <2>3 DEF PresenceTypeOK, SocketsOf, Holds, SetOnline
  <2>4. QED
    BY <2>1, <2>2, <2>3 DEF OnlineIsHeld
<1>5. OnlineIsHeld'
  BY <1>3, <1>4 DEF OnlineIsHeld, SocketsOf, SetOnline
<1>6. QED
  BY <1>2, <1>5

\* Once it has emitted it is still to be disconnected.
LEMMA EmitOnlineKeeps ==
    ASSUME PresenceInv, NEW s \in Sockets, EmitOnline(s)
    PROVE  PresenceInv'
<1> USE DEF PresenceInv
<1>1. owner[s] \in Clients
  BY DEF PresenceTypeOK, SocketsFit, EmitOnline
<1>2. PresenceTypeOK'
  BY <1>1, TellIsHeard DEF PresenceTypeOK, EmitOnline, Connecting
<1>3. SocketsFit'
  BY DEF PresenceTypeOK, SocketsFit, EmitOnline
<1>4. OnlineIsHeld'
  BY NobodyTurnsOnline DEF PresenceTypeOK, Holds, EmitOnline
<1>5. QED
  BY <1>2, <1>3, <1>4

\* A connection that fails had not set isOnline.
LEMMA ConnectionFailsKeeps ==
    ASSUME PresenceInv, NEW s \in Sockets, ConnectionFails(s)
    PROVE  PresenceInv'
<1> USE DEF PresenceInv
<1>1. AfterDrop(s) \in {"done", "offline"}
  BY DEF AfterDrop
<1>2. PresenceTypeOK'
  BY <1>1 DEF PresenceTypeOK, ConnectionFails, Connecting, Closing
<1>3. SocketsFit'
  BY <1>1 DEF PresenceTypeOK, SocketsFit, ConnectionFails
<1>4. OnlineIsHeld'
  BY NobodyTurnsOnline DEF PresenceTypeOK, Holds, ConnectionFails
<1>5. QED
  BY <1>2, <1>3, <1>4

\* A socket that drops with isOnline set has its disconnect under way.
LEMMA HandleDisconnectKeeps ==
    ASSUME PresenceInv, NEW s \in Sockets, HandleDisconnect(s)
    PROVE  PresenceInv'
<1> USE DEF PresenceInv
<1>1. owner[s] \in Clients /\ closing[s] = "idle"
  BY DEF PresenceTypeOK, SocketsFit, HandleDisconnect
<1>2. /\ AfterDrop(s) \in {"done", "offline"}
      /\ connecting[s] # "verify" => AfterDrop(s) = "offline"
  BY DEF AfterDrop
<1>3. PresenceTypeOK'
  BY <1>1, <1>2 DEF PresenceTypeOK, HandleDisconnect, Closing
<1>4. SocketsFit'
  BY <1>2 DEF PresenceTypeOK, SocketsFit, HandleDisconnect
<1>5. OnlineIsHeld'
  BY <1>2, NobodyTurnsOnline DEF PresenceTypeOK, Holds, HandleDisconnect
<1>6. QED
  BY <1>3, <1>4, <1>5

\* The write of handleDisconnect concerns its own user only.
LEMMA SetOfflineKeeps ==
    ASSUME PresenceInv, NEW s \in Sockets, SetOffline(s)
    PROVE  PresenceInv'
<1> USE DEF PresenceInv
<1>1. PresenceTypeOK' /\ SocketsFit'
  BY DEF PresenceTypeOK, SocketsFit, SetOffline, Closing
<1>2. ASSUME NEW u \in isOnline'
      PROVE  u \in stranded' \/ \E w \in SocketsOf(u)' : Holds(w)'
  <2>1. u \in isOnline /\ u # owner[s]
    BY <1>2 DEF SetOffline
  <2>2. CASE u \in stranded
    BY <2>1, <2>2 DEF SetOffline
  <2>3. ASSUME NEW w \in SocketsOf(u), Holds(w)
        PROVE  w \in SocketsOf(u)' /\ Holds(w)'
    BY <2>1, <2>3 DEF PresenceTypeOK, SocketsOf, Holds, SetOffline
  <2>4. QED
    BY <2>1, <2>2, <2>3 DEF OnlineIsHeld
<1>3. QED
  BY <1>1, <1>2 DEF OnlineIsHeld

\* The last emission comes when the responsibility is over.
LEMMA EmitOfflineKeeps ==
    ASSUME PresenceInv, NEW s \in Sockets, EmitOffline(s)
    PROVE  PresenceInv'
<1> USE DEF PresenceInv
<1>1. owner[s] \in Clients
  BY DEF PresenceTypeOK, SocketsFit, EmitOffline
<1>2. PresenceTypeOK'
  BY <1>1, TellIsHeard DEF PresenceTypeOK, EmitOffline, Closing
<1>3. SocketsFit'
  BY DEF PresenceTypeOK, SocketsFit, EmitOffline
<1>4. OnlineIsHeld'
  BY NobodyTurnsOnline DEF PresenceTypeOK, Holds, EmitOffline
<1>5. QED
  BY <1>2, <1>3, <1>4

\* A socket lost with isOnline set strands its user.
LEMMA SocketLostKeeps ==
    ASSUME PresenceInv, NEW s \in Sockets, SocketLost(s)
    PROVE  PresenceInv'
<1> USE DEF PresenceInv
<1>1. owner[s] \in Clients /\ connecting[s] # "idle"
  BY DEF PresenceTypeOK, SocketsFit, SocketLost, Running
<1>2. PresenceTypeOK'
  BY <1>1 DEF PresenceTypeOK, SocketLost, Connecting, Closing
<1>3. SocketsFit'
  BY <1>1 DEF PresenceTypeOK, SocketsFit, SocketLost
<1>4. OnlineIsHeld'
  BY NobodyTurnsOnline DEF PresenceTypeOK, Holds, SocketLost
<1>5. QED
  BY <1>2, <1>3, <1>4

\* Every step keeps the invariant.
LEMMA PresenceStep == PresenceInv /\ [PresenceNext]_presenceVars => PresenceInv'
<1> SUFFICES ASSUME PresenceInv, [PresenceNext]_presenceVars
             PROVE  PresenceInv'
  OBVIOUS
<1>1. CASE UNCHANGED presenceVars
  BY <1>1 DEF presenceVars, PresenceInv, PresenceTypeOK, SocketsFit, OnlineIsHeld, SocketsOf,
              Holds
<1>2. CASE PresenceNext
  BY <1>2, HandleConnectionKeeps, VerifyKeeps, JoinRoomsKeeps, SetOnlineKeeps,
     EmitOnlineKeeps, ConnectionFailsKeeps, HandleDisconnectKeeps,
     SetOfflineKeeps, EmitOfflineKeeps, SocketLostKeeps DEF PresenceNext
<1>3. QED
  BY <1>1, <1>2

\* The sockets of handleConnection and handleDisconnect always account for
\* isOnline: it is set by a socket that is still to reset it, or stranded.
THEOREM PresenceInvariant == PresenceSpec => []PresenceInv
BY PresenceInitKeeps, PresenceStep, PTL DEF PresenceSpec

\* Types are right in every reachable state of the gateway.
THEOREM PresenceTypes == PresenceSpec => []PresenceTypeOK
<1>1. PresenceInv => PresenceTypeOK
  BY DEF PresenceInv
<1>2. QED
  BY <1>1, PresenceInvariant, PTL

\* However many sockets a user opens and however their handlers interleave:
\* once all are gone and handled, the user is offline or stranded.
THEOREM GoneUsersAreOffline == PresenceSpec => []GoneIsOffline
<1>1. ASSUME PresenceInv PROVE GoneIsOffline
  <2>1. SUFFICES ASSUME NEW u \in isOnline, Quiet(u),
                        SocketsOf(u) \cap link = {}, u \notin stranded
                 PROVE  FALSE
    BY DEF GoneIsOffline
  <2>2. PICK w \in SocketsOf(u) : Holds(w)
    BY <1>1, <2>1 DEF PresenceInv, OnlineIsHeld
  <2>3. closing[w] = "idle" /\ connecting[w] # "idle"
    BY <2>1, <2>2 DEF Quiet, Running, Holds
  <2>4. w \in link
    BY <1>1, <2>2, <2>3 DEF PresenceInv, SocketsFit, SocketsOf
  <2>5. QED
    BY <2>1, <2>2, <2>4
<1>2. QED
  BY <1>1, PresenceInvariant, PTL

----------------------------------------------------------------------------
(* Who is shown as online, and to whom, for users not tangled.             *)
(***************************************************************************)
\* A new connection of a user who has another under way tangles them.
LEMMA HandleConnectionWatched ==
    ASSUME WatchersInv, NEW s \in Sockets, NEW u \in Clients, HandleConnection(s, u)
    PROVE  OneByOne' /\ RoomsFit' /\ ConnectedIsOnline' /\ HeardFits'
<1> USE DEF WatchersInv, PresenceInv
<1>1. OneByOne'
  BY PresenceAssumption DEF PresenceTypeOK, SocketsFit, OneByOne, SocketsOf, Alive, Running,
                            HandleConnection
<1>2. RoomsFit'
  BY PresenceAssumption DEF PresenceTypeOK, SocketsFit, RoomsFit, HandleConnection
<1>3. ConnectedIsOnline'
  BY DEF PresenceTypeOK, SocketsFit, OneByOne, SocketsOf, Alive, Running, ConnectedIsOnline,
         HandleConnection
<1>4. HeardFits'
  <2>1. connecting[s] = "idle" /\ closing[s] = "idle" /\ room[s] = {}
    BY PresenceAssumption DEF PresenceTypeOK, SocketsFit, RoomsFit, HandleConnection, Connecting,
                              Closing
  <2>2. ASSUME NEW v \in Clients, Emitting(v)
        PROVE  Emitting(v)'
    <3>1. PICK w \in SocketsOf(v) : connecting[w] = "emit" \/ closing[w] = "emit"
      BY <2>2 DEF Emitting
    <3>2. w # s /\ w \in SocketsOf(v)'
      BY <2>1, <3>1 DEF SocketsOf, HandleConnection, PresenceTypeOK
    <3>3. QED
      BY <3>1, <3>2 DEF Emitting, HandleConnection, PresenceTypeOK
  <2>3. /\ link' = link \cup {s} /\ room' = room /\ heard' = heard /\ isOnline' = isOnline
        /\ tangled \subseteq tangled'
    BY DEF HandleConnection
  <2>4. QED
    BY <2>1, <2>2, <2>3 DEF HeardFits
<1>5. QED
  BY <1>1, <1>2, <1>3, <1>4

\* Nothing is written or sent before the write of handleConnection.
LEMMA VerifyWatched ==
    ASSUME WatchersInv, NEW s \in Sockets, Verify(s)
    PROVE  OneByOne' /\ RoomsFit' /\ ConnectedIsOnline' /\ HeardFits'
<1> USE DEF WatchersInv, PresenceInv
<1>1. OneByOne'
  BY DEF PresenceTypeOK, SocketsFit, OneByOne, SocketsOf, Alive, Running, Verify
<1>2. RoomsFit'
  BY DEF PresenceTypeOK, SocketsFit, RoomsFit, Verify
<1>3. ConnectedIsOnline'
  BY DEF PresenceTypeOK, SocketsFit, OneByOne, SocketsOf, Alive, Running, ConnectedIsOnline,
         Verify
<1>4. HeardFits'
  BY DEF PresenceTypeOK, SocketsFit, OneByOne, SocketsOf, Alive, Running, RoomsFit, HeardFits,
     ConnectedIsOnline, Emitting, Verify
<1>5. QED
  BY <1>1, <1>2, <1>3, <1>4

\* A socket has heard nothing when it joins its rooms.
LEMMA JoinRoomsWatched ==
    ASSUME WatchersInv, NEW s \in Sockets, JoinRooms(s)
    PROVE  OneByOne' /\ RoomsFit' /\ ConnectedIsOnline' /\ HeardFits'
<1> USE DEF WatchersInv, PresenceInv
<1>1. OneByOne'
  BY DEF PresenceTypeOK, SocketsFit, OneByOne, SocketsOf, Alive, Running, JoinRooms
<1>2. RoomsFit'
  BY DEF PresenceTypeOK, SocketsFit, RoomsFit, JoinRooms
<1>3. ConnectedIsOnline'
  BY DEF PresenceTypeOK, SocketsFit, OneByOne, SocketsOf, Alive, Running, ConnectedIsOnline,
         JoinRooms
<1>4. HeardFits'
  BY DEF PresenceTypeOK, SocketsFit, OneByOne, SocketsOf, Alive, Running, RoomsFit, HeardFits,
     ConnectedIsOnline, Emitting, JoinRooms
<1>5. QED
  BY <1>1, <1>2, <1>3, <1>4

\* The write of handleConnection is followed by its emission.
LEMMA SetOnlineWatched ==
    ASSUME WatchersInv, NEW s \in Sockets, SetOnline(s)
    PROVE  OneByOne' /\ RoomsFit' /\ ConnectedIsOnline' /\ HeardFits'
<1> USE DEF WatchersInv, PresenceInv
<1>1. OneByOne'
  BY DEF PresenceTypeOK, SocketsFit, OneByOne, SocketsOf, Alive, Running, SetOnline
<1>2. RoomsFit'
  BY DEF PresenceTypeOK, SocketsFit, RoomsFit, SetOnline
<1>3. ConnectedIsOnline'
  BY DEF PresenceTypeOK, SocketsFit, OneByOne, SocketsOf, Alive, Running, ConnectedIsOnline,
         SetOnline
<1>4. HeardFits'
  BY DEF PresenceTypeOK, SocketsFit, OneByOne, SocketsOf, Alive, Running, RoomsFit, HeardFits,
     ConnectedIsOnline, Emitting, SetOnline
<1>5. QED
  BY <1>1, <1>2, <1>3, <1>4

\* What is sent is what was written: nothing of the user's came in between.
LEMMA EmitOnlineWatched ==
    ASSUME WatchersInv, NEW s \in Sockets, EmitOnline(s)
    PROVE  OneByOne' /\ RoomsFit' /\ ConnectedIsOnline' /\ HeardFits'
<1> USE DEF WatchersInv, PresenceInv
<1>1. OneByOne'
  BY DEF PresenceTypeOK, SocketsFit, OneByOne, SocketsOf, Alive, Running, EmitOnline, Tell
<1>2. RoomsFit'
  BY DEF PresenceTypeOK, SocketsFit, RoomsFit, EmitOnline, Tell
<1>3. ConnectedIsOnline'
  BY DEF PresenceTypeOK, SocketsFit, OneByOne, SocketsOf, Alive, Running, ConnectedIsOnline,
         EmitOnline, Tell
<1>4. HeardFits'
  BY DEF PresenceTypeOK, SocketsFit, OneByOne, SocketsOf, Alive, Running, RoomsFit, HeardFits,
     ConnectedIsOnline, Emitting, EmitOnline, Tell
<1>5. QED
  BY <1>1, <1>2, <1>3, <1>4

\* A connection fails before its write.
LEMMA ConnectionFailsWatched ==
    ASSUME WatchersInv, NEW s \in Sockets, ConnectionFails(s)
    PROVE  OneByOne' /\ RoomsFit' /\ ConnectedIsOnline' /\ HeardFits'
<1> USE DEF WatchersInv, PresenceInv
<1>1. OneByOne'
  BY DEF PresenceTypeOK, SocketsFit, OneByOne, SocketsOf, Alive, Running, ConnectionFails,
         AfterDrop
<1>2. RoomsFit'
  BY DEF PresenceTypeOK, SocketsFit, RoomsFit, ConnectionFails
<1>3. ConnectedIsOnline'
  BY DEF PresenceTypeOK, SocketsFit, OneByOne, SocketsOf, Alive, Running, ConnectedIsOnline,
         ConnectionFails
<1>4. HeardFits'
  BY DEF PresenceTypeOK, SocketsFit, OneByOne, SocketsOf, Alive, Running, RoomsFit, HeardFits,
     ConnectedIsOnline, Emitting, ConnectionFails
<1>5. QED
  BY <1>1, <1>2, <1>3, <1>4

\* A socket that drops while its connection is handled tangles its user.
LEMMA HandleDisconnectWatched ==
    ASSUME WatchersInv, NEW s \in Sockets, HandleDisconnect(s)
    PROVE  OneByOne' /\ RoomsFit' /\ ConnectedIsOnline' /\ HeardFits'
<1> USE DEF WatchersInv, PresenceInv
<1>1. OneByOne'
  BY DEF PresenceTypeOK, SocketsFit, OneByOne, SocketsOf, Alive, Running, HandleDisconnect,
         AfterDrop
<1>2. RoomsFit'
  BY DEF PresenceTypeOK, SocketsFit, RoomsFit, HandleDisconnect
<1>3. ConnectedIsOnline'
  BY DEF PresenceTypeOK, SocketsFit, OneByOne, SocketsOf, Alive, Running, ConnectedIsOnline,
         HandleDisconnect
<1>4. HeardFits'
  BY DEF PresenceTypeOK, SocketsFit, OneByOne, SocketsOf, Alive, Running, RoomsFit, HeardFits,
     ConnectedIsOnline, Emitting, HandleDisconnect
<1>5. QED
  BY <1>1, <1>2, <1>3, <1>4

\* The write of handleDisconnect is of the user's only socket.
LEMMA SetOfflineWatched ==
    ASSUME WatchersInv, NEW s \in Sockets, SetOffline(s)
    PROVE  OneByOne' /\ RoomsFit' /\ ConnectedIsOnline' /\ HeardFits'
<1> USE DEF WatchersInv, PresenceInv
<1>1. OneByOne'
  BY DEF PresenceTypeOK, SocketsFit, OneByOne, SocketsOf, Alive, Running, SetOffline
<1>2. RoomsFit'
  BY DEF PresenceTypeOK, SocketsFit, RoomsFit, SetOffline
<1>3. ConnectedIsOnline'
  BY DEF PresenceTypeOK, SocketsFit, OneByOne, SocketsOf, Alive, Running, ConnectedIsOnline,
         SetOffline
<1>4. HeardFits'
  BY DEF PresenceTypeOK, SocketsFit, OneByOne, SocketsOf, Alive, Running, RoomsFit, HeardFits,
     ConnectedIsOnline, Emitting, SetOffline
<1>5. QED
  BY <1>1, <1>2, <1>3, <1>4

\* Nor did anything come between this write and its emission.
LEMMA EmitOfflineWatched ==
    ASSUME WatchersInv, NEW s \in Sockets, EmitOffline(s)
    PROVE  OneByOne' /\ RoomsFit' /\ ConnectedIsOnline' /\ HeardFits'
<1> USE DEF WatchersInv, PresenceInv
<1>1. OneByOne'
  BY DEF PresenceTypeOK, SocketsFit, OneByOne, SocketsOf, Alive, Running, EmitOffline, Tell
<1>2. RoomsFit'
  BY DEF PresenceTypeOK, SocketsFit, RoomsFit, EmitOffline, Tell
<1>3. ConnectedIsOnline'
  BY DEF PresenceTypeOK, SocketsFit, OneByOne, SocketsOf, Alive, Running, ConnectedIsOnline,
         EmitOffline, Tell
<1>4. HeardFits'
  BY DEF PresenceTypeOK, SocketsFit, OneByOne, SocketsOf, Alive, Running, RoomsFit, HeardFits,
     ConnectedIsOnline, Emitting, EmitOffline, Tell
<1>5. QED
  BY <1>1, <1>2, <1>3, <1>4

\* A handler that dies before its emission tangles its user.
LEMMA SocketLostWatched ==
    ASSUME WatchersInv, NEW s \in Sockets, SocketLost(s)
    PROVE  OneByOne' /\ RoomsFit' /\ ConnectedIsOnline' /\ HeardFits'
<1> USE DEF WatchersInv, PresenceInv
<1>1. OneByOne'
  BY DEF PresenceTypeOK, SocketsFit, OneByOne, SocketsOf, Alive, Running, SocketLost
<1>2. RoomsFit'
  BY DEF PresenceTypeOK, SocketsFit, RoomsFit, SocketLost
<1>3. ConnectedIsOnline'
  BY DEF PresenceTypeOK, SocketsFit, OneByOne, SocketsOf, Alive, Running, ConnectedIsOnline,
         SocketLost
<1>4. HeardFits'
  BY DEF PresenceTypeOK, SocketsFit, OneByOne, SocketsOf, Alive, Running, RoomsFit, HeardFits,
     ConnectedIsOnline, Emitting, SocketLost
<1>5. QED
  BY <1>1, <1>2, <1>3, <1>4

\* Each step keeps what is said of watchers.
LEMMA WatchersStep == WatchersInv /\ [PresenceNext]_presenceVars => WatchersInv'
<1> SUFFICES ASSUME WatchersInv, [PresenceNext]_presenceVars
             PROVE  WatchersInv'
  OBVIOUS
<1>1. PresenceInv'
  BY PresenceStep DEF WatchersInv
<1>2. CASE UNCHANGED presenceVars
  <2>1. OneByOne'
    BY <1>2 DEF presenceVars, WatchersInv, OneByOne, SocketsOf, Alive, Running
  <2>2. RoomsFit' /\ ConnectedIsOnline'
    BY <1>2 DEF presenceVars, WatchersInv, RoomsFit, ConnectedIsOnline
  <2>3. HeardFits'
    BY <1>2 DEF presenceVars, WatchersInv, HeardFits, Emitting, SocketsOf
  <2>4. QED
    BY <1>1, <2>1, <2>2, <2>3 DEF WatchersInv
<1>3. CASE PresenceNext
  BY <1>1, <1>3, HandleConnectionWatched, VerifyWatched, JoinRoomsWatched, SetOnlineWatched,
     EmitOnlineWatched, ConnectionFailsWatched, HandleDisconnectWatched,
     SetOfflineWatched, EmitOfflineWatched, SocketLostWatched DEF PresenceNext, WatchersInv
<1>4. QED
  BY <1>2, <1>3

\* The sockets and the handlers of a user who is not tangled come one after the
\* other, and what was written was sent before the next of them writes.
THEOREM WatchersInvariant == PresenceSpec => []WatchersInv
<1>1. PresenceInit => WatchersInv
  <2>1. ASSUME PresenceInit
        PROVE  OneByOne /\ RoomsFit /\ ConnectedIsOnline /\ HeardFits
    BY <2>1, PresenceAssumption
       DEF PresenceInit, OneByOne, SocketsOf, RoomsFit, ConnectedIsOnline, HeardFits
  <2>2. QED
    BY <2>1, PresenceInitKeeps DEF WatchersInv
<1>2. QED
  BY <1>1, WatchersStep, PTL DEF PresenceSpec

\* A user whose sockets did not overlap is online while connected, whatever
\* earlier sockets of theirs and failed connections did.
THEOREM ConnectedUsersAreOnline == PresenceSpec => []ConnectedIsOnline
<1>1. WatchersInv => ConnectedIsOnline
  BY DEF WatchersInv
<1>2. QED
  BY <1>1, WatchersInvariant, PTL

\* When the handlers of such a user's sockets are over, the sockets in the
\* user's room heard last what isOnline says.
THEOREM WatchersAlwaysAgree == PresenceSpec => []WatchersAgree
<1>1. ASSUME WatchersInv
      PROVE  WatchersAgree
  <2>1. ASSUME NEW u \in Clients, Quiet(u)
        PROVE  ~Emitting(u)
    BY <2>1 DEF Quiet, Emitting, Running
  <2>2. QED
    BY <1>1, <2>1 DEF WatchersInv, HeardFits, WatchersAgree
<1>2. QED
  BY <1>1, WatchersInvariant, PTL

=============================================================================
