-------------------------------- MODULE Chat --------------------------------
(***************************************************************************)
(* ChatService (src/src/chat/chat.service.ts): conversations between two   *)
(* users and of groups, the messages sent into them, their removal, and    *)
(* the events its handlers broadcast.                                      *)
(*                                                                         *)
(* call[c] is what a handler in flight remembers across its next await.    *)
(* An event is emitted by the code that runs after the statement before it *)
(* has returned, so a call that waits to emit is a step of its own.        *)
(***************************************************************************)
EXTENDS Accounts, FiniteSets

CONSTANTS
    Conversations,  \* ids of conversations, each drawn once
    Messages,       \* ids of messages, each drawn once
    Calls           \* slots for calls in flight at the same time

ASSUME ChatAssumption == None \notin Conversations \cup Messages

VARIABLES
    conversation,  \* [Conversations -> ConversationRow]
    message,       \* [Messages -> MessageRow]
    told,          \* what was emitted: <<event, id, user>>
    call,          \* the calls in flight
    raced          \* History: pairs for which a direct conversation was made
                   \* while another call had looked for one in vain

vars == <<conversation, message, told, call, raced>>

Event == {"receiveMessage", "conversationDeleted"}
Status == {"unused", "live", "deleted"}
ConversationRow == [status : Status, isGroup : {"no", "yes"}, participants : SUBSET Users]

\* recipient is the recipientId the message was sent with; the row has no such
\* column.
MessageRow == [status : Status, conversation : Conversations \cup {None},
               sender : Users \cup {None}, recipient : Users \cup {None}]

Step == {"idle", "createDirect", "message", "emit", "announce", "delete"}

\* sends: whether the call goes on to send a message.
CallRecord == [step : Step, user : Users \cup {None}, peer : Users \cup {None},
               conversation : Conversations \cup {None},
               message : Messages \cup {None}, sends : {"no", "yes"}]

Idle == [step |-> "idle", user |-> None, peer |-> None, conversation |-> None,
         message |-> None, sends |-> "no"]

TypeOK ==
    /\ conversation \in [Conversations -> ConversationRow]
    /\ message \in [Messages -> MessageRow]
    /\ told \subseteq Event \X (Messages \cup Conversations) \X Users
    /\ call \in [Calls -> CallRecord]
    /\ raced \subseteq SUBSET Users

Init ==
    /\ conversation = [k \in Conversations |->
           [status |-> "unused", isGroup |-> "no", participants |-> {}]]
    /\ message = [m \in Messages |->
           [status |-> "unused", conversation |-> None, sender |-> None,
            recipient |-> None]]
    /\ told = {}
    /\ call = [c \in Calls |-> Idle]
    /\ raced = {}

Goto(c, rec) == call' = [call EXCEPT ![c] = rec]
Finish(c) == Goto(c, Idle)

Live(k) == conversation[k].status = "live"

\* The conversations findFirst may return for a pair: not a group, some
\* participant is u and some participant is v.
Direct(u, v) ==
    {k \in Conversations : /\ Live(k)
                           /\ conversation[k].isGroup = "no"
                           /\ {u, v} \subseteq conversation[k].participants}

Insert(k, group, members) ==
    /\ conversation[k].status = "unused"
    /\ conversation' = [conversation EXCEPT ![k] =
           [status |-> "live", isGroup |-> group, participants |-> members]]

----------------------------------------------------------------------------
(* createGroup.  One other user and no name stand for a direct             *)
(* conversation, which is looked for first; anything else is a new group.  *)
(***************************************************************************)
CreateGroup(u, others) ==
    LET members == others \ {u} IN
    /\ members # {}
    /\ \E k \in Conversations : Insert(k, "yes", members \cup {u})
    /\ UNCHANGED <<message, told, call, raced>>

\* Mutant: the existing conversation is not looked for.
CreateGroupFindNone(c, u, v) ==
    /\ call[c] = Idle
    /\ u # v
    /\ Goto(c, [Idle EXCEPT !.step = "createDirect", !.user = u, !.peer = v])
    /\ UNCHANGED <<conversation, message, told, raced>>

CreateGroupFind(c, u, v) ==
    /\ call[c] = Idle
    /\ u # v
    /\ Direct(u, v) = {}
    /\ Goto(c, [Idle EXCEPT !.step = "createDirect", !.user = u, !.peer = v])
    /\ UNCHANGED <<conversation, message, told, raced>>

----------------------------------------------------------------------------
(* sendMessage, to a conversation or to a recipient.                       *)
(***************************************************************************)
SendFind(c, u, k) ==
    /\ call[c] = Idle
    /\ Live(k)
    /\ u \in conversation[k].participants
    /\ Goto(c, [Idle EXCEPT !.step = "message", !.user = u, !.conversation = k])
    /\ UNCHANGED <<conversation, message, told, raced>>

\* Mutant: the lookup forgets isGroup: false.
SendFindDirectOrGroup(c, u, v) ==
    LET found == {k \in Conversations :
                    Live(k) /\ {u, v} \subseteq conversation[k].participants}
    IN
    /\ call[c] = Idle
    /\ \/ \E k \in found :
              Goto(c, [Idle EXCEPT !.step = "message", !.user = u, !.peer = v,
                                   !.conversation = k])
       \/ /\ found = {}
          /\ Goto(c, [Idle EXCEPT !.step = "createDirect", !.user = u, !.peer = v,
                                  !.sends = "yes"])
    /\ UNCHANGED <<conversation, message, told, raced>>

SendFindDirect(c, u, v) ==
    /\ call[c] = Idle
    /\ \/ \E k \in Direct(u, v) :
              Goto(c, [Idle EXCEPT !.step = "message", !.user = u, !.peer = v,
                                   !.conversation = k])
       \/ /\ Direct(u, v) = {}
          /\ Goto(c, [Idle EXCEPT !.step = "createDirect", !.user = u, !.peer = v,
                                  !.sends = "yes"])
    /\ UNCHANGED <<conversation, message, told, raced>>

\* Calls that have looked for the direct conversation of a pair in vain.
Missed(pair) == {c \in Calls : /\ call[c].step = "createDirect"
                               /\ {call[c].user, call[c].peer} = pair}

\* The two participant rows must differ: a user has no direct conversation
\* with themselves.  No constraint keeps a pair from having several.
CreateDirect(c) ==
    LET pair == {call[c].user, call[c].peer} IN
    /\ call[c].step = "createDirect"
    /\ call[c].user # call[c].peer
    /\ \E k \in Conversations :
        /\ Insert(k, "no", pair)
        /\ \/ /\ call[c].sends = "yes"
              /\ Goto(c, [call[c] EXCEPT !.step = "message", !.conversation = k])
           \/ /\ call[c].sends = "no"
              /\ Finish(c)
    /\ raced' = IF Missed(pair) = {c} THEN raced ELSE raced \cup {pair}
    /\ UNCHANGED <<message, told>>

\* The foreign key refuses the message when the conversation is gone.
MessageCreate(c) ==
    /\ call[c].step = "message"
    /\ Live(call[c].conversation)
    /\ \E m \in Messages :
        /\ message[m].status = "unused"
        /\ message' = [message EXCEPT ![m] =
               [status |-> "live", conversation |-> call[c].conversation,
                sender |-> call[c].user, recipient |-> call[c].peer]]
        /\ Goto(c, [Idle EXCEPT !.step = "emit", !.message = m,
                                !.conversation = call[c].conversation])
    /\ UNCHANGED <<conversation, told, raced>>

\* The participants were read with the conversation; they never change.
MessageEmit(c) ==
    /\ call[c].step = "emit"
    /\ told' = told \cup ({"receiveMessage"} \X {call[c].message}
                             \X conversation[call[c].conversation].participants)
    /\ Finish(c)
    /\ UNCHANGED <<conversation, message, raced>>

----------------------------------------------------------------------------
(* deleteConversation: any participant may delete it for all.  The event   *)
(* goes out before the DELETE, which raises when another was faster.       *)
(***************************************************************************)
DeleteFind(c, u, k) ==
    /\ call[c] = Idle
    /\ Live(k)
    /\ u \in conversation[k].participants
    /\ Goto(c, [Idle EXCEPT !.step = "announce", !.user = u, !.conversation = k])
    /\ UNCHANGED <<conversation, message, told, raced>>

\* Mutant: only the others are told.
DeleteAnnounceOthers(c) ==
    LET k == call[c].conversation IN
    /\ call[c].step = "announce"
    /\ \/ /\ Live(k)
          /\ told' = told \cup ({"conversationDeleted"} \X {k}
                         \X (conversation[k].participants \ {call[c].user}))
       \/ /\ ~Live(k)
          /\ UNCHANGED told
    /\ Goto(c, [call[c] EXCEPT !.step = "delete"])
    /\ UNCHANGED <<conversation, message, raced>>

DeleteAnnounce(c) ==
    LET k == call[c].conversation IN
    /\ call[c].step = "announce"
    /\ \/ /\ Live(k)
          /\ told' = told \cup ({"conversationDeleted"} \X {k}
                                   \X conversation[k].participants)
       \/ /\ ~Live(k)
          /\ UNCHANGED told
    /\ Goto(c, [call[c] EXCEPT !.step = "delete"])
    /\ UNCHANGED <<conversation, message, raced>>

DeleteRow(c) ==
    LET k == call[c].conversation IN
    /\ call[c].step = "delete"
    /\ Live(k)
    /\ conversation' = [conversation EXCEPT ![k].status = "deleted"]
    /\ message' = [m \in Messages |->
           IF message[m].conversation = k THEN [message[m] EXCEPT !.status = "deleted"]
           ELSE message[m]]
    /\ Finish(c)
    /\ UNCHANGED <<told, raced>>

\* A call in flight ends without its remaining steps.
CallDies(c) ==
    /\ call[c] # Idle
    /\ Finish(c)
    /\ UNCHANGED <<conversation, message, told, raced>>

Next ==
    \/ \E u \in Users, others \in SUBSET Users : CreateGroup(u, others)
    \/ \E c \in Calls, u, v \in Users : CreateGroupFind(c, u, v) \/ SendFindDirect(c, u, v)
    \/ \E c \in Calls, u \in Users, k \in Conversations :
        SendFind(c, u, k) \/ DeleteFind(c, u, k)
    \/ \E c \in Calls :
        \/ CreateDirect(c) \/ MessageCreate(c) \/ MessageEmit(c)
        \/ DeleteAnnounce(c) \/ DeleteRow(c) \/ CallDies(c)

Spec == Init /\ [][Next]_vars

----------------------------------------------------------------------------
(* Properties.                                                             *)
(***************************************************************************)
\* "Find or create 1-on-1 conversation" (line 168): two users have one direct
\* conversation, whichever of them began it and by which endpoint, unless two
\* calls that had both looked in vain have overlapped.
DuplicateOnlyByRace ==
    \A k1, k2 \in Conversations :
        /\ Live(k1) /\ conversation[k1].isGroup = "no"
        /\ Live(k2) /\ conversation[k2].isGroup = "no"
        /\ conversation[k1].participants = conversation[k2].participants
        => k1 = k2 \/ conversation[k1].participants \in raced

\* A message sent to a recipient other than the sender lies in a conversation
\* of just the two, never in a group they share, and is emitted to the two only.
ReachesItsRecipientOnly ==
    \A m \in Messages :
        message[m].status # "unused" /\ message[m].recipient \notin {None, message[m].sender}
        => /\ conversation[message[m].conversation].isGroup = "no"
           /\ conversation[message[m].conversation].participants =
                  {message[m].sender, message[m].recipient}
           /\ \A u \in Users : <<"receiveMessage", m, u>> \in told =>
                  u \in {message[m].sender, message[m].recipient}

\* No conversation disappears unannounced: every participant, the one who
\* deleted it included, was told first, even when deletes race or die.
GoneWasAnnounced ==
    \A k \in Conversations : conversation[k].status = "deleted" =>
        \A u \in conversation[k].participants : <<"conversationDeleted", k, u>> \in told

----------------------------------------------------------------------------
(* The inductive invariant.                                                *)
(***************************************************************************)
Used(k) == conversation[k].status # "unused"
ToldOf(k) == \A u \in conversation[k].participants : <<"conversationDeleted", k, u>> \in told

\* k is the conversation of u and v alone.
IsBetween(k, u, v) ==
    conversation[k].isGroup = "no" /\ conversation[k].participants = {u, v}

\* Only groups have other participants than two.
ConversationsFit ==
    \A k \in Conversations : Used(k) /\ conversation[k].isGroup = "no" =>
        \E u, v \in Users : u # v /\ conversation[k].participants = {u, v}

\* What calls in flight have found, written or announced.
LookFits(c) ==
    call[c].step = "createDirect" => call[c].user \in Users /\ call[c].peer \in Users
FoundFits(c) ==
    call[c].step \in {"message", "emit", "announce", "delete"} =>
        call[c].conversation \in Conversations /\ Used(call[c].conversation)
AddressFits(c) ==
    (call[c].step = "message" /\ call[c].peer \notin {None, call[c].user}) =>
        IsBetween(call[c].conversation, call[c].user, call[c].peer)
EmitFits(c) ==
    call[c].step = "emit" =>
        /\ call[c].message \in Messages /\ message[call[c].message].status # "unused"
        /\ message[call[c].message].conversation = call[c].conversation
DeleteFits(c) == call[c].step = "delete" => ToldOf(call[c].conversation)
CallFits(c) == LookFits(c) /\ FoundFits(c) /\ AddressFits(c) /\ EmitFits(c) /\ DeleteFits(c)
CallsFit == \A c \in Calls : CallFits(c)

\* A message stays where it was sent, and only its participants were told of it.
UnsentFit == \A m \in Messages : message[m].status = "unused" => message[m].conversation = None
MessagesFit ==
    \A m \in Messages : message[m].status # "unused" =>
        /\ message[m].conversation \in Conversations /\ Used(message[m].conversation)
        /\ message[m].recipient \notin {None, message[m].sender} =>
               IsBetween(message[m].conversation, message[m].sender, message[m].recipient)
ToldFits ==
    \A m \in Messages, u \in Users : <<"receiveMessage", m, u>> \in told =>
        /\ message[m].status # "unused"
        /\ u \in conversation[message[m].conversation].participants

\* While a call that looked in vain is to create a conversation there is none of
\* the pair, or the look was overtaken.
NoneMade(pair) ==
    \A k \in Conversations :
        Live(k) /\ conversation[k].isGroup = "no" => conversation[k].participants # pair
LookStands(c) ==
    LET pair == {call[c].user, call[c].peer} IN
    (call[c].step = "createDirect" /\ call[c].user # call[c].peer /\ pair \notin raced) =>
        NoneMade(pair)
NoneFoundYet == \A c \in Calls : LookStands(c)

ChatInv ==
    /\ TypeOK /\ ConversationsFit /\ CallsFit /\ UnsentFit /\ MessagesFit /\ ToldFits
    /\ NoneFoundYet /\ DuplicateOnlyByRace /\ GoneWasAnnounced

=============================================================================
