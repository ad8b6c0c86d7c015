------------------------------ MODULE Presence ------------------------------
(***************************************************************************)
(* AppGateway (src/src/socket/app.gateway.ts): who is shown as online.     *)
(* Each socket runs handleConnection and, when it drops, handleDisconnect; *)
(* the second does not wait for the first, and the sockets of a user, in   *)
(* one process or several, do not wait for one another.                    *)
(*                                                                         *)
(* connecting[s] and closing[s] name the await the two handlers of socket  *)
(* s are in.  Socket.IO is external: an emission reaches the sockets that  *)
(* are in the room and connected at that moment.                           *)
(***************************************************************************)
EXTENDS Accounts

CONSTANTS
    Clients,  \* the users who connect
    Sockets   \* connections, each used once

ASSUME PresenceAssumption == None \notin Clients

VARIABLES
    owner,       \* whose access token a socket presented; None: not opened yet
    link,        \* the sockets that are connected
    connecting,  \* handleConnection of each socket
    closing,     \* handleDisconnect of each socket
    room,        \* the users whose presence room a socket has joined
    isOnline,    \* User.isOnline, as a set
    heard,       \* the last user_status a socket was sent, by user
    \* History.
    stranded,    \* users whose isOnline was left TRUE by a handler that died,
                 \* or was set for a socket whose handleDisconnect was over
    tangled      \* users of whom two sockets, or two handlers, overlapped, or
                 \* a handler died between its write and its emission

presenceVars == <<owner, link, connecting, closing, room, isOnline, heard, stranded,
          tangled>>

Connecting == {"idle", "verify", "join", "online", "emit", "done", "failed"}
Closing == {"idle", "offline", "emit", "done"}

PresenceTypeOK ==
    /\ owner \in [Sockets -> Clients \cup {None}]
    /\ link \subseteq Sockets
    /\ connecting \in [Sockets -> Connecting]
    /\ closing \in [Sockets -> Closing]
    /\ room \in [Sockets -> SUBSET Clients]
    /\ isOnline \subseteq Clients
    /\ heard \in [Sockets -> [Clients -> {"nothing", "online", "offline"}]]
    /\ stranded \subseteq Clients
    /\ tangled \subseteq Clients

PresenceInit ==
    /\ owner = [s \in Sockets |-> None]
    /\ link = {}
    /\ connecting = [s \in Sockets |-> "idle"]
    /\ closing = [s \in Sockets |-> "idle"]
    /\ room = [s \in Sockets |-> {}]
    /\ isOnline = {}
    /\ heard = [s \in Sockets |-> [u \in Clients |-> "nothing"]]
    /\ stranded = {}
    /\ tangled = {}

SocketsOf(u) == {s \in Sockets : owner[s] = u}

\* Handlers under way.
Running(s) == \/ connecting[s] \in {"verify", "join", "online", "emit"}
              \/ closing[s] \in {"offline", "emit"}

\* The socket has had isOnline set, and is still to have it reset.
Holds(s) == connecting[s] \in {"emit", "done"} /\ closing[s] \in {"idle", "offline"}

\* Emits user_status of u to its presence room.
Tell(u, status) ==
    heard' = [w \in Sockets |->
        IF w \in link /\ u \in room[w] THEN [heard[w] EXCEPT ![u] = status]
        ELSE heard[w]]

----------------------------------------------------------------------------
(* handleConnection.                                                       *)
(***************************************************************************)
HandleConnection(s, u) ==
    /\ owner[s] = None
    /\ owner' = [owner EXCEPT ![s] = u]
    /\ link' = link \cup {s}
    /\ connecting' = [connecting EXCEPT ![s] = "verify"]
    /\ tangled' = IF \E w \in SocketsOf(u) : w \in link \/ Running(w)
                  THEN tangled \cup {u} ELSE tangled
    /\ UNCHANGED <<closing, room, isOnline, heard, stranded>>

\* The token is good: data.user is set.
Verify(s) ==
    /\ connecting[s] = "verify"
    /\ connecting' = [connecting EXCEPT ![s] = "join"]
    /\ UNCHANGED <<owner, link, closing, room, isOnline, heard, stranded, tangled>>

\* The Follow rows of the user, of any status, name the rooms to join; they are
\* any at all here.  The user's own room is joined with them.
JoinRooms(s) ==
    /\ connecting[s] = "join"
    /\ \E followed \in SUBSET (Clients \ {owner[s]}) :
           room' = [room EXCEPT ![s] = followed \cup {owner[s]}]
    /\ connecting' = [connecting EXCEPT ![s] = "online"]
    /\ UNCHANGED <<owner, link, closing, isOnline, heard, stranded, tangled>>

\* Mutant: the status is only broadcast.
SetOnlineNoWrite(s) ==
    /\ connecting[s] = "online"
    /\ connecting' = [connecting EXCEPT ![s] = "emit"]
    /\ UNCHANGED <<owner, link, closing, room, isOnline, heard, stranded, tangled>>

SetOnline(s) ==
    /\ connecting[s] = "online"
    /\ isOnline' = isOnline \cup {owner[s]}
    /\ stranded' = IF closing[s] \in {"emit", "done"}
                   THEN stranded \cup {owner[s]} ELSE stranded
    /\ connecting' = [connecting EXCEPT ![s] = "emit"]
    /\ UNCHANGED <<owner, link, closing, room, heard, tangled>>

EmitOnline(s) ==
    /\ connecting[s] = "emit"
    /\ Tell(owner[s], "online")
    /\ connecting' = [connecting EXCEPT ![s] = "done"]
    /\ UNCHANGED <<owner, link, closing, room, isOnline, stranded, tangled>>

\* Before data.user is set handleDisconnect has nothing to do.
AfterDrop(s) == IF connecting[s] = "verify" THEN "done" ELSE "offline"

\* The token is refused or a statement fails: the catch disconnects the client,
\* which runs handleDisconnect unless the socket had dropped before.
ConnectionFails(s) ==
    /\ connecting[s] \in {"verify", "join", "online"}
    /\ connecting' = [connecting EXCEPT ![s] = "failed"]
    /\ \/ /\ s \in link
          /\ link' = link \ {s}
          /\ closing' = [closing EXCEPT ![s] = AfterDrop(s)]
       \/ /\ s \notin link
          /\ UNCHANGED <<link, closing>>
    /\ UNCHANGED <<owner, room, isOnline, heard, stranded, tangled>>

----------------------------------------------------------------------------
(* handleDisconnect.                                                       *)
(***************************************************************************)
HandleDisconnect(s) ==
    /\ s \in link
    /\ link' = link \ {s}
    /\ closing' = [closing EXCEPT ![s] = AfterDrop(s)]
    /\ tangled' = IF Running(s) THEN tangled \cup {owner[s]} ELSE tangled
    /\ UNCHANGED <<owner, connecting, room, isOnline, heard, stranded>>

\* Mutant: only lastSeenAt is written.
SetOfflineLastSeen(s) ==
    /\ closing[s] = "offline"
    /\ closing' = [closing EXCEPT ![s] = "emit"]
    /\ UNCHANGED <<owner, link, connecting, room, isOnline, heard, stranded, tangled>>

SetOffline(s) ==
    /\ closing[s] = "offline"
    /\ isOnline' = isOnline \ {owner[s]}
    /\ stranded' = stranded \ {owner[s]}
    /\ closing' = [closing EXCEPT ![s] = "emit"]
    /\ UNCHANGED <<owner, link, connecting, room, heard, tangled>>

\* Mutant: the emission of handleConnection, copied.
EmitOfflineOnline(s) ==
    /\ closing[s] = "emit"
    /\ Tell(owner[s], "online")
    /\ closing' = [closing EXCEPT ![s] = "done"]
    /\ UNCHANGED <<owner, link, connecting, room, isOnline, stranded, tangled>>

EmitOffline(s) ==
    /\ closing[s] = "emit"
    /\ Tell(owner[s], "offline")
    /\ closing' = [closing EXCEPT ![s] = "done"]
    /\ UNCHANGED <<owner, link, connecting, room, isOnline, stranded, tangled>>

\* The process of a socket stops, or a statement of handleDisconnect fails,
\* which nothing catches: whatever ran for the socket is gone.
SocketLost(s) ==
    /\ s \in link \/ Running(s)
    /\ link' = link \ {s}
    /\ connecting' = [connecting EXCEPT ![s] = "failed"]
    /\ closing' = [closing EXCEPT ![s] = "done"]
    /\ stranded' = IF Holds(s) THEN stranded \cup {owner[s]} ELSE stranded
    /\ tangled' = IF connecting[s] = "emit" \/ closing[s] = "emit"
                  THEN tangled \cup {owner[s]} ELSE tangled
    /\ UNCHANGED <<owner, room, isOnline, heard>>

PresenceNext ==
    \/ \E s \in Sockets, u \in Clients : HandleConnection(s, u)
    \/ \E s \in Sockets :
        \/ Verify(s) \/ JoinRooms(s) \/ SetOnline(s) \/ EmitOnline(s)
        \/ ConnectionFails(s) \/ HandleDisconnect(s) \/ SetOffline(s)
        \/ EmitOffline(s) \/ SocketLost(s)

PresenceSpec == PresenceInit /\ [][PresenceNext]_presenceVars

----------------------------------------------------------------------------
(* Properties.                                                             *)
(***************************************************************************)
Quiet(u) == \A s \in SocketsOf(u) : ~Running(s)

\* However many sockets a user had and however their handlers were
\* interleaved: when all of them are gone and handled, the user is offline,
\* unless a handler died, or a connection handler ran to its end for a socket
\* that had dropped, and no disconnect has been written since.
GoneIsOffline ==
    \A u \in Clients :
        Quiet(u) /\ SocketsOf(u) \cap link = {} /\ u \in isOnline => u \in stranded

\* A user whose sockets did not overlap is online while connected: neither the
\* late disconnect of an earlier socket nor a failed connection shows them as
\* offline.
ConnectedIsOnline ==
    \A s \in link :
        connecting[s] \in {"emit", "done"} /\ owner[s] \notin tangled
            => owner[s] \in isOnline

\* What the sockets in a user's presence room heard last is what the database
\* says, once the handlers of that user's sockets are over, if they never
\* overlapped: events and writes come in the same order.
WatchersAgree ==
    \A u \in Clients \ tangled, w \in link :
        Quiet(u) /\ u \in room[w] /\ heard[w][u] # "nothing"
            => (heard[w][u] = "online" <=> u \in isOnline)

----------------------------------------------------------------------------
(* The inductive strengthening of GoneIsOffline.                           *)
(***************************************************************************)
\* Handlers run for opened sockets; one that has dropped or failed has its
\* handleDisconnect behind it or under way.
SocketsFit ==
    \A s \in Sockets :
        /\ connecting[s] # "idle" => owner[s] \in Clients
        /\ s \in link => connecting[s] # "idle"
        /\ closing[s] # "idle" => connecting[s] # "idle"
        /\ s \in link <=> connecting[s] # "idle" /\ closing[s] = "idle"

\* An online user is so by a socket whose disconnect is still to be written.
OnlineIsHeld ==
    \A u \in isOnline : u \in stranded \/ \E s \in SocketsOf(u) : Holds(s)

PresenceInv == PresenceTypeOK /\ SocketsFit /\ OnlineIsHeld

----------------------------------------------------------------------------
(* That of ConnectedIsOnline and WatchersAgree, for users not tangled.     *)
(***************************************************************************)
Alive(s) == s \in link \/ Running(s)
Emitting(u) == \E s \in SocketsOf(u) : connecting[s] = "emit" \/ closing[s] = "emit"

\* One socket at a time, one handler at a time.
OneByOne ==
    \A s \in Sockets : owner[s] \in Clients \ tangled =>
        /\ \A w \in SocketsOf(owner[s]) : Alive(s) /\ Alive(w) => s = w
        /\ connecting[s] \in {"verify", "join", "online", "emit"} => closing[s] = "idle"
        /\ closing[s] = "emit" => owner[s] \notin isOnline

\* Nothing is heard from outside a room, and no room is joined early.
RoomsFit ==
    \A w \in Sockets :
        /\ connecting[w] \in {"idle", "verify", "join"} => room[w] = {}
        /\ \A u \in Clients \ room[w] : heard[w][u] = "nothing"

\* Between the emissions what was heard is what was written.
HeardFits ==
    \A u \in Clients \ tangled, w \in link :
        ~Emitting(u) /\ u \in room[w] /\ heard[w][u] # "nothing"
            => (heard[w][u] = "online" <=> u \in isOnline)

WatchersInv == PresenceInv /\ OneByOne /\ RoomsFit /\ ConnectedIsOnline /\ HeardFits

=============================================================================
