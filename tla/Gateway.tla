------------------------------ MODULE Gateway ------------------------------
(***************************************************************************)
(* What AppGateway sends: events of conversations, which ChatService hands *)
(* to it (Chat), and who is online (Presence).  They share no state, since *)
(* Chat records what was emitted and Presence who is connected, so that a  *)
(* behaviour is of one kind and the other state is the initial one.        *)
(***************************************************************************)
EXTENDS Chat, Presence

VARIABLE kind  \* of the behaviour

gatewayVars == <<kind, vars, presenceVars>>

GatewayInit == kind \in {"chat", "presence"} /\ Init /\ PresenceInit

GatewayNext ==
    \/ kind = "chat" /\ Next /\ UNCHANGED <<kind, presenceVars>>
    \/ kind = "presence" /\ PresenceNext /\ UNCHANGED <<kind, vars>>

GatewaySpec == GatewayInit /\ [][GatewayNext]_gatewayVars

=============================================================================
