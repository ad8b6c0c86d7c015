----------------------------- MODULE Campaigns -----------------------------
(***************************************************************************)
(* The promotions of CreatorService (src/src/creator/creator.service.ts).  *)
(* A promotion names its target without a foreign key; nothing but a       *)
(* listing ever notices that its end has come.                             *)
(***************************************************************************)
EXTENDS Requests

VARIABLES
    status,  \* [Promotions -> the column]
    over,    \* promotions whose endDate has passed
    listed   \* [Calls -> what a listing answered: the rows active, the rows completed]

campaignVars == <<status, over, listed>>

Statuses == {"active", "completed", "cancelled"}
CampaignsTypeOK ==
    /\ status \in [Promotions -> Statuses] /\ over \subseteq Promotions
    /\ listed \in [Calls -> [active : SUBSET Promotions, completed : SUBSET Promotions]]

CampaignsInit ==
    /\ status = [q \in Promotions |-> "active"] /\ over = {}
    /\ listed = [c \in Calls |-> [active |-> {}, completed |-> {}]]

OfUser(u) == {q \in Promotions \cap rows : owner[q] = u}
Lapsed(u) == {q \in OfUser(u) \cap over : status[q] = "active"}

----------------------------------------------------------------------------
(* createPromotion: the target must be the user's when it is looked up.    *)
(***************************************************************************)
PromoteFind(c) ==
    /\ \E u \in Actors, x \in (Posts \cup Stories) \cap used :
           Begin(c, "promote", u, x, None, {}, 0,
                 IF x \in rows /\ owner[x] = u THEN "write" ELSE "refused")
    /\ UNCHANGED <<contentVars, notice, campaignVars>>
Promote(c) ==
    /\ At(c, "promote", "write")
    /\ \E q \in Promotions : MakeRow(q, call[c].user, {}, {})
    /\ Wrote(c, "created", {})
    /\ UNCHANGED <<notice, campaignVars>>

----------------------------------------------------------------------------
(* getPromotions: completes what is due, deletes what was cancelled (no    *)
(* code cancels by status), and finds.                                     *)
(***************************************************************************)
\* Mutant: a status that nothing else knows.
ListComplete_Expired(c) ==
    /\ \E u \in Actors :
           /\ Begin(c, "listPromotions", u, None, None, Lapsed(u), 0, "sweep")
           /\ status' = [q \in Promotions |-> IF q \in Lapsed(u) THEN "expired" ELSE status[q]]
    /\ UNCHANGED <<contentVars, notice, over, listed>>
ListComplete(c) ==
    /\ \E u \in Actors :
           /\ Begin(c, "listPromotions", u, None, None, Lapsed(u), 0, "sweep")
           /\ status' = [q \in Promotions |-> IF q \in Lapsed(u) THEN "completed" ELSE status[q]]
    /\ UNCHANGED <<contentVars, notice, over, listed>>
ListSweep(c) ==
    /\ At(c, "listPromotions", "sweep")
    /\ rows' = rows \ {q \in OfUser(call[c].user) : status[q] = "cancelled"}
    /\ Goto(c, "list")
    /\ UNCHANGED <<used, owner, within, parts, notice, campaignVars>>
ListFind(c) ==
    LET having(s) == {q \in OfUser(call[c].user) : status[q] = s} IN
    /\ At(c, "listPromotions", "list")
    /\ listed' = [listed EXCEPT ![c] = [active |-> having("active"),
                                        completed |-> having("completed")]]
    /\ Goto(c, "ended")
    /\ UNCHANGED <<contentVars, notice, status, over>>

----------------------------------------------------------------------------
(* cancelPromotion deletes by id what it found to be the user's and not    *)
(* completed.                                                              *)
(***************************************************************************)
BeginCancel(c, u, q, allowed) ==
    /\ Begin(c, "cancel", u, q, None, {}, 0,
             IF q \in OfUser(u) /\ status[q] \in allowed THEN "write" ELSE "refused")
    /\ UNCHANGED <<contentVars, notice, campaignVars>>
\* Mutant: the status is not looked at.
CancelFind_Any(c) ==
    \E u \in Actors, q \in Promotions \cap used : BeginCancel(c, u, q, Statuses)
CancelFind(c) ==
    \E u \in Actors, q \in Promotions \cap used : BeginCancel(c, u, q, Statuses \ {"completed"})
Cancel(c) ==
    /\ At(c, "cancel", "write")
    /\ IF call[c].on \in rows
       THEN rows' = rows \ {call[c].on} /\ Wrote(c, "deleted", {})
       ELSE Goto(c, "failed") /\ UNCHANGED rows
    /\ UNCHANGED <<used, owner, within, parts, notice, campaignVars>>

\* The endDate of a promotion passes.
EndDatePasses ==
    /\ \E q \in (Promotions \cap rows) \ over : over' = over \cup {q}
    /\ UNCHANGED <<requestVars, status, listed>>

----------------------------------------------------------------------------
CampaignsStep(c) ==
    \/ PromoteFind(c) \/ Promote(c)
    \/ ListComplete(c) \/ ListSweep(c) \/ ListFind(c)
    \/ CancelFind(c) \/ Cancel(c)

=============================================================================
