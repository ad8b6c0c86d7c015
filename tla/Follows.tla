------------------------------ MODULE Follows ------------------------------
(***************************************************************************)
(* FollowsService (src/src/follows/follows.service.ts): following and      *)
(* unfollowing, requests to private accounts, blocks, and the              *)
(* notifications these calls create.                                       *)
(*                                                                         *)
(* As in Auth, call[c] is what a handler in flight remembers across its    *)
(* next await, each action is the code between two awaits with the         *)
(* statement it waits for, and a call that answers an error before it      *)
(* wrote anything is not a step.  Usernames stand for user ids, which the  *)
(* first read of every handler turns them into.  Accounts are neither made *)
(* nor removed here.                                                       *)
(***************************************************************************)
EXTENDS FiniteSets

CONSTANTS
    Users,
    Rows,   \* ids of rows of the Follow table, each drawn once
    Calls,  \* slots for calls in flight at the same time
    None

ASSUME FollowsAssumption == None \notin Users \cup Rows

VARIABLES
    private,       \* Profile.isPrivate, as a set of users
    follow,        \* [Rows -> FollowRow]: the Follow table, by id
    block,         \* the Block table: pairs <<blocker, blocked>>
    notification,  \* the Notification rows that the calls below create
    call,          \* the calls in flight
    \* History: what the properties speak of and no code reads.
    everPublic,    \* the users whose profile was public at some time
    approved,      \* rows an accept of their target has found pending
    accepted       \* rows an accept has updated

historyVars == <<everPublic, approved, accepted>>
vars == <<private, follow, block, notification, call, historyVars>>

Live == {"PENDING", "ACCEPTED"}
FollowRow == [follower : Users \cup {None}, following : Users \cup {None},
              status : Live \cup {"unused", "deleted"}]
Notice == [type : {"FOLLOW", "FOLLOW_REQUEST", "FOLLOW_ACCEPTED"}, row : Rows]
Step == {"idle", "checkBlock", "findFollow", "delete", "create", "notify",
         "unfollowBoth", "accept", "reject", "notifyAccepted"}
CallRecord == [step : Step, follower : Users \cup {None},
               following : Users \cup {None}, profile : {"public", "private"},
               row : Rows \cup {None}]

Idle == [step |-> "idle", follower |-> None, following |-> None,
         profile |-> "public", row |-> None]

\* An id that was not drawn yet, or whose row is gone.
NoRow(why) == [follower |-> None, following |-> None, status |-> why]

TypeOK ==
    /\ private \subseteq Users
    /\ follow \in [Rows -> FollowRow]
    /\ block \subseteq Users \X Users
    /\ notification \subseteq Notice
    /\ call \in [Calls -> CallRecord]
    /\ everPublic \subseteq Users
    /\ approved \subseteq Rows
    /\ accepted \subseteq Rows

Init ==
    /\ private \in SUBSET Users
    /\ follow = [r \in Rows |-> NoRow("unused")]
    /\ block = {}
    /\ notification = {}
    /\ call = [c \in Calls |-> Idle]
    /\ everPublic = Users \ private
    /\ approved = {}
    /\ accepted = {}

Goto(c, rec) == call' = [call EXCEPT ![c] = rec]
Finish(c) == Goto(c, Idle)

\* The rows of the unique pair (follower, following): one at most.
Between(d, b) == {r \in Rows : /\ follow[r].follower = d
                               /\ follow[r].following = b
                               /\ follow[r].status \in Live}

\* A delete by id: raises when the row is gone.
DeleteRow(r) ==
    /\ follow[r].status \in Live
    /\ follow' = [follow EXCEPT ![r] = NoRow("deleted")]

----------------------------------------------------------------------------
(* toggle.  The target's isPrivate is read with its id, before the block   *)
(* and the existing follow are looked up.                                  *)
(***************************************************************************)
Visibility(u) == IF u \in private THEN "private" ELSE "public"

ToggleFindProfile(c, d, b) ==
    /\ call[c] = Idle
    /\ d # b
    /\ Goto(c, [Idle EXCEPT !.step = "checkBlock", !.follower = d,
                            !.following = b, !.profile = Visibility(b)])
    /\ UNCHANGED <<private, follow, block, notification, historyVars>>

\* Mutant: looks for a block of the target by the caller.
ToggleCheckBlockSwapped(c) ==
    /\ call[c].step = "checkBlock"
    /\ <<call[c].follower, call[c].following>> \notin block
    /\ Goto(c, [call[c] EXCEPT !.step = "findFollow"])
    /\ UNCHANGED <<private, follow, block, notification, historyVars>>

ToggleCheckBlock(c) ==
    /\ call[c].step = "checkBlock"
    /\ \/ /\ <<call[c].following, call[c].follower>> \in block
          /\ Finish(c)
       \/ /\ <<call[c].following, call[c].follower>> \notin block
          /\ Goto(c, [call[c] EXCEPT !.step = "findFollow"])
    /\ UNCHANGED <<private, follow, block, notification, historyVars>>

ToggleFindFollow(c) ==
    /\ call[c].step = "findFollow"
    /\ \/ \E r \in Between(call[c].follower, call[c].following) :
              Goto(c, [Idle EXCEPT !.step = "delete", !.row = r])
       \/ /\ Between(call[c].follower, call[c].following) = {}
          /\ Goto(c, [call[c] EXCEPT !.step = "create"])
    /\ UNCHANGED <<private, follow, block, notification, historyVars>>

ToggleDelete(c) ==
    /\ call[c].step = "delete"
    /\ DeleteRow(call[c].row)
    /\ Finish(c)
    /\ UNCHANGED <<private, block, notification, historyVars>>

\* The INSERT is refused when the pair has got a row since it was looked up.
ToggleCreate(c) ==
    /\ call[c].step = "create"
    /\ Between(call[c].follower, call[c].following) = {}
    /\ \E r \in Rows :
        /\ follow[r].status = "unused"
        /\ follow' = [follow EXCEPT ![r] =
               [follower |-> call[c].follower, following |-> call[c].following,
                status |-> IF call[c].profile = "private" THEN "PENDING" ELSE "ACCEPTED"]]
        /\ Goto(c, [Idle EXCEPT !.step = "notify", !.row = r,
                                !.profile = call[c].profile])
    /\ UNCHANGED <<private, block, notification, historyVars>>

\* NotificationsService.create of toggle and of acceptFollowRequest.
Notify(c) ==
    /\ call[c].step \in {"notify", "notifyAccepted"}
    /\ notification' = notification \cup
           {[row |-> call[c].row,
             type |-> IF call[c].step = "notifyAccepted" THEN "FOLLOW_ACCEPTED"
                      ELSE IF call[c].profile = "private" THEN "FOLLOW_REQUEST"
                      ELSE "FOLLOW"]}
    /\ Finish(c)
    /\ UNCHANGED <<private, follow, block, historyVars>>

----------------------------------------------------------------------------
(* Requests.  The row is found by its pair and must be pending; it is then *)
(* updated or deleted by its id, whatever became of it in between.         *)
(***************************************************************************)
AcceptFind(c, b, d) ==
    /\ call[c] = Idle
    /\ \E r \in Between(d, b) :
        /\ follow[r].status = "PENDING"
        /\ Goto(c, [Idle EXCEPT !.step = "accept", !.follower = d,
                                !.following = b, !.row = r])
        /\ approved' = approved \cup {r}
    /\ UNCHANGED <<private, follow, block, notification, everPublic, accepted>>

\* Mutant: updateMany by the pair, which touches a request made since.
AcceptUpdateByPair(c) ==
    LET rs == Between(call[c].follower, call[c].following) IN
    /\ call[c].step = "accept"
    /\ follow' = [r \in Rows |->
           IF r \in rs THEN [follow[r] EXCEPT !.status = "ACCEPTED"] ELSE follow[r]]
    /\ accepted' = accepted \cup rs
    /\ Goto(c, [Idle EXCEPT !.step = "notifyAccepted", !.row = call[c].row])
    /\ UNCHANGED <<private, block, notification, everPublic, approved>>

AcceptUpdate(c) ==
    LET r == call[c].row IN
    /\ call[c].step = "accept"
    /\ follow[r].status \in Live
    /\ follow' = [follow EXCEPT ![r].status = "ACCEPTED"]
    /\ accepted' = accepted \cup {r}
    /\ Goto(c, [Idle EXCEPT !.step = "notifyAccepted", !.row = r])
    /\ UNCHANGED <<private, block, notification, everPublic, approved>>

RejectFind(c, b, d) ==
    /\ call[c] = Idle
    /\ \E r \in Between(d, b) :
        /\ follow[r].status = "PENDING"
        /\ Goto(c, [Idle EXCEPT !.step = "reject", !.row = r])
    /\ UNCHANGED <<private, follow, block, notification, historyVars>>

RejectDelete(c) ==
    /\ call[c].step = "reject"
    /\ DeleteRow(call[c].row)
    /\ Finish(c)
    /\ UNCHANGED <<private, block, notification, historyVars>>

----------------------------------------------------------------------------
(* Blocks.                                                                 *)
(***************************************************************************)
BlockCreate(c, b, d) ==
    /\ call[c] = Idle
    /\ b # d
    /\ <<b, d>> \notin block
    /\ block' = block \cup {<<b, d>>}
    /\ Goto(c, [Idle EXCEPT !.step = "unfollowBoth", !.follower = d, !.following = b])
    /\ UNCHANGED <<private, follow, notification, historyVars>>

BlockDeleteFollows(c) ==
    LET d == call[c].follower
        b == call[c].following
    IN
    /\ call[c].step = "unfollowBoth"
    /\ follow' = [r \in Rows |->
           IF r \in Between(d, b) \cup Between(b, d)
           THEN NoRow("deleted") ELSE follow[r]]
    /\ Finish(c)
    /\ UNCHANGED <<private, block, notification, historyVars>>

Unblock(b, d) ==
    /\ <<b, d>> \in block
    /\ block' = block \ {<<b, d>>}
    /\ UNCHANGED <<private, follow, notification, call, historyVars>>

----------------------------------------------------------------------------
\* ProfilesService.updateProfile writes isPrivate; existing rows stay.
SetPrivate(u, on) ==
    /\ (u \in private) # on
    /\ private' = IF on THEN private \cup {u} ELSE private \ {u}
    /\ everPublic' = everPublic \cup (Users \ private')
    /\ UNCHANGED <<follow, block, notification, call, approved, accepted>>

\* A call in flight ends without its remaining steps: the process stops, the
\* database refuses, or a statement finds its row gone or already there.
CallDies(c) ==
    /\ call[c] # Idle
    /\ Finish(c)
    /\ UNCHANGED <<private, follow, block, notification, historyVars>>

Next ==
    \/ \E c \in Calls, d, b \in Users :
        \/ ToggleFindProfile(c, d, b) \/ BlockCreate(c, b, d)
        \/ AcceptFind(c, b, d) \/ RejectFind(c, b, d)
    \/ \E c \in Calls :
        \/ ToggleCheckBlock(c) \/ ToggleFindFollow(c) \/ ToggleDelete(c)
        \/ ToggleCreate(c) \/ Notify(c) \/ AcceptUpdate(c) \/ RejectDelete(c)
        \/ BlockDeleteFollows(c) \/ CallDies(c)
    \/ \E b, d \in Users : Unblock(b, d)
    \/ \E u \in Users, on \in BOOLEAN : SetPrivate(u, on)

Spec == Init /\ [][Next]_vars

----------------------------------------------------------------------------
(* Properties.                                                             *)
(***************************************************************************)
\* Whoever has been private all along is followed by those only whose very
\* request an accept of theirs has found: a toggle that read the profile long
\* ago, or an accept whose request was withdrawn and made again meanwhile,
\* lets nobody in.
Consent ==
    \A r \in Rows :
        follow[r].status = "ACCEPTED" /\ follow[r].following \notin everPublic
            => r \in approved

\* FOLLOW_ACCEPTED is told only of a request that was accepted in fact, not
\* of one that was withdrawn, or cut off by a block, before the update.
AcceptanceIsTrue ==
    \A n \in notification : n.type = "FOLLOW_ACCEPTED" => n.row \in accepted

\* Toggles of d on b that have read the Block table and may yet insert a row.
PastBlockCheck(d, b) ==
    {c \in Calls : /\ call[c].step \in {"findFollow", "create"}
                   /\ call[c].follower = d
                   /\ call[c].following = b}

Separated(b, d) ==
    /\ <<b, d>> \in block
    /\ Between(d, b) = {}
    /\ PastBlockCheck(d, b) = {}

\* Once b has blocked d, d does not follow b and no toggle of d is past its
\* check, no call of anybody makes d follow b while the block stands.
SeparationLasts ==
    [][\A b, d \in Users :
          Separated(b, d) /\ <<b, d>> \in block' => Separated(b, d)']_vars

----------------------------------------------------------------------------
(* The inductive strengthening of Consent and AcceptanceIsTrue.            *)
(***************************************************************************)
\* What a call remembers fits the step it waits in: it holds the users or the
\* row that step needs, a toggle that saw a public profile names a user who
\* was public, and an accept has found, then updated, the row it is about.
Fits(rec, public, found, updated) ==
    /\ rec.step \in {"checkBlock", "findFollow", "create", "unfollowBoth"} =>
           rec.follower \in Users /\ rec.following \in Users
    /\ rec.step \in {"checkBlock", "findFollow", "create"} =>
           rec.profile = "private" \/ rec.following \in public
    /\ rec.step \in {"delete", "notify", "reject"} => rec.row \in Rows
    /\ rec.step = "accept" => rec.row \in found
    /\ rec.step = "notifyAccepted" => rec.row \in updated

CallsFit == \A c \in Calls : Fits(call[c], everPublic, approved, accepted)

FollowInv ==
    /\ TypeOK
    /\ CallsFit
    /\ Users \ private \subseteq everPublic
    /\ Consent
    /\ AcceptanceIsTrue

=============================================================================
