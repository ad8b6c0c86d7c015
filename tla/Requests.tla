----------------------------- MODULE Requests -----------------------------
(***************************************************************************)
(* What the requests about content have in common: the rows they name, the *)
(* calls in flight, and NotificationsService                               *)
(* (src/src/notifications/notifications.service.ts), which they call.      *)
(*                                                                         *)
(* A handler is a sequence of statements on the database, each an action.  *)
(* None of these handlers uses a transaction: a call that dies or fails    *)
(* leaves what its earlier statements wrote.                               *)
(***************************************************************************)
EXTENDS Naturals, FiniteSets

CONSTANTS
    Users,
    Actors,  \* the users that make requests
    Posts, Comments, Stories, Messages, Collections, Highlights, Promotions,
    Seeds,   \* rows that exist to begin with
    Maker,   \* [Seeds -> Users]: their authors
    Within,  \* [Seeds -> SUBSET Seeds]: what each is deleted with
    Emails, Reactions,
    Accounts, \* ids of accounts at Stripe, each drawn once
    Calls,   \* each makes one request
    None

Things == Posts \cup Comments \cup Stories \cup Messages \cup Collections \cup Highlights
          \cup Promotions

Kinds == {"like", "comment", "mention", "reply", "commentLike"}
NoticeId == Calls \X Kinds \X Users

\* Ids are of one kind.  Only comments are deleted with others of these rows:
\* with their post and with the comment that they answer.
ASSUME RequestsAssumption ==
    /\ Actors \subseteq Users
    /\ None \notin Things \cup Users \cup Emails \cup Reactions \cup Accounts
    /\ Things \cap (Users \cup Reactions \cup Accounts \cup Emails \cup NoticeId) = {}
    /\ Posts \cap (Comments \cup Stories \cup Messages \cup Collections \cup Highlights) = {}
    /\ Comments \cap (Stories \cup Messages \cup Collections \cup Highlights) = {}
    /\ Promotions \cap (Posts \cup Comments \cup Stories \cup Messages \cup Collections
                      \cup Highlights) = {}
    /\ Seeds \subseteq Things
    /\ Maker \in [Seeds -> Users] /\ Within \in [Seeds -> SUBSET Seeds]
    /\ \A x \in Seeds : IF x \in Comments THEN /\ Within[x] \subseteq Posts \cup Comments
                                               /\ Within[x] \cap Posts # {}
                        ELSE Within[x] = {}
    /\ IsFiniteSet(Calls)

VARIABLES
    rows,     \* the rows that exist
    used,     \* the ids that were drawn
    owner,    \* [Things -> Users \cup {None}]
    within,   \* [Things -> SUBSET Things]: with which rows a row is deleted
    parts,    \* [Highlights -> SUBSET Stories]: the rows of HighlightStory
    notice,   \* rows of Notification
    call      \* [Calls -> CallRecord]

contentVars == <<rows, used, owner, within, parts>>
requestVars == <<contentVars, notice, call>>

NoticeRecord == [call : Calls, kind : Kinds, to : Users, post : Posts, read : {"no", "yes"}]

Ops == {"like", "bookmark", "file", "likeComment", "unlikeComment", "view",
        "reactStory", "reactMessage", "closeFriend", "join", "comment",
        "remove", "update", "createCollection", "createHighlight", "markRead", "markAllRead",
        "connect", "checkout", "promote", "cancel", "listPromotions"}
Active == {"find", "write", "notify", "findParent", "seller", "store", "session", "link",
           "sweep", "list"}
Over == {"refused", "ended", "failed", "dead"}

\* on, with, args: what the request names.  seen: the row that was found, 0 for
\* none.  to: who is still to be notified.  did: what was written (history).
\* calm: all it named existed, and no other call overlapped it (history).
CallRecord == [op : Ops \cup {"none"}, step : {"unused"} \cup Active \cup Over,
               user : Users \cup {None},
               on : Things \cup Users \cup Emails \cup NoticeId \cup {None},
               with : Things \cup Reactions \cup Accounts \cup {None},
               args : SUBSET (Users \cup Stories \cup Promotions), seen : Nat,
               to : SUBSET (Users \X Kinds),
               did : {"nothing", "created", "moved", "deleted"}, calm : {"no", "yes"}]

RequestsTypeOK ==
    /\ rows \subseteq used /\ used \subseteq Things
    /\ owner \in [Things -> Users \cup {None}]
    /\ within \in [Things -> SUBSET Things]
    /\ parts \in [Highlights -> SUBSET Stories]
    /\ notice \subseteq NoticeRecord
    /\ call \in [Calls -> CallRecord]

RequestsInit ==
    /\ rows = Seeds /\ used = Seeds
    /\ owner = [x \in Things |-> IF x \in Seeds THEN Maker[x] ELSE None]
    /\ within = [x \in Things |-> IF x \in Seeds THEN Within[x] ELSE {}]
    /\ parts = [h \in Highlights |-> {}]
    /\ notice = {}
    /\ call = [c \in Calls |-> [op |-> "none", step |-> "unused", user |-> None, on |-> None,
                                with |-> None, args |-> {}, seen |-> 0, to |-> {},
                                did |-> "nothing", calm |-> "yes"]]

----------------------------------------------------------------------------
(* Calls.                                                                  *)
(***************************************************************************)
InFlight(c) == call[c].step \in Active
At(c, op, step) == call[c].op = op /\ call[c].step = step
Named(c) == ({call[c].on, call[c].with} \cup call[c].args) \cap Things

\* A request arrives and its handler makes its first statement.
Begin(c, op, u, on, with, args, seen, step) ==
    LET overlaps == \E d \in Calls : InFlight(d)
        named == ({on, with} \cup args) \cap Things IN
    /\ call[c].step = "unused"
    /\ call' = [d \in Calls |->
           IF d = c
           THEN [op |-> op, step |-> step, user |-> u, on |-> on, with |-> with,
                 args |-> args, seen |-> seen, to |-> {}, did |-> "nothing",
                 calm |-> IF overlaps \/ ~(named \subseteq rows) THEN "no" ELSE "yes"]
           ELSE IF InFlight(d) THEN [call[d] EXCEPT !.calm = "no"] ELSE call[d]]

Goto(c, step) == call' = [call EXCEPT ![c].step = step]
Wrote(c, did, to) ==
    call' = [call EXCEPT ![c].did = did, ![c].to = to,
                         ![c].step = IF to = {} THEN "ended" ELSE "notify"]

MakeRow(x, u, holders, stories) ==
    /\ x \notin used
    /\ rows' = rows \cup {x} /\ used' = used \cup {x}
    /\ owner' = [owner EXCEPT ![x] = u]
    /\ within' = [within EXCEPT ![x] = holders]
    /\ parts' = IF x \in Highlights THEN [parts EXCEPT ![x] = stories] ELSE parts

\* Nobody is notified of what they did themselves.
Except(u, to) == {n \in to : n[1] # u}

----------------------------------------------------------------------------
(* Notifications.                                                          *)
(***************************************************************************)
PostOf(c) ==
    IF call[c].on \in Posts THEN call[c].on
    ELSE CHOOSE p \in Posts : p \in within[call[c].on]

IsReply(c) == call[c].op = "comment" /\ call[c].with # None

\* NotificationsService.create.  The owner is notified before those mentioned.
\* The row refers to the post: when that is gone the insert fails.
Notify(c) ==
    /\ call[c].step = "notify"
    /\ \E n \in call[c].to :
           /\ n[2] = "mention" => \A m \in call[c].to : m[2] # "comment"
           /\ IF PostOf(c) \in rows
              THEN LET rest == call[c].to \ {n} IN
                   /\ notice' = notice \cup {[call |-> c, kind |-> n[2], to |-> n[1],
                                              post |-> PostOf(c), read |-> "no"]}
                   /\ call' = [call EXCEPT ![c].to = rest, ![c].step =
                          IF rest # {} THEN "notify"
                          ELSE IF n[2] # "reply" /\ IsReply(c) THEN "findParent"
                          ELSE "ended"]
              ELSE Goto(c, "failed") /\ UNCHANGED notice
    /\ UNCHANGED contentVars

Read(n) == [n EXCEPT !.read = "yes"]
IdOf(n) == <<n.call, n.kind, n.to>>

\* markAsRead finds the notification of the recipient ...
MarkReadFind(c) ==
    /\ \E n \in notice :
           Begin(c, "markRead", n.to, IdOf(n), n.post, {}, 1, "write")
    /\ UNCHANGED <<contentVars, notice>>

\* ... and updates it by id.
MarkRead(c) ==
    LET found == {n \in notice : IdOf(n) = call[c].on} IN
    /\ At(c, "markRead", "write")
    /\ notice' = (notice \ found) \cup {Read(n) : n \in found}
    /\ IF found # {} THEN Wrote(c, "moved", {}) ELSE Goto(c, "failed")
    /\ UNCHANGED contentVars

MarkAllRead(c) ==
    /\ \E u \in Actors :
           /\ Begin(c, "markAllRead", u, None, None, {}, 0, "ended")
           /\ notice' = {IF n.to = u THEN Read(n) ELSE n : n \in notice}
    /\ UNCHANGED contentVars

\* The process or its connection to the database goes down under the call.
CallDies(c) ==
    /\ InFlight(c)
    /\ Goto(c, "dead")
    /\ UNCHANGED <<contentVars, notice>>

RequestsStep(c) == Notify(c) \/ MarkReadFind(c) \/ MarkRead(c) \/ MarkAllRead(c) \/ CallDies(c)

=============================================================================
