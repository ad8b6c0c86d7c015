---------------------------- MODULE Engagement ----------------------------
(***************************************************************************)
(* What users do with content, all at once: the components that make and   *)
(* delete rows (Library) composed with those that mark them (Marks), sell  *)
(* them (Purchases) and promote them (Campaigns) over the same database,   *)
(* whose foreign keys join the first two; a purchase and a promotion name  *)
(* their targets without one.                                              *)
(***************************************************************************)
EXTENDS Marks, Library, Purchases, Campaigns

saleVars == <<purchaseVars, campaignVars>>
vars == <<requestVars, markVars, saleVars>>

\* ON DELETE CASCADE for what refers to a deleted row, ON DELETE SET NULL for
\* the collection of a bookmark.
ForeignKeys ==
    /\ mark' = [k \in Key |->
           IF k[3] \in Things \ rows' THEN NoRow
           ELSE IF mark[k].value \in Things \ rows' THEN [mark[k] EXCEPT !.value = None]
           ELSE mark[k]]
    /\ UNCHANGED serial

TypeOK == RequestsTypeOK /\ MarksTypeOK /\ PurchasesTypeOK /\ CampaignsTypeOK
Init == RequestsInit /\ MarksInit /\ PurchasesInit /\ CampaignsInit

Next ==
    \/ \E c \in Calls :
           \/ MarksStep(c) /\ UNCHANGED saleVars
           \/ LibraryStep(c) /\ ForeignKeys /\ UNCHANGED saleVars
           \/ PurchasesStep(c) /\ UNCHANGED <<markVars, campaignVars>>
           \/ CampaignsStep(c) /\ UNCHANGED <<markVars, purchaseVars>>
           \/ RequestsStep(c) /\ UNCHANGED <<markVars, saleVars>>
    \/ EndDatePasses /\ UNCHANGED <<markVars, purchaseVars>>

Spec == Init /\ [][Next]_vars

----------------------------------------------------------------------------
(* Properties.                                                             *)
(***************************************************************************)
Did(what, k) == {c \in Calls : /\ call[c].op \in DOMAIN Table /\ KeyOf(c) = k
                               /\ call[c].did = what}
Balance(k) == (IF k \in DOMAIN SeedMarks THEN 1 ELSE 0)
              + Cardinality(Did("created", k)) - Cardinality(Did("deleted", k))
Balanced(table, x) == {u \in Users : Balance(<<table, u, x>>) = 1}

\* What lists show adds up from what the calls did: of calls that race for one
\* row, one inserts it and one deletes it, so that for a row that exists now
\* there was one insertion more than there were deletions, for one that does
\* not, as many of both.  Content that was deleted took its rows with it, and
\* a deleted collection took none.
AnswersAddUp ==
    /\ \A k \in Key : Exists(k[3]) => Balance(k) = IF mark[k] = NoRow THEN 0 ELSE 1
    /\ \A p \in Posts \cap rows : LikesByPost(p) = Balanced("like", p)
    /\ \A s \in Stories \cap rows :
           /\ Views(s) = Balanced("view", s)
           /\ {r[1] : r \in StoryReactions(s)} = Balanced("reaction", s)
    /\ \A u \in Users : GetCloseFriends(u) = {f \in Users : u \in Balanced("closeFriend", f)}

\* A call fails only because of another one that overlapped it: that wrote the
\* row it was about to write, or deleted a row it named.  A request whose rows
\* all exist and which runs alone does not fail, and of those that compete one
\* is served.  The exception is a checkout of what has a purchase, pending ones
\* included, which is refused for ever.
Beaten(c) ==
    /\ call[c].op \in DOMAIN Table
    /\ \E d \in Calls \ {c} : /\ call[d].op \in DOMAIN Table /\ KeyOf(d) = KeyOf(c)
                              /\ call[d].did \in {"created", "deleted"}
FailsByRaceOnly ==
    \A c \in Calls : call[c].step = "failed" =>
        \/ call[c].op = "checkout" /\ purchase[Sale(c)] # "none"
        \/ call[c].calm = "no" /\ (Beaten(c) \/ ~(Named(c) \subseteq rows))

\* Whom a call has to notify.
Due(c) ==
    Except(call[c].user,
        CASE call[c].op = "like" -> {<<owner[call[c].on], "like">>}
          [] call[c].op = "likeComment" -> {<<owner[call[c].on], "commentLike">>}
          [] call[c].op = "comment" -> OwnerAndMentioned(c) \cup
                 {<<owner[m], "reply">> : m \in {call[c].with} \cap Things}
          [] OTHER -> {})

\* The notices of a like or a comment are those its authors, those mentioned
\* and the author of the parent are due, and are there when the call answers;
\* a call that created nothing notifies nobody, and nobody is notified of what
\* they did.
Sent(c) == {<<n.to, n.kind>> : n \in {m \in notice : m.call = c}}
NoticesMatch ==
    \A c \in Calls :
        /\ Sent(c) \subseteq Due(c)
        /\ Sent(c) # {} => call[c].did = "created"
        /\ (call[c].step = "ended" /\ call[c].did = "created" /\ Named(c) \subseteq rows) =>
               Sent(c) = Due(c)

\* Nobody pays twice for one item, not even after a checkout whose Stripe call
\* failed or that was abandoned; and who paid is shown the item once Stripe's
\* event was answered, whatever was delivered again or asked since.
Paying(s) == {c \in Calls : session[c] = "paid" /\ Sale(c) = s}
PaidOnceAndUnlocked ==
    /\ \A s \in Sales : Cardinality(Paying(s)) <= 1
    /\ \A c \in delivered : Uncensored(call[c].user, call[c].on)

\* The account a seller was sent to Stripe to set up is the one that sales are
\* paid to from then on, unless two requests to connect overlapped; and no
\* account is ever another seller's.
LinkedAccountStands ==
    /\ \A c \in Calls : (call[c].op = "connect" /\ call[c].step = "ended") =>
           /\ madeFor[call[c].with] = call[c].user
           /\ call[c].calm = "yes" => stripeAccountId[call[c].user] = call[c].with
    /\ \A u \in Users : stripeAccountId[u] # None => madeFor[stripeAccountId[u]] = u

\* What a listing shows as running had not ended when it was asked for, and
\* what it shows as completed stays, unless a cancellation overlapped it.
PromotionsAsListed ==
    \A c \in Calls : (call[c].op = "listPromotions" /\ call[c].step = "ended") =>
        /\ listed[c].active \cap call[c].args = {}
        /\ listed[c].completed \subseteq rows \/ call[c].calm = "no"

----------------------------------------------------------------------------
(* The inductive strengthening.  First what all components rely on.        *)
(***************************************************************************)
\* Rows that exist have an author, and their post and parent exist.
RowsFit ==
    /\ Seeds \subseteq used
    /\ \A x \in used : owner[x] \in Users
    /\ \A x \in used : within[x] \subseteq used
    /\ \A x \in rows : within[x] \subseteq rows
    /\ \A x \in used : IF x \in Comments THEN /\ within[x] \subseteq Posts \cup Comments
                                              /\ within[x] \cap Posts # {}
                       ELSE within[x] = {}

TellingOps == {"like", "likeComment", "comment"}

\* What a request of an operation names: its target, its detail, its arguments.
Targets(op) ==
    CASE op = "none" -> {None}
      [] op \in {"like", "bookmark", "file", "comment"} -> Posts
      [] op \in {"likeComment", "unlikeComment"} -> Comments
      [] op \in {"view", "reactStory"} -> Stories
      [] op = "reactMessage" -> Messages
      [] op = "closeFriend" -> Users
      [] op = "join" -> Emails
      [] op = "checkout" -> Items
      [] op = "markRead" -> NoticeId
      [] op = "cancel" -> Promotions
      [] OTHER -> Things \cup {None}
Details(op) ==
    CASE op \in {"bookmark", "file"} -> Collections \cup {None}
      [] op \in {"reactStory", "reactMessage"} -> Reactions
      [] op = "comment" -> Comments \cup {None}
      [] op = "markRead" -> Posts
      [] op \in {"connect", "checkout"} -> Accounts \cup {None}
      [] OTHER -> {None}
Arguments(op) ==
    CASE op = "comment" -> Users
      [] op = "createHighlight" -> Stories
      [] op = "listPromotions" -> Promotions
      [] OTHER -> {}

\* Which requests come to a step, and what they have written by then.
StepFits(c) ==
    /\ call[c].op = "none" <=> call[c].step = "unused"
    /\ call[c].step \in {"unused", "find", "write", "seller", "store", "session", "link", "sweep",
                        "list"} => call[c].did = "nothing"
    /\ call[c].step = "find" => call[c].op \in {"like", "likeComment", "bookmark"}
    /\ call[c].step = "write" => call[c].op # "listPromotions"
    /\ call[c].step = "notify" => call[c].op \in TellingOps /\ call[c].did = "created"
    /\ call[c].step = "findParent" =>
           call[c].op = "comment" /\ call[c].with # None /\ call[c].did = "created"
    /\ call[c].step \in {"seller", "session"} => call[c].op = "checkout"
    /\ call[c].step = "link" => call[c].op = "connect"
    /\ call[c].step = "store" => call[c].op \in {"connect", "checkout"}
    /\ call[c].step \in {"sweep", "list"} => call[c].op = "listPromotions"

\* A call names ids that were drawn.
CallFits(c) ==
    /\ call[c].on \in Targets(call[c].op) /\ call[c].with \in Details(call[c].op)
    /\ call[c].args \subseteq Arguments(call[c].op)
    /\ StepFits(c)
    /\ Named(c) \subseteq used
    /\ call[c].user = None <=> call[c].op \in {"none", "join"}
CallsFit == \A c \in Calls : CallFits(c)

\* A calm call in flight is alone, and all it named is still there.
CalmFits ==
    \A c \in Calls : InFlight(c) /\ call[c].calm = "yes" =>
        /\ Named(c) \subseteq rows
        /\ \A d \in Calls : InFlight(d) => d = c

SharedInv == TypeOK /\ RowsFit /\ CallsFit /\ CalmFits

----------------------------------------------------------------------------
(* Then what each component adds.                                          *)
(***************************************************************************)
\* A row refers to what exists.
MarksFit ==
    \A k \in Key :
        /\ mark[k].id = 0 => mark[k] = NoRow
        /\ mark[k] # NoRow => Exists(k[3])

\* What a call found is what it will write to, unless another got there first.
LooksFit ==
    \A c \in Calls : call[c].op \in DOMAIN Table /\ call[c].step = "write" =>
        \/ mark[KeyOf(c)].id = call[c].seen
        \/ call[c].calm = "no" /\ (Beaten(c) \/ ~Exists(call[c].on))

\* The notification that a call found is there for as long as its post.
ReadsFit ==
    \A c \in Calls : At(c, "markRead", "write") =>
        \/ \E n \in notice : IdOf(n) = call[c].on /\ n.post = call[c].with
        \/ call[c].with \notin rows

BalancesFit == \A k \in Key : Exists(k[3]) => Balance(k) = IF mark[k] = NoRow THEN 0 ELSE 1

\* Who is notified when the parent has been looked up.
Pending(c) ==
    IF IsReply(c) /\ (\/ call[c].step = "findParent"
                      \/ call[c].step = "notify" /\ \A n \in call[c].to : n[2] # "reply")
    THEN Except(call[c].user, {<<owner[call[c].with], "reply">>})
    ELSE {}

\* A notice is of what its call wrote, and what was sent and what is still to
\* be sent is what is due.
NoticesOf(c) ==
    /\ \A n \in notice : n.call = c =>
           /\ call[c].op \in TellingOps /\ call[c].did = "created"
           /\ n.post = PostOf(c) /\ <<n.to, n.kind>> \in Due(c)
    /\ call[c].to \subseteq Due(c)
    /\ \A n \in call[c].to : n[2] = "reply" => call[c].to = {n}
    /\ call[c].step \notin {"notify", "failed", "dead"} => call[c].to = {}
    /\ (/\ call[c].op \in TellingOps /\ call[c].did = "created"
        /\ call[c].step \in {"notify", "findParent", "ended"}
        /\ Named(c) \subseteq rows) =>
           Due(c) = Sent(c) \cup call[c].to \cup Pending(c)
NoticesFit == \A c \in Calls : NoticesOf(c)

\* A checkout that got past the row of its purchase.
Bought(c) ==
    call[c].op = "checkout" /\ (call[c].step \in {"session", "store", "ended"} \/ session[c] # "none")
SalesFit ==
    /\ \A c \in Calls :
           /\ session[c] # "none" => /\ call[c].op = "checkout"
                                     /\ call[c].step \notin {"seller", "write", "session"}
           /\ Bought(c) => purchase[Sale(c)] # "none"
           /\ c \in delivered => session[c] = "paid" /\ purchase[Sale(c)] = "COMPLETED"
    /\ \A c, d \in Calls : Bought(c) /\ Bought(d) /\ Sale(c) = Sale(d) => c = d

\* An account is its user's from its creation, and after a calm request there
\* is no other to replace it.
AccountsFit ==
    /\ \A u \in Users : stripeAccountId[u] # None => madeFor[stripeAccountId[u]] = u
    /\ \A c \in Calls : call[c].op = "connect" /\ call[c].step \in {"store", "link", "ended"} =>
           /\ call[c].with # None /\ madeFor[call[c].with] = call[c].user
           /\ call[c].calm = "yes" /\ call[c].step # "store" =>
                  /\ stripeAccountId[call[c].user] = call[c].with
                  /\ \A d \in Calls : At(d, "connect", "write") \/ At(d, "connect", "store")
                                         => call[d].user # call[c].user

\* No promotion is ever cancelled by its status; what a calm listing answered
\* as completed nobody is about to delete.
PromotionsFit ==
    /\ \A q \in Promotions : status[q] # "cancelled"
    /\ \A c \in Calls : call[c].op = "listPromotions" =>
           /\ \A q \in call[c].args : status[q] = "completed"
           /\ call[c].step = "ended" => listed[c].active \cap call[c].args = {}
           /\ call[c].step = "ended" /\ call[c].calm = "yes" =>
                  \A q \in listed[c].completed :
                      /\ q \in rows /\ status[q] = "completed"
                      /\ \A d \in Calls : At(d, "cancel", "write") => call[d].on # q

EngagementInv ==
    /\ SharedInv
    /\ MarksFit /\ LooksFit /\ ReadsFit /\ FailsByRaceOnly /\ BalancesFit
    /\ NoticesFit /\ SalesFit /\ AccountsFit /\ PromotionsFit

=============================================================================
