------------------------------- MODULE Posts -------------------------------
(***************************************************************************)
(* PostsService.create and the removals (src/src/posts/posts.service.ts)   *)
(* with the counters of hashtags, the notices of mentions and the job that *)
(* is queued for each post.  EmbeddingJobs adds the worker.                *)
(*                                                                         *)
(* The transaction of create is invisible until it commits; what it does   *)
(* to others before that is to lock rows of hashtags.  An upsert waits for *)
(* the row, in the order of the caption, and the database ends a deadlock  *)
(* by failing one of the transactions.                                     *)
(***************************************************************************)
EXTENDS Naturals, Sequences, FiniteSets

CONSTANTS
    Users,
    Posts,  \* ids of posts, each drawn once
    Tags,
    Drafts, \* what may be posted: the author, and what the caption names
    Calls,  \* slots for calls in flight at the same time
    None

ASSUME PostsAssumption ==
    /\ None \notin Users \cup Posts
    /\ IsFiniteSet(Posts)

\* The tags of a caption in its order, each once.
ASSUME DraftsAssumption ==
    \A d \in Drafts :
        /\ d.author \in Users /\ d.mentions \subseteq Users
        /\ d.tags \in Seq(Tags)
        /\ \A i, j \in DOMAIN d.tags : d.tags[i] = d.tags[j] => i = j

VARIABLES
    users,         \* accounts that exist
    post,          \* [Posts -> PostRow]
    postCount,     \* Hashtag.postCount, 0 while there is no row
    job,           \* the generate-embedding job of each post
    embedding,     \* posts that have a row in post_embeddings
    notification,  \* mentions: <<recipient, post>>; the row has no postId
    call           \* the calls in flight

vars == <<users, post, postCount, job, embedding, notification, call>>

\* A post that was rolled back is "unused" for ever: its id is not drawn again.
PostRow == [status : {"unused", "open", "live", "removed"},
            author : Users \cup {None}, tags : SUBSET Tags, mentions : SUBSET Users]
JobRecord == [state : {"none", "waiting", "active", "stored", "done", "failed"},
              stalled : {"no", "once"}]
Step == {"idle", "tags", "enqueue", "findMentions", "notify", "remove"}

\* todo: tags still to be upserted; wrote: the counts written to the rows the
\* transaction has locked, 0 for the others; to: users still to be notified.
CallRecord == [step : Step, post : Posts \cup {None}, todo : Seq(Tags),
               wrote : [Tags -> Nat], to : SUBSET Users]

Idle == [step |-> "idle", post |-> None, todo |-> <<>>,
         wrote |-> [t \in Tags |-> 0], to |-> {}]

TypeOK ==
    /\ users \subseteq Users
    /\ post \in [Posts -> PostRow]
    /\ postCount \in [Tags -> Nat]
    /\ job \in [Posts -> JobRecord]
    /\ embedding \subseteq Posts
    /\ notification \subseteq Users \X Posts
    /\ call \in [Calls -> CallRecord]

Init ==
    /\ users = Users
    /\ post = [p \in Posts |-> [status |-> "unused", author |-> None,
                                tags |-> {}, mentions |-> {}]]
    /\ postCount = [t \in Tags |-> 0]
    /\ job = [p \in Posts |-> [state |-> "none", stalled |-> "no"]]
    /\ embedding = {}
    /\ notification = {}
    /\ call = [c \in Calls |-> Idle]

Goto(c, rec) == call' = [call EXCEPT ![c] = rec]
Finish(c) == Goto(c, Idle)

Live(p) == post[p].status = "live"

\* Row locks.  A call waits for the holder of the next tag's row.
Locks(c, t) == call[c].wrote[t] > 0
WaitsFor(c, d) ==
    /\ c # d
    /\ call[c].step = "tags" /\ call[c].todo # <<>>
    /\ Locks(d, Head(call[c].todo))

\* A call waits for one other at most, so a set in which each waits for one and
\* is waited for consists of cycles.
Deadlocked(c) ==
    \E ring \in SUBSET Calls :
        /\ c \in ring
        /\ \A d \in ring : \E e, f \in ring : WaitsFor(d, e) /\ WaitsFor(f, d)

----------------------------------------------------------------------------
(* create.                                                                 *)
(***************************************************************************)
\* Mutant: the job is added inside the transaction.
CreateBeginEnqueues(c, p, d) ==
    /\ call[c].step = "idle" /\ post[p].status = "unused" /\ post[p].author = None
    /\ d.author \in users
    /\ post' = [post EXCEPT ![p] =
           [status |-> "open", author |-> d.author, mentions |-> d.mentions,
            tags |-> {d.tags[i] : i \in DOMAIN d.tags}]]
    /\ Goto(c, [Idle EXCEPT !.step = "tags", !.post = p, !.todo = d.tags])
    /\ job' = [job EXCEPT ![p].state = "waiting"]
    /\ UNCHANGED <<users, postCount, embedding, notification>>

\* The transaction starts: the post and its media.
CreateBegin(c, p, d) ==
    /\ call[c].step = "idle" /\ post[p].status = "unused" /\ post[p].author = None
    /\ d.author \in users
    /\ post' = [post EXCEPT ![p] =
           [status |-> "open", author |-> d.author, mentions |-> d.mentions,
            tags |-> {d.tags[i] : i \in DOMAIN d.tags}]]
    /\ Goto(c, [Idle EXCEPT !.step = "tags", !.post = p, !.todo = d.tags])
    /\ UNCHANGED <<users, postCount, job, embedding, notification>>

\* Mutant: a find and an update in place of the upsert.
UpsertTagReadThenWrite(c) ==
    /\ call[c].step = "tags" /\ call[c].todo # <<>>
    /\ LET t == Head(call[c].todo)
       IN  Goto(c, [call[c] EXCEPT !.todo = Tail(@),
                                   !.wrote = [@ EXCEPT ![t] = postCount[t] + 1]])
    /\ UNCHANGED <<users, post, postCount, job, embedding, notification>>

\* The next tag's row, which nobody else may have locked, and the post's link.
UpsertTag(c) ==
    /\ call[c].step = "tags" /\ call[c].todo # <<>>
    /\ LET t == Head(call[c].todo)
       IN  /\ \A d \in Calls \ {c} : ~Locks(d, t)
           /\ Goto(c, [call[c] EXCEPT !.todo = Tail(@),
                                      !.wrote = [@ EXCEPT ![t] = postCount[t] + 1]])
    /\ UNCHANGED <<users, post, postCount, job, embedding, notification>>

\* The transaction commits: everything it wrote is there, its locks are gone.
Commit(c) ==
    /\ call[c].step = "tags" /\ call[c].todo = <<>>
    /\ post' = [post EXCEPT ![call[c].post].status = "live"]
    /\ postCount' = [t \in Tags |-> IF Locks(c, t) THEN call[c].wrote[t]
                                    ELSE postCount[t]]
    /\ Goto(c, [Idle EXCEPT !.step = "enqueue", !.post = call[c].post])
    /\ UNCHANGED <<users, job, embedding, notification>>

\* The job is added to the queue.
Enqueue(c) ==
    /\ call[c].step = "enqueue"
    /\ job' = [job EXCEPT ![call[c].post].state = "waiting"]
    /\ IF post[call[c].post].mentions = {} THEN Finish(c)
       ELSE Goto(c, [call[c] EXCEPT !.step = "findMentions"])
    /\ UNCHANGED <<users, post, postCount, embedding, notification>>

\* The users mentioned, the author left out.
FindMentions(c) ==
    /\ call[c].step = "findMentions"
    /\ LET to == post[call[c].post].mentions \cap (users \ {post[call[c].post].author})
       IN  IF to = {} THEN Finish(c)
           ELSE Goto(c, [call[c] EXCEPT !.step = "notify", !.to = to])
    /\ UNCHANGED <<users, post, postCount, job, embedding, notification>>

\* The notifications are created side by side: each is inserted, or fails,
\* because the recipient or the sender is gone or otherwise.
NotifyMention(c, r) ==
    /\ call[c].step = "notify" /\ r \in call[c].to
    /\ \/ /\ {r, post[call[c].post].author} \subseteq users
          /\ notification' = notification \cup {<<r, call[c].post>>}
       \/ UNCHANGED notification
    /\ IF call[c].to = {r} THEN Finish(c)
       ELSE Goto(c, [call[c] EXCEPT !.to = @ \ {r}])
    /\ UNCHANGED <<users, post, postCount, job, embedding>>

----------------------------------------------------------------------------
(* Removal, and calls that end early.                                      *)
(***************************************************************************)
\* The rows that go with a set of posts; the counters stay.
Cascade(gone) ==
    /\ post' = [p \in Posts |-> IF p \in gone THEN [post[p] EXCEPT !.status = "removed"]
                                ELSE post[p]]
    /\ embedding' = embedding \ gone

\* remove by the author, adminRemove.
RemoveFind(c, p) ==
    /\ call[c].step = "idle" /\ Live(p)
    /\ Goto(c, [Idle EXCEPT !.step = "remove", !.post = p])
    /\ UNCHANGED <<users, post, postCount, job, embedding, notification>>

RemoveDelete(c) ==
    /\ call[c].step = "remove" /\ Live(call[c].post)
    /\ Cascade({call[c].post})
    /\ Finish(c)
    /\ UNCHANGED <<users, postCount, job, notification>>

\* AdminService.deleteUser.  The foreign key of a post that is being created
\* makes the delete wait for that transaction.
DeleteUser(u) ==
    /\ u \in users
    /\ \A p \in Posts : post[p].author = u => post[p].status # "open"
    /\ users' = users \ {u}
    /\ Cascade({p \in Posts : Live(p) /\ post[p].author = u})
    /\ notification' = {n \in notification : u # n[1] /\ u # post[n[2]].author}
    /\ UNCHANGED <<postCount, job, call>>

\* A transaction that does not commit leaves nothing.
Rollback(c) ==
    post' = [p \in Posts |->
        IF p = call[c].post /\ call[c].step = "tags"
        THEN [post[p] EXCEPT !.status = "unused"] ELSE post[p]]

\* Mutant: the connection goes back to the pool with its transaction open.
CallDiesWithoutRollback(c) ==
    /\ call[c].step # "idle"
    /\ Rollback(c)
    /\ Goto(c, [Idle EXCEPT !.wrote = call[c].wrote])
    /\ UNCHANGED <<users, postCount, job, embedding, notification>>

\* A statement fails, the transaction takes longer than it may, or the process
\* stops.
CallDies(c) ==
    /\ call[c].step # "idle"
    /\ Rollback(c)
    /\ Finish(c)
    /\ UNCHANGED <<users, postCount, job, embedding, notification>>

\* The database fails one of the transactions of a deadlock.
DeadlockVictim(c) == Deadlocked(c) /\ CallDies(c)

\* What the event loop and the database go on with by themselves.
Proceed(c) ==
    \/ UpsertTag(c) \/ Commit(c) \/ DeadlockVictim(c) \/ Enqueue(c)
    \/ FindMentions(c) \/ \E r \in Users : NotifyMention(c, r)

Next ==
    \/ \E c \in Calls :
        \/ \E p \in Posts, d \in Drafts : CreateBegin(c, p, d)
        \/ Proceed(c)
        \/ \E p \in Posts : RemoveFind(c, p)
        \/ RemoveDelete(c)
        \/ CallDies(c)
    \/ \E u \in Users : DeleteUser(u)

Spec == Init /\ [][Next]_vars

\* A call that was begun goes on; nobody need begin one.
Fairness == \A c \in Calls : WF_vars(Proceed(c))

----------------------------------------------------------------------------
(* Properties.                                                             *)
(***************************************************************************)
Committed(p) == post[p].status \in {"live", "removed"}

\* A hashtag's counter is the number of posts that were ever created with it:
\* concurrent creations lose no increment, and a creation that was rolled back,
\* by a deadlock too, leaves none.
CountIsCreations ==
    \A t \in Tags :
        postCount[t] = Cardinality({p \in Posts : Committed(p) /\ t \in post[p].tags})

\* Nothing of a post is outside before it was committed: no job is queued for
\* one that may be rolled back, and mentions tell others than the author, whom
\* the caption names.
EffectsFollowCommit ==
    /\ \A p \in Posts : job[p].state # "none" => Committed(p)
    /\ \A n \in notification :
           /\ Committed(n[2])
           /\ n[1] \in post[n[2]].mentions \ {post[n[2]].author}

\* No creation waits for ever for the rows of others, deadlocked or not.
TransactionsEnd ==
    \A c \in Calls : call[c].step = "tags" ~> call[c].step # "tags"

----------------------------------------------------------------------------
(* The inductive strengthening of CountIsCreations.                        *)
(***************************************************************************)
Elements(s) == {s[i] : i \in DOMAIN s}

\* A transaction has its open post to itself, has locked the tags that are done,
\* and wrote one more than is committed, which nobody changes under its lock.
TransactionsFit ==
    \A c \in Calls :
        /\ call[c].step # "tags" => \A t \in Tags : call[c].wrote[t] = 0
        /\ call[c].step = "tags" =>
               /\ call[c].post \in Posts
               /\ post[call[c].post].status = "open"
               /\ post[call[c].post].tags =
                      Elements(call[c].todo) \cup {t \in Tags : Locks(c, t)}
               /\ \A t \in Tags : Locks(c, t) => call[c].wrote[t] = postCount[t] + 1
               /\ \A d \in Calls \ {c} :
                      /\ call[d].step = "tags" => call[d].post # call[c].post
                      /\ \A t \in Tags : ~(Locks(c, t) /\ Locks(d, t))

\* Who goes on after the commit goes on about a committed post, and notifies
\* the users its caption mentions.
AftermathFits ==
    \A c \in Calls :
        /\ call[c].step \notin {"idle", "tags"} =>
               call[c].post \in Posts /\ Committed(call[c].post)
        /\ call[c].step = "notify" =>
               call[c].to \subseteq post[call[c].post].mentions \ {post[call[c].post].author}

PostsInv ==
    /\ TypeOK
    /\ TransactionsFit
    /\ AftermathFits
    /\ CountIsCreations
    /\ EffectsFollowCommit

=============================================================================
