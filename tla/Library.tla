------------------------------ MODULE Library ------------------------------
(***************************************************************************)
(* Rows that users make, change and delete: comments (CommentsService),    *)
(* collections (CollectionsService), highlights (HighlightsService), and   *)
(* the deletion of posts, stories and conversations, as far as others      *)
(* refer to them.                                                          *)
(*                                                                         *)
(* What becomes of the rows that refer to a deleted one is in Engagement.  *)
(***************************************************************************)
EXTENDS Requests

\* ON DELETE CASCADE, to any depth: when x is deleted the rows stay that refer
\* to none but such as stay.
Staying(x) == UNION {S \in SUBSET (rows \ {x}) : \A y \in S : within[y] \subseteq S}

\* A row of HighlightStory goes with its story, a notification with its post.
DropRow(x) ==
    /\ rows' = Staying(x)
    /\ parts' = [h \in Highlights |-> parts[h] \ {x}]
    /\ notice' = {n \in notice : n.post # x}
    /\ UNCHANGED <<used, owner, within>>

----------------------------------------------------------------------------
(* CommentsService.create: the comment, then the notices.                  *)
(***************************************************************************)
CommentFindPost(c) ==
    /\ \E u \in Actors, p \in Posts \cap used, parent \in (Comments \cap used) \cup {None},
          mentions \in SUBSET Users :
           Begin(c, "comment", u, p, parent, mentions, 0,
                 IF p \in rows THEN "write" ELSE "refused")
    /\ UNCHANGED <<contentVars, notice>>

\* Whom a comment tells: the author of the post, who is not told a second time
\* when mentioned, and those mentioned.
OwnerAndMentioned(c) ==
    Except(call[c].user, {<<owner[call[c].on], "comment">>} \cup
        {<<m, "mention">> : m \in call[c].args \ {owner[call[c].on]}})

\* The insert refers to the post and to the parent.
Comment(c) ==
    LET x == call[c].on parent == call[c].with to == OwnerAndMentioned(c) IN
    /\ At(c, "comment", "write")
    /\ IF x \in rows /\ parent \in rows \cup {None}
       THEN /\ \E m \in Comments : MakeRow(m, call[c].user, {x, parent} \ {None}, {})
            /\ call' = [call EXCEPT ![c].did = "created", ![c].to = to,
                   ![c].step = IF to # {} THEN "notify" ELSE IF parent # None THEN "findParent"
                               ELSE "ended"]
       ELSE Goto(c, "failed") /\ UNCHANGED contentVars
    /\ UNCHANGED notice

\* The author of the parent is told, if there is still one.
CommentFindParent(c) ==
    LET parent == call[c].with
        to == IF parent \in rows THEN Except(call[c].user, {<<owner[parent], "reply">>}) ELSE {} IN
    /\ At(c, "comment", "findParent")
    /\ Wrote(c, "created", to)
    /\ UNCHANGED <<contentVars, notice>>

----------------------------------------------------------------------------
(* Removals: CommentsService.remove, PostsService.remove,                  *)
(* CollectionsService.delete and HighlightsService.remove find the row,    *)
(* compare its author, and delete it by id.                                *)
(***************************************************************************)
BeginOwned(c, op, u, x) ==
    /\ Begin(c, op, u, x, None, {}, 0,
             IF x \in rows /\ owner[x] = u THEN "write" ELSE "refused")
    /\ UNCHANGED <<contentVars, notice>>
Removable(T, c) == \E u \in Actors, x \in T \cap used : BeginOwned(c, "remove", u, x)

RemoveCommentFind(c) == Removable(Comments, c)
RemovePostFind(c) == Removable(Posts, c)
DeleteCollectionFind(c) == Removable(Collections, c)
RemoveHighlightFind(c) == Removable(Highlights, c)

Delete(c, T) ==
    /\ At(c, "remove", "write") /\ call[c].on \in T
    /\ IF call[c].on \in rows
       THEN DropRow(call[c].on) /\ Wrote(c, "deleted", {})
       ELSE Goto(c, "failed") /\ UNCHANGED <<contentVars, notice>>
RemoveComment(c) == Delete(c, Comments)
RemovePost(c) == Delete(c, Posts)
DeleteCollection(c) == Delete(c, Collections)
RemoveHighlight(c) == Delete(c, Highlights)

\* StoriesService.delete: one deleteMany with the author in its condition.
DeleteStory(c) ==
    \E u \in Actors, s \in Stories \cap used :
        /\ Begin(c, "remove", u, s, None, {}, 0, "ended")
        /\ IF s \in rows /\ owner[s] = u THEN DropRow(s)
           ELSE UNCHANGED <<contentVars, notice>>

\* deleteConversation, whose races are in Chat, takes the messages with it.
DeleteConversation(c) ==
    \E u \in Actors, x \in Messages \cap rows :
        Begin(c, "remove", u, x, None, {}, 0, "ended") /\ DropRow(x)

\* PostsService.update and CollectionsService.update: the row must still be
\* there for the second statement.
UpdateFind(c) == \E u \in Actors, x \in (Posts \cup Collections) \cap used : BeginOwned(c, "update", u, x)
UpdatePost(c) ==
    /\ At(c, "update", "write") /\ call[c].on \in Posts
    /\ IF call[c].on \in rows THEN Wrote(c, "moved", {}) ELSE Goto(c, "failed")
    /\ UNCHANGED <<contentVars, notice>>
RenameCollection(c) ==
    /\ At(c, "update", "write") /\ call[c].on \in Collections
    /\ IF call[c].on \in rows THEN Wrote(c, "moved", {}) ELSE Goto(c, "failed")
    /\ UNCHANGED <<contentVars, notice>>

----------------------------------------------------------------------------
(* CollectionsService.create and HighlightsService.create: one statement.  *)
(***************************************************************************)
CreateCollection(c) ==
    /\ \E u \in Actors, k \in Collections :
           Begin(c, "createCollection", u, None, None, {}, 0, "ended") /\ MakeRow(k, u, {}, {})
    /\ UNCHANGED notice

\* The nested writes are one transaction: a story that is gone fails them all.
CreateHighlight(c) ==
    /\ \E u \in Actors, stories \in SUBSET (Stories \cap used) \ {{}}, h \in Highlights :
           IF stories \subseteq rows
           THEN /\ Begin(c, "createHighlight", u, h, None, stories, 0, "ended")
                /\ MakeRow(h, u, {}, stories)
           ELSE /\ Begin(c, "createHighlight", u, None, None, stories, 0, "failed")
                /\ UNCHANGED contentVars
    /\ UNCHANGED notice

----------------------------------------------------------------------------
LibraryStep(c) ==
    \/ CommentFindPost(c) \/ Comment(c) \/ CommentFindParent(c)
    \/ RemoveCommentFind(c) \/ RemovePostFind(c) \/ DeleteCollectionFind(c)
    \/ RemoveHighlightFind(c)
    \/ RemoveComment(c) \/ RemovePost(c) \/ DeleteCollection(c) \/ RemoveHighlight(c)
    \/ DeleteStory(c) \/ DeleteConversation(c)
    \/ UpdateFind(c) \/ UpdatePost(c) \/ RenameCollection(c)
    \/ CreateCollection(c) \/ CreateHighlight(c)

=============================================================================
