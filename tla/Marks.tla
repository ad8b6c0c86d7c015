------------------------------- MODULE Marks -------------------------------
(***************************************************************************)
(* The tables that hold at most one row for a user and a target: likes of  *)
(* posts (LikesService) and of comments (CommentsService), bookmarks       *)
(* (BookmarksService), views and reactions of stories (StoriesService),    *)
(* reactions to messages (ChatService), close friends                      *)
(* (CloseFriendsService), and the whitelist, where the target is an        *)
(* address (WhitelistService).  In every one a handler looks for the row   *)
(* and writes by what it found; a unique key stands behind the insert.     *)
(***************************************************************************)
EXTENDS Requests

CONSTANT SeedMarks  \* the rows that exist to begin with: keys, with their values

VARIABLES
    mark,   \* [Key -> MarkRow], NoRow where there is none
    serial  \* [Key -> Nat]: rows inserted so far; the next id is one more

markVars == <<mark, serial>>

Key == ({"like", "bookmark"} \X Users \X Posts) \cup ({"commentLike"} \X Users \X Comments)
       \cup ({"view", "reaction"} \X Users \X Stories)
       \cup ({"messageReaction"} \X Users \X Messages)
       \cup ({"closeFriend"} \X Users \X Users) \cup ({"whitelist"} \X {None} \X Emails)

\* value: the collection of a bookmark, the emoji of a reaction.
MarkRow == [id : Nat, value : Collections \cup Reactions \cup {None}]
NoRow == [id |-> 0, value |-> None]

Table == [like |-> "like", bookmark |-> "bookmark", file |-> "bookmark",
          likeComment |-> "commentLike", unlikeComment |-> "commentLike", view |-> "view",
          reactStory |-> "reaction", reactMessage |-> "messageReaction",
          closeFriend |-> "closeFriend", join |-> "whitelist"]
KeyOf(c) == <<Table[call[c].op], call[c].user, call[c].on>>

MarksTypeOK == mark \in [Key -> MarkRow] /\ serial \in [Key -> Nat]
ASSUME MarksAssumption ==
    /\ DOMAIN SeedMarks \subseteq {k \in Key : k[3] \in Seeds \cup Users \cup Emails}
    /\ \A k \in DOMAIN SeedMarks : SeedMarks[k] \in Collections \cup Reactions \cup {None}

MarksInit ==
    /\ mark = [k \in Key |-> IF k \in DOMAIN SeedMarks THEN [id |-> 1, value |-> SeedMarks[k]]
                             ELSE NoRow]
    /\ serial = [k \in Key |-> mark[k].id]

\* A close friend's id is not a foreign key, and an address refers to nothing.
Exists(x) == x \in rows \/ x \notin Things

----------------------------------------------------------------------------
(* What lists and checks answer.                                           *)
(***************************************************************************)
IsMarked(table, u, x) == mark[<<table, u, x>>].id # 0

\* checkLike and check
Liked(u, p) == IsMarked("like", u, p)
Bookmarked(u, p) == IsMarked("bookmark", u, p)

\* getLikesByPost, getViews, getReactions, getCloseFriends
LikesByPost(p) == {u \in Users : Liked(u, p)}
Views(s) == {u \in Users : IsMarked("view", u, s)}
StoryReactions(s) == {<<u, mark[<<"reaction", u, s>>].value>> :
                          u \in {v \in Users : IsMarked("reaction", v, s)}}
GetCloseFriends(u) == {f \in Users : IsMarked("closeFriend", u, f)}

----------------------------------------------------------------------------
(* Statements.                                                             *)
(***************************************************************************)
Fails(c) == Goto(c, "failed") /\ UNCHANGED <<markVars>>
SetMark(k, row) == mark' = [mark EXCEPT ![k] = row]

\* A second row and a reference to a row that is gone are refused.
Insert(c, value, to) ==
    LET k == KeyOf(c) IN
    IF mark[k] = NoRow /\ Exists(k[3]) /\ Exists(value)
    THEN /\ SetMark(k, [id |-> serial[k] + 1, value |-> value])
         /\ serial' = [serial EXCEPT ![k] = @ + 1]
         /\ Wrote(c, "created", to)
    ELSE Fails(c)

DeleteById(c) ==
    LET k == KeyOf(c) IN
    IF mark[k].id = call[c].seen
    THEN SetMark(k, NoRow) /\ Wrote(c, "deleted", {}) /\ UNCHANGED serial
    ELSE Fails(c)

UpdateById(c, value) ==
    LET k == KeyOf(c) IN
    IF mark[k].id = call[c].seen /\ Exists(value)
    THEN SetMark(k, [mark[k] EXCEPT !.value = value]) /\ Wrote(c, "moved", {}) /\ UNCHANGED serial
    ELSE Fails(c)

\* A handler that looks for the row first of all, or after it found the target.
BeginLooking(c, op, u, x, value) ==
    /\ Begin(c, op, u, x, value, {}, mark[<<Table[op], u, x>>].id, "write")
    /\ UNCHANGED <<markVars, contentVars, notice>>
BeginFinding(c, op, u, x, value) ==
    /\ Begin(c, op, u, x, value, {}, 0, IF x \in rows THEN "find" ELSE "refused")
    /\ UNCHANGED <<markVars, contentVars, notice>>
Look(c, op) ==
    /\ At(c, op, "find")
    /\ call' = [call EXCEPT ![c].seen = mark[KeyOf(c)].id, ![c].step = "write"]
    /\ UNCHANGED <<markVars, contentVars, notice>>

Absent(c, op) == At(c, op, "write") /\ call[c].seen = 0 /\ UNCHANGED <<contentVars, notice>>
Present(c, op) == At(c, op, "write") /\ call[c].seen # 0 /\ UNCHANGED <<contentVars, notice>>

----------------------------------------------------------------------------
(* LikesService.toggle.                                                    *)
(***************************************************************************)
LikeFindPost(c) == \E u \in Actors, p \in Posts \cap used : BeginFinding(c, "like", u, p, None)
LikeFind(c) == Look(c, "like")

\* Mutant: the row is deleted with deleteMany, which does not fail.
Unlike_DeleteMany(c) ==
    /\ Present(c, "like")
    /\ SetMark(KeyOf(c), NoRow) /\ Wrote(c, "deleted", {}) /\ UNCHANGED serial
Unlike(c) == Present(c, "like") /\ DeleteById(c)

\* Mutant: an insert that the unique key refused is taken for a success.
Like_Swallowed(c) ==
    /\ Absent(c, "like")
    /\ IF Liked(call[c].user, call[c].on)
       THEN /\ call' = [call EXCEPT ![c].step = "notify", ![c].to =
                           {<<owner[call[c].on], "like">>}]
            /\ UNCHANGED markVars
       ELSE Insert(c, None, Except(call[c].user, {<<owner[call[c].on], "like">>}))
Like(c) ==
    /\ Absent(c, "like")
    /\ Insert(c, None, Except(call[c].user, {<<owner[call[c].on], "like">>}))

----------------------------------------------------------------------------
(* likeComment and unlikeComment.                                          *)
(***************************************************************************)
LikeCommentFind(c) ==
    \E u \in Actors, m \in Comments \cap used : BeginFinding(c, "likeComment", u, m, None)
LikeCommentFindLike(c) == Look(c, "likeComment")
LikeComment(c) ==
    /\ Absent(c, "likeComment")
    /\ Insert(c, None, Except(call[c].user, {<<owner[call[c].on], "commentLike">>}))
\* The comment is liked already.
LikeCommentAgain(c) ==
    Present(c, "likeComment") /\ Goto(c, "ended") /\ UNCHANGED markVars

UnlikeCommentFind(c) ==
    \E u \in Actors, m \in Comments \cap used : BeginLooking(c, "unlikeComment", u, m, None)
UnlikeComment(c) ==
    \/ Present(c, "unlikeComment") /\ DeleteById(c)
    \/ Absent(c, "unlikeComment") /\ Goto(c, "ended") /\ UNCHANGED markVars

----------------------------------------------------------------------------
(* BookmarksService: toggle, with or without a collection, and             *)
(* updateCollection, which knows null for no collection.                   *)
(***************************************************************************)
CollectionsNamed == (Collections \cap used) \cup {None}

BookmarkFindPost(c) ==
    \E u \in Actors, p \in Posts \cap used, k \in CollectionsNamed :
        BeginFinding(c, "bookmark", u, p, k)
\* Naming the collection it is in already asks to remove it.
BookmarkFind(c) ==
    LET found == mark[KeyOf(c)] IN
    /\ At(c, "bookmark", "find")
    /\ call' = [call EXCEPT ![c].seen = found.id, ![c].step = "write", ![c].with =
                    IF found # NoRow /\ found.value = call[c].with THEN None ELSE @]
    /\ UNCHANGED <<markVars, contentVars, notice>>
BookmarkCreate(c) == Absent(c, "bookmark") /\ Insert(c, call[c].with, {})
BookmarkMove(c) ==
    Present(c, "bookmark") /\ call[c].with # None /\ UpdateById(c, call[c].with)
\* By user and post: it deletes the row that is there by now.
BookmarkDelete(c) ==
    /\ Present(c, "bookmark") /\ call[c].with = None
    /\ IF mark[KeyOf(c)] # NoRow
       THEN SetMark(KeyOf(c), NoRow) /\ Wrote(c, "deleted", {}) /\ UNCHANGED serial
       ELSE Fails(c)

UpdateCollectionFind(c) ==
    \E u \in Actors, p \in Posts \cap used, k \in CollectionsNamed :
        BeginLooking(c, "file", u, p, k)
UpdateCollection(c) ==
    \/ Absent(c, "file") /\ Insert(c, call[c].with, {})
    \/ Present(c, "file") /\ UpdateById(c, call[c].with)

----------------------------------------------------------------------------
(* StoriesService.view, and addReaction of StoriesService and ChatService. *)
(***************************************************************************)
ViewFind(c) == \E u \in Actors, s \in Stories \cap used : BeginLooking(c, "view", u, s, None)
\* Mutant: the view is inserted without a look.
View_Blind(c) ==
    At(c, "view", "write") /\ Insert(c, None, {}) /\ UNCHANGED <<contentVars, notice>>
View(c) ==
    \/ Absent(c, "view") /\ Insert(c, None, {})
    \/ Present(c, "view") /\ Goto(c, "ended") /\ UNCHANGED markVars

ReactStoryFind(c) ==
    \E u \in Actors, s \in Stories \cap used, r \in Reactions : BeginLooking(c, "reactStory", u, s, r)
ReactStory(c) ==
    \/ Absent(c, "reactStory") /\ Insert(c, call[c].with, {})
    \/ Present(c, "reactStory") /\ UpdateById(c, call[c].with)

ReactMessageFind(c) ==
    \E u \in Actors, x \in Messages \cap used, r \in Reactions :
        BeginLooking(c, "reactMessage", u, x, r)
ReactMessage(c) ==
    \/ Absent(c, "reactMessage") /\ Insert(c, call[c].with, {})
    \/ Present(c, "reactMessage") /\ UpdateById(c, call[c].with)

----------------------------------------------------------------------------
(* toggleCloseFriend, and WhitelistService.create, whose e-mail follows    *)
(* the insert and may fail without failing the request.                    *)
(***************************************************************************)
CloseFriendFind(c) ==
    \E u \in Actors, f \in Users :
        IF u = f
        THEN /\ Begin(c, "closeFriend", u, f, None, {}, 0, "refused")
             /\ UNCHANGED <<markVars, contentVars, notice>>
        ELSE BeginLooking(c, "closeFriend", u, f, None)
CloseFriend(c) ==
    \/ Absent(c, "closeFriend") /\ Insert(c, None, {})
    \/ Present(c, "closeFriend") /\ DeleteById(c)

JoinFind(c) ==
    \E e \in Emails :
        LET found == mark[<<"whitelist", None, e>>].id IN
        /\ Begin(c, "join", None, e, None, {}, found, IF found = 0 THEN "write" ELSE "refused")
        /\ UNCHANGED <<markVars, contentVars, notice>>
Join(c) == Absent(c, "join") /\ Insert(c, None, {})

----------------------------------------------------------------------------
MarksStep(c) ==
    \/ LikeFindPost(c) \/ LikeFind(c) \/ Unlike(c) \/ Like(c)
    \/ LikeCommentFind(c) \/ LikeCommentFindLike(c) \/ LikeComment(c) \/ LikeCommentAgain(c)
    \/ UnlikeCommentFind(c) \/ UnlikeComment(c)
    \/ BookmarkFindPost(c) \/ BookmarkFind(c) \/ BookmarkCreate(c) \/ BookmarkMove(c)
    \/ BookmarkDelete(c) \/ UpdateCollectionFind(c) \/ UpdateCollection(c)
    \/ ViewFind(c) \/ View(c) \/ ReactStoryFind(c) \/ ReactStory(c)
    \/ ReactMessageFind(c) \/ ReactMessage(c)
    \/ CloseFriendFind(c) \/ CloseFriend(c) \/ JoinFind(c) \/ Join(c)

=============================================================================
