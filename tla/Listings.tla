------------------------------ MODULE Listings ------------------------------
(***************************************************************************)
(* What is read page by page, and who may read it: the paginated listings  *)
(* of AdminService, CreatorService, PostsService, CommentsService,         *)
(* BookmarksService and NotificationsService, with PaginationDto           *)
(* (src/src/common/dto/pagination.dto.ts), while rows come, go and move.   *)
(*                                                                         *)
(* A page is two statements, a find and a count, that Promise.all runs     *)
(* side by side.  A client walks from page 1 to meta.totalPages.           *)
(***************************************************************************)
EXTENDS Naturals, FiniteSets, SequencesExt

CONSTANTS
    Owners, Limits, None,
    Viewer,                 \* the one of Owners who reads, when it is not a guest
    MaxRows, MaxOthers,     \* bound the rows at first, and those not asked for
    MaxChanges              \* bounds the changes during a walk

ASSUME ListingsAssumption ==
    /\ Viewer \in Owners /\ None \notin Owners
    /\ Limits \subseteq Nat \ {0} /\ {MaxRows, MaxOthers, MaxChanges} \subseteq Nat

VARIABLES
    table,      \* the rows, in the order of the listing
    private,    \* SUBSET Owners: whose profiles are private
    following,  \* [Owners -> the status of Viewer's follow of them]
    query, limit,
    walk,
    history     \* of the walk: what came, went and moved

listingVars == <<table, private, following, query, limit, walk, history>>

----------------------------------------------------------------------------
(* Rows and queries.  owner: the author, the recipient, or the post of a   *)
(* comment.  kind: the column that the listing filters on.  text: whether  *)
(* the searched text, tag or tagged user is found in the row.              *)
(***************************************************************************)
Kinds == [getUsers |-> {"active", "banned"}, getWhitelist |-> {"any"},
          adminGetPosts |-> {"POST", "FRAME"}, getReports |-> {"pending", "other"},
          getAuditLogs |-> {"any"}, getHashtags |-> {"any"}, getComments |-> {"any"},
          adminGetStories |-> {"any"}, creatorGetPosts |-> {"POST", "FRAME"},
          creatorGetStories |-> {"any"}, getPromotions |-> {"active", "completed"},
          notifications |-> {"any"}, getBookmarks |-> {"k1", "k2"},
          getByCollection |-> {"k1", "k2"}, findByPost |-> {"top", "reply"},
          getByTag |-> {"any"}, getTaggedPosts |-> {"any"},
          findAll |-> {"POST", "FRAME"}, trending |-> {"POST", "FRAME"},
          getFramesFeed |-> {"POST", "FRAME"}, findByUser |-> {"POST", "FRAME"},
          getFeed |-> {"POST", "FRAME"}]
Endpoints == DOMAIN Kinds

Searching == {"getUsers", "getWhitelist", "adminGetPosts", "getReports", "getHashtags",
              "getComments", "getByTag", "getTaggedPosts"}
Filtering == {"getUsers", "adminGetPosts", "getReports", "creatorGetPosts", "getBookmarks",
              "getByCollection", "findByUser"}
OfOne == {"creatorGetPosts", "creatorGetStories", "getPromotions", "notifications",
          "getBookmarks", "getByCollection", "findByPost", "findByUser"}
Feeds == {"findAll", "trending", "getFramesFeed", "getFeed"}
Ranked == {"trending", "getHashtags", "getPromotions"}

Row(e) == [id : 1 .. MaxRows + MaxChanges, kind : Kinds[e],
           owner : IF e \in OfOne \cup Feeds THEN Owners ELSE {Viewer},
           text : IF e \in Searching THEN {"hit", "miss"} ELSE {"miss"}]

Query ==
    UNION {[endpoint : {e},
            viewer : IF e \in (Feeds \ {"getFeed"}) \cup {"findByUser"} THEN {Viewer, None}
                     ELSE {Viewer},
            of : IF e \in OfOne THEN Owners ELSE {None},
            kind : CASE e = "getByCollection" -> Kinds[e]
                     [] e \in Filtering -> Kinds[e] \cup {None}
                     [] OTHER -> {None},
            search : IF e \in {"getByTag", "getTaggedPosts"} THEN {"yes"}
                     ELSE IF e \in Searching THEN {"no", "yes"} ELSE {"no"}] : e \in Endpoints}

Searched(q, r) == q.search = "yes" => r.text = "hit"
OfKind(q, r) == q.kind # None => r.kind = q.kind

----------------------------------------------------------------------------
(* Conditions of the finds.                                                *)
(***************************************************************************)
AdminGetUsers(q, r) == Searched(q, r) /\ OfKind(q, r)
AdminGetWhitelist(q, r) == Searched(q, r)
AdminGetPosts(q, r) == Searched(q, r) /\ OfKind(q, r)
\* A status that is none of the three is ignored.
AdminGetReports(q, r) == Searched(q, r) /\ (q.kind \in {"pending", "resolved", "dismissed"} =>
                                                r.kind = q.kind)
AdminGetHashtags(q, r) == Searched(q, r)
AdminGetComments(q, r) == Searched(q, r)
CreatorGetPosts(q, r) == r.owner = q.of /\ OfKind(q, r)
CreatorGetStories(q, r) == r.owner = q.of
CreatorGetPromotions(q, r) == r.owner = q.of /\ r.kind \in {"active", "completed"}
NotificationsFindAll(q, r) == r.owner = q.of
GetBookmarks(q, r) == r.owner = q.of /\ OfKind(q, r)
GetByCollection(q, r) == r.owner = q.of /\ r.kind = q.kind
FindByPost(q, r) == r.owner = q.of /\ r.kind = "top"
GetByTag(q, r) == Searched(q, r)
GetTaggedPosts(q, r) == Searched(q, r)
PostsFindAll(r) == r.kind = "POST" /\ r.owner \notin private
GetFramesFeed(r) == r.kind = "FRAME" /\ r.owner \notin private
PostsFindByUser(q, r) == r.owner = q.of /\ OfKind(q, r)
\* scope: the authors followed when the page was asked for.
GetFeed(scope, r) == r.kind = "POST" /\ r.owner \in scope

Selected(q, scope, r) ==
    CASE q.endpoint = "getUsers" -> AdminGetUsers(q, r)
      [] q.endpoint = "getWhitelist" -> AdminGetWhitelist(q, r)
      [] q.endpoint = "adminGetPosts" -> AdminGetPosts(q, r)
      [] q.endpoint = "getReports" -> AdminGetReports(q, r)
      [] q.endpoint = "getHashtags" -> AdminGetHashtags(q, r)
      [] q.endpoint = "getComments" -> AdminGetComments(q, r)
      [] q.endpoint \in {"getAuditLogs", "adminGetStories"} -> TRUE
      [] q.endpoint = "creatorGetPosts" -> CreatorGetPosts(q, r)
      [] q.endpoint = "creatorGetStories" -> CreatorGetStories(q, r)
      [] q.endpoint = "getPromotions" -> CreatorGetPromotions(q, r)
      [] q.endpoint = "notifications" -> NotificationsFindAll(q, r)
      [] q.endpoint = "getBookmarks" -> GetBookmarks(q, r)
      [] q.endpoint = "getByCollection" -> GetByCollection(q, r)
      [] q.endpoint = "findByPost" -> FindByPost(q, r)
      [] q.endpoint = "getByTag" -> GetByTag(q, r)
      [] q.endpoint = "getTaggedPosts" -> GetTaggedPosts(q, r)
      [] q.endpoint \in {"findAll", "trending"} -> PostsFindAll(r)
      [] q.endpoint = "getFramesFeed" -> GetFramesFeed(r)
      [] q.endpoint = "findByUser" -> PostsFindByUser(q, r)
      [] q.endpoint = "getFeed" -> GetFeed(scope, r)

\* The count has the condition of the find, but for the comments of a post,
\* where it has all of them and the find has those that are no replies.
Counted(q, scope, r) ==
    IF q.endpoint = "findByPost" THEN r.owner = q.of ELSE Selected(q, scope, r)

\* The elements of s at the positions W, in their order.
Chosen(s, W) ==
    LET found[n \in 0 .. Len(s)] ==
            IF n = 0 THEN <<>>
            ELSE IF n \in W THEN Append(found[n - 1], s[n]) ELSE found[n - 1]
    IN found[Len(s)]

Positions(q, scope) == {i \in DOMAIN table : Selected(q, scope, table[i])}
Matching(q, scope) == Chosen(table, Positions(q, scope))

----------------------------------------------------------------------------
(* Who may read.                                                           *)
(***************************************************************************)
Followed == {o \in Owners : following[o] = "ACCEPTED"}

\* findOne: a post of a private profile is its author's and their followers'.
Opens(viewer, r) ==
    r.owner \in private /\ r.owner # viewer => viewer = Viewer /\ r.owner \in Followed

\* findByUser answers by the profile, getByCollection to the collection's owner.
Admitted(q) ==
    /\ q.endpoint = "findByUser" => Opens(q.viewer, [owner |-> q.of])
    /\ q.endpoint = "getByCollection" => q.of = q.viewer

\* Mutant: getFeed asks for no status.
FeedScope_Any == {o \in Owners : following[o] # "none"} \cup {Viewer}
FeedScope == Followed \cup {Viewer}
PageScope == IF query.endpoint = "getFeed" THEN FeedScope ELSE {}

----------------------------------------------------------------------------
(* A walk through the pages.                                               *)
(***************************************************************************)
TotalPages(total) == (total + limit - 1) \div limit

Slice(s, first, last) == SubSeq(s, first, IF last < Len(s) THEN last ELSE Len(s))
\* Mutants: the offset is of the next page; one row more is taken, to see if there are more.
PageOf_Next(s, page) == Slice(s, page * limit + 1, (page + 1) * limit)
PageOf_OneMore(s, page) == Slice(s, (page - 1) * limit + 1, page * limit + 1)
PageOf(s, page) == Slice(s, (page - 1) * limit + 1, page * limit)

\* The profile, the collection or the follows are read before the page.
PageRequest ==
    /\ walk.step = "request"
    /\ walk' = [walk EXCEPT !.step = IF Admitted(query) THEN "reading" ELSE "refused",
                            !.scope = PageScope,
                            !.read = {}, !.data = <<>>]
    /\ history' = [history EXCEPT !.touched = "no"]
    /\ UNCHANGED <<table, private, following, query, limit>>

FindPage ==
    /\ walk.step = "reading" /\ "find" \notin walk.read
    /\ walk' = [walk EXCEPT !.read = @ \cup {"find"},
                            !.data = PageOf(Matching(query, walk.scope), walk.page)]
    /\ UNCHANGED <<table, private, following, query, limit, history>>

CountRows ==
    /\ walk.step = "reading" /\ "count" \notin walk.read
    /\ walk' = [walk EXCEPT !.read = @ \cup {"count"}, !.total =
           Cardinality({i \in DOMAIN table : Counted(query, walk.scope, table[i])})]
    /\ UNCHANGED <<table, private, following, query, limit, history>>

\* The answer, createPaginatedResult, and whether the client asks for more.
AnswerPage ==
    /\ walk.step = "reading" /\ walk.read = {"find", "count"}
    /\ walk' = [walk EXCEPT !.shown = @ \o [i \in DOMAIN walk.data |-> walk.data[i].id],
           !.step = IF walk.page < TotalPages(walk.total) THEN "request" ELSE "done",
           !.page = IF walk.page < TotalPages(walk.total) THEN @ + 1 ELSE @]
    /\ UNCHANGED <<table, private, following, query, limit, history>>

----------------------------------------------------------------------------
(* What happens meanwhile.                                                 *)
(***************************************************************************)
Changing ==
    /\ walk.step \in {"request", "reading"}
    /\ history.inserted + history.removed + history.moved + history.others < MaxChanges
    /\ UNCHANGED <<query, limit, walk>>

HalfRead == walk.step = "reading" /\ Cardinality(walk.read) = 1

\* A new row is the newest; in a ranking it may stand anywhere.
RowCreated ==
    /\ Changing
    /\ \E r \in Row(query.endpoint),
          i \in IF query.endpoint \in Ranked THEN 1 .. Len(table) + 1 ELSE {1} :
           /\ r.id = history.ids + 1
           /\ table' = InsertAt(table, i, r)
    /\ history' = [history EXCEPT !.ids = @ + 1, !.inserted = @ + 1,
                                  !.split = IF HalfRead THEN @ + 1 ELSE @]
    /\ UNCHANGED <<private, following>>

\* A row is deleted, or ceases to satisfy the condition.  The audit log keeps all.
RowLeaves ==
    /\ Changing /\ query.endpoint # "getAuditLogs"
    /\ \E i \in DOMAIN table :
           /\ table' = RemoveAt(table, i)
           /\ history' = [history EXCEPT !.removed = @ + 1, !.stayed = @ \ {table[i].id}]
    /\ UNCHANGED <<private, following>>

\* A post is liked, a tag used; a promotion that is completed moves down.
RowMoves ==
    /\ Changing /\ query.endpoint \in Ranked
    /\ \E i, j \in DOMAIN table :
           /\ IF query.endpoint = "getPromotions"
              THEN /\ i <= j /\ table[i].kind = "active"
                   /\ table' = InsertAt(RemoveAt(table, i), j,
                                        [table[i] EXCEPT !.kind = "completed"])
              ELSE i # j /\ table' = InsertAt(RemoveAt(table, i), j, table[i])
    /\ history' = [history EXCEPT !.moved = @ + 1]
    /\ UNCHANGED <<private, following>>

\* A profile changes its privacy, Viewer's follow of it its status.
ProfileChanges ==
    /\ Changing /\ query.endpoint \in Feeds \cup {"findByUser"}
    /\ \E o \in Owners :
           private' = IF o \in private THEN private \ {o} ELSE private \cup {o}
    /\ history' = [history EXCEPT !.others = @ + 1, !.touched = "yes"]
    /\ UNCHANGED <<table, following>>
FollowChanges ==
    /\ Changing /\ query.endpoint \in Feeds \cup {"findByUser"}
    /\ \E o \in Owners \ {Viewer}, status \in {"none", "PENDING", "ACCEPTED"} :
           /\ status # following[o]
           /\ following' = [following EXCEPT ![o] = status]
    /\ history' = [history EXCEPT !.others = @ + 1, !.touched = "yes"]
    /\ UNCHANGED <<table, private>>

----------------------------------------------------------------------------
Counters == {"ids", "inserted", "removed", "moved", "split", "others"}
ListingsTypeOK ==
    /\ \A i \in DOMAIN table : table[i] \in Row(query.endpoint)
    /\ private \subseteq Owners /\ following \in [Owners -> {"none", "PENDING", "ACCEPTED"}]
    /\ query \in Query /\ limit \in Limits
    /\ walk.step \in {"request", "reading", "refused", "done"} /\ walk.page \in Nat \ {0}
    /\ walk.read \subseteq {"find", "count"} /\ walk.scope \subseteq Owners
    /\ ToSet(walk.data) \subseteq Row(query.endpoint) /\ Len(walk.data) <= limit
    /\ walk.total \in Nat /\ ToSet(walk.shown) \subseteq 1 .. history.ids
    /\ \A field \in Counters : history[field] \in Nat
    /\ history.stayed \subseteq 1 .. history.ids

ListingsInit ==
    /\ private \in SUBSET Owners
    /\ following \in {f \in [Owners -> {"none", "PENDING", "ACCEPTED"}] : f[Viewer] = "none"}
    /\ query \in Query
    /\ query.endpoint \notin Feeds \cup {"findByUser"} =>
           private = {} /\ \A o \in Owners : following[o] = "none"
    /\ limit \in Limits
    /\ \E n \in 0 .. MaxRows :
           /\ table \in [1 .. n -> Row(query.endpoint)]
           /\ \A i \in 1 .. n : table[i].id = i
    /\ Cardinality(DOMAIN table \ Positions(query, PageScope)) <= MaxOthers
    /\ walk = [step |-> "request", page |-> 1, read |-> {}, scope |-> {}, data |-> <<>>,
               total |-> 0, shown |-> <<>>]
    /\ history = [ids |-> Len(table), inserted |-> 0, removed |-> 0, moved |-> 0, split |-> 0,
                  others |-> 0, touched |-> "no",
                  stayed |-> {table[i].id : i \in Positions(query, PageScope)}]

ListingsStep ==
    \/ PageRequest \/ FindPage \/ CountRows \/ AnswerPage
    \/ RowCreated \/ RowLeaves \/ RowMoves \/ ProfileChanges \/ FollowChanges

----------------------------------------------------------------------------
(* Properties.                                                             *)
(***************************************************************************)
\* A walk misses no more of the rows that were there all the time than rows
\* left or moved during it, or were inserted between the two statements of a
\* page; and repeats no more than rows were inserted or moved.  (When profiles
\* or follows change, whole authors come and go.)
WalkMissesByChangeOnly ==
    (walk.step = "done" /\ history.others = 0) =>
        /\ Cardinality(history.stayed \ ToSet(walk.shown)) <=
               history.removed + history.moved + history.split
        /\ Len(walk.shown) - Cardinality(ToSet(walk.shown)) <=
               history.inserted + history.moved

\* A walk that nothing disturbs shows each row once, in order, and no page but
\* the first is empty; only for a post with replies, which are counted but not
\* listed, does it go on to pages that are.
QuietWalkIsExact ==
    (walk.step = "done" /\ history.inserted + history.removed + history.moved + history.others = 0) =>
        LET rows == Matching(query, walk.scope)
            replies == Cardinality({i \in DOMAIN table : /\ table[i].kind = "reply"
                                                         /\ table[i].owner = query.of}) IN
        /\ walk.shown = [i \in DOMAIN rows |-> rows[i].id]
        /\ (walk.data = <<>> /\ walk.page > 1) => query.endpoint = "findByPost" /\ replies > 0

\* Every post that a feed or a profile's posts show opens for the one it was shown
\* to, unless profiles or follows changed since the page was asked for.  The posts
\* of a tag and those a user is tagged in are listed whatever their privacy, and
\* are outside of it.
ListedOpens ==
    (query.endpoint \in Feeds \cup {"findByUser"} /\ history.touched = "no") =>
        \A i \in DOMAIN walk.data : Opens(query.viewer, walk.data[i])

----------------------------------------------------------------------------
(* The inductive strengthening.                                            *)
(***************************************************************************)
Ids(s) == {s[i].id : i \in DOMAIN s}
Walk == [step : {"request", "reading", "refused", "done"}, page : Nat \ {0},
         read : SUBSET {"find", "count"}, scope : SUBSET Owners, data : Seq(Row(query.endpoint)),
         total : Nat, shown : Seq(Nat)]
History == [ids : Nat, inserted : Nat, removed : Nat, moved : Nat, split : Nat, others : Nat,
            touched : {"yes", "no"}, stayed : SUBSET Nat]

\* Ids are drawn once; data is of the page that is being read, or was.
PagesFit ==
    /\ table \in Seq(Row(query.endpoint)) /\ walk \in Walk /\ history \in History
    /\ query \in Query /\ limit \in Limits /\ private \subseteq Owners
    /\ following \in [Owners -> {"none", "PENDING", "ACCEPTED"}]
    /\ \A i, j \in DOMAIN table : table[i].id = table[j].id => i = j
    /\ Ids(table) \cup Ids(walk.data) \cup ToSet(walk.shown) \cup history.stayed
           \subseteq 1 .. history.ids
    /\ Len(walk.data) <= limit
    /\ IF walk.step = "reading" THEN "find" \notin walk.read => walk.data = <<>>
       ELSE Ids(walk.data) \subseteq ToSet(walk.shown)

\* What was read of profiles and follows is so, unless they changed since then.
ScopeStands ==
    /\ history.others = 0 => history.touched = "no"
    /\ walk.step \in {"reading", "done"} /\ history.touched = "no" =>
           walk.scope = PageScope /\ Admitted(query)

\* What a find would find now, and how much of it the pages read so far pass.
Listing == Matching(query, PageScope)
Found == walk.step = "done" \/ (walk.step = "reading" /\ "find" \in walk.read)
Passed == IF Found THEN walk.page * limit ELSE (walk.page - 1) * limit
Within(s, n) == {s[i].id : i \in {k \in DOMAIN s : k <= n}}
Beyond(s, n) == {s[i].id : i \in {k \in DOMAIN s : k > n}}
Seen == ToSet(walk.shown) \cup Ids(walk.data)
Sent == IF walk.step = "reading" THEN Len(walk.shown) + Len(walk.data) ELSE Len(walk.shown)

\* What has slipped past the pages, and what has slipped back.
Missed == (history.stayed \cap Within(Listing, Passed)) \ Seen
Again == Beyond(Listing, Passed) \cap Seen
Disturbed == history.removed + history.moved + history.split
LastPage == walk.total <= walk.page * limit

WalkFits ==
    history.others = 0 =>
        /\ history.stayed \subseteq Ids(Listing)
        /\ Cardinality(Missed) <= Disturbed
        /\ walk.step = "reading" /\ walk.read = {"count"} /\ LastPage =>
               Cardinality(Missed) + Len(Listing) <= Disturbed + walk.page * limit
        /\ walk.step = "done" \/ (Found /\ "count" \in walk.read /\ LastPage) =>
               Cardinality(history.stayed \ Seen) <= Disturbed
        /\ Sent + Cardinality(Again) <= Cardinality(Seen) + history.inserted + history.moved

Quiet == history.inserted + history.removed + history.moved + history.others = 0
Total == Cardinality({i \in DOMAIN table : Counted(query, PageScope, table[i])})
QuietFits ==
    Quiet =>
        /\ Sent = (IF Passed < Len(Listing) THEN Passed ELSE Len(Listing))
        /\ \A i \in 1 .. Len(walk.shown) : walk.shown[i] = Listing[i].id
        /\ Found => walk.data = PageOf(Listing, walk.page)
        /\ walk.page > 1 => (walk.page - 1) * limit < Total
        /\ walk.step = "reading" /\ "count" \in walk.read => walk.total = Total
        /\ walk.step = "done" => Total <= walk.page * limit

PagesInv == PagesFit /\ ScopeStands /\ ListedOpens /\ WalkFits /\ QuietFits

=============================================================================
