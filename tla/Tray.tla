------------------------------- MODULE Tray -------------------------------
(***************************************************************************)
(* Which stories a visit is shown: findAll (the tray) and findByUser of    *)
(* StoriesService (src/src/stories/stories.service.ts).  Each of them asks *)
(* for its conditions one statement after the other, while profiles,       *)
(* follows, close friends, purchases and the stories themselves change.    *)
(*                                                                         *)
(* The conditions are facts, which hold or do not: a story exists, is      *)
(* fresh (not yet 24 hours old), is paid by the reader; an author is       *)
(* public, is followed by the reader, has the reader as a close friend.    *)
(***************************************************************************)
EXTENDS Naturals, FiniteSets

CONSTANTS
    Authors,
    Reader,    \* the one of Authors who visits, when it is not a guest
    Tales,     \* ids of stories
    MaxFlips   \* bounds the stories and authors that change during a visit

ASSUME TrayAssumption == Reader \in Authors /\ MaxFlips \in Nat

Facts == ({"exists", "fresh", "paid"} \X Tales) \cup ({"public", "follows", "close"} \X Authors)

VARIABLES
    story,        \* [Tales -> the columns of the row]
    holds,        \* the facts that hold
    visit,
    \* History: the facts that held at some time of the visit, and all the time.
    ever, always

trayVars == <<story, holds, visit, ever, always>>

StoryRow == [author : Authors, closeFriendsOnly : BOOLEAN, premium : BOOLEAN]

\* of: whose page it is, for findByUser.  fresh: the stories that new Date() at
\* the beginning leaves.  ask: those with a look-up to come.  media: those of
\* the shown whose mediaUrl is not emptied.
Visit == [op : {"findAll", "findByUser"}, guest : BOOLEAN, of : Authors,
          step : {"begin", "follow", "stories", "friends", "purchases", "done"},
          scope : SUBSET Authors, fresh : SUBSET Tales, ask : SUBSET Tales,
          shown : SUBSET Tales, media : SUBSET Tales]

Is(fact, x) == <<fact, x>> \in holds
Foreign(s) == story[s].author # Reader
Free(tales) == {s \in tales : ~story[s].premium}

\* The end of a visit, and what comes before it for one who may have bought.
Shown(tales) ==
    LET ask == {s \in tales : story[s].premium /\ Foreign(s)} IN
    IF visit.guest
    THEN [visit EXCEPT !.step = "done", !.shown = tales, !.media = Free(tales), !.ask = {}]
    ELSE [visit EXCEPT !.step = IF ask = {} THEN "done" ELSE "purchases",
                       !.shown = tales, !.ask = ask, !.media = tales \ ask]

Reads(op, step) == visit.op = op /\ visit.step = step /\ UNCHANGED <<story, holds, ever, always>>

----------------------------------------------------------------------------
(* findAll.                                                                *)
(***************************************************************************)
FindFollowing ==
    /\ Reads("findAll", "begin")
    /\ visit' = [visit EXCEPT !.step = "stories", !.fresh = {s \in Tales : Is("fresh", s)},
                              !.scope = {a \in Authors : Is("follows", a)} \cup {Reader}]

FindStories ==
    LET found == {s \in visit.fresh : Is("exists", s)}
        public == {s \in found : Is("public", story[s].author) /\ ~story[s].closeFriendsOnly}
        followed == {s \in found : story[s].author \in visit.scope}
        ask == {s \in followed : story[s].closeFriendsOnly /\ Foreign(s)} IN
    /\ Reads("findAll", "stories")
    /\ visit' = IF visit.guest THEN Shown(public)
                ELSE IF ask = {} THEN Shown(followed)
                ELSE [visit EXCEPT !.step = "friends", !.shown = followed, !.ask = ask]

\* Promise.all: the look-ups come back in any order.
FindCloseFriend ==
    /\ Reads("findAll", "friends")
    /\ \E s \in visit.ask :
           LET kept == IF Is("close", story[s].author) THEN visit.shown ELSE visit.shown \ {s} IN
           visit' = IF visit.ask = {s} THEN Shown(kept)
                    ELSE [visit EXCEPT !.shown = kept, !.ask = @ \ {s}]

----------------------------------------------------------------------------
(* findByUser, which does not ask about close friends.                     *)
(***************************************************************************)
FindProfile ==
    /\ Reads("findByUser", "begin")
    /\ visit' = [visit EXCEPT !.step =
           IF Is("public", visit.of) \/ (visit.of = Reader /\ ~visit.guest) THEN "stories"
           ELSE IF visit.guest THEN "done" ELSE "follow"]
FindFollow ==
    /\ Reads("findByUser", "follow")
    /\ visit' = [visit EXCEPT !.step = IF Is("follows", visit.of) THEN "stories" ELSE "done"]
FindUserStories ==
    /\ Reads("findByUser", "stories")
    /\ visit' = Shown({s \in Tales : Is("exists", s) /\ Is("fresh", s) /\ story[s].author = visit.of})

\* Mutant: a purchase opens the media whatever its status.
FindPurchase_AnyStatus ==
    /\ visit.step = "purchases"
    /\ \E s \in visit.ask :
           visit' = [visit EXCEPT !.ask = @ \ {s}, !.media = @ \cup {s},
                                  !.step = IF visit.ask = {s} THEN "done" ELSE @]
    /\ UNCHANGED <<story, holds, ever, always>>
\* Of either of them.
FindPurchase ==
    /\ visit.step = "purchases"
    /\ \E s \in visit.ask :
           visit' = [visit EXCEPT !.ask = @ \ {s},
                                  !.media = IF Is("paid", s) THEN @ \cup {s} ELSE @,
                                  !.step = IF visit.ask = {s} THEN "done" ELSE @]
    /\ UNCHANGED <<story, holds, ever, always>>

----------------------------------------------------------------------------
(* What happens meanwhile.                                                 *)
(***************************************************************************)
\* A story is created, expires, is deleted; a purchase completes; a profile
\* turns private or public; a follow is accepted or ends; a close friend is
\* added or removed.
Flips ==
    {f \in Facts :
        CASE f[1] = "exists" -> f \in holds \/ Is("fresh", f[2])
          [] f[1] = "fresh" -> f \in holds /\ Is("exists", f[2])
          [] f[1] = "paid" -> f \notin holds /\ story[f[2]].premium /\ Foreign(f[2])
          [] OTHER -> f[1] = "public" \/ (f[2] # Reader /\ ~visit.guest)}

FactFlips ==
    /\ visit.step # "done"
    /\ \E f \in Flips :
           /\ holds' = IF f \notin holds THEN holds \cup {f}
                       ELSE IF f[1] = "exists" THEN holds \ {f, <<"fresh", f[2]>>}
                       ELSE holds \ {f}
           /\ ever' = ever \cup holds' /\ always' = always \cap holds'
           /\ Cardinality({g[2] : g \in ever' \ always'}) <= MaxFlips
    /\ UNCHANGED <<story, visit>>

----------------------------------------------------------------------------
TrayTypeOK ==
    /\ story \in [Tales -> StoryRow] /\ visit \in Visit
    /\ holds \subseteq Facts /\ ever \subseteq Facts /\ always \subseteq holds

TrayInit ==
    /\ story \in [Tales -> StoryRow]
    /\ holds \in SUBSET Facts /\ ever = holds /\ always = holds
    /\ \A s \in Tales : Is("exists", s) => Is("fresh", s)
    /\ \A s \in Tales : Is("paid", s) => Is("exists", s) /\ story[s].premium /\ Foreign(s)
    /\ ~Is("follows", Reader) /\ ~Is("close", Reader)
    /\ \E op \in {"findAll", "findByUser"}, guest \in BOOLEAN, of \in Authors :
           /\ op = "findAll" => of = Reader
           /\ guest => \A a \in Authors : ~Is("follows", a) /\ ~Is("close", a)
           /\ visit = [op |-> op, guest |-> guest, of |-> of, step |-> "begin", scope |-> {},
                       fresh |-> {}, ask |-> {}, shown |-> {}, media |-> {}]

TrayStep ==
    \/ FindFollowing \/ FindStories \/ FindCloseFriend
    \/ FindProfile \/ FindFollow \/ FindUserStories \/ FindPurchase \/ FactFlips

----------------------------------------------------------------------------
(* Properties.                                                             *)
(***************************************************************************)
\* Who may see what by the conditions that each endpoint asks for, were F the facts
\* all along.  The page of an author asks nothing about close friends; that it
\* should is CloseFriendsOnly.
Sees(op, s, F) ==
    LET a == story[s].author
        own == ~visit.guest /\ a = Reader
        follows == ~visit.guest /\ <<"follows", a>> \in F
        public == <<"public", a>> \in F
        close == ~visit.guest /\ <<"close", a>> \in F IN
    /\ {<<"exists", s>>, <<"fresh", s>>} \subseteq F
    /\ IF op = "findAll"
       THEN (own \/ follows \/ (visit.guest /\ public)) /\ (story[s].closeFriendsOnly => own \/ close)
       ELSE own \/ follows \/ public
SeesMedia(s, F) ==
    story[s].premium => ~visit.guest /\ (~Foreign(s) \/ <<"paid", s>> \in F)

\* A visit is shown all that its endpoint lets it see from its beginning to its end,
\* and nothing but what it may see by facts that each held at some time of it; the
\* same goes for the media of what is sold; and what the tray shows is shown on
\* the page of its author.  Of what is for close friends only, this says that the
\* tray keeps it from others; the page does not, see CloseFriendsOnly.
TrayIsFair ==
    visit.step = "done" =>
        \A s \in {t \in Tales : visit.op = "findByUser" => story[t].author = visit.of} :
            /\ Sees(visit.op, s, always) => s \in visit.shown
            /\ s \in visit.shown =>
                   /\ Sees(visit.op, s, ever) /\ Sees("findByUser", s, ever)
                   /\ SeesMedia(s, always) => s \in visit.media
                   /\ s \in visit.media => SeesMedia(s, ever)

\* "Supports close-friends-only visibility" (line 31): a story for close friends is
\* shown only to its author and to those who were close friends at some time of the
\* visit.  The tray keeps to it, which is part of TrayIsFair; the page of the author
\* shows such a story to all whom it admits.
CloseFriendsOnly ==
    visit.step = "done" =>
        \A s \in visit.shown : story[s].closeFriendsOnly =>
            ~visit.guest /\ (~Foreign(s) \/ <<"close", story[s].author>> \in ever)

----------------------------------------------------------------------------
(* The inductive strengthening of TrayIsFair: what the statements so far   *)
(* have found agrees with facts that held at some time, and all the time.  *)
(***************************************************************************)
Pool == {s \in Tales : visit.op = "findByUser" => story[s].author = visit.of}

\* These are all the stories that the visit may see, and none that it may not.
FairlyShown(tales) ==
    \A s \in Pool :
        /\ Sees(visit.op, s, always) => s \in tales
        /\ s \in tales => Sees(visit.op, s, ever) /\ Sees("findByUser", s, ever)

\* The same of the media of the stories shown, but for those yet to be asked about.
MediaFairlyShown ==
    \A s \in visit.shown \ visit.ask :
        /\ SeesMedia(s, always) => s \in visit.media
        /\ s \in visit.media => SeesMedia(s, ever)

\* findAll remembers what was fresh and whom the reader followed.
ScopeFits ==
    /\ \A s \in Tales : /\ <<"fresh", s>> \in always => s \in visit.fresh
                        /\ s \in visit.fresh => <<"fresh", s>> \in ever
    /\ \A a \in Authors : /\ <<"follows", a>> \in always \/ a = Reader => a \in visit.scope
                          /\ a \in visit.scope => <<"follows", a>> \in ever \/ a = Reader

\* Those for close friends only wait to be asked about.
FriendsFit ==
    \A s \in Tales :
        /\ Sees("findAll", s, always) => s \in visit.shown
        /\ s \in visit.ask => story[s].closeFriendsOnly /\ Foreign(s)
        /\ s \in visit.shown =>
               /\ {<<"exists", s>>, <<"fresh", s>>} \subseteq ever
               /\ <<"follows", story[s].author>> \in ever \/ ~Foreign(s)
               /\ story[s].closeFriendsOnly /\ Foreign(s) =>
                      s \in visit.ask \/ <<"close", story[s].author>> \in ever

\* findByUser goes on to the stories of a profile that it may see.
ProfileFits ==
    \/ <<"public", visit.of>> \in ever
    \/ ~visit.guest /\ (visit.of = Reader \/ <<"follows", visit.of>> \in ever)

\* What is asked about is sold by others, and not yet given.
PurchasesFit ==
    \A s \in visit.ask : story[s].premium /\ Foreign(s) /\ s \notin visit.media

TrayInv ==
    /\ TrayTypeOK /\ holds \subseteq ever
    /\ visit.step \in {"begin", "follow", "stories"} =>
           visit.ask = {} /\ visit.shown = {} /\ visit.media = {}
    /\ visit.step = "stories" => IF visit.op = "findAll" THEN ScopeFits ELSE ProfileFits
    /\ visit.step = "follow" => /\ visit.op = "findByUser" /\ ~visit.guest /\ visit.of # Reader
                                /\ <<"public", visit.of>> \notin always
    /\ visit.step = "friends" => visit.op = "findAll" /\ ~visit.guest /\ FriendsFit
    /\ visit.step \in {"purchases", "done"} => FairlyShown(visit.shown) /\ MediaFairlyShown
    /\ visit.step = "purchases" => ~visit.guest /\ PurchasesFit
    /\ visit.step = "done" => visit.ask = {}

=============================================================================
