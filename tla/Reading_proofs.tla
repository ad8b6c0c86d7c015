--------------------------- MODULE Reading_proofs ---------------------------
(***************************************************************************)
(* What the reads show: stories, for any numbers of authors and stories    *)
(* and any changes during a visit; listings, for any rows, page sizes and  *)
(* changes during a walk; figures, for any rows, times and time zones.     *)
(*                                                                         *)
(* The rows that a find selects and sums over rows are defined by          *)
(* recursion, over the positions of a sequence and over finite sets.       *)
(* What they say is proved by induction in the form of sets of numbers,    *)
(* from the well-foundedness of their order (SetInduction).                *)
(***************************************************************************)
EXTENDS Reading, WellFoundedInduction, FiniteSetTheorems, SequenceTheorems, TLAPS

----------------------------------------------------------------------------
(* Stories.                                                                *)
(***************************************************************************)
\* More facts show more.
LEMMA SeesGrows ==
    ASSUME NEW op, NEW s, NEW F, NEW G, F \subseteq G
    PROVE  /\ Sees(op, s, F) => Sees(op, s, G)
           /\ SeesMedia(s, F) => SeesMedia(s, G)
BY DEF Sees, SeesMedia

\* What a visit is about stays, and the facts that held all the time hold.
Visiting ==
    /\ story' = story /\ visit'.op = visit.op /\ visit'.guest = visit.guest
    /\ visit'.of = visit.of

\* The types of what a visit is about and has found.
LEMMA TypedVisit ==
    ASSUME TrayTypeOK
    PROVE  /\ visit.op \in {"findAll", "findByUser"} /\ visit.guest \in BOOLEAN
           /\ visit.of \in Authors /\ visit.scope \subseteq Authors
           /\ visit.fresh \subseteq Tales /\ visit.ask \subseteq Tales
           /\ visit.shown \subseteq Tales /\ visit.media \subseteq Tales
           /\ \A s \in Tales : /\ story[s].author \in Authors
                               /\ story[s].closeFriendsOnly \in BOOLEAN
                               /\ story[s].premium \in BOOLEAN
BY DEF TrayTypeOK, Visit, StoryRow

\* A visit begins with nothing shown, and with the facts as they are.
LEMMA TrayInitKeeps == TrayInit => TrayInv
<1> SUFFICES ASSUME TrayInit PROVE TrayInv
  OBVIOUS
<1>1. PICK op \in {"findAll", "findByUser"}, guest \in BOOLEAN, of \in Authors :
          visit = [op |-> op, guest |-> guest, of |-> of, step |-> "begin", scope |-> {},
                   fresh |-> {}, ask |-> {}, shown |-> {}, media |-> {}]
  BY DEF TrayInit
<1>2. visit \in Visit /\ visit.step = "begin" /\ visit.ask = {} /\ visit.shown = {}
      /\ visit.media = {}
  BY <1>1 DEF Visit
<1>3. TrayTypeOK /\ holds \subseteq ever
  BY <1>2 DEF TrayInit, TrayTypeOK
<1>4. QED
  BY <1>2, <1>3 DEF TrayInv

\* What is fair to show does not depend on how far the visit is.
LEMMA FairnessStays ==
    ASSUME Visiting, UNCHANGED <<ever, always>>, NEW tales, FairlyShown(tales), visit'.shown = tales
    PROVE  FairlyShown(visit.shown)'
<1>1. Pool' = Pool
  BY DEF Pool, Visiting
<1>2. \A s : /\ Sees(visit.op, s, always)' <=> Sees(visit.op, s, always)
             /\ Sees(visit.op, s, ever)' <=> Sees(visit.op, s, ever)
             /\ Sees("findByUser", s, ever)' <=> Sees("findByUser", s, ever)
  BY DEF Sees, Visiting
<1>3. QED
  BY <1>1, <1>2 DEF FairlyShown

\* The end of a visit with stories that are shown fairly; of what is sold its
\* media are left out, until a purchase is found.
LEMMA ShownKeeps ==
    ASSUME TrayInv, NEW tales \in SUBSET Tales, FairlyShown(tales),
           visit' = Shown(tales), UNCHANGED <<story, holds, ever, always>>
    PROVE  TrayInv'
<1> DEFINE sold == {s \in tales : story[s].premium /\ Foreign(s)}
<1>1. visit \in Visit
  BY DEF TrayInv, TrayTypeOK
<1>2. CASE visit.guest
  <2>1. visit' = [visit EXCEPT !.step = "done", !.shown = tales, !.media = Free(tales),
                               !.ask = {}]
    BY <1>2 DEF Shown
  <2>2. Free(tales) \subseteq Tales
    BY DEF Free
  <2>3. visit' \in Visit
    BY <1>1, <2>1, <2>2 DEF Visit
  <2>4. Visiting /\ visit'.step = "done" /\ visit'.shown = tales /\ visit'.media = Free(tales)
        /\ visit'.ask = {}
    BY <1>1, <2>1 DEF Visit, Visiting
  <2>5. FairlyShown(visit.shown)'
    BY <2>4, FairnessStays
  <2>6. MediaFairlyShown'
    BY <1>2, <2>4 DEF MediaFairlyShown, SeesMedia, Free, Visiting
  <2>7. TrayTypeOK' /\ (holds \subseteq ever)'
    BY <2>3 DEF TrayInv, TrayTypeOK
  <2>8. QED
    BY <2>4, <2>5, <2>6, <2>7 DEF TrayInv
<1>3. CASE ~visit.guest
  <2>1. visit' = [visit EXCEPT !.step = IF sold = {} THEN "done" ELSE "purchases",
                               !.shown = tales, !.ask = sold, !.media = tales \ sold]
    BY <1>3 DEF Shown
  <2>2. sold \subseteq tales /\ tales \ sold \subseteq Tales
    OBVIOUS
  <2> HIDE DEF sold
  <2>3. visit' \in Visit
    BY <1>1, <2>1, <2>2 DEF Visit
  <2>4. /\ Visiting /\ visit'.step = (IF sold = {} THEN "done" ELSE "purchases")
        /\ visit'.shown = tales /\ visit'.media = tales \ sold /\ visit'.ask = sold
    BY <1>1, <2>1 DEF Visit, Visiting
  <2>5. FairlyShown(visit.shown)'
    BY <2>4, FairnessStays
  <2>6. MediaFairlyShown'
    BY <1>3, <2>4 DEF MediaFairlyShown, SeesMedia, Foreign, Visiting, sold
  <2>7. TrayTypeOK' /\ (holds \subseteq ever)'
    BY <2>3 DEF TrayInv, TrayTypeOK
  <2>8. PurchasesFit'
    BY <2>4 DEF PurchasesFit, sold, Foreign, Visiting
  <2>9. QED
    BY <1>3, <2>4, <2>5, <2>6, <2>7, <2>8 DEF TrayInv, Visiting
<1>4. QED
  BY <1>2, <1>3

\* What was fresh and followed held when the statement was made.
LEMMA FindFollowingKeeps ==
    ASSUME TrayInv, FindFollowing
    PROVE  TrayInv'
<1> DEFINE fresh == {s \in Tales : Is("fresh", s)}
           scope == {a \in Authors : Is("follows", a)} \cup {Reader}
<1>1. visit \in Visit /\ visit.op = "findAll" /\ visit.step = "begin"
  BY DEF TrayInv, TrayTypeOK, FindFollowing, Reads
<1>2. /\ visit' = [visit EXCEPT !.step = "stories", !.fresh = fresh, !.scope = scope]
      /\ UNCHANGED <<story, holds, ever, always>>
  BY DEF FindFollowing, Reads
<1>3. fresh \subseteq Tales /\ scope \subseteq Authors
  BY TrayAssumption
<1>4. ScopeFits'
  <2>1. visit'.fresh = fresh /\ visit'.scope = scope
    BY <1>1, <1>2 DEF Visit
  <2>2. QED
    BY <1>2, <2>1 DEF ScopeFits, TrayInv, TrayTypeOK, Is
<1> HIDE DEF fresh, scope
<1>5. visit' \in Visit /\ Visiting /\ visit'.step = "stories" /\ visit'.shown = visit.shown
      /\ visit'.media = visit.media /\ visit'.ask = visit.ask
  BY <1>1, <1>2, <1>3 DEF Visit, Visiting
<1>6. TrayTypeOK'
  BY <1>2, <1>5 DEF TrayInv, TrayTypeOK
<1>7. QED
  BY <1>1, <1>2, <1>4, <1>5, <1>6 DEF TrayInv, Visiting

\* The tray of a guest is public; that of a reader is of those followed, but for
\* the stories that wait for their look-up.
LEMMA FindStoriesKeeps ==
    ASSUME TrayInv, FindStories
    PROVE  TrayInv'
<1> DEFINE found == {s \in visit.fresh : Is("exists", s)}
           public == {s \in found : Is("public", story[s].author) /\ ~story[s].closeFriendsOnly}
           followed == {s \in found : story[s].author \in visit.scope}
           ask == {s \in followed : story[s].closeFriendsOnly /\ Foreign(s)}
<1>1. /\ visit.op = "findAll" /\ visit.step = "stories"
      /\ UNCHANGED <<story, holds, ever, always>>
      /\ visit' = IF visit.guest THEN Shown(public)
                  ELSE IF ask = {} THEN Shown(followed)
                  ELSE [visit EXCEPT !.step = "friends", !.shown = followed, !.ask = ask]
  BY DEF FindStories, Reads
<1>2. ScopeFits /\ visit.shown = {} /\ always \subseteq holds /\ holds \subseteq ever
  BY <1>1 DEF TrayInv, TrayTypeOK
<1>3. public \subseteq Tales /\ followed \subseteq Tales /\ ask \subseteq Tales
  BY TypedVisit DEF TrayInv
<1>4. \A s \in Tales : /\ <<"exists", s>> \in always /\ <<"fresh", s>> \in always => s \in found
                       /\ s \in found => <<"exists", s>> \in ever /\ <<"fresh", s>> \in ever
  BY <1>2 DEF ScopeFits, Is
<1>5. CASE visit.guest
  <2>1. FairlyShown(public)
    BY <1>1, <1>2, <1>4, <1>5 DEF FairlyShown, Pool, Sees, Is
  <2>2. QED
    BY <1>1, <1>3, <1>5, <2>1, ShownKeeps
<1>6. CASE ~visit.guest
  <2>1. \A s \in Tales :
            /\ Sees("findAll", s, always) => s \in followed
            /\ s \in followed =>
                   /\ {<<"exists", s>>, <<"fresh", s>>} \subseteq ever
                   /\ <<"follows", story[s].author>> \in ever \/ ~Foreign(s)
    BY <1>2, <1>4, <1>6, TypedVisit DEF TrayInv, ScopeFits, Sees, Foreign
  <2>2. CASE ask = {}
    <3>1. FairlyShown(followed)
      BY <1>1, <1>6, <2>1, <2>2 DEF FairlyShown, Pool, Sees, Foreign
    <3>2. QED
      BY <1>1, <1>3, <1>6, <2>2, <3>1, ShownKeeps
  <2>3. CASE ask # {}
    <3>1. visit \in Visit
      BY DEF TrayInv, TrayTypeOK
    <3>2. visit' = [visit EXCEPT !.step = "friends", !.shown = followed, !.ask = ask]
      BY <1>1, <1>6, <2>3
    <3>3. \A s \in Tales : s \in ask <=> s \in followed /\ story[s].closeFriendsOnly /\ Foreign(s)
      BY <1>3
    <3> HIDE DEF followed, ask
    <3>4. /\ visit' \in Visit /\ Visiting /\ visit'.step = "friends"
          /\ visit'.shown = followed /\ visit'.ask = ask
      BY <1>1, <1>3, <3>1, <3>2 DEF Visit, Visiting
    <3>5. FriendsFit'
      BY <1>1, <2>1, <3>3, <3>4 DEF FriendsFit, Sees, Foreign, Visiting
    <3>6. TrayTypeOK' /\ (holds \subseteq ever)'
      BY <1>1, <1>2, <3>4 DEF TrayInv, TrayTypeOK
    <3>7. QED
      BY <1>1, <1>6, <3>4, <3>5, <3>6 DEF TrayInv, Visiting
  <2>4. QED
    BY <2>2, <2>3
<1>7. QED
  BY <1>5, <1>6

\* A look-up drops a story whose author has not the reader as a close friend.
LEMMA FindCloseFriendKeeps ==
    ASSUME TrayInv, FindCloseFriend
    PROVE  TrayInv'
<1>1. /\ visit.op = "findAll" /\ visit.step = "friends" /\ ~visit.guest /\ FriendsFit
      /\ UNCHANGED <<story, holds, ever, always>>
      /\ always \subseteq holds /\ holds \subseteq ever
  BY DEF FindCloseFriend, Reads, TrayInv, TrayTypeOK
<1>2. PICK s \in visit.ask :
          LET kept == IF Is("close", story[s].author) THEN visit.shown ELSE visit.shown \ {s} IN
          visit' = IF visit.ask = {s} THEN Shown(kept)
                   ELSE [visit EXCEPT !.shown = kept, !.ask = @ \ {s}]
  BY DEF FindCloseFriend
<1> DEFINE kept == IF Is("close", story[s].author) THEN visit.shown ELSE visit.shown \ {s}
<1>3. visit' = IF visit.ask = {s} THEN Shown(kept)
               ELSE [visit EXCEPT !.shown = kept, !.ask = visit.ask \ {s}]
  BY <1>2
<1>4. kept \subseteq Tales /\ visit.ask \subseteq Tales
  BY TypedVisit DEF TrayInv
<1>5. \A t \in Tales :
          /\ Sees("findAll", t, always) => t \in kept
          /\ t \in kept =>
                 /\ {<<"exists", t>>, <<"fresh", t>>} \subseteq ever
                 /\ <<"follows", story[t].author>> \in ever \/ ~Foreign(t)
                 /\ story[t].closeFriendsOnly /\ Foreign(t) =>
                        t \in visit.ask \ {s} \/ <<"close", story[t].author>> \in ever
  <2> SUFFICES ASSUME NEW t \in Tales
               PROVE  /\ Sees("findAll", t, always) => t \in kept
                      /\ t \in kept =>
                             /\ {<<"exists", t>>, <<"fresh", t>>} \subseteq ever
                             /\ <<"follows", story[t].author>> \in ever \/ ~Foreign(t)
                             /\ story[t].closeFriendsOnly /\ Foreign(t) =>
                                    t \in visit.ask \ {s} \/ <<"close", story[t].author>> \in ever
    OBVIOUS
  <2>1. CASE t # s
    BY <1>1, <2>1 DEF FriendsFit
  <2>2. CASE t = s /\ Is("close", story[s].author)
    BY <1>1, <2>2 DEF FriendsFit, Is
  <2>3. CASE t = s /\ ~Is("close", story[s].author)
    <3>1. story[t].closeFriendsOnly /\ Foreign(t) /\ <<"close", story[t].author>> \notin always
      BY <1>1, <1>2, <2>3 DEF FriendsFit, Is
    <3>2. ~Sees("findAll", t, always)
      BY <1>1, <3>1 DEF Sees, Foreign
    <3>3. QED
      BY <2>3, <3>2
  <2>4. QED
    BY <2>1, <2>2, <2>3
<1> HIDE DEF kept
<1>6. CASE visit.ask = {s}
  <2>1. FairlyShown(kept)
    BY <1>1, <1>5, <1>6 DEF FairlyShown, Pool, Sees, Foreign
  <2>2. QED
    BY <1>1, <1>3, <1>4, <1>6, <2>1, ShownKeeps
<1>7. CASE visit.ask # {s}
  <2>1. visit \in Visit
    BY DEF TrayInv, TrayTypeOK
  <2>2. /\ visit' \in Visit /\ Visiting /\ visit'.step = "friends"
        /\ visit'.shown = kept /\ visit'.ask = visit.ask \ {s}
    BY <1>1, <1>3, <1>4, <1>7, <2>1 DEF Visit, Visiting
  <2>3. FriendsFit'
    BY <1>1, <1>5, <2>2 DEF FriendsFit, Sees, Foreign, Visiting
  <2>4. TrayTypeOK' /\ (holds \subseteq ever)'
    BY <1>1, <2>2 DEF TrayInv, TrayTypeOK
  <2>5. QED
    BY <1>1, <2>2, <2>3, <2>4 DEF TrayInv, Visiting
<1>8. QED
  BY <1>6, <1>7

\* A private profile ends a guest's visit; it did not have to be seen.
LEMMA FindProfileKeeps ==
    ASSUME TrayInv, FindProfile
    PROVE  TrayInv'
<1> DEFINE next == IF Is("public", visit.of) \/ (visit.of = Reader /\ ~visit.guest) THEN "stories"
                   ELSE IF visit.guest THEN "done" ELSE "follow"
<1>1. /\ visit.op = "findByUser" /\ visit.step = "begin" /\ visit' = [visit EXCEPT !.step = next]
      /\ UNCHANGED <<story, holds, ever, always>>
  BY DEF FindProfile, Reads
<1>2. /\ visit \in Visit /\ visit.ask = {} /\ visit.shown = {} /\ visit.media = {}
      /\ always \subseteq holds /\ holds \subseteq ever
  BY <1>1 DEF TrayInv, TrayTypeOK
<1>3. next \in {"stories", "done", "follow"}
  OBVIOUS
<1>4. next = "stories" => ProfileFits
  BY <1>2 DEF ProfileFits, Is
<1>5. next # "stories" => /\ <<"public", visit.of>> \notin always
                          /\ visit.guest \/ visit.of # Reader
  BY <1>2 DEF Is
<1>6. (next = "done" => visit.guest) /\ (next = "follow" => ~visit.guest)
  OBVIOUS
<1> HIDE DEF next
<1>7. /\ visit' \in Visit /\ Visiting /\ visit'.step = next /\ visit'.ask = {}
      /\ visit'.shown = {} /\ visit'.media = {}
  BY <1>1, <1>2, <1>3 DEF Visit, Visiting
<1>8. next = "done" => FairlyShown(visit.shown)' /\ MediaFairlyShown'
  BY <1>1, <1>5, <1>6, <1>7 DEF FairlyShown, MediaFairlyShown, Pool, Sees, Visiting
<1>9. TrayTypeOK' /\ (holds \subseteq ever)'
  BY <1>1, <1>2, <1>7 DEF TrayInv, TrayTypeOK
<1>10. QED
  BY <1>1, <1>3, <1>4, <1>5, <1>6, <1>7, <1>8, <1>9 DEF TrayInv, Visiting, ProfileFits

\* findByUser finds whether the reader follows the author.
LEMMA FindFollowKeeps ==
    ASSUME TrayInv, FindFollow
    PROVE  TrayInv'
<1> DEFINE next == IF Is("follows", visit.of) THEN "stories" ELSE "done"
<1>1. /\ visit.op = "findByUser" /\ visit.step = "follow" /\ visit' = [visit EXCEPT !.step = next]
      /\ UNCHANGED <<story, holds, ever, always>>
  BY DEF FindFollow, Reads
<1>2. /\ visit \in Visit /\ visit.ask = {} /\ visit.shown = {} /\ visit.media = {}
      /\ ~visit.guest /\ visit.of # Reader /\ <<"public", visit.of>> \notin always
      /\ always \subseteq holds /\ holds \subseteq ever
  BY <1>1 DEF TrayInv, TrayTypeOK
<1>3. next \in {"stories", "done"}
  OBVIOUS
<1>4. next = "stories" => ProfileFits
  BY <1>2 DEF ProfileFits, Is
<1>5. next = "done" => <<"follows", visit.of>> \notin always
  BY <1>2 DEF Is
<1> HIDE DEF next
<1>6. /\ visit' \in Visit /\ Visiting /\ visit'.step = next /\ visit'.ask = {}
      /\ visit'.shown = {} /\ visit'.media = {}
  BY <1>1, <1>2, <1>3 DEF Visit, Visiting
<1>7. next = "done" => FairlyShown(visit.shown)' /\ MediaFairlyShown'
  BY <1>1, <1>2, <1>5, <1>6 DEF FairlyShown, MediaFairlyShown, Pool, Sees, Visiting
<1>8. TrayTypeOK' /\ (holds \subseteq ever)'
  BY <1>1, <1>2, <1>6 DEF TrayInv, TrayTypeOK
<1>9. QED
  BY <1>1, <1>3, <1>4, <1>6, <1>7, <1>8 DEF TrayInv, Visiting, ProfileFits

\* The stories of a profile that may be seen.
LEMMA FindUserStoriesKeeps ==
    ASSUME TrayInv, FindUserStories
    PROVE  TrayInv'
<1> DEFINE tales == {s \in Tales : Is("exists", s) /\ Is("fresh", s) /\ story[s].author = visit.of}
<1>1. /\ visit.op = "findByUser" /\ visit.step = "stories" /\ visit' = Shown(tales)
      /\ UNCHANGED <<story, holds, ever, always>>
  BY DEF FindUserStories, Reads
<1>2. ProfileFits /\ always \subseteq holds /\ holds \subseteq ever
  BY <1>1 DEF TrayInv, TrayTypeOK
<1>3. FairlyShown(tales)
  BY <1>1, <1>2 DEF FairlyShown, Pool, Sees, ProfileFits, Is
<1>4. QED
  BY <1>1, <1>3, ShownKeeps

\* A purchase that is found shows the media, one that is not leaves them out.
LEMMA FindPurchaseKeeps ==
    ASSUME TrayInv, FindPurchase
    PROVE  TrayInv'
<1>1. PICK s \in visit.ask :
          visit' = [visit EXCEPT !.ask = @ \ {s},
                                 !.media = IF Is("paid", s) THEN @ \cup {s} ELSE @,
                                 !.step = IF visit.ask = {s} THEN "done" ELSE @]
  BY DEF FindPurchase
<1>2. visit.step = "purchases" /\ UNCHANGED <<story, holds, ever, always>>
  BY DEF FindPurchase
<1>3. /\ visit \in Visit /\ always \subseteq holds /\ holds \subseteq ever /\ ~visit.guest
      /\ FairlyShown(visit.shown) /\ MediaFairlyShown /\ PurchasesFit
  BY <1>2 DEF TrayInv, TrayTypeOK
<1> DEFINE media == IF Is("paid", s) THEN visit.media \cup {s} ELSE visit.media
           next == IF visit.ask = {s} THEN "done" ELSE "purchases"
           left == visit.ask \ {s}
<1>4. visit' = [visit EXCEPT !.ask = left, !.media = media, !.step = next]
  BY <1>1, <1>2
<1>5. left \subseteq Tales /\ media \subseteq Tales /\ next \in {"done", "purchases"}
  BY TypedVisit DEF TrayInv
<1>6. /\ s \in media => SeesMedia(s, ever) \/ s \in visit.media
      /\ s \notin media => ~(<<"paid", s>> \in always)
      /\ \A t \in Tales \ {s} : t \in media <=> t \in visit.media
  BY <1>3 DEF SeesMedia, Is
<1>7. /\ next = "done" => left = {}
      /\ \A t \in Tales : t \in left <=> t \in visit.ask /\ t # s
  OBVIOUS
<1> HIDE DEF media, next, left
<1>8. /\ visit' \in Visit /\ Visiting /\ visit'.step = next /\ visit'.shown = visit.shown
      /\ visit'.media = media /\ visit'.ask = left
  <2> DEFINE q == [visit EXCEPT !.ask = left, !.media = media]
  <2>1. /\ q \in Visit /\ q.op = visit.op /\ q.guest = visit.guest /\ q.of = visit.of
        /\ q.shown = visit.shown /\ q.media = media /\ q.ask = left
    BY <1>3, <1>5 DEF Visit
  <2>2. visit' = [q EXCEPT !.step = next]
    BY <1>3, <1>4 DEF Visit
  <2> HIDE DEF q
  <2>3. QED
    BY <1>2, <1>5, <2>1, <2>2 DEF Visit, Visiting
<1>9. FairlyShown(visit.shown)'
  BY <1>2, <1>3, <1>8 DEF FairlyShown, Pool, Sees, Visiting
<1>10. MediaFairlyShown'
  <2>1. \A t \in Tales : /\ SeesMedia(t, always)' <=> SeesMedia(t, always)
                         /\ SeesMedia(t, ever)' <=> SeesMedia(t, ever)
    BY <1>2, <1>8 DEF SeesMedia, Foreign, Visiting
  <2>2. s \in visit.shown => /\ SeesMedia(s, always) => s \in media
                             /\ s \in media => SeesMedia(s, ever)
    <3>1. story[s].premium /\ Foreign(s) /\ s \notin visit.media
      BY <1>3 DEF PurchasesFit
    <3>2. QED
      BY <1>6, <3>1 DEF SeesMedia
  <2>3. QED
    BY <1>3, <1>6, <1>7, <1>8, <2>1, <2>2, TypedVisit DEF TrayInv, MediaFairlyShown
<1>11. TrayTypeOK' /\ (holds \subseteq ever)'
  BY <1>2, <1>3, <1>8 DEF TrayInv, TrayTypeOK
<1>12. PurchasesFit'
  BY <1>2, <1>3, <1>5, <1>6, <1>7, <1>8 DEF PurchasesFit, Foreign, Visiting
<1>13. QED
  BY <1>3, <1>5, <1>7, <1>8, <1>9, <1>10, <1>11, <1>12 DEF TrayInv, Visiting

\* Whatever changes meanwhile, what held all the time becomes less, and what held
\* at some time more.
LEMMA FactFlipsKeeps ==
    ASSUME TrayInv, FactFlips
    PROVE  TrayInv'
<1>1. PICK f \in Flips :
          /\ holds' = IF f \notin holds THEN holds \cup {f}
                      ELSE IF f[1] = "exists" THEN holds \ {f, <<"fresh", f[2]>>}
                      ELSE holds \ {f}
          /\ ever' = ever \cup holds' /\ always' = always \cap holds'
  BY DEF FactFlips
<1>2. UNCHANGED <<story, visit>> /\ f \in Facts
  BY DEF FactFlips, Flips
<1>3. /\ ever \subseteq ever' /\ always' \subseteq always /\ holds' \subseteq Facts
      /\ holds' \subseteq ever' /\ always' \subseteq holds' /\ ever' \subseteq Facts
  BY <1>1, <1>2 DEF TrayInv, TrayTypeOK
<1>4. TrayTypeOK'
  BY <1>2, <1>3 DEF TrayInv, TrayTypeOK
<1>5. \A op \in {"findAll", "findByUser"}, s \in Tales :
          /\ (Sees(op, s, always))' => Sees(op, s, always)
          /\ Sees(op, s, ever) => (Sees(op, s, ever))'
          /\ (SeesMedia(s, always))' => SeesMedia(s, always)
          /\ SeesMedia(s, ever) => (SeesMedia(s, ever))'
  BY <1>2, <1>3 DEF Sees, SeesMedia, Foreign
<1>6. FairlyShown(visit.shown) => FairlyShown(visit.shown)'
  BY <1>2, <1>5, TypedVisit DEF TrayInv, FairlyShown, Pool
<1>7. MediaFairlyShown => MediaFairlyShown'
  BY <1>2, <1>5, TypedVisit DEF TrayInv, MediaFairlyShown
<1>8. ScopeFits => ScopeFits'
  BY <1>2, <1>3 DEF ScopeFits
<1>9. ProfileFits => ProfileFits'
  BY <1>2, <1>3 DEF ProfileFits
<1>10. FriendsFit => FriendsFit'
  BY <1>2, <1>3, <1>5 DEF FriendsFit, Foreign
<1>11. PurchasesFit => PurchasesFit'
  BY <1>2 DEF PurchasesFit, Foreign
<1>12. QED
  BY <1>2, <1>3, <1>4, <1>6, <1>7, <1>8, <1>9, <1>10, <1>11 DEF TrayInv

\* Each step keeps what is said of visits.
LEMMA TrayStepKeeps == TrayInv /\ TrayStep => TrayInv'
BY FindFollowingKeeps, FindStoriesKeeps, FindCloseFriendKeeps, FindProfileKeeps, FindFollowKeeps,
   FindUserStoriesKeeps, FindPurchaseKeeps, FactFlipsKeeps DEF TrayStep

\* A step of nothing keeps what is said of visits.
LEMMA TrayRests ==
    ASSUME TrayInv, UNCHANGED trayVars
    PROVE  TrayInv'
<1>1. UNCHANGED <<story, holds, visit, ever, always>>
  BY DEF trayVars
<1>2. TrayTypeOK' /\ (holds \subseteq ever)'
  BY <1>1 DEF TrayInv, TrayTypeOK
<1>3. /\ ScopeFits => ScopeFits'
      /\ ProfileFits => ProfileFits'
      /\ PurchasesFit => PurchasesFit'
  BY <1>1 DEF ScopeFits, ProfileFits, PurchasesFit, Foreign
<1>4. FriendsFit => FriendsFit'
  BY <1>1 DEF FriendsFit, Sees, Foreign
<1>5. FairlyShown(visit.shown) => FairlyShown(visit.shown)'
  BY <1>1 DEF FairlyShown, Pool, Sees
<1>6. MediaFairlyShown => MediaFairlyShown'
  BY <1>1 DEF MediaFairlyShown, SeesMedia, Foreign
<1>7. QED
  BY <1>1, <1>2, <1>3, <1>4, <1>5, <1>6 DEF TrayInv

\* The invariant, of the behaviours that are visits.
StoriesInv == kind = "stories" => TrayInv

----------------------------------------------------------------------------
(* Induction, and what it says of numbers, of definitions step by step and of sequences.*)
(***************************************************************************)
Below == {p \in Nat \X Nat : p[1] < p[2]}

\* The order of the numbers is well-founded.
LEMMA BelowWellFounded == IsWellFoundedOn(Below, Nat)
<1>1. OpToRel(<, Nat) = Below
  BY DEF OpToRel, Below
<1>2. QED
  BY <1>1, NatLessThanWellFounded

\* A set of numbers that is not empty has a least one.
LEMMA Least ==
    ASSUME NEW T \in SUBSET Nat, T # {}
    PROVE  \E x \in T : \A y \in T : x <= y
<1>1. PICK x \in T : \A y \in T : ~(<<y, x>> \in Below)
  BY BelowWellFounded, WFMin
<1>2. ASSUME NEW y \in T PROVE x <= y
  <2>1. CASE y < x
    <3>1. <<y, x>> \in Below
      BY <2>1 DEF Below
    <3>2. QED
      BY <1>1, <3>1
  <2>2. QED
    BY <2>1
<1>3. QED
  BY <1>2

\* Induction: a set that has 0 and, with a number, the next one has all of them.
LEMMA SetInduction ==
    ASSUME NEW S, 0 \in S, \A n \in S \cap Nat : n + 1 \in S
    PROVE  Nat \subseteq S
<1> DEFINE T == Nat \ S
<1>1. SUFFICES ASSUME T # {} PROVE FALSE
  OBVIOUS
<1>2. PICK x \in T : \A y \in T : x <= y
  BY <1>1, Least
<1>3. x - 1 \in Nat /\ x - 1 < x /\ x - 1 \in S
  BY <1>2
<1>4. QED
  BY <1>2, <1>3

\* What is defined step by step from a first value.
Unfolds(f, n, S, base, step) ==
    /\ f \in [0 .. n -> S] /\ f[0] = base
    /\ \A i \in 1 .. n : f[i] = step[<<i, f[i - 1]>>]

\* Whatever is defined step by step agrees as far as both go.
LEMMA UnfoldsUnique ==
    ASSUME NEW S, NEW base, NEW step, NEW n \in Nat, NEW m \in Nat, NEW f, NEW g,
           Unfolds(f, n, S, base, step), Unfolds(g, m, S, base, step)
    PROVE  \A i \in Nat : i <= n /\ i <= m => f[i] = g[i]
<1> DEFINE Good == {i \in Nat : i <= n /\ i <= m => f[i] = g[i]}
<1>1. 0 \in Good
  BY DEF Unfolds
<1>2. ASSUME NEW i \in Good PROVE i + 1 \in Good
  <2>1. CASE i + 1 <= n /\ i + 1 <= m
    <3>1. i + 1 \in 1 .. n /\ i + 1 \in 1 .. m /\ (i + 1) - 1 = i /\ f[i] = g[i]
      BY <2>1
    <3>2. f[i + 1] = step[<<i + 1, f[i]>>] /\ g[i + 1] = step[<<i + 1, g[i]>>]
      BY <3>1 DEF Unfolds
    <3>3. QED
      BY <3>1, <3>2
  <2>2. QED
    BY <2>1
<1> HIDE DEF Good
<1>3. Nat \subseteq Good
  BY <1>1, <1>2, SetInduction
<1>4. QED
  BY <1>3 DEF Good

\* What can be stepped on from any value exists, as long as one likes.
LEMMA UnfoldsExists ==
    ASSUME NEW S, NEW base \in S, NEW step \in [Nat \X S -> S], NEW n \in Nat
    PROVE  \E f : Unfolds(f, n, S, base, step)
<1> DEFINE Good == {k \in Nat : \E f : Unfolds(f, k, S, base, step)}
<1>1. 0 \in Good
  <2>1. Unfolds([i \in 0 .. 0 |-> base], 0, S, base, step)
    BY DEF Unfolds
  <2>2. QED
    BY <2>1
<1>2. ASSUME NEW k \in Good PROVE k + 1 \in Good
  <2>1. PICK f : Unfolds(f, k, S, base, step)
    OBVIOUS
  <2> DEFINE g == [i \in 0 .. k + 1 |-> IF i = k + 1 THEN step[<<i, f[k]>>] ELSE f[i]]
  <2>2. k \in Nat /\ f \in [0 .. k -> S] /\ f[k] \in S
    BY <2>1 DEF Unfolds
  <2>3. /\ \A i \in 0 .. k : g[i] = f[i]
        /\ g[k + 1] = step[<<k + 1, f[k]>>]
    BY <2>2
  <2>4. g \in [0 .. k + 1 -> S]
    <3>1. step[<<k + 1, f[k]>>] \in S
      BY <2>2
    <3>2. QED
      BY <2>2, <3>1
  <2> HIDE DEF g
  <2>5. ASSUME NEW i \in 1 .. k + 1 PROVE g[i] = step[<<i, g[i - 1]>>]
    <3>1. CASE i = k + 1
      BY <2>2, <2>3, <3>1
    <3>2. CASE i \in 1 .. k
      <4>1. i \in 0 .. k /\ i - 1 \in 0 .. k
        BY <2>2, <3>2
      <4>2. f[i] = step[<<i, f[i - 1]>>]
        BY <2>1, <3>2 DEF Unfolds
      <4>3. QED
        BY <2>3, <4>1, <4>2
    <3>3. QED
      BY <2>2, <3>1, <3>2
  <2>6. Unfolds(g, k + 1, S, base, step)
    <3>1. g[0] = base
      BY <2>1, <2>2, <2>3 DEF Unfolds
    <3>2. QED
      BY <2>4, <2>5, <3>1 DEF Unfolds
  <2>7. QED
    BY <2>2, <2>6
<1> HIDE DEF Good
<1>3. Nat \subseteq Good
  BY <1>1, <1>2, SetInduction
<1>4. QED
  BY <1>3 DEF Good

\* The elements of a part of a sequence.
LEMMA SliceIs ==
    ASSUME NEW S, NEW s \in Seq(S), NEW m \in Nat \ {0}, NEW n \in 0 .. Len(s)
    PROVE  /\ SubSeq(s, m, n) \in Seq(S)
           /\ Len(SubSeq(s, m, n)) = IF m <= n THEN n - m + 1 ELSE 0
           /\ \A i \in 1 .. Len(SubSeq(s, m, n)) : SubSeq(s, m, n)[i] = s[m + i - 1]
OBVIOUS

\* The elements of two sequences one after the other.
LEMMA ConcatIs ==
    ASSUME NEW S, NEW s \in Seq(S), NEW t \in Seq(S)
    PROVE  /\ s \o t \in Seq(S) /\ Len(s \o t) = Len(s) + Len(t)
           /\ \A i \in 1 .. Len(s) + Len(t) :
                  (s \o t)[i] = IF i <= Len(s) THEN s[i] ELSE t[i - Len(s)]
OBVIOUS

\* The elements of a sequence that one was inserted into.
LEMMA InsertAtIs ==
    ASSUME NEW S, NEW s \in Seq(S), NEW k \in 1 .. Len(s) + 1, NEW e \in S
    PROVE  /\ InsertAt(s, k, e) \in Seq(S) /\ Len(InsertAt(s, k, e)) = Len(s) + 1
           /\ \A i \in 1 .. Len(s) + 1 :
                  InsertAt(s, k, e)[i] = IF i < k THEN s[i] ELSE IF i = k THEN e ELSE s[i - 1]
<1> DEFINE a == SubSeq(s, 1, k - 1)
           b == SubSeq(s, k, Len(s))
<1>1. /\ a \in Seq(S) /\ Len(a) = k - 1 /\ \A i \in 1 .. k - 1 : a[i] = s[i]
      /\ b \in Seq(S) /\ Len(b) = Len(s) - k + 1 /\ \A i \in 1 .. Len(b) : b[i] = s[k + i - 1]
  <2>1. k - 1 \in 0 .. Len(s) /\ k \in Nat \ {0} /\ Len(s) \in 0 .. Len(s)
    OBVIOUS
  <2>2. QED
    BY <2>1, SliceIs
<1> HIDE DEF a, b
<1>2. InsertAt(s, k, e) = a \o <<e>> \o b
  BY DEF InsertAt, a, b
<1>3. /\ a \o <<e>> \in Seq(S) /\ Len(a \o <<e>>) = k
      /\ \A i \in 1 .. k : (a \o <<e>>)[i] = IF i < k THEN s[i] ELSE e
  <2>1. <<e>> \in Seq(S) /\ Len(<<e>>) = 1 /\ <<e>>[1] = e
    OBVIOUS
  <2> DEFINE c == <<e>>
  <2> HIDE DEF c
  <2>2. /\ a \o c \in Seq(S) /\ Len(a \o c) = (k - 1) + 1
        /\ \A i \in 1 .. (k - 1) + 1 : (a \o c)[i] = IF i <= k - 1 THEN a[i] ELSE c[i - (k - 1)]
    BY <1>1, <2>1, ConcatIs DEF c
  <2>3. ASSUME NEW i \in 1 .. k PROVE (a \o c)[i] = IF i < k THEN s[i] ELSE e
    <3>1. CASE i < k
      <4>1. i \in 1 .. k - 1 /\ i \in 1 .. (k - 1) + 1 /\ i <= k - 1
        BY <3>1
      <4>2. QED
        BY <1>1, <2>2, <3>1, <4>1
    <3>2. CASE i = k
      <4>1. i \in 1 .. (k - 1) + 1 /\ ~(i <= k - 1) /\ i - (k - 1) = 1
        BY <3>2
      <4>2. QED
        BY <2>1, <2>2, <3>2, <4>1 DEF c
    <3>3. i < k \/ i = k
      OBVIOUS
    <3>4. QED
      BY <3>1, <3>2, <3>3
  <2>4. (k - 1) + 1 = k
    OBVIOUS
  <2>5. QED
    BY <2>2, <2>3, <2>4 DEF c
<1>4. /\ (a \o <<e>>) \o b \in Seq(S) /\ Len((a \o <<e>>) \o b) = k + Len(b)
      /\ \A i \in 1 .. k + Len(b) :
             ((a \o <<e>>) \o b)[i] = IF i <= k THEN (a \o <<e>>)[i] ELSE b[i - k]
  <2>1. ASSUME NEW u \in Seq(S), Len(u) = k
        PROVE  /\ u \o b \in Seq(S) /\ Len(u \o b) = k + Len(b)
               /\ \A i \in 1 .. k + Len(b) : (u \o b)[i] = IF i <= k THEN u[i] ELSE b[i - k]
    <3>1. b \in Seq(S)
      BY <1>1
    <3>2. QED
      BY ONLY <2>1, <3>1, ConcatIs
  <2>2. QED
    BY <1>3, <2>1
<1> DEFINE t == (a \o <<e>>) \o b
<1> HIDE DEF t
<1>5. /\ t \in Seq(S) /\ Len(t) = Len(s) + 1
      /\ \A i \in 1 .. Len(s) + 1 : t[i] = IF i < k THEN s[i] ELSE IF i = k THEN e ELSE s[i - 1]
  <2>1. t \in Seq(S) /\ Len(t) = Len(s) + 1
    BY <1>1, <1>4 DEF t
  <2>2. ASSUME NEW i \in 1 .. Len(s) + 1
        PROVE  t[i] = IF i < k THEN s[i] ELSE IF i = k THEN e ELSE s[i - 1]
    <3>1. CASE i <= k
      BY <1>1, <1>3, <1>4, <3>1 DEF t
    <3>2. CASE i > k
      <4>1. i - k \in 1 .. Len(b) /\ k + (i - k) - 1 = i - 1 /\ i \in 1 .. k + Len(b)
        BY <1>1, <3>2
      <4>2. t[i] = b[i - k]
        BY <1>4, <3>2, <4>1 DEF t
      <4>3. b[i - k] = s[i - 1]
        BY <1>1, <4>1
      <4>4. QED
        BY <3>2, <4>2, <4>3
    <3>3. QED
      BY <3>1, <3>2
  <2>3. QED
    BY <2>1, <2>2
<1>6. InsertAt(s, k, e) = t
  BY <1>2 DEF t
<1>7. QED
  BY <1>5, <1>6

\* The elements of a sequence that one was removed from.
LEMMA RemoveAtIs ==
    ASSUME NEW S, NEW s \in Seq(S), NEW k \in 1 .. Len(s)
    PROVE  /\ RemoveAt(s, k) \in Seq(S) /\ Len(RemoveAt(s, k)) = Len(s) - 1
           /\ \A i \in 1 .. Len(s) - 1 : RemoveAt(s, k)[i] = IF i < k THEN s[i] ELSE s[i + 1]
<1> DEFINE a == SubSeq(s, 1, k - 1)
           b == SubSeq(s, k + 1, Len(s))
<1>1. /\ a \in Seq(S) /\ Len(a) = k - 1 /\ \A i \in 1 .. k - 1 : a[i] = s[i]
      /\ b \in Seq(S) /\ Len(b) = Len(s) - k /\ \A i \in 1 .. Len(b) : b[i] = s[k + i]
  <2>1. k - 1 \in 0 .. Len(s) /\ k + 1 \in Nat \ {0} /\ Len(s) \in 0 .. Len(s)
    OBVIOUS
  <2>2. QED
    BY <2>1, SliceIs
<1> HIDE DEF a, b
<1> DEFINE t == a \o b
<1>2. /\ t \in Seq(S) /\ Len(t) = Len(s) - 1
      /\ \A i \in 1 .. Len(s) - 1 : t[i] = IF i <= k - 1 THEN a[i] ELSE b[i - (k - 1)]
  <2>1. /\ t \in Seq(S) /\ Len(t) = Len(a) + Len(b)
        /\ \A i \in 1 .. Len(a) + Len(b) : t[i] = IF i <= Len(a) THEN a[i] ELSE b[i - Len(a)]
    BY ONLY <1>1, ConcatIs
  <2> HIDE DEF t
  <2>2. QED
    BY <1>1, <2>1
<1> HIDE DEF t
<1>3. ASSUME NEW i \in 1 .. Len(s) - 1 PROVE t[i] = IF i < k THEN s[i] ELSE s[i + 1]
  <2>1. CASE i < k
    BY <1>1, <1>2, <2>1
  <2>2. CASE i >= k
    <3>1. i - (k - 1) \in 1 .. Len(b) /\ k + (i - (k - 1)) = i + 1
      BY <1>1, <2>2
    <3>2. t[i] = b[i - (k - 1)]
      BY <1>2, <2>2
    <3>3. b[i - (k - 1)] = s[i + 1]
      BY <1>1, <3>1
    <3>4. QED
      BY <2>2, <3>2, <3>3
  <2>3. QED
    BY <2>1, <2>2
<1>4. RemoveAt(s, k) = t
  BY DEF RemoveAt, a, b, t
<1>5. QED
  BY <1>2, <1>3, <1>4

----------------------------------------------------------------------------
(* Listings: what a find selects, and what a row that comes or goes does to it.*)
(***************************************************************************)
\* f holds what is chosen of the first n elements, for every n.
Choosing(f, s, W, S) ==
    /\ f \in [0 .. Len(s) -> Seq(S)] /\ f[0] = <<>>
    /\ \A n \in 1 .. Len(s) : f[n] = IF n \in W THEN Append(f[n - 1], s[n]) ELSE f[n - 1]

\* What a find selects is defined step by step along the rows.
LEMMA ChosenIs ==
    ASSUME NEW S, NEW s \in Seq(S), NEW W
    PROVE  \E f : Choosing(f, s, W, S) /\ Chosen(s, W) = f[Len(s)]
<1> DEFINE step == [p \in Nat \X Seq(S) |->
                       IF p[1] \in W \cap (1 .. Len(s)) THEN Append(p[2], s[p[1]]) ELSE p[2]]
           Picks(f) == f = [n \in 0 .. Len(s) |->
                       IF n = 0 THEN <<>>
                       ELSE IF n \in W THEN Append(f[n - 1], s[n]) ELSE f[n - 1]]
<1>1. step \in [Nat \X Seq(S) -> Seq(S)]
  OBVIOUS
<1>2. ASSUME NEW n \in 1 .. Len(s), NEW t \in Seq(S)
      PROVE  step[<<n, t>>] = IF n \in W THEN Append(t, s[n]) ELSE t
  <2>1. <<n, t>> \in Nat \X Seq(S) /\ <<n, t>>[1] = n /\ <<n, t>>[2] = t
    OBVIOUS
  <2>2. QED
    BY <2>1
<1> HIDE DEF step
<1>3. PICK f : Unfolds(f, Len(s), Seq(S), <<>>, step)
  <2>1. Len(s) \in Nat /\ <<>> \in Seq(S)
    OBVIOUS
  <2>2. QED
    BY ONLY <1>1, <2>1, UnfoldsExists
<1>4. Choosing(f, s, W, S)
  <2>1. ASSUME NEW n \in 1 .. Len(s)
        PROVE  f[n] = IF n \in W THEN Append(f[n - 1], s[n]) ELSE f[n - 1]
    <3>1. n - 1 \in 0 .. Len(s)
      OBVIOUS
    <3>2. f[n - 1] \in Seq(S) /\ f[n] = step[<<n, f[n - 1]>>]
      BY <1>3, <3>1 DEF Unfolds
    <3>3. QED
      BY <1>2, <3>2
  <2>2. QED
    BY <1>3, <2>1 DEF Choosing, Unfolds
<1>5. Picks(f)
  <2>1. DOMAIN f = 0 .. Len(s) /\ f = [n \in 0 .. Len(s) |-> f[n]] /\ f[0] = <<>>
    BY <1>4 DEF Choosing
  <2>2. ASSUME NEW n \in 0 .. Len(s)
        PROVE  f[n] = IF n = 0 THEN <<>>
                      ELSE IF n \in W THEN Append(f[n - 1], s[n]) ELSE f[n - 1]
    <3>1. CASE n = 0
      BY <2>1, <3>1
    <3>2. CASE n # 0
      <4>1. n \in 1 .. Len(s)
        BY <3>2
      <4>2. QED
        BY <1>4, <3>2, <4>1 DEF Choosing
    <3>3. QED
      BY <3>1, <3>2
  <2>3. QED
    BY ONLY <2>1, <2>2
<1>6. \A g : Picks(g) => Choosing(g, s, W, S)
  <2> SUFFICES ASSUME NEW g, Picks(g) PROVE Choosing(g, s, W, S)
    OBVIOUS
  <2> HIDE DEF Is
  <2>1. /\ g = [n \in 0 .. Len(s) |-> g[n]]
        /\ \A n \in 0 .. Len(s) : g[n] = IF n = 0 THEN <<>>
                      ELSE IF n \in W THEN Append(g[n - 1], s[n]) ELSE g[n - 1]
    BY Zenon DEF Is
  <2>2. g[0] = <<>>
    BY <2>1
  <2>3. \A n \in 1 .. Len(s) : /\ n # 0 /\ n \in 0 .. Len(s) /\ s[n] \in S
    OBVIOUS
  <2>4. \A n \in 1 .. Len(s) : g[n] = IF n \in W THEN Append(g[n - 1], s[n]) ELSE g[n - 1]
    BY <2>1, <2>3, Zenon
  <2> DEFINE Good == {n \in Nat : n <= Len(s) => g[n] \in Seq(S)}
  <2>5. 0 \in Good
    <3>1. <<>> \in Seq(S) /\ 0 \in Nat
      OBVIOUS
    <3>2. QED
      BY <2>2, <3>1
  <2>6. ASSUME NEW n \in Good PROVE n + 1 \in Good
    <3>1. CASE n + 1 <= Len(s)
      <4>1. n + 1 \in 1 .. Len(s) /\ (n + 1) - 1 = n /\ g[n] \in Seq(S)
        BY <3>1
      <4>2. g[n + 1] = IF n + 1 \in W THEN Append(g[n], s[n + 1]) ELSE g[n]
        BY <2>4, <4>1
      <4>3. g[n + 1] \in Seq(S)
        <5>1. s[n + 1] \in S
          BY <4>1
        <5>2. Append(g[n], s[n + 1]) \in Seq(S)
          BY <4>1, <5>1
        <5>3. QED
          BY <4>1, <4>2, <5>2
      <4>4. QED
        BY <4>3
    <3>2. QED
      BY <3>1
  <2> HIDE DEF Good
  <2>7. Nat \subseteq Good
    BY <2>5, <2>6, SetInduction
  <2>8. \A n \in 0 .. Len(s) : g[n] \in Seq(S)
    BY <2>7 DEF Good
  <2>9. g \in [0 .. Len(s) -> Seq(S)]
    BY ONLY <2>1, <2>8
  <2>10. QED
    BY <2>2, <2>4, <2>9 DEF Choosing
<1>7. Chosen(s, W) = (CHOOSE g : Picks(g))[Len(s)]
  BY Zenon DEF Chosen
<1>8. Picks(CHOOSE g : Picks(g))
  <2> HIDE DEF Is
  <2>1. QED
    BY <1>5
<1>9. QED
  BY <1>6, <1>7, <1>8

\* Induction over the prefixes of a sequence.
LEMMA PrefixInduction ==
    ASSUME NEW n \in Nat, NEW m \in Nat, NEW S, m \in S,
           \A i \in S : i \in m .. n /\ i < n => i + 1 \in S
    PROVE  m .. n \subseteq S
<1> DEFINE Good == {k \in Nat : m + k <= n => m + k \in S}
<1>1. 0 \in Good
  BY DEF Good
<1>2. ASSUME NEW k \in Good PROVE k + 1 \in Good
  <2>1. CASE m + (k + 1) <= n
    <3>1. m + k \in m .. n /\ m + k < n /\ m + k \in S /\ (m + k) + 1 = m + (k + 1)
      BY <2>1 DEF Good
    <3>2. QED
      BY <3>1 DEF Good
  <2>2. QED
    BY <2>1 DEF Good
<1> HIDE DEF Good
<1>3. Nat \subseteq Good
  BY <1>1, <1>2, SetInduction
<1>4. ASSUME NEW i \in m .. n PROVE i \in S
  <2>1. i - m \in Nat /\ m + (i - m) = i
    OBVIOUS
  <2>2. i - m \in Good
    BY <1>3, <2>1
  <2>3. QED
    BY <2>1, <2>2 DEF Good
<1>5. QED
  BY <1>4

\* What is chosen: its type, its elements, its length; and it repeats nothing.
LEMMA ChosenHas ==
    ASSUME NEW S, NEW s \in Seq(S), NEW W \in SUBSET DOMAIN s
    PROVE  /\ Chosen(s, W) \in Seq(S) /\ Len(Chosen(s, W)) = Cardinality(W) /\ IsFiniteSet(W)
           /\ \A i \in W : \E k \in 1 .. Len(Chosen(s, W)) : Chosen(s, W)[k] = s[i]
           /\ \A k \in 1 .. Len(Chosen(s, W)) : \E i \in W : Chosen(s, W)[k] = s[i]
           /\ (\A i, j \in DOMAIN s : s[i] = s[j] => i = j) =>
                  \A k, l \in 1 .. Len(Chosen(s, W)) : Chosen(s, W)[k] = Chosen(s, W)[l] => k = l
<1>1. PICK f : Choosing(f, s, W, S) /\ Chosen(s, W) = f[Len(s)]
  BY ChosenIs
<1> DEFINE Apart == \A i, j \in DOMAIN s : s[i] = s[j] => i = j
           Upto(n) == W \cap 1 .. n
           Has(n) ==
               /\ Len(f[n]) = Cardinality(Upto(n)) /\ IsFiniteSet(Upto(n))
               /\ \A i \in Upto(n) : \E k \in 1 .. Len(f[n]) : f[n][k] = s[i]
               /\ \A k \in 1 .. Len(f[n]) : \E i \in Upto(n) : f[n][k] = s[i]
               /\ Apart => \A k, l \in 1 .. Len(f[n]) : f[n][k] = f[n][l] => k = l
           Good == {n \in 0 .. Len(s) : Has(n)}
<1>2. 0 \in Good
  <2>1. f[0] = <<>> /\ Upto(0) = {} /\ Len(s) \in Nat
    BY <1>1 DEF Choosing
  <2>2. Has(0)
    BY <2>1, FS_EmptySet
  <2>3. QED
    BY <2>1, <2>2
<1>3. ASSUME NEW n \in Good, n < Len(s) PROVE n + 1 \in Good
  <2>1. /\ n \in Nat /\ n + 1 \in 1 .. Len(s) /\ n + 1 \in 0 .. Len(s) /\ (n + 1) - 1 = n
        /\ n \in 0 .. Len(s) /\ n + 1 \in DOMAIN s /\ Has(n)
    BY <1>3
  <2>2. /\ f[n] \in Seq(S) /\ s[n + 1] \in S
        /\ f[n + 1] = IF n + 1 \in W THEN Append(f[n], s[n + 1]) ELSE f[n]
    <3>1. f[n + 1] = IF n + 1 \in W THEN Append(f[(n + 1) - 1], s[n + 1]) ELSE f[(n + 1) - 1]
      BY <1>1, <2>1 DEF Choosing
    <3>2. f[n] \in Seq(S)
      BY <1>1, <2>1 DEF Choosing
    <3>3. s[n + 1] \in S
      BY <2>1
    <3>4. QED
      BY <2>1, <3>1, <3>2, <3>3
  <2>3. CASE n + 1 \notin W
    <3>1. Upto(n + 1) = Upto(n) /\ f[n + 1] = f[n]
      BY <2>1, <2>2, <2>3
    <3> HIDE DEF Upto
    <3>2. Has(n + 1)
      BY <2>1, <3>1
    <3>3. QED
      BY <2>1, <3>2
  <2>4. CASE n + 1 \in W
    <3>1. Upto(n + 1) = Upto(n) \cup {n + 1} /\ n + 1 \notin Upto(n)
      BY <2>1, <2>4
    <3>2. /\ IsFiniteSet(Upto(n + 1))
          /\ Cardinality(Upto(n + 1)) = Cardinality(Upto(n)) + 1
      <4> HIDE DEF Upto
      <4>1. IsFiniteSet(Upto(n))
        BY <2>1
      <4>2. QED
        BY ONLY <3>1, <4>1, FS_AddElement
    <3>3. /\ Len(f[n + 1]) = Len(f[n]) + 1 /\ f[n + 1][Len(f[n]) + 1] = s[n + 1]
          /\ \A k \in 1 .. Len(f[n]) : f[n + 1][k] = f[n][k]
          /\ Len(f[n]) \in Nat
      BY <2>2, <2>4
    <3>4. \A i \in Upto(n) : i \in DOMAIN s
      OBVIOUS
    <3> HIDE DEF Upto
    <3>5. ASSUME NEW i \in Upto(n + 1) PROVE \E k \in 1 .. Len(f[n + 1]) : f[n + 1][k] = s[i]
      <4>1. CASE i = n + 1
        <5>1. Len(f[n]) + 1 \in 1 .. Len(f[n + 1])
          BY <3>3
        <5>2. QED
          BY <3>3, <4>1, <5>1
      <4>2. CASE i \in Upto(n)
        <5>1. PICK k \in 1 .. Len(f[n]) : f[n][k] = s[i]
          BY <2>1, <4>2
        <5>2. QED
          BY <3>3, <5>1
      <4>3. QED
        BY <3>1, <3>5, <4>1, <4>2
    <3>6. ASSUME NEW k \in 1 .. Len(f[n + 1]) PROVE \E i \in Upto(n + 1) : f[n + 1][k] = s[i]
      <4>1. CASE k = Len(f[n]) + 1
        BY <3>1, <3>3, <4>1
      <4>2. CASE k \in 1 .. Len(f[n])
        BY <2>1, <3>1, <3>3, <4>2
      <4>3. QED
        BY <3>3, <4>1, <4>2
    <3>7. ASSUME Apart, NEW k \in 1 .. Len(f[n + 1]), NEW l \in 1 .. Len(f[n + 1]),
                 f[n + 1][k] = f[n + 1][l]
          PROVE  k = l
      <4>1. ASSUME NEW m \in 1 .. Len(f[n]) PROVE f[n + 1][m] # f[n + 1][Len(f[n]) + 1]
        <5>1. PICK i \in Upto(n) : f[n][m] = s[i]
          BY <2>1
        <5>2. i # n + 1 /\ i \in DOMAIN s
          BY <3>1, <3>4
        <5>3. QED
          <6>1. s[i] # s[n + 1]
            <7>1. n + 1 \in DOMAIN s
              BY <2>1
            <7>2. QED
              BY ONLY Apart, <5>2, <7>1
          <6>2. f[n + 1][m] = s[i] /\ f[n + 1][Len(f[n]) + 1] = s[n + 1]
            BY <3>3, <5>1
          <6>3. QED
            BY ONLY <6>1, <6>2
      <4>2. CASE k \in 1 .. Len(f[n]) /\ l \in 1 .. Len(f[n])
        BY <2>1, <3>3, <3>7, <4>2
      <4>3. QED
        BY <3>3, <3>7, <4>1, <4>2
    <3>8. Has(n + 1)
      <4> HIDE DEF Apart
      <4>1. QED
        BY <2>1, <3>2, <3>3, <3>5, <3>6, <3>7
    <3>9. QED
      BY <2>1, <3>8
  <2>5. QED
    BY <2>3, <2>4
<1>4. Len(s) \in 0 .. Len(s) /\ Len(s) \in Nat /\ Upto(Len(s)) = W
  OBVIOUS
<1> HIDE DEF Good
<1>5. 0 .. Len(s) \subseteq Good
  <2>1. \A n \in Good : n \in 0 .. Len(s) /\ n < Len(s) => n + 1 \in Good
    BY <1>3
  <2>2. QED
    BY ONLY <1>2, <1>4, <2>1, PrefixInduction
<1>6. Has(Len(s))
  BY <1>4, <1>5 DEF Good
<1>7. f[Len(s)] \in Seq(S)
  BY <1>1, <1>4 DEF Choosing
<1> HIDE DEF Upto
<1>8. QED
  BY <1>1, <1>4, <1>6, <1>7

\* t is s with e inserted at k.
Grown(t, s, k, e) ==
    /\ Len(t) = Len(s) + 1
    /\ \A j \in 1 .. Len(s) + 1 : t[j] = IF j < k THEN s[j] ELSE IF j = k THEN e ELSE s[j - 1]

\* An element at the end was inserted behind the last.
LEMMA AppendGrows ==
    ASSUME NEW S, NEW s \in Seq(S), NEW e \in S
    PROVE  Grown(Append(s, e), s, Len(s) + 1, e)
BY DEF Grown

\* Two sequences that gain the same last element differ where they did.
LEMMA BothAppend ==
    ASSUME NEW S, NEW s \in Seq(S), NEW t \in Seq(S), NEW e \in S, NEW x \in S,
           NEW k \in 1 .. Len(s) + 1, Grown(t, s, k, e)
    PROVE  Grown(Append(t, x), Append(s, x), k, e)
<1>1. /\ Len(Append(t, x)) = Len(s) + 2 /\ Len(Append(s, x)) = Len(s) + 1
      /\ Len(s) \in Nat /\ Len(t) = Len(s) + 1
  BY DEF Grown
<1>2. ASSUME NEW j \in 1 .. Len(s) + 2
      PROVE  Append(t, x)[j] = IF j < k THEN Append(s, x)[j] ELSE IF j = k THEN e
                               ELSE Append(s, x)[j - 1]
  <2>1. CASE j = Len(s) + 2
    <3>1. Append(t, x)[j] = x /\ Append(s, x)[j - 1] = x /\ j > k
      BY <1>1, <2>1
    <3>2. QED
      BY <3>1
  <2>2. CASE j \in 1 .. Len(s) + 1
    <3>1. Append(t, x)[j] = t[j]
      BY <1>1, <2>2
    <3>2. j < k => Append(s, x)[j] = s[j]
      BY <1>1, <2>2
    <3>3. j > k => Append(s, x)[j - 1] = s[j - 1]
      BY <1>1, <2>2
    <3>4. QED
      BY <2>2, <3>1, <3>2, <3>3 DEF Grown
  <2>3. QED
    BY <1>1, <2>1, <2>2
<1>3. QED
  BY <1>1, <1>2 DEF Grown

\* What is chosen of more is what was chosen before, and what came if it is chosen.
LEMMA ChosenGrows ==
    ASSUME NEW S, NEW s \in Seq(S), NEW t \in Seq(S), NEW i \in 1 .. Len(s) + 1, NEW e \in S,
           Grown(t, s, i, e), NEW W, NEW V,
           \A j \in 1 .. Len(s) : j \in W <=> (IF j < i THEN j ELSE j + 1) \in V
    PROVE  IF i \in V
           THEN \E k \in 1 .. Len(Chosen(s, W)) + 1 : Grown(Chosen(t, V), Chosen(s, W), k, e)
           ELSE Chosen(t, V) = Chosen(s, W)
<1>1. PICK f : Choosing(f, s, W, S) /\ Chosen(s, W) = f[Len(s)]
  BY ChosenIs
<1>2. PICK g : Choosing(g, t, V, S) /\ Chosen(t, V) = g[Len(t)]
  BY ChosenIs
<1>3. /\ Len(s) \in Nat /\ Len(t) = Len(s) + 1 /\ i \in Nat /\ i - 1 \in Nat
      /\ i - 1 <= Len(s) /\ (i - 1) + 1 = i /\ i \in 1 .. Len(t)
  BY DEF Grown
<1>4. ASSUME NEW n \in Nat, n < Len(s)
      PROVE  /\ f[n] \in Seq(S) /\ f[n + 1] \in Seq(S) /\ s[n + 1] \in S
             /\ f[n + 1] = IF n + 1 \in W THEN Append(f[n], s[n + 1]) ELSE f[n]
  <2>1. n + 1 \in 1 .. Len(s) /\ n \in 0 .. Len(s) /\ n + 1 \in 0 .. Len(s) /\ (n + 1) - 1 = n
    BY <1>3, <1>4
  <2>2. f[n + 1] = IF n + 1 \in W THEN Append(f[(n + 1) - 1], s[n + 1]) ELSE f[(n + 1) - 1]
    BY <1>1, <2>1 DEF Choosing
  <2>3. f[n] \in Seq(S) /\ f[n + 1] \in Seq(S)
    BY <1>1, <2>1 DEF Choosing
  <2>4. s[n + 1] \in S
    BY <2>1
  <2>5. QED
    BY <2>1, <2>2, <2>3, <2>4
<1>5. ASSUME NEW n \in Nat, n <= Len(s)
      PROVE  /\ g[n] \in Seq(S) /\ g[n + 1] \in Seq(S) /\ t[n + 1] \in S
             /\ g[n + 1] = IF n + 1 \in V THEN Append(g[n], t[n + 1]) ELSE g[n]
  <2>1. n + 1 \in 1 .. Len(t) /\ n \in 0 .. Len(t) /\ n + 1 \in 0 .. Len(t) /\ (n + 1) - 1 = n
    BY <1>3, <1>5
  <2>2. g[n + 1] = IF n + 1 \in V THEN Append(g[(n + 1) - 1], t[n + 1]) ELSE g[(n + 1) - 1]
    BY <1>2, <2>1 DEF Choosing
  <2>3. g[n] \in Seq(S) /\ g[n + 1] \in Seq(S)
    BY <1>2, <2>1 DEF Choosing
  <2>4. t[n + 1] \in S
    BY <2>1
  <2>5. QED
    BY <2>1, <2>2, <2>3, <2>4
<1>6. g[i - 1] = f[i - 1]
  <2> DEFINE Same == {n \in 0 .. i - 1 : g[n] = f[n]}
  <2>1. 0 \in Same
    BY <1>1, <1>2, <1>3 DEF Choosing
  <2>2. ASSUME NEW n \in Same, n < i - 1 PROVE n + 1 \in Same
    <3>1. n \in Nat /\ n < Len(s) /\ n <= Len(s) /\ n + 1 < i /\ n + 1 \in 1 .. Len(s)
      BY <1>3, <2>2
    <3>2. t[n + 1] = s[n + 1] /\ (n + 1 \in W <=> n + 1 \in V)
      BY <1>3, <3>1 DEF Grown
    <3>3. g[n + 1] = f[n + 1]
      BY <1>4, <1>5, <2>2, <3>1, <3>2, SMTT(30)
    <3>4. QED
      BY <3>1, <3>3
  <2> HIDE DEF Same
  <2>3. 0 .. i - 1 \subseteq Same
    <3>1. \A n \in Same : n \in 0 .. i - 1 /\ n < i - 1 => n + 1 \in Same
      BY <2>2
    <3>2. 0 \in Nat
      OBVIOUS
    <3>3. QED
      BY ONLY <1>3, <2>1, <3>1, <3>2, PrefixInduction
  <2>4. QED
    BY <1>3, <2>3 DEF Same
<1>7. t[i] = e
  BY <1>3 DEF Grown
<1>8. g[i] = IF i \in V THEN Append(f[i - 1], e) ELSE f[i - 1]
  BY <1>3, <1>5, <1>6, <1>7
<1>9. f[i - 1] \in Seq(S)
  BY <1>3, <1>5, <1>6
<1>10. ASSUME NEW n \in Nat, i - 1 <= n, n < Len(s)
       PROVE  t[(n + 1) + 1] = s[n + 1] /\ (n + 1 \in W <=> (n + 1) + 1 \in V)
  <2>1. /\ n + 1 \in 1 .. Len(s) /\ ~(n + 1 < i) /\ (n + 1) + 1 \in 1 .. Len(s) + 1
        /\ ((n + 1) + 1) - 1 = n + 1 /\ (n + 1) + 1 > i
    BY <1>3, <1>10
  <2>2. QED
    BY <2>1 DEF Grown
<1>11. ASSUME NEW n \in Nat, n < Len(s) PROVE n + 1 \in Nat /\ n + 1 <= Len(s)
  BY <1>3, <1>11
<1>12. CASE i \notin V
  <2> DEFINE Same == {n \in i - 1 .. Len(s) : g[n + 1] = f[n]}
  <2>1. i - 1 \in Same
    BY <1>3, <1>8, <1>12
  <2>2. ASSUME NEW n \in Same, n < Len(s) PROVE n + 1 \in Same
    <3>1. n \in Nat /\ i - 1 <= n /\ n + 1 \in i - 1 .. Len(s)
      BY <1>3, <2>2
    <3>2. g[(n + 1) + 1] = f[n + 1]
      BY <1>4, <1>5, <1>10, <1>11, <2>2, <3>1
    <3>3. QED
      BY <3>1, <3>2
  <2> HIDE DEF Same
  <2>3. i - 1 .. Len(s) \subseteq Same
    <3>1. \A n \in Same : n \in i - 1 .. Len(s) /\ n < Len(s) => n + 1 \in Same
      BY <2>2
    <3>2. QED
      BY ONLY <1>3, <2>1, <3>1, PrefixInduction
  <2>4. QED
    BY <1>1, <1>2, <1>3, <1>12, <2>3 DEF Same
<1>13. CASE i \in V
  <2> DEFINE k == Len(f[i - 1]) + 1
             Good == {n \in i - 1 .. Len(s) : k \in 1 .. Len(f[n]) + 1 /\ Grown(g[n + 1], f[n], k, e)}
  <2>0. k \in Nat
    BY <1>9
  <2>1. i - 1 \in Good
    <3>1. Grown(g[(i - 1) + 1], f[i - 1], k, e)
      BY <1>3, <1>8, <1>9, <1>13, AppendGrows
    <3>2. k \in 1 .. Len(f[i - 1]) + 1
      BY <1>9
    <3>3. QED
      BY <1>3, <3>1, <3>2
  <2> HIDE DEF k
  <2>2. ASSUME NEW n \in Good, n < Len(s) PROVE n + 1 \in Good
    <3>1. n \in Nat /\ i - 1 <= n /\ n + 1 \in i - 1 .. Len(s) /\ n <= Len(s)
      BY <1>3, <2>2
    <3>2. /\ g[n + 1] \in Seq(S) /\ f[n] \in Seq(S) /\ s[n + 1] \in S /\ f[n + 1] \in Seq(S)
          /\ f[n + 1] = IF n + 1 \in W THEN Append(f[n], s[n + 1]) ELSE f[n]
          /\ g[(n + 1) + 1] = IF n + 1 \in W THEN Append(g[n + 1], s[n + 1]) ELSE g[n + 1]
      BY <1>4, <1>5, <1>10, <1>11, <2>2, <3>1
    <3>3. k \in 1 .. Len(f[n]) + 1 /\ Grown(g[n + 1], f[n], k, e)
      BY <2>2
    <3>4. Len(f[n]) \in Nat /\ Len(f[n + 1]) \in {Len(f[n]), Len(f[n]) + 1}
      BY <3>2
    <3>5. k \in 1 .. Len(f[n + 1]) + 1
      BY <2>0, <3>3, <3>4
    <3>6. Grown(g[(n + 1) + 1], f[n + 1], k, e)
      <4>1. CASE n + 1 \in W
        BY <3>2, <3>3, <4>1, BothAppend
      <4>2. CASE n + 1 \notin W
        BY <3>2, <3>3, <4>2
      <4>3. QED
        BY <4>1, <4>2
    <3>7. QED
      BY <3>1, <3>5, <3>6
  <2> HIDE DEF Good
  <2>3. i - 1 .. Len(s) \subseteq Good
    <3>1. \A n \in Good : n \in i - 1 .. Len(s) /\ n < Len(s) => n + 1 \in Good
      BY <2>2
    <3>2. QED
      BY ONLY <1>3, <2>1, <3>1, PrefixInduction
  <2>4. Len(s) \in Good
    BY <1>3, <2>3
  <2>5. k \in 1 .. Len(f[Len(s)]) + 1 /\ Grown(g[Len(s) + 1], f[Len(s)], k, e)
    BY <2>4 DEF Good
  <2>6. QED
    BY <1>1, <1>2, <1>3, <1>13, <2>5
<1>14. QED
  BY <1>12, <1>13

\* InsertAt inserts.
LEMMA InsertAtGrows ==
    ASSUME NEW S, NEW s \in Seq(S), NEW k \in 1 .. Len(s) + 1, NEW e \in S
    PROVE  InsertAt(s, k, e) \in Seq(S) /\ Grown(InsertAt(s, k, e), s, k, e)
BY InsertAtIs DEF Grown

\* RemoveAt undoes an insertion.
LEMMA RemoveAtShrinks ==
    ASSUME NEW S, NEW s \in Seq(S), NEW k \in 1 .. Len(s)
    PROVE  /\ RemoveAt(s, k) \in Seq(S) /\ k \in 1 .. Len(RemoveAt(s, k)) + 1
           /\ Grown(s, RemoveAt(s, k), k, s[k])
<1> DEFINE t == RemoveAt(s, k)
<1>1. /\ t \in Seq(S) /\ Len(t) = Len(s) - 1
      /\ \A i \in 1 .. Len(s) - 1 : t[i] = IF i < k THEN s[i] ELSE s[i + 1]
  BY RemoveAtIs
<1> HIDE DEF t
<1>2. Len(s) \in Nat
  OBVIOUS
<1>3. ASSUME NEW j \in 1 .. Len(s)
      PROVE  s[j] = IF j < k THEN t[j] ELSE IF j = k THEN s[k] ELSE t[j - 1]
  <2>1. CASE j < k
    BY <1>1, <1>2, <2>1
  <2>2. CASE j > k
    <3>1. j - 1 \in 1 .. Len(s) - 1 /\ ~(j - 1 < k) /\ (j - 1) + 1 = j
      BY <1>2, <2>2
    <3>2. t[j - 1] = s[(j - 1) + 1]
      BY <1>1, <3>1
    <3>3. QED
      BY <2>2, <3>1, <3>2
  <2>3. QED
    BY <2>1, <2>2
<1>4. Len(s) = Len(t) + 1 /\ k \in 1 .. Len(t) + 1
  BY <1>1, <1>2
<1>5. QED
  BY <1>1, <1>3, <1>4 DEF Grown, t

\* What a row that comes or goes does to the rows within and beyond a position.
LEMMA GrownIds ==
    ASSUME NEW S, NEW s \in Seq(S), NEW t \in Seq(S), NEW e \in S,
           NEW k \in 1 .. Len(s) + 1, Grown(t, s, k, e)
    PROVE  Ids(t) = Ids(s) \cup {e.id}
<1>1. Len(s) \in Nat /\ Len(t) = Len(s) + 1 /\ DOMAIN s = 1 .. Len(s) /\ DOMAIN t = 1 .. Len(t)
  BY DEF Grown
<1>2. ASSUME NEW j \in 1 .. Len(t) PROVE t[j].id \in Ids(s) \cup {e.id}
  <2>1. CASE j < k
    <3>1. j \in 1 .. Len(s)
      BY <1>1, <2>1
    <3>2. QED
      BY <1>1, <2>1, <3>1 DEF Grown, Ids
  <2>2. CASE j = k
    BY <1>1, <2>2 DEF Grown
  <2>3. CASE j > k
    <3>1. j - 1 \in 1 .. Len(s)
      BY <1>1, <2>3
    <3>2. t[j] = s[j - 1]
      BY <1>1, <2>3 DEF Grown
    <3>3. QED
      BY <1>1, <3>1, <3>2 DEF Ids
  <2>4. QED
    BY <1>1, <2>1, <2>2, <2>3
<1>3. ASSUME NEW j \in 1 .. Len(s) PROVE s[j].id \in Ids(t)
  <2>1. CASE j < k
    <3>1. j \in 1 .. Len(t) /\ t[j] = s[j]
      BY <1>1, <2>1 DEF Grown
    <3>2. QED
      BY <1>1, <3>1 DEF Ids
  <2>2. CASE j >= k
    <3>1. j + 1 \in 1 .. Len(t) /\ j + 1 > k /\ (j + 1) - 1 = j
      BY <1>1, <2>2
    <3>2. t[j + 1] = s[j]
      BY <1>1, <3>1 DEF Grown
    <3>3. QED
      BY <1>1, <3>1, <3>2 DEF Ids
  <2>3. QED
    BY <1>1, <2>1, <2>2
<1>4. e.id \in Ids(t)
  <2>1. k \in 1 .. Len(t) /\ t[k] = e
    BY <1>1 DEF Grown
  <2>2. QED
    BY <1>1, <2>1 DEF Ids
<1>5. QED
  BY <1>1, <1>2, <1>3, <1>4 DEF Ids

\* The positions of the elements before and after e was inserted.
LEMMA GrownAt ==
    ASSUME NEW S, NEW s \in Seq(S), NEW t \in Seq(S), NEW e \in S,
           NEW k \in 1 .. Len(s) + 1, Grown(t, s, k, e)
    PROVE  /\ \A j \in 1 .. Len(t) :
                  \/ j = k /\ t[j] = e
                  \/ j < k /\ j \in 1 .. Len(s) /\ t[j] = s[j]
                  \/ j > k /\ j - 1 \in 1 .. Len(s) /\ t[j] = s[j - 1]
           /\ \A j \in 1 .. Len(s) :
                  \/ j < k /\ j \in 1 .. Len(t) /\ s[j] = t[j]
                  \/ j >= k /\ j + 1 \in 1 .. Len(t) /\ s[j] = t[j + 1]
<1>1. Len(s) \in Nat /\ Len(t) = Len(s) + 1 /\ DOMAIN s = 1 .. Len(s) /\ DOMAIN t = 1 .. Len(t)
  BY DEF Grown
<1>2. ASSUME NEW j \in 1 .. Len(t)
      PROVE  \/ j = k /\ t[j] = e
             \/ j < k /\ j \in 1 .. Len(s) /\ t[j] = s[j]
             \/ j > k /\ j - 1 \in 1 .. Len(s) /\ t[j] = s[j - 1]
  BY <1>1 DEF Grown
<1>3. ASSUME NEW j \in 1 .. Len(s)
      PROVE  \/ j < k /\ j \in 1 .. Len(t) /\ s[j] = t[j]
             \/ j >= k /\ j + 1 \in 1 .. Len(t) /\ s[j] = t[j + 1]
  <2>1. CASE j < k
    BY <1>1, <2>1 DEF Grown
  <2>2. CASE j >= k
    <3>1. j + 1 \in 1 .. Len(t) /\ j + 1 > k /\ (j + 1) - 1 = j
      BY <1>1, <2>2
    <3>2. t[j + 1] = s[j]
      BY <1>1, <3>1 DEF Grown
    <3>3. QED
      BY <2>2, <3>1, <3>2
  <2>3. QED
    BY <2>1, <2>2
<1>4. QED
  BY <1>2, <1>3

\* All of B but one are of A.
GainsOne(B, A) == \E y : B \subseteq A \cup {y}

\* An id is within or beyond a position by where its row is.
LEMMA InWithin ==
    ASSUME NEW S, NEW s \in Seq(S), NEW n \in Nat
    PROVE  /\ \A j \in 1 .. Len(s) : IF j <= n THEN s[j].id \in Within(s, n)
                                     ELSE s[j].id \in Beyond(s, n)
           /\ \A x \in Within(s, n) : \E j \in 1 .. Len(s) : j <= n /\ x = s[j].id
           /\ \A x \in Beyond(s, n) : \E j \in 1 .. Len(s) : j > n /\ x = s[j].id
BY DEF Within, Beyond

\* A row that comes or goes moves at most one id over a position.
LEMMA GrownWithin ==
    ASSUME NEW S, NEW s \in Seq(S), NEW t \in Seq(S), NEW e \in S,
           NEW k \in 1 .. Len(s) + 1, Grown(t, s, k, e), NEW n \in Nat
    PROVE  /\ Within(t, n) \subseteq Within(s, n) \cup {e.id}
           /\ Within(s, n) \subseteq Within(t, n) \cup {s[n].id}
           /\ Beyond(s, n) \subseteq Beyond(t, n)
           /\ GainsOne(Beyond(t, n), Beyond(s, n))
<1>a. /\ \A j \in 1 .. Len(t) :
             \/ j = k /\ t[j] = e
             \/ j < k /\ j \in 1 .. Len(s) /\ t[j] = s[j]
             \/ j > k /\ j - 1 \in 1 .. Len(s) /\ t[j] = s[j - 1]
      /\ \A j \in 1 .. Len(s) :
             \/ j < k /\ j \in 1 .. Len(t) /\ s[j] = t[j]
             \/ j >= k /\ j + 1 \in 1 .. Len(t) /\ s[j] = t[j + 1]
  BY GrownAt, SMTT(30)
<1>b. /\ \A j \in 1 .. Len(s) : IF j <= n THEN s[j].id \in Within(s, n)
                                ELSE s[j].id \in Beyond(s, n)
      /\ \A x \in Within(s, n) : \E j \in 1 .. Len(s) : j <= n /\ x = s[j].id
      /\ \A x \in Beyond(s, n) : \E j \in 1 .. Len(s) : j > n /\ x = s[j].id
  BY InWithin
<1>c. /\ \A j \in 1 .. Len(t) : IF j <= n THEN t[j].id \in Within(t, n)
                                ELSE t[j].id \in Beyond(t, n)
      /\ \A x \in Within(t, n) : \E j \in 1 .. Len(t) : j <= n /\ x = t[j].id
      /\ \A x \in Beyond(t, n) : \E j \in 1 .. Len(t) : j > n /\ x = t[j].id
  BY InWithin
<1>d. k \in Nat /\ n \in Nat /\ Len(s) \in Nat /\ Len(t) \in Nat
  OBVIOUS
<1> USE ONLY <1>a, <1>b, <1>c, <1>d
<1>1. ASSUME NEW x \in Within(t, n) PROVE x \in Within(s, n) \cup {e.id}
  <2>1. PICK j \in 1 .. Len(t) : j <= n /\ x = t[j].id
    BY <1>1
  <2>2. CASE j > k
    <3>1. j - 1 \in 1 .. Len(s) /\ t[j] = s[j - 1] /\ j - 1 <= n
      BY <2>1, <2>2
    <3>2. s[j - 1].id \in Within(s, n)
      BY <3>1
    <3>3. QED
      BY <2>1, <3>1, <3>2
  <2>3. CASE j < k
    BY <2>1, <2>3
  <2>4. QED
    BY <2>1, <2>2, <2>3
<1>2. ASSUME NEW x \in Within(s, n) PROVE x \in Within(t, n) \cup {s[n].id}
  <2>1. PICK j \in 1 .. Len(s) : j <= n /\ x = s[j].id
    BY <1>2
  <2>2. CASE j < k
    BY <2>1, <2>2
  <2>3. CASE j >= k /\ j < n
    BY <2>1, <2>3
  <2>4. CASE j = n
    BY <2>1, <2>4
  <2>5. QED
    BY <2>1, <2>2, <2>3, <2>4
<1>3. ASSUME NEW x \in Beyond(s, n) PROVE x \in Beyond(t, n)
  <2>1. PICK j \in 1 .. Len(s) : j > n /\ x = s[j].id
    BY <1>3
  <2>2. CASE j >= k
    <3>1. j + 1 \in 1 .. Len(t) /\ s[j] = t[j + 1] /\ j + 1 > n
      BY <2>1, <2>2
    <3>2. t[j + 1].id \in Beyond(t, n)
      BY <3>1
    <3>3. QED
      BY <2>1, <3>1, <3>2
  <2>3. CASE j < k
    BY <2>1, <2>3
  <2>4. QED
    BY <2>2, <2>3
<1>4. \A x \in Beyond(t, n) : x \in Beyond(s, n) \cup {IF k > n THEN e.id ELSE s[n].id}
  <2> SUFFICES ASSUME NEW x \in Beyond(t, n)
               PROVE x \in Beyond(s, n) \cup {IF k > n THEN e.id ELSE s[n].id}
    OBVIOUS
  <2>1. PICK j \in 1 .. Len(t) : j > n /\ x = t[j].id
    OBVIOUS
  <2>2. CASE j <= k
    BY <2>1, <2>2
  <2>3. CASE j > k
    <3>1. j - 1 \in 1 .. Len(s) /\ t[j] = s[j - 1]
      BY <2>3
    <3>2. CASE j - 1 > n
      BY <2>1, <3>1, <3>2
    <3>3. CASE j - 1 = n
      BY <2>1, <2>3, <3>1, <3>3
    <3>4. QED
      BY <2>1, <3>2, <3>3
  <2>4. QED
    BY <2>2, <2>3
<1>5. QED
  BY <1>1, <1>2, <1>3, <1>4 DEF GainsOne

\* A row that moves brings one row within, and one beyond.
LEMMA MovedWithin ==
    ASSUME NEW S, NEW s \in Seq(S), NEW r \in Seq(S), NEW t \in Seq(S), NEW e \in S, NEW d \in S,
           NEW k \in 1 .. Len(r) + 1, Grown(s, r, k, e),
           NEW l \in 1 .. Len(r) + 1, Grown(t, r, l, d), NEW n \in Nat
    PROVE  /\ GainsOne(Within(t, n), Within(s, n))
           /\ GainsOne(Beyond(t, n), Beyond(s, n))
<1>1. \A j \in 1 .. Len(t) :
          \/ j = l /\ t[j] = d
          \/ j < l /\ j \in 1 .. Len(r) /\ t[j] = r[j]
          \/ j > l /\ j - 1 \in 1 .. Len(r) /\ t[j] = r[j - 1]
  BY GrownAt
<1>2. \A j \in 1 .. Len(r) :
          \/ j \in 1 .. Len(s) /\ r[j] = s[j]
          \/ j + 1 \in 1 .. Len(s) /\ r[j] = s[j + 1]
  BY GrownAt
<1>b. /\ \A j \in 1 .. Len(s) : IF j <= n THEN s[j].id \in Within(s, n)
                                ELSE s[j].id \in Beyond(s, n)
      /\ \A x \in Within(s, n) : \E j \in 1 .. Len(s) : j <= n /\ x = s[j].id
      /\ \A x \in Beyond(s, n) : \E j \in 1 .. Len(s) : j > n /\ x = s[j].id
  BY InWithin
<1>d. k \in Nat /\ l \in Nat /\ n \in Nat /\ Len(r) \in Nat /\ Len(s) \in Nat /\ Len(t) \in Nat
  OBVIOUS
<1> DEFINE y == IF l <= n THEN d.id ELSE r[n].id
           z == IF l <= n THEN r[n].id ELSE d.id
<1>e. \A j \in 1 .. Len(r) : \E i \in 1 .. Len(s) : r[j] = s[i] /\ (i = j \/ i = j + 1)
  BY <1>2
<1>3. ASSUME NEW x \in Within(t, n) PROVE x \in Within(s, n) \cup {y}
  <2>1. PICK j \in 1 .. Len(t) : j <= n /\ x = t[j].id
    BY <1>3, InWithin
  <2>2. CASE j = l
    BY <1>1, <2>1, <2>2
  <2>3. CASE j < l
    <3>1. j \in 1 .. Len(r) /\ t[j] = r[j]
      BY <1>1, <2>3
    <3>2. CASE j < n
      <4>1. PICK i \in 1 .. Len(s) : r[j] = s[i] /\ (i = j \/ i = j + 1)
        BY <1>e, <3>1
      <4>2. s[i].id \in Within(s, n)
        BY <1>b, <1>d, <3>2, <4>1
      <4>3. QED
        BY <2>1, <3>1, <4>1, <4>2
    <3>3. CASE j = n
      BY <2>1, <2>3, <3>1, <3>3
    <3>4. QED
      BY <2>1, <3>2, <3>3
  <2>4. CASE j > l
    <3>1. j - 1 \in 1 .. Len(r) /\ t[j] = r[j - 1] /\ (j - 1) + 1 = j
      BY <1>1, <2>4
    <3>2. PICK i \in 1 .. Len(s) : r[j - 1] = s[i] /\ (i = j - 1 \/ i = j)
      BY <1>e, <3>1
    <3>3. s[i].id \in Within(s, n)
      BY <1>b, <1>d, <2>1, <3>2
    <3>4. QED
      BY <2>1, <3>1, <3>2, <3>3
  <2>5. QED
    BY <2>2, <2>3, <2>4
<1>4. ASSUME NEW x \in Beyond(t, n) PROVE x \in Beyond(s, n) \cup {z}
  <2>1. PICK j \in 1 .. Len(t) : j > n /\ x = t[j].id
    BY <1>4, InWithin
  <2>2. CASE j = l
    BY <1>1, <2>1, <2>2
  <2>3. CASE j < l
    <3>1. j \in 1 .. Len(r) /\ t[j] = r[j]
      BY <1>1, <2>3
    <3>2. PICK i \in 1 .. Len(s) : r[j] = s[i] /\ (i = j \/ i = j + 1)
      BY <1>e, <3>1
    <3>3. s[i].id \in Beyond(s, n)
      BY <1>b, <1>d, <2>1, <3>2
    <3>4. QED
      BY <2>1, <3>1, <3>2, <3>3
  <2>4. CASE j > l
    <3>1. j - 1 \in 1 .. Len(r) /\ t[j] = r[j - 1] /\ (j - 1) + 1 = j
      BY <1>1, <2>4
    <3>2. CASE j - 1 > n
      <4>1. PICK i \in 1 .. Len(s) : r[j - 1] = s[i] /\ (i = j - 1 \/ i = j)
        BY <1>e, <3>1
      <4>2. s[i].id \in Beyond(s, n)
        BY <1>b, <1>d, <3>2, <4>1
      <4>3. QED
        BY <2>1, <3>1, <4>1, <4>2
    <3>3. CASE j - 1 = n
      BY <2>1, <2>4, <3>1, <3>3
    <3>4. QED
      BY <2>1, <3>2, <3>3
  <2>5. QED
    BY <2>2, <2>3, <2>4
<1>5. QED
  BY <1>3, <1>4 DEF GainsOne

----------------------------------------------------------------------------
(* Listings: types, and what is listed opens.                              *)
(***************************************************************************)
\* The types of what a walk has read.
LEMMA FitTypes ==
    ASSUME PagesFit
    PROVE  /\ query.endpoint \in Endpoints /\ PageScope \subseteq Owners
           /\ limit \in Nat \ {0} /\ walk.page \in Nat \ {0} /\ walk.total \in Nat
           /\ walk.step \in {"request", "reading", "refused", "done"}
           /\ walk.read \in SUBSET {"find", "count"} /\ walk.scope \subseteq Owners
           /\ walk.data \in Seq(Row(query.endpoint)) /\ walk.shown \in Seq(Nat)
           /\ history.ids \in Nat /\ history.inserted \in Nat /\ history.removed \in Nat
           /\ history.moved \in Nat /\ history.split \in Nat /\ history.others \in Nat
           /\ history.touched \in {"yes", "no"} /\ history.stayed \subseteq Nat
<1>1. query.endpoint \in Endpoints
  BY DEF PagesFit, Query
<1>2. PageScope \subseteq Owners
  BY ListingsAssumption DEF PageScope, FeedScope, Followed
<1>3. limit \in Nat \ {0}
  BY ListingsAssumption DEF PagesFit
<1>4. QED
  BY <1>1, <1>2, <1>3 DEF PagesFit, Walk, History

\* What a find finds.
LEMMA MatchingIs ==
    ASSUME PagesFit, NEW scope
    PROVE  /\ Matching(query, scope) \in Seq(Row(query.endpoint))
           /\ Len(Matching(query, scope)) = Cardinality(Positions(query, scope))
           /\ IsFiniteSet(Positions(query, scope))
           /\ \A i \in Positions(query, scope) :
                  \E k \in DOMAIN Matching(query, scope) : Matching(query, scope)[k] = table[i]
           /\ \A k \in DOMAIN Matching(query, scope) :
                  \E i \in Positions(query, scope) : Matching(query, scope)[k] = table[i]
           /\ \A k, l \in DOMAIN Matching(query, scope) :
                  Matching(query, scope)[k].id = Matching(query, scope)[l].id => k = l
<1> DEFINE M == Matching(query, scope)
           W == Positions(query, scope)
<1>1. table \in Seq(Row(query.endpoint)) /\ \A i, j \in DOMAIN table : table[i].id = table[j].id => i = j
  BY DEF PagesFit
<1>2. W \in SUBSET DOMAIN table /\ M = Chosen(table, W)
  BY DEF Positions, Matching
<1> HIDE DEF M, W
<1>3. \A i, j \in DOMAIN table : table[i] = table[j] => i = j
  BY <1>1
<1>4. /\ M \in Seq(Row(query.endpoint)) /\ Len(M) = Cardinality(W) /\ IsFiniteSet(W)
      /\ \A i \in W : \E k \in 1 .. Len(M) : M[k] = table[i]
      /\ \A k \in 1 .. Len(M) : \E i \in W : M[k] = table[i]
      /\ \A k, l \in 1 .. Len(M) : M[k] = M[l] => k = l
  BY <1>1, <1>2, <1>3, ChosenHas, SMTT(30)
<1>5. DOMAIN M = 1 .. Len(M)
  BY <1>4
<1>6. ASSUME NEW k \in 1 .. Len(M), NEW l \in 1 .. Len(M), M[k].id = M[l].id PROVE k = l
  <2>1. PICK i \in W, j \in W : M[k] = table[i] /\ M[l] = table[j]
    BY <1>4, SMTT(30)
  <2>2. i = j
    BY <1>1, <1>2, <1>6, <2>1
  <2>3. QED
    BY <1>4, <2>1, <2>2
<1>7. QED
  BY <1>4, <1>5, <1>6 DEF M, W

\* The rows of a page are those between two multiples of the limit.
LEMMA PageIs ==
    ASSUME limit \in Nat \ {0}, NEW page \in Nat \ {0}, NEW S, NEW s \in Seq(S)
    PROVE  /\ PageOf(s, page) \in Seq(S) /\ Len(PageOf(s, page)) <= limit
           /\ page * limit = (page - 1) * limit + limit /\ (page - 1) * limit \in Nat
           /\ Len(PageOf(s, page)) = IF Len(s) <= (page - 1) * limit THEN 0
                                     ELSE IF Len(s) <= page * limit THEN Len(s) - (page - 1) * limit
                                     ELSE limit
           /\ \A i \in 1 .. Len(PageOf(s, page)) :
                  /\ PageOf(s, page)[i] = s[(page - 1) * limit + i]
                  /\ (page - 1) * limit + i \in 1 .. Len(s)
<1> DEFINE n == (page - 1) * limit
           m == page * limit
           last == IF m < Len(s) THEN m ELSE Len(s)
<1>1. m = n + limit /\ n \in Nat /\ m \in Nat
  OBVIOUS
<1>2. n + 1 \in Nat \ {0} /\ last \in 0 .. Len(s)
  BY <1>1
<1>3. PageOf(s, page) = SubSeq(s, n + 1, last)
  BY DEF PageOf, Slice
<1> HIDE DEF n, m
<1>4. /\ SubSeq(s, n + 1, last) \in Seq(S)
      /\ Len(SubSeq(s, n + 1, last)) = IF n + 1 <= last THEN last - (n + 1) + 1 ELSE 0
      /\ \A i \in 1 .. Len(SubSeq(s, n + 1, last)) : SubSeq(s, n + 1, last)[i] = s[(n + 1) + i - 1]
  BY <1>2, SliceIs
<1> DEFINE p == SubSeq(s, n + 1, last)
<1> HIDE DEF p
<1>5. /\ p \in Seq(S) /\ Len(p) <= limit
      /\ Len(p) = IF Len(s) <= n THEN 0 ELSE IF Len(s) <= m THEN Len(s) - n ELSE limit
  BY <1>1, <1>4 DEF p
<1>6. ASSUME NEW i \in 1 .. Len(p) PROVE p[i] = s[n + i] /\ n + i \in 1 .. Len(s)
  <2>1. p[i] = s[(n + 1) + i - 1] /\ (n + 1) + i - 1 = n + i
    BY <1>1, <1>4 DEF p
  <2>2. n + i \in 1 .. Len(s)
    BY <1>1, <1>5
  <2>3. QED
    BY <2>1, <2>2
<1>7. PageOf(s, page) = p
  BY <1>3 DEF p
<1>8. QED
  BY <1>1, <1>5, <1>6, <1>7 DEF n, m

\* The ids up to the end of a page are those up to its beginning and its own.
LEMMA PageIds ==
    ASSUME limit \in Nat \ {0}, NEW page \in Nat \ {0}, NEW S, NEW s \in Seq(S)
    PROVE  /\ Within(s, page * limit) = Within(s, (page - 1) * limit) \cup Ids(PageOf(s, page))
           /\ Beyond(s, (page - 1) * limit) = Beyond(s, page * limit) \cup Ids(PageOf(s, page))
<1> DEFINE n == (page - 1) * limit
           m == page * limit
           p == PageOf(s, page)
<1>1. /\ p \in Seq(S) /\ m = n + limit /\ n \in Nat
      /\ Len(p) = IF Len(s) <= n THEN 0 ELSE IF Len(s) <= m THEN Len(s) - n ELSE limit
      /\ \A i \in 1 .. Len(p) : p[i] = s[n + i] /\ n + i \in 1 .. Len(s)
  BY PageIs
<1> HIDE DEF n, m, p
<1>2. DOMAIN p = 1 .. Len(p) /\ DOMAIN s = 1 .. Len(s) /\ Len(s) \in Nat /\ m \in Nat /\ Len(p) \in Nat
  BY <1>1
<1> DEFINE a == Len(s)
           b == Len(p)
<1>a. /\ limit \in Int /\ n \in Int /\ m \in Int /\ a \in Int /\ b \in Int /\ 0 <= n
      /\ 1 <= limit /\ m = n + limit
      /\ b = IF a <= n THEN 0 ELSE IF a <= m THEN a - n ELSE limit
      /\ Len(s) = a /\ Len(p) = b
  <2>1. Len(s) = a /\ Len(p) = b
    OBVIOUS
  <2>2. b = IF a <= n THEN 0 ELSE IF a <= m THEN a - n ELSE limit
    BY ONLY <1>1 DEF a, b
  <2>3. a \in Int /\ b \in Int
    BY <1>2
  <2> HIDE DEF a, b
  <2>4. limit \in Int /\ 1 <= limit
    OBVIOUS
  <2>5. n \in Int /\ m \in Int /\ 0 <= n /\ m = n + limit
    BY <1>1, <1>2
  <2>6. QED
    BY <2>1, <2>2, <2>3, <2>4, <2>5
<1> HIDE DEF a, b
<1>3. ASSUME NEW k \in 1 .. Len(s), n < k, k <= m PROVE s[k].id \in Ids(p)
  <2>1. k - n \in 1 .. Len(p) /\ n + (k - n) = k
    <3>1. k \in Int /\ k <= a /\ a > n
      BY ONLY <1>3, <1>a, k \in 1 .. Len(s)
    <3>2. k - n \in 1 .. b /\ n + (k - n) = k
      BY ONLY <1>3, <1>a, <3>1
    <3>3. QED
      BY <1>a, <3>2
  <2>2. p[k - n] = s[k]
    BY <1>1, <2>1
  <2>3. QED
    BY <1>2, <2>1, <2>2 DEF Ids
<1>4. ASSUME NEW x \in Ids(p) PROVE \E k \in 1 .. Len(s) : n < k /\ k <= m /\ x = s[k].id
  <2>1. PICK i \in 1 .. Len(p) : x = p[i].id
    BY <1>2 DEF Ids
  <2>2. n < n + i /\ n + i <= m /\ n + i \in 1 .. Len(s) /\ p[i] = s[n + i]
    <3>1. i \in Int /\ i >= 1 /\ i <= b
      BY ONLY <1>a, i \in 1 .. Len(p)
    <3>2. n < n + i /\ n + i <= m
      BY ONLY <1>a, <3>1
    <3>3. QED
      BY <1>1, <3>2
  <2>3. QED
    BY <2>1, <2>2
<1>5. \A x : x \in Within(s, m) <=> \E k \in 1 .. Len(s) : k <= m /\ x = s[k].id
  BY <1>2 DEF Within
<1>6. \A x : x \in Within(s, n) <=> \E k \in 1 .. Len(s) : k <= n /\ x = s[k].id
  BY <1>2 DEF Within
<1>7. \A x : x \in Beyond(s, m) <=> \E k \in 1 .. Len(s) : k > m /\ x = s[k].id
  BY <1>2 DEF Beyond
<1>8. \A x : x \in Beyond(s, n) <=> \E k \in 1 .. Len(s) : k > n /\ x = s[k].id
  BY <1>2 DEF Beyond
<1>9. Within(s, m) = Within(s, n) \cup Ids(p)
  <2>1. ASSUME NEW x PROVE x \in Within(s, m) <=> x \in Within(s, n) \cup Ids(p)
    <3>1. CASE x \in Ids(p)
      BY <1>4, <1>5, <3>1
    <3>2. CASE x \notin Ids(p)
      <4>1. \A k \in 1 .. Len(s) : k <= n => k <= m
        BY ONLY <1>a
      <4>2. \A k \in 1 .. Len(s) : k <= m /\ x = s[k].id => k <= n
        BY ONLY <1>a, <1>3, <3>2
      <4>3. QED
        BY <1>5, <1>6, <3>2, <4>1, <4>2
    <3>3. QED
      BY <3>1, <3>2
  <2>2. QED
    BY <2>1
<1>10. Beyond(s, n) = Beyond(s, m) \cup Ids(p)
  <2>1. ASSUME NEW x PROVE x \in Beyond(s, n) <=> x \in Beyond(s, m) \cup Ids(p)
    <3>1. CASE x \in Ids(p)
      BY <1>4, <1>8, <3>1
    <3>2. CASE x \notin Ids(p)
      <4>1. \A k \in 1 .. Len(s) : k > m => k > n
        BY ONLY <1>a
      <4>2. \A k \in 1 .. Len(s) : k > n /\ x = s[k].id => k > m
        BY ONLY <1>a, <1>3, <3>2
      <4>3. QED
        BY <1>7, <1>8, <3>2, <4>1, <4>2
    <3>3. QED
      BY <3>1, <3>2
  <2>2. QED
    BY <2>1
<1>11. QED
  BY <1>9, <1>10 DEF n, m, p

\* A walk begins with what was drawn, and nothing read.
LEMMA PagesFitAtFirst == ListingsInit => PagesFit
<1> SUFFICES ASSUME ListingsInit PROVE PagesFit
  OBVIOUS
<1>1. PICK n \in 0 .. MaxRows : table \in [1 .. n -> Row(query.endpoint)]
                                /\ \A i \in 1 .. n : table[i].id = i
  BY DEF ListingsInit
<1>2. n \in Nat /\ table \in Seq(Row(query.endpoint)) /\ Len(table) = n /\ DOMAIN table = 1 .. n
  BY <1>1, ListingsAssumption
<1>3. walk = [step |-> "request", page |-> 1, read |-> {}, scope |-> {}, data |-> <<>>,
              total |-> 0, shown |-> <<>>]
  BY DEF ListingsInit
<1>4. walk \in Walk /\ Ids(walk.data) = {} /\ ToSet(walk.shown) = {} /\ walk.step # "reading"
      /\ Len(walk.data) = 0
  BY <1>3 DEF Walk, Ids, ToSet
<1>5. Ids(table) \subseteq 1 .. n
  BY <1>1, <1>2 DEF Ids
<1>6. {table[i].id : i \in Positions(query, PageScope)} \subseteq 1 .. n
  BY <1>1, <1>2 DEF Positions
<1>7. history \in History /\ history.ids = n /\ history.stayed \subseteq 1 .. n
  BY <1>2, <1>6 DEF ListingsInit, History
<1>8. limit \in Limits /\ limit \in Nat
  BY ListingsAssumption DEF ListingsInit
<1>9. \A i, j \in DOMAIN table : table[i].id = table[j].id => i = j
  BY <1>1, <1>2
<1>10. query \in Query /\ private \subseteq Owners
       /\ following \in [Owners -> {"none", "PENDING", "ACCEPTED"}]
  BY DEF ListingsInit
<1>11. QED
  BY <1>2, <1>4, <1>5, <1>7, <1>8, <1>9, <1>10 DEF PagesFit

\* What the walk reads leaves the table alone.
LEMMA WalkKeepsFit ==
    ASSUME PagesFit, UNCHANGED <<table, private, following, query, limit>>,
           walk' \in Walk, history' \in History, history'.ids = history.ids,
           history'.stayed = history.stayed,
           Ids(walk'.data) \subseteq Ids(walk.data) \cup Ids(table),
           ToSet(walk'.shown) \subseteq ToSet(walk.shown) \cup Ids(walk.data),
           Len(walk'.data) <= limit,
           IF walk'.step = "reading" THEN "find" \notin walk'.read => walk'.data = <<>>
           ELSE Ids(walk'.data) \subseteq ToSet(walk'.shown)
    PROVE  PagesFit'
<1>1. Row(query.endpoint)' = Row(query.endpoint) /\ Walk' = Walk /\ History' = History
  BY DEF Row, Walk, History
<1>2. Ids(table)' = Ids(table) /\ Ids(walk.data)' = Ids(walk'.data)
      /\ ToSet(walk.shown)' = ToSet(walk'.shown)
  BY DEF Ids, ToSet
<1>3. Ids(walk'.data) \cup ToSet(walk'.shown) \subseteq 1 .. history.ids
  BY DEF PagesFit
<1>4. table' \in Seq(Row(query.endpoint)') /\ query' \in Query /\ limit' \in Limits
      /\ private' \subseteq Owners /\ following' \in [Owners -> {"none", "PENDING", "ACCEPTED"}]
      /\ (\A i, j \in DOMAIN table : table[i].id = table[j].id => i = j)'
  BY <1>1 DEF PagesFit
<1>5. (Ids(table) \cup Ids(walk.data) \cup ToSet(walk.shown) \cup history.stayed
           \subseteq 1 .. history.ids)'
  BY <1>2, <1>3 DEF PagesFit
<1>6. QED
  BY <1>1, <1>2, <1>4, <1>5 DEF PagesFit

\* A request reads who is followed, and no rows.
LEMMA PageRequestKeepsFit ==
    ASSUME PagesFit, PageRequest
    PROVE  PagesFit'
<1>1. /\ walk' = [walk EXCEPT !.step = IF Admitted(query) THEN "reading" ELSE "refused",
                             !.scope = PageScope, !.read = {}, !.data = <<>>]
      /\ history' = [history EXCEPT !.touched = "no"]
      /\ UNCHANGED <<table, private, following, query, limit>>
  BY DEF PageRequest
<1>2. walk \in Walk /\ history \in History
  BY DEF PagesFit
<1>3. PageScope \subseteq Owners /\ limit \in Nat
  BY FitTypes
<1> DEFINE step == IF Admitted(query) THEN "reading" ELSE "refused"
<1>a. step \in {"reading", "refused"} /\ <<>> \in Seq(Row(query.endpoint))
  OBVIOUS
<1>b. walk' = [walk EXCEPT !.step = step, !.scope = PageScope, !.read = {}, !.data = <<>>]
  BY <1>1
<1> HIDE DEF step
<1>4. walk' \in Walk /\ walk'.data = <<>> /\ walk'.shown = walk.shown /\ walk'.read = {}
  BY <1>2, <1>3, <1>a, <1>b DEF Walk
<1>5. history' \in History /\ history'.ids = history.ids /\ history'.stayed = history.stayed
  BY <1>1, <1>2 DEF History
<1>6. Ids(walk'.data) = {} /\ Len(walk'.data) = 0
  BY <1>4 DEF Ids
<1>7. QED
  BY <1>1, <1>3, <1>4, <1>5, <1>6, WalkKeepsFit

\* A find reads rows of the table.
LEMMA FindPageKeepsFit ==
    ASSUME PagesFit, FindPage
    PROVE  PagesFit'
<1> DEFINE M == Matching(query, walk.scope)
           data == PageOf(M, walk.page)
<1>1. /\ walk' = [walk EXCEPT !.read = walk.read \cup {"find"}, !.data = data]
      /\ UNCHANGED <<table, private, following, query, limit, history>>
      /\ walk.step = "reading"
  BY DEF FindPage
<1>2. walk \in Walk /\ history \in History
  BY DEF PagesFit
<1>3. M \in Seq(Row(query.endpoint)) /\ \A k \in DOMAIN M : M[k].id \in Ids(table)
  <2>1. Positions(query, walk.scope) \subseteq DOMAIN table
    BY DEF Positions
  <2>2. QED
    BY <2>1, MatchingIs DEF Ids
<1>4. limit \in Nat \ {0} /\ walk.page \in Nat \ {0}
  BY FitTypes
<1> HIDE DEF M
<1>5. /\ data \in Seq(Row(query.endpoint)) /\ Len(data) <= limit
      /\ \A i \in 1 .. Len(data) : data[i].id \in Ids(table)
  <2>1. /\ data \in Seq(Row(query.endpoint)) /\ Len(data) <= limit
        /\ \A i \in 1 .. Len(data) : /\ data[i] = M[(walk.page - 1) * limit + i]
                                     /\ (walk.page - 1) * limit + i \in 1 .. Len(M)
    BY ONLY <1>3, <1>4, PageIs
  <2>2. DOMAIN M = 1 .. Len(M)
    BY <1>3
  <2>3. QED
    BY <1>3, <2>1, <2>2
<1> HIDE DEF data
<1>6. walk' \in Walk /\ walk'.data = data /\ walk'.shown = walk.shown /\ "find" \in walk'.read
      /\ walk'.step = "reading"
  BY <1>1, <1>2, <1>5 DEF Walk
<1>7. Ids(data) \subseteq Ids(table)
  BY <1>5 DEF Ids
<1>8. QED
  BY <1>1, <1>2, <1>5, <1>6, <1>7, WalkKeepsFit

\* A count reads a number.
LEMMA CountRowsKeepsFit ==
    ASSUME PagesFit, CountRows
    PROVE  PagesFit'
<1> DEFINE W == {i \in DOMAIN table : Counted(query, walk.scope, table[i])}
<1>1. /\ walk' = [walk EXCEPT !.read = walk.read \cup {"count"}, !.total = Cardinality(W)]
      /\ UNCHANGED <<table, private, following, query, limit, history>>
      /\ walk.step = "reading"
  BY DEF CountRows
<1>2. walk \in Walk /\ history \in History /\ table \in Seq(Row(query.endpoint))
      /\ Len(walk.data) <= limit
      /\ ("find" \notin walk.read => walk.data = <<>>)
  BY <1>1 DEF PagesFit
<1>3. Cardinality(W) \in Nat
  <2>1. DOMAIN table = 1 .. Len(table) /\ Len(table) \in Nat
    BY <1>2
  <2>2. IsFiniteSet(DOMAIN table)
    BY <2>1, FS_Interval
  <2>3. IsFiniteSet(W)
    BY <2>2, FS_Subset
  <2>4. QED
    BY <2>3, FS_CardinalityType
<1> HIDE DEF W
<1>4. walk' \in Walk /\ walk'.data = walk.data /\ walk'.shown = walk.shown
      /\ walk'.read = walk.read \cup {"count"} /\ walk'.step = "reading"
  BY <1>1, <1>2, <1>3 DEF Walk
<1>5. QED
  BY <1>1, <1>2, <1>4, WalkKeepsFit

\* The ids of a page are sent.
InOrder(s) == [i \in DOMAIN s |-> s[i].id]

\* The ids that were sent are those sent before and those of the page.
LEMMA SentIds ==
    ASSUME NEW S, NEW shown \in Seq(Nat), NEW data \in Seq(S), Ids(data) \subseteq Nat
    PROVE  /\ shown \o InOrder(data) \in Seq(Nat)
           /\ Len(shown \o InOrder(data)) = Len(shown) + Len(data)
           /\ ToSet(shown \o InOrder(data)) = ToSet(shown) \cup Ids(data)
           /\ \A k \in 1 .. Len(shown) + Len(data) :
                  (shown \o InOrder(data))[k] =
                      IF k <= Len(shown) THEN shown[k] ELSE data[k - Len(shown)].id
<1> DEFINE ids == InOrder(data)
           t == shown \o ids
<1>1. ids \in Seq(Nat) /\ Len(ids) = Len(data) /\ DOMAIN data = 1 .. Len(data)
      /\ \A i \in 1 .. Len(data) : ids[i] = data[i].id
  <2>1. DOMAIN data = 1 .. Len(data) /\ Len(data) \in Nat
    OBVIOUS
  <2>2. \A i \in 1 .. Len(data) : data[i].id \in Nat
    BY <2>1 DEF Ids
  <2>3. QED
    BY <2>1, <2>2 DEF InOrder
<1> HIDE DEF ids
<1>2. /\ t \in Seq(Nat) /\ Len(t) = Len(shown) + Len(data)
      /\ \A k \in 1 .. Len(shown) + Len(data) :
             t[k] = IF k <= Len(shown) THEN shown[k] ELSE ids[k - Len(shown)]
  <2>1. /\ t \in Seq(Nat) /\ Len(t) = Len(shown) + Len(ids)
        /\ \A k \in 1 .. Len(shown) + Len(ids) :
               t[k] = IF k <= Len(shown) THEN shown[k] ELSE ids[k - Len(shown)]
    BY <1>1, ConcatIs
  <2>2. QED
    BY <1>1, <2>1
<1> HIDE DEF t
<1> DEFINE a == Len(shown)
           b == Len(data)
<1>3. a \in Nat /\ b \in Nat /\ DOMAIN t = 1 .. a + b /\ DOMAIN shown = 1 .. a
  BY <1>2
<1>b. \A k \in 1 .. a + b : t[k] = IF k <= a THEN shown[k] ELSE ids[k - a]
  BY <1>2
<1>4. \A k \in 1 .. a + b : k > a => k - a \in 1 .. b /\ t[k] = data[k - a].id
  <2> HIDE DEF a, b
  <2>1. ASSUME NEW k \in 1 .. a + b, k > a PROVE k - a \in 1 .. b
    BY ONLY <1>3, <2>1
  <2>2. \A k \in 1 .. a + b : k > a => t[k] = ids[k - a]
    BY ONLY <1>b, <1>3
  <2>3. \A i \in 1 .. b : ids[i] = data[i].id
    BY <1>1 DEF b
  <2>4. QED
    BY ONLY <2>1, <2>2, <2>3
<1>5. \A k \in 1 .. a + b : k <= a => t[k] = shown[k] /\ k \in 1 .. a
  BY <1>2, <1>3
<1>6. \A i \in 1 .. b : a + i \in 1 .. a + b /\ t[a + i] = data[i].id
  <2> SUFFICES ASSUME NEW i \in 1 .. b PROVE a + i \in 1 .. a + b /\ t[a + i] = data[i].id
    OBVIOUS
  <2>1. a + i \in 1 .. a + b /\ a + i > a /\ (a + i) - a = i
    BY <1>3
  <2>2. QED
    BY <1>4, <2>1
<1>7. \A i \in 1 .. a : i \in 1 .. a + b /\ t[i] = shown[i]
  BY <1>2, <1>3
<1>8. ToSet(t) = ToSet(shown) \cup Ids(data)
  <2>1. /\ ToSet(t) = {t[k] : k \in 1 .. a + b} /\ ToSet(shown) = {shown[k] : k \in 1 .. a}
        /\ Ids(data) = {data[k].id : k \in 1 .. b}
    BY <1>1, <1>3 DEF ToSet, Ids
  <2> HIDE DEF a, b
  <2>2. ASSUME NEW x \in ToSet(t) PROVE x \in ToSet(shown) \cup Ids(data)
    <3>1. PICK k \in 1 .. a + b : x = t[k]
      BY <2>1
    <3>2. CASE k <= a
      BY <1>5, <2>1, <3>1, <3>2
    <3>3. CASE k > a
      BY <1>4, <2>1, <3>1, <3>3
    <3>4. QED
      BY <1>3, <3>2, <3>3
  <2>3. ASSUME NEW x \in ToSet(shown) \cup Ids(data) PROVE x \in ToSet(t)
    BY <1>6, <1>7, <2>1
  <2>4. QED
    BY <2>2, <2>3
<1>9. QED
  BY <1>2, <1>4, <1>5, <1>8 DEF t, ids

\* An answer sends the ids that were read.
LEMMA AnswerPageKeepsFit ==
    ASSUME PagesFit, AnswerPage
    PROVE  PagesFit'
<1> DEFINE shown == walk.shown \o [i \in DOMAIN walk.data |-> walk.data[i].id]
           step == IF walk.page < TotalPages(walk.total) THEN "request" ELSE "done"
           page == IF walk.page < TotalPages(walk.total) THEN walk.page + 1 ELSE walk.page
<1>1. /\ walk' = [walk EXCEPT !.shown = shown, !.step = step, !.page = page]
      /\ UNCHANGED <<table, private, following, query, limit, history>>
  BY DEF AnswerPage
<1>2. walk \in Walk /\ history \in History /\ Len(walk.data) <= limit
      /\ walk.data \in Seq(Row(query.endpoint)) /\ walk.shown \in Seq(Nat)
  BY DEF PagesFit, Walk
<1>3. Ids(walk.data) \subseteq Nat
  BY DEF PagesFit
<1>a. shown = walk.shown \o InOrder(walk.data)
  BY DEF InOrder
<1> HIDE DEF shown
<1>4. shown \in Seq(Nat) /\ ToSet(shown) = ToSet(walk.shown) \cup Ids(walk.data)
  BY ONLY <1>2, <1>3, <1>a, SentIds
<1>5. page \in Nat \ {0} /\ step \in {"request", "done"}
  BY FitTypes
<1> HIDE DEF step, page
<1>6. walk' \in Walk /\ walk'.data = walk.data /\ walk'.shown = shown /\ walk'.step # "reading"
  BY <1>1, <1>2, <1>4, <1>5 DEF Walk
<1>7. QED
  BY <1>1, <1>2, <1>4, <1>6, WalkKeepsFit

Distinct(s) == \A i, j \in DOMAIN s : s[i].id = s[j].id => i = j

\* A row with an id of its own keeps ids apart.
LEMMA GrownDistinct ==
    ASSUME NEW S, NEW s \in Seq(S), NEW t \in Seq(S), NEW e \in S,
           NEW k \in 1 .. Len(s) + 1, Grown(t, s, k, e)
    PROVE  Distinct(t) <=> Distinct(s) /\ e.id \notin Ids(s)
<1>a. /\ \A j \in 1 .. Len(t) :
             \/ j = k /\ t[j] = e
             \/ j < k /\ j \in 1 .. Len(s) /\ t[j] = s[j]
             \/ j > k /\ j - 1 \in 1 .. Len(s) /\ t[j] = s[j - 1]
      /\ \A j \in 1 .. Len(s) :
             \/ j < k /\ j \in 1 .. Len(t) /\ s[j] = t[j]
             \/ j >= k /\ j + 1 \in 1 .. Len(t) /\ s[j] = t[j + 1]
  BY GrownAt
<1>b. k \in Nat /\ Len(s) \in Nat /\ Len(t) \in Nat /\ k \in 1 .. Len(t) /\ t[k] = e
  BY DEF Grown
<1>c. DOMAIN s = 1 .. Len(s) /\ DOMAIN t = 1 .. Len(t)
  OBVIOUS
<1>1. ASSUME Distinct(t) PROVE Distinct(s) /\ e.id \notin Ids(s)
  <2>1. ASSUME NEW i \in 1 .. Len(s), NEW j \in 1 .. Len(s), s[i].id = s[j].id PROVE i = j
    <3>1. PICK m \in 1 .. Len(t) : s[i] = t[m] /\ m = (IF i < k THEN i ELSE i + 1)
      <4>1. CASE i < k
        BY <1>a, <4>1
      <4>2. CASE i >= k
        BY <1>a, <4>2
      <4>3. QED
        BY <1>b, <4>1, <4>2
    <3>2. PICK n \in 1 .. Len(t) : s[j] = t[n] /\ n = (IF j < k THEN j ELSE j + 1)
      BY <1>a, <1>b
    <3>3. m = n
      BY <1>1, <1>c, <2>1, <3>1, <3>2 DEF Distinct
    <3>4. QED
      BY ONLY <1>b, <3>1, <3>2, <3>3, i \in 1 .. Len(s), j \in 1 .. Len(s)
  <2>2. ASSUME NEW j \in 1 .. Len(s) PROVE s[j].id # e.id
    <3>1. PICK n \in 1 .. Len(t) : s[j] = t[n] /\ n # k
      BY <1>a, <1>b
    <3>2. QED
      BY <1>1, <1>b, <1>c, <3>1 DEF Distinct
  <2>3. QED
    BY <1>c, <2>1, <2>2 DEF Distinct, Ids
<1>2. ASSUME Distinct(s), e.id \notin Ids(s) PROVE Distinct(t)
  <2>1. \A j \in 1 .. Len(s) : s[j].id # e.id
    BY <1>2, <1>c DEF Ids
  <2>2. ASSUME NEW i \in 1 .. Len(t), NEW j \in 1 .. Len(t), t[i].id = t[j].id PROVE i = j
    <3>1. i = k \/ \E m \in 1 .. Len(s) : t[i] = s[m] /\ i = (IF m < k THEN m ELSE m + 1)
      <4>1. CASE i > k
        <5>1. i - 1 \in 1 .. Len(s) /\ t[i] = s[i - 1] /\ ~(i - 1 < k) /\ i = (i - 1) + 1
          BY <1>a, <1>b, <4>1
        <5>2. QED
          BY <5>1
      <4>2. QED
        BY <1>a, <1>b, <4>1
    <3>2. j = k \/ \E m \in 1 .. Len(s) : t[j] = s[m] /\ j = (IF m < k THEN m ELSE m + 1)
      <4>1. CASE j > k
        <5>1. j - 1 \in 1 .. Len(s) /\ t[j] = s[j - 1] /\ ~(j - 1 < k) /\ j = (j - 1) + 1
          BY <1>a, <1>b, <4>1
        <5>2. QED
          BY <5>1
      <4>2. QED
        BY <1>a, <1>b, <4>1
    <3>3. CASE i = k /\ j # k
      BY <1>b, <2>1, <2>2, <3>2, <3>3
    <3>4. CASE i # k /\ j = k
      BY <1>b, <2>1, <2>2, <3>1, <3>4
    <3>5. CASE i # k /\ j # k
      <4>1. PICK m \in 1 .. Len(s) : t[i] = s[m] /\ i = (IF m < k THEN m ELSE m + 1)
        BY <3>1, <3>5
      <4>2. PICK n \in 1 .. Len(s) : t[j] = s[n] /\ j = (IF n < k THEN n ELSE n + 1)
        BY <3>2, <3>5
      <4>3. m = n
        BY <1>2, <1>c, <2>2, <4>1, <4>2 DEF Distinct
      <4>4. QED
        BY <4>1, <4>2, <4>3
    <3>6. QED
      BY <3>3, <3>4, <3>5
  <2>3. QED
    BY <1>c, <2>2 DEF Distinct
<1>3. QED
  BY <1>1, <1>2

\* What changes meanwhile leaves the walk alone.
LEMMA ChangeKeepsFit ==
    ASSUME PagesFit, UNCHANGED <<query, limit, walk>>, table' \in Seq(Row(query.endpoint)),
           Distinct(table'), history' \in History, Ids(table') \subseteq 1 .. history'.ids,
           history.ids <= history'.ids, history'.stayed \subseteq history.stayed,
           private' \subseteq Owners, following' \in [Owners -> {"none", "PENDING", "ACCEPTED"}]
    PROVE  PagesFit'
<1>1. Row(query.endpoint)' = Row(query.endpoint) /\ Walk' = Walk /\ History' = History
  BY DEF Row, Walk, History
<1>2. Ids(table)' = Ids(table') /\ Ids(walk.data)' = Ids(walk.data)
      /\ ToSet(walk.shown)' = ToSet(walk.shown)
  BY DEF Ids, ToSet
<1>3. history.ids \in Nat /\ history'.ids \in Nat
  BY DEF PagesFit, History
<1>4. 1 .. history.ids \subseteq 1 .. history'.ids
  BY <1>3
<1>5. (Ids(table) \cup Ids(walk.data) \cup ToSet(walk.shown) \cup history.stayed
           \subseteq 1 .. history.ids)'
  BY <1>2, <1>4 DEF PagesFit
<1>6. (\A i, j \in DOMAIN table : table[i].id = table[j].id => i = j)'
  BY DEF Distinct
<1>7. walk' = walk /\ query' = query /\ limit' = limit
  OBVIOUS
<1>8. /\ walk' \in Walk /\ query' \in Query /\ limit' \in Limits /\ (Len(walk.data) <= limit)'
      /\ (IF walk.step = "reading" THEN "find" \notin walk.read => walk.data = <<>>
          ELSE Ids(walk.data) \subseteq ToSet(walk.shown))'
  BY <1>2, <1>7 DEF PagesFit
<1>9. QED
  BY <1>1, <1>5, <1>6, <1>8 DEF PagesFit

\* What each change does to the table.
LEMMA RowCreatedDoes ==
    ASSUME PagesFit, RowCreated
    PROVE  /\ UNCHANGED <<private, following, query, limit, walk>>
           /\ walk.step \in {"request", "reading"}
           /\ history' = [history EXCEPT !.ids = history.ids + 1, !.inserted = history.inserted + 1,
                                         !.split = IF HalfRead THEN history.split + 1
                                                   ELSE history.split]
           /\ \E r \in Row(query.endpoint), i \in 1 .. Len(table) + 1 :
                  /\ r.id = history.ids + 1 /\ table' \in Seq(Row(query.endpoint))
                  /\ Grown(table', table, i, r)
<1>1. PICK r \in Row(query.endpoint),
           i \in IF query.endpoint \in Ranked THEN 1 .. Len(table) + 1 ELSE {1} :
           r.id = history.ids + 1 /\ table' = InsertAt(table, i, r)
  BY DEF RowCreated
<1>2. table \in Seq(Row(query.endpoint))
  BY DEF PagesFit
<1>3. i \in 1 .. Len(table) + 1
  BY <1>2
<1>4. table' \in Seq(Row(query.endpoint)) /\ Grown(table', table, i, r)
  BY <1>1, <1>2, <1>3, InsertAtGrows
<1>5. QED
  BY <1>1, <1>3, <1>4 DEF RowCreated, Changing

\* What a row that is deleted or hidden does to the table and to the record.
LEMMA RowLeavesDoes ==
    ASSUME PagesFit, RowLeaves
    PROVE  /\ UNCHANGED <<private, following, query, limit, walk>>
           /\ walk.step \in {"request", "reading"}
           /\ \E i \in DOMAIN table :
                  /\ history' = [history EXCEPT !.removed = history.removed + 1,
                                                !.stayed = history.stayed \ {table[i].id}]
                  /\ table' \in Seq(Row(query.endpoint)) /\ i \in 1 .. Len(table') + 1
                  /\ Grown(table, table', i, table[i])
<1>1. PICK i \in DOMAIN table :
          /\ table' = RemoveAt(table, i)
          /\ history' = [history EXCEPT !.removed = history.removed + 1,
                                        !.stayed = history.stayed \ {table[i].id}]
  BY DEF RowLeaves
<1>2. table \in Seq(Row(query.endpoint)) /\ i \in 1 .. Len(table)
  BY DEF PagesFit
<1>3. table' \in Seq(Row(query.endpoint)) /\ i \in 1 .. Len(table') + 1
      /\ Grown(table, table', i, table[i])
  BY <1>1, <1>2, RemoveAtShrinks
<1>4. QED
  BY <1>1, <1>3 DEF RowLeaves, Changing

\* The row that moves keeps its id, and is selected after as before.
LEMMA RowMovesDoes ==
    ASSUME PagesFit, RowMoves
    PROVE  /\ UNCHANGED <<private, following, query, limit, walk>>
           /\ walk.step \in {"request", "reading"} /\ query.endpoint \in Ranked
           /\ history' = [history EXCEPT !.moved = history.moved + 1]
           /\ table' \in Seq(Row(query.endpoint))
           /\ \E rest \in Seq(Row(query.endpoint)), i \in DOMAIN table, j \in Nat,
                 d \in Row(query.endpoint) :
                  /\ j \in 1 .. Len(rest) + 1 /\ i \in 1 .. Len(rest) + 1 /\ Grown(table, rest, i, table[i])
                  /\ Grown(table', rest, j, d) /\ d.id = table[i].id
                  /\ \A q, scope : Selected(query, scope, d) <=> Selected(query, scope, table[i])
<1>1. PICK i \in DOMAIN table, j \in DOMAIN table :
          IF query.endpoint = "getPromotions"
          THEN /\ i <= j /\ table[i].kind = "active"
               /\ table' = InsertAt(RemoveAt(table, i), j, [table[i] EXCEPT !.kind = "completed"])
          ELSE i # j /\ table' = InsertAt(RemoveAt(table, i), j, table[i])
  BY DEF RowMoves
<1> DEFINE d == IF query.endpoint = "getPromotions" THEN [table[i] EXCEPT !.kind = "completed"]
                ELSE table[i]
           rest == RemoveAt(table, i)
<1>2. table \in Seq(Row(query.endpoint)) /\ i \in 1 .. Len(table) /\ j \in 1 .. Len(table)
      /\ table[i] \in Row(query.endpoint)
  BY DEF PagesFit
<1>3. table' = InsertAt(rest, j, d)
  BY <1>1
<1>4. d \in Row(query.endpoint) /\ d.id = table[i].id /\ d.owner = table[i].owner
      /\ d.text = table[i].text
  <2>1. CASE query.endpoint = "getPromotions"
    <3>1. Kinds[query.endpoint] = {"active", "completed"}
      BY <2>1 DEF Kinds
    <3>2. QED
      BY <1>2, <2>1, <3>1 DEF Row
  <2>2. CASE query.endpoint # "getPromotions"
    BY <1>2, <2>2
  <2>3. QED
    BY <2>1, <2>2
<1>5. query.endpoint \in Ranked
  BY DEF RowMoves
<1>6. \A scope : Selected(query, scope, d) <=> Selected(query, scope, table[i])
  <2>1. CASE query.endpoint = "getPromotions"
    <3>1. d.kind = "completed" /\ table[i].kind = "active"
      BY <1>1, <1>2, <2>1 DEF Row
    <3> HIDE DEF d
    <3>2. \A scope, r : Selected(query, scope, r) <=> CreatorGetPromotions(query, r)
      BY <2>1 DEF Selected
    <3>3. QED
      BY <1>4, <3>1, <3>2 DEF CreatorGetPromotions
  <2>2. CASE query.endpoint # "getPromotions"
    BY <2>2
  <2>3. QED
    BY <2>1, <2>2
<1> HIDE DEF d
<1>7. rest \in Seq(Row(query.endpoint)) /\ i \in 1 .. Len(rest) + 1
      /\ Grown(table, rest, i, table[i])
  BY <1>2, RemoveAtShrinks
<1> HIDE DEF rest
<1>8. j \in 1 .. Len(rest) + 1
  BY <1>2, <1>7 DEF Grown
<1>9. table' \in Seq(Row(query.endpoint)) /\ Grown(table', rest, j, d)
  BY <1>3, <1>4, <1>7, <1>8, InsertAtGrows
<1>10. /\ UNCHANGED <<private, following, query, limit, walk>>
       /\ walk.step \in {"request", "reading"}
       /\ history' = [history EXCEPT !.moved = history.moved + 1]
  BY DEF RowMoves, Changing
<1>11. \E rest_1 \in Seq(Row(query.endpoint)), i_1 \in DOMAIN table,
          j_1 \in Nat, d_1 \in Row(query.endpoint) :
           /\ j_1 \in 1 .. Len(rest_1) + 1 /\ i_1 \in 1 .. Len(rest_1) + 1 /\ Grown(table, rest_1, i_1, table[i_1])
           /\ Grown(table', rest_1, j_1, d_1) /\ d_1.id = table[i_1].id
           /\ \A q, scope : Selected(query, scope, d_1) <=> Selected(query, scope, table[i_1])
  BY <1>4, <1>6, <1>7, <1>8, <1>9
<1>12. QED
  BY <1>5, <1>9, <1>10, <1>11

\* A row is created with an id of its own.
LEMMA RowCreatedKeepsFit ==
    ASSUME PagesFit, RowCreated
    PROVE  PagesFit'
<1>1. PICK r \in Row(query.endpoint), i \in 1 .. Len(table) + 1 :
          /\ r.id = history.ids + 1 /\ table' \in Seq(Row(query.endpoint))
          /\ Grown(table', table, i, r)
  BY RowCreatedDoes
<1> DEFINE split == IF HalfRead THEN history.split + 1 ELSE history.split
<1>2. /\ UNCHANGED <<private, following, query, limit, walk>>
      /\ history' = [history EXCEPT !.ids = history.ids + 1, !.inserted = history.inserted + 1,
                                    !.split = split]
  BY RowCreatedDoes
<1>3. table \in Seq(Row(query.endpoint)) /\ history \in History /\ Distinct(table)
      /\ Ids(table) \subseteq 1 .. history.ids
  BY DEF PagesFit, Distinct
<1>4. split \in Nat /\ history.ids \in Nat /\ history.ids + 1 \in Nat
      /\ history.inserted + 1 \in Nat
  <2>1. history.ids \in Nat /\ history.inserted \in Nat /\ history.split \in Nat
    BY FitTypes
  <2>2. QED
    BY ONLY <2>1, SMTT(30)
<1> HIDE DEF split
<1>5. history' \in History /\ history'.ids = history.ids + 1 /\ history'.stayed = history.stayed
  BY <1>2, <1>3, <1>4 DEF History
<1>6. r.id \notin Ids(table)
  BY <1>1, <1>3, <1>4
<1>7. Distinct(table') /\ Ids(table') = Ids(table) \cup {r.id}
  BY <1>1, <1>3, <1>6, GrownDistinct, GrownIds
<1>8. Ids(table') \subseteq 1 .. history'.ids
  BY <1>1, <1>3, <1>4, <1>5, <1>7
<1>9. QED
  BY <1>1, <1>2, <1>4, <1>5, <1>7, <1>8, ChangeKeepsFit, SMTT(30) DEF PagesFit

\* A row that leaves leaves the others as they are.
LEMMA RowLeavesKeepsFit ==
    ASSUME PagesFit, RowLeaves
    PROVE  PagesFit'
<1>1. PICK i \in DOMAIN table :
          /\ history' = [history EXCEPT !.removed = history.removed + 1,
                                        !.stayed = history.stayed \ {table[i].id}]
          /\ table' \in Seq(Row(query.endpoint)) /\ i \in 1 .. Len(table') + 1
          /\ Grown(table, table', i, table[i])
  BY RowLeavesDoes
<1>2. UNCHANGED <<private, following, query, limit, walk>>
  BY RowLeavesDoes
<1>3. table \in Seq(Row(query.endpoint)) /\ history \in History /\ Distinct(table)
      /\ Ids(table) \subseteq 1 .. history.ids /\ table[i] \in Row(query.endpoint)
  BY DEF PagesFit, Distinct
<1>4. history' \in History /\ history'.ids = history.ids /\ history'.stayed \subseteq history.stayed
      /\ history.ids \in Nat
  <2>1. history.removed + 1 \in Nat /\ history.ids \in Nat
    BY FitTypes
  <2>2. QED
    BY <1>1, <1>3, <2>1 DEF History
<1>5. Distinct(table') /\ Ids(table') \subseteq Ids(table)
  BY <1>1, <1>3, GrownDistinct, GrownIds
<1>6. QED
  BY <1>1, <1>2, <1>3, <1>4, <1>5, ChangeKeepsFit DEF PagesFit

\* A row that moves has the id that it had.
LEMMA RowMovesKeepsFit ==
    ASSUME PagesFit, RowMoves
    PROVE  PagesFit'
<1>1. PICK rest \in Seq(Row(query.endpoint)), i \in DOMAIN table,
           j \in Nat, d \in Row(query.endpoint) :
          /\ j \in 1 .. Len(rest) + 1 /\ i \in 1 .. Len(rest) + 1 /\ Grown(table, rest, i, table[i])
          /\ Grown(table', rest, j, d) /\ d.id = table[i].id
  BY RowMovesDoes
<1>2. /\ UNCHANGED <<private, following, query, limit, walk>>
      /\ history' = [history EXCEPT !.moved = history.moved + 1]
      /\ table' \in Seq(Row(query.endpoint))
  BY RowMovesDoes
<1>3. table \in Seq(Row(query.endpoint)) /\ history \in History /\ Distinct(table)
      /\ Ids(table) \subseteq 1 .. history.ids /\ table[i] \in Row(query.endpoint)
  BY DEF PagesFit, Distinct
<1>4. history' \in History /\ history'.ids = history.ids /\ history'.stayed = history.stayed
      /\ history.ids \in Nat
  <2>1. history.moved + 1 \in Nat /\ history.ids \in Nat
    BY FitTypes
  <2>2. QED
    BY <1>2, <1>3, <2>1 DEF History
<1>5. Distinct(rest) /\ table[i].id \notin Ids(rest) /\ Ids(table) = Ids(rest) \cup {table[i].id}
  BY <1>1, <1>3, GrownDistinct, GrownIds
<1>6. Distinct(table') /\ Ids(table') = Ids(rest) \cup {d.id}
  BY <1>1, <1>2, <1>5, GrownDistinct, GrownIds
<1>7. QED
  BY <1>1, <1>2, <1>3, <1>4, <1>5, <1>6, ChangeKeepsFit DEF PagesFit

\* Profiles and follows change beside the rows.
LEMMA OthersKeepFit ==
    ASSUME PagesFit, ProfileChanges \/ FollowChanges
    PROVE  /\ PagesFit' /\ UNCHANGED <<table, query, limit, walk>>
           /\ history' = [history EXCEPT !.others = history.others + 1, !.touched = "yes"]
<1>1. /\ UNCHANGED <<table, query, limit, walk>>
      /\ history' = [history EXCEPT !.others = history.others + 1, !.touched = "yes"]
  BY DEF ProfileChanges, FollowChanges, Changing
<1>2. history \in History /\ Distinct(table)
  BY DEF PagesFit, Distinct
<1>3. history' \in History /\ history'.ids = history.ids /\ history'.stayed = history.stayed
      /\ history.ids \in Nat
  <2>1. history.others + 1 \in Nat /\ history.ids \in Nat
    BY FitTypes
  <2>2. QED
    BY <1>1, <1>2, <2>1 DEF History
<1>4. private' \subseteq Owners /\ following' \in [Owners -> {"none", "PENDING", "ACCEPTED"}]
  BY DEF ProfileChanges, FollowChanges, PagesFit
<1>5. PagesFit'
  BY <1>1, <1>2, <1>3, <1>4, ChangeKeepsFit DEF PagesFit
<1>6. QED
  BY <1>1, <1>5

\* What a find finds is selected, and what is selected may be opened.
LEMMA SelectedOpens ==
    ASSUME PagesFit, Admitted(query), query.endpoint \in Feeds \cup {"findByUser"},
           NEW r, Selected(query, PageScope, r)
    PROVE  Opens(query.viewer, r)
<1>1. PICK e \in Endpoints : query.endpoint = e /\ (e = "getFeed" => query.viewer = Viewer)
  BY DEF PagesFit, Query, Feeds
<1>2. CASE query.endpoint \in {"findAll", "trending"}
  BY <1>2 DEF Selected, PostsFindAll, Opens
<1>3. CASE query.endpoint = "getFramesFeed"
  BY <1>3 DEF Selected, GetFramesFeed, Opens
<1>4. CASE query.endpoint = "findByUser"
  <2>1. r.owner = query.of
    BY <1>4 DEF Selected, PostsFindByUser
  <2>2. Opens(query.viewer, [owner |-> query.of])
    BY <1>4 DEF Admitted
  <2>3. QED
    BY <2>1, <2>2 DEF Opens
<1>5. CASE query.endpoint = "getFeed"
  <2>1. r.owner \in FeedScope
    BY <1>5 DEF Selected, GetFeed, PageScope
  <2>2. QED
    BY <1>1, <1>5, <2>1 DEF FeedScope, Opens
<1>6. QED
  BY <1>2, <1>3, <1>4, <1>5 DEF Feeds

\* What the profiles and follows let one read rests on them and on the query.
LEMMA ScopeStays ==
    ASSUME UNCHANGED <<private, following, query>>
    PROVE  /\ PageScope' = PageScope /\ Admitted(query)' = Admitted(query)
           /\ \A r : (Opens(query.viewer, r))' <=> Opens(query.viewer, r)
BY DEF PageScope, FeedScope, Followed, Admitted, Opens

OpenInv == PagesFit /\ ScopeStands /\ ListedOpens

\* Nothing is listed before a page is read.
LEMMA OpenAtFirst == ListingsInit => OpenInv
<1> SUFFICES ASSUME ListingsInit PROVE OpenInv
  OBVIOUS
<1>1. PagesFit
  BY PagesFitAtFirst
<1>2. walk.step = "request" /\ walk.data = <<>> /\ history.touched = "no"
  BY DEF ListingsInit
<1>3. QED
  BY <1>1, <1>2 DEF OpenInv, ScopeStands, ListedOpens

\* A step of the walk that is not the first and no find.
LEMMA WalkKeepsOpen ==
    ASSUME OpenInv, PagesFit', UNCHANGED <<private, following, query>>,
           history'.others >= history.others, history'.touched = history.touched,
           history.others \in Nat, history'.others \in Nat, walk'.data = walk.data,
           walk'.step \in {"reading", "done"} =>
               walk.step \in {"reading", "done"} /\ walk'.scope = walk.scope
    PROVE  OpenInv'
<1>1. PageScope' = PageScope /\ Admitted(query)' = Admitted(query)
      /\ \A r : (Opens(query.viewer, r))' <=> Opens(query.viewer, r)
  BY ScopeStays
<1>2. ScopeStands'
  BY <1>1 DEF OpenInv, ScopeStands
<1>3. ListedOpens'
  BY <1>1 DEF OpenInv, ListedOpens, Opens, Followed
<1>4. QED
  BY <1>2, <1>3 DEF OpenInv

\* The owners that a request reads are those whose rows open.
LEMMA PageRequestKeepsOpen ==
    ASSUME OpenInv, PageRequest
    PROVE  OpenInv'
<1>1. PagesFit /\ PagesFit'
  BY PageRequestKeepsFit DEF OpenInv
<1>2. /\ walk' = [walk EXCEPT !.step = IF Admitted(query) THEN "reading" ELSE "refused",
                             !.scope = PageScope, !.read = {}, !.data = <<>>]
      /\ history' = [history EXCEPT !.touched = "no"]
      /\ UNCHANGED <<table, private, following, query, limit>>
  BY DEF PageRequest
<1>3. walk \in Walk /\ history \in History
  BY <1>1 DEF PagesFit
<1>4. /\ walk'.step = (IF Admitted(query) THEN "reading" ELSE "refused")
      /\ walk'.scope = PageScope /\ walk'.data = <<>> /\ history'.touched = "no"
  BY <1>2, <1>3 DEF Walk, History
<1>5. PageScope' = PageScope /\ Admitted(query)' = Admitted(query)
  BY <1>2, ScopeStays
<1>6. ScopeStands'
  BY <1>4, <1>5 DEF ScopeStands
<1>7. ListedOpens'
  BY <1>4 DEF ListedOpens
<1>8. QED
  BY <1>1, <1>6, <1>7 DEF OpenInv

\* What a find selects opens: the filters of each endpoint, one by one.
LEMMA FindPageKeepsOpen ==
    ASSUME OpenInv, FindPage
    PROVE  OpenInv'
<1> DEFINE M == Matching(query, walk.scope)
           data == PageOf(M, walk.page)
<1>1. PagesFit /\ PagesFit'
  BY FindPageKeepsFit DEF OpenInv
<1>2. /\ walk' = [walk EXCEPT !.read = walk.read \cup {"find"}, !.data = data]
      /\ UNCHANGED <<table, private, following, query, limit, history>>
      /\ walk.step = "reading"
  BY DEF FindPage
<1>3. walk \in Walk
  BY <1>1 DEF PagesFit
<1>4. walk'.data = data /\ walk'.step = "reading" /\ walk'.scope = walk.scope
  BY <1>2, <1>3 DEF Walk
<1>5. PageScope' = PageScope /\ Admitted(query)' = Admitted(query)
      /\ \A r : (Opens(query.viewer, r))' <=> Opens(query.viewer, r)
  BY <1>2, ScopeStays
<1>6. ScopeStands'
  BY <1>2, <1>4, <1>5 DEF OpenInv, ScopeStands
<1>7. ASSUME query.endpoint \in Feeds \cup {"findByUser"}, history.touched = "no",
             NEW i \in DOMAIN data
      PROVE  Opens(query.viewer, data[i])
  <2>1. walk.scope = PageScope /\ Admitted(query)
    BY <1>2, <1>7 DEF OpenInv, ScopeStands
  <2>2. M \in Seq(Row(query.endpoint))
        /\ \A k \in DOMAIN M : \E j \in Positions(query, walk.scope) : M[k] = table[j]
    BY <1>1, MatchingIs
  <2>3. limit \in Nat \ {0} /\ walk.page \in Nat \ {0}
    BY <1>1, FitTypes
  <2> HIDE DEF M
  <2>4. /\ data \in Seq(Row(query.endpoint))
        /\ \A k \in 1 .. Len(data) : /\ data[k] = M[(walk.page - 1) * limit + k]
                                     /\ (walk.page - 1) * limit + k \in 1 .. Len(M)
    BY ONLY <2>2, <2>3, PageIs
  <2>5. i \in 1 .. Len(data) /\ DOMAIN M = 1 .. Len(M)
    BY <2>2, <2>4
  <2>6. PICK j \in Positions(query, walk.scope) : data[i] = table[j]
    BY <2>2, <2>4, <2>5
  <2>7. Selected(query, PageScope, data[i])
    BY <2>1, <2>6 DEF Positions
  <2>8. QED
    BY <1>1, <1>7, <2>1, <2>7, SelectedOpens
<1> HIDE DEF data
<1>8. ListedOpens'
  BY <1>2, <1>4, <1>5, <1>7 DEF ListedOpens, Opens, Followed
<1>9. QED
  BY <1>1, <1>6, <1>8 DEF OpenInv

\* A count lists nothing.
LEMMA CountRowsKeepsOpen ==
    ASSUME OpenInv, CountRows
    PROVE  OpenInv'
<1>1. PagesFit /\ PagesFit'
  BY CountRowsKeepsFit DEF OpenInv
<1>2. /\ UNCHANGED <<table, private, following, query, limit, history>> /\ walk.step = "reading"
      /\ \E n : walk' = [walk EXCEPT !.read = walk.read \cup {"count"}, !.total = n]
  BY DEF CountRows
<1>3. walk \in Walk /\ history.others \in Nat
  BY <1>1, FitTypes DEF PagesFit
<1>4. walk'.data = walk.data /\ walk'.scope = walk.scope
  BY <1>2, <1>3 DEF Walk
<1>5. QED
  BY <1>1, <1>2, <1>3, <1>4, WalkKeepsOpen

\* An answer lists nothing else.
LEMMA AnswerPageKeepsOpen ==
    ASSUME OpenInv, AnswerPage
    PROVE  OpenInv'
<1>1. PagesFit /\ PagesFit'
  BY AnswerPageKeepsFit DEF OpenInv
<1>2. /\ UNCHANGED <<table, private, following, query, limit, history>> /\ walk.step = "reading"
      /\ \E shown, step, page : walk' = [walk EXCEPT !.shown = shown, !.step = step, !.page = page]
  BY DEF AnswerPage
<1>3. walk \in Walk /\ history.others \in Nat
  BY <1>1, FitTypes DEF PagesFit
<1>4. walk'.data = walk.data /\ walk'.scope = walk.scope
  BY <1>2, <1>3 DEF Walk
<1>5. QED
  BY <1>1, <1>2, <1>3, <1>4, WalkKeepsOpen

\* Rows that change are not read again.
LEMMA RowChangeKeepsOpen ==
    ASSUME OpenInv, RowCreated \/ RowLeaves \/ RowMoves
    PROVE  OpenInv'
<1>1. PagesFit /\ PagesFit'
  BY RowCreatedKeepsFit, RowLeavesKeepsFit, RowMovesKeepsFit DEF OpenInv
<1>2. UNCHANGED <<private, following, query, walk>>
  BY DEF RowCreated, RowLeaves, RowMoves, Changing
<1>3. history \in History /\ history.others \in Nat
  BY <1>1, FitTypes DEF PagesFit
<1>4. history'.others = history.others /\ history'.touched = history.touched
  BY <1>3 DEF RowCreated, RowLeaves, RowMoves, History
<1>5. QED
  BY <1>1, <1>2, <1>3, <1>4, WalkKeepsOpen

\* A change of profiles or follows is recorded.
LEMMA OthersKeepOpen ==
    ASSUME OpenInv, ProfileChanges \/ FollowChanges
    PROVE  OpenInv' /\ history'.others # 0
<1>1. /\ PagesFit /\ PagesFit'
      /\ history' = [history EXCEPT !.others = history.others + 1, !.touched = "yes"]
  BY OthersKeepFit DEF OpenInv
<1>2. history \in History /\ history.others \in Nat
  BY <1>1, FitTypes DEF PagesFit
<1>3. history'.others = history.others + 1 /\ history'.touched = "yes"
  BY <1>1, <1>2 DEF History
<1>4. ScopeStands' /\ ListedOpens'
  BY <1>2, <1>3 DEF ScopeStands, ListedOpens
<1>5. QED
  BY <1>1, <1>2, <1>3, <1>4 DEF OpenInv

\* Each step keeps the types, and that what is listed opens.
LEMMA OpenStepKeeps == OpenInv /\ ListingsStep => OpenInv'
BY PageRequestKeepsOpen, FindPageKeepsOpen, CountRowsKeepsOpen, AnswerPageKeepsOpen,
   RowChangeKeepsOpen, OthersKeepOpen DEF ListingsStep

\* A step of nothing keeps the types.
LEMMA PagesRest ==
    ASSUME PagesFit, UNCHANGED listingVars
    PROVE  PagesFit'
<1>1. UNCHANGED <<table, private, following, query, limit, walk, history>>
  BY DEF listingVars
<1>2. Row(query.endpoint)' = Row(query.endpoint) /\ Walk' = Walk /\ History' = History
      /\ Ids(table)' = Ids(table) /\ Ids(walk.data)' = Ids(walk.data)
      /\ ToSet(walk.shown)' = ToSet(walk.shown)
  BY <1>1 DEF Row, Walk, History, Ids, ToSet
<1>3. QED
  BY <1>1, <1>2 DEF PagesFit

\* A step of nothing keeps that what is listed opens.
LEMMA OpenRests ==
    ASSUME OpenInv, UNCHANGED listingVars
    PROVE  OpenInv'
<1>1. UNCHANGED <<table, private, following, query, limit, walk, history>>
  BY DEF listingVars
<1>2. PagesFit /\ PagesFit' /\ history.others \in Nat
  BY PagesRest, FitTypes DEF OpenInv
<1>3. QED
  BY <1>1, <1>2, WalkKeepsOpen

\* The types that a run checks follow from those of the proof.
LEMMA ListingsTyped == PagesFit => ListingsTypeOK
<1> SUFFICES ASSUME PagesFit PROVE ListingsTypeOK
  OBVIOUS
<1>1. \A i \in DOMAIN table : table[i] \in Row(query.endpoint)
  BY DEF PagesFit
<1>2. ToSet(walk.data) \subseteq Row(query.endpoint)
  BY FitTypes DEF ToSet
<1>3. \A field \in Counters : history[field] \in Nat
  BY FitTypes DEF Counters
<1>4. QED
  BY <1>1, <1>2, <1>3, FitTypes DEF ListingsTypeOK, PagesFit

----------------------------------------------------------------------------
(* Listings: walks that are disturbed.                                     *)
(***************************************************************************)
\* A set that gains one has at most one more.
LEMMA AtMostOneMore ==
    ASSUME NEW A, NEW B, IsFiniteSet(A), GainsOne(B, A)
    PROVE  /\ IsFiniteSet(B) /\ Cardinality(B) \in Nat /\ Cardinality(A) \in Nat
           /\ Cardinality(B) <= Cardinality(A) + 1
<1>0. PICK y : B \subseteq A \cup {y}
  BY DEF GainsOne
<1>1. /\ IsFiniteSet(A \cup {y}) /\ Cardinality(A) \in Nat
      /\ Cardinality(A \cup {y}) = IF y \in A THEN Cardinality(A) ELSE Cardinality(A) + 1
  BY FS_AddElement, FS_CardinalityType
<1>2. IsFiniteSet(B) /\ Cardinality(B) <= Cardinality(A \cup {y})
  BY <1>0, <1>1, FS_Subset
<1>3. Cardinality(B) \in Nat
  BY <1>2, FS_CardinalityType
<1>4. QED
  BY <1>1, <1>2, <1>3

\* A part has no more than the whole.
LEMMA NoMore ==
    ASSUME NEW A, NEW B, IsFiniteSet(A), B \subseteq A
    PROVE  /\ IsFiniteSet(B) /\ Cardinality(B) \in Nat /\ Cardinality(A) \in Nat
           /\ Cardinality(B) <= Cardinality(A)
BY FS_Subset, FS_CardinalityType

\* The listing of any rows t.
Listed(t) == Chosen(t, {i \in DOMAIN t : Selected(query, PageScope, t[i])})

\* A row is selected by profiles, follows and the query.
LEMMA SelectedStays ==
    ASSUME UNCHANGED <<private, following, query>>
    PROVE  \A scope, r : (Selected(query, scope, r))' <=> Selected(query, scope, r)
BY DEF Selected, AdminGetUsers, AdminGetWhitelist, AdminGetPosts, AdminGetReports, AdminGetHashtags,
       AdminGetComments, CreatorGetPosts, CreatorGetStories, CreatorGetPromotions,
       NotificationsFindAll, GetBookmarks, GetByCollection, FindByPost, GetByTag, GetTaggedPosts,
       PostsFindAll, GetFramesFeed, PostsFindByUser, GetFeed, Searched, OfKind

\* The listing is what is selected of the table.
LEMMA ListingIs ==
    /\ Listing = Listed(table)
    /\ UNCHANGED <<private, following, query>> => Listing' = Listed(table')
<1>1. Listing = Listed(table)
  BY DEF Listing, Listed, Matching, Positions
<1>2. ASSUME UNCHANGED <<private, following, query>> PROVE Listing' = Listed(table')
  <2>1. PageScope' = PageScope
    BY <1>2, ScopeStays
  <2>2. \A i : (Selected(query, PageScope, table[i]))' <=> Selected(query, PageScope, table'[i])
    BY <1>2, <2>1, SelectedStays
  <2>3. Positions(query, PageScope)' = {i \in DOMAIN table' : Selected(query, PageScope, table'[i])}
    BY <2>2 DEF Positions
  <2>4. Listing' = Chosen(table', Positions(query, PageScope)')
    BY DEF Listing, Matching
  <2>5. QED
    BY <2>3, <2>4 DEF Listed
<1>3. QED
  BY <1>1, <1>2

\* A row that comes is in the listing if it is selected, between the same rows.
LEMMA ListedGrows ==
    ASSUME NEW S, NEW s \in Seq(S), NEW t \in Seq(S), NEW e \in S, NEW i \in 1 .. Len(s) + 1,
           Grown(t, s, i, e)
    PROVE  IF Selected(query, PageScope, e)
           THEN \E k \in 1 .. Len(Listed(s)) + 1 : Grown(Listed(t), Listed(s), k, e)
           ELSE Listed(t) = Listed(s)
<1> DEFINE W == {j \in DOMAIN s : Selected(query, PageScope, s[j])}
           V == {j \in DOMAIN t : Selected(query, PageScope, t[j])}
<1>1. /\ Len(s) \in Nat /\ DOMAIN s = 1 .. Len(s) /\ DOMAIN t = 1 .. Len(t)
      /\ Len(t) = Len(s) + 1 /\ i \in 1 .. Len(t) /\ t[i] = e
  BY DEF Grown
<1>2. \A j \in 1 .. Len(s) : \/ j < i /\ j \in 1 .. Len(t) /\ s[j] = t[j]
                             \/ j >= i /\ j + 1 \in 1 .. Len(t) /\ s[j] = t[j + 1]
  BY GrownAt
<1>3. ASSUME NEW j \in 1 .. Len(s) PROVE j \in W <=> (IF j < i THEN j ELSE j + 1) \in V
  <2>1. CASE j < i
    BY <1>1, <1>2, <2>1
  <2>2. CASE j >= i
    <3>1. ~(j < i) /\ s[j] = t[j + 1] /\ j + 1 \in DOMAIN t /\ j \in DOMAIN s
      BY <1>1, <1>2, <2>2
    <3>2. QED
      BY <3>1
  <2>3. QED
    BY <1>1, <2>1, <2>2
<1>4. i \in V <=> Selected(query, PageScope, e)
  BY <1>1
<1>5. Listed(s) = Chosen(s, W) /\ Listed(t) = Chosen(t, V)
  BY DEF Listed
<1> HIDE DEF W, V
<1>6. IF i \in V
      THEN \E k \in 1 .. Len(Chosen(s, W)) + 1 : Grown(Chosen(t, V), Chosen(s, W), k, e)
      ELSE Chosen(t, V) = Chosen(s, W)
  BY <1>3, ChosenGrows
<1>7. QED
  BY <1>4, <1>5, <1>6

\* The rows of the listing are rows of the table.
LEMMA ListedIs ==
    ASSUME NEW S, NEW s \in Seq(S)
    PROVE  Listed(s) \in Seq(S)
<1>1. {j \in DOMAIN s : Selected(query, PageScope, s[j])} \in SUBSET DOMAIN s
  OBVIOUS
<1>2. QED
  BY <1>1, ChosenHas DEF Listed

\* What each change does to the listing.
LEMMA CreatedListing ==
    ASSUME PagesFit, RowCreated, NEW n \in Nat
    PROVE  /\ Within(Listing', n) \subseteq Within(Listing, n) \cup {history.ids + 1}
           /\ GainsOne(Beyond(Listing', n), Beyond(Listing, n))
           /\ Len(Listing) \in Nat /\ Len(Listing') \in Nat /\ Len(Listing') <= Len(Listing) + 1
           /\ Ids(Listing) \subseteq Ids(Listing')
<1> DEFINE S == Row(query.endpoint)
<1>1. PICK r \in S, i \in 1 .. Len(table) + 1 :
          r.id = history.ids + 1 /\ table' \in Seq(S) /\ Grown(table', table, i, r)
  BY RowCreatedDoes
<1>2. UNCHANGED <<private, following, query>> /\ table \in Seq(S)
  BY RowCreatedDoes DEF PagesFit
<1>3. Listing = Listed(table) /\ Listing' = Listed(table')
  BY <1>2, ListingIs
<1> HIDE DEF S
<1>4. Listing \in Seq(S) /\ Listing' \in Seq(S)
  BY <1>1, <1>2, <1>3, ListedIs
<1>5. IF Selected(query, PageScope, r)
      THEN \E k \in 1 .. Len(Listing) + 1 : Grown(Listing', Listing, k, r)
      ELSE Listing' = Listing
  BY <1>1, <1>2, <1>3, ListedGrows
<1>6. CASE Listing' = Listing
  BY <1>4, <1>6 DEF GainsOne
<1>7. CASE \E k \in 1 .. Len(Listing) + 1 : Grown(Listing', Listing, k, r)
  <2>1. PICK k \in 1 .. Len(Listing) + 1 : Grown(Listing', Listing, k, r)
    BY <1>7
  <2>2. /\ Within(Listing', n) \subseteq Within(Listing, n) \cup {r.id}
        /\ GainsOne(Beyond(Listing', n), Beyond(Listing, n))
    <3>1. r \in S
      BY <1>1
    <3>2. QED
      BY ONLY <1>4, <2>1, <3>1, n \in Nat, GrownWithin
  <2>3. Ids(Listing') = Ids(Listing) \cup {r.id}
    BY <1>4, <2>1, GrownIds
  <2>4. Len(Listing') = Len(Listing) + 1 /\ Len(Listing) \in Nat
    BY <1>4, <2>1 DEF Grown
  <2>5. QED
    BY <1>1, <2>2, <2>3, <2>4
<1>8. QED
  BY <1>5, <1>6, <1>7

\* A row that leaves moves at most one row of the listing over the end of a page.
LEMMA LeavesListing ==
    ASSUME PagesFit, RowLeaves, NEW n \in Nat
    PROVE  /\ GainsOne(Within(Listing', n), Within(Listing, n))
           /\ Beyond(Listing', n) \subseteq Beyond(Listing, n)
           /\ Len(Listing) \in Nat /\ Len(Listing') \in Nat
           /\ Listing' = Listing \/ Len(Listing') + 1 = Len(Listing)
           /\ history.stayed \subseteq Ids(Listing) => history'.stayed \subseteq Ids(Listing')
           /\ history'.stayed \subseteq history.stayed
<1> DEFINE S == Row(query.endpoint)
<1>1. PICK i \in DOMAIN table :
          /\ history' = [history EXCEPT !.removed = history.removed + 1,
                                        !.stayed = history.stayed \ {table[i].id}]
          /\ table' \in Seq(S) /\ i \in 1 .. Len(table') + 1
          /\ Grown(table, table', i, table[i])
  BY RowLeavesDoes
<1>2. UNCHANGED <<private, following, query>> /\ table \in Seq(S) /\ table[i] \in S
      /\ history \in History
  <2>1. table \in Seq(S) /\ history \in History
    BY DEF PagesFit
  <2>2. table[i] \in S
    BY <1>1, <2>1
  <2>3. QED
    BY <2>1, <2>2, RowLeavesDoes
<1>3. Listing = Listed(table) /\ Listing' = Listed(table')
  BY <1>2, ListingIs
<1>4. history'.stayed = history.stayed \ {table[i].id}
  BY <1>1, <1>2 DEF History
<1> HIDE DEF S
<1>5. Listing \in Seq(S) /\ Listing' \in Seq(S)
  BY <1>1, <1>2, <1>3, ListedIs
<1>6. IF Selected(query, PageScope, table[i])
      THEN \E k \in 1 .. Len(Listing') + 1 : Grown(Listing, Listing', k, table[i])
      ELSE Listing' = Listing
  BY <1>1, <1>2, <1>3, ListedGrows
<1>7. CASE Listing' = Listing
  BY <1>4, <1>5, <1>7 DEF GainsOne
<1>8. CASE \E k \in 1 .. Len(Listing') + 1 : Grown(Listing, Listing', k, table[i])
  <2>1. PICK k \in 1 .. Len(Listing') + 1 : Grown(Listing, Listing', k, table[i])
    BY <1>8
  <2>2. /\ Within(Listing', n) \subseteq Within(Listing, n) \cup {Listing'[n].id}
        /\ Beyond(Listing', n) \subseteq Beyond(Listing, n)
    BY <1>2, <1>5, <2>1, GrownWithin
  <2>3. Ids(Listing) = Ids(Listing') \cup {table[i].id}
    BY <1>2, <1>5, <2>1, GrownIds
  <2>4. Len(Listing) = Len(Listing') + 1 /\ Len(Listing) \in Nat /\ Len(Listing') \in Nat
    BY <1>5, <2>1 DEF Grown
  <2>5. QED
    BY <1>4, <2>2, <2>3, <2>4 DEF GainsOne
<1>9. QED
  BY <1>6, <1>7, <1>8

\* A row that moves takes at most one row with it over the end of a page, each way.
LEMMA MovesListing ==
    ASSUME PagesFit, RowMoves, NEW n \in Nat
    PROVE  /\ GainsOne(Within(Listing', n), Within(Listing, n))
           /\ GainsOne(Beyond(Listing', n), Beyond(Listing, n))
           /\ Len(Listing) \in Nat /\ Len(Listing') = Len(Listing) /\ Ids(Listing') = Ids(Listing)
<1> DEFINE S == Row(query.endpoint)
<1>1. PICK rest \in Seq(S), i \in DOMAIN table, j \in Nat, d \in S :
          /\ j \in 1 .. Len(rest) + 1 /\ i \in 1 .. Len(rest) + 1
          /\ Grown(table, rest, i, table[i])
          /\ Grown(table', rest, j, d) /\ d.id = table[i].id
          /\ \A q, scope : Selected(query, scope, d) <=> Selected(query, scope, table[i])
  BY RowMovesDoes
<1>2. UNCHANGED <<private, following, query>> /\ table \in Seq(S) /\ table[i] \in S
      /\ table' \in Seq(S)
  BY RowMovesDoes DEF PagesFit
<1>3. Listing = Listed(table) /\ Listing' = Listed(table')
  BY <1>2, ListingIs
<1> DEFINE R == Listed(rest)
<1> HIDE DEF S
<1>4. Listing \in Seq(S) /\ Listing' \in Seq(S) /\ R \in Seq(S)
  BY <1>1, <1>2, <1>3, ListedIs
<1>5. IF Selected(query, PageScope, table[i])
      THEN \E k \in 1 .. Len(R) + 1 : Grown(Listing, R, k, table[i])
      ELSE Listing = R
  BY <1>1, <1>2, <1>3, ListedGrows
<1>6. IF Selected(query, PageScope, d)
      THEN \E k \in 1 .. Len(R) + 1 : Grown(Listing', R, k, d)
      ELSE Listing' = R
  BY <1>1, <1>2, <1>3, ListedGrows
<1>a. Selected(query, PageScope, d) <=> Selected(query, PageScope, table[i])
  BY <1>1
<1> HIDE DEF R
<1>7. CASE ~Selected(query, PageScope, d)
  <2>1. Listing' = Listing
    BY <1>5, <1>6, <1>7, <1>a
  <2>2. QED
    BY <1>4, <2>1 DEF GainsOne
<1>8. CASE Selected(query, PageScope, d)
  <2>1. PICK k \in 1 .. Len(R) + 1 : Grown(Listing, R, k, table[i])
    BY <1>5, <1>8, <1>a
  <2>2. PICK l \in 1 .. Len(R) + 1 : Grown(Listing', R, l, d)
    BY <1>6, <1>8
  <2>3. /\ GainsOne(Within(Listing', n), Within(Listing, n))
        /\ GainsOne(Beyond(Listing', n), Beyond(Listing, n))
    <3> DEFINE A == Listing
               B == Listing'
               e == table[i]
    <3>1. A \in Seq(S) /\ R \in Seq(S) /\ B \in Seq(S) /\ e \in S /\ d \in S
          /\ k \in 1 .. Len(R) + 1 /\ Grown(A, R, k, e)
          /\ l \in 1 .. Len(R) + 1 /\ Grown(B, R, l, d) /\ n \in Nat
      BY <1>1, <1>2, <1>4, <2>1, <2>2
    <3> HIDE DEF A, B, e
    <3>2. /\ GainsOne(Within(B, n), Within(A, n))
          /\ GainsOne(Beyond(B, n), Beyond(A, n))
      BY ONLY <3>1, MovedWithin
    <3>3. QED
      BY <3>2 DEF A, B
  <2>4. Ids(Listing) = Ids(R) \cup {table[i].id} /\ Ids(Listing') = Ids(R) \cup {d.id}
    BY <1>1, <1>2, <1>4, <2>1, <2>2, GrownIds
  <2>5. Len(Listing) = Len(R) + 1 /\ Len(Listing') = Len(R) + 1 /\ Len(R) \in Nat
    BY <1>4, <2>1, <2>2 DEF Grown
  <2>6. Len(Listing) \in Nat /\ Len(Listing') = Len(Listing) /\ Ids(Listing') = Ids(Listing)
    <3>1. d.id = table[i].id
      BY <1>1
    <3>2. QED
      BY <2>4, <2>5, <3>1
  <2>7. QED
    BY <2>3, <2>6
<1>9. QED
  BY <1>7, <1>8

\* Rows that have ids of their own are as many as their ids.
LEMMA DistinctSize ==
    ASSUME NEW S, NEW s \in Seq(S), Distinct(s)
    PROVE  IsFiniteSet(Ids(s)) /\ Cardinality(Ids(s)) = Len(s)
<1> DEFINE f == [i \in 1 .. Len(s) |-> s[i].id]
<1>1. Len(s) \in Nat /\ DOMAIN s = 1 .. Len(s)
  OBVIOUS
<1>2. IsFiniteSet(1 .. Len(s)) /\ Cardinality(1 .. Len(s)) = Len(s)
  BY <1>1, FS_Interval
<1>3. Ids(s) = {s[i].id : i \in 1 .. Len(s)}
  BY <1>1 DEF Ids
<1>4. f \in Surjection(1 .. Len(s), Ids(s))
  BY <1>3 DEF Surjection
<1>5. f \in Injection(1 .. Len(s), Ids(s))
  BY <1>1, <1>3 DEF Injection, IsInjective, Distinct
<1>6. QED
  BY <1>2, <1>4, <1>5, FS_Surjection

\* Beyond a position are no more rows than there are positions.
LEMMA BeyondSize ==
    ASSUME NEW S, NEW s \in Seq(S), NEW n \in Nat
    PROVE  /\ IsFiniteSet(Beyond(s, n)) /\ Cardinality(Beyond(s, n)) \in Nat
           /\ IF Len(s) <= n THEN Beyond(s, n) = {} ELSE Cardinality(Beyond(s, n)) <= Len(s) - n
           /\ Ids(s) = Within(s, n) \cup Beyond(s, n)
           /\ Distinct(s) => Within(s, n) \cap Beyond(s, n) = {}
<1>1. Len(s) \in Nat /\ DOMAIN s = 1 .. Len(s)
  OBVIOUS
<1> DEFINE T == n + 1 .. Len(s)
           f == [i \in T |-> s[i].id]
<1>2. Beyond(s, n) = {s[i].id : i \in T}
  <2>1. {k \in DOMAIN s : k > n} = T
    BY <1>1
  <2>2. QED
    BY <2>1 DEF Beyond
<1>3. IsFiniteSet(T) /\ Cardinality(T) = IF Len(s) <= n THEN 0 ELSE Len(s) - n
  <2>1. IsFiniteSet(T) /\ Cardinality(T) = IF n + 1 > Len(s) THEN 0 ELSE Len(s) - (n + 1) + 1
    <3>1. n + 1 \in Int /\ Len(s) \in Int
      BY <1>1
    <3>2. QED
      BY ONLY <3>1, FS_Interval
  <2>2. QED
    BY <1>1, <2>1
<1>4. f \in Surjection(T, Beyond(s, n))
  BY <1>2 DEF Surjection
<1>5. IsFiniteSet(Beyond(s, n)) /\ Cardinality(Beyond(s, n)) <= Cardinality(T)
  BY <1>3, <1>4, FS_Surjection
<1>6. Cardinality(Beyond(s, n)) \in Nat
  BY <1>5, FS_CardinalityType
<1>7. Len(s) <= n => Beyond(s, n) = {}
  BY <1>1 DEF Beyond
<1>8. Ids(s) = Within(s, n) \cup Beyond(s, n)
  BY <1>1 DEF Ids, Within, Beyond
<1>9. Distinct(s) => Within(s, n) \cap Beyond(s, n) = {}
  BY <1>1 DEF Distinct, Within, Beyond
<1>10. QED
  BY <1>3, <1>5, <1>6, <1>7, <1>8, <1>9

\* The sets of ids are finite.
AllFinite ==
    /\ IsFiniteSet(Seen) /\ IsFiniteSet(history.stayed) /\ IsFiniteSet(Missed) /\ IsFiniteSet(Again)
    /\ Cardinality(Seen) \in Nat /\ Cardinality(Missed) \in Nat /\ Cardinality(Again) \in Nat
    /\ Cardinality(history.stayed \ Seen) \in Nat
    /\ history.inserted \in Nat /\ history.moved \in Nat
    /\ Disturbed \in Nat /\ Sent \in Nat /\ Passed \in Nat /\ walk.page * limit \in Nat
    /\ Listing \in Seq(Row(query.endpoint)) /\ Distinct(Listing) /\ Len(Listing) \in Nat
    /\ walk.page * limit = (walk.page - 1) * limit + limit /\ (walk.page - 1) * limit \in Nat

\* All sets of ids are finite.
LEMMA FiniteIds == PagesFit => AllFinite
<1> SUFFICES ASSUME PagesFit PROVE AllFinite
  OBVIOUS
<1>1. history.ids \in Nat
  BY FitTypes
<1>2. IsFiniteSet(1 .. history.ids)
  BY <1>1, FS_Interval
<1>3. Seen \subseteq 1 .. history.ids /\ history.stayed \subseteq 1 .. history.ids
  BY DEF PagesFit, Seen
<1>4. Missed \subseteq history.stayed /\ Again \subseteq Seen /\ history.stayed \ Seen \subseteq history.stayed
  BY DEF Missed, Again
<1>5. IsFiniteSet(Seen) /\ IsFiniteSet(history.stayed)
  BY <1>2, <1>3, FS_Subset
<1>6. IsFiniteSet(Missed) /\ IsFiniteSet(Again) /\ IsFiniteSet(history.stayed \ Seen)
  BY <1>4, <1>5, FS_Subset
<1>7. Listing \in Seq(Row(query.endpoint)) /\ Distinct(Listing)
  BY MatchingIs DEF Listing, Distinct
<1>8. Disturbed \in Nat
  <2>1. history.removed \in Nat /\ history.moved \in Nat /\ history.split \in Nat
    BY FitTypes
  <2>2. QED
    BY <2>1 DEF Disturbed
<1>9. Sent \in Nat
  <2>1. walk.shown \in Seq(Nat) /\ walk.data \in Seq(Row(query.endpoint))
    BY FitTypes
  <2>2. Len(walk.shown) \in Nat /\ Len(walk.data) \in Nat
    BY <2>1
  <2> DEFINE a == Len(walk.shown)
             b == Len(walk.data)
  <2>3. a + b \in Nat
    <3>1. a \in Nat /\ b \in Nat
      BY <2>2
    <3> HIDE DEF a, b
    <3>2. QED
      BY <3>1
  <2>4. QED
    BY <2>2, <2>3 DEF Sent
<1>10. Passed \in Nat /\ walk.page * limit \in Nat
       /\ walk.page * limit = (walk.page - 1) * limit + limit /\ (walk.page - 1) * limit \in Nat
  <2>1. walk.page \in Nat \ {0} /\ limit \in Nat \ {0}
    BY FitTypes
  <2>2. QED
    BY <2>1 DEF Passed
<1>11. history.inserted \in Nat /\ history.moved \in Nat /\ Len(Listing) \in Nat
  BY <1>7, FitTypes
<1>12. QED
  BY <1>5, <1>6, <1>7, <1>8, <1>9, <1>10, <1>11, FS_CardinalityType DEF AllFinite

\* All sets of ids stay finite.
LEMMA FiniteIdsNext == PagesFit' => AllFinite'
BY FiniteIds, PTL

\* The same of the pages read so far.
WalkStays ==
    /\ Passed' = Passed /\ Seen' = Seen /\ Sent' = Sent /\ Found' = Found /\ walk'.step = walk.step
    /\ walk'.read = walk.read /\ (LastPage' <=> LastPage) /\ walk'.page = walk.page
    /\ limit' = limit

\* Who changes rows leaves the walk where it was.
LEMMA UnchangedWalk ==
    ASSUME UNCHANGED <<limit, walk>>
    PROVE  WalkStays
BY DEF WalkStays, Passed, Seen, Sent, Found, LastPage, Ids, ToSet

\* Each change accounts for what it does to the listing.
LEMMA ChangeKeepsWalk ==
    ASSUME PagesFit, PagesFit', WalkFits, WalkStays,
           history'.others = history.others,
           history'.stayed \subseteq history.stayed,
           history.stayed \subseteq Ids(Listing) => history'.stayed \subseteq Ids(Listing'),
           Disturbed' >= Disturbed,
           Cardinality(Missed') <= Cardinality(Missed) + (Disturbed' - Disturbed),
           walk.step = "reading" /\ walk.read = {"count"} =>
               Cardinality(Missed') + Len(Listing') <=
                   Cardinality(Missed) + Len(Listing) + (Disturbed' - Disturbed),
           Cardinality(Again') + history.inserted + history.moved <=
               Cardinality(Again) + history'.inserted + history'.moved
    PROVE  WalkFits'
<1> SUFFICES ASSUME history.others = 0 PROVE WalkFits'
  BY DEF WalkFits
<1>1. /\ history.inserted \in Nat /\ history'.inserted \in Nat
      /\ history.moved \in Nat /\ history'.moved \in Nat
      /\ Disturbed \in Nat /\ Disturbed' \in Nat
      /\ Cardinality(Missed) \in Nat /\ Cardinality(Missed') \in Nat
      /\ Cardinality(Again) \in Nat /\ Cardinality(Again') \in Nat
      /\ Len(Listing) \in Nat /\ Len(Listing') \in Nat
      /\ Cardinality(Seen) \in Nat /\ Sent \in Nat
      /\ walk.page * limit \in Nat
  BY FiniteIds, FiniteIdsNext DEF AllFinite
<1>2. /\ walk'.step = walk.step /\ walk'.read = walk.read /\ (Found' <=> Found)
      /\ (LastPage' <=> LastPage) /\ walk'.page * limit' = walk.page * limit
      /\ Sent' = Sent /\ Seen' = Seen
  BY DEF WalkStays
<1>3. history'.stayed \subseteq Ids(Listing')
  BY DEF WalkFits
<1>4. Cardinality(Missed') <= Disturbed'
  BY <1>1, SMTT(30) DEF WalkFits
<1>5. walk.step = "reading" /\ walk.read = {"count"} /\ LastPage =>
          Cardinality(Missed') + Len(Listing') <= Disturbed' + walk.page * limit
  <2> SUFFICES ASSUME walk.step = "reading" /\ walk.read = {"count"} /\ LastPage
               PROVE  Cardinality(Missed') + Len(Listing') <= Disturbed' + walk.page * limit
    OBVIOUS
  <2> DEFINE m == Cardinality(Missed)
             mm == Cardinality(Missed')
             n == Len(Listing)
             nn == Len(Listing')
             all == walk.page * limit
             d == Disturbed
             dd == Disturbed'
  <2>1. m + n <= d + all /\ mm + nn <= m + n + (dd - d)
    BY DEF WalkFits
  <2>2. m \in Int /\ mm \in Int /\ n \in Int /\ nn \in Int /\ all \in Int /\ d \in Int /\ dd \in Int
    BY <1>1, SMTT(30)
  <2> HIDE DEF m, mm, n, nn, all, d, dd
  <2>3. mm + nn <= dd + all
    BY ONLY <2>1, <2>2
  <2>4. QED
    BY <2>3 DEF mm, nn, all, dd
<1>6. walk.step = "done" \/ (Found /\ "count" \in walk.read /\ LastPage) =>
          Cardinality(history'.stayed \ Seen') <= Disturbed'
  <2> SUFFICES ASSUME walk.step = "done" \/ (Found /\ "count" \in walk.read /\ LastPage)
               PROVE  Cardinality(history'.stayed \ Seen') <= Disturbed'
    OBVIOUS
  <2>1. Cardinality(history.stayed \ Seen) <= Disturbed
    BY DEF WalkFits
  <2>2. IsFiniteSet(history.stayed \ Seen)
    BY FiniteIds, FS_Difference DEF AllFinite
  <2>3. history'.stayed \ Seen' \subseteq history.stayed \ Seen
    BY <1>2
  <2> DEFINE m == Cardinality(history.stayed \ Seen)
             n == Cardinality(history'.stayed \ Seen')
  <2>4. m \in Nat /\ n \in Nat /\ n <= m /\ m <= Disturbed
    BY <2>1, <2>2, <2>3, NoMore
  <2> HIDE DEF m, n
  <2>5. n <= Disturbed'
    BY <1>1, <2>4
  <2>6. QED
    BY <2>5 DEF n
<1>7. Sent' + Cardinality(Again') <= Cardinality(Seen') + history'.inserted + history'.moved
  <2>1. Sent + Cardinality(Again) <= Cardinality(Seen) + history.inserted + history.moved
    BY DEF WalkFits
  <2> DEFINE a == Cardinality(Again)
             b == Cardinality(Again')
             c == Cardinality(Seen)
             i == history.inserted
             ii == history'.inserted
             m == history.moved
             mm == history'.moved
             s == Sent
  <2>c. a \in Nat /\ b \in Nat /\ c \in Nat
    BY ONLY <1>1
  <2>d. i \in Nat /\ ii \in Nat /\ m \in Nat /\ mm \in Nat /\ s \in Nat
    BY ONLY <1>1
  <2>3. s + a <= c + i + m
    BY <2>1
  <2>a. b + i + m <= a + ii + mm
    OBVIOUS
  <2> HIDE DEF a, b, c, i, ii, m, mm, s
  <2>b. s + b <= c + ii + mm
    BY ONLY <2>c, <2>d, <2>3, <2>a
  <2>4. QED
    BY <1>2, <2>b DEF b, c, ii, mm, s
<1>8. QED
  BY <1>2, <1>3, <1>4, <1>5, <1>6, <1>7 DEF WalkFits

\* A row that comes pushes at most one row over the end of a page: it may be sent again.
LEMMA RowCreatedKeepsWalk ==
    ASSUME PagesFit, WalkFits, RowCreated
    PROVE  WalkFits'
<1>1. /\ UNCHANGED <<private, following, query, limit, walk>>
      /\ history' = [history EXCEPT !.ids = history.ids + 1, !.inserted = history.inserted + 1,
                                    !.split = IF HalfRead THEN history.split + 1
                                              ELSE history.split]
  BY RowCreatedDoes
<1>2. PagesFit' /\ WalkStays
  BY <1>1, RowCreatedKeepsFit, UnchangedWalk
<1>3. history \in History /\ history.stayed \subseteq 1 .. history.ids /\ history.ids \in Nat
      /\ history.inserted \in Nat /\ history.removed \in Nat /\ history.moved \in Nat
      /\ history.split \in Nat
  BY FitTypes DEF PagesFit
<1>4. /\ history'.inserted = history.inserted + 1 /\ history'.moved = history.moved
      /\ history'.removed = history.removed /\ history'.others = history.others
      /\ history'.stayed = history.stayed
      /\ history'.split = (IF HalfRead THEN history.split + 1 ELSE history.split)
  BY <1>1, <1>3 DEF History
<1>5. AllFinite /\ AllFinite'
  BY <1>2, FiniteIds, FiniteIdsNext
<1>6. Disturbed' = (IF HalfRead THEN Disturbed + 1 ELSE Disturbed) /\ Disturbed \in Nat
  BY <1>3, <1>4 DEF Disturbed
<1>7. /\ Within(Listing', Passed) \subseteq Within(Listing, Passed) \cup {history.ids + 1}
      /\ GainsOne(Beyond(Listing', Passed), Beyond(Listing, Passed))
      /\ Len(Listing) \in Nat /\ Len(Listing') \in Nat /\ Len(Listing') <= Len(Listing) + 1
      /\ Ids(Listing) \subseteq Ids(Listing')
  BY <1>5, CreatedListing DEF AllFinite
<1>8. Missed' \subseteq Missed
  <2>1. Missed' = (history.stayed \cap Within(Listing', Passed)) \ Seen
    BY <1>2, <1>4 DEF Missed, WalkStays
  <2>2. history.ids + 1 \notin history.stayed
    BY <1>3
  <2>3. QED
    BY <1>7, <2>1, <2>2 DEF Missed
<1>9. GainsOne(Again', Again)
  <2>1. Again' = Beyond(Listing', Passed) \cap Seen
    BY <1>2 DEF Again, WalkStays
  <2>2. QED
    BY <1>7, <2>1 DEF Again, GainsOne
<1>10. Cardinality(Missed') <= Cardinality(Missed) /\ Cardinality(Missed') \in Nat
       /\ Cardinality(Missed) \in Nat
  BY <1>5, <1>8, NoMore DEF AllFinite
<1>11. Cardinality(Again') <= Cardinality(Again) + 1 /\ Cardinality(Again') \in Nat
       /\ Cardinality(Again) \in Nat
  BY <1>5, <1>9, AtMostOneMore DEF AllFinite
<1>12. walk.step = "reading" /\ walk.read = {"count"} => HalfRead
  BY FS_Singleton DEF HalfRead
<1>13. Cardinality(Missed') <= Cardinality(Missed) + (Disturbed' - Disturbed) /\ Disturbed' >= Disturbed
  BY <1>6, <1>10
<1>14. walk.step = "reading" /\ walk.read = {"count"} =>
           Cardinality(Missed') + Len(Listing') <=
               Cardinality(Missed) + Len(Listing) + (Disturbed' - Disturbed)
  <2> DEFINE m == Cardinality(Missed)
             mm == Cardinality(Missed')
             n == Len(Listing)
             nn == Len(Listing')
             d == Disturbed
             dd == Disturbed'
  <2>1. HalfRead => dd = d + 1
    BY <1>6
  <2>2. m \in Nat /\ mm \in Nat /\ n \in Nat /\ nn \in Nat /\ d \in Nat /\ mm <= m /\ nn <= n + 1
    BY <1>6, <1>7, <1>10
  <2> HIDE DEF m, mm, n, nn, d, dd
  <2>3. HalfRead => mm + nn <= m + n + (dd - d)
    BY ONLY <2>1, <2>2
  <2>4. QED
    BY <1>12, <2>3 DEF m, mm, n, nn, d, dd
<1>15. Cardinality(Again') + history.inserted + history.moved <=
           Cardinality(Again) + history'.inserted + history'.moved
  BY <1>3, <1>4, <1>11
<1>16. QED
  BY <1>2, <1>4, <1>7, <1>13, <1>14, <1>15, ChangeKeepsWalk

\* A row that leaves pulls at most one row over the end of a page: it may be missed.
LEMMA RowLeavesKeepsWalk ==
    ASSUME PagesFit, WalkFits, RowLeaves
    PROVE  WalkFits'
<1>1. PICK i \in DOMAIN table :
          history' = [history EXCEPT !.removed = history.removed + 1,
                                     !.stayed = history.stayed \ {table[i].id}]
  BY RowLeavesDoes
<1>2. PagesFit' /\ WalkStays
  BY RowLeavesDoes, RowLeavesKeepsFit, UnchangedWalk
<1>3. history \in History
      /\ history.inserted \in Nat /\ history.removed \in Nat /\ history.moved \in Nat
      /\ history.split \in Nat
  BY FitTypes DEF PagesFit
<1>4. /\ history'.inserted = history.inserted /\ history'.moved = history.moved
      /\ history'.removed = history.removed + 1 /\ history'.others = history.others
      /\ history'.split = history.split
  BY <1>1, <1>3 DEF History
<1>5. AllFinite /\ AllFinite'
  BY <1>2, FiniteIds, FiniteIdsNext
<1>6. Disturbed' = Disturbed + 1 /\ Disturbed \in Nat
  BY <1>3, <1>4 DEF Disturbed
<1>7. /\ GainsOne(Within(Listing', Passed), Within(Listing, Passed))
      /\ Beyond(Listing', Passed) \subseteq Beyond(Listing, Passed)
      /\ Len(Listing) \in Nat /\ Len(Listing') \in Nat
      /\ Listing' = Listing \/ Len(Listing') + 1 = Len(Listing)
      /\ history.stayed \subseteq Ids(Listing) => history'.stayed \subseteq Ids(Listing')
      /\ history'.stayed \subseteq history.stayed
  BY <1>5, LeavesListing DEF AllFinite
<1>8. GainsOne(Missed', Missed)
  <2>1. Missed' = (history'.stayed \cap Within(Listing', Passed)) \ Seen
    BY <1>2 DEF Missed, WalkStays
  <2>2. QED
    BY <1>7, <2>1 DEF Missed, GainsOne
<1>9. Again' \subseteq Again
  <2>1. Again' = Beyond(Listing', Passed) \cap Seen
    BY <1>2 DEF Again, WalkStays
  <2>2. QED
    BY <1>7, <2>1 DEF Again
<1>10. Cardinality(Missed') <= Cardinality(Missed) + 1 /\ Cardinality(Missed') \in Nat
       /\ Cardinality(Missed) \in Nat
  BY <1>5, <1>8, AtMostOneMore DEF AllFinite
<1>11. Cardinality(Again') <= Cardinality(Again) /\ Cardinality(Again') \in Nat
       /\ Cardinality(Again) \in Nat
  BY <1>5, <1>9, NoMore DEF AllFinite
<1>13. Cardinality(Missed') <= Cardinality(Missed) + (Disturbed' - Disturbed) /\ Disturbed' >= Disturbed
  BY <1>6, <1>10
<1>14. Cardinality(Missed') + Len(Listing') <=
               Cardinality(Missed) + Len(Listing) + (Disturbed' - Disturbed)
  <2> DEFINE m == Cardinality(Missed)
             mm == Cardinality(Missed')
             n == Len(Listing)
             nn == Len(Listing')
             d == Disturbed
             dd == Disturbed'
  <2>1. dd = d + 1
    BY <1>6
  <2>2. m \in Nat /\ mm \in Nat /\ n \in Nat /\ nn \in Nat /\ d \in Nat /\ mm <= m + 1
    BY <1>6, <1>7, <1>10
  <2>3. nn <= n
    <3>1. CASE Listing' = Listing
      BY <1>7, <3>1
    <3>2. CASE Len(Listing') + 1 = Len(Listing)
      BY <2>2, <3>2
    <3>3. QED
      BY <1>7, <3>1, <3>2
  <2> HIDE DEF m, mm, n, nn, d, dd
  <2>4. mm + nn <= m + n + (dd - d)
    BY ONLY <2>1, <2>2, <2>3
  <2>5. QED
    BY <2>4 DEF m, mm, n, nn, d, dd
<1>15. Cardinality(Again') + history.inserted + history.moved <=
           Cardinality(Again) + history'.inserted + history'.moved
  BY <1>3, <1>4, <1>11
<1>16. QED
  BY <1>2, <1>4, <1>7, <1>13, <1>14, <1>15, ChangeKeepsWalk

\* A row that moves may be missed or sent again, or have another be.
LEMMA RowMovesKeepsWalk ==
    ASSUME PagesFit, WalkFits, RowMoves
    PROVE  WalkFits'
<1>1. history' = [history EXCEPT !.moved = history.moved + 1]
  BY RowMovesDoes
<1>2. PagesFit' /\ WalkStays
  BY RowMovesDoes, RowMovesKeepsFit, UnchangedWalk
<1>3. history \in History
      /\ history.inserted \in Nat /\ history.removed \in Nat /\ history.moved \in Nat
      /\ history.split \in Nat
  BY FitTypes DEF PagesFit
<1>4. /\ history'.inserted = history.inserted /\ history'.moved = history.moved + 1
      /\ history'.removed = history.removed /\ history'.others = history.others
      /\ history'.split = history.split /\ history'.stayed = history.stayed
  BY <1>1, <1>3 DEF History
<1>5. AllFinite /\ AllFinite'
  BY <1>2, FiniteIds, FiniteIdsNext
<1>6. Disturbed' = Disturbed + 1 /\ Disturbed \in Nat
  BY <1>3, <1>4 DEF Disturbed
<1>7. /\ GainsOne(Within(Listing', Passed), Within(Listing, Passed))
      /\ GainsOne(Beyond(Listing', Passed), Beyond(Listing, Passed))
      /\ Len(Listing) \in Nat /\ Len(Listing') = Len(Listing) /\ Ids(Listing') = Ids(Listing)
  BY <1>5, MovesListing DEF AllFinite
<1>8. GainsOne(Missed', Missed)
  <2>1. Missed' = (history.stayed \cap Within(Listing', Passed)) \ Seen
    BY <1>2, <1>4 DEF Missed, WalkStays
  <2>2. QED
    BY <1>7, <2>1 DEF Missed, GainsOne
<1>9. GainsOne(Again', Again)
  <2>1. Again' = Beyond(Listing', Passed) \cap Seen
    BY <1>2 DEF Again, WalkStays
  <2>2. QED
    BY <1>7, <2>1 DEF Again, GainsOne
<1>10. Cardinality(Missed') <= Cardinality(Missed) + 1 /\ Cardinality(Missed') \in Nat
       /\ Cardinality(Missed) \in Nat
  BY <1>5, <1>8, AtMostOneMore DEF AllFinite
<1>11. Cardinality(Again') <= Cardinality(Again) + 1 /\ Cardinality(Again') \in Nat
       /\ Cardinality(Again) \in Nat
  BY <1>5, <1>9, AtMostOneMore DEF AllFinite
<1>13. Cardinality(Missed') <= Cardinality(Missed) + (Disturbed' - Disturbed) /\ Disturbed' >= Disturbed
  BY <1>6, <1>10
<1>14. Cardinality(Missed') + Len(Listing') <=
               Cardinality(Missed) + Len(Listing) + (Disturbed' - Disturbed)
  <2> DEFINE m == Cardinality(Missed)
             mm == Cardinality(Missed')
             n == Len(Listing)
             d == Disturbed
             dd == Disturbed'
  <2>1. dd = d + 1
    BY <1>6
  <2>2. m \in Nat /\ mm \in Nat /\ n \in Nat /\ d \in Nat /\ mm <= m + 1
    BY <1>6, <1>7, <1>10
  <2> HIDE DEF m, mm, n, d, dd
  <2>4. mm + n <= m + n + (dd - d)
    BY ONLY <2>1, <2>2
  <2>5. QED
    BY <1>7, <2>4 DEF m, mm, n, d, dd
<1>15. Cardinality(Again') + history.inserted + history.moved <=
           Cardinality(Again) + history'.inserted + history'.moved
  BY <1>3, <1>4, <1>11
<1>16. QED
  BY <1>2, <1>4, <1>7, <1>13, <1>14, <1>15, ChangeKeepsWalk

\* After profiles or follows have changed nothing is promised.
LEMMA OthersKeepWalk ==
    ASSUME history'.others # 0
    PROVE  WalkFits'
BY DEF WalkFits

\* A step of the walk that reads no rows leaves what is missed and repeated.
LEMMA WalkStands ==
    ASSUME WalkFits, UNCHANGED <<table, private, following, query>>,
           Passed' = Passed, Seen' = Seen, Sent' = Sent,
           history'.others = history.others, history'.stayed = history.stayed,
           history'.removed = history.removed, history'.moved = history.moved,
           history'.split = history.split, history'.inserted = history.inserted,
           history.others = 0 =>
               /\ walk'.step = "reading" /\ walk'.read = {"count"} /\ LastPage' =>
                      Cardinality(Missed) + Len(Listing) <= Disturbed + (walk.page * limit)'
               /\ walk'.step = "done" \/ (Found' /\ "count" \in walk'.read /\ LastPage') =>
                      Cardinality(history.stayed \ Seen) <= Disturbed
    PROVE  WalkFits' /\ Missed' = Missed /\ Listing' = Listing
<1>1. Listing' = Listing
  BY ListingIs
<1>2. Missed' = Missed /\ Again' = Again
  BY <1>1 DEF Missed, Again
<1>3. Disturbed' = Disturbed
  BY DEF Disturbed
<1>4. Ids(Listing') = Ids(Listing)
  BY <1>1
<1>5. QED
  BY <1>1, <1>2, <1>3, <1>4 DEF WalkFits

\* A request moves no page.
LEMMA PageRequestKeepsWalk ==
    ASSUME PagesFit, WalkFits, PageRequest
    PROVE  WalkFits'
<1> DEFINE step == IF Admitted(query) THEN "reading" ELSE "refused"
<1>1. /\ walk' = [walk EXCEPT !.step = step, !.scope = PageScope, !.read = {}, !.data = <<>>]
      /\ history' = [history EXCEPT !.touched = "no"]
      /\ UNCHANGED <<table, private, following, query, limit>> /\ walk.step = "request"
  BY DEF PageRequest
<1>2. walk \in Walk /\ history \in History /\ Ids(walk.data) \subseteq ToSet(walk.shown)
  BY <1>1 DEF PagesFit
<1>a. step \in {"reading", "refused"}
  OBVIOUS
<1> HIDE DEF step
<1>3. /\ walk'.step \in {"reading", "refused"} /\ walk'.read = {} /\ walk'.data = <<>>
      /\ walk'.shown = walk.shown /\ walk'.page = walk.page
  BY <1>1, <1>2, <1>a DEF Walk
<1>4. /\ history'.inserted = history.inserted /\ history'.moved = history.moved
      /\ history'.removed = history.removed /\ history'.others = history.others
      /\ history'.split = history.split /\ history'.stayed = history.stayed
  BY <1>1, <1>2 DEF History
<1>5. ~Found /\ ~Found'
  BY <1>1, <1>3 DEF Found
<1>6. Passed' = Passed
  BY <1>1, <1>3, <1>5 DEF Passed
<1>7. Seen' = Seen
  <2>1. Ids(walk.data)' = {}
    BY <1>3 DEF Ids
  <2>2. QED
    BY <1>2, <1>3, <2>1 DEF Seen
<1>8. Sent' = Sent
  <2>1. Len(walk.shown) \in Nat
    BY FitTypes
  <2>2. QED
    BY <1>1, <1>3, <2>1 DEF Sent
<1>9. QED
  BY <1>1, <1>3, <1>4, <1>5, <1>6, <1>7, <1>8, WalkStands

\* A count that ends the walk counts what the listing has.
LEMMA CountRowsKeepsWalk ==
    ASSUME PagesFit, ScopeStands, WalkFits, CountRows
    PROVE  WalkFits'
<1> DEFINE W == {i \in DOMAIN table : Counted(query, walk.scope, table[i])}
<1>1. /\ walk' = [walk EXCEPT !.read = walk.read \cup {"count"}, !.total = Cardinality(W)]
      /\ UNCHANGED <<table, private, following, query, limit, history>>
      /\ walk.step = "reading" /\ "count" \notin walk.read
  BY DEF CountRows
<1>2. walk \in Walk /\ table \in Seq(Row(query.endpoint))
  BY DEF PagesFit
<1>3. IsFiniteSet(W)
  <2>1. DOMAIN table = 1 .. Len(table) /\ Len(table) \in Nat
    BY <1>2
  <2>2. IsFiniteSet(DOMAIN table)
    BY <2>1, FS_Interval
  <2>3. QED
    BY <2>2, FS_Subset
<1>4. history.others = 0 => Positions(query, PageScope) \subseteq W
  <2>1. history.others = 0 => walk.scope = PageScope
    BY <1>1 DEF ScopeStands
  <2>2. ASSUME NEW r, Selected(query, PageScope, r) PROVE Counted(query, PageScope, r)
    BY <2>2 DEF Counted, Selected, FindByPost
  <2>3. QED
    BY <2>1, <2>2 DEF Positions
<1> HIDE DEF W
<1>5. /\ walk'.step = "reading" /\ walk'.read = walk.read \cup {"count"}
      /\ walk'.data = walk.data /\ walk'.shown = walk.shown /\ walk'.page = walk.page
      /\ walk'.total = Cardinality(W)
  BY <1>1, <1>2 DEF Walk
<1>6. Found' = Found /\ (Found <=> "find" \in walk.read)
  BY <1>1, <1>5 DEF Found
<1>7. Passed' = Passed /\ Seen' = Seen /\ Sent' = Sent
  BY <1>1, <1>5, <1>6 DEF Passed, Seen, Sent, Ids, ToSet
<1>8. AllFinite
  BY FiniteIds
<1> DEFINE m == Cardinality(Missed)
           n == Len(Listing)
           all == walk.page * limit
           d == Disturbed
<1>9. m \in Nat /\ n \in Nat /\ all \in Nat /\ d \in Nat
  BY <1>8 DEF AllFinite
<1>10. history.others = 0 /\ LastPage' => n <= all
  <2>1. history.others = 0 => n <= Cardinality(W) /\ Cardinality(W) \in Nat
    BY <1>3, <1>4, MatchingIs, FS_Subset, FS_CardinalityType DEF Listing
  <2>2. LastPage' <=> Cardinality(W) <= all
    BY <1>1, <1>5 DEF LastPage
  <2> HIDE DEF n, all
  <2>3. QED
    BY <1>9, <2>1, <2>2
<1>11. history.others = 0 => m <= d
  BY DEF WalkFits
<1>12. history.others = 0 /\ LastPage' => m + n <= d + all
  <2> HIDE DEF m, n, d, all
  <2>1. QED
    BY <1>9, <1>10, <1>11
<1>13. history.others = 0 /\ LastPage' /\ Found => Cardinality(history.stayed \ Seen) <= d
  <2> SUFFICES ASSUME history.others = 0, LastPage', Found
               PROVE  Cardinality(history.stayed \ Seen) <= d
    OBVIOUS
  <2>1. Passed = all
    BY DEF Passed
  <2>2. Beyond(Listing, Passed) = {} /\ Ids(Listing) = Within(Listing, Passed) \cup Beyond(Listing, Passed)
    BY <1>8, <1>10, <2>1, BeyondSize DEF AllFinite
  <2>3. history.stayed \subseteq Ids(Listing)
    BY DEF WalkFits
  <2>4. history.stayed \ Seen = Missed
    BY <2>2, <2>3 DEF Missed
  <2>5. QED
    BY <1>11, <2>4
<1>14. (walk.page * limit)' = all
  BY <1>1, <1>5
<1>15. history.others = 0 =>
           /\ walk'.step = "reading" /\ walk'.read = {"count"} /\ LastPage' => m + n <= d + (walk.page * limit)'
           /\ walk'.step = "done" \/ (Found' /\ "count" \in walk'.read /\ LastPage') =>
                  Cardinality(history.stayed \ Seen) <= d
  BY <1>5, <1>6, <1>12, <1>13, <1>14
<1>16. QED
  BY <1>1, <1>7, <1>15, WalkStands

\* Whether there is a next page.
LEMMA LastPageIs ==
    ASSUME PagesFit
    PROVE  walk.page < TotalPages(walk.total) <=> ~LastPage
<1>1. walk.page \in Nat \ {0} /\ limit \in Nat \ {0} /\ walk.total \in Nat
  BY FitTypes
<1> DEFINE p == walk.page
           t == walk.total
<1>2. p \in Nat /\ t \in Nat
  BY <1>1
<1> HIDE DEF p, t
<1>3. p < (t + limit - 1) \div limit <=> ~(t <= p * limit)
  BY ONLY <1>1, <1>2
<1>4. QED
  BY <1>3 DEF TotalPages, LastPage, p, t

\* An answer ends the walk if the page was the last, and else passes it.
LEMMA AnswerPageKeepsWalk ==
    ASSUME PagesFit, WalkFits, AnswerPage
    PROVE  WalkFits'
<1> DEFINE shown == walk.shown \o [i \in DOMAIN walk.data |-> walk.data[i].id]
           more == walk.page < TotalPages(walk.total)
           step == IF more THEN "request" ELSE "done"
           page == IF more THEN walk.page + 1 ELSE walk.page
<1>1. /\ walk' = [walk EXCEPT !.shown = shown, !.step = step, !.page = page]
      /\ UNCHANGED <<table, private, following, query, limit, history>>
      /\ walk.step = "reading" /\ walk.read = {"find", "count"}
  BY DEF AnswerPage
<1>2. walk \in Walk /\ walk.data \in Seq(Row(query.endpoint)) /\ walk.shown \in Seq(Nat)
  BY DEF PagesFit, Walk
<1>3. Ids(walk.data) \subseteq Nat
  BY DEF PagesFit
<1>a. shown = walk.shown \o InOrder(walk.data)
  BY DEF InOrder
<1> HIDE DEF shown
<1>4. /\ Len(shown) = Len(walk.shown) + Len(walk.data)
      /\ ToSet(shown) = ToSet(walk.shown) \cup Ids(walk.data)
  <2> DEFINE a == walk.shown
             b == walk.data
  <2>1. a \in Seq(Nat) /\ b \in Seq(Row(query.endpoint)) /\ Ids(b) \subseteq Nat
    BY <1>2, <1>3
  <2> HIDE DEF a, b
  <2>2. /\ Len(a \o InOrder(b)) = Len(a) + Len(b)
        /\ ToSet(a \o InOrder(b)) = ToSet(a) \cup Ids(b)
    BY ONLY <2>1, SentIds
  <2>3. QED
    BY <1>a, <2>2 DEF a, b
<1>5. more <=> ~LastPage
  BY LastPageIs
<1> HIDE DEF more
<1>6. walk'.data = walk.data /\ walk'.shown = shown /\ walk'.read = walk.read
      /\ walk'.step = step /\ walk'.page = page
  BY <1>1, <1>2 DEF Walk
<1>7. Found /\ (Found' <=> ~more)
  BY <1>1, <1>6 DEF Found
<1>8. Passed' = Passed
  <2>1. walk.page \in Nat /\ (walk.page + 1) - 1 = walk.page
    BY FitTypes
  <2>2. QED
    BY <1>1, <1>6, <1>7, <2>1 DEF Passed
<1>9. Seen' = Seen
  <2>1. Ids(walk.data)' = Ids(walk.data) /\ ToSet(walk.shown)' = ToSet(shown)
    BY <1>6 DEF Ids, ToSet
  <2>2. QED
    BY <1>4, <2>1 DEF Seen
<1>10. Sent' = Sent
  <2>1. walk'.step # "reading" /\ walk.step = "reading" /\ Len(walk'.shown) = Len(walk.shown) + Len(walk.data)
    <3>1. walk'.step # "reading" /\ walk.step = "reading"
      BY <1>1, <1>6
    <3>2. walk'.shown = shown
      BY <1>6
    <3>3. QED
      BY ONLY <1>4, <3>1, <3>2
  <2>2. Sent' = Len(walk'.shown)
    BY <2>1 DEF Sent
  <2>3. Sent = Len(walk.shown) + Len(walk.data)
    BY <2>1 DEF Sent
  <2>4. QED
    BY <2>1, <2>2, <2>3
<1>11. history.others = 0 /\ ~more => Cardinality(history.stayed \ Seen) <= Disturbed
  BY <1>1, <1>5, <1>7 DEF WalkFits
<1>12. QED
  BY <1>1, <1>6, <1>7, <1>8, <1>9, <1>10, <1>11, WalkStands

\* What a set gains and what of it lies ahead: the page P leaves the rows
\* beyond, and those of it that were seen before are seen again.
LEMMA PageCounts ==
    ASSUME NEW A, NEW P, NEW B, NEW C, IsFiniteSet(A), IsFiniteSet(P), IsFiniteSet(B),
           C = B \cup P, B \cap P = {}
    PROVE  /\ Cardinality(A) \in Nat /\ Cardinality(P) \in Nat
           /\ Cardinality(C \cap A) \in Nat /\ Cardinality(B \cap (A \cup P)) \in Nat
           /\ Cardinality(A \cup P) \in Nat
           /\ Cardinality(A) + Cardinality(P) + Cardinality(B \cap (A \cup P)) =
                  Cardinality(A \cup P) + Cardinality(C \cap A)
<1>1. B \cap (A \cup P) = B \cap A
  OBVIOUS
<1>2. C \cap A = (B \cap A) \cup (A \cap P) /\ (B \cap A) \cap (A \cap P) = {}
  OBVIOUS
<1>3. IsFiniteSet(B \cap A) /\ IsFiniteSet(A \cap P) /\ IsFiniteSet(A \cup P) /\ IsFiniteSet(C \cap A)
  <2>1. IsFiniteSet(B \cap A) /\ IsFiniteSet(A \cap P) /\ IsFiniteSet(C \cap A)
    BY FS_Subset
  <2>2. IsFiniteSet(A \cup P)
    BY FS_Union
  <2>3. QED
    BY <2>1, <2>2
<1> DEFINE a == Cardinality(A)
           p == Cardinality(P)
           b == Cardinality(B \cap A)
           i == Cardinality(A \cap P)
           u == Cardinality(A \cup P)
           c == Cardinality(C \cap A)
<1>4. a \in Nat /\ p \in Nat /\ b \in Nat /\ i \in Nat /\ u \in Nat /\ c \in Nat
  BY <1>3, FS_CardinalityType
<1>5. u = a + p - i
  BY FS_Union
<1>6. c = b + i
  <2>1. Cardinality((B \cap A) \cup (A \cap P)) =
            Cardinality(B \cap A) + Cardinality(A \cap P) - Cardinality((B \cap A) \cap (A \cap P))
    BY <1>3, FS_Union
  <2>2. Cardinality((B \cap A) \cap (A \cap P)) = 0
    BY <1>2, FS_EmptySet
  <2>3. c = b + i - 0
    BY <1>2, <2>1, <2>2
  <2> HIDE DEF a, p, b, i, u, c
  <2>4. QED
    BY <1>4, <2>3
<1> HIDE DEF a, p, b, i, u, c
<1>7. a + p + b = u + c
  BY ONLY <1>4, <1>5, <1>6
<1>8. QED
  BY <1>1, <1>4, <1>7 DEF a, p, b, u, c

\* A page has no row twice if the listing has none.
LEMMA PageDistinct ==
    ASSUME limit \in Nat \ {0}, NEW page \in Nat \ {0}, NEW S, NEW s \in Seq(S), Distinct(s)
    PROVE  Distinct(PageOf(s, page))
<1> DEFINE n == (page - 1) * limit
           p == PageOf(s, page)
<1>1. /\ p \in Seq(S) /\ n \in Nat
      /\ \A i \in 1 .. Len(p) : p[i] = s[n + i] /\ n + i \in 1 .. Len(s)
  BY PageIs
<1> HIDE DEF n, p
<1>2. DOMAIN p = 1 .. Len(p) /\ DOMAIN s = 1 .. Len(s)
  BY <1>1
<1>3. ASSUME NEW i \in 1 .. Len(p), NEW j \in 1 .. Len(p), p[i].id = p[j].id PROVE i = j
  <2>1. n + i = n + j
    BY <1>1, <1>2, <1>3 DEF Distinct
  <2>2. QED
    BY <1>1, <2>1
<1>4. Distinct(p)
  BY <1>2, <1>3 DEF Distinct
<1>5. QED
  BY <1>4 DEF p

\* A find passes its page: what is on it is seen.
LEMMA FindPageKeepsWalk ==
    ASSUME PagesFit, ScopeStands, WalkFits, FindPage
    PROVE  WalkFits'
<1> SUFFICES ASSUME history.others = 0 PROVE WalkFits'
  BY DEF FindPage, WalkFits
<1>1. PagesFit' /\ AllFinite /\ AllFinite'
  BY FindPageKeepsFit, FiniteIds, FiniteIdsNext
<1> DEFINE n == (walk.page - 1) * limit
           m == walk.page * limit
           P == PageOf(Listing, walk.page)
           S == Row(query.endpoint)
<1>2. /\ walk' = [walk EXCEPT !.read = walk.read \cup {"find"}, !.data = P]
      /\ UNCHANGED <<table, private, following, query, limit, history>>
      /\ walk.step = "reading" /\ "find" \notin walk.read
  <2>1. walk.step = "reading" /\ walk.scope = PageScope
    BY DEF FindPage, ScopeStands
  <2>2. QED
    BY <2>1 DEF FindPage, Listing
<1>3. walk \in Walk /\ walk.data = <<>> /\ limit \in Nat \ {0} /\ walk.page \in Nat \ {0}
  BY <1>2, FitTypes DEF PagesFit
<1>4. Listing \in Seq(S) /\ Distinct(Listing) /\ n \in Nat /\ m \in Nat /\ m = n + limit
      /\ Len(Listing) \in Nat
  BY <1>1 DEF AllFinite
<1>5. P \in Seq(S) /\ Distinct(P)
  BY <1>3, <1>4, PageIs, PageDistinct
<1>6. /\ Within(Listing, m) = Within(Listing, n) \cup Ids(P)
      /\ Beyond(Listing, n) = Beyond(Listing, m) \cup Ids(P)
  BY <1>3, <1>4, PageIds
<1>7. /\ IsFiniteSet(Beyond(Listing, m)) /\ Cardinality(Beyond(Listing, m)) \in Nat
      /\ IF Len(Listing) <= m THEN Beyond(Listing, m) = {}
         ELSE Cardinality(Beyond(Listing, m)) <= Len(Listing) - m
      /\ Ids(Listing) = Within(Listing, m) \cup Beyond(Listing, m)
      /\ Within(Listing, m) \cap Beyond(Listing, m) = {}
  BY <1>4, BeyondSize
<1>8. IsFiniteSet(Ids(P)) /\ Cardinality(Ids(P)) = Len(P) /\ Len(P) \in Nat
  BY <1>5, DistinctSize
<1> HIDE DEF P, S, n, m
<1>9. /\ walk'.step = "reading" /\ walk'.read = walk.read \cup {"find"} /\ walk'.data = P
      /\ walk'.shown = walk.shown /\ walk'.page = walk.page /\ walk'.total = walk.total
  BY <1>2, <1>3 DEF Walk
<1>10. Passed = n /\ Passed' = m /\ Found'
  BY <1>2, <1>9 DEF Passed, Found, n, m
<1>11. Listing' = Listing
  BY <1>2, ListingIs
<1>12. Ids(walk.data) = {} /\ Ids(walk.data)' = Ids(P)
  BY <1>3, <1>9 DEF Ids
<1>13. Seen' = Seen \cup Ids(P)
  <2>1. ToSet(walk.shown)' = ToSet(walk.shown)
    BY <1>9 DEF ToSet
  <2>2. QED
    BY <1>12, <2>1 DEF Seen
<1>14. Sent' = Sent + Len(P)
  <2>1. Sent = Len(walk.shown) + 0 /\ Len(walk.shown) \in Nat
    <3>1. Len(walk.data) = 0 /\ Len(walk.shown) \in Nat
      BY <1>3, FitTypes
    <3>2. QED
      BY <1>2, <3>1 DEF Sent
  <2>2. Sent' = Len(walk.shown) + Len(P)
    BY <1>9 DEF Sent
  <2>3. QED
    BY <1>8, <2>1, <2>2
<1>15. Missed' = (history.stayed \cap Within(Listing, m)) \ (Seen \cup Ids(P))
  BY <1>2, <1>10, <1>11, <1>13 DEF Missed
<1>16. Missed' \subseteq Missed
  BY <1>6, <1>10, <1>15 DEF Missed
<1>17. Cardinality(Missed') <= Cardinality(Missed) /\ Cardinality(Missed) <= Disturbed
  BY <1>1, <1>16, NoMore DEF AllFinite, WalkFits
<1>18. Disturbed' = Disturbed
  BY <1>2 DEF Disturbed
<1>19. "count" \in walk'.read /\ LastPage' => Cardinality(history.stayed \ Seen') <= Disturbed
  <2> SUFFICES ASSUME "count" \in walk'.read, LastPage'
               PROVE  Cardinality(history.stayed \ Seen') <= Disturbed
    OBVIOUS
  <2>1. walk.read = {"count"} /\ LastPage
    <3>1. "count" \in walk.read
      BY <1>9
    <3>2. walk.read \in SUBSET {"find", "count"}
      BY FitTypes
    <3>3. QED
      BY <1>2, <1>9, <3>1, <3>2 DEF LastPage
  <2> DEFINE f == Cardinality(Missed)
             l == Len(Listing)
             b == Cardinality(Beyond(Listing, m))
             R == history.stayed \ Seen'
             d == Disturbed
  <2>2. f + l <= d + m
    BY <1>2, <2>1 DEF WalkFits, m
  <2>3. R \subseteq Missed \cup Beyond(Listing, m)
    <3>1. history.stayed \subseteq Ids(Listing)
      BY DEF WalkFits
    <3>2. QED
      BY <1>7, <1>13, <1>15, <1>16, <3>1
  <2>4. Cardinality(R) <= f + b /\ Cardinality(R) \in Nat
    <3>1. IsFiniteSet(Missed) /\ f \in Nat
      BY <1>1 DEF AllFinite
    <3>2. IsFiniteSet(Missed \cap Beyond(Listing, m))
      BY <3>1, FS_Subset
    <3>3. Cardinality(Missed \cap Beyond(Listing, m)) \in Nat
      BY <3>2, FS_CardinalityType
    <3>4. /\ IsFiniteSet(Missed \cup Beyond(Listing, m))
          /\ Cardinality(Missed \cup Beyond(Listing, m)) =
                 f + b - Cardinality(Missed \cap Beyond(Listing, m))
      BY <1>7, <3>1, FS_Union
    <3>5. Cardinality(R) <= Cardinality(Missed \cup Beyond(Listing, m)) /\ Cardinality(R) \in Nat
      BY <2>3, <3>4, NoMore
    <3> DEFINE x == Cardinality(Missed \cap Beyond(Listing, m))
               y == Cardinality(Missed \cup Beyond(Listing, m))
               r == Cardinality(R)
    <3>6. f \in Nat /\ b \in Nat /\ x \in Nat /\ y = f + b - x /\ r <= y /\ r \in Nat
      BY <1>7, <3>1, <3>3, <3>4, <3>5
    <3> HIDE DEF f, b, x, y, R, r
    <3>7. r <= f + b
      BY ONLY <3>6
    <3>8. QED
      BY <3>6, <3>7 DEF r
  <2>5. Cardinality({}) = 0
    BY FS_EmptySet
  <2>6. l <= m => b = 0
    BY <1>7, <2>5
  <2>7. ~(l <= m) => b <= l - m
    BY <1>7
  <2>8. f \in Nat /\ l \in Nat /\ b \in Nat /\ d \in Nat /\ m \in Nat /\ f <= d
    BY <1>1, <1>4, <1>7, <1>17 DEF AllFinite
  <2> DEFINE r == Cardinality(R)
  <2>9. r <= f + b /\ r \in Nat
    BY <2>4
  <2> HIDE DEF f, l, b, R, d, r
  <2>10. r <= d
    BY ONLY <2>2, <2>6, <2>7, <2>8, <2>9
  <2>11. QED
    BY <2>10 DEF r, R, d
<1>20. Sent' + Cardinality(Again') <= Cardinality(Seen') + history.inserted + history.moved
  <2> DEFINE B == Beyond(Listing, m)
             C == Beyond(Listing, n)
  <2>1. Again = C \cap Seen /\ Again' = B \cap (Seen \cup Ids(P))
    BY <1>10, <1>11, <1>13 DEF Again
  <2>2. C = B \cup Ids(P) /\ B \cap Ids(P) = {} /\ IsFiniteSet(B) /\ IsFiniteSet(Seen)
        /\ IsFiniteSet(Ids(P))
    BY <1>1, <1>6, <1>7, <1>8 DEF AllFinite
  <2> HIDE DEF B, C
  <2> DEFINE a == Cardinality(Seen)
             p == Len(P)
             b == Cardinality(Again')
             u == Cardinality(Seen')
             c == Cardinality(Again)
             s == Sent
             i == history.inserted
             v == history.moved
  <2>3. /\ a \in Nat /\ Cardinality(Ids(P)) \in Nat /\ c \in Nat /\ b \in Nat /\ u \in Nat
        /\ a + Cardinality(Ids(P)) + b = u + c
    <3> DEFINE A == Seen
               Q == Ids(P)
    <3>1. C = B \cup Q /\ B \cap Q = {} /\ IsFiniteSet(B) /\ IsFiniteSet(A) /\ IsFiniteSet(Q)
      BY <2>2
    <3>2. Again = C \cap A /\ Again' = B \cap (A \cup Q) /\ Seen' = A \cup Q
      BY <1>13, <2>1
    <3> HIDE DEF A, Q
    <3>3. /\ Cardinality(A) \in Nat /\ Cardinality(Q) \in Nat
          /\ Cardinality(C \cap A) \in Nat /\ Cardinality(B \cap (A \cup Q)) \in Nat
          /\ Cardinality(A \cup Q) \in Nat
          /\ Cardinality(A) + Cardinality(Q) + Cardinality(B \cap (A \cup Q)) =
                 Cardinality(A \cup Q) + Cardinality(C \cap A)
      BY ONLY <3>1, PageCounts, ZenonT(30)
    <3>4. QED
      BY <3>2, <3>3 DEF A, Q
  <2>4. a + p + b = u + c /\ p \in Nat
    BY <1>8, <2>3
  <2>5. s + c <= a + i + v /\ s \in Nat /\ i \in Nat /\ v \in Nat
    BY <1>1 DEF WalkFits, AllFinite
  <2> HIDE DEF a, p, b, u, c, s, i, v
  <2>6. (s + p) + b <= u + i + v
    BY ONLY <2>3, <2>4, <2>5
  <2>7. QED
    BY <1>14, <2>6 DEF p, b, u, s, i, v
<1>21. Ids(Listing') = Ids(Listing)
  BY <1>11
<1>22. QED
  <2>1. history'.stayed = history.stayed /\ history'.inserted = history.inserted
        /\ history'.moved = history.moved
    BY <1>2
  <2>2. history'.stayed \subseteq Ids(Listing')
    BY <1>21, <2>1 DEF WalkFits
  <2>3. Cardinality(Missed') <= Disturbed'
    <3>1. Cardinality(Missed') \in Nat /\ Cardinality(Missed) \in Nat /\ Disturbed \in Nat
      BY <1>1 DEF AllFinite
    <3>2. QED
      BY <1>17, <1>18, <3>1
  <2>4. ~(walk'.read = {"count"})
    BY <1>9
  <2>5. walk'.step = "done" \/ (Found' /\ "count" \in walk'.read /\ LastPage') =>
            Cardinality(history'.stayed \ Seen') <= Disturbed'
    BY <1>9, <1>18, <1>19, <2>1
  <2>6. Sent' + Cardinality(Again') <= Cardinality(Seen') + history'.inserted + history'.moved
    BY <1>20, <2>1
  <2>7. QED
    BY <2>2, <2>3, <2>4, <2>5, <2>6 DEF WalkFits

\* At first nothing is passed.
LEMMA WalkFitsAtFirst == ListingsInit => WalkFits
<1> SUFFICES ASSUME ListingsInit PROVE WalkFits
  OBVIOUS
<1>1. PagesFit /\ AllFinite
  BY PagesFitAtFirst, FiniteIds
<1>2. walk.step = "request" /\ walk.page = 1 /\ walk.data = <<>> /\ walk.shown = <<>>
  BY DEF ListingsInit
<1>3. ~Found /\ Passed = 0 /\ Sent = 0
  <2>1. limit \in Nat
    BY <1>1, FitTypes
  <2>2. ~Found
    BY <1>2 DEF Found
  <2>3. (1 - 1) * limit = 0
    BY <2>1
  <2>4. QED
    BY <1>2, <2>2, <2>3 DEF Passed, Sent
<1>4. Seen = {}
  BY <1>2 DEF Seen, ToSet, Ids
<1>5. Missed = {} /\ Again = {}
  <2>1. DOMAIN Listing = 1 .. Len(Listing) /\ Len(Listing) \in Nat
    BY <1>1 DEF AllFinite
  <2>2. Within(Listing, 0) = {}
    BY <2>1 DEF Within
  <2>3. QED
    BY <1>3, <1>4, <2>2 DEF Missed, Again
<1>6. Cardinality(Missed) = 0 /\ Cardinality(Again) = 0 /\ Cardinality(Seen) = 0
  BY <1>4, <1>5, FS_EmptySet
<1>7. history.stayed \subseteq Ids(Listing)
  <2>1. history.stayed = {table[i].id : i \in Positions(query, PageScope)}
    BY DEF ListingsInit
  <2>2. \A i \in Positions(query, PageScope) :
            \E k \in DOMAIN Listing : Listing[k] = table[i]
    BY <1>1, MatchingIs DEF Listing
  <2>3. QED
    BY <2>1, <2>2 DEF Ids
<1>8. Disturbed >= 0
  BY <1>1 DEF AllFinite
<1>9. history.inserted = 0 /\ history.moved = 0
  BY DEF ListingsInit
<1>10. QED
  BY <1>2, <1>3, <1>6, <1>7, <1>8, <1>9 DEF WalkFits

\* A step of nothing keeps what is promised of a walk.
LEMMA WalkRests ==
    ASSUME WalkFits, UNCHANGED listingVars
    PROVE  WalkFits'
<1>1. UNCHANGED <<table, private, following, query, limit, walk, history>>
  BY DEF listingVars
<1>2. /\ Passed' = Passed /\ Seen' = Seen /\ Sent' = Sent /\ (Found' <=> Found)
      /\ (LastPage' <=> LastPage)
  BY <1>1, UnchangedWalk DEF WalkStays
<1>3. Listing' = Listing
  BY <1>1, ListingIs
<1>4. Missed' = Missed /\ Again' = Again /\ Ids(Listing') = Ids(Listing)
  BY <1>1, <1>2, <1>3 DEF Missed, Again
<1>5. Disturbed' = Disturbed
  BY <1>1 DEF Disturbed
<1>6. QED
  BY <1>1, <1>2, <1>3, <1>4, <1>5 DEF WalkFits

\* Each step keeps what is promised of a walk.
LEMMA WalkStepKeeps == OpenInv /\ WalkFits /\ ListingsStep => WalkFits'
BY PageRequestKeepsWalk, FindPageKeepsWalk, CountRowsKeepsWalk, AnswerPageKeepsWalk,
   RowCreatedKeepsWalk, RowLeavesKeepsWalk, RowMovesKeepsWalk, OthersKeepOpen, OthersKeepWalk
   DEF ListingsStep, OpenInv

\* At its end a walk has missed and repeated what slipped.
LEMMA WalkMisses == PagesFit /\ WalkFits => WalkMissesByChangeOnly
<1> SUFFICES ASSUME PagesFit, WalkFits, walk.step = "done", history.others = 0
             PROVE  /\ Cardinality(history.stayed \ ToSet(walk.shown)) <=
                           history.removed + history.moved + history.split
                    /\ Len(walk.shown) - Cardinality(ToSet(walk.shown)) <=
                           history.inserted + history.moved
  BY DEF WalkMissesByChangeOnly
<1>1. Seen = ToSet(walk.shown)
  BY DEF PagesFit, Seen
<1>2. Cardinality(history.stayed \ Seen) <= Disturbed
  BY DEF WalkFits, Found
<1>3. Sent = Len(walk.shown) /\ Sent + Cardinality(Again) <= Cardinality(Seen) + history.inserted + history.moved
  BY DEF WalkFits, Sent
<1>4. Cardinality(Again) \in Nat /\ Cardinality(Seen) \in Nat /\ Sent \in Nat
      /\ history.inserted \in Nat /\ history.moved \in Nat
  BY FiniteIds DEF AllFinite
<1> DEFINE n == Len(walk.shown)
           c == Cardinality(Seen)
           a == Cardinality(Again)
           i == history.inserted
           v == history.moved
<1>5. n \in Nat /\ c \in Nat /\ a \in Nat /\ i \in Nat /\ v \in Nat /\ n + a <= c + i + v
  BY <1>3, <1>4
<1> HIDE DEF n, c, a, i, v
<1>6. n - c <= i + v
  BY ONLY <1>5
<1>7. QED
  BY <1>1, <1>2, <1>6 DEF n, c, i, v, Disturbed

----------------------------------------------------------------------------
(* Listings: walks that are not.                                           *)
(***************************************************************************)
QuietTypes ==
    /\ walk \in Walk /\ history \in History /\ limit \in Nat \ {0} /\ walk.page \in Nat \ {0}
    /\ walk.data \in Seq(Row(query.endpoint)) /\ walk.shown \in Seq(Nat)
    /\ Ids(walk.data) \subseteq Nat
    /\ Listing \in Seq(Row(query.endpoint)) /\ Len(Listing) \in Nat
    /\ history.inserted \in Nat /\ history.removed \in Nat /\ history.moved \in Nat
    /\ history.others \in Nat

\* The types of what a quiet walk has read.
LEMMA QuietIsTyped == PagesFit => QuietTypes
<1> SUFFICES ASSUME PagesFit PROVE QuietTypes
  OBVIOUS
<1>1. walk \in Walk /\ history \in History /\ Ids(walk.data) \subseteq Nat
  BY DEF PagesFit
<1>2. Listing \in Seq(Row(query.endpoint)) /\ Len(Listing) \in Nat
  BY FiniteIds DEF AllFinite
<1>3. QED
  BY <1>1, <1>2, FitTypes DEF QuietTypes

\* A change of the rows or of the profiles ends the quiet.
LEMMA ChangeIsNotQuiet ==
    ASSUME PagesFit, RowCreated \/ RowLeaves \/ RowMoves \/ ProfileChanges \/ FollowChanges
    PROVE  QuietFits'
<1>1. history \in History /\ history.inserted \in Nat /\ history.removed \in Nat
      /\ history.moved \in Nat /\ history.others \in Nat
  BY FitTypes DEF PagesFit
<1>2. CASE RowCreated
  <2>1. history' = [history EXCEPT !.ids = history.ids + 1, !.inserted = history.inserted + 1,
                                    !.split = IF HalfRead THEN history.split + 1
                                              ELSE history.split]
    BY <1>2, RowCreatedDoes
  <2>2. history'.inserted = history.inserted + 1 /\ history'.removed = history.removed
        /\ history'.moved = history.moved /\ history'.others = history.others
    BY <1>1, <2>1 DEF History
  <2>3. ~Quiet'
    BY <1>1, <2>2 DEF Quiet
  <2>4. QED
    BY <2>3 DEF QuietFits
<1>3. CASE RowLeaves
  <2>1. PICK i \in DOMAIN table :
            history' = [history EXCEPT !.removed = history.removed + 1,
                                       !.stayed = history.stayed \ {table[i].id}]
    BY <1>3, RowLeavesDoes
  <2>2. history'.inserted = history.inserted /\ history'.removed = history.removed + 1
        /\ history'.moved = history.moved /\ history'.others = history.others
    BY <1>1, <2>1 DEF History
  <2>3. ~Quiet'
    BY <1>1, <2>2 DEF Quiet
  <2>4. QED
    BY <2>3 DEF QuietFits
<1>4. CASE RowMoves
  <2>1. history' = [history EXCEPT !.moved = history.moved + 1]
    BY <1>4, RowMovesDoes
  <2>2. history'.inserted = history.inserted /\ history'.removed = history.removed
        /\ history'.moved = history.moved + 1 /\ history'.others = history.others
    BY <1>1, <2>1 DEF History
  <2>3. ~Quiet'
    BY <1>1, <2>2 DEF Quiet
  <2>4. QED
    BY <2>3 DEF QuietFits
<1>5. CASE ProfileChanges \/ FollowChanges
  <2>1. history' = [history EXCEPT !.others = history.others + 1, !.touched = "yes"]
    BY <1>5, OthersKeepFit
  <2>2. history'.inserted = history.inserted /\ history'.removed = history.removed
        /\ history'.moved = history.moved /\ history'.others = history.others + 1
    BY <1>1, <2>1 DEF History
  <2>3. ~Quiet'
    BY <1>1, <2>2 DEF Quiet
  <2>4. QED
    BY <2>3 DEF QuietFits
<1>6. QED
  BY <1>2, <1>3, <1>4, <1>5

\* While nothing changes, the listing and its size stay.
LEMMA TotalStays ==
    ASSUME UNCHANGED <<table, private, following, query>>
    PROVE  Total' = Total /\ Listing' = Listing
<1>1. Listing' = Listing
  BY ListingIs
<1>2. PageScope' = PageScope
  BY ScopeStays
<1>3. \A i : (Counted(query, PageScope, table[i]))' <=> Counted(query, PageScope, table[i])
  BY <1>2, SelectedStays DEF Counted
<1>4. QED
  BY <1>1, <1>3 DEF Total

\* In a quiet walk, a request moves no page.
LEMMA PageRequestKeepsQuiet ==
    ASSUME PagesFit, QuietFits, PageRequest
    PROVE  QuietFits'
<1> SUFFICES ASSUME Quiet' PROVE QuietFits'
  BY DEF QuietFits
<1> DEFINE step == IF Admitted(query) THEN "reading" ELSE "refused"
<1>1. /\ walk' = [walk EXCEPT !.step = step, !.scope = PageScope, !.read = {}, !.data = <<>>]
      /\ history' = [history EXCEPT !.touched = "no"]
      /\ UNCHANGED <<table, private, following, query, limit>> /\ walk.step = "request"
  BY DEF PageRequest
<1>2. QuietTypes
  BY QuietIsTyped
<1>a. step \in {"reading", "refused"}
  OBVIOUS
<1> HIDE DEF step
<1>3. /\ walk'.step \in {"reading", "refused"} /\ walk'.read = {} /\ walk'.data = <<>>
      /\ walk'.shown = walk.shown /\ walk'.page = walk.page
  BY <1>1, <1>2, <1>a DEF Walk, QuietTypes
<1>4. /\ history'.inserted = history.inserted /\ history'.moved = history.moved
      /\ history'.removed = history.removed /\ history'.others = history.others
  BY <1>1, <1>2 DEF History, QuietTypes
<1>5. Quiet
  BY <1>4 DEF Quiet
<1>6. ~Found /\ ~Found'
  BY <1>1, <1>3 DEF Found
<1>7. Passed' = Passed
  BY <1>1, <1>3, <1>6 DEF Passed
<1>8. Sent' = Sent
  <2>1. Len(walk.shown) \in Nat
    BY FitTypes
  <2>2. QED
    BY <1>1, <1>3, <2>1 DEF Sent
<1>9. Total' = Total /\ Listing' = Listing
  BY <1>1, TotalStays
<1>10. QED
  BY <1>1, <1>3, <1>5, <1>6, <1>7, <1>8, <1>9 DEF QuietFits

\* In a quiet walk, a count finds the size of the listing.
LEMMA CountRowsKeepsQuiet ==
    ASSUME PagesFit, ScopeStands, QuietFits, CountRows
    PROVE  QuietFits'
<1> SUFFICES ASSUME Quiet' PROVE QuietFits'
  BY DEF QuietFits
<1>1. Quiet /\ history.others = 0 /\ history.touched = "no"
  <2>1. Quiet
    BY DEF CountRows, Quiet
  <2>2. QED
    BY <2>1, QuietIsTyped, SMTT(30) DEF Quiet, ScopeStands, QuietTypes
<1>2. /\ walk' = [walk EXCEPT !.read = walk.read \cup {"count"}, !.total = Total]
      /\ UNCHANGED <<table, private, following, query, limit, history>>
      /\ walk.step = "reading"
  <2>1. walk.step = "reading" /\ walk.scope = PageScope
    BY <1>1 DEF CountRows, ScopeStands
  <2>2. QED
    BY <2>1 DEF CountRows, Total
<1>3. /\ walk'.step = "reading" /\ walk'.read = walk.read \cup {"count"}
      /\ walk'.data = walk.data /\ walk'.shown = walk.shown /\ walk'.page = walk.page
      /\ walk'.total = Total
  <2>1. walk \in Walk
    BY QuietIsTyped DEF QuietTypes
  <2>2. QED
    BY <1>2, <2>1 DEF Walk
<1>4. Found' = Found
  BY <1>2, <1>3 DEF Found
<1>5. Passed' = Passed /\ Sent' = Sent
  BY <1>2, <1>3, <1>4 DEF Passed, Sent
<1>6. Total' = Total /\ Listing' = Listing
  BY <1>2, TotalStays
<1>7. (PageOf(Listing, walk.page))' = PageOf(Listing, walk.page)
  BY <1>2, <1>3, <1>6 DEF PageOf
<1>8. QED
  BY <1>1, <1>2, <1>3, <1>4, <1>5, <1>6, <1>7 DEF QuietFits

\* In a quiet walk, a find reads the page of the listing.
LEMMA FindPageKeepsQuiet ==
    ASSUME PagesFit, ScopeStands, QuietFits, FindPage
    PROVE  QuietFits'
<1> SUFFICES ASSUME Quiet' PROVE QuietFits'
  BY DEF QuietFits
<1> DEFINE P == PageOf(Listing, walk.page)
           S == Row(query.endpoint)
<1>0. QuietTypes
  BY QuietIsTyped
<1>1. Quiet /\ history.others = 0 /\ history.touched = "no"
  <2>1. Quiet
    BY DEF FindPage, Quiet
  <2>2. QED
    BY <1>0, <2>1 DEF Quiet, ScopeStands, QuietTypes
<1>2. /\ walk' = [walk EXCEPT !.read = walk.read \cup {"find"}, !.data = P]
      /\ UNCHANGED <<table, private, following, query, limit, history>>
      /\ walk.step = "reading" /\ "find" \notin walk.read /\ walk.data = <<>>
  <2>1. walk.step = "reading" /\ walk.scope = PageScope
    BY <1>1 DEF FindPage, ScopeStands
  <2>2. QED
    BY <2>1 DEF FindPage, Listing, PagesFit
<1>3. /\ P \in Seq(S) /\ walk.page * limit = (walk.page - 1) * limit + limit
      /\ (walk.page - 1) * limit \in Nat
      /\ Len(P) = IF Len(Listing) <= (walk.page - 1) * limit THEN 0
                  ELSE IF Len(Listing) <= walk.page * limit
                       THEN Len(Listing) - (walk.page - 1) * limit
                  ELSE limit
  BY <1>0, PageIs DEF QuietTypes
<1> HIDE DEF P, S
<1>4. /\ walk'.step = "reading" /\ walk'.read = walk.read \cup {"find"} /\ walk'.data = P
      /\ walk'.shown = walk.shown /\ walk'.page = walk.page /\ walk'.total = walk.total
  BY <1>0, <1>2 DEF Walk, QuietTypes
<1>5. ~Found /\ Found'
  BY <1>2, <1>4 DEF Found
<1>6. Passed = (walk.page - 1) * limit /\ Passed' = walk.page * limit
  BY <1>2, <1>4, <1>5 DEF Passed
<1>7. Total' = Total /\ Listing' = Listing
  BY <1>2, TotalStays
<1>8. Sent = Len(walk.shown) /\ Sent' = Len(walk.shown) + Len(P) /\ Len(walk.shown) \in Nat
  <2>1. Len(walk.data) = 0 /\ Len(walk.shown) \in Nat
    BY <1>0, <1>2 DEF QuietTypes
  <2>2. QED
    BY <1>2, <1>4, <2>1 DEF Sent
<1>9. Sent' = IF Passed' < Len(Listing) THEN Passed' ELSE Len(Listing)
  <2> DEFINE n == (walk.page - 1) * limit
             m == walk.page * limit
             l == Len(Listing)
             p == Len(P)
             s == Len(walk.shown)
  <2>1. s = IF n < l THEN n ELSE l
    BY <1>1, <1>6, <1>8 DEF QuietFits
  <2>2. l \in Nat /\ n \in Nat /\ limit \in Nat /\ m = n + limit /\ s \in Nat
        /\ p = IF l <= n THEN 0 ELSE IF l <= m THEN l - n ELSE limit
    BY <1>0, <1>3, <1>8 DEF QuietTypes
  <2> HIDE DEF n, m, l, p, s
  <2>3. s + p = IF m < l THEN m ELSE l
    BY ONLY <2>1, <2>2
  <2>4. QED
    BY <1>6, <1>8, <2>3 DEF m, l, p, s
<1>10. (PageOf(Listing, walk.page))' = P
  BY <1>2, <1>4, <1>7 DEF PageOf, P
<1>11. QED
  BY <1>1, <1>2, <1>4, <1>5, <1>7, <1>9, <1>10 DEF QuietFits

\* In a quiet walk the ids sent are those of the listing, page after page.
SentAs(t, s) == \A i \in 1 .. Len(t) : t[i] = s[i].id

\* The ids of a page follow those of the pages before.
LEMMA QuietPageSent ==
    ASSUME NEW S, NEW s \in Seq(S), limit \in Nat \ {0}, NEW page \in Nat \ {0},
           NEW shown \in Seq(Nat), NEW data, data = PageOf(s, page), Ids(data) \subseteq Nat,
           SentAs(shown, s),
           NEW upTo, upTo = page * limit,
           Len(shown) + Len(data) = IF upTo < Len(s) THEN upTo ELSE Len(s)
    PROVE  /\ Len(shown \o InOrder(data)) = Len(shown) + Len(data)
           /\ SentAs(shown \o InOrder(data), s)
<1> DEFINE n == (page - 1) * limit
           m == page * limit
           t == shown \o InOrder(data)
<1>1. /\ data \in Seq(S) /\ m = n + limit /\ n \in Nat
      /\ Len(data) = IF Len(s) <= n THEN 0 ELSE IF Len(s) <= m THEN Len(s) - n ELSE limit
      /\ \A i \in 1 .. Len(data) : data[i] = s[n + i]
  BY PageIs
<1>2. /\ Len(t) = Len(shown) + Len(data)
      /\ \A k \in 1 .. Len(shown) + Len(data) :
             t[k] = IF k <= Len(shown) THEN shown[k] ELSE data[k - Len(shown)].id
  <2>1. data \in Seq(S)
    BY <1>1
  <2>2. QED
    BY ONLY <2>1, shown \in Seq(Nat), Ids(data) \subseteq Nat, SentIds
<1> DEFINE a == Len(shown)
           b == Len(data)
           l == Len(s)
<1>3. a \in Nat /\ b \in Nat /\ l \in Nat /\ m \in Nat
  BY <1>1
<1>4. b = (IF l <= n THEN 0 ELSE IF l <= m THEN l - n ELSE limit) /\ a + b = IF m < l THEN m ELSE l
  BY <1>1
<1>5. \A k \in 1 .. a + b : t[k] = IF k <= a THEN shown[k] ELSE data[k - a].id
  BY <1>2
<1>6. \A i \in 1 .. b : data[i] = s[n + i]
  BY <1>1
<1>7. \A i \in 1 .. a : shown[i] = s[i].id
  BY DEF SentAs
<1>8. n \in Nat /\ m = n + limit /\ limit \in Nat
  BY <1>1
<1> HIDE DEF n, m, t, a, b, l
<1>9. b # 0 => a = n
  BY ONLY <1>3, <1>4, <1>8
<1>10. ASSUME NEW k \in 1 .. a + b PROVE t[k] = s[k].id
  <2>1. CASE k <= a
    BY <1>3, <1>5, <1>7, <2>1
  <2>2. CASE k > a
    <3>1. k - a \in 1 .. b /\ b # 0 /\ n + (k - a) = k
      BY ONLY <1>3, <1>8, <1>9, <2>2, k \in 1 .. a + b
    <3>2. t[k] = data[k - a].id
      BY <1>3, <1>5, <2>2
    <3>3. QED
      BY <1>6, <3>1, <3>2
  <2>3. QED
    BY <1>3, <2>1, <2>2
<1>11. QED
  BY <1>2, <1>10 DEF t, a, b, SentAs

\* In a quiet walk, an answer sends the page, and goes on while there is more.
LEMMA AnswerPageKeepsQuiet ==
    ASSUME PagesFit, QuietFits, AnswerPage
    PROVE  QuietFits'
<1> SUFFICES ASSUME Quiet' PROVE QuietFits'
  BY DEF QuietFits
<1> DEFINE shown == walk.shown \o [i \in DOMAIN walk.data |-> walk.data[i].id]
           more == walk.page < TotalPages(walk.total)
           step == IF more THEN "request" ELSE "done"
           page == IF more THEN walk.page + 1 ELSE walk.page
<1>1. /\ walk' = [walk EXCEPT !.shown = shown, !.step = step, !.page = page]
      /\ UNCHANGED <<table, private, following, query, limit, history>>
      /\ walk.step = "reading" /\ walk.read = {"find", "count"}
  BY DEF AnswerPage
<1>2. QuietTypes
  BY QuietIsTyped
<1>3. Quiet
  BY <1>1 DEF Quiet
<1>a. shown = walk.shown \o InOrder(walk.data)
  BY DEF InOrder
<1>b. more <=> ~LastPage
  BY LastPageIs
<1> HIDE DEF shown, more
<1>4. walk'.data = walk.data /\ walk'.shown = shown /\ walk'.step = step /\ walk'.page = page
      /\ walk'.step # "reading" /\ walk'.total = walk.total
  BY <1>1, <1>2 DEF Walk, QuietTypes
<1>5. Found /\ (Found' <=> ~more)
  BY <1>1, <1>4 DEF Found
<1>6. Passed = walk.page * limit /\ Passed' = Passed
  <2>1. walk.page \in Nat /\ (walk.page + 1) - 1 = walk.page
    BY <1>2 DEF QuietTypes
  <2>2. QED
    BY <1>1, <1>4, <1>5, <2>1 DEF Passed
<1>7. Total' = Total /\ Listing' = Listing
  BY <1>1, TotalStays
<1>8. Sent = Len(walk.shown) + Len(walk.data) /\ walk.data = PageOf(Listing, walk.page)
      /\ Sent = IF Passed < Len(Listing) THEN Passed ELSE Len(Listing)
  BY <1>1, <1>3, <1>5 DEF QuietFits, Sent
<1>9. /\ Len(shown) = Sent /\ \A i \in 1 .. Len(shown) : shown[i] = Listing[i].id
  <2> DEFINE A == walk.shown
             P == walk.data
             p == walk.page
             L == Listing
             S == Row(query.endpoint)
  <2>1. L \in Seq(S) /\ limit \in Nat \ {0} /\ p \in Nat \ {0} /\ A \in Seq(Nat) /\ Ids(P) \subseteq Nat
    BY <1>2 DEF QuietTypes
  <2> DEFINE upTo == p * limit
  <2>2. P = PageOf(L, p) /\ Len(A) + Len(P) = IF upTo < Len(L) THEN upTo ELSE Len(L)
    BY <1>6, <1>8
  <2>5. upTo = p * limit
    OBVIOUS
  <2>3. SentAs(A, L)
    BY <1>3 DEF QuietFits, SentAs
  <2> HIDE DEF A, P, p, L, S, upTo
  <2>4. /\ Len(A \o InOrder(P)) = Len(A) + Len(P)
        /\ SentAs(A \o InOrder(P), L)
    BY ONLY <2>1, <2>2, <2>3, <2>5, QuietPageSent
  <2>6. QED
    BY <1>8, <1>a, <2>4 DEF A, P, L, SentAs
<1>10. Sent' = Sent
  <2>1. Sent' = Len(walk'.shown)
    BY <1>4 DEF Sent
  <2>2. QED
    BY <1>4, <1>9, <2>1
<1>11. \A i \in 1 .. Len(walk'.shown) : walk'.shown[i] = Listing'[i].id
  BY <1>4, <1>7, <1>9
<1>12. Found' => walk'.data = (PageOf(Listing, walk.page))'
  <2> SUFFICES ASSUME ~more PROVE walk'.data = (PageOf(Listing, walk.page))'
    BY <1>5
  <2>1. walk'.page = walk.page
    BY <1>4
  <2>2. (PageOf(Listing, walk.page))' = PageOf(Listing, walk.page)
    BY <1>1, <1>7, <2>1 DEF PageOf
  <2>3. QED
    BY <1>4, <1>8, <2>2
<1>13. walk.total = Total /\ Total \in Nat
  <2>1. walk.total = Total
    BY <1>1, <1>3 DEF QuietFits
  <2>2. QED
    BY <2>1, FitTypes
<1>14. (walk'.page > 1 => (walk'.page - 1) * limit' < Total')
       /\ (walk'.step = "done" => Total' <= walk'.page * limit')
  <2>1. CASE more
    <3>1. walk'.page = walk.page + 1 /\ walk'.step = "request"
      BY <1>4, <2>1
    <3>2. (walk.page + 1) - 1 = walk.page /\ walk.page \in Nat /\ limit \in Nat
      BY <1>2 DEF QuietTypes
    <3>3. walk.page * limit < Total
      <4>1. ~(Total <= walk.page * limit) /\ walk.page * limit \in Nat
        BY <1>13, <1>b, <2>1, <3>2 DEF LastPage
      <4>2. QED
        BY <1>13, <4>1
    <3>4. QED
      BY <1>1, <1>7, <3>1, <3>2, <3>3
  <2>2. CASE ~more
    <3>1. walk'.page = walk.page /\ walk'.step = "done"
      BY <1>4, <2>2
    <3>2. Total <= walk.page * limit
      BY <1>13, <1>b, <2>2 DEF LastPage
    <3>3. walk.page > 1 => (walk.page - 1) * limit < Total
      BY <1>3 DEF QuietFits
    <3>4. QED
      BY <1>1, <1>7, <3>1, <3>2, <3>3
  <2>3. QED
    BY <2>1, <2>2
<1>15. QED
  BY <1>4, <1>6, <1>7, <1>8, <1>10, <1>11, <1>12, <1>14 DEF QuietFits

\* At first nothing is sent.
LEMMA QuietFitsAtFirst == ListingsInit => QuietFits
<1> SUFFICES ASSUME ListingsInit PROVE QuietFits
  OBVIOUS
<1>1. QuietTypes
  BY PagesFitAtFirst, QuietIsTyped
<1>2. walk.step = "request" /\ walk.page = 1 /\ walk.shown = <<>>
  BY DEF ListingsInit
<1>3. ~Found /\ Sent = 0
  BY <1>2 DEF Found, Sent
<1>4. Passed = 0
  <2>1. (1 - 1) * limit = 0
    BY <1>1 DEF QuietTypes
  <2>2. QED
    BY <1>2, <1>3, <2>1 DEF Passed
<1>5. Sent = IF Passed < Len(Listing) THEN Passed ELSE Len(Listing)
  BY <1>1, <1>3, <1>4 DEF QuietTypes
<1>6. QED
  BY <1>2, <1>3, <1>5 DEF QuietFits

\* A step of nothing keeps what is promised of a quiet walk.
LEMMA QuietRests ==
    ASSUME QuietFits, UNCHANGED listingVars
    PROVE  QuietFits'
<1>1. UNCHANGED <<table, private, following, query, limit, walk, history>>
  BY DEF listingVars
<1>2. Passed' = Passed /\ Sent' = Sent /\ (Found' <=> Found)
  BY <1>1, UnchangedWalk DEF WalkStays
<1>3. Total' = Total /\ Listing' = Listing
  BY <1>1, TotalStays
<1>4. (PageOf(Listing, walk.page))' = PageOf(Listing, walk.page)
  BY <1>1, <1>3 DEF PageOf
<1>5. Quiet' <=> Quiet
  BY <1>1 DEF Quiet
<1>6. QED
  BY <1>1, <1>2, <1>3, <1>4, <1>5 DEF QuietFits

\* Each step keeps what is promised of a quiet walk.
LEMMA QuietStepKeeps == OpenInv /\ QuietFits /\ ListingsStep => QuietFits'
BY PageRequestKeepsQuiet, FindPageKeepsQuiet, CountRowsKeepsQuiet, AnswerPageKeepsQuiet,
   ChangeIsNotQuiet DEF ListingsStep, OpenInv

\* Only replies are counted and not listed.
LEMMA CountedIsListed ==
    ASSUME PagesFit, Len(Listing) < Total
    PROVE  /\ query.endpoint = "findByPost"
           /\ Cardinality({i \in DOMAIN table : table[i].kind = "reply" /\ table[i].owner = query.of}) > 0
<1> DEFINE W == {i \in DOMAIN table : Counted(query, PageScope, table[i])}
           R == {i \in DOMAIN table : table[i].kind = "reply" /\ table[i].owner = query.of}
           V == Positions(query, PageScope)
<1>1. Total = Cardinality(W) /\ Len(Listing) = Cardinality(V)
  BY MatchingIs DEF Total, Listing
<1>2. table \in Seq(Row(query.endpoint))
  BY DEF PagesFit
<1>3. IsFiniteSet(R)
  <2>1. DOMAIN table = 1 .. Len(table) /\ Len(table) \in Nat
    BY <1>2
  <2>2. IsFiniteSet(DOMAIN table)
    BY <2>1, FS_Interval
  <2>3. QED
    BY <2>2, FS_Subset
<1>4. W # V
  <2>1. Len(Listing) \in Nat
    BY FiniteIds DEF AllFinite
  <2> DEFINE v == Cardinality(V)
             w == Cardinality(W)
  <2>2. v \in Nat /\ v < w
    BY <1>1, <2>1
  <2> SUFFICES ASSUME W = V PROVE FALSE
    OBVIOUS
  <2>3. v = w
    OBVIOUS
  <2> HIDE DEF v, w, V, W
  <2>4. QED
    BY ONLY <2>2, <2>3
<1>5. query.endpoint = "findByPost"
  BY <1>4 DEF Counted, Positions
<1>6. R # {}
  <2> SUFFICES ASSUME R = {} PROVE FALSE
    OBVIOUS
  <2>1. \A i \in DOMAIN table : table[i].kind \in {"top", "reply"}
    <3>1. Kinds["findByPost"] = {"top", "reply"}
      BY DEF Kinds
    <3>2. \A i \in DOMAIN table : table[i] \in Row(query.endpoint)
      BY <1>2
    <3>3. \A i \in DOMAIN table : table[i].kind \in Kinds[query.endpoint]
      BY <3>2 DEF Row
    <3>4. QED
      BY <1>5, <3>1, <3>3
  <2>2. \A i \in DOMAIN table : table[i].owner = query.of => table[i].kind = "top"
    BY <2>1
  <2>3. \A i \in DOMAIN table : Counted(query, PageScope, table[i]) <=>
                                    Selected(query, PageScope, table[i])
    BY <1>5, <2>2 DEF Counted, Selected, FindByPost
  <2>4. QED
    BY <1>4, <2>3 DEF Positions
<1>7. Cardinality(R) # 0 /\ Cardinality(R) \in Nat
  BY <1>3, <1>6, FS_EmptySet, FS_CardinalityType
<1>8. Cardinality(R) > 0
  BY <1>7
<1>9. QED
  BY <1>5, <1>8

\* At the end of a quiet walk the ids sent are those of the listing.
LEMMA QuietIsExact == PagesFit /\ ScopeStands /\ QuietFits => QuietWalkIsExact
<1> SUFFICES ASSUME PagesFit, ScopeStands, QuietFits, walk.step = "done", Quiet
             PROVE  QuietWalkIsExact
  BY DEF QuietWalkIsExact, Quiet
<1>1. QuietTypes
  BY QuietIsTyped
<1>2. walk.scope = PageScope
  BY <1>1, SMTT(30) DEF Quiet, QuietTypes, ScopeStands
<1>3. Matching(query, walk.scope) = Listing
  BY <1>2 DEF Listing
<1> DEFINE l == Len(Listing)
           n == (walk.page - 1) * limit
           m == walk.page * limit
<1>4. Found /\ Passed = m
  BY DEF Found, Passed
<1>5. /\ Len(walk.shown) = IF m < l THEN m ELSE l
      /\ \A i \in 1 .. Len(walk.shown) : walk.shown[i] = Listing[i].id
      /\ walk.data = PageOf(Listing, walk.page)
      /\ walk.page > 1 => n < Total
      /\ Total <= m
  BY <1>4 DEF QuietFits, Sent
<1>6. l \in Nat /\ m \in Nat /\ n \in Nat /\ Total \in Nat /\ l <= Total
  <2>1. l \in Nat /\ m \in Nat /\ n \in Nat
    BY FiniteIds DEF AllFinite
  <2> DEFINE W == {i \in DOMAIN table : Counted(query, PageScope, table[i])}
  <2>2. Positions(query, PageScope) \subseteq W
    <3>1. ASSUME NEW r, Selected(query, PageScope, r) PROVE Counted(query, PageScope, r)
      BY <3>1 DEF Counted, Selected, FindByPost
    <3>2. QED
      BY <3>1 DEF Positions
  <2>3. IsFiniteSet(W)
    <3>1. table \in Seq(Row(query.endpoint))
      BY DEF PagesFit
    <3>2. DOMAIN table = 1 .. Len(table) /\ Len(table) \in Nat
      BY <3>1
    <3>3. IsFiniteSet(DOMAIN table)
      BY <3>2, FS_Interval
    <3>4. QED
      BY <3>3, FS_Subset
  <2>4. l = Cardinality(Positions(query, PageScope)) /\ Total = Cardinality(W)
    BY MatchingIs DEF Listing, Total
  <2>5. QED
    BY <2>1, <2>2, <2>3, <2>4, FS_Subset, FS_CardinalityType
<1> DEFINE t == Total
           k == Len(walk.shown)
<1>7. k = l
  <2>1. k = (IF m < l THEN m ELSE l) /\ t <= m /\ l \in Nat /\ m \in Nat /\ t \in Nat /\ l <= t
    BY <1>5, <1>6
  <2> HIDE DEF k, l, m, t
  <2>2. QED
    BY ONLY <2>1
<1>8. walk.shown = [i \in DOMAIN Listing |-> Listing[i].id]
  <2>1. walk.shown \in Seq(Nat) /\ Listing \in Seq(Row(query.endpoint))
    BY <1>1 DEF QuietTypes
  <2>2. DOMAIN walk.shown = 1 .. Len(walk.shown) /\ DOMAIN Listing = 1 .. Len(walk.shown)
    BY <1>7, <2>1
  <2>3. walk.shown = [i \in 1 .. Len(walk.shown) |-> walk.shown[i]]
    BY <2>1, <2>2
  <2>4. QED
    BY <1>5, <2>2, <2>3
<1>9. ASSUME walk.data = <<>>, walk.page > 1 PROVE l < Total
  <2>1. Len(PageOf(Listing, walk.page)) = 0
    BY <1>5, <1>9
  <2>2. Len(PageOf(Listing, walk.page)) = IF l <= n THEN 0 ELSE IF l <= m THEN l - n ELSE limit
    BY <1>1, PageIs DEF QuietTypes
  <2>3. l <= n
    <3>1. limit \in Nat \ {0}
      BY <1>1 DEF QuietTypes
    <3> HIDE DEF l, n, m
    <3>2. QED
      BY <1>6, <2>1, <2>2, <3>1
  <2>4. n < t
    BY <1>5, <1>9
  <2> HIDE DEF l, n, m, t
  <2>5. l < t
    BY <1>6, <2>3, <2>4 DEF t
  <2>6. QED
    BY <2>5 DEF t
<1>10. QED
  BY <1>3, <1>8, <1>9, CountedIsListed DEF QuietWalkIsExact

----------------------------------------------------------------------------
(* Dashboards: sums.                                                       *)
(***************************************************************************)
\* Induction over a finite set, element by element.
LEMMA FiniteInduction ==
    ASSUME NEW S, IsFiniteSet(S), NEW W, {} \in W,
           \A T \in SUBSET S : \A x \in S \ T : T \in W => T \cup {x} \in W
    PROVE  S \in W
<1> DEFINE Good == {n \in Nat : \A T \in SUBSET S : Cardinality(T) = n => T \in W}
<1>1. \A T \in SUBSET S : IsFiniteSet(T) /\ Cardinality(T) \in Nat
  BY FS_Subset, FS_CardinalityType
<1>2. 0 \in Good
  BY <1>1, FS_EmptySet
<1>3. ASSUME NEW n \in Good PROVE n + 1 \in Good
  <2> SUFFICES ASSUME NEW T \in SUBSET S, Cardinality(T) = n + 1 PROVE T \in W
    OBVIOUS
  <2>0. n \in Nat /\ n + 1 # 0
    OBVIOUS
  <2>1. T # {}
    BY <2>0, FS_EmptySet
  <2>2. PICK x \in T : TRUE
    BY <2>1
  <2>3. Cardinality(T \ {x}) = n
    BY <1>1, <2>2, FS_RemoveElement
  <2>4. T \ {x} \in W /\ x \in S \ (T \ {x}) /\ T = (T \ {x}) \cup {x}
    BY <2>2, <2>3
  <2>5. QED
    BY <2>4
<1> HIDE DEF Good
<1>4. Nat \subseteq Good
  BY <1>2, <1>3, SetInduction
<1>5. QED
  BY <1>1, <1>4 DEF Good

\* How a sum is computed: one element after another, in any order.
One(s) == CHOOSE x \in s : TRUE
Sums(g, f, S) ==
    g = [s \in SUBSET S |-> IF s = {} THEN 0 ELSE f[One(s)] + g[s \ {One(s)}]]

\* One is of the set.
LEMMA OneIs == \A s : s # {} => One(s) \in s
BY DEF One

\* A sum over a set is what the first recursive function of the kind says.
LEMMA SumIsChosen ==
    ASSUME NEW f, NEW S, \E g : Sums(g, f, S)
    PROVE  \E g : Sums(g, f, S) /\ SumFunctionOnSet(f, S) = g[S]
<1> DEFINE it == CHOOSE iter : iter = [s \in SUBSET S |->
        IF s = {} THEN 0 ELSE f[CHOOSE x \in s : TRUE] + iter[s \ {CHOOSE x \in s : TRUE}]]
<1>1. SumFunctionOnSet(f, S) = it[S]
  BY Zenon DEF SumFunctionOnSet, FoldFunctionOnSet, MapThenFoldSet
<1>2. \E g : g = [s \in SUBSET S |->
        IF s = {} THEN 0 ELSE f[CHOOSE x \in s : TRUE] + g[s \ {CHOOSE x \in s : TRUE}]]
  BY Zenon DEF Sums, One
<1>3. it = [s \in SUBSET S |->
        IF s = {} THEN 0 ELSE f[CHOOSE x \in s : TRUE] + it[s \ {CHOOSE x \in s : TRUE}]]
  BY <1>2, Zenon
<1> HIDE DEF it
<1>4. Sums(it, f, S)
  BY <1>3, Zenon DEF Sums, One
<1>5. QED
  BY <1>1, <1>4

\* All functions of the kind agree on the sets that they share.
LEMMA SumsUnique ==
    ASSUME NEW f, NEW S, IsFiniteSet(S), NEW T \in SUBSET S, NEW g, NEW h,
           Sums(g, f, S), Sums(h, f, T)
    PROVE  g[T] = h[T]
<1> DEFINE Good == {n \in Nat : \A t \in SUBSET T : Cardinality(t) = n => g[t] = h[t]}
<1>1. \A t \in SUBSET T : IsFiniteSet(t) /\ Cardinality(t) \in Nat
  BY FS_Subset, FS_CardinalityType
<1>a. /\ \A s \in SUBSET S : g[s] = IF s = {} THEN 0 ELSE f[One(s)] + g[s \ {One(s)}]
      /\ \A s \in SUBSET T : h[s] = IF s = {} THEN 0 ELSE f[One(s)] + h[s \ {One(s)}]
  BY DEF Sums
<1>2. 0 \in Good
  <2>1. g[{}] = 0 /\ h[{}] = 0
    BY <1>a
  <2>2. QED
    BY <1>1, <2>1, FS_EmptySet
<1>3. ASSUME NEW n \in Good PROVE n + 1 \in Good
  <2> SUFFICES ASSUME NEW t \in SUBSET T, Cardinality(t) = n + 1 PROVE g[t] = h[t]
    OBVIOUS
  <2>1. t # {}
    BY FS_EmptySet
  <2>2. One(t) \in t
    BY <2>1, OneIs
  <2>3. Cardinality(t \ {One(t)}) = n
    BY <1>1, <2>2, FS_RemoveElement
  <2>4. g[t \ {One(t)}] = h[t \ {One(t)}]
    BY <2>3
  <2>5. g[t] = f[One(t)] + g[t \ {One(t)}] /\ h[t] = f[One(t)] + h[t \ {One(t)}]
    BY <1>a, <2>1
  <2>6. QED
    BY <2>4, <2>5
<1> HIDE DEF Good
<1>4. Nat \subseteq Good
  BY <1>2, <1>3, SetInduction
<1>5. QED
  BY <1>1, <1>4 DEF Good

\* The n first steps of all sums.
LEMMA SumsExist ==
    ASSUME NEW S, IsFiniteSet(S), NEW f, \A x \in S : f[x] \in Nat
    PROVE  \E g \in [SUBSET S -> Nat] : Sums(g, f, S)
<1> DEFINE H == [SUBSET S -> Nat]
           next(h) == [s \in SUBSET S |-> IF s = {} THEN 0 ELSE f[One(s)] + h[s \ {One(s)}]]
           step == [p \in Nat \X H |-> next(p[2])]
           base == [s \in SUBSET S |-> 0]
           N == Cardinality(S)
<1>1. N \in Nat /\ \A s \in SUBSET S : IsFiniteSet(s) /\ Cardinality(s) \in Nat /\ Cardinality(s) <= N
  BY FS_Subset, FS_CardinalityType
<1>2. \A s \in SUBSET S : s # {} => One(s) \in S /\ s \ {One(s)} \in SUBSET S
  BY OneIs
<1>3. \A h \in H : next(h) \in H
  BY <1>2
<1>4. step \in [Nat \X H -> H] /\ base \in H
  BY <1>3
<1>5. PICK u : Unfolds(u, N + 1, H, base, step)
  <2> HIDE DEF H, step, base, N
  <2>1. N + 1 \in Nat
    BY <1>1
  <2>2. QED
    BY <1>4, <2>1, UnfoldsExists
<1>6. /\ u \in [0 .. N + 1 -> H] /\ u[0] = base
      /\ \A i \in 1 .. N + 1 : u[i] = next(u[i - 1])
  <2>1. u \in [0 .. N + 1 -> H] /\ u[0] = base /\ \A i \in 1 .. N + 1 : u[i] = step[<<i, u[i - 1]>>]
    BY <1>5 DEF Unfolds
  <2>2. ASSUME NEW i \in 1 .. N + 1 PROVE u[i] = next(u[i - 1])
    <3>1. i \in Nat /\ i - 1 \in 0 .. N + 1
      BY <1>1
    <3>2. u[i - 1] \in H
      BY <2>1, <3>1
    <3>3. step[<<i, u[i - 1]>>] = next(u[i - 1])
      <4> HIDE DEF H, next
      <4>1. QED
        BY <3>1, <3>2
    <3>4. QED
      BY <2>1, <3>3
  <2>3. QED
    BY <2>1, <2>2
<1> DEFINE Good == {n \in Nat : n <= N => \A s \in SUBSET S : Cardinality(s) <= n => u[n][s] = u[n + 1][s]}
<1>7. \A i \in 0 .. N : \A s \in SUBSET S :
          u[i + 1][s] = IF s = {} THEN 0 ELSE f[One(s)] + u[i][s \ {One(s)}]
  <2> SUFFICES ASSUME NEW i \in 0 .. N
               PROVE  u[i + 1] = next(u[i])
    OBVIOUS
  <2>1. i + 1 \in 1 .. N + 1 /\ (i + 1) - 1 = i
    BY <1>1
  <2> HIDE DEF next
  <2>2. QED
    BY <1>6, <2>1
<1>8. 0 \in Good
  <2> SUFFICES ASSUME NEW s \in SUBSET S, Cardinality(s) <= 0 PROVE u[0][s] = u[0 + 1][s]
    OBVIOUS
  <2>1. s = {}
    BY <1>1, FS_EmptySet
  <2>2. u[0][s] = 0
    BY <1>6
  <2>a. 0 \in 0 .. N
    BY <1>1
  <2>3. u[0 + 1][s] = 0
    BY <1>7, <2>1, <2>a
  <2>4. QED
    BY <2>2, <2>3
<1>9. ASSUME NEW n \in Good PROVE n + 1 \in Good
  <2> SUFFICES ASSUME n + 1 <= N, NEW s \in SUBSET S, Cardinality(s) <= n + 1
               PROVE  u[n + 1][s] = u[(n + 1) + 1][s]
    OBVIOUS
  <2>1. n \in 0 .. N /\ n + 1 \in 0 .. N
    BY <1>1
  <2>2. /\ u[n + 1][s] = IF s = {} THEN 0 ELSE f[One(s)] + u[n][s \ {One(s)}]
        /\ u[(n + 1) + 1][s] = IF s = {} THEN 0 ELSE f[One(s)] + u[n + 1][s \ {One(s)}]
    BY <1>7, <2>1
  <2>3. CASE s = {}
    BY <2>2, <2>3
  <2>4. CASE s # {}
    <3>1. One(s) \in s
      BY <2>4, OneIs
    <3>2. Cardinality(s \ {One(s)}) <= n
      <4>1. Cardinality(s \ {One(s)}) = Cardinality(s) - 1
        BY <1>1, <3>1, FS_RemoveElement
      <4>2. QED
        BY <1>1, <4>1
    <3>3. u[n][s \ {One(s)}] = u[n + 1][s \ {One(s)}]
      BY <2>1, <3>2
    <3>4. QED
      BY <2>2, <3>3
  <2>5. QED
    BY <2>3, <2>4
<1>10. Nat \subseteq Good
  <2> HIDE DEF Good
  <2>1. QED
    BY <1>8, <1>9, SetInduction
<1>11. \A s \in SUBSET S : u[N][s] = u[N + 1][s]
  <2>1. N \in Good /\ N <= N
    BY <1>1, <1>10
  <2>2. QED
    BY <1>1, <2>1
<1>12. \A s \in SUBSET S : u[N][s] = IF s = {} THEN 0 ELSE f[One(s)] + u[N][s \ {One(s)}]
  <2>1. N \in 0 .. N
    BY <1>1
  <2>2. QED
    BY <1>7, <1>11, <2>1
<1>13. u[N] \in [SUBSET S -> Nat]
  <2>1. N \in 0 .. N + 1
    BY <1>1
  <2>2. u[N] \in H
    <3> HIDE DEF H, N, next
    <3>1. QED
      BY <1>6, <2>1
  <2>3. QED
    BY <2>2
<1> DEFINE w == u[N]
<1>14. Sums(w, f, S)
  <2>1. w \in [SUBSET S -> Nat] /\ \A s \in SUBSET S : w[s] = IF s = {} THEN 0 ELSE f[One(s)] + w[s \ {One(s)}]
    BY <1>12, <1>13
  <2> HIDE DEF w
  <2>2. QED
    BY <2>1 DEF Sums
<1>15. QED
  BY <1>13, <1>14

\* f has numbers on S.
Numbers(f, S) == IsFiniteSet(S) /\ \A x \in S : f[x] \in Nat

SumsUp(g, f, S) ==
    /\ g \in [SUBSET S -> Nat] /\ Sums(g, f, S)
    /\ \A T \in SUBSET S : SumFunctionOnSet(f, T) = g[T]

\* There is a function of the kind.
LEMMA SumIs ==
    ASSUME NEW S, NEW f, Numbers(f, S)
    PROVE  \E g : SumsUp(g, f, S)
<1>1. PICK g \in [SUBSET S -> Nat] : Sums(g, f, S)
  BY SumsExist DEF Numbers
<1>2. ASSUME NEW T \in SUBSET S PROVE SumFunctionOnSet(f, T) = g[T]
  <2>1. IsFiniteSet(T) /\ \A x \in T : f[x] \in Nat
    BY FS_Subset DEF Numbers
  <2>2. \E h : Sums(h, f, T)
    BY <2>1, SumsExist
  <2>3. PICK h : Sums(h, f, T) /\ SumFunctionOnSet(f, T) = h[T]
    BY <2>2, SumIsChosen
  <2>4. IsFiniteSet(S)
    BY DEF Numbers
  <2>5. g[T] = h[T]
    BY <1>1, <2>3, <2>4, SumsUnique
  <2>6. QED
    BY <2>3, <2>5
<1>3. QED
  BY <1>1, <1>2 DEF SumsUp

\* An empty sum, and any element of a sum.
LEMMA SumOfNone == ASSUME NEW f PROVE SumFunctionOnSet(f, {}) = 0
<1>1. Numbers(f, {})
  BY FS_EmptySet DEF Numbers
<1>2. PICK g : SumsUp(g, f, {})
  BY <1>1, SumIs
<1>3. g[{}] = 0
  BY <1>2 DEF Sums, SumsUp
<1>4. QED
  BY <1>2, <1>3 DEF SumsUp

\* A sum is a number; and each summand and the rest make the sum.
LEMMA SumSplits ==
    ASSUME NEW S, NEW f, Numbers(f, S)
    PROVE  \A T \in SUBSET S :
               /\ SumFunctionOnSet(f, T) \in Nat
               /\ \A x \in T : SumFunctionOnSet(f, T) = f[x] + SumFunctionOnSet(f, T \ {x})
<1>0. PICK g : SumsUp(g, f, S)
  BY SumIs
<1>1. /\ g \in [SUBSET S -> Nat] /\ Sums(g, f, S)
      /\ \A T \in SUBSET S : SumFunctionOnSet(f, T) = g[T]
  BY <1>0 DEF SumsUp
<1>2. \A T \in SUBSET S : g[T] = IF T = {} THEN 0 ELSE f[One(T)] + g[T \ {One(T)}]
  BY <1>1 DEF Sums
<1>3. \A T \in SUBSET S : IsFiniteSet(T) /\ Cardinality(T) \in Nat /\ g[T] \in Nat
  BY <1>1, FS_Subset, FS_CardinalityType DEF Numbers
<1> DEFINE Good == {n \in Nat : \A T \in SUBSET S : Cardinality(T) = n =>
                        \A x \in T : g[T] = f[x] + g[T \ {x}]}
<1>4. 0 \in Good
  <2>1. \A T \in SUBSET S : Cardinality(T) = 0 => T = {}
    BY <1>3, FS_EmptySet
  <2>2. QED
    BY <2>1
<1>5. ASSUME NEW n \in Good PROVE n + 1 \in Good
  <2>a. n \in Nat /\ n + 1 \in Nat
    OBVIOUS
  <2> SUFFICES ASSUME NEW T \in SUBSET S, Cardinality(T) = n + 1, NEW x \in T
               PROVE  g[T] = f[x] + g[T \ {x}]
    BY <2>a, Zenon
  <2> DEFINE c == One(T)
  <2>1. c \in T /\ g[T] = f[c] + g[T \ {c}]
    BY <1>2, OneIs
  <2> HIDE DEF c
  <2>2. CASE c = x
    BY <2>1, <2>2
  <2>3. CASE c # x
    <3> DEFINE U == (T \ {c}) \ {x}
    <3>1. Cardinality(T \ {c}) = n /\ Cardinality(T \ {x}) = n
      <4>1. n \in Nat /\ IsFiniteSet(T)
        BY <1>3
      <4>2. Cardinality(T \ {c}) = Cardinality(T) - 1 /\ Cardinality(T \ {x}) = Cardinality(T) - 1
        BY <2>1, <4>1, FS_RemoveElement
      <4>3. QED
        BY <4>1, <4>2
    <3>2. g[T \ {c}] = f[x] + g[U]
      BY <2>3, <3>1
    <3>3. g[T \ {x}] = f[c] + g[(T \ {x}) \ {c}]
      BY <2>1, <2>3, <3>1
    <3>4. (T \ {x}) \ {c} = U /\ U \in SUBSET S
      OBVIOUS
    <3>5. f[x] \in Nat /\ f[c] \in Nat /\ g[U] \in Nat
      BY <1>3, <2>1, <3>4 DEF Numbers
    <3>6. g[T] = f[c] + (f[x] + g[U]) /\ g[T \ {x}] = f[c] + g[U]
      BY <2>1, <3>2, <3>3, <3>4
    <3> HIDE DEF U
    <3> DEFINE a == f[c]
               b == f[x]
               u == g[U]
    <3>7. a + (b + u) = b + (a + u)
      <4>1. a \in Nat /\ b \in Nat /\ u \in Nat
        BY <3>5
      <4> HIDE DEF a, b, u
      <4>2. QED
        BY <4>1
    <3>8. QED
      BY <3>6, <3>7
  <2>4. QED
    BY <2>2, <2>3
<1> HIDE DEF Good
<1>6. Nat \subseteq Good
  BY <1>4, <1>5, SetInduction
<1>7. \A T \in SUBSET S : \A x \in T : g[T] = f[x] + g[T \ {x}]
  BY <1>3, <1>6 DEF Good
<1>8. QED
  BY <1>1, <1>3, <1>7

\* A sum gains what is added.
LEMMA SumGains ==
    ASSUME NEW S, NEW f, Numbers(f, S), NEW T \in SUBSET S, NEW x \in S \ T
    PROVE  SumFunctionOnSet(f, T \cup {x}) = f[x] + SumFunctionOnSet(f, T)
<1>1. T \cup {x} \in SUBSET S /\ x \in T \cup {x} /\ (T \cup {x}) \ {x} = T
  OBVIOUS
<1>2. QED
  BY <1>1, SumSplits

\* The sum over two sets apart.
LEMMA SumOfTwo ==
    ASSUME NEW S, NEW f, Numbers(f, S), NEW A \in SUBSET S, NEW B \in SUBSET S, A \cap B = {}
    PROVE  SumFunctionOnSet(f, A \cup B) = SumFunctionOnSet(f, A) + SumFunctionOnSet(f, B)
<1> DEFINE sum(T) == SumFunctionOnSet(f, T)
           W == {T \in SUBSET B : sum(A \cup T) = sum(A) + sum(T)}
<1>1. IsFiniteSet(B)
  BY FS_Subset DEF Numbers
<1>2. \A T \in SUBSET S : sum(T) \in Nat
  BY SumSplits
<1>3. {} \in W
  <2>1. sum({}) = 0 /\ A \cup {} = A /\ sum(A) \in Nat
    BY <1>2, SumOfNone
  <2> HIDE DEF sum
  <2>2. QED
    BY <2>1
<1>4. ASSUME NEW T \in SUBSET B, NEW x \in B \ T, T \in W PROVE T \cup {x} \in W
  <2>1. sum(T \cup {x}) = f[x] + sum(T)
    BY SumGains
  <2>2. A \cup T \in SUBSET S /\ x \in S \ (A \cup T) /\ (A \cup T) \cup {x} = A \cup (T \cup {x})
    OBVIOUS
  <2>3. sum(A \cup (T \cup {x})) = f[x] + sum(A \cup T)
    BY <2>2, SumGains
  <2>4. sum(A \cup T) = sum(A) + sum(T)
    BY <1>4
  <2>5. f[x] \in Nat /\ sum(A) \in Nat /\ sum(T) \in Nat
    BY <1>2 DEF Numbers
  <2> HIDE DEF sum
  <2>6. sum(A \cup (T \cup {x})) = sum(A) + sum(T \cup {x})
    BY ONLY <2>1, <2>3, <2>4, <2>5
  <2>7. QED
    BY <2>6
<1> HIDE DEF W
<1>5. B \in W
  BY <1>1, <1>3, <1>4, FiniteInduction
<1>6. QED
  BY <1>5 DEF W

\* The sum of multiples is the multiple of the sum.
LEMMA SumScales ==
    ASSUME NEW S, NEW f, Numbers(f, S), NEW g, NEW k \in Nat, \A x \in S : g[x] = k * f[x]
    PROVE  /\ Numbers(g, S) /\ SumFunctionOnSet(f, S) \in Nat
           /\ SumFunctionOnSet(g, S) = k * SumFunctionOnSet(f, S)
<1>1. Numbers(g, S)
  BY DEF Numbers
<1> DEFINE F(T) == SumFunctionOnSet(f, T)
           G(T) == SumFunctionOnSet(g, T)
           W == {T \in SUBSET S : G(T) = k * F(T)}
<1>2. \A T \in SUBSET S : F(T) \in Nat /\ G(T) \in Nat
  BY <1>1, SumSplits
<1>3. {} \in W
  <2>1. F({}) = 0 /\ G({}) = 0
    BY SumOfNone
  <2> HIDE DEF F, G
  <2>2. QED
    BY <2>1
<1>4. ASSUME NEW T \in SUBSET S, NEW x \in S \ T, T \in W PROVE T \cup {x} \in W
  <2>1. F(T \cup {x}) = f[x] + F(T) /\ G(T \cup {x}) = g[x] + G(T)
    BY <1>1, SumGains
  <2>2. G(T) = k * F(T) /\ F(T) \in Nat /\ f[x] \in Nat /\ g[x] = k * f[x]
    BY <1>2, <1>4 DEF Numbers
  <2> HIDE DEF F, G
  <2> DEFINE a == f[x]
             b == F(T)
  <2>3. k * (a + b) = k * a + k * b
    <3>1. a \in Nat /\ b \in Nat
      BY <2>2
    <3> HIDE DEF a, b
    <3>2. QED
      BY <3>1
  <2>4. G(T \cup {x}) = k * F(T \cup {x})
    BY <2>1, <2>2, <2>3
  <2>5. QED
    BY <2>4
<1> HIDE DEF W
<1>5. S \in W
  BY <1>3, <1>4, FiniteInduction DEF Numbers
<1>6. QED
  BY <1>1, <1>2, <1>5 DEF W

\* The elements of R that have a label of T.
Labelled(R, h, T) == {i \in R : h[i] \in T}

\* Summed label by label, or all at once.
LEMMA SumByLabel ==
    ASSUME NEW R, NEW f, Numbers(f, R), NEW h, NEW S, IsFiniteSet(S), NEW G,
           \A d \in S : G[d] = SumFunctionOnSet(f, Labelled(R, h, {d}))
    PROVE  /\ Numbers(G, S)
           /\ SumFunctionOnSet(G, S) = SumFunctionOnSet(f, Labelled(R, h, S))
<1> DEFINE L(T) == Labelled(R, h, T)
           sum(T) == SumFunctionOnSet(f, T)
           W == {T \in SUBSET S : SumFunctionOnSet(G, T) = sum(L(T))}
<1>1. Numbers(G, S)
  <2>1. ASSUME NEW d \in S PROVE G[d] \in Nat
    <3>1. Labelled(R, h, {d}) \in SUBSET R
      BY DEF Labelled
    <3>2. SumFunctionOnSet(f, Labelled(R, h, {d})) \in Nat
      BY <3>1, SumSplits
    <3>3. QED
      BY <3>2
  <2>2. QED
    BY <2>1 DEF Numbers
<1>2. {} \in W
  <2>1. L({}) = {}
    BY DEF Labelled
  <2>2. QED
    BY <2>1, SumOfNone
<1>3. ASSUME NEW T \in SUBSET S, NEW d \in S \ T, T \in W PROVE T \cup {d} \in W
  <2>1. SumFunctionOnSet(G, T \cup {d}) = G[d] + SumFunctionOnSet(G, T)
    BY <1>1, SumGains
  <2> DEFINE A == L(T)
             B == Labelled(R, h, {d})
  <2>2. L(T \cup {d}) = B \cup A /\ B \cap A = {} /\ A \in SUBSET R /\ B \in SUBSET R
    BY DEF Labelled
  <2> HIDE DEF A, B
  <2>3. SumFunctionOnSet(f, B \cup A) = SumFunctionOnSet(f, B) + SumFunctionOnSet(f, A)
    BY <2>2, SumOfTwo
  <2>4. G[d] = SumFunctionOnSet(f, B) /\ SumFunctionOnSet(G, T) = SumFunctionOnSet(f, A)
    BY <1>3 DEF A, B
  <2>5. SumFunctionOnSet(G, T \cup {d}) = sum(L(T \cup {d}))
    BY <2>1, <2>2, <2>3, <2>4
  <2>6. QED
    BY <2>5
<1> HIDE DEF W
<1>4. S \in W
  BY <1>2, <1>3, FiniteInduction
<1>5. QED
  BY <1>1, <1>4 DEF W

\* Counted label by label, or all at once.
LEMMA CountByLabel ==
    ASSUME NEW R, IsFiniteSet(R), NEW h, NEW S, IsFiniteSet(S), NEW G,
           \A d \in S : G[d] = Cardinality(Labelled(R, h, {d}))
    PROVE  SumFunctionOnSet(G, S) = Cardinality(Labelled(R, h, S))
<1> DEFINE L(T) == Labelled(R, h, T)
           W == {T \in SUBSET S : SumFunctionOnSet(G, T) = Cardinality(L(T))}
<1>0. \A T \in SUBSET R : IsFiniteSet(T) /\ Cardinality(T) \in Nat
  BY FS_Subset, FS_CardinalityType
<1>1. Numbers(G, S)
  BY <1>0 DEF Numbers, Labelled
<1>2. {} \in W
  <2>1. L({}) = {}
    BY DEF Labelled
  <2>2. QED
    BY <2>1, SumOfNone, FS_EmptySet
<1>3. ASSUME NEW T \in SUBSET S, NEW d \in S \ T, T \in W PROVE T \cup {d} \in W
  <2>1. SumFunctionOnSet(G, T \cup {d}) = G[d] + SumFunctionOnSet(G, T)
    BY <1>1, SumGains
  <2> DEFINE A == L(T)
             B == Labelled(R, h, {d})
  <2>2. L(T \cup {d}) = B \cup A /\ B \cap A = {} /\ A \in SUBSET R /\ B \in SUBSET R
    BY DEF Labelled
  <2>3. G[d] = Cardinality(B) /\ SumFunctionOnSet(G, T) = Cardinality(A)
    BY <1>3
  <2> HIDE DEF A, B
  <2>4. Cardinality(B \cup A) = Cardinality(B) + Cardinality(A)
    <3>1. /\ IsFiniteSet(B) /\ IsFiniteSet(A) /\ Cardinality(A) \in Nat /\ Cardinality(B) \in Nat
          /\ Cardinality(B \cap A) = 0
      BY <1>0, <2>2, FS_EmptySet
    <3>2. Cardinality(B \cup A) = Cardinality(B) + Cardinality(A) - Cardinality(B \cap A)
      BY <3>1, FS_Union
    <3>3. QED
      BY <3>1, <3>2
  <2>5. SumFunctionOnSet(G, T \cup {d}) = Cardinality(L(T \cup {d}))
    BY <2>1, <2>2, <2>3, <2>4
  <2>6. QED
    BY <2>5
<1> HIDE DEF W
<1>4. S \in W
  BY <1>2, <1>3, FiniteInduction
<1>5. QED
  BY <1>4 DEF W

----------------------------------------------------------------------------
(* Dashboards: the calendar and charts.                                    *)
(***************************************************************************)
\* The calendar.
LEMMA MonthsHaveDays == \A m \in Nat : MonthLength(m) \in 28 .. 31
<1> SUFFICES ASSUME NEW m \in Nat PROVE MonthLength(m) \in 28 .. 31
  OBVIOUS
<1>1. (m % 12) + 1 \in 1 .. 12
  OBVIOUS
<1>2. \A i \in 1 .. 12 : Lengths[i] \in 28 .. 31
  BY DEF Lengths
<1>3. QED
  BY <1>1, <1>2 DEF MonthLength

\* The recursion of FirstDay defines a function.
LEMMA FirstDayExists ==
    \E g : g = [m \in Nat |-> IF m = 0 THEN 0 ELSE g[m - 1] + MonthLength(m - 1)]
<1> DEFINE step == [p \in Nat \X Nat |-> IF p[1] = 0 THEN 0 ELSE p[2] + MonthLength(p[1] - 1)]
           u(n) == CHOOSE f : Unfolds(f, n, Nat, 0, step)
           g == [n \in Nat |-> u(n)[n]]
<1>1. step \in [Nat \X Nat -> Nat]
  BY MonthsHaveDays
<1>2. ASSUME NEW n \in Nat PROVE Unfolds(u(n), n, Nat, 0, step)
  <2>1. \E f : Unfolds(f, n, Nat, 0, step)
    <3> HIDE DEF step
    <3>1. QED
      BY <1>1, UnfoldsExists
  <2>2. QED
    BY <2>1
<1> HIDE DEF u
<1>3. ASSUME NEW m \in Nat PROVE g[m] = IF m = 0 THEN 0 ELSE g[m - 1] + MonthLength(m - 1)
  <2>1. CASE m = 0
    BY <1>2, <2>1 DEF Unfolds
  <2>2. CASE m # 0
    <3>1. m - 1 \in Nat /\ m \in 1 .. m /\ m - 1 <= m - 1 /\ m - 1 <= m
      BY <2>2
    <3>2. u(m)[m] = step[<<m, u(m)[m - 1]>>]
      <4> HIDE DEF step
      <4>1. QED
        BY <1>2, <3>1 DEF Unfolds
    <3>3. u(m)[m - 1] \in Nat
      BY <1>2, <3>1 DEF Unfolds
    <3>4. u(m)[m - 1] = u(m - 1)[m - 1]
      <4> HIDE DEF step
      <4>1. Unfolds(u(m), m, Nat, 0, step) /\ Unfolds(u(m - 1), m - 1, Nat, 0, step)
        BY <1>2, <3>1
      <4>2. QED
        BY <3>1, <4>1, UnfoldsUnique
    <3>5. step[<<m, u(m)[m - 1]>>] = u(m)[m - 1] + MonthLength(m - 1)
      BY <2>2, <3>3
    <3>6. QED
      BY <2>2, <3>1, <3>2, <3>4, <3>5
  <2>3. QED
    BY <2>1, <2>2
<1> DEFINE G == g
<1>4. G = [n \in Nat |-> G[n]]
  OBVIOUS
<1>5. \A m \in Nat : G[m] = IF m = 0 THEN 0 ELSE G[m - 1] + MonthLength(m - 1)
  BY <1>3
<1> HIDE DEF G
<1>6. G = [m \in Nat |-> IF m = 0 THEN 0 ELSE G[m - 1] + MonthLength(m - 1)]
  BY <1>4, <1>5
<1>7. QED
  BY <1>6

\* Month after month, the first days.
LEMMA FirstDayIs ==
    /\ FirstDay[0] = 0
    /\ \A m \in Nat : FirstDay[m] \in Nat /\ FirstDay[m + 1] = FirstDay[m] + MonthLength(m)
<1>1. FirstDay = [m \in Nat |-> IF m = 0 THEN 0 ELSE FirstDay[m - 1] + MonthLength(m - 1)]
  BY FirstDayExists, Zenon DEF FirstDay
<1>2. FirstDay[0] = 0
  BY <1>1
<1>3. ASSUME NEW m \in Nat PROVE FirstDay[m + 1] = FirstDay[m] + MonthLength(m)
  <2>1. m + 1 \in Nat /\ m + 1 # 0 /\ (m + 1) - 1 = m
    OBVIOUS
  <2>2. FirstDay[m + 1] = FirstDay[(m + 1) - 1] + MonthLength((m + 1) - 1)
    BY <1>1, <2>1
  <2>3. QED
    BY <2>1, <2>2
<1> DEFINE Good == {m \in Nat : FirstDay[m] \in Nat}
<1>4. \A m \in Good : m + 1 \in Good
  BY <1>3, MonthsHaveDays
<1>5. 0 \in Good
  BY <1>2
<1> HIDE DEF Good
<1>6. Nat \subseteq Good
  BY <1>4, <1>5, SetInduction
<1>7. QED
  BY <1>2, <1>3, <1>6 DEF Good

\* Months have 28 days at least.
LEMMA FirstDaysRise ==
    \A m, n \in Nat : m <= n => FirstDay[m] + 28 * (n - m) <= FirstDay[n]
<1> SUFFICES ASSUME NEW m \in Nat
             PROVE  \A n \in Nat : m <= n => FirstDay[m] + 28 * (n - m) <= FirstDay[n]
  OBVIOUS
<1> DEFINE Good == {n \in Nat : m <= n => FirstDay[m] + 28 * (n - m) <= FirstDay[n]}
<1>1. 0 \in Good
  BY FirstDayIs
<1>2. ASSUME NEW n \in Good PROVE n + 1 \in Good
  <2>1. FirstDay[n + 1] = FirstDay[n] + MonthLength(n) /\ FirstDay[n] \in Nat /\ FirstDay[m] \in Nat
        /\ MonthLength(n) \in 28 .. 31
    BY FirstDayIs, MonthsHaveDays
  <2>2. CASE m <= n
    BY <2>1, <2>2
  <2>3. CASE m = n + 1
    BY <2>1, <2>3
  <2>4. QED
    BY <2>2, <2>3
<1> HIDE DEF Good
<1>3. Nat \subseteq Good
  BY <1>1, <1>2, SetInduction
<1>4. QED
  BY <1>3 DEF Good

\* A day is of one month.
LEMMA MonthOfIs ==
    ASSUME NEW day \in Nat
    PROVE  /\ MonthOf(day) \in Nat
           /\ FirstDay[MonthOf(day)] <= day /\ day < FirstDay[MonthOf(day) + 1]
           /\ \A m \in Nat : FirstDay[m] <= day /\ day < FirstDay[m + 1] => m = MonthOf(day)
<1> DEFINE T == {m \in Nat : day < FirstDay[m + 1]}
           F == FirstDay
<1>a. F[0] = 0
  BY FirstDayIs
<1>b. \A m \in Nat : F[m] \in Nat
  BY FirstDayIs
<1>c. \A m, n \in Nat : m <= n => F[m] + 28 * (n - m) <= F[n]
  BY FirstDaysRise
<1> HIDE DEF F
<1>1. day < F[day + 1]
  <2>1. day + 1 \in Nat /\ 0 <= day + 1
    OBVIOUS
  <2>2. F[0] + 28 * ((day + 1) - 0) <= F[day + 1] /\ F[day + 1] \in Nat
    BY <1>b, <1>c, <2>1
  <2>3. QED
    BY <1>a, <2>2
<1>2. PICK m \in T : \A n \in T : m <= n
  <2>1. T \in SUBSET Nat /\ day \in T
    BY <1>1 DEF F
  <2> HIDE DEF T
  <2>2. QED
    BY <2>1, Least
<1>3. m \in Nat /\ day < F[m + 1]
  BY <1>2 DEF F
<1>4. F[m] <= day
  <2>1. CASE m = 0
    BY <1>a, <2>1
  <2>2. CASE m # 0
    <3>1. m - 1 \in Nat /\ ~(m <= m - 1) /\ (m - 1) + 1 = m
      BY <1>3, <2>2
    <3>2. ~(day < F[m])
      BY <1>2, <3>1 DEF F
    <3>3. F[m] \in Nat
      BY <1>b, <1>3
    <3>4. QED
      BY <3>2, <3>3
  <2>3. QED
    BY <2>1, <2>2
<1>5. m \in 0 .. (day \div 28)
  <2>0. 0 \in Nat /\ m \in Nat /\ 0 <= m
    BY <1>3
  <2>a. F[0] + 28 * (m - 0) <= F[m]
    BY ONLY <1>c, <2>0
  <2>1. F[0] + 28 * (m - 0) <= F[m] /\ F[m] \in Nat
    BY <1>b, <2>0, <2>a
  <2>2. 28 * m <= day
    BY <1>a, <1>3, <1>4, <2>1
  <2>3. QED
    BY <1>3, <2>2
<1>6. /\ MonthOf(day) \in 0 .. (day \div 28)
      /\ F[MonthOf(day)] <= day /\ day < F[MonthOf(day) + 1]
  BY <1>3, <1>4, <1>5 DEF MonthOf, F
<1>7. MonthOf(day) \in Nat
  BY <1>6
<1>8. ASSUME NEW n \in Nat, NEW k \in Nat, F[n] <= day, day < F[n + 1], F[k] <= day, day < F[k + 1]
      PROVE  n = k
  <2>1. CASE n < k
    <3>0. n + 1 \in Nat /\ n + 1 <= k
      BY <2>1
    <3>1. F[n + 1] + 28 * (k - (n + 1)) <= F[k]
      BY <1>c, <3>0
    <3>2. F[n + 1] \in Nat /\ F[k] \in Nat
      BY <1>b, <3>0
    <3>3. QED
      BY <1>8, <2>1, <3>1, <3>2
  <2>2. CASE k < n
    <3>0. k + 1 \in Nat /\ k + 1 <= n
      BY <2>2
    <3>1. F[k + 1] + 28 * (n - (k + 1)) <= F[n]
      BY <1>c, <3>0
    <3>2. F[k + 1] \in Nat /\ F[n] \in Nat
      BY <1>b, <3>0
    <3>3. QED
      BY <1>8, <2>2, <3>1, <3>2
  <2>3. QED
    BY <2>1, <2>2
<1>9. QED
  BY <1>6, <1>7, <1>8 DEF F

\* Whole days.
LEMMA DivIs ==
    ASSUME NEW t \in Nat \ {0}, NEW x \in Int, NEW y \in Int
    PROVE  /\ x \div t \in Int
           /\ x >= y * t <=> x \div t >= y
           /\ x <= y => x \div t <= y \div t
           /\ (x + y * t) \div t = x \div t + y
<1>1. /\ x \div t \in Int /\ (x \div t) * t <= x /\ x < (x \div t + 1) * t
      /\ y \div t \in Int /\ (y \div t) * t <= y /\ y < (y \div t + 1) * t
  OBVIOUS
<1>2. x >= y * t <=> x \div t >= y
  OBVIOUS
<1>3. x <= y => x \div t <= y \div t
  OBVIOUS
<1>4. (x + y * t) \div t = x \div t + y
  OBVIOUS
<1>5. QED
  BY <1>1, <1>2, <1>3, <1>4

\* The types of the rows that figures are made of.
LEMMA FiguresTyped ==
    ASSUME DashboardsTypeOK
    PROVE  /\ TicksPerDay \in Nat \ {0} /\ zone \in Int /\ now \in Nat
           /\ facts \in Seq(Fact) /\ DOMAIN facts = 1 .. Len(facts) /\ Len(facts) \in Nat
           /\ IsFiniteSet(DOMAIN facts)
           /\ \A rows \in SUBSET DOMAIN facts : IsFiniteSet(rows) /\ Cardinality(rows) \in Nat
           /\ \A i \in DOMAIN facts :
                  /\ facts[i] \in Fact /\ facts[i].born \in Nat /\ facts[i].born <= now
                  /\ facts[i].of \in Creators /\ facts[i].amount \in Nat
                  /\ facts[i].table \notin {"follow", "sale"} => facts[i].status = "done"
<1>1. TicksPerDay \in Nat \ {0} /\ zone \in Int /\ now \in Nat /\ facts \in Seq(Fact)
  BY DashboardsAssumption DEF DashboardsTypeOK
<1>2. DOMAIN facts = 1 .. Len(facts) /\ Len(facts) \in Nat
  BY <1>1
<1>3. IsFiniteSet(DOMAIN facts)
  BY <1>2, FS_Interval
<1>4. \A rows \in SUBSET DOMAIN facts : IsFiniteSet(rows) /\ Cardinality(rows) \in Nat
  BY <1>3, FS_Subset, FS_CardinalityType
<1>5. ASSUME NEW i \in DOMAIN facts
      PROVE  /\ facts[i] \in Fact /\ facts[i].born \in Nat /\ facts[i].born <= now
             /\ facts[i].of \in Creators /\ facts[i].amount \in Nat
             /\ facts[i].table \notin {"follow", "sale"} => facts[i].status = "done"
  <2>1. facts[i] \in Fact /\ facts[i].born <= now
    BY <1>1 DEF DashboardsTypeOK
  <2>2. /\ facts[i].born \in Moments /\ facts[i].of \in Creators
        /\ facts[i].amount \in {0} \cup Amounts
        /\ facts[i].table \notin {"follow", "sale"} => facts[i].status = "done"
    BY <2>1 DEF Fact
  <2>3. Moments \subseteq Nat /\ Amounts \subseteq Nat
    BY DashboardsAssumption
  <2>4. facts[i].born \in Nat
    BY <2>2, <2>3
  <2>6. facts[i].amount \in Nat
    <3>1. {0} \cup Amounts \subseteq Nat
      BY <2>3
    <3>2. QED
      BY <2>2, <3>1
  <2>5. QED
    BY <2>1, <2>2, <2>4, <2>6
<1>6. QED
  BY <1>1, <1>2, <1>3, <1>4, <1>5

\* The dates that a chart has.
LEMMA LabelsAre ==
    ASSUME DashboardsTypeOK
    PROVE  /\ ChartSince \in Int /\ UtcDay(ChartSince) \in Int
           /\ UtcDay(LocalMidnight(LocalDay(now))) = UtcDay(ChartSince) + 13
           /\ Labels = UtcDay(ChartSince) .. UtcDay(ChartSince) + 13
<1> DEFINE t == TicksPerDay
           z == zone
           l == LocalDay(now)
           c == ChartSince
           q == UtcDay(c)
<1>1. t \in Nat \ {0} /\ z \in Int /\ now \in Int
  BY FiguresTyped
<1>2. l \in Int
  BY <1>1 DEF LocalDay
<1>3. c = (l - 13) * t - z
  BY DEF ChartSince, LocalMidnight
<1> HIDE DEF t, l, z, c
<1>4. c \in Int /\ c + 13 * t = l * t - z
  <2>1. c + 13 * t = ((l - 13) * t - z) + 13 * t
    BY <1>3
  <2>2. (l - 13) * t \in Int /\ l * t \in Int /\ (l - 13) * t = l * t - 13 * t /\ 13 * t \in Int
    BY <1>1, <1>2
  <2>3. QED
    BY <1>1, <1>3, <2>1, <2>2
<1>5. \A i \in Int : UtcDay(c + i * t) = q + i /\ q \in Int
  BY <1>1, <1>4, DivIs DEF UtcDay, t
<1>6. UtcDay(l * t - z) = q + 13
  BY <1>4, <1>5
<1>7. Labels = q .. q + 13
  <2>1. Labels = {UtcDay(c + i * t) : i \in 0 .. 13}
    BY DEF Labels, c, t
  <2>2. ASSUME NEW d \in Labels PROVE d \in q .. q + 13
    BY <1>5, <2>1
  <2>3. ASSUME NEW d \in q .. q + 13 PROVE d \in Labels
    <3>1. q \in Int
      BY <1>5
    <3> HIDE DEF q
    <3>2. d - q \in 0 .. 13 /\ d - q \in Int /\ q + (d - q) = d
      BY <3>1
    <3>3. d = UtcDay(c + (d - q) * t)
      BY <1>5, <3>2 DEF q
    <3>4. QED
      BY <2>1, <3>2, <3>3
  <2>4. QED
    BY <2>2, <2>3
<1>8. QED
  BY <1>4, <1>5, <1>6, <1>7 DEF LocalMidnight, t, l, z, c

\* A row is in the chart if its date is one of them and it is in the window.
ChartedOf(rows) ==
    {i \in rows : /\ LocalDay(facts[i].born) > LocalDay(now) - 14
                  /\ zone = 0 \/ UtcDay(facts[i].born) <= UtcDay(LocalMidnight(LocalDay(now)))}

\* A row is in the chart if it is of the days that the chart should show.
LEMMA ChartedIs ==
    ASSUME DashboardsTypeOK, NEW i \in DOMAIN facts
    PROVE  /\ facts[i].born >= ChartSince /\ UtcDay(facts[i].born) \in Labels
           <=> /\ LocalDay(facts[i].born) > LocalDay(now) - 14
               /\ zone = 0 \/ UtcDay(facts[i].born) <= UtcDay(LocalMidnight(LocalDay(now)))
<1> DEFINE t == TicksPerDay
           z == zone
           l == LocalDay(now)
           c == ChartSince
           q == UtcDay(c)
           b == facts[i].born
           n == now
<1>1. t \in Nat \ {0} /\ z \in Int /\ n \in Int /\ b \in Int /\ b <= n
  BY FiguresTyped
<1>2. c \in Int /\ q \in Int /\ UtcDay(LocalMidnight(l)) = q + 13 /\ Labels = q .. q + 13
  BY LabelsAre
<1>3. l = (n + z) \div t /\ LocalDay(b) = (b + z) \div t /\ UtcDay(b) = b \div t /\ q = c \div t
  BY DEF LocalDay, UtcDay
<1>4. c = (l - 13) * t - z /\ LocalMidnight(l) = l * t - z
  BY DEF ChartSince, LocalMidnight
<1>5. UtcDay(LocalMidnight(l)) = (l * t - z) \div t
  BY <1>4 DEF UtcDay
<1> DEFINE lb == LocalDay(b)
           ub == UtcDay(b)
<1> HIDE DEF t, z, l, c, q, b, n, lb, ub
<1>6. l \in Int /\ lb \in Int /\ ub \in Int
  BY <1>1, <1>3, DivIs DEF lb, ub
<1>7. b >= c <=> lb >= l - 13
  <2>1. (b + z) >= (l - 13) * t <=> (b + z) \div t >= l - 13
    <3>1. b + z \in Int /\ l - 13 \in Int
      BY <1>1, <1>6
    <3>2. QED
      BY <1>1, <3>1, DivIs
  <2>2. b >= c <=> (b + z) >= (l - 13) * t
    <3> DEFINE p == (l - 13) * t
    <3>1. p \in Int /\ c = p - z
      BY <1>1, <1>4, <1>6
    <3> HIDE DEF p
    <3>2. b >= c <=> b + z >= p
      BY <1>1, <3>1
    <3>3. QED
      BY <3>2 DEF p
  <2>3. QED
    BY <1>3, <2>1, <2>2 DEF lb
<1>8. b >= c => ub >= q
  <2>1. c <= b => c \div t <= b \div t
    BY <1>1, <1>2, DivIs
  <2>2. QED
    BY <1>1, <1>2, <1>3, <1>6, <2>1 DEF ub
<1>9. z = 0 => ub <= q + 13
  <2> SUFFICES ASSUME z = 0 PROVE ub <= q + 13
    OBVIOUS
  <2>1. b \div t <= n \div t
    BY <1>1, DivIs
  <2>2. l = n \div t
    BY <1>1, <1>3
  <2>3. (0 + l * t) \div t = 0 \div t + l
    BY <1>1, <1>6, DivIs
  <2>4. 0 \div t = 0
    BY <1>1
  <2>5. l * t - z = 0 + l * t
    BY <1>1, <1>6
  <2>6. q + 13 = l
    BY <1>2, <1>5, <1>6, <2>3, <2>4, <2>5
  <2>7. QED
    BY <1>3, <2>1, <2>2, <2>6 DEF ub
<1>10. ub \in q .. q + 13 <=> q <= ub /\ ub <= q + 13
  BY <1>2, <1>6
<1>11. b >= c /\ ub \in q .. q + 13 <=> lb > l - 14 /\ (z = 0 \/ ub <= q + 13)
  <2>1. lb > l - 14 <=> lb >= l - 13
    BY <1>6
  <2>2. b >= c => q <= ub
    BY <1>2, <1>6, <1>8
  <2>3. QED
    BY <1>7, <1>9, <1>10, <2>1, <2>2
<1>12. QED
  BY <1>2, <1>11 DEF z, l, c, b, lb, ub

\* The numbers of a chart add up to the rows that it should show.
LEMMA ChartIsWhole ==
    ASSUME DashboardsTypeOK, NEW rows \in SUBSET DOMAIN facts
    PROVE  SumFunction(Chart(rows)) = Cardinality(ChartedOf(rows))
<1> DEFINE R == Since(ChartSince, rows)
           h == [i \in DOMAIN facts |-> UtcDay(facts[i].born)]
           G == Chart(rows)
<1>1. R \in SUBSET DOMAIN facts /\ IsFiniteSet(R)
  BY FiguresTyped DEF Since
<1>2. IsFiniteSet(Labels)
  <2>1. UtcDay(ChartSince) \in Int /\ UtcDay(ChartSince) + 13 \in Int
    BY LabelsAre
  <2>2. QED
    BY <2>1, LabelsAre, FS_Interval
<1>3. DOMAIN G = Labels /\ \A d \in Labels : G[d] = Cardinality(Labelled(R, h, {d}))
  <2>1. ASSUME NEW d \in Labels PROVE G[d] = Cardinality(Labelled(R, h, {d}))
    <3>1. Labelled(R, h, {d}) = {i \in R : UtcDay(facts[i].born) = d}
      BY <1>1 DEF Labelled
    <3>2. QED
      BY <3>1 DEF Chart
  <2>2. QED
    BY <2>1 DEF Chart
<1>4. Labelled(R, h, Labels) = ChartedOf(rows)
  <2>1. \A i \in rows : h[i] = UtcDay(facts[i].born) /\ i \in DOMAIN facts
    OBVIOUS
  <2>2. \A i \in rows : i \in R <=> facts[i].born >= ChartSince
    BY DEF Since
  <2>3. R \subseteq rows
    BY DEF Since
  <2> HIDE DEF R, h
  <2>4. QED
    BY <2>1, <2>2, <2>3, ChartedIs DEF ChartedOf, Labelled
<1> HIDE DEF R, h, G
<1>5. SumFunctionOnSet(G, Labels) = Cardinality(Labelled(R, h, Labels))
  BY <1>1, <1>2, <1>3, CountByLabel
<1>6. SumFunction(G) = SumFunctionOnSet(G, Labels)
  BY <1>3 DEF SumFunction
<1>7. QED
  BY <1>4, <1>5, <1>6 DEF G

\* All charts are complete.
LEMMA ChartsAreWhole == DashboardsTypeOK => ChartsAreComplete
<1> SUFFICES ASSUME DashboardsTypeOK PROVE ChartsAreComplete
  OBVIOUS
<1>1. ASSUME NEW of \in {"post", "user"}
      PROVE  SumFunction(AdminActivityChart[of]) = Cardinality(ChartedOf(RowsOf(of)))
  <2>1. RowsOf(of) \in SUBSET DOMAIN facts
    BY DEF RowsOf
  <2>2. AdminActivityChart[of] = Chart(RowsOf(of))
    BY DEF AdminActivityChart
  <2>3. QED
    BY <2>1, <2>2, ChartIsWhole
<1>2. ASSUME NEW u \in Creators, NEW of \in {"like", "comment", "view", "follow"}
      PROVE  SumFunction(CreatorActivityChart(u)[of]) =
                 Cardinality(ChartedOf(Of(u, Done(RowsOf(of)))))
  <2>1. Of(u, Done(RowsOf(of))) \in SUBSET DOMAIN facts
    BY DEF RowsOf, Done, Of
  <2>2. of # "follow" => Done(RowsOf(of)) = RowsOf(of)
    BY FiguresTyped DEF RowsOf, Done
  <2>3. CreatorActivityChart(u)[of] = Chart(Of(u, Done(RowsOf(of))))
    BY <2>2 DEF CreatorActivityChart
  <2>4. QED
    BY <2>1, <2>3, ChartIsWhole
<1>3. QED
  BY <1>1, <1>2 DEF ChartsAreComplete, ChartedOf

----------------------------------------------------------------------------
(* Dashboards: figures.                                                    *)
(***************************************************************************)
\* Of the elements of a finite set one has the greatest number.
LEMMA Greatest ==
    ASSUME NEW S, IsFiniteSet(S), NEW f, \A x \in S : f[x] \in Nat, S # {}
    PROVE  \E x \in S : \A y \in S : f[y] <= f[x]
<1> DEFINE W == {T \in SUBSET S : T = {} \/ \E x \in T : \A y \in T : f[y] <= f[x]}
<1>1. {} \in W
  OBVIOUS
<1>2. ASSUME NEW T \in SUBSET S, NEW z \in S \ T, T \in W PROVE T \cup {z} \in W
  <2>1. CASE T = {}
    <3>1. \A y \in T \cup {z} : f[y] <= f[z]
      BY <2>1
    <3>2. QED
      BY <3>1
  <2>2. CASE T # {}
    <3>1. PICK x \in T : \A y \in T : f[y] <= f[x]
      BY <1>2, <2>2
    <3>2. CASE f[z] <= f[x]
      <4>1. \A y \in T \cup {z} : f[y] <= f[x]
        BY <3>1, <3>2
      <4>2. QED
        BY <4>1
    <3>3. CASE ~(f[z] <= f[x])
      <4>1. f[x] \in Nat /\ f[z] \in Nat /\ \A y \in T : f[y] \in Nat
        OBVIOUS
      <4>2. \A y \in T \cup {z} : f[y] <= f[z]
        BY <3>1, <3>3, <4>1
      <4>3. QED
        BY <4>2
    <3>4. QED
      BY <3>2, <3>3
  <2>3. QED
    BY <2>1, <2>2
<1> HIDE DEF W
<1>3. S \in W
  BY <1>1, <1>2, FiniteInduction
<1>4. QED
  BY <1>3 DEF W

\* A set that nobody outside is better than anybody in.
BestOf(s, S, f) == s \subseteq S /\ \A u \in s, v \in S \ s : f[v] <= f[u]

\* There are as many best ones as one likes.
LEMMA BestExist ==
    ASSUME NEW S, IsFiniteSet(S), NEW f, \A x \in S : f[x] \in Nat,
           NEW k \in Nat, k <= Cardinality(S)
    PROVE  \E s : BestOf(s, S, f) /\ Cardinality(s) = k
<1> DEFINE Good == {n \in Nat : n <= Cardinality(S) =>
                        \E s : BestOf(s, S, f) /\ Cardinality(s) = n}
<1>1. Cardinality(S) \in Nat
  BY FS_CardinalityType
<1>2. 0 \in Good
  <2>1. BestOf({}, S, f) /\ Cardinality({}) = 0
    BY FS_EmptySet DEF BestOf
  <2>2. QED
    BY <2>1
<1>3. ASSUME NEW n \in Good PROVE n + 1 \in Good
  <2>0. n \in Nat /\ n + 1 \in Nat
    OBVIOUS
  <2> SUFFICES ASSUME n + 1 <= Cardinality(S)
               PROVE  \E s : BestOf(s, S, f) /\ Cardinality(s) = n + 1
    BY <2>0
  <2>1. PICK s : BestOf(s, S, f) /\ Cardinality(s) = n
    BY <1>1, <2>0
  <2>2. s \subseteq S /\ IsFiniteSet(s) /\ IsFiniteSet(S \ s)
    <3>1. s \subseteq S /\ S \ s \subseteq S
      BY <2>1 DEF BestOf
    <3>2. QED
      BY <3>1, FS_Subset
  <2>3. S \ s # {}
    <3>1. s # S
      BY <1>1, <2>0, <2>1
    <3>2. QED
      BY <2>2, <3>1
  <2>4. PICK x \in S \ s : \A y \in S \ s : f[y] <= f[x]
    <3>1. \A y \in S \ s : f[y] \in Nat
      OBVIOUS
    <3>2. QED
      BY <2>2, <2>3, <3>1, Greatest
  <2>5. Cardinality(s \cup {x}) = n + 1
    BY <2>1, <2>2, <2>4, FS_AddElement
  <2>6. BestOf(s \cup {x}, S, f)
    BY <2>1, <2>4 DEF BestOf
  <2>7. QED
    BY <2>5, <2>6
<1> HIDE DEF Good
<1>4. Nat \subseteq Good
  BY <1>2, <1>3, SetInduction
<1>5. QED
  BY <1>4 DEF Good

\* What the statistics of a creator say.
LEMMA StatsAre ==
    ASSUME DashboardsTypeOK
    PROVE  \A u \in Creators :
               /\ CreatorStats(u).likes = Cardinality(Of(u, RowsOf("like")))
               /\ CreatorStats(u).comments = Cardinality(Of(u, RowsOf("comment")))
               /\ EngagementOf(u) = CreatorStats(u).likes + CreatorStats(u).comments
               /\ EngagementOf(u) \in Nat
<1> SUFFICES ASSUME NEW u \in Creators
             PROVE  /\ CreatorStats(u).likes = Cardinality(Of(u, RowsOf("like")))
                    /\ CreatorStats(u).comments = Cardinality(Of(u, RowsOf("comment")))
                    /\ EngagementOf(u) = CreatorStats(u).likes + CreatorStats(u).comments
                    /\ EngagementOf(u) \in Nat
  OBVIOUS
<1>1. /\ CreatorStats(u).likes = Cardinality(Of(u, RowsOf("like")))
      /\ CreatorStats(u).comments = Cardinality(Of(u, RowsOf("comment")))
  BY DEF CreatorStats
<1>2. Of(u, RowsOf("like")) \in SUBSET DOMAIN facts /\ Of(u, RowsOf("comment")) \in SUBSET DOMAIN facts
  BY DEF Of, RowsOf
<1>3. Cardinality(Of(u, RowsOf("like"))) \in Nat /\ Cardinality(Of(u, RowsOf("comment"))) \in Nat
  BY <1>2, FiguresTyped
<1>4. QED
  BY <1>1, <1>3 DEF EngagementOf

\* A ranking leaves out only those for whom Top others have at least as much.
LEMMA RankingsAreTop ==
    ASSUME DashboardsTypeOK, NEW users \in SUBSET Creators, NEW top \in Ranking(users)
    PROVE  /\ top \subseteq users
           /\ \A v \in users \ top :
                  Cardinality({u \in top : EngagementOf(v) <= EngagementOf(u)}) = Top
<1> DEFINE Better(u) == {v \in users : EngagementOf(v) > EngagementOf(u)}
           size == IF Cardinality(users) < Top THEN Cardinality(users) ELSE Top
<1>1. top \in SUBSET users /\ Cardinality(top) = size /\ \A u \in top : Better(u) \subseteq top
  BY DEF Ranking
<1>2. IsFiniteSet(users) /\ Cardinality(users) \in Nat /\ Top \in Nat
  BY DashboardsAssumption, FS_Subset, FS_CardinalityType
<1>3. ASSUME NEW v \in users \ top
      PROVE  Cardinality({u \in top : EngagementOf(v) <= EngagementOf(u)}) = Top
  <2>1. Cardinality(top) < Cardinality(users)
    <3>1. /\ Cardinality(top) \in Nat /\ Cardinality(top) <= Cardinality(users)
          /\ Cardinality(top) = Cardinality(users) => top = users
      BY <1>1, <1>2, FS_Subset, FS_CardinalityType
    <3>2. QED
      BY <1>2, <3>1
  <2>2. Cardinality(top) = Top
    BY <1>1, <1>2, <2>1
  <2>3. ASSUME NEW u \in top PROVE EngagementOf(v) <= EngagementOf(u)
    <3>1. v \notin Better(u)
      BY <1>1
    <3>2. EngagementOf(v) \in Nat /\ EngagementOf(u) \in Nat
      BY <1>1, StatsAre
    <3>3. QED
      BY <3>1, <3>2
  <2>4. {u \in top : EngagementOf(v) <= EngagementOf(u)} = top
    BY <2>3
  <2>5. QED
    BY <2>2, <2>4
<1>4. QED
  BY <1>1, <1>3

\* There is one, whatever the engagement: what is said of rankings is said of some.
LEMMA RankingsExist ==
    ASSUME DashboardsTypeOK, NEW users \in SUBSET Creators
    PROVE  Ranking(users) # {}
<1> DEFINE Better(u) == {v \in users : EngagementOf(v) > EngagementOf(u)}
           size == IF Cardinality(users) < Top THEN Cardinality(users) ELSE Top
           f == [u \in users |-> EngagementOf(u)]
<1>1. IsFiniteSet(users) /\ Cardinality(users) \in Nat /\ Top \in Nat
  BY DashboardsAssumption, FS_Subset, FS_CardinalityType
<1>2. size \in Nat /\ size <= Cardinality(users)
  BY <1>1
<1>3. \A x \in users : f[x] \in Nat
  BY StatsAre
<1>4. PICK s : BestOf(s, users, f) /\ Cardinality(s) = size
  <2> HIDE DEF size, f
  <2>1. QED
    BY <1>1, <1>2, <1>3, BestExist
<1>5. s \in SUBSET users
  BY <1>4 DEF BestOf
<1>6. ASSUME NEW u \in s PROVE Better(u) \subseteq s
  <2> SUFFICES ASSUME NEW v \in users, EngagementOf(v) > EngagementOf(u), v \notin s PROVE FALSE
    OBVIOUS
  <2>1. f[v] <= f[u] /\ u \in users
    BY <1>4, <1>5 DEF BestOf
  <2>2. EngagementOf(v) \in Nat /\ EngagementOf(u) \in Nat
    BY <2>1, StatsAre
  <2>3. QED
    BY <2>1, <2>2
<1>7. s \in Ranking(users)
  BY <1>4, <1>5, <1>6 DEF Ranking
<1>8. QED
  BY <1>7

Amount == [i \in DOMAIN facts |-> facts[i].amount]

\* Volumes and numbers of rows, creator by creator.
LEMMA CreatorsAddUp ==
    ASSUME DashboardsTypeOK, NEW rows \in SUBSET DOMAIN facts
    PROVE  /\ Volume(rows) \in Nat
           /\ SumFunction([u \in Creators |-> 4 * Volume(Of(u, rows))]) = 4 * Volume(rows)
           /\ SumFunction([u \in Creators |-> Cardinality(Of(u, rows))]) = Cardinality(rows)
<1> DEFINE h == [i \in DOMAIN facts |-> facts[i].of]
           G == [u \in Creators |-> Volume(Of(u, rows))]
           H == [u \in Creators |-> 4 * Volume(Of(u, rows))]
           C == [u \in Creators |-> Cardinality(Of(u, rows))]
<1>1. IsFiniteSet(Creators) /\ IsFiniteSet(rows)
  BY FiguresTyped, DashboardsAssumption
<1>2. Numbers(Amount, rows)
  <2>1. \A i \in rows : Amount[i] \in Nat
    BY FiguresTyped DEF Amount
  <2>2. QED
    BY <1>1, <2>1 DEF Numbers
<1>3. \A X : Volume(X) = SumFunctionOnSet(Amount, X)
  BY DEF Volume, Amount
<1>4. \A u \in Creators : Of(u, rows) = Labelled(rows, h, {u})
  BY DEF Of, Labelled
<1>5. Labelled(rows, h, Creators) = rows
  BY FiguresTyped DEF Labelled
<1>6. Volume(rows) \in Nat
  BY <1>2, <1>3, SumSplits
<1>7. Numbers(G, Creators) /\ SumFunctionOnSet(G, Creators) = Volume(rows)
  <2>1. \A u \in Creators : G[u] = SumFunctionOnSet(Amount, Labelled(rows, h, {u}))
    BY <1>3, <1>4
  <2> HIDE DEF G, h, H, C
  <2>2. /\ Numbers(G, Creators)
        /\ SumFunctionOnSet(G, Creators) = SumFunctionOnSet(Amount, Labelled(rows, h, Creators))
    BY <1>1, <1>2, <2>1, SumByLabel
  <2>3. QED
    BY <1>3, <1>5, <2>2
<1>8. SumFunctionOnSet(H, Creators) = 4 * SumFunctionOnSet(G, Creators)
  <2>1. \A u \in Creators : H[u] = 4 * G[u]
    OBVIOUS
  <2> HIDE DEF G, H
  <2>2. QED
    BY <1>7, <2>1, SumScales
<1>9. SumFunctionOnSet(C, Creators) = Cardinality(rows)
  <2>1. \A u \in Creators : C[u] = Cardinality(Labelled(rows, h, {u}))
    BY <1>4
  <2> HIDE DEF C, h, G, H
  <2>2. SumFunctionOnSet(C, Creators) = Cardinality(Labelled(rows, h, Creators))
    BY <1>1, <2>1, CountByLabel
  <2>3. QED
    BY <1>5, <2>2
<1>10. SumFunction(H) = SumFunctionOnSet(H, Creators) /\ SumFunction(C) = SumFunctionOnSet(C, Creators)
  <2>1. DOMAIN H = Creators /\ DOMAIN C = Creators
    OBVIOUS
  <2> HIDE DEF H, C
  <2>2. QED
    BY <2>1 DEF SumFunction
<1>11. QED
  BY <1>6, <1>7, <1>8, <1>9, <1>10

\* The day of last month that has today's number, or the day so much later.
LEMMA LastMonthIs ==
    ASSUME DashboardsTypeOK
    PROVE  LET today == LocalDay(now)
               before == MonthOf(today) - 1
               dayOfMonth == today - FirstDay[before + 1] + 1
           IN  /\ before \in Nat /\ Month(now) = before + 1
               /\ LastMonth = IF dayOfMonth <= MonthLength(before) THEN before ELSE before + 1
<1> DEFINE t == TicksPerDay
           today == LocalDay(now)
           m == MonthOf(today)
           before == m - 1
           dom == today - FirstDay[before + 1] + 1
<1>1. t \in Nat \ {0} /\ now + zone \in Int /\ now + zone >= 31 * t
  <2>1. now \in Moments /\ zone \in Zones
    BY DEF DashboardsTypeOK
  <2>2. now + zone >= 31 * t
    BY <2>1, DashboardsAssumption
  <2>3. QED
    BY <2>2, FiguresTyped
<1>2. today \in Nat /\ today >= 31
  <2>1. (now + zone) \div t \in Int /\ ((now + zone) >= 31 * t <=> (now + zone) \div t >= 31)
    <3> HIDE DEF t
    <3>1. QED
      BY <1>1, DivIs
  <2>2. today = (now + zone) \div t
    BY DEF LocalDay
  <2>3. QED
    BY <1>1, <2>1, <2>2
<1> HIDE DEF today
<1>3. /\ m \in Nat /\ FirstDay[m] <= today /\ today < FirstDay[m + 1]
      /\ \A n \in Nat : \A day \in Nat : FirstDay[n] <= day /\ day < FirstDay[n + 1] => n = MonthOf(day)
  BY <1>2, MonthOfIs
<1> HIDE DEF m
<1>4. m # 0
  <2> SUFFICES ASSUME m = 0 PROVE FALSE
    OBVIOUS
  <2>1. FirstDay[0 + 1] = FirstDay[0] + MonthLength(0) /\ FirstDay[0] = 0 /\ MonthLength(0) \in 28 .. 31
    BY FirstDayIs, MonthsHaveDays
  <2>2. QED
    BY <1>2, <1>3, <2>1
<1>5. before \in Nat /\ before + 1 = m
  BY <1>3, <1>4
<1> HIDE DEF before
<1> DEFINE a == FirstDay[before]
           b == FirstDay[m]
           c == FirstDay[m + 1]
           l == MonthLength(before)
           k == MonthLength(m)
<1>6. a \in Nat /\ b = a + l /\ c = b + k /\ l \in 28 .. 31 /\ k \in 28 .. 31
  <2>1. FirstDay[before + 1] = FirstDay[before] + MonthLength(before) /\ FirstDay[before] \in Nat
        /\ FirstDay[m + 1] = FirstDay[m] + MonthLength(m)
    BY <1>3, <1>5, FirstDayIs
  <2>2. QED
    BY <1>3, <1>5, <2>1, MonthsHaveDays
<1>7. b <= today /\ today < c /\ dom = today - b + 1
  BY <1>3, <1>5
<1>8. LastMonth = MonthOf(a + (today - b))
  BY DEF LastMonth, today, m, before
<1> DEFINE day == a + (today - b)
<1>9. day \in Nat /\ a <= day
  <2> HIDE DEF a, b, c, l, k
  <2>1. QED
    BY <1>2, <1>6, <1>7
<1>10. dom <= l => day < b
  <2> HIDE DEF a, b, c, l, k, dom
  <2>1. QED
    BY <1>2, <1>6, <1>7
<1>11. ~(dom <= l) => b <= day /\ day < c
  <2> HIDE DEF a, b, c, l, k, dom
  <2>1. QED
    BY <1>2, <1>6, <1>7
<1> HIDE DEF day
<1>12. dom <= l => MonthOf(day) = before
  BY <1>3, <1>5, <1>9, <1>10
<1>13. ~(dom <= l) => MonthOf(day) = m
  BY <1>3, <1>9, <1>11
<1>14. LastMonth = IF dom <= l THEN before ELSE before + 1
  BY <1>5, <1>8, <1>12, <1>13 DEF day
<1>15. Month(now) = m
  BY DEF Month, m, today
<1>16. QED
  BY <1>5, <1>14, <1>15 DEF before, m, today

\* What was sold last month.
LEMMA LastMonthsSales ==
    ASSUME DashboardsTypeOK
    PROVE  LET before == MonthOf(LocalDay(now)) - 1
               dayOfMonth == LocalDay(now) - FirstDay[before + 1] + 1
           IN  MonetizationAnalytics.lastMonth =
                   IF dayOfMonth <= MonthLength(before)
                   THEN Volume(InMonth(before, Done(RowsOf("sale")))) ELSE 0
<1> DEFINE before == MonthOf(LocalDay(now)) - 1
           dom == LocalDay(now) - FirstDay[before + 1] + 1
           sales == Done(RowsOf("sale"))
           current == InMonth(Month(now), sales)
           last == InMonth(LastMonth, sales \ current)
<1>1. MonetizationAnalytics.lastMonth = Volume(last)
  BY DEF MonetizationAnalytics
<1>2. /\ before \in Nat /\ Month(now) = before + 1
      /\ LastMonth = IF dom <= MonthLength(before) THEN before ELSE before + 1
  BY LastMonthIs
<1> HIDE DEF before, dom, sales
<1>3. CASE dom <= MonthLength(before)
  <2>1. before # before + 1
    BY <1>2
  <2>2. last = InMonth(before, sales)
    BY <1>2, <1>3, <2>1 DEF InMonth
  <2>3. QED
    BY <1>1, <1>3, <2>2 DEF before, dom, sales
<1>4. CASE ~(dom <= MonthLength(before))
  <2>1. last = {}
    BY <1>2, <1>4 DEF InMonth
  <2>2. Volume({}) = 0
    BY SumOfNone DEF Volume
  <2>3. QED
    BY <1>1, <1>4, <2>1, <2>2 DEF before, dom, sales
<1>5. QED
  BY <1>3, <1>4

\* All figures agree.
LEMMA FiguresDoAgree == DashboardsTypeOK => FiguresAgree
<1> SUFFICES ASSUME DashboardsTypeOK PROVE FiguresAgree
  OBVIOUS
<1> DEFINE all == Done(RowsOf("sale"))
           sales == MonetizationAnalytics
           Credit(u) == CreatorStats(u).likes + CreatorStats(u).comments
<1>1. \A of : RowsOf(of) \in SUBSET DOMAIN facts /\ Done(RowsOf(of)) \in SUBSET DOMAIN facts
  BY DEF RowsOf, Done
<1>2. SumFunction([u \in Creators |-> CreatorStats(u).likes]) = EnhancedStats.likes
  <2>1. [u \in Creators |-> CreatorStats(u).likes] = [u \in Creators |-> Cardinality(Of(u, RowsOf("like")))]
    BY DEF CreatorStats
  <2>2. EnhancedStats.likes = Cardinality(RowsOf("like"))
    BY DEF EnhancedStats
  <2>3. QED
    BY <1>1, <2>1, <2>2, CreatorsAddUp
<1>3. SumFunction([u \in Creators |-> CreatorStats(u).comments]) = EnhancedStats.comments
  <2>1. [u \in Creators |-> CreatorStats(u).comments] =
            [u \in Creators |-> Cardinality(Of(u, RowsOf("comment")))]
    BY DEF CreatorStats
  <2>2. EnhancedStats.comments = Cardinality(RowsOf("comment"))
    BY DEF EnhancedStats
  <2>3. QED
    BY <1>1, <2>1, <2>2, CreatorsAddUp
<1>4. ASSUME NEW top \in TopUsers
      PROVE  /\ top \subseteq active
             /\ \A v \in active \ top :
                    Cardinality({u \in top : Credit(v) <= Credit(u)}) = Top
  <2>1. active \in SUBSET Creators
    BY DEF DashboardsTypeOK
  <2>2. /\ top \subseteq active
        /\ \A v \in active \ top :
               Cardinality({u \in top : EngagementOf(v) <= EngagementOf(u)}) = Top
    BY <2>1, RankingsAreTop DEF TopUsers
  <2>3. \A u \in Creators : EngagementOf(u) = Credit(u)
    BY StatsAre
  <2>4. ASSUME NEW v \in active \ top
        PROVE  {u \in top : Credit(v) <= Credit(u)} =
                   {u \in top : EngagementOf(v) <= EngagementOf(u)}
    BY <2>1, <2>2, <2>3
  <2>5. QED
    BY <2>2, <2>4
<1>5. /\ sales.platform = Volume(all) /\ sales.gross = Volume(all) /\ sales.count = Cardinality(all)
      /\ sales.currentMonth = Volume(InMonth(Month(now), all))
  BY DEF MonetizationAnalytics
<1>6. SumFunction([u \in Creators |-> CreatorAnalytics(u).total]) + sales.platform = 5 * sales.gross
  <2>1. [u \in Creators |-> CreatorAnalytics(u).total] = [u \in Creators |-> 4 * Volume(Of(u, all))]
    BY DEF CreatorAnalytics
  <2>2. SumFunction([u \in Creators |-> 4 * Volume(Of(u, all))]) = 4 * Volume(all) /\ Volume(all) \in Nat
    BY <1>1, CreatorsAddUp
  <2>3. QED
    BY <1>5, <2>1, <2>2
<1>7. SumFunction([u \in Creators |-> CreatorAnalytics(u).month]) = 4 * sales.currentMonth
  <2> DEFINE month == InMonth(Month(now), all)
  <2>1. \A u \in Creators : InMonth(Month(now), Of(u, all)) = Of(u, month)
    BY DEF InMonth, Of
  <2>2. [u \in Creators |-> CreatorAnalytics(u).month] = [u \in Creators |-> 4 * Volume(Of(u, month))]
    BY <2>1 DEF CreatorAnalytics
  <2>3. month \in SUBSET DOMAIN facts
    BY <1>1 DEF InMonth
  <2>4. SumFunction([u \in Creators |-> 4 * Volume(Of(u, month))]) = 4 * Volume(month)
    BY <2>3, CreatorsAddUp
  <2>5. QED
    BY <1>5, <2>2, <2>4
<1>8. SumFunction([u \in Creators |-> CreatorAnalytics(u).count]) = sales.count
  <2>1. [u \in Creators |-> CreatorAnalytics(u).count] = [u \in Creators |-> Cardinality(Of(u, all))]
    BY DEF CreatorAnalytics
  <2>2. QED
    BY <1>1, <1>5, <2>1, CreatorsAddUp
<1>9. QED
  BY <1>2, <1>3, <1>4, <1>6, <1>7, <1>8, LastMonthsSales DEF FiguresAgree

----

\* At first there are no rows.
LEMMA FiguresAtFirst == DashboardsInit => DashboardsTypeOK
<1> SUFFICES ASSUME DashboardsInit PROVE DashboardsTypeOK
  OBVIOUS
<1>1. \E t \in Moments : \A s \in Moments : t <= s
  <2>1. Moments \in SUBSET Nat /\ Moments # {}
    BY DashboardsAssumption
  <2>2. QED
    BY <2>1, Least
<1>2. now \in Moments
  BY <1>1 DEF DashboardsInit
<1>3. QED
  BY <1>2 DEF DashboardsInit, DashboardsTypeOK

\* Each step keeps the types of the rows, and none is of the future.
LEMMA FiguresStepKeeps == DashboardsTypeOK /\ DashboardsStep => DashboardsTypeOK'
<1> SUFFICES ASSUME DashboardsTypeOK, DashboardsStep PROVE DashboardsTypeOK'
  OBVIOUS
<1>0. /\ facts \in Seq(Fact) /\ DOMAIN facts = 1 .. Len(facts) /\ Len(facts) \in Nat /\ now \in Nat
      /\ \A i \in DOMAIN facts : facts[i] \in Fact /\ facts[i].born \in Nat /\ facts[i].born <= now
  BY FiguresTyped
<1>1. CASE RowWritten
  <2>1. PICK f \in Fact : f.born = now /\ facts' = Append(facts, f)
    BY <1>1 DEF RowWritten
  <2>2. /\ facts' \in Seq(Fact) /\ DOMAIN facts' = 1 .. Len(facts) + 1
        /\ \A i \in 1 .. Len(facts) : facts'[i] = facts[i]
        /\ facts'[Len(facts) + 1] = f
    BY <1>0, <2>1
  <2>3. \A i \in DOMAIN facts' : facts'[i].born <= now
    BY <1>0, <2>1, <2>2
  <2>4. QED
    BY <1>1, <2>2, <2>3 DEF RowWritten, DashboardsTypeOK
<1>2. CASE RowSettled
  <2>1. PICK i \in DOMAIN facts :
            facts[i].status = "PENDING" /\ facts' = [facts EXCEPT ![i].status = "done"]
    BY <1>2 DEF RowSettled
  <2> DEFINE f == [facts[i] EXCEPT !.status = "done"]
  <2>2. f \in Fact /\ f.born = facts[i].born
    <3>1. facts[i] \in Fact
      BY <1>0
    <3>2. QED
      BY <3>1 DEF Fact
  <2>3. facts' = [facts EXCEPT ![i] = f]
    BY <2>1
  <2> HIDE DEF f
  <2>4. /\ facts' \in Seq(Fact) /\ DOMAIN facts' = DOMAIN facts
        /\ \A j \in DOMAIN facts : facts'[j] = IF j = i THEN f ELSE facts[j]
    BY <1>0, <2>2, <2>3
  <2>5. \A j \in DOMAIN facts' : facts'[j].born <= now
    BY <1>0, <2>2, <2>4
  <2>6. QED
    BY <1>2, <2>4, <2>5 DEF RowSettled, DashboardsTypeOK
<1>3. CASE TimePasses
  <2>1. PICK t \in Moments : t > now /\ now' = t /\ UNCHANGED <<zone, active, facts>>
    BY <1>3 DEF TimePasses
  <2>2. t \in Nat
    BY DashboardsAssumption
  <2>3. \A i \in DOMAIN facts : facts[i].born <= t
    BY <1>0, <2>1, <2>2
  <2>4. QED
    BY <2>1, <2>3 DEF DashboardsTypeOK
<1>4. CASE ActiveChanges
  BY <1>0, <1>4 DEF ActiveChanges, DashboardsTypeOK
<1>5. QED
  BY <1>1, <1>2, <1>3, <1>4 DEF DashboardsStep

\* A step of nothing keeps the types of the rows.
LEMMA FiguresRest == DashboardsTypeOK /\ UNCHANGED dashboardVars => DashboardsTypeOK'
BY DEF DashboardsTypeOK, dashboardVars

----------------------------------------------------------------------------
(* Theorems.                                                               *)
(***************************************************************************)

\* The invariant of a visit to the stories holds at first, and each step keeps it,
\* whatever changes meanwhile.
THEOREM StoriesInvariant == Spec => []StoriesInv
<1>1. Init => StoriesInv
  BY TrayInitKeeps DEF Init, StoriesInv
<1>2. StoriesInv /\ [Next]_vars => StoriesInv'
  BY TrayStepKeeps, TrayRests DEF Next, StoriesInv, vars
<1>3. QED
  BY <1>1, <1>2, PTL DEF Spec

\* A visit is shown all that it may see from its beginning to its end, and nothing
\* but what facts that each held at some time of it let it see: for any number of
\* stories, authors and changes during it.
THEOREM StoriesAreShownFairly == Spec => []StoriesShownFairly
<1>1. StoriesInv => StoriesShownFairly
  <2> SUFFICES ASSUME TrayInv PROVE TrayIsFair
    BY DEF StoriesInv, StoriesShownFairly
  <2>1. QED
    BY DEF TrayInv, TrayIsFair, FairlyShown, MediaFairlyShown, Pool
<1>2. QED
  BY <1>1, StoriesInvariant, PTL

\* The invariant, of the behaviours that are walks through pages.
WalksInv == kind = "pages" => PagesInv

\* It holds at first, and each step keeps it, whatever changes meanwhile.
THEOREM WalksInvariant == Spec => []WalksInv
<1>1. Init => WalksInv
  BY OpenAtFirst, WalkFitsAtFirst, QuietFitsAtFirst DEF Init, WalksInv, PagesInv, OpenInv
<1>2. WalksInv /\ [Next]_vars => WalksInv'
  <2> SUFFICES ASSUME kind = "pages", PagesInv, [Next]_vars PROVE PagesInv'
    BY DEF WalksInv, Next, vars
  <2>1. CASE ListingsStep
    BY <2>1, OpenStepKeeps, WalkStepKeeps, QuietStepKeeps DEF PagesInv, OpenInv
  <2>2. CASE UNCHANGED listingVars
    BY <2>2, OpenRests, WalkRests, QuietRests DEF PagesInv, OpenInv
  <2>3. QED
    BY <2>1, <2>2 DEF Next, vars
<1>3. QED
  BY <1>1, <1>2, PTL DEF Spec

\* What a listing shows can be opened: no page has had a row that its viewer may
\* not open, unless profiles or follows changed since the page was asked for.
THEOREM ListedRowsOpen == Spec => []WhatIsListedOpens
<1>1. WalksInv => WhatIsListedOpens
  BY DEF WalksInv, PagesInv, WhatIsListedOpens
<1>2. QED
  BY <1>1, WalksInvariant, PTL

\* A walk through all pages misses no more of the rows that stay than rows left or
\* moved, or came between the two statements of a page, and sends no more again
\* than rows came or moved, unless profiles or follows change; without changes it
\* sends the listing, row by row, and asks for no empty page but behind replies:
\* for any rows, any page size and any walk.
THEOREM WalksShowRows == Spec => []WalkShowsRows
<1>1. WalksInv => WalkShowsRows
  BY WalkMisses, QuietIsExact DEF WalksInv, PagesInv, WalkShowsRows
<1>2. QED
  BY <1>1, WalksInvariant, PTL

\* The invariant, of the behaviours that are figures: no row is of the future.
FiguresInv == kind = "figures" => DashboardsTypeOK

\* Rows are written at the time that it is, and time goes on.
THEOREM FiguresInvariant == Spec => []FiguresInv
<1>1. Init => FiguresInv
  BY FiguresAtFirst DEF Init, FiguresInv
<1>2. FiguresInv /\ [Next]_vars => FiguresInv'
  BY FiguresStepKeeps, FiguresRest DEF Next, FiguresInv, vars
<1>3. QED
  BY <1>1, <1>2, PTL DEF Spec

\* Charts leave nothing out: all rows of the days that a chart shows are in it, at
\* any time and in any time zone, but for those of a UTC date that it has no label for.
THEOREM ChartsStayComplete == Spec => []ChartsComplete
<1>1. FiguresInv => ChartsComplete
  BY ChartsAreWhole DEF FiguresInv, ChartsComplete
<1>2. QED
  BY <1>1, FiguresInvariant, PTL

\* What creators are shown adds up to what administrators are shown; the top users are
\* active, and an active user is left out of them only for Top others who are shown at
\* least as much; and last month's sales are last month's, but on the days that it does
\* not have: for any rows.
THEOREM FiguresStayConsistent == Spec => []FiguresConsistent
<1>1. FiguresInv => FiguresConsistent
  BY FiguresDoAgree DEF FiguresInv, FiguresConsistent
<1>2. QED
  BY <1>1, FiguresInvariant, PTL

\* The types of all reads.
THEOREM ReadingTyped == Spec => []TypeOK
<1>1. WalksInv /\ StoriesInv /\ FiguresInv => TypeOK
  BY ListingsTyped DEF WalksInv, PagesInv, StoriesInv, TrayInv, FiguresInv, TypeOK
<1>2. QED
  BY <1>1, WalksInvariant, StoriesInvariant, FiguresInvariant, PTL

=============================================================================
