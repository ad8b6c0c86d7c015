------------------------ MODULE EmbeddingJobs_proofs ------------------------
(***************************************************************************)
(* Posts, for any number of tags, users and calls and any finite set of    *)
(* posts: the counters of hashtags and what leaves a creation.  Then the   *)
(* worker beside those calls, whose invariant it keeps.                    *)
(***************************************************************************)
EXTENDS EmbeddingJobs, FiniteSetTheorems, TLAPS

\* An empty slot is a call.
LEMMA IdleIsCall == Idle \in CallRecord
BY DEF Idle, CallRecord, Step

\* A call that moves on with a record of the right type leaves all calls typed.
LEMMA GotoTyped ==
    ASSUME call \in [Calls -> CallRecord], NEW c \in Calls,
           NEW rec \in CallRecord, Goto(c, rec)
    PROVE  call' \in [Calls -> CallRecord] /\ call'[c] = rec
           /\ \A d \in Calls \ {c} : call'[d] = call[d]
BY DEF Goto

\* What is upserted next and what is left make up what was left before.
LEMMA ElementsOfTail ==
    ASSUME NEW s \in Seq(Tags), s # <<>>
    PROVE  /\ Head(s) \in Tags /\ Tail(s) \in Seq(Tags)
           /\ Elements(s) = {Head(s)} \cup Elements(Tail(s))
<1>1. Len(s) \in Nat \ {0} /\ DOMAIN s = 1..Len(s) /\ Head(s) = s[1]
  OBVIOUS
<1>2. /\ Tail(s) \in Seq(Tags) /\ DOMAIN Tail(s) = 1..(Len(s) - 1)
      /\ \A i \in 1..(Len(s) - 1) : Tail(s)[i] = s[i + 1]
  BY <1>1
<1>3. ASSUME NEW i \in 1..Len(s), i # 1
      PROVE  s[i] \in Elements(Tail(s))
  <2>1. i - 1 \in 1..(Len(s) - 1) /\ s[i] = Tail(s)[i - 1]
    BY <1>1, <1>2, <1>3
  <2>2. QED
    BY <2>1, <1>2 DEF Elements
<1>4. Elements(Tail(s)) \subseteq Elements(s)
  BY <1>1, <1>2 DEF Elements
<1>5. QED
  BY SMTT(20), <1>1, <1>2, <1>3, <1>4 DEF Elements

\* What a draft says fits the row of its post.
LEMMA DraftIsTyped ==
    ASSUME NEW d \in Drafts
    PROVE  /\ d.author \in Users /\ d.mentions \subseteq Users
           /\ d.tags \in Seq(Tags) /\ Elements(d.tags) \subseteq Tags
BY DraftsAssumption DEF Elements

\* Before the first post nothing is counted.
LEMMA PostsInit == Init => PostsInv
<1> SUFFICES ASSUME Init PROVE PostsInv
  OBVIOUS
<1>1. TypeOK
  BY IdleIsCall DEF Init, TypeOK, PostRow, JobRecord
<1>2. TransactionsFit /\ AftermathFits /\ EffectsFollowCommit
  BY DEF Init, TransactionsFit, AftermathFits, EffectsFollowCommit, Idle
<1>3. ASSUME NEW t \in Tags
      PROVE  postCount[t] = Cardinality({p \in Posts : Committed(p) /\ t \in post[p].tags})
  <2>1. {p \in Posts : Committed(p) /\ t \in post[p].tags} = {}
    BY DEF Init, Committed
  <2>2. QED
    BY <2>1, FS_EmptySet DEF Init
<1>4. QED
  BY <1>1, <1>2, <1>3 DEF PostsInv, CountIsCreations

\* What the steps outside transactions have in common: they change no counter,
\* no transaction that goes on, and of posts only whether a live one is removed
\* or one that nobody is creating any more is rolled back.
PostsLastAsTheyWere ==
    \A p \in Posts :
        /\ post'[p].author = post[p].author /\ post'[p].tags = post[p].tags
        /\ post'[p].mentions = post[p].mentions
        /\ \/ post'[p].status = post[p].status
           \/ post[p].status = "live" /\ post'[p].status = "removed"
           \/ /\ post[p].status = "open" /\ post'[p].status = "unused"
              /\ \A c \in Calls : call'[c].step = "tags" => call'[c].post # p
TransactionsLastAsTheyWere ==
    \A c \in Calls :
        /\ call'[c].step = "tags" => call'[c] = call[c]
        /\ call'[c].step # "tags" => \A t \in Tags : call'[c].wrote[t] = 0

\* Such a step keeps what is said of transactions and counters.
LEMMA OutsideKeeps ==
    ASSUME PostsInv, PostsLastAsTheyWere, TransactionsLastAsTheyWere,
           UNCHANGED postCount
    PROVE  TransactionsFit' /\ CountIsCreations'
<1> USE DEF PostsInv
<1>1. ASSUME NEW c \in Calls, call'[c].step = "tags"
      PROVE  /\ call'[c] = call[c] /\ call[c].post \in Posts
             /\ post'[call[c].post].status = "open"
             /\ post'[call[c].post].tags = post[call[c].post].tags
  BY <1>1 DEF TransactionsLastAsTheyWere, PostsLastAsTheyWere, TransactionsFit
<1>2. ASSUME NEW c \in Calls, NEW t \in Tags, call'[c].wrote[t] > 0
      PROVE  call'[c] = call[c] /\ call'[c].step = "tags"
  BY <1>2 DEF TransactionsLastAsTheyWere
<1>3. ASSUME NEW c \in Calls
      PROVE  /\ call'[c].step # "tags" => \A t \in Tags : call'[c].wrote[t] = 0
             /\ call'[c].step = "tags" =>
                   /\ call'[c].post \in Posts
                   /\ post'[call'[c].post].status = "open"
                   /\ post'[call'[c].post].tags =
                         Elements(call'[c].todo) \cup {t \in Tags : Locks(c, t)'}
                   /\ \A t \in Tags : Locks(c, t)' => call'[c].wrote[t] = postCount'[t] + 1
                   /\ \A d \in Calls \ {c} :
                         /\ call'[d].step = "tags" => call'[d].post # call'[c].post
                         /\ \A t \in Tags : ~(Locks(c, t)' /\ Locks(d, t)')
  <2>1. CASE call'[c].step # "tags"
    BY <2>1 DEF TransactionsLastAsTheyWere
  <2>2. CASE call'[c].step = "tags"
    <3>1. /\ call'[c] = call[c] /\ call[c].post \in Posts
          /\ post'[call[c].post].status = "open"
          /\ post'[call[c].post].tags = post[call[c].post].tags
      BY <1>1, <2>2
    <3>2. \A t \in Tags : Locks(c, t)' <=> Locks(c, t)
      BY <3>1 DEF Locks
    <3>3. \A d \in Calls \ {c}, t \in Tags : ~(Locks(c, t)' /\ Locks(d, t)')
      BY <1>2, <2>2, <3>1 DEF Locks, TransactionsFit
    <3>4. \A d \in Calls \ {c} : call'[d].step = "tags" => call'[d].post # call'[c].post
      BY <1>1, <2>2, <3>1 DEF TransactionsFit
    <3>5. post'[call'[c].post].tags =
              Elements(call'[c].todo) \cup {t \in Tags : Locks(c, t)'}
      BY <2>2, <3>1, <3>2 DEF TransactionsFit
    <3>6. \A t \in Tags : Locks(c, t)' => call'[c].wrote[t] = postCount'[t] + 1
      BY <2>2, <3>1, <3>2 DEF TransactionsFit
    <3>7. QED
      BY <2>2, <3>1, <3>3, <3>4, <3>5, <3>6
  <2>3. QED
    BY <2>1, <2>2
<1>4. TransactionsFit'
  BY <1>3 DEF TransactionsFit
<1>5. ASSUME NEW t \in Tags
      PROVE  {p \in Posts : Committed(p)' /\ t \in post'[p].tags} =
             {p \in Posts : Committed(p) /\ t \in post[p].tags}
  BY DEF PostsLastAsTheyWere, Committed
<1>6. CountIsCreations'
  BY <1>5 DEF CountIsCreations
<1>7. QED
  BY <1>4, <1>6

\* A creation starts with a post nobody else has, no locks and all its tags to do.
LEMMA CreateBeginKeeps ==
    ASSUME PostsInv, NEW c \in Calls, NEW p \in Posts, NEW d \in Drafts,
           CreateBegin(c, p, d)
    PROVE  PostsInv'
<1> USE DEF PostsInv
<1> DEFINE rec == [Idle EXCEPT !.step = "tags", !.post = p, !.todo = d.tags]
           row == [status |-> "open", author |-> d.author, mentions |-> d.mentions,
                   tags |-> Elements(d.tags)]
<1>1. Goto(c, rec) /\ post' = [post EXCEPT ![p] = row]
  BY DEF CreateBegin, Elements
<1>2. /\ rec \in CallRecord /\ rec.step = "tags" /\ rec.post = p /\ rec.todo = d.tags
      /\ \A t \in Tags : rec.wrote[t] = 0
  BY DraftIsTyped DEF CallRecord, Idle, Step
<1>3. /\ call' \in [Calls -> CallRecord] /\ call'[c] = rec
      /\ \A e \in Calls \ {c} : call'[e] = call[e]
  BY <1>1, <1>2, GotoTyped DEF TypeOK
<1>4. /\ row \in PostRow /\ post' = [post EXCEPT ![p] = row] /\ post'[p] = row
      /\ \A q \in Posts \ {p} : post'[q] = post[q]
      /\ post[p].status = "unused"
      /\ UNCHANGED <<users, postCount, job, embedding, notification>>
  BY <1>1, DraftIsTyped DEF CreateBegin, TypeOK, PostRow
<1> HIDE DEF rec, row
<1>5. TypeOK'
  BY <1>3, <1>4 DEF TypeOK
<1>6. TransactionsFit'
  <2>1. \A t \in Tags : ~Locks(c, t)'
    BY <1>2, <1>3 DEF Locks
  <2>2. \A e \in Calls \ {c} : /\ call[e].step = "tags" => call[e].post # p
                              /\ \A t \in Tags : Locks(e, t)' <=> Locks(e, t)
    BY <1>3, <1>4 DEF TransactionsFit, Locks
  <2>3. row.tags = Elements(rec.todo) /\ row.status = "open"
    BY <1>2 DEF row
  <2>4. QED
    BY SMTT(20), <1>2, <1>3, <1>4, <2>1, <2>2, <2>3 DEF TransactionsFit
<1>7. \A q \in Posts : (Committed(q)' <=> Committed(q)) /\ (Committed(q) => post'[q] = post[q])
  BY <1>4 DEF Committed, row
<1>8. AftermathFits' /\ EffectsFollowCommit'
  BY <1>2, <1>3, <1>4, <1>7 DEF AftermathFits, EffectsFollowCommit, TypeOK
<1>9. CountIsCreations'
  <2>1. ASSUME NEW t \in Tags
        PROVE  {q \in Posts : Committed(q)' /\ t \in post'[q].tags} =
               {q \in Posts : Committed(q) /\ t \in post[q].tags}
    BY <1>7
  <2>2. QED
    BY <1>4, <2>1 DEF CountIsCreations
<1>10. QED
  BY <1>5, <1>6, <1>8, <1>9

\* The upsert moves one tag from what is to be done to what is locked.
LEMMA UpsertTagKeeps ==
    ASSUME PostsInv, NEW c \in Calls, UpsertTag(c)
    PROVE  PostsInv'
<1> USE DEF PostsInv
<1> DEFINE t0 == Head(call[c].todo)
           rec == [call[c] EXCEPT !.todo = Tail(@),
                                  !.wrote = [@ EXCEPT ![t0] = postCount[t0] + 1]]
<1>1. call[c] \in CallRecord /\ call[c].todo \in Seq(Tags) /\ call[c].todo # <<>>
      /\ call[c].step = "tags" /\ call[c].wrote \in [Tags -> Nat]
  BY DEF TypeOK, UpsertTag, CallRecord
<1>2. /\ t0 \in Tags /\ Tail(call[c].todo) \in Seq(Tags)
      /\ Elements(call[c].todo) = {t0} \cup Elements(Tail(call[c].todo))
  BY <1>1, ElementsOfTail
<1>3. /\ rec \in CallRecord /\ rec.step = "tags" /\ rec.post = call[c].post
      /\ rec.todo = Tail(call[c].todo) /\ rec.to = call[c].to
      /\ \A t \in Tags : rec.wrote[t] = IF t = t0 THEN postCount[t] + 1
                                        ELSE call[c].wrote[t]
  <2>1. postCount[t0] + 1 \in Nat
    BY <1>2 DEF TypeOK
  <2>2. PICK wrote \in [Tags -> Nat] : wrote = [call[c].wrote EXCEPT ![t0] = postCount[t0] + 1]
    BY <1>1, <2>1
  <2>3. \A t \in Tags : wrote[t] = IF t = t0 THEN postCount[t] + 1 ELSE call[c].wrote[t]
    BY <1>1, <2>2
  <2>4. rec = [call[c] EXCEPT !.todo = Tail(call[c].todo), !.wrote = wrote]
    BY <2>2
  <2> HIDE DEF rec
  <2>5. /\ rec \in CallRecord /\ rec.step = call[c].step /\ rec.post = call[c].post
        /\ rec.to = call[c].to /\ rec.todo = Tail(call[c].todo) /\ rec.wrote = wrote
    <3>1. PICK r \in CallRecord : r = call[c]
      BY <1>1
    <3>2. PICK todo \in Seq(Tags) : todo = Tail(call[c].todo)
      BY <1>2
    <3>3. rec = [r EXCEPT !.todo = todo, !.wrote = wrote]
      BY <2>4, <3>1, <3>2
    <3>4. /\ rec \in CallRecord /\ rec.step = r.step /\ rec.post = r.post
          /\ rec.to = r.to /\ rec.todo = todo /\ rec.wrote = wrote
      <4> DEFINE s == [r EXCEPT !.todo = todo, !.wrote = wrote]
      <4>1. /\ s \in CallRecord /\ s.step = r.step /\ s.post = r.post
            /\ s.to = r.to /\ s.todo = todo /\ s.wrote = wrote
        BY DEF CallRecord
      <4>2. rec = s
        BY <3>3
      <4> HIDE DEF s
      <4>3. QED
        BY <4>1, <4>2
    <3>5. QED
      BY <3>1, <3>2, <3>4
  <2>6. QED
    BY <1>1, <2>3, <2>5
<1>4. Goto(c, rec) /\ \A d \in Calls \ {c} : ~Locks(d, t0)
  BY DEF UpsertTag
<1>5. UNCHANGED <<users, post, postCount, job, embedding, notification>>
  BY DEF UpsertTag
<1> HIDE DEF rec, t0
<1>6. /\ call' \in [Calls -> CallRecord] /\ call'[c] = rec
      /\ \A d \in Calls \ {c} : call'[d] = call[d]
  BY <1>3, <1>4, GotoTyped DEF TypeOK
<1>7. TypeOK'
  BY <1>5, <1>6 DEF TypeOK
<1>8. TransactionsFit'
  <2>1. \A t \in Tags : Locks(c, t)' <=> t = t0 \/ Locks(c, t)
    BY <1>3, <1>6 DEF Locks, TypeOK
  <2>2. \A d \in Calls \ {c}, t \in Tags : Locks(d, t)' <=> Locks(d, t)
    BY <1>6 DEF Locks
  <2>3. {t \in Tags : Locks(c, t)'} = {t0} \cup {t \in Tags : Locks(c, t)}
    BY <1>2, <2>1
  <2>4. post[rec.post].tags = Elements(rec.todo) \cup {t \in Tags : Locks(c, t)'}
    BY <1>1, <1>2, <1>3, <2>3 DEF TransactionsFit
  <2>5. \A t \in Tags : Locks(c, t)' => rec.wrote[t] = postCount[t] + 1
    BY <1>1, <1>3, <2>1 DEF TransactionsFit
  <2>6. \A d \in Calls \ {c}, t \in Tags : ~(Locks(c, t)' /\ Locks(d, t)')
    BY <1>1, <1>4, <2>1, <2>2 DEF TransactionsFit
  <2>7. \A d \in Calls : call'[d].step = call[d].step /\ call'[d].post = call[d].post
    BY <1>1, <1>3, <1>6
  <2>8. ASSUME NEW d \in Calls, d # c, call[d].step = "tags"
        PROVE  /\ post[call[d].post].tags =
                      Elements(call'[d].todo) \cup {t \in Tags : Locks(d, t)'}
               /\ \A t \in Tags : Locks(d, t)' => call'[d].wrote[t] = postCount[t] + 1
    <3>1. call'[d] = call[d] /\ \A t \in Tags : Locks(d, t)' <=> Locks(d, t)
      BY <1>6, <2>2, <2>8
    <3>2. {t \in Tags : Locks(d, t)'} = {t \in Tags : Locks(d, t)}
      BY <3>1
    <3>3. QED
      BY <2>8, <3>1, <3>2 DEF TransactionsFit
  <2>9. \A d, e \in Calls : d # e =>
            \A t \in Tags : call[d].step = "tags" => ~(Locks(d, t)' /\ Locks(e, t)')
    BY <2>2, <2>6 DEF TransactionsFit
  <2>10. \A d \in Calls : call[d].step # "tags" => \A t \in Tags : call'[d].wrote[t] = 0
    BY <1>1, <1>6 DEF TransactionsFit
  <2>11. QED
    BY SMTT(20), <1>1, <1>3, <1>5, <1>6, <2>4, <2>5, <2>7, <2>8, <2>9, <2>10 DEF TransactionsFit
<1>9. AftermathFits' /\ EffectsFollowCommit' /\ CountIsCreations'
  BY <1>3, <1>5, <1>6
     DEF AftermathFits, EffectsFollowCommit, CountIsCreations, Committed
<1>10. QED
  BY <1>7, <1>8, <1>9

\* The commit turns each lock into one more post of the tag.
LEMMA CommitKeeps ==
    ASSUME PostsInv, NEW c \in Calls, Commit(c)
    PROVE  PostsInv'
<1> USE DEF PostsInv
<1>1. PICK p \in Posts : p = call[c].post
  BY DEF Commit, TransactionsFit
<1> DEFINE rec == [Idle EXCEPT !.step = "enqueue", !.post = p]
<1>2. /\ rec \in CallRecord /\ rec.step = "enqueue" /\ rec.post = p
      /\ \A t \in Tags : rec.wrote[t] = 0
  <2>1. Idle \in CallRecord /\ \A t \in Tags : Idle.wrote[t] = 0
    BY IdleIsCall DEF Idle
  <2>2. QED
    BY <2>1 DEF CallRecord, Step
<1>3. Goto(c, rec)
  BY <1>1 DEF Commit
<1> HIDE DEF rec
<1>4. /\ call' \in [Calls -> CallRecord] /\ call'[c] = rec
      /\ \A d \in Calls \ {c} : call'[d] = call[d]
  BY <1>2, <1>3, GotoTyped DEF TypeOK
<1>5. /\ post[p].status = "open" /\ post[p].tags = {t \in Tags : Locks(c, t)}
      /\ \A t \in Tags : Locks(c, t) => call[c].wrote[t] = postCount[t] + 1
      /\ \A d \in Calls \ {c} :
             /\ call[d].step = "tags" => call[d].post # p
             /\ \A t \in Tags : ~(Locks(c, t) /\ Locks(d, t))
  <2>1. Elements(call[c].todo) = {}
    BY DEF Commit, Elements
  <2>2. QED
    BY <1>1, <2>1 DEF Commit, TransactionsFit
<1>6. /\ post' = [post EXCEPT ![p].status = "live"] /\ post' \in [Posts -> PostRow]
      /\ post'[p].status = "live" /\ post'[p].tags = post[p].tags
      /\ \A q \in Posts \ {p} : post'[q] = post[q]
  <2>1. post' = [post EXCEPT ![p].status = "live"]
    BY <1>1 DEF Commit
  <2>2. PICK row \in PostRow : row = post[p]
    BY DEF TypeOK
  <2>3. [row EXCEPT !.status = "live"] \in PostRow
    BY DEF PostRow
  <2>4. /\ post'[p] = [row EXCEPT !.status = "live"]
        /\ \A q \in Posts \ {p} : post'[q] = post[q]
        /\ post' \in [Posts -> PostRow]
    BY <2>1, <2>2, <2>3 DEF TypeOK
  <2>5. [row EXCEPT !.status = "live"].status = "live"
        /\ [row EXCEPT !.status = "live"].tags = row.tags
    BY DEF PostRow
  <2>6. QED
    BY <2>1, <2>2, <2>4, <2>5
<1>7. /\ postCount' \in [Tags -> Nat]
      /\ \A t \in Tags : postCount'[t] = IF Locks(c, t) THEN postCount[t] + 1 ELSE postCount[t]
  BY <1>5 DEF Commit, TypeOK
<1>8. UNCHANGED <<users, job, embedding, notification>>
  BY DEF Commit
<1>9. TypeOK'
  BY <1>4, <1>6, <1>7, <1>8 DEF TypeOK
<1>10. TransactionsFit'
  <2>1. \A t \in Tags : ~Locks(c, t)'
    BY <1>2, <1>4 DEF Locks
  <2>2. ASSUME NEW d \in Calls, d # c, call[d].step = "tags"
        PROVE  /\ call'[d] = call[d] /\ call[d].post \in Posts \ {p}
               /\ post'[call[d].post].status = "open"
               /\ post'[call[d].post].tags =
                      Elements(call'[d].todo) \cup {t \in Tags : Locks(d, t)'}
               /\ \A t \in Tags : Locks(d, t)' => call'[d].wrote[t] = postCount'[t] + 1
    <3>1. call'[d] = call[d] /\ \A t \in Tags : Locks(d, t)' <=> Locks(d, t)
      BY <1>4, <2>2 DEF Locks
    <3>2. call[d].post \in Posts \ {p} /\ post'[call[d].post] = post[call[d].post]
      BY <1>5, <1>6, <2>2 DEF TransactionsFit
    <3>3. \A t \in Tags : Locks(d, t) => postCount'[t] = postCount[t]
      BY <1>5, <1>7, <2>2
    <3>4. {t \in Tags : Locks(d, t)'} = {t \in Tags : Locks(d, t)}
      BY <3>1
    <3>5. QED
      BY <2>2, <3>1, <3>2, <3>3, <3>4 DEF TransactionsFit
  <2>3. \A d, e \in Calls : d # e =>
            /\ call'[d].step = "tags" /\ call'[e].step = "tags" => call'[d].post # call'[e].post
            /\ \A t \in Tags : call'[d].step = "tags" => ~(Locks(d, t)' /\ Locks(e, t)')
    BY <1>2, <1>4, <2>1 DEF TransactionsFit, Locks
  <2>4. \A d \in Calls : call'[d].step # "tags" => \A t \in Tags : call'[d].wrote[t] = 0
    BY <1>2, <1>4 DEF TransactionsFit
  <2>5. \A d \in Calls : call'[d].step = "tags" => d # c /\ call[d].step = "tags"
    BY <1>2, <1>4
  <2>6. QED
    BY <2>2, <2>3, <2>4, <2>5 DEF TransactionsFit
<1>11. \A q \in Posts : /\ Committed(q) => Committed(q)'
                       /\ post'[q].author = post[q].author
                       /\ post'[q].mentions = post[q].mentions
  BY <1>6 DEF Committed, TypeOK, PostRow
<1>12. AftermathFits'
  BY <1>2, <1>4, <1>6, <1>11 DEF AftermathFits, Committed
<1>13. EffectsFollowCommit'
  BY <1>8, <1>11 DEF EffectsFollowCommit, TypeOK
<1>14. ASSUME NEW t \in Tags
       PROVE  postCount'[t] =
                  Cardinality({q \in Posts : Committed(q)' /\ t \in post'[q].tags})
  <2> DEFINE Old == {q \in Posts : Committed(q) /\ t \in post[q].tags}
             New == {q \in Posts : Committed(q)' /\ t \in post'[q].tags}
  <2>1. postCount[t] = Cardinality(Old) /\ IsFiniteSet(Old) /\ p \notin Old
    BY <1>5, PostsAssumption, FS_Subset DEF CountIsCreations, Committed
  <2>2. CASE Locks(c, t)
    <3>1. New = Old \cup {p}
      BY <1>5, <1>6, <2>2 DEF Committed
    <3>2. Cardinality(New) = Cardinality(Old) + 1
      BY <2>1, <3>1, FS_AddElement
    <3>3. QED
      BY <1>7, <2>1, <2>2, <3>2
  <2>3. CASE ~Locks(c, t)
    <3>1. New = Old
      BY <1>5, <1>6, <2>3 DEF Committed
    <3>2. QED
      BY <1>7, <2>1, <2>3, <3>1
  <2>4. QED
    BY <2>2, <2>3
<1>15. QED
  BY <1>9, <1>10, <1>12, <1>13, <1>14 DEF CountIsCreations

\* A call outside transactions that goes on with a fitting record, or ends,
\* leaves all calls fitting.
LEMMA CallGoesOn ==
    ASSUME PostsInv, NEW c \in Calls, NEW rec \in CallRecord, Goto(c, rec),
           rec.step # "tags", \A t \in Tags : rec.wrote[t] = 0,
           rec.step # "idle" => rec.post \in Posts /\ Committed(rec.post),
           rec.step = "notify" =>
               rec.to \subseteq post[rec.post].mentions \ {post[rec.post].author},
           PostsLastAsTheyWere
    PROVE  /\ call' \in [Calls -> CallRecord] /\ AftermathFits'
           /\ TransactionsLastAsTheyWere
<1> USE DEF PostsInv
<1>1. /\ call' \in [Calls -> CallRecord] /\ call'[c] = rec
      /\ \A d \in Calls \ {c} : call'[d] = call[d]
  BY GotoTyped DEF TypeOK
<1>2. TransactionsLastAsTheyWere
  BY <1>1 DEF TransactionsLastAsTheyWere, TransactionsFit
<1>3. \A p \in Posts : Committed(p) => /\ post'[p].status \in {"live", "removed"}
                                       /\ post'[p].author = post[p].author
                                       /\ post'[p].mentions = post[p].mentions
  BY DEF PostsLastAsTheyWere, Committed
<1>4. ASSUME NEW d \in Calls
      PROVE  /\ call'[d].step \notin {"idle", "tags"} =>
                   call'[d].post \in Posts
                   /\ post'[call'[d].post].status \in {"live", "removed"}
             /\ call'[d].step = "notify" =>
                   call'[d].to \subseteq
                       post'[call'[d].post].mentions \ {post'[call'[d].post].author}
  <2>1. CASE d = c
    BY <1>1, <1>3, <2>1
  <2>2. CASE d # c
    BY <1>1, <1>3, <2>2 DEF AftermathFits
  <2>3. QED
    BY <2>1, <2>2
<1>5. AftermathFits'
  BY <1>4 DEF AftermathFits, Committed
<1>6. QED
  BY <1>1, <1>2, <1>5

\* A call that ends is one of them.
LEMMA CallEnds ==
    ASSUME PostsInv, NEW c \in Calls, Finish(c), PostsLastAsTheyWere
    PROVE  /\ call' \in [Calls -> CallRecord] /\ AftermathFits'
           /\ TransactionsLastAsTheyWere
<1>1. PICK rec \in CallRecord : rec = Idle
  BY IdleIsCall
<1>2. Goto(c, rec) /\ rec.step = "idle" /\ \A t \in Tags : rec.wrote[t] = 0
  BY <1>1 DEF Finish, Idle
<1>3. QED
  BY <1>2, CallGoesOn

\* What is outside stays true of posts that last.
LEMMA EffectsLast ==
    ASSUME PostsInv, PostsLastAsTheyWere, notification' \subseteq notification,
           UNCHANGED job
    PROVE  EffectsFollowCommit'
BY DEF PostsInv, TypeOK, PostsLastAsTheyWere, EffectsFollowCommit, Committed

\* A post whose creation committed gets its job.
LEMMA EnqueueKeeps ==
    ASSUME PostsInv, NEW c \in Calls, Enqueue(c)
    PROVE  PostsInv'
<1> USE DEF PostsInv
<1>1. PICK r \in CallRecord : r = call[c]
  BY DEF TypeOK
<1>2. /\ r.step = "enqueue" /\ r.post \in Posts /\ Committed(r.post)
      /\ \A t \in Tags : r.wrote[t] = 0
  BY <1>1 DEF Enqueue, AftermathFits, TransactionsFit
<1>3. PostsLastAsTheyWere
  BY DEF Enqueue, PostsLastAsTheyWere
<1>4. call' \in [Calls -> CallRecord] /\ AftermathFits' /\ TransactionsLastAsTheyWere
  <2>1. CASE Finish(c)
    BY <1>3, <2>1, CallEnds
  <2>2. CASE Goto(c, [r EXCEPT !.step = "findMentions"])
    <3>1. PICK rec \in CallRecord : rec = [r EXCEPT !.step = "findMentions"]
      BY DEF CallRecord, Step
    <3>2. /\ rec.step = "findMentions" /\ rec.post = r.post
          /\ \A t \in Tags : rec.wrote[t] = 0
      BY <1>2, <3>1 DEF CallRecord
    <3>3. Goto(c, rec)
      BY <2>2, <3>1
    <3>4. QED
      BY <1>2, <1>3, <3>2, <3>3, CallGoesOn
  <2>3. QED
    BY <1>1, <2>1, <2>2 DEF Enqueue
<1>5. TypeOK'
  BY <1>1, <1>2, <1>4 DEF Enqueue, TypeOK, JobRecord
<1>6. EffectsFollowCommit'
  BY <1>1, <1>2 DEF Enqueue, EffectsFollowCommit, TypeOK, Committed
<1>7. QED
  BY <1>3, <1>4, <1>5, <1>6, OutsideKeeps DEF Enqueue

\* The users to notify are mentioned, and not the author.
LEMMA FindMentionsKeeps ==
    ASSUME PostsInv, NEW c \in Calls, FindMentions(c)
    PROVE  PostsInv'
<1> USE DEF PostsInv
<1>1. PICK r \in CallRecord : r = call[c]
  BY DEF TypeOK
<1>2. /\ r.post \in Posts /\ Committed(r.post) /\ \A t \in Tags : r.wrote[t] = 0
  BY <1>1 DEF FindMentions, AftermathFits, TransactionsFit
<1>3. PostsLastAsTheyWere
  BY DEF FindMentions, PostsLastAsTheyWere
<1>4. PICK to \in SUBSET Users :
          to = post[r.post].mentions \cap (users \ {post[r.post].author})
  BY DEF TypeOK
<1>5. call' \in [Calls -> CallRecord] /\ AftermathFits' /\ TransactionsLastAsTheyWere
  <2>1. CASE Finish(c)
    BY <1>3, <2>1, CallEnds
  <2>2. CASE Goto(c, [r EXCEPT !.step = "notify", !.to = to])
    <3>1. PICK rec \in CallRecord : rec = [r EXCEPT !.step = "notify", !.to = to]
      BY DEF CallRecord, Step
    <3>2. /\ rec.step = "notify" /\ rec.post = r.post /\ rec.to = to
          /\ \A t \in Tags : rec.wrote[t] = 0
      BY <1>2, <3>1 DEF CallRecord
    <3>3. Goto(c, rec)
      BY <2>2, <3>1
    <3>4. rec.to \subseteq post[rec.post].mentions \ {post[rec.post].author}
      BY <1>4, <3>2
    <3>5. QED
      BY <1>2, <1>3, <3>2, <3>3, <3>4, CallGoesOn
  <2>3. QED
    BY <1>1, <1>4, <2>1, <2>2 DEF FindMentions
<1>6. TypeOK'
  BY <1>5 DEF FindMentions, TypeOK
<1>7. EffectsFollowCommit'
  BY <1>3, EffectsLast DEF FindMentions
<1>8. QED
  BY <1>3, <1>5, <1>6, <1>7, OutsideKeeps DEF FindMentions

\* A notice goes to one of them, or fails.
LEMMA NotifyMentionKeeps ==
    ASSUME PostsInv, NEW c \in Calls, NEW u \in Users, NotifyMention(c, u)
    PROVE  PostsInv'
<1> USE DEF PostsInv
<1>1. PICK r \in CallRecord : r = call[c]
  BY DEF TypeOK
<1>2. /\ r.step = "notify" /\ r.post \in Posts /\ Committed(r.post) /\ u \in r.to
      /\ r.to \subseteq post[r.post].mentions \ {post[r.post].author}
      /\ \A t \in Tags : r.wrote[t] = 0
  BY <1>1 DEF NotifyMention, AftermathFits, TransactionsFit
<1>3. PostsLastAsTheyWere
  BY DEF NotifyMention, PostsLastAsTheyWere
<1>4. call' \in [Calls -> CallRecord] /\ AftermathFits' /\ TransactionsLastAsTheyWere
  <2>1. CASE Finish(c)
    BY <1>3, <2>1, CallEnds
  <2>2. CASE Goto(c, [r EXCEPT !.to = r.to \ {u}])
    <3>1. PICK rec \in CallRecord : rec = [r EXCEPT !.to = r.to \ {u}]
      BY DEF CallRecord
    <3>2. /\ rec.step = "notify" /\ rec.post = r.post /\ rec.to = r.to \ {u}
          /\ \A t \in Tags : rec.wrote[t] = 0
      BY <1>2, <3>1 DEF CallRecord
    <3>3. Goto(c, rec)
      BY <2>2, <3>1
    <3>4. rec.to \subseteq post[rec.post].mentions \ {post[rec.post].author}
      BY <1>2, <3>2
    <3>5. QED
      BY <1>2, <1>3, <3>2, <3>3, <3>4, CallGoesOn
  <2>3. QED
    BY <1>1, <2>1, <2>2 DEF NotifyMention
<1>5. notification' \subseteq notification \cup {<<u, r.post>>}
  BY <1>1 DEF NotifyMention
<1>6. TypeOK'
  BY <1>2, <1>4, <1>5 DEF NotifyMention, TypeOK
<1>7. EffectsFollowCommit'
  BY <1>2, <1>5 DEF NotifyMention, EffectsFollowCommit, Committed
<1>8. QED
  BY <1>3, <1>4, <1>6, <1>7, OutsideKeeps DEF NotifyMention

\* A removal that found its post changes nothing yet.
LEMMA RemoveFindKeeps ==
    ASSUME PostsInv, NEW c \in Calls, NEW p \in Posts, RemoveFind(c, p)
    PROVE  PostsInv'
<1> USE DEF PostsInv
<1>1. PostsLastAsTheyWere
  BY DEF RemoveFind, PostsLastAsTheyWere
<1>2. PICK rec : rec = [Idle EXCEPT !.step = "remove", !.post = p]
  OBVIOUS
<1>3. /\ rec \in CallRecord /\ rec.step = "remove" /\ rec.post = p
      /\ \A t \in Tags : rec.wrote[t] = 0
  <2>1. Idle \in CallRecord /\ \A t \in Tags : Idle.wrote[t] = 0
    BY IdleIsCall DEF Idle
  <2>2. QED
    BY <1>2, <2>1 DEF CallRecord, Step
<1>4. Goto(c, rec) /\ Committed(p)
  BY <1>2 DEF RemoveFind, Live, Committed
<1>5. call' \in [Calls -> CallRecord] /\ AftermathFits' /\ TransactionsLastAsTheyWere
  BY <1>1, <1>3, <1>4, CallGoesOn
<1>6. TypeOK'
  BY <1>5 DEF RemoveFind, TypeOK
<1>7. EffectsFollowCommit'
  BY <1>1, EffectsLast DEF RemoveFind
<1>8. QED
  BY <1>1, <1>5, <1>6, <1>7, OutsideKeeps DEF RemoveFind

\* A removal of live posts marks them and nothing else.
LEMMA CascadeMarks ==
    ASSUME PostsInv, NEW gone \in SUBSET Posts, \A p \in gone : Live(p), Cascade(gone)
    PROVE  /\ PostsLastAsTheyWere /\ post' \in [Posts -> PostRow]
           /\ embedding' \subseteq Posts
<1> USE DEF PostsInv
<1>1. ASSUME NEW p \in Posts
      PROVE  /\ post'[p] \in PostRow
             /\ post'[p].author = post[p].author /\ post'[p].tags = post[p].tags
             /\ post'[p].mentions = post[p].mentions
             /\ \/ post'[p].status = post[p].status
                \/ post[p].status = "live" /\ post'[p].status = "removed"
  <2>1. PICK row \in PostRow : row = post[p]
    BY DEF TypeOK
  <2>2. post'[p] = IF p \in gone THEN [row EXCEPT !.status = "removed"] ELSE row
    BY <2>1 DEF Cascade
  <2>3. /\ [row EXCEPT !.status = "removed"] \in PostRow
        /\ [row EXCEPT !.status = "removed"].status = "removed"
        /\ [row EXCEPT !.status = "removed"].author = row.author
        /\ [row EXCEPT !.status = "removed"].tags = row.tags
        /\ [row EXCEPT !.status = "removed"].mentions = row.mentions
    BY DEF PostRow
  <2>4. p \in gone => row.status = "live"
    BY <2>1 DEF Live
  <2>5. QED
    BY <2>1, <2>2, <2>3, <2>4
<1>2. post' \in [Posts -> PostRow]
  <2>1. post' = [p \in Posts |-> post'[p]]
    BY DEF Cascade
  <2>2. QED
    BY <1>1, <2>1
<1>3. QED
  BY <1>1, <1>2 DEF PostsLastAsTheyWere, Cascade, TypeOK

\* The removal of a post.
LEMMA RemoveDeleteKeeps ==
    ASSUME PostsInv, NEW c \in Calls, RemoveDelete(c)
    PROVE  PostsInv'
<1> USE DEF PostsInv
<1>1. PICK p \in Posts : p = call[c].post
  BY DEF RemoveDelete, AftermathFits
<1>2. /\ PostsLastAsTheyWere /\ post' \in [Posts -> PostRow]
      /\ embedding' \subseteq Posts
  BY <1>1, CascadeMarks DEF RemoveDelete
<1>3. call' \in [Calls -> CallRecord] /\ AftermathFits' /\ TransactionsLastAsTheyWere
  BY <1>2, CallEnds DEF RemoveDelete
<1>4. TypeOK'
  BY <1>2, <1>3 DEF RemoveDelete, TypeOK
<1>5. EffectsFollowCommit'
  BY <1>2, EffectsLast DEF RemoveDelete
<1>6. QED
  BY <1>2, <1>3, <1>4, <1>5, OutsideKeeps DEF RemoveDelete

\* The removal of an account takes its posts and its notices along.
LEMMA DeleteUserKeeps ==
    ASSUME PostsInv, NEW u \in Users, DeleteUser(u)
    PROVE  PostsInv'
<1> USE DEF PostsInv
<1>1. PICK gone \in SUBSET Posts : gone = {p \in Posts : Live(p) /\ post[p].author = u}
  OBVIOUS
<1>2. /\ PostsLastAsTheyWere /\ post' \in [Posts -> PostRow]
      /\ embedding' \subseteq Posts
  BY <1>1, CascadeMarks DEF DeleteUser
<1>3. /\ TransactionsLastAsTheyWere
      /\ UNCHANGED <<postCount, job, call>> /\ users' \subseteq users
      /\ notification' \subseteq notification
  BY DEF DeleteUser, TransactionsLastAsTheyWere, TransactionsFit
<1>4. TypeOK'
  BY <1>2, <1>3 DEF TypeOK
<1>5. AftermathFits'
  <2>1. \A p \in Posts : Committed(p) => /\ post'[p].status \in {"live", "removed"}
                                         /\ post'[p].author = post[p].author
                                         /\ post'[p].mentions = post[p].mentions
    BY <1>2 DEF PostsLastAsTheyWere, Committed
  <2>2. QED
    BY <1>3, <2>1 DEF AftermathFits, Committed
<1>6. EffectsFollowCommit'
  BY <1>2, <1>3, EffectsLast
<1>7. QED
  BY <1>2, <1>3, <1>4, <1>5, <1>6, OutsideKeeps

\* A call that dies in its transaction takes the post back, which was its own.
LEMMA CallDiesKeeps ==
    ASSUME PostsInv, NEW c \in Calls, CallDies(c)
    PROVE  PostsInv'
<1> USE DEF PostsInv
<1>1. call' \in [Calls -> CallRecord] /\ call'[c] = Idle
      /\ \A d \in Calls \ {c} : call'[d] = call[d]
  BY IdleIsCall DEF CallDies, Finish, Goto, TypeOK
<1>2. ASSUME NEW p \in Posts
      PROVE  /\ post'[p] \in PostRow
             /\ post'[p].author = post[p].author /\ post'[p].tags = post[p].tags
             /\ post'[p].mentions = post[p].mentions
             /\ \/ post'[p].status = post[p].status
                \/ /\ post[p].status = "open" /\ post'[p].status = "unused"
                   /\ \A d \in Calls : call'[d].step = "tags" => call'[d].post # p
  <2>1. PICK row \in PostRow : row = post[p]
    BY DEF TypeOK
  <2>2. post'[p] = IF p = call[c].post /\ call[c].step = "tags"
                   THEN [row EXCEPT !.status = "unused"] ELSE row
    BY <2>1 DEF CallDies, Rollback
  <2>3. /\ [row EXCEPT !.status = "unused"] \in PostRow
        /\ [row EXCEPT !.status = "unused"].status = "unused"
        /\ [row EXCEPT !.status = "unused"].author = row.author
        /\ [row EXCEPT !.status = "unused"].tags = row.tags
        /\ [row EXCEPT !.status = "unused"].mentions = row.mentions
    BY DEF PostRow
  <2>4. ASSUME p = call[c].post, call[c].step = "tags"
        PROVE  /\ row.status = "open"
               /\ \A d \in Calls : call'[d].step = "tags" => call'[d].post # p
    BY <1>1, <2>1, <2>4 DEF TransactionsFit, Idle
  <2>5. QED
    BY <2>1, <2>2, <2>3, <2>4
<1>3. PostsLastAsTheyWere
  BY <1>2 DEF PostsLastAsTheyWere
<1>4. post' \in [Posts -> PostRow]
  <2>1. post' = [p \in Posts |-> post'[p]]
    BY DEF CallDies, Rollback
  <2>2. QED
    BY <1>2, <2>1
<1>5. AftermathFits' /\ TransactionsLastAsTheyWere
  BY <1>3, CallEnds DEF CallDies
<1>6. TypeOK'
  BY <1>1, <1>4 DEF CallDies, TypeOK
<1>7. EffectsFollowCommit'
  BY <1>3, EffectsLast DEF CallDies
<1>8. QED
  BY <1>3, <1>5, <1>6, <1>7, OutsideKeeps DEF CallDies

\* Every step keeps the invariant.
LEMMA PostsStep == PostsInv /\ [Next]_vars => PostsInv'
<1> SUFFICES ASSUME PostsInv, [Next]_vars
             PROVE  PostsInv'
  OBVIOUS
<1>1. CASE UNCHANGED vars
  BY <1>1 DEF vars, PostsInv, TypeOK, TransactionsFit, AftermathFits,
              CountIsCreations, EffectsFollowCommit, Committed, Locks
<1>2. ASSUME NEW c \in Calls, Proceed(c)
      PROVE  PostsInv'
  BY <1>2, UpsertTagKeeps, CommitKeeps, CallDiesKeeps, EnqueueKeeps,
     FindMentionsKeeps, NotifyMentionKeeps DEF Proceed, DeadlockVictim
<1>3. CASE Next
  BY <1>2, <1>3, CreateBeginKeeps, RemoveFindKeeps, RemoveDeleteKeeps,
     CallDiesKeeps, DeleteUserKeeps DEF Next
<1>4. QED
  BY <1>1, <1>3

\* Transactions account for the counters they have locked, and what comes after
\* a commit is about a committed post, in every reachable state.
THEOREM PostsInvariant == Spec => []PostsInv
BY PostsInit, PostsStep, PTL DEF Spec

\* Types are right in every reachable state of Posts.
THEOREM PostsTypes == Spec => []TypeOK
<1>1. PostsInv => TypeOK
  BY DEF PostsInv
<1>2. QED
  BY <1>1, PostsInvariant, PTL

\* A hashtag's counter is the number of posts created with it, whatever
\* creations run at once, are rolled back or deadlock.
THEOREM CountersAreExact == Spec => []CountIsCreations
<1>1. PostsInv => CountIsCreations
  BY DEF PostsInv
<1>2. QED
  BY <1>1, PostsInvariant, PTL

----------------------------------------------------------------------------
(* The worker.                                                             *)
(***************************************************************************)
\* At first there are no jobs.
LEMMA JobsInit == Init => JobsInv
BY PostsInit DEF Init, JobsInv, StoredIsEmbedded

\* A step of a call: a post becomes live before it has a job, and its embedding
\* goes when it does.
LEMMA CallKeepsJobs == JobsInv /\ [Next]_vars => JobsInv'
<1> SUFFICES ASSUME JobsInv, [Next]_vars
             PROVE  StoredIsEmbedded'
  BY PostsStep DEF JobsInv
<1> USE DEF JobsInv, PostsInv
<1>1. CASE UNCHANGED <<post, job, embedding>>
  BY <1>1 DEF StoredIsEmbedded, Live
<1>2. ASSUME NEW c \in Calls, NEW p \in Posts, NEW d \in Drafts, CreateBegin(c, p, d)
      PROVE  StoredIsEmbedded'
  <2>1. post[p].status = "unused" /\ UNCHANGED <<job, embedding>>
        /\ post'[p].status = "open" /\ \A q \in Posts \ {p} : post'[q] = post[q]
    BY <1>2 DEF CreateBegin, TypeOK
  <2>2. QED
    BY <2>1 DEF StoredIsEmbedded, Live, TypeOK
<1>3. ASSUME NEW c \in Calls, Commit(c)
      PROVE  StoredIsEmbedded'
  <2>1. PICK p \in Posts : p = call[c].post
    BY <1>3 DEF Commit, TransactionsFit
  <2>2. post[p].status = "open" /\ job[p].state = "none"
    BY <1>3, <2>1 DEF Commit, TransactionsFit, EffectsFollowCommit, Committed
  <2>3. /\ UNCHANGED <<job, embedding>> /\ post'[p].status = "live"
        /\ \A q \in Posts \ {p} : post'[q] = post[q]
    <3>1. post' = [post EXCEPT ![p].status = "live"] /\ UNCHANGED <<job, embedding>>
      BY <1>3, <2>1 DEF Commit
    <3>2. PICK row \in PostRow : row = post[p]
      BY DEF TypeOK
    <3>3. [row EXCEPT !.status = "live"].status = "live"
      BY DEF PostRow
    <3>4. QED
      BY <3>1, <3>2, <3>3 DEF TypeOK
  <2>4. QED
    BY <2>2, <2>3 DEF StoredIsEmbedded, Live, TypeOK
<1>4. ASSUME NEW c \in Calls, Enqueue(c)
      PROVE  StoredIsEmbedded'
  <2>1. PICK p \in Posts : p = call[c].post
    BY <1>4 DEF Enqueue, AftermathFits
  <2>2. /\ UNCHANGED <<post, embedding>> /\ job'[p].state = "waiting"
        /\ \A q \in Posts \ {p} : job'[q] = job[q]
    BY <1>4, <2>1 DEF Enqueue, TypeOK, JobRecord
  <2>3. QED
    BY <2>2 DEF StoredIsEmbedded, Live
<1>5. ASSUME NEW gone \in SUBSET Posts, Cascade(gone), UNCHANGED job
      PROVE  StoredIsEmbedded'
  <2>1. \A p \in gone : post'[p].status = "removed"
    BY <1>5 DEF Cascade, TypeOK, PostRow
  <2>2. \A p \in Posts \ gone : post'[p] = post[p]
    BY <1>5 DEF Cascade
  <2>3. embedding' = embedding \ gone /\ embedding \subseteq Posts
    BY <1>5 DEF Cascade, TypeOK
  <2>4. QED
    BY <1>5, <2>1, <2>2, <2>3 DEF StoredIsEmbedded, Live
<1>6. ASSUME NEW c \in Calls, RemoveDelete(c)
      PROVE  StoredIsEmbedded'
  <2>1. PICK p \in Posts : p = call[c].post
    BY <1>6 DEF RemoveDelete, AftermathFits
  <2>2. QED
    BY <1>5, <1>6, <2>1 DEF RemoveDelete
<1>7. ASSUME NEW u \in Users, DeleteUser(u)
      PROVE  StoredIsEmbedded'
  BY <1>5, <1>7 DEF DeleteUser
<1>8. ASSUME NEW c \in Calls, CallDies(c)
      PROVE  StoredIsEmbedded'
  <2>1. UNCHANGED <<job, embedding>>
    BY <1>8 DEF CallDies
  <2>2. ASSUME NEW p \in Posts
        PROVE  post'[p] = post[p] \/ (~Live(p) /\ post'[p].status = "unused")
    <3>1. CASE p = call[c].post /\ call[c].step = "tags"
      BY <1>8, <3>1 DEF CallDies, Rollback, TransactionsFit, Live, TypeOK, PostRow
    <3>2. CASE ~(p = call[c].post /\ call[c].step = "tags")
      BY <1>8, <3>2 DEF CallDies, Rollback
    <3>3. QED
      BY <3>1, <3>2
  <2>3. QED
    BY <2>1, <2>2 DEF StoredIsEmbedded, Live, TypeOK
<1>9. ASSUME NEW c \in Calls, Proceed(c)
      PROVE  StoredIsEmbedded'
  BY <1>1, <1>3, <1>4, <1>8, <1>9
     DEF Proceed, UpsertTag, DeadlockVictim, FindMentions, NotifyMention
<1>10. CASE Next
  BY <1>1, <1>2, <1>6, <1>7, <1>8, <1>9, <1>10 DEF Next, RemoveFind
<1>11. QED
  BY <1>1, <1>10 DEF vars

\* The worker changes jobs and embeddings; no job comes from nothing.
LEMMA WorkerKeepsPosts ==
    ASSUME PostsInv, UNCHANGED <<users, post, postCount, notification, call>>,
           job' \in [Posts -> JobRecord], embedding' \subseteq Posts,
           \A p \in Posts : job[p].state = "none" => job'[p].state = "none"
    PROVE  PostsInv'
BY DEF PostsInv, TypeOK, TransactionsFit, AftermathFits, CountIsCreations,
       EffectsFollowCommit, Committed, Locks

\* One job moves from a state in which it is with the queue or the worker to
\* another.
LEMMA JobMoves ==
    ASSUME PostsInv, NEW p \in Posts, job[p].state # "none",
           NEW to \in {"waiting", "active", "stored", "done", "failed"},
           NEW stalled \in {"no", "once"},
           job' = [job EXCEPT ![p] = [state |-> to, stalled |-> stalled]]
    PROVE  /\ job' \in [Posts -> JobRecord] /\ job'[p].state = to
           /\ \A q \in Posts \ {p} : job'[q] = job[q]
           /\ \A q \in Posts : job[q].state = "none" => job'[q].state = "none"
BY DEF PostsInv, TypeOK, JobRecord

\* Assigning one field of a job keeps the other.
LEMMA FieldMoves ==
    ASSUME NEW j \in JobRecord, NEW to \in {"waiting", "active", "stored", "done", "failed"}
    PROVE  [j EXCEPT !.state = to] = [state |-> to, stalled |-> j.stalled]
BY DEF JobRecord

\* Storing the embedding is what makes a job stored, and nothing takes it back.
LEMMA WorkerKeepsJobs ==
    ASSUME JobsInv, NEW p \in Posts, Work(p) \/ JobStalls(p)
    PROVE  JobsInv'
<1> USE DEF JobsInv
<1>1. PICK stalled \in {"no", "once"} : job[p].stalled = stalled
  BY DEF PostsInv, TypeOK, JobRecord
<1>2. job[p] \in JobRecord
  BY DEF PostsInv, TypeOK
<1>3. ASSUME NEW to \in {"waiting", "active", "stored", "done", "failed"},
             NEW again \in {"no", "once"}, job[p].state # "none",
             job' = [job EXCEPT ![p] = [state |-> to, stalled |-> again]],
             to \in {"stored", "done"} =>
                 p \in embedding' \/ job[p].state \in {"stored", "done"},
             embedding \subseteq embedding', embedding' \subseteq embedding \cup {p},
             p \in embedding' \ embedding => Live(p),
             UNCHANGED <<users, post, postCount, notification, call>>
      PROVE  JobsInv'
  <2>1. /\ job' \in [Posts -> JobRecord] /\ job'[p].state = to
        /\ \A q \in Posts \ {p} : job'[q] = job[q]
        /\ \A q \in Posts : job[q].state = "none" => job'[q].state = "none"
    BY <1>3, JobMoves
  <2>2. PostsInv'
    BY <1>3, <2>1, WorkerKeepsPosts DEF PostsInv, TypeOK
  <2>3. StoredIsEmbedded'
    BY <1>3, <2>1 DEF StoredIsEmbedded, Live
  <2>4. QED
    BY <2>2, <2>3
<1>4. CASE JobStart(p)
  <2>1. job' = [job EXCEPT ![p] = [state |-> "active", stalled |-> stalled]]
    <3>1. job' = [job EXCEPT ![p] = [job[p] EXCEPT !.state = "active"]]
      BY <1>4 DEF JobStart
    <3>2. QED
      BY <1>1, <1>2, <3>1, FieldMoves
  <2>2. QED
    BY <1>3, <1>4, <2>1 DEF JobStart
<1>5. CASE JobStore(p)
  <2>1. job' = [job EXCEPT ![p] = [state |-> "stored", stalled |-> stalled]]
    <3>1. job' = [job EXCEPT ![p] = [job[p] EXCEPT !.state = "stored"]]
      BY <1>5 DEF JobStore
    <3>2. QED
      BY <1>1, <1>2, <3>1, FieldMoves
  <2>2. QED
    BY <1>3, <1>5, <2>1 DEF JobStore
<1>6. CASE JobComplete(p)
  <2>1. job' = [job EXCEPT ![p] = [state |-> "done", stalled |-> stalled]]
    <3>1. job' = [job EXCEPT ![p] = [job[p] EXCEPT !.state = "done"]]
      BY <1>6 DEF JobComplete
    <3>2. QED
      BY <1>1, <1>2, <3>1, FieldMoves
  <2>2. QED
    BY <1>3, <1>6, <2>1 DEF JobComplete
<1>7. CASE JobFails(p)
  <2>1. job' = [job EXCEPT ![p] = [state |-> "failed", stalled |-> stalled]]
    <3>1. job' = [job EXCEPT ![p] = [job[p] EXCEPT !.state = "failed"]]
      BY <1>7 DEF JobFails
    <3>2. QED
      BY <1>1, <1>2, <3>1, FieldMoves
  <2>2. QED
    BY <1>3, <1>7, <2>1 DEF JobFails
<1>8. CASE JobStalls(p)
  <2>1. CASE stalled = "no"
    <3>1. job' = [job EXCEPT ![p] = [state |-> "waiting", stalled |-> "once"]]
      BY <1>1, <1>8, <2>1 DEF JobStalls
    <3>2. QED
      BY <1>3, <1>8, <3>1 DEF JobStalls
  <2>2. CASE stalled # "no"
    <3>1. job' = [job EXCEPT ![p] = [state |-> "failed", stalled |-> stalled]]
      <4>1. job' = [job EXCEPT ![p] = [job[p] EXCEPT !.state = "failed"]]
        BY <1>1, <1>8, <2>2 DEF JobStalls
      <4>2. QED
        BY <1>1, <1>2, <4>1, FieldMoves
    <3>2. QED
      BY <1>3, <1>8, <3>1 DEF JobStalls
  <2>3. QED
    BY <2>1, <2>2
<1>9. QED
  BY <1>4, <1>5, <1>6, <1>7, <1>8 DEF Work

\* What calls and worker keep between them.
THEOREM JobsInvariant == JobsSpec => []JobsInv
<1>1. JobsInv /\ [JobsNext]_vars => JobsInv'
  BY CallKeepsJobs, WorkerKeepsJobs DEF JobsNext
<1>2. QED
  BY JobsInit, <1>1, PTL DEF JobsSpec

\* Nothing of a post is outside, as a job or as a notice, before it committed.
THEOREM EffectsComeAfterCommit == JobsSpec => []EffectsFollowCommit
<1>1. JobsInv => EffectsFollowCommit
  BY DEF JobsInv, PostsInv
<1>2. QED
  BY <1>1, JobsInvariant, PTL

\* A job that is done has left the embedding of a post that still exists, and a
\* post that is gone has none.
THEOREM DoneJobsEmbed == JobsSpec => []DoneIsEmbedded
<1>1. JobsInv => DoneIsEmbedded
  BY DEF JobsInv, StoredIsEmbedded, DoneIsEmbedded
<1>2. QED
  BY <1>1, JobsInvariant, PTL

=============================================================================
