-------------------------- MODULE Follows_proofs --------------------------
(***************************************************************************)
(* Proofs about the calls of FollowsService, for any number of users,      *)
(* calls and rows.                                                         *)
(***************************************************************************)
EXTENDS Follows, TLAPS

\* The lists a call's record is held against only ever grow.
HistoryGrows ==
    /\ everPublic \subseteq everPublic'
    /\ approved \subseteq approved'
    /\ accepted \subseteq accepted'

\* An empty slot is a record that fits.
LEMMA IdleFits ==
    Idle \in CallRecord /\ \A p, f, u : Fits(Idle, p, f, u)
BY DEF Idle, CallRecord, Step, Fits

\* A call that moves on with a fitting record leaves all calls fitting.
LEMMA GotoFits ==
    ASSUME TypeOK, CallsFit, HistoryGrows, NEW c \in Calls,
           NEW rec \in CallRecord, Goto(c, rec),
           Fits(rec, everPublic', approved', accepted')
    PROVE  call' \in [Calls -> CallRecord] /\ CallsFit'
<1>1. call' \in [Calls -> CallRecord]
  BY DEF TypeOK, Goto
<1>2. ASSUME NEW d \in Calls
      PROVE  Fits(call'[d], everPublic', approved', accepted')
  <2>1. CASE d = c
    BY <2>1 DEF TypeOK, Goto
  <2>2. CASE d # c
    <3>1. call'[d] = call[d] /\ Fits(call[d], everPublic, approved, accepted)
      BY <2>2 DEF TypeOK, Goto, CallsFit
    <3>2. QED
      BY <3>1 DEF Fits, HistoryGrows
  <2>3. QED
    BY <2>1, <2>2
<1>3. QED
  BY <1>1, <1>2 DEF CallsFit

\* So does a call that ends.
LEMMA FinishFits ==
    ASSUME TypeOK, CallsFit, HistoryGrows, NEW c \in Calls, Finish(c)
    PROVE  call' \in [Calls -> CallRecord] /\ CallsFit'
BY IdleFits, GotoFits DEF Finish

\* So does a step of no call.
LEMMA SameFits ==
    ASSUME TypeOK, CallsFit, HistoryGrows, UNCHANGED call
    PROVE  call' \in [Calls -> CallRecord] /\ CallsFit'
BY DEF TypeOK, CallsFit, Fits, HistoryGrows

\* What is left to show once the calls are dealt with.
TablesOK ==
    /\ private \subseteq Users
    /\ follow \in [Rows -> FollowRow]
    /\ block \subseteq Users \X Users
    /\ notification \subseteq Notice
    /\ everPublic \subseteq Users
    /\ approved \subseteq Rows
    /\ accepted \subseteq Rows
    /\ Users \ private \subseteq everPublic
    /\ Consent
    /\ AcceptanceIsTrue

\* The invariant falls into the tables and the calls.
LEMMA InvParts ==
    FollowInv <=> TablesOK /\ call \in [Calls -> CallRecord] /\ CallsFit
BY DEF FollowInv, TablesOK, TypeOK

\* A row that is gone, or not there yet, lets nobody follow.
LEMMA NoRowTyped ==
    \A why \in {"unused", "deleted"} : NoRow(why) \in FollowRow /\ NoRow(why).status = why
BY DEF NoRow, FollowRow

\* Deleting rows takes followers away only.
LEMMA DeletingKeeps ==
    ASSUME TablesOK, NEW S \in SUBSET Rows,
           follow' = [r \in Rows |-> IF r \in S THEN NoRow("deleted") ELSE follow[r]],
           UNCHANGED <<everPublic, approved>>
    PROVE  follow' \in [Rows -> FollowRow] /\ Consent'
BY NoRowTyped DEF TablesOK, Consent

\* A delete by id is such a deletion.
LEMMA DeleteRowKeeps ==
    ASSUME TablesOK, NEW r \in Rows, DeleteRow(r), UNCHANGED <<everPublic, approved>>
    PROVE  follow' \in [Rows -> FollowRow] /\ Consent'
<1>1. follow' = [q \in Rows |-> IF q \in {r} THEN NoRow("deleted") ELSE follow[q]]
  BY DEF DeleteRow, TablesOK
<1>2. QED
  BY <1>1, DeletingKeeps

\* Rows, calls and notifications start out empty.
LEMMA InitFits == Init => FollowInv
BY IdleFits, NoRowTyped
   DEF Init, FollowInv, TypeOK, CallsFit, Consent, AcceptanceIsTrue

\* Every step preserves the invariant.
LEMMA StepFits ==
    ASSUME FollowInv, [Next]_vars
    PROVE  FollowInv'
<1>0. TypeOK /\ CallsFit /\ TablesOK
  BY InvParts DEF FollowInv
<1> SUFFICES TablesOK' /\ call' \in [Calls -> CallRecord] /\ CallsFit'
  BY InvParts DEF FollowInv, TablesOK, TypeOK
<1>1. ASSUME NEW c \in Calls, NEW d \in Users, NEW b \in Users,
             ToggleFindProfile(c, d, b)
      PROVE  TablesOK' /\ call' \in [Calls -> CallRecord] /\ CallsFit'
  <2> DEFINE rec == [Idle EXCEPT !.step = "checkBlock", !.follower = d,
                                 !.following = b, !.profile = Visibility(b)]
  <2>1. rec \in CallRecord /\ Fits(rec, everPublic', approved', accepted')
    <3>1. b \in private \/ b \in everPublic'
      BY <1>0, <1>1 DEF TablesOK, ToggleFindProfile, historyVars
    <3>2. QED
      BY <3>1 DEF Visibility, Idle, CallRecord, Step, Fits
  <2>2. Goto(c, rec) /\ HistoryGrows
    BY <1>1 DEF ToggleFindProfile, HistoryGrows, historyVars
  <2>3. TablesOK'
    BY <1>0, <1>1 DEF ToggleFindProfile, TablesOK, Consent, AcceptanceIsTrue,
                      historyVars
  <2>4. QED
    BY <1>0, <2>1, <2>2, <2>3, GotoFits
<1>2. ASSUME NEW c \in Calls, ToggleCheckBlock(c) \/ ToggleFindFollow(c)
      PROVE  TablesOK' /\ call' \in [Calls -> CallRecord] /\ CallsFit'
  <2>1. HistoryGrows /\ TablesOK'
    BY <1>0, <1>2 DEF ToggleCheckBlock, ToggleFindFollow, HistoryGrows, TablesOK,
                      Consent, AcceptanceIsTrue, historyVars
  <2>2. UNCHANGED <<everPublic, approved, accepted>>
    BY <1>2 DEF ToggleCheckBlock, ToggleFindFollow, historyVars
  <2>3. call[c] \in CallRecord /\ Fits(call[c], everPublic, approved, accepted)
    BY <1>0 DEF TypeOK, CallsFit
  <2>4. \/ Finish(c)
        \/ \E rec \in CallRecord :
              Goto(c, rec) /\ Fits(rec, everPublic, approved, accepted)
    <3>1. ASSUME NEW r \in Rows
          PROVE  LET rec == [Idle EXCEPT !.step = "delete", !.row = r]
                 IN  rec \in CallRecord /\ Fits(rec, everPublic, approved, accepted)
      BY DEF Idle, CallRecord, Step, Fits
    <3>2. ASSUME NEW step \in {"findFollow", "create"},
                 call[c].step \in {"checkBlock", "findFollow"}
          PROVE  LET rec == [call[c] EXCEPT !.step = step]
                 IN  rec \in CallRecord /\ Fits(rec, everPublic, approved, accepted)
      BY <2>3, <3>2 DEF CallRecord, Step, Fits
    <3>3. QED
      BY <1>2, <3>1, <3>2 DEF ToggleCheckBlock, ToggleFindFollow, Between
  <2>5. QED
    BY <1>0, <2>1, <2>2, <2>4, GotoFits, FinishFits
<1>3. ASSUME NEW c \in Calls, ToggleDelete(c) \/ RejectDelete(c)
      PROVE  TablesOK' /\ call' \in [Calls -> CallRecord] /\ CallsFit'
  <2>1. call[c].row \in Rows
    BY <1>0, <1>3 DEF ToggleDelete, RejectDelete, CallsFit, Fits
  <2>2. /\ DeleteRow(call[c].row) /\ Finish(c)
        /\ UNCHANGED <<private, block, notification, historyVars>>
    BY <1>3 DEF ToggleDelete, RejectDelete
  <2>3. follow' \in [Rows -> FollowRow] /\ Consent'
    BY <1>0, <2>1, <2>2, DeleteRowKeeps DEF historyVars
  <2>4. HistoryGrows /\ TablesOK'
    BY <1>0, <2>2, <2>3 DEF HistoryGrows, TablesOK, AcceptanceIsTrue, historyVars
  <2>5. QED
    BY <1>0, <2>2, <2>4, FinishFits
<1>4. ASSUME NEW c \in Calls, ToggleCreate(c)
      PROVE  TablesOK' /\ call' \in [Calls -> CallRecord] /\ CallsFit'
  <2>1. PICK r \in Rows :
          /\ follow' = [follow EXCEPT ![r] =
                 [follower |-> call[c].follower, following |-> call[c].following,
                  status |-> IF call[c].profile = "private" THEN "PENDING" ELSE "ACCEPTED"]]
          /\ Goto(c, [Idle EXCEPT !.step = "notify", !.row = r,
                                  !.profile = call[c].profile])
    BY <1>4 DEF ToggleCreate
  <2>2. /\ call[c].follower \in Users /\ call[c].following \in Users
        /\ call[c].profile \in {"public", "private"}
        /\ call[c].profile = "private" \/ call[c].following \in everPublic
    BY <1>0, <1>4 DEF ToggleCreate, CallsFit, Fits, TypeOK, CallRecord
  <2>3. HistoryGrows /\ UNCHANGED <<private, block, notification, historyVars>>
    BY <1>4 DEF ToggleCreate, HistoryGrows, historyVars
  <2>4. follow' \in [Rows -> FollowRow] /\ Consent'
    BY <1>0, <2>1, <2>2, <2>3 DEF TablesOK, FollowRow, Live, Consent, historyVars
  <2>5. TablesOK'
    BY <1>0, <2>3, <2>4 DEF TablesOK, AcceptanceIsTrue, historyVars
  <2> DEFINE rec == [Idle EXCEPT !.step = "notify", !.row = r,
                                 !.profile = call[c].profile]
  <2>6. rec \in CallRecord /\ Fits(rec, everPublic', approved', accepted')
    BY <2>2 DEF Idle, CallRecord, Step, Fits
  <2>7. QED
    BY <1>0, <2>1, <2>3, <2>5, <2>6, GotoFits
<1>5. ASSUME NEW c \in Calls, Notify(c)
      PROVE  TablesOK' /\ call' \in [Calls -> CallRecord] /\ CallsFit'
  <2>1. /\ call[c].step \in {"notify", "notifyAccepted"}
        /\ call[c].row \in Rows
        /\ call[c].step = "notifyAccepted" => call[c].row \in accepted
    BY <1>0, <1>5 DEF Notify, CallsFit, Fits, TablesOK
  <2>2. HistoryGrows /\ UNCHANGED <<private, follow, block, historyVars>> /\ Finish(c)
    BY <1>5 DEF Notify, HistoryGrows, historyVars
  <2>3. notification' \subseteq Notice /\ AcceptanceIsTrue'
    BY <1>0, <1>5, <2>1, <2>2 DEF Notify, Notice, TablesOK, AcceptanceIsTrue, historyVars
  <2>4. TablesOK'
    BY <1>0, <2>2, <2>3 DEF TablesOK, Consent, historyVars
  <2>5. QED
    BY <1>0, <2>2, <2>4, FinishFits
<1>6. ASSUME NEW c \in Calls, NEW d \in Users, NEW b \in Users,
             AcceptFind(c, b, d) \/ RejectFind(c, b, d)
      PROVE  TablesOK' /\ call' \in [Calls -> CallRecord] /\ CallsFit'
  <2>1. /\ HistoryGrows
        /\ UNCHANGED <<private, follow, block, notification, everPublic, accepted>>
        /\ approved' \subseteq Rows
    BY <1>0, <1>6 DEF AcceptFind, RejectFind, HistoryGrows, historyVars, TablesOK, Between
  <2>2. TablesOK'
    BY <1>0, <2>1 DEF TablesOK, Consent, AcceptanceIsTrue, HistoryGrows
  <2>3. \E rec \in CallRecord :
           Goto(c, rec) /\ Fits(rec, everPublic', approved', accepted')
    <3>1. CASE AcceptFind(c, b, d)
      <4>1. PICK r \in Rows :
              /\ approved' = approved \cup {r}
              /\ Goto(c, [Idle EXCEPT !.step = "accept", !.follower = d,
                                      !.following = b, !.row = r])
        BY <3>1 DEF AcceptFind, Between
      <4> DEFINE rec == [Idle EXCEPT !.step = "accept", !.follower = d,
                                     !.following = b, !.row = r]
      <4>2. rec \in CallRecord /\ Fits(rec, everPublic', approved', accepted')
        BY <4>1 DEF Idle, CallRecord, Step, Fits
      <4>3. QED
        BY <4>1, <4>2
    <3>2. CASE RejectFind(c, b, d)
      <4>1. PICK r \in Rows : Goto(c, [Idle EXCEPT !.step = "reject", !.row = r])
        BY <3>2 DEF RejectFind, Between
      <4> DEFINE rec == [Idle EXCEPT !.step = "reject", !.row = r]
      <4>2. rec \in CallRecord /\ Fits(rec, everPublic', approved', accepted')
        BY DEF Idle, CallRecord, Step, Fits
      <4>3. QED
        BY <4>1, <4>2
    <3>3. QED
      BY <1>6, <3>1, <3>2
  <2>4. QED
    BY <1>0, <2>1, <2>2, <2>3, GotoFits
<1>7. ASSUME NEW c \in Calls, AcceptUpdate(c)
      PROVE  TablesOK' /\ call' \in [Calls -> CallRecord] /\ CallsFit'
  <2>1. PICK r \in Rows : r = call[c].row /\ r \in approved
    BY <1>0, <1>7 DEF AcceptUpdate, CallsFit, Fits, TablesOK
  <2>2. /\ follow' = [follow EXCEPT ![r].status = "ACCEPTED"]
        /\ accepted' = accepted \cup {r}
        /\ Goto(c, [Idle EXCEPT !.step = "notifyAccepted", !.row = r])
        /\ UNCHANGED <<private, block, notification, everPublic, approved>>
    BY <1>7, <2>1 DEF AcceptUpdate
  <2>3. follow' \in [Rows -> FollowRow] /\ Consent'
    BY <1>0, <2>1, <2>2 DEF TablesOK, FollowRow, Live, Consent
  <2>4. HistoryGrows /\ TablesOK'
    BY <1>0, <2>2, <2>3 DEF HistoryGrows, TablesOK, AcceptanceIsTrue
  <2> DEFINE rec == [Idle EXCEPT !.step = "notifyAccepted", !.row = r]
  <2>5. rec \in CallRecord /\ Fits(rec, everPublic', approved', accepted')
    BY <2>2 DEF Idle, CallRecord, Step, Fits
  <2>6. QED
    BY <1>0, <2>2, <2>4, <2>5, GotoFits
<1>8. ASSUME NEW c \in Calls, NEW d \in Users, NEW b \in Users, BlockCreate(c, b, d)
      PROVE  TablesOK' /\ call' \in [Calls -> CallRecord] /\ CallsFit'
  <2> DEFINE rec == [Idle EXCEPT !.step = "unfollowBoth", !.follower = d,
                                 !.following = b]
  <2>1. rec \in CallRecord /\ Fits(rec, everPublic', approved', accepted')
    BY DEF Idle, CallRecord, Step, Fits
  <2>2. Goto(c, rec) /\ HistoryGrows
    BY <1>8 DEF BlockCreate, HistoryGrows, historyVars
  <2>3. TablesOK'
    BY <1>0, <1>8 DEF BlockCreate, TablesOK, Consent, AcceptanceIsTrue, historyVars
  <2>4. QED
    BY <1>0, <2>1, <2>2, <2>3, GotoFits
<1>9. ASSUME NEW c \in Calls, BlockDeleteFollows(c)
      PROVE  TablesOK' /\ call' \in [Calls -> CallRecord] /\ CallsFit'
  <2> DEFINE S == Between(call[c].follower, call[c].following)
                    \cup Between(call[c].following, call[c].follower)
  <2>1. /\ follow' = [r \in Rows |-> IF r \in S THEN NoRow("deleted") ELSE follow[r]]
        /\ S \in SUBSET Rows
        /\ UNCHANGED <<private, block, notification, everPublic, approved, accepted>>
        /\ Finish(c)
    BY <1>9 DEF BlockDeleteFollows, Between, historyVars
  <2> HIDE DEF S
  <2>2. follow' \in [Rows -> FollowRow] /\ Consent'
    BY <1>0, <2>1, DeletingKeeps
  <2>3. HistoryGrows /\ TablesOK'
    BY <1>0, <2>1, <2>2 DEF HistoryGrows, TablesOK, AcceptanceIsTrue
  <2>4. QED
    BY <1>0, <2>1, <2>3, FinishFits
<1>10. ASSUME NEW b \in Users, NEW d \in Users, Unblock(b, d)
       PROVE  TablesOK' /\ call' \in [Calls -> CallRecord] /\ CallsFit'
  <2>1. HistoryGrows /\ UNCHANGED call /\ TablesOK'
    BY <1>0, <1>10 DEF Unblock, HistoryGrows, TablesOK, Consent, AcceptanceIsTrue, historyVars
  <2>2. QED
    BY <1>0, <2>1, SameFits
<1>11. ASSUME NEW u \in Users, NEW on \in BOOLEAN, SetPrivate(u, on)
       PROVE  TablesOK' /\ call' \in [Calls -> CallRecord] /\ CallsFit'
  <2>1. HistoryGrows /\ UNCHANGED call
    BY <1>11 DEF SetPrivate, HistoryGrows
  <2>2. TablesOK'
    BY <1>0, <1>11 DEF SetPrivate, TablesOK, Consent, AcceptanceIsTrue
  <2>3. QED
    BY <1>0, <2>1, <2>2, SameFits
<1>12. ASSUME NEW c \in Calls, CallDies(c)
       PROVE  TablesOK' /\ call' \in [Calls -> CallRecord] /\ CallsFit'
  <2>1. HistoryGrows /\ Finish(c) /\ TablesOK'
    BY <1>0, <1>12 DEF CallDies, HistoryGrows, TablesOK, Consent, AcceptanceIsTrue,
                       historyVars
  <2>2. QED
    BY <1>0, <2>1, FinishFits
<1>13. CASE UNCHANGED vars
  <2>1. HistoryGrows /\ UNCHANGED call /\ TablesOK'
    BY <1>0, <1>13 DEF vars, historyVars, HistoryGrows, TablesOK, Consent,
                       AcceptanceIsTrue
  <2>2. QED
    BY <1>0, <2>1, SameFits
<1>14. QED
  BY <1>1, <1>2, <1>3, <1>4, <1>5, <1>6, <1>7, <1>8, <1>9, <1>10, <1>11, <1>12, <1>13
     DEF Next

\* FollowInv holds of every reachable state.
THEOREM FollowInvariant == Spec => []FollowInv
BY InitFits, StepFits, PTL DEF Spec

\* The tables and the calls keep their shape.
THEOREM FollowTypes == Spec => []TypeOK
<1>1. FollowInv => TypeOK
  BY DEF FollowInv
<1>2. QED
  BY FollowInvariant, <1>1, PTL

\* Whoever has always been private has accepted each of their followers.
THEOREM ConsentHolds == Spec => []Consent
<1>1. FollowInv => Consent
  BY DEF FollowInv
<1>2. QED
  BY FollowInvariant, <1>1, PTL

\* The notification of an acceptance is never a false one.
THEOREM AcceptanceHolds == Spec => []AcceptanceIsTrue
<1>1. FollowInv => AcceptanceIsTrue
  BY DEF FollowInv
<1>2. QED
  BY FollowInvariant, <1>1, PTL

----------------------------------------------------------------------------
(* Blocks.                                                                 *)
(***************************************************************************)
\* Of a pair that is separated nothing but a toggle that is past its check
\* inserts a row, and there is none.
LEMMA SeparatedStep ==
    ASSUME FollowInv, [Next]_vars, NEW b \in Users, NEW d \in Users,
           Separated(b, d), <<b, d>> \in block'
    PROVE  Separated(b, d)'
<1> DEFINE Past(rec) == /\ rec.step \in {"findFollow", "create"}
                        /\ rec.follower = d /\ rec.following = b
<1>0. TypeOK /\ CallsFit
  BY DEF FollowInv
<1>1. SUFFICES /\ \A r \in Rows : /\ follow'[r].follower = d
                                  /\ follow'[r].following = b
                                  /\ follow'[r].status \in Live
                                  => r \in Between(d, b)
               /\ \A c \in Calls : Past(call'[c]) => Past(call[c])
  BY DEF Separated, Between, PastBlockCheck
<1>2. \A c \in Calls : ~Past(call[c])
  BY DEF Separated, PastBlockCheck
<1>3. ASSUME NEW c \in Calls, NEW rec, Goto(c, rec), ~Past(rec)
      PROVE  \A e \in Calls : Past(call'[e]) => Past(call[e])
  BY <1>0, <1>3 DEF TypeOK, Goto
<1>4. ASSUME NEW c \in Calls, Finish(c)
      PROVE  \A e \in Calls : Past(call'[e]) => Past(call[e])
  <2>1. ~Past(Idle)
    BY DEF Idle
  <2>2. QED
    BY <1>4, <2>1, <1>3 DEF Finish
<1>5. ASSUME NEW c \in Calls, NEW e \in Users, NEW a \in Users,
             ToggleFindProfile(c, e, a)
      PROVE  /\ UNCHANGED follow
             /\ \A x \in Calls : Past(call'[x]) => Past(call[x])
  BY <1>5, <1>3 DEF ToggleFindProfile, Idle
<1>6. ASSUME NEW c \in Calls, ToggleCheckBlock(c)
      PROVE  /\ UNCHANGED follow
             /\ \A x \in Calls : Past(call'[x]) => Past(call[x])
  <2>1. CASE Finish(c)
    BY <1>6, <2>1, <1>4 DEF ToggleCheckBlock
  <2>2. CASE /\ <<call[c].following, call[c].follower>> \notin block
             /\ Goto(c, [call[c] EXCEPT !.step = "findFollow"])
    <3>1. ~Past([call[c] EXCEPT !.step = "findFollow"])
      BY <1>0, <2>2 DEF Separated, TypeOK, CallRecord
    <3>2. QED
      BY <1>6, <2>2, <3>1, <1>3 DEF ToggleCheckBlock
  <2>3. QED
    BY <1>6, <2>1, <2>2 DEF ToggleCheckBlock
<1>7. ASSUME NEW c \in Calls, ToggleFindFollow(c)
      PROVE  /\ UNCHANGED follow
             /\ \A x \in Calls : Past(call'[x]) => Past(call[x])
  <2>1. ASSUME NEW r \in Rows, Goto(c, [Idle EXCEPT !.step = "delete", !.row = r])
        PROVE  \A x \in Calls : Past(call'[x]) => Past(call[x])
    BY <2>1, <1>3 DEF Idle
  <2>2. CASE Goto(c, [call[c] EXCEPT !.step = "create"])
    <3>1. PICK rec \in CallRecord : rec = [call[c] EXCEPT !.step = "create"]
      BY <1>0 DEF TypeOK, CallRecord, Step
    <3>2. ~Past(rec)
      BY <1>0, <1>2, <1>7, <3>1 DEF ToggleFindFollow, TypeOK, CallRecord
    <3>3. QED
      BY <1>7, <2>2, <3>1, <3>2, <1>3 DEF ToggleFindFollow
  <2>3. QED
    BY <1>7, <2>1, <2>2 DEF ToggleFindFollow, Between
<1>8. ASSUME NEW c \in Calls, ToggleDelete(c) \/ RejectDelete(c)
      PROVE  /\ \A r \in Rows : follow'[r] = follow[r] \/ follow'[r].status \notin Live
             /\ \A x \in Calls : Past(call'[x]) => Past(call[x])
  <2>1. DeleteRow(call[c].row) /\ Finish(c)
    BY <1>8 DEF ToggleDelete, RejectDelete
  <2>2. NoRow("deleted").status \notin Live
    BY DEF NoRow, Live
  <2>3. QED
    BY <1>0, <2>1, <2>2, <1>4 DEF DeleteRow, TypeOK
<1>9. ASSUME NEW c \in Calls, ToggleCreate(c)
      PROVE  /\ \A r \in Rows : \/ follow'[r] = follow[r]
                                \/ follow'[r].follower # d
                                \/ follow'[r].following # b
             /\ \A x \in Calls : Past(call'[x]) => Past(call[x])
  <2>1. PICK r \in Rows :
          /\ follow' = [follow EXCEPT ![r] =
                 [follower |-> call[c].follower, following |-> call[c].following,
                  status |-> IF call[c].profile = "private" THEN "PENDING" ELSE "ACCEPTED"]]
          /\ Goto(c, [Idle EXCEPT !.step = "notify", !.row = r,
                                  !.profile = call[c].profile])
    BY <1>9 DEF ToggleCreate
  <2>2. call[c].follower # d \/ call[c].following # b
    BY <1>2, <1>9 DEF ToggleCreate
  <2>3. ~Past([Idle EXCEPT !.step = "notify", !.row = r,
                           !.profile = call[c].profile])
    BY DEF Idle
  <2>4. QED
    BY <1>0, <2>1, <2>2, <2>3, <1>3 DEF TypeOK
<1>10. ASSUME NEW c \in Calls, Notify(c) \/ CallDies(c)
       PROVE  /\ UNCHANGED follow
              /\ \A x \in Calls : Past(call'[x]) => Past(call[x])
  BY <1>10, <1>4 DEF Notify, CallDies
<1>11. ASSUME NEW c \in Calls, NEW e \in Users, NEW a \in Users,
              AcceptFind(c, a, e) \/ RejectFind(c, a, e)
       PROVE  /\ UNCHANGED follow
              /\ \A x \in Calls : Past(call'[x]) => Past(call[x])
  <2>1. ASSUME NEW r, Goto(c, [Idle EXCEPT !.step = "accept", !.follower = e,
                                           !.following = a, !.row = r])
        PROVE  \A x \in Calls : Past(call'[x]) => Past(call[x])
    BY <2>1, <1>3 DEF Idle
  <2>2. ASSUME NEW r, Goto(c, [Idle EXCEPT !.step = "reject", !.row = r])
        PROVE  \A x \in Calls : Past(call'[x]) => Past(call[x])
    BY <2>2, <1>3 DEF Idle
  <2>3. QED
    BY <1>11, <2>1, <2>2 DEF AcceptFind, RejectFind
<1>12. ASSUME NEW c \in Calls, AcceptUpdate(c)
       PROVE  /\ \A r \in Rows : \/ follow'[r] = follow[r]
                                 \/ /\ follow[r].status \in Live
                                    /\ follow'[r].follower = follow[r].follower
                                    /\ follow'[r].following = follow[r].following
              /\ \A x \in Calls : Past(call'[x]) => Past(call[x])
  <2>1. ~Past([Idle EXCEPT !.step = "notifyAccepted", !.row = call[c].row])
    BY DEF Idle
  <2>2. Goto(c, [Idle EXCEPT !.step = "notifyAccepted", !.row = call[c].row])
    BY <1>12 DEF AcceptUpdate
  <2>3. QED
    BY ZenonT(30), <1>0, <1>12, <2>1, <2>2, <1>3 DEF AcceptUpdate, TypeOK, FollowRow
<1>13. ASSUME NEW c \in Calls, NEW e \in Users, NEW a \in Users, BlockCreate(c, a, e)
       PROVE  /\ UNCHANGED follow
              /\ \A x \in Calls : Past(call'[x]) => Past(call[x])
  BY <1>13, <1>3 DEF BlockCreate, Idle
<1>14. ASSUME NEW c \in Calls, BlockDeleteFollows(c)
       PROVE  /\ \A r \in Rows : follow'[r] = follow[r] \/ follow'[r].status \notin Live
              /\ \A x \in Calls : Past(call'[x]) => Past(call[x])
  <2>1. NoRow("deleted").status \notin Live
    BY DEF NoRow, Live
  <2>2. QED
    BY <1>0, <1>14, <2>1, <1>4 DEF BlockDeleteFollows, TypeOK
<1>15. CASE UNCHANGED <<follow, call>>
  BY <1>15 DEF Between
<1>16. QED
  BY <1>5, <1>6, <1>7, <1>8, <1>9, <1>10, <1>11, <1>12, <1>13, <1>14, <1>15
     DEF Next, vars, Unblock, SetPrivate, Between

\* What SeparationLasts says of a step holds of every step from FollowInv.
THEOREM SeparationHolds == Spec => SeparationLasts
<1>1. FollowInv /\ [Next]_vars =>
        [\A b, d \in Users :
            Separated(b, d) /\ <<b, d>> \in block' => Separated(b, d)']_vars
  BY SeparatedStep
<1>2. QED
  BY FollowInvariant, <1>1, PTL DEF Spec, SeparationLasts

=============================================================================
