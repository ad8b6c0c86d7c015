------------------------- MODULE Engagement_proofs -------------------------
(***************************************************************************)
(* What users do with content, for any number of users, rows and calls:    *)
(* the properties of Engagement, by the inductive invariant EngagementInv. *)
(*                                                                         *)
(* The proof goes in two rounds.  Each step of a call is first put into    *)
(* one of a few shapes: what it does to the calls, and what to the rows.   *)
(* SharedInv follows from the shapes.  Each component's part of the        *)
(* invariant then follows from the shapes and from that component's own    *)
(* variables, so that a component does not look into the others' actions.  *)
(***************************************************************************)
EXTENDS Engagement, FiniteSetTheorems, TLAPS

----------------------------------------------------------------------------
(* The shapes of steps.                                                    *)
(***************************************************************************)
\* All that a call remembers but whether it is calm.
Kept(d) ==
    /\ call'[d].op = call[d].op /\ call'[d].step = call[d].step
    /\ call'[d].user = call[d].user /\ call'[d].on = call[d].on
    /\ call'[d].with = call[d].with /\ call'[d].args = call[d].args
    /\ call'[d].seen = call[d].seen /\ call'[d].to = call[d].to
    /\ call'[d].did = call[d].did

\* A request arrives: those in flight are calm no longer, and it is not if
\* there are any, or if something it names is gone.
Began(c) ==
    /\ call[c].step = "unused"
    /\ call'[c].step # "unused" /\ call'[c].did = "nothing" /\ call'[c].to = {}
    /\ call'[c].calm = "yes" => Named(c)' \subseteq rows /\ \A d \in Calls : ~InFlight(d)
    /\ \A d \in Calls \ {c} :
           Kept(d) /\ call'[d].calm = IF InFlight(d) THEN "no" ELSE call[d].calm

\* A call goes on, or is over; it names no more than before, and what it wrote
\* stays written.
Went(c) ==
    /\ InFlight(c)
    /\ call'[c].step # "unused"
    /\ call'[c].op = call[c].op /\ call'[c].user = call[c].user /\ call'[c].on = call[c].on
    /\ call'[c].args = call[c].args /\ call'[c].calm = call[c].calm
    /\ call'[c].with = call[c].with \/ call'[c].with \notin Things
    /\ call[c].did # "nothing" => call'[c].did = call[c].did
    /\ \A d \in Calls \ {c} : call'[d] = call[d]

CallStep(c) ==
    /\ call' \in [Calls -> CallRecord]
    /\ Began(c) \/ Went(c)
    /\ CallFits(c)'

\* Ids are drawn once: what is gone does not come back, and what a row refers
\* to does not change.
RowStep ==
    /\ rows' \subseteq used' /\ used \subseteq used' /\ used' \subseteq Things
    /\ rows' \cap used \subseteq rows
    /\ owner' \in [Things -> Users \cup {None}] /\ within' \in [Things -> SUBSET Things]
    /\ \A x \in used : owner'[x] = owner[x] /\ within'[x] = within[x]
    /\ parts' \in [Highlights -> SUBSET Stories]
    /\ RowsFit'

\* The rows do not change at all.
LEMMA NoRowStep ==
    ASSUME SharedInv, UNCHANGED contentVars
    PROVE  RowStep
BY DEF SharedInv, TypeOK, RequestsTypeOK, RowStep, RowsFit, contentVars

\* A new row.
LEMMA MakeRowStep ==
    ASSUME SharedInv, NEW x \in Things, NEW u \in Users, NEW holders \in SUBSET rows,
           NEW stories \in SUBSET Stories, MakeRow(x, u, holders, stories),
           IF x \in Comments THEN holders \subseteq Posts \cup Comments /\ holders \cap Posts # {}
           ELSE holders = {}
    PROVE  RowStep
BY DEF SharedInv, TypeOK, RequestsTypeOK, RowStep, RowsFit, MakeRow

\* What a deletion leaves refers to what it leaves; what refers to nothing
\* stays.
LEMMA StayingStays ==
    ASSUME SharedInv, NEW x
    PROVE  /\ Staying(x) \subseteq rows \ {x}
           /\ \A y \in Staying(x) : within[y] \subseteq Staying(x)
           /\ \A y \in rows \ {x} : within[y] = {} => y \in Staying(x)
<1>1. ASSUME NEW y \in rows \ {x}, within[y] = {}
      PROVE  y \in Staying(x)
  <2>1. {y} \in SUBSET (rows \ {x}) /\ \A z \in {y} : within[z] \subseteq {y}
    BY <1>1
  <2>2. QED
    BY <2>1 DEF Staying
<1>2. QED
  BY <1>1 DEF Staying

\* A deletion and what it cascades to is a step of rows.
LEMMA DropRowStep ==
    ASSUME SharedInv, NEW x, DropRow(x)
    PROVE  RowStep
<1>1. parts' \in [Highlights -> SUBSET Stories]
  BY DEF SharedInv, TypeOK, RequestsTypeOK, DropRow
<1>2. QED
  BY <1>1, StayingStays DEF SharedInv, TypeOK, RequestsTypeOK, RowStep, RowsFit, DropRow

----------------------------------------------------------------------------
(* The statements that the handlers share.                                 *)
(***************************************************************************)
Target == Things \cup Users \cup Emails \cup NoticeId \cup {None}
Detail == Things \cup Reactions \cup Accounts \cup {None}

\* What the first statement of a request makes of its call.
LEMMA BeginShape ==
    ASSUME call \in [Calls -> CallRecord], NEW c \in Calls, NEW op \in Ops,
           NEW u \in Users \cup {None}, NEW on \in Target, NEW with \in Detail,
           NEW args \in SUBSET (Users \cup Stories \cup Promotions), NEW seen \in Nat,
           NEW step \in Active \cup Over, Begin(c, op, u, on, with, args, seen, step)
    PROVE  /\ call' \in [Calls -> CallRecord] /\ Began(c)
           /\ call'[c].op = op /\ call'[c].user = u /\ call'[c].on = on
           /\ call'[c].with = with /\ call'[c].args = args /\ call'[c].seen = seen
           /\ call'[c].step = step
<1>1. step # "unused"
  BY DEF Active, Over
<1>2. call' \in [Calls -> CallRecord]
  BY DEF Begin, CallRecord, Target, Detail
<1>3. /\ call'[c].op = op /\ call'[c].user = u /\ call'[c].on = on
      /\ call'[c].with = with /\ call'[c].args = args /\ call'[c].seen = seen
      /\ call'[c].step = step /\ call'[c].did = "nothing" /\ call'[c].to = {}
      /\ call'[c].calm = IF (\E d \in Calls : InFlight(d))
                            \/ ~((({on, with} \cup args) \cap Things) \subseteq rows)
                         THEN "no" ELSE "yes"
  BY DEF Begin
<1>4. ASSUME NEW d \in Calls \ {c}
      PROVE  Kept(d) /\ call'[d].calm = IF InFlight(d) THEN "no" ELSE call[d].calm
  <2>1. call'[d] = IF InFlight(d) THEN [call[d] EXCEPT !.calm = "no"] ELSE call[d]
    BY DEF Begin
  <2>2. call[d] \in CallRecord
    OBVIOUS
  <2>3. QED
    BY <2>1, <2>2 DEF Kept, CallRecord
<1>5. Named(c)' = ({on, with} \cup args) \cap Things
  BY <1>3 DEF Named
<1>6. Began(c)
  BY <1>1, <1>3, <1>4, <1>5 DEF Began, Begin
<1>7. QED
  BY <1>2, <1>3, <1>6

\* A call that only moves on, or is over.
LEMMA GotoShape ==
    ASSUME SharedInv, NEW c \in Calls, InFlight(c), NEW step \in Active \cup Over, Goto(c, step)
    PROVE  /\ call' \in [Calls -> CallRecord] /\ Went(c)
           /\ call'[c].step = step /\ call'[c].with = call[c].with
           /\ call'[c].seen = call[c].seen /\ call'[c].to = call[c].to
           /\ call'[c].did = call[c].did
<1>1. call \in [Calls -> CallRecord] /\ step # "unused"
  BY DEF SharedInv, TypeOK, RequestsTypeOK, Active, Over
<1>2. call' \in [Calls -> CallRecord]
  BY <1>1 DEF Goto, CallRecord
<1>3. QED
  BY <1>1, <1>2 DEF Goto, Went, CallRecord

\* A statement that wrote ends its call, or has it tell those in to.
LEMMA WroteShape ==
    ASSUME SharedInv, NEW c \in Calls, InFlight(c),
           NEW did \in {"nothing", "created", "moved", "deleted"}, NEW to \in SUBSET (Users \X Kinds),
           call[c].did \in {"nothing", did}, Wrote(c, did, to)
    PROVE  /\ call' \in [Calls -> CallRecord] /\ Went(c)
           /\ call'[c].step = IF to = {} THEN "ended" ELSE "notify"
           /\ call'[c].with = call[c].with /\ call'[c].seen = call[c].seen
           /\ call'[c].to = to /\ call'[c].did = did
<1> DEFINE step == IF to = {} THEN "ended" ELSE "notify"
           rec == [call[c] EXCEPT !.did = did, !.to = to, !.step = step]
<1>1. call \in [Calls -> CallRecord] /\ step \in Active \cup Over /\ step # "unused"
  BY DEF SharedInv, TypeOK, RequestsTypeOK, Active, Over
<1>2. call' = [call EXCEPT ![c] = rec]
  BY <1>1 DEF Wrote
<1>3. /\ rec \in CallRecord /\ rec.op = call[c].op /\ rec.user = call[c].user
      /\ rec.on = call[c].on /\ rec.args = call[c].args /\ rec.calm = call[c].calm
      /\ rec.with = call[c].with /\ rec.seen = call[c].seen
      /\ rec.step = step /\ rec.to = to /\ rec.did = did
  BY ZenonT(60), <1>1 DEF CallRecord
<1> HIDE DEF rec
<1>4. call' \in [Calls -> CallRecord]
  BY <1>1, <1>2, <1>3
<1>5. QED
  BY <1>1, <1>2, <1>3, <1>4 DEF Went

\* A call that goes on has what it names from before.
LEMMA WentNames ==
    ASSUME NEW c \in Calls, Went(c)
    PROVE  Named(c)' \subseteq Named(c)
BY DEF Went, Named

\* A call that goes on still fits, if its step and what was added do.
LEMMA GoingFits ==
    ASSUME SharedInv, NEW c \in Calls, Went(c), used \subseteq used',
           call'[c].with = call[c].with \/ call'[c].with \in Details(call[c].op), StepFits(c)'
    PROVE  CallFits(c)'
BY WentNames DEF SharedInv, CallsFit, CallFits, Went

----------------------------------------------------------------------------
(* Marks.                                                                  *)
(***************************************************************************)
MarkOps == {"like", "bookmark", "file", "likeComment", "unlikeComment", "view", "reactStory",
            "reactMessage", "closeFriend", "join"}

\* Which table an operation is about.
LEMMA TableOf ==
    /\ DOMAIN Table = MarkOps
    /\ \A op \in {"like", "view", "closeFriend"} : Table[op] = op
    /\ Table["bookmark"] = "bookmark" /\ Table["file"] = "bookmark"
    /\ Table["likeComment"] = "commentLike" /\ Table["unlikeComment"] = "commentLike"
    /\ Table["reactStory"] = "reaction" /\ Table["reactMessage"] = "messageReaction"
    /\ Table["join"] = "whitelist"
BY DEF Table, MarkOps

\* A call about a mark names a key.
LEMMA KeyFits ==
    ASSUME call \in [Calls -> CallRecord], NEW c \in Calls, CallFits(c), call[c].op \in MarkOps
    PROVE  KeyOf(c) \in Key /\ KeyOf(c)[3] = call[c].on
<1>1. call[c].user \in Users \cup {None}
  BY DEF CallRecord
<1>2. call[c].op # "join" => call[c].user \in Users
  BY <1>1 DEF CallFits, MarkOps
<1>3. KeyOf(c) \in Key
  <2> USE TableOf DEF KeyOf, Key, CallFits, Targets
  <2>1. CASE call[c].op \in {"like", "bookmark", "file"}
    BY <1>2, <2>1
  <2>2. CASE call[c].op \in {"likeComment", "unlikeComment"}
    BY <1>2, <2>2
  <2>3. CASE call[c].op \in {"view", "reactStory"}
    BY <1>2, <2>3
  <2>4. CASE call[c].op \in {"reactMessage", "closeFriend"}
    BY <1>2, <2>4
  <2>5. CASE call[c].op = "join"
    BY <2>5
  <2>6. QED
    BY <2>1, <2>2, <2>3, <2>4, <2>5 DEF MarkOps
<1>4. QED
  BY <1>3 DEF KeyOf

\* A request begins by looking for its row, for its target, or not at all.
MarkBegins(c) ==
    /\ Began(c)
    /\ call'[c].step \in {"find", "write", "refused"}
    /\ call'[c].step = "write" => call'[c].seen = mark[KeyOf(c)'].id
    /\ UNCHANGED markVars
\* It has found the target and looks for its row.
MarkLooks(c) ==
    /\ Went(c) /\ call[c].step = "find" /\ call'[c].step = "write"
    /\ call'[c].seen = mark[KeyOf(c)].id
    /\ call'[c].to = call[c].to /\ call'[c].did = "nothing"
    /\ UNCHANGED markVars
\* The row is inserted; it is of the call's user and what it names.
MarkInserts(c) ==
    LET k == KeyOf(c) IN
    /\ Went(c) /\ call[c].step = "write" /\ call'[c].did = "created"
    /\ call'[c].to \subseteq Users \X Kinds /\ call'[c].to = Due(c)
    /\ call'[c].step = (IF call'[c].to = {} THEN "ended" ELSE "notify")
    /\ call'[c].with = call[c].with
    /\ mark[k] = NoRow /\ Exists(k[3]) /\ Exists(call[c].with)
    /\ mark' = [mark EXCEPT ![k] = [id |-> serial[k] + 1, value |-> call[c].with]]
    /\ serial' = [serial EXCEPT ![k] = @ + 1]
\* The row is deleted, or changed.
MarkDeletes(c) ==
    /\ Went(c) /\ call[c].step = "write" /\ call'[c].did = "deleted"
    /\ call'[c].to = {} /\ call'[c].step = "ended"
    /\ mark[KeyOf(c)] # NoRow
    /\ mark' = [mark EXCEPT ![KeyOf(c)] = NoRow] /\ UNCHANGED serial
MarkMoves(c) ==
    LET k == KeyOf(c) IN
    /\ Went(c) /\ call[c].step = "write" /\ call'[c].did = "moved"
    /\ call'[c].to = {} /\ call'[c].step = "ended"
    /\ mark[k] # NoRow /\ Exists(call[c].with)
    /\ mark' = [mark EXCEPT ![k] = [mark[k] EXCEPT !.value = call[c].with]] /\ UNCHANGED serial
\* The row is not what it was, or what it refers to is gone.
MarkFails(c) ==
    /\ Went(c) /\ call[c].step = "write" /\ call'[c].step = "failed"
    /\ call'[c].to = call[c].to /\ call'[c].did = "nothing" /\ call'[c].with = call[c].with
    /\ mark[KeyOf(c)].id = call[c].seen => ~Exists(call[c].on) \/ ~Exists(call[c].with)
    /\ UNCHANGED markVars
\* There is nothing to do.
MarkRests(c) ==
    /\ Went(c) /\ call[c].step = "write" /\ call'[c].step = "ended"
    /\ call'[c].to = call[c].to /\ call'[c].did = "nothing"
    /\ UNCHANGED markVars

MarkShape(c) ==
    /\ UNCHANGED <<contentVars, notice>>
    /\ call' \in [Calls -> CallRecord] /\ CallFits(c)'
    /\ call'[c].op \in MarkOps
    /\ \/ MarkBegins(c) \/ MarkLooks(c) \/ MarkInserts(c) \/ MarkDeletes(c)
       \/ MarkMoves(c) \/ MarkFails(c) \/ MarkRests(c)

\* The three kinds of first statements.
LEMMA BeginMark ==
    ASSUME SharedInv, NEW c \in Calls, NEW op \in MarkOps, NEW u \in Users \cup {None},
           NEW x \in Target, NEW value \in Detail, NEW seen \in Nat,
           NEW step \in {"find", "write", "refused"},
           Begin(c, op, u, x, value, {}, seen, step),
           UNCHANGED <<markVars, contentVars, notice>>,
           u = None <=> op = "join",
           step = "find" => op \in {"like", "likeComment", "bookmark"},
           step = "write" => seen = mark[<<Table[op], u, x>>].id,
           {x, value} \cap Things \subseteq used, x \in Targets(op), value \in Details(op)
    PROVE  MarkShape(c)
<1>1. /\ op \in Ops /\ step \in Active \cup Over /\ step \in {"find", "write", "refused"}
      /\ call \in [Calls -> CallRecord]
  BY DEF MarkOps, Ops, Active, Over, SharedInv, TypeOK, RequestsTypeOK
<1>2. /\ call' \in [Calls -> CallRecord] /\ Began(c)
      /\ call'[c].op = op /\ call'[c].user = u /\ call'[c].on = x /\ call'[c].with = value
      /\ call'[c].args = {} /\ call'[c].seen = seen /\ call'[c].step = step
  BY <1>1, BeginShape
<1>3. Named(c)' \subseteq used'
  BY <1>2 DEF Named, contentVars
<1>4. StepFits(c)'
  BY <1>2 DEF StepFits, Began, MarkOps
<1>5. CallFits(c)'
  BY <1>2, <1>3, <1>4 DEF CallFits, MarkOps
<1>6. MarkBegins(c)
  BY <1>2 DEF MarkBegins, KeyOf
<1>7. QED
  BY <1>2, <1>5, <1>6 DEF MarkShape

\* The writes, from the step at which each handler writes.
LEMMA InsertShape ==
    ASSUME SharedInv, MarksFit, NEW c \in Calls, call[c].op \in MarkOps, call[c].step = "write",
           call[c].seen = 0, NEW to \in SUBSET (Users \X Kinds), to = Due(c),
           call[c].op \notin TellingOps => to = {},
           Insert(c, call[c].with, to), UNCHANGED <<contentVars, notice>>
    PROVE  MarkShape(c)
<1> DEFINE k == KeyOf(c)
<1>1. /\ call \in [Calls -> CallRecord] /\ InFlight(c) /\ call[c].did = "nothing"
      /\ k \in Key /\ k[3] = call[c].on
  BY KeyFits DEF SharedInv, TypeOK, RequestsTypeOK, InFlight, Active, CallsFit, CallFits, StepFits
<1>2. CASE mark[k] = NoRow /\ Exists(k[3]) /\ Exists(call[c].with)
  <2>1. /\ Wrote(c, "created", to)
        /\ mark' = [mark EXCEPT ![k] = [id |-> serial[k] + 1, value |-> call[c].with]]
        /\ serial' = [serial EXCEPT ![k] = @ + 1]
    BY <1>2 DEF Insert, SetMark
  <2>2. /\ call' \in [Calls -> CallRecord] /\ Went(c)
        /\ call'[c].step = IF to = {} THEN "ended" ELSE "notify"
        /\ call'[c].with = call[c].with /\ call'[c].to = to /\ call'[c].did = "created"
    BY <1>1, <2>1, WroteShape
  <2>3. StepFits(c)'
    BY <2>2 DEF StepFits, Went, MarkOps
  <2>4. CallFits(c)'
    BY <2>2, <2>3, GoingFits DEF contentVars
  <2>5. MarkInserts(c)
    BY <1>2, <2>1, <2>2 DEF MarkInserts
  <2>6. QED
    BY <2>2, <2>4, <2>5 DEF MarkShape, Went
<1>3. CASE ~(mark[k] = NoRow /\ Exists(k[3]) /\ Exists(call[c].with))
  <2>1. Goto(c, "failed") /\ UNCHANGED markVars
    BY <1>3 DEF Insert, Fails
  <2>2. "failed" \in Active \cup Over
    BY DEF Over
  <2>3. /\ call' \in [Calls -> CallRecord] /\ Went(c)
        /\ call'[c].step = "failed" /\ call'[c].with = call[c].with
        /\ call'[c].to = call[c].to /\ call'[c].did = "nothing"
    BY <1>1, <2>1, <2>2, GotoShape
  <2>4. StepFits(c)'
    BY <2>3 DEF StepFits, Went, MarkOps
  <2>5. CallFits(c)'
    BY <2>3, <2>4, GoingFits DEF contentVars
  <2>6. MarkFails(c)
    BY <1>1, <1>3, <2>1, <2>3 DEF MarkFails, MarksFit
  <2>7. QED
    BY <2>3, <2>5, <2>6 DEF MarkShape, Went
<1>4. QED
  BY <1>2, <1>3

\* An update or a deletion of the row found, or of the one there is by now.
LEMMA RewriteShape ==
    ASSUME SharedInv, MarksFit, NEW c \in Calls, call[c].op \in MarkOps, call[c].step = "write",
           UNCHANGED <<contentVars, notice>>,
           \/ /\ mark[KeyOf(c)] # NoRow /\ Exists(call[c].with) /\ UNCHANGED serial
              /\ SetMark(KeyOf(c), [mark[KeyOf(c)] EXCEPT !.value = call[c].with])
              /\ Wrote(c, "moved", {})
           \/ /\ mark[KeyOf(c)] # NoRow /\ UNCHANGED serial
              /\ SetMark(KeyOf(c), NoRow) /\ Wrote(c, "deleted", {})
           \/ /\ mark[KeyOf(c)].id = call[c].seen => ~Exists(call[c].with)
              /\ Fails(c)
           \/ Goto(c, "ended") /\ UNCHANGED markVars
    PROVE  MarkShape(c)
<1>1. /\ call \in [Calls -> CallRecord] /\ InFlight(c) /\ call[c].did = "nothing"
      /\ KeyOf(c) \in Key
  BY KeyFits DEF SharedInv, TypeOK, RequestsTypeOK, InFlight, Active, CallsFit, CallFits, StepFits
<1>2. "failed" \in Active \cup Over /\ "ended" \in Active \cup Over
  BY DEF Over
<1>3. /\ call' \in [Calls -> CallRecord] /\ Went(c)
      /\ call'[c].step \in {"ended", "failed"} /\ call'[c].with = call[c].with
  BY <1>1, <1>2, GotoShape, WroteShape DEF Fails
<1>4. StepFits(c)'
  BY <1>3 DEF StepFits, Went, MarkOps
<1>5. CallFits(c)'
  BY <1>3, <1>4, GoingFits DEF contentVars
<1>6. MarkMoves(c) \/ MarkDeletes(c) \/ MarkFails(c) \/ MarkRests(c)
  <2>1. CASE SetMark(KeyOf(c), [mark[KeyOf(c)] EXCEPT !.value = call[c].with])
             /\ mark[KeyOf(c)] # NoRow /\ Exists(call[c].with) /\ UNCHANGED serial
             /\ Wrote(c, "moved", {})
    BY <1>1, <2>1, WroteShape DEF MarkMoves, SetMark
  <2>2. CASE SetMark(KeyOf(c), NoRow) /\ mark[KeyOf(c)] # NoRow /\ UNCHANGED serial
             /\ Wrote(c, "deleted", {})
    BY <1>1, <2>2, WroteShape DEF MarkDeletes, SetMark
  <2>3. CASE Fails(c) /\ (mark[KeyOf(c)].id = call[c].seen => ~Exists(call[c].with))
    BY <1>1, <1>2, <2>3, GotoShape DEF MarkFails, Fails
  <2>4. CASE Goto(c, "ended") /\ UNCHANGED markVars
    BY <1>1, <1>2, <2>4, GotoShape DEF MarkRests
  <2>5. QED
    BY <2>1, <2>2, <2>3, <2>4
<1>7. QED
  BY <1>3, <1>5, <1>6 DEF MarkShape, Went

\* The look between the two.
LEMMA LookShape ==
    ASSUME SharedInv, NEW c \in Calls, call[c].step = "find", call[c].op \in MarkOps,
           UNCHANGED <<markVars, contentVars, notice>>, NEW value \in {call[c].with, None},
           call' = [call EXCEPT ![c].seen = mark[KeyOf(c)].id, ![c].step = "write",
                                ![c].with = value],
           value \in Details(call[c].op)
    PROVE  MarkShape(c)
<1> DEFINE id == mark[KeyOf(c)].id
           rec == [call[c] EXCEPT !.seen = id, !.step = "write", !.with = value]
<1>1. /\ call \in [Calls -> CallRecord] /\ InFlight(c) /\ call[c].did = "nothing"
      /\ KeyOf(c) \in Key /\ mark \in [Key -> MarkRow]
  BY KeyFits DEF SharedInv, TypeOK, RequestsTypeOK, MarksTypeOK, InFlight, Active, CallsFit, CallFits, StepFits
<1>2. id \in Nat /\ value \in Detail /\ (value = call[c].with \/ value \notin Things)
  BY <1>1, RequestsAssumption DEF MarkRow, CallRecord, Detail
<1>3. call' = [call EXCEPT ![c] = rec]
  BY <1>1
<1>4. /\ rec \in CallRecord /\ rec.op = call[c].op /\ rec.user = call[c].user
      /\ rec.on = call[c].on /\ rec.args = call[c].args /\ rec.calm = call[c].calm
      /\ rec.with = value /\ rec.seen = id
      /\ rec.step = "write" /\ rec.to = call[c].to /\ rec.did = call[c].did
  BY <1>1, <1>2 DEF CallRecord, Active, Detail
<1> HIDE DEF rec, id
<1>5. /\ call' \in [Calls -> CallRecord] /\ Went(c) /\ call'[c] = rec
  BY ZenonT(30), <1>1, <1>2, <1>3, <1>4 DEF Went
<1>6. StepFits(c)'
  BY <1>1, <1>4, <1>5 DEF StepFits, MarkOps
<1>7. CallFits(c)'
  BY <1>5, <1>6, GoingFits DEF contentVars
<1>8. MarkLooks(c)
  BY <1>1, <1>4, <1>5 DEF MarkLooks, id
<1>9. QED
  BY <1>4, <1>5, <1>7, <1>8 DEF MarkShape

\* What each kind of mark is put on.
LEMMA MarkTargets ==
    ASSUME NEW op \in MarkOps
    PROVE  /\ Targets(op) \subseteq Target /\ Details(op) \subseteq Detail
           /\ op \in {"like", "bookmark", "file"} => Targets(op) = Posts
           /\ op \in {"likeComment", "unlikeComment"} => Targets(op) = Comments
           /\ op \in {"view", "reactStory"} => Targets(op) = Stories
           /\ op = "reactMessage" => Targets(op) = Messages
           /\ op = "closeFriend" => Targets(op) = Users
           /\ op = "join" => Targets(op) = Emails
           /\ op \in {"bookmark", "file"} => Details(op) = Collections \cup {None}
           /\ op \in {"reactStory", "reactMessage"} => Details(op) = Reactions
           /\ None \in Details(op) <=> op \notin {"reactStory", "reactMessage"}
BY RequestsAssumption DEF MarkOps, Targets, Details, Target, Detail, Things

\* The beginning of a request that first finds what it marks is a step of a mark.
LEMMA FindingShape ==
    ASSUME SharedInv, NEW c \in Calls, NEW op \in {"like", "likeComment", "bookmark"},
           NEW u \in Users, NEW x \in Targets(op) \cap used, NEW value \in Details(op),
           {value} \cap Things \subseteq used, BeginFinding(c, op, u, x, value)
    PROVE  MarkShape(c)
<1>1. op \in MarkOps /\ x \in Target /\ value \in Detail /\ 0 \in Nat /\ u # None
  BY MarkTargets, RequestsAssumption DEF MarkOps
<1>2. /\ UNCHANGED <<markVars, contentVars, notice>> /\ {x, value} \cap Things \subseteq used
      /\ (u = None <=> op = "join")
  BY <1>1 DEF BeginFinding
<1>3. CASE x \in rows
  <2>1. Begin(c, op, u, x, value, {}, 0, "find")
    BY <1>3 DEF BeginFinding
  <2>2. QED
    BY <1>1, <1>2, <2>1, BeginMark
<1>4. CASE x \notin rows
  <2>1. Begin(c, op, u, x, value, {}, 0, "refused")
    BY <1>4 DEF BeginFinding
  <2>2. QED
    BY <1>1, <1>2, <2>1, BeginMark
<1>5. QED
  BY <1>3, <1>4

\* The beginning of a request that looks for its mark at once is a step of a mark.
LEMMA LookingShape ==
    ASSUME SharedInv, NEW c \in Calls, NEW op \in MarkOps \ {"join"},
           NEW u \in Users, NEW x \in Targets(op), NEW value \in Details(op),
           {x, value} \cap Things \subseteq used, BeginLooking(c, op, u, x, value)
    PROVE  MarkShape(c)
<1> DEFINE k == <<Table[op], u, x>>
<1>1. x \in Target /\ value \in Detail /\ u # None
  BY MarkTargets, RequestsAssumption
<1>2. k \in Key
  BY TableOf, MarkTargets DEF Key, MarkOps
<1>3. mark[k].id \in Nat
  BY <1>2 DEF SharedInv, TypeOK, MarksTypeOK, MarkRow
<1>4. Begin(c, op, u, x, value, {}, mark[k].id, "write")
  BY DEF BeginLooking
<1> HIDE DEF k
<1>5. QED
  BY <1>1, <1>3, <1>4, BeginMark DEF BeginLooking, k

\* Looking for a mark is a step of a mark.
LEMMA LookUpShape ==
    ASSUME SharedInv, NEW c \in Calls, NEW op \in MarkOps, Look(c, op)
    PROVE  MarkShape(c)
<1>1. call \in [Calls -> CallRecord] /\ CallFits(c) /\ call[c].op = op
  BY DEF SharedInv, TypeOK, RequestsTypeOK, CallsFit, Look, At
<1>2. call' = [call EXCEPT ![c].seen = mark[KeyOf(c)].id, ![c].step = "write",
                           ![c].with = call[c].with]
  BY <1>1 DEF Look, CallRecord
<1>3. QED
  BY <1>1, <1>2, LookShape DEF Look, At, CallFits

\* A call that is about to write names rows that were drawn, with an author.
LEMMA WriterFits ==
    ASSUME SharedInv, NEW c \in Calls, call[c].op \in MarkOps
    PROVE  /\ call[c].on \in Targets(call[c].op) /\ call[c].with \in Details(call[c].op)
           /\ call[c].op \notin {"bookmark", "file", "reactStory", "reactMessage"} =>
                  call[c].with = None
           /\ call[c].op \in {"like", "likeComment"} => owner[call[c].on] \in Users
<1>1. /\ CallFits(c) /\ call[c].on \in Targets(call[c].op) /\ call[c].with \in Details(call[c].op)
  BY DEF SharedInv, CallsFit, CallFits
<1>2. call[c].op \notin {"bookmark", "file", "reactStory", "reactMessage"} => call[c].with = None
  BY <1>1 DEF Details, MarkOps
<1>3. call[c].op \in {"like", "likeComment"} => call[c].on \in used
  BY <1>1, MarkTargets DEF CallFits, Named, Things
<1>4. QED
  BY <1>1, <1>2, <1>3 DEF SharedInv, RowsFit

\* Putting a mark where none was found is a step of a mark.
LEMMA NewMarkShape ==
    ASSUME SharedInv, MarksFit, NEW c \in Calls, NEW op \in MarkOps, Absent(c, op),
           \/ op \notin TellingOps /\ Insert(c, call[c].with, {})
           \/ op = "like" /\ Insert(c, None, Except(call[c].user, {<<owner[call[c].on], "like">>}))
           \/ /\ op = "likeComment"
              /\ Insert(c, None, Except(call[c].user, {<<owner[call[c].on], "commentLike">>}))
    PROVE  MarkShape(c)
<1>1. /\ call[c].op = op /\ call[c].step = "write" /\ call[c].seen = 0
      /\ UNCHANGED <<contentVars, notice>>
  BY DEF Absent, At
<1>2. CASE op \notin TellingOps /\ Insert(c, call[c].with, {})
  <2>1. {} = Due(c)
    BY <1>1, <1>2 DEF Due, Except, TellingOps
  <2>2. QED
    BY <1>1, <1>2, <2>1, InsertShape
<1>3. CASE op = "like" /\ Insert(c, None, Except(call[c].user, {<<owner[call[c].on], "like">>}))
  <2> DEFINE to == Except(call[c].user, {<<owner[call[c].on], "like">>})
  <2>1. to = Due(c)
    BY <1>1, <1>3 DEF Due
  <2>2. to \in SUBSET (Users \X Kinds) /\ call[c].with = None /\ op \in TellingOps
    BY <1>1, <1>3, WriterFits DEF Except, Kinds, TellingOps
  <2> HIDE DEF to
  <2>3. Insert(c, call[c].with, to)
    BY <1>3, <2>2 DEF to
  <2>4. QED
    BY <1>1, <2>1, <2>2, <2>3, InsertShape
<1>4. CASE /\ op = "likeComment"
           /\ Insert(c, None, Except(call[c].user, {<<owner[call[c].on], "commentLike">>}))
  <2> DEFINE to == Except(call[c].user, {<<owner[call[c].on], "commentLike">>})
  <2>1. to = Due(c)
    BY <1>1, <1>4 DEF Due
  <2>2. to \in SUBSET (Users \X Kinds) /\ call[c].with = None /\ op \in TellingOps
    BY <1>1, <1>4, WriterFits DEF Except, Kinds, TellingOps
  <2> HIDE DEF to
  <2>3. Insert(c, call[c].with, to)
    BY <1>4, <2>2 DEF to
  <2>4. QED
    BY <1>1, <2>1, <2>2, <2>3, InsertShape
<1>5. QED
  BY <1>2, <1>3, <1>4

\* What is done with a mark that was found is a step of a mark.
LEMMA OldMarkShape ==
    ASSUME SharedInv, MarksFit, NEW c \in Calls, NEW op \in MarkOps, Present(c, op),
           \/ DeleteById(c) \/ UpdateById(c, call[c].with)
           \/ BookmarkDelete(c)
           \/ Goto(c, "ended") /\ UNCHANGED markVars
    PROVE  MarkShape(c)
<1> DEFINE k == KeyOf(c)
<1>1. /\ call[c].op \in MarkOps /\ call[c].step = "write" /\ call[c].seen # 0
      /\ UNCHANGED <<contentVars, notice>> /\ NoRow.id = 0
  BY DEF Present, At, NoRow
<1>2. CASE DeleteById(c)
  <2>1. CASE mark[k].id = call[c].seen
    BY <1>1, <1>2, <2>1, RewriteShape DEF DeleteById
  <2>2. CASE mark[k].id # call[c].seen
    BY <1>1, <1>2, <2>2, RewriteShape DEF DeleteById
  <2>3. QED
    BY <2>1, <2>2
<1>3. CASE UpdateById(c, call[c].with)
  <2>1. CASE mark[k].id = call[c].seen /\ Exists(call[c].with)
    BY <1>1, <1>3, <2>1, RewriteShape DEF UpdateById
  <2>2. CASE ~(mark[k].id = call[c].seen /\ Exists(call[c].with))
    BY <1>1, <1>3, <2>2, RewriteShape DEF UpdateById
  <2>3. QED
    BY <2>1, <2>2
<1>4. CASE BookmarkDelete(c)
  <2>1. CASE mark[k] # NoRow
    BY <1>1, <1>4, <2>1, RewriteShape DEF BookmarkDelete
  <2>2. CASE mark[k] = NoRow
    BY <1>1, <1>4, <2>2, RewriteShape DEF BookmarkDelete
  <2>3. QED
    BY <2>1, <2>2
<1>5. CASE Goto(c, "ended") /\ UNCHANGED markVars
  BY <1>1, <1>5, RewriteShape
<1>6. QED
  BY <1>2, <1>3, <1>4, <1>5

\* All statements of requests for marks are steps of a mark.
LEMMA MarksShape ==
    ASSUME SharedInv, MarksFit, NEW c \in Calls, MarksStep(c)
    PROVE  MarkShape(c)
<1> USE RequestsAssumption
<1>1. /\ None \in Details("like") /\ None \in Details("likeComment") /\ None \in Details("view")
      /\ None \in Details("unlikeComment") /\ None \in Details("closeFriend")
      /\ None \in Details("join") /\ None \notin Things /\ Actors \subseteq Users
  BY MarkTargets DEF MarkOps
<1>2. MarkOps = {"like", "bookmark", "file", "likeComment", "unlikeComment", "view", "reactStory",
                 "reactMessage", "closeFriend", "join"}
  BY DEF MarkOps
<1>3. CASE LikeFindPost(c)
  BY <1>1, <1>2, <1>3, MarkTargets, FindingShape DEF LikeFindPost
<1>4. CASE LikeCommentFind(c)
  BY <1>1, <1>2, <1>4, MarkTargets, FindingShape DEF LikeCommentFind
<1>5. CASE BookmarkFindPost(c)
  BY <1>1, <1>2, <1>5, MarkTargets, FindingShape DEF BookmarkFindPost, CollectionsNamed
<1>6. CASE LikeFind(c) \/ LikeCommentFindLike(c)
  BY <1>2, <1>6, LookUpShape DEF LikeFind, LikeCommentFindLike
<1>7. CASE BookmarkFind(c)
  <2>1. call[c].step = "find" /\ call[c].op = "bookmark" /\ call[c].op \in MarkOps
    BY <1>2, <1>7 DEF BookmarkFind, At
  <2>2. call[c].with \in Details("bookmark") /\ None \in Details("bookmark")
    BY <2>1, MarkTargets, WriterFits
  <2>3. PICK value \in {call[c].with, None} :
            call' = [call EXCEPT ![c].seen = mark[KeyOf(c)].id, ![c].step = "write",
                                 ![c].with = value]
    <3>1. CASE mark[KeyOf(c)] # NoRow /\ mark[KeyOf(c)].value = call[c].with
      BY <1>7, <3>1 DEF BookmarkFind
    <3>2. CASE ~(mark[KeyOf(c)] # NoRow /\ mark[KeyOf(c)].value = call[c].with)
      <4>1. call \in [Calls -> CallRecord]
        BY DEF SharedInv, TypeOK, RequestsTypeOK
      <4>2. call' = [call EXCEPT ![c].seen = mark[KeyOf(c)].id, ![c].step = "write",
                                 ![c].with = call[c].with]
        BY <1>7, <3>2, <4>1 DEF BookmarkFind, CallRecord
      <4>3. QED
        BY <4>2
    <3>3. QED
      BY <3>1, <3>2
  <2>4. UNCHANGED <<markVars, contentVars, notice>> /\ value \in Details(call[c].op)
    BY <1>7, <2>1, <2>2 DEF BookmarkFind
  <2>5. QED
    BY <2>1, <2>3, <2>4, LookShape
<1>8. CASE UnlikeCommentFind(c) \/ ViewFind(c)
  BY <1>1, <1>2, <1>8, MarkTargets, LookingShape DEF UnlikeCommentFind, ViewFind
<1>9. CASE UpdateCollectionFind(c)
  BY <1>1, <1>2, <1>9, MarkTargets, LookingShape DEF UpdateCollectionFind, CollectionsNamed
<1>10. CASE ReactStoryFind(c) \/ ReactMessageFind(c)
  <2>1. \A r \in Reactions : r \notin Things
    OBVIOUS
  <2>2. QED
    BY <1>1, <1>2, <1>10, <2>1, MarkTargets, LookingShape DEF ReactStoryFind, ReactMessageFind
<1>11. CASE CloseFriendFind(c)
  <2>1. PICK u \in Actors, f \in Users :
            IF u = f
            THEN /\ Begin(c, "closeFriend", u, f, None, {}, 0, "refused")
                 /\ UNCHANGED <<markVars, contentVars, notice>>
            ELSE BeginLooking(c, "closeFriend", u, f, None)
    BY <1>11 DEF CloseFriendFind
  <2>2. /\ u \in Users /\ f \in Targets("closeFriend") /\ f \in Target /\ None \in Detail
        /\ {f, None} \cap Things \subseteq used /\ "closeFriend" \in MarkOps \ {"join"}
        /\ u # None
    BY <1>1, <1>2, MarkTargets
  <2>3. CASE u = f
    <3>1. Begin(c, "closeFriend", u, f, None, {}, 0, "refused")
          /\ UNCHANGED <<markVars, contentVars, notice>>
      BY <2>1, <2>3
    <3>2. QED
      BY <1>1, <2>2, <3>1, BeginMark
  <2>4. CASE u # f
    <3>1. BeginLooking(c, "closeFriend", u, f, None)
      BY <2>1, <2>4
    <3>2. QED
      BY <1>1, <2>2, <3>1, LookingShape
  <2>5. QED
    BY <2>3, <2>4
<1>12. CASE JoinFind(c)
  <2>1. PICK e \in Emails :
            /\ Begin(c, "join", None, e, None, {}, mark[<<"whitelist", None, e>>].id,
                     IF mark[<<"whitelist", None, e>>].id = 0 THEN "write" ELSE "refused")
            /\ UNCHANGED <<markVars, contentVars, notice>>
    BY <1>12 DEF JoinFind
  <2> DEFINE k == <<"whitelist", None, e>>
  <2>2. /\ e \in Targets("join") /\ e \in Target /\ None \in Detail
        /\ {e, None} \cap Things \subseteq used /\ "join" \in MarkOps
    BY <1>1, <1>2, MarkTargets
  <2>3. mark[k].id \in Nat /\ k = <<Table["join"], None, e>>
    BY TableOf DEF SharedInv, TypeOK, MarksTypeOK, MarkRow, Key
  <2>4. CASE mark[k].id = 0
    <3>1. Begin(c, "join", None, e, None, {}, mark[k].id, "write")
      BY <2>1, <2>4
    <3> HIDE DEF k
    <3>2. QED
      BY <1>1, <2>1, <2>2, <2>3, <3>1, BeginMark
  <2>5. CASE mark[k].id # 0
    <3>1. Begin(c, "join", None, e, None, {}, mark[k].id, "refused")
      BY <2>1, <2>5
    <3> HIDE DEF k
    <3>2. QED
      BY <1>1, <2>1, <2>2, <2>3, <3>1, BeginMark
  <2>6. QED
    BY <2>4, <2>5
<1>13. CASE Like(c) \/ LikeComment(c)
  BY <1>2, <1>13, NewMarkShape DEF Like, LikeComment
<1>14. CASE BookmarkCreate(c) \/ (Absent(c, "file") /\ Insert(c, call[c].with, {}))
            \/ (Absent(c, "reactStory") /\ Insert(c, call[c].with, {}))
            \/ (Absent(c, "reactMessage") /\ Insert(c, call[c].with, {}))
  BY <1>2, <1>14, NewMarkShape DEF BookmarkCreate, TellingOps
<1>15. CASE (Absent(c, "view") /\ Insert(c, None, {}))
            \/ (Absent(c, "closeFriend") /\ Insert(c, None, {})) \/ Join(c)
  <2>1. PICK op \in {"view", "closeFriend", "join"} : Absent(c, op) /\ Insert(c, None, {})
    BY <1>15 DEF Join
  <2>2. call[c].with = None
    BY <1>2, <2>1, WriterFits DEF Absent, At
  <2>3. op \in MarkOps /\ op \notin TellingOps /\ Insert(c, call[c].with, {})
    BY <1>2, <2>1, <2>2 DEF TellingOps
  <2>4. QED
    BY <2>1, <2>3, NewMarkShape
<1>16. CASE Unlike(c) \/ (Present(c, "unlikeComment") /\ DeleteById(c))
            \/ (Present(c, "closeFriend") /\ DeleteById(c))
  BY <1>2, <1>16, OldMarkShape DEF Unlike
<1>17. CASE BookmarkMove(c) \/ (Present(c, "file") /\ UpdateById(c, call[c].with))
            \/ (Present(c, "reactStory") /\ UpdateById(c, call[c].with))
            \/ (Present(c, "reactMessage") /\ UpdateById(c, call[c].with))
  BY <1>2, <1>17, OldMarkShape DEF BookmarkMove
<1>18. CASE BookmarkDelete(c)
  BY <1>2, <1>18, OldMarkShape DEF BookmarkDelete
<1>19. CASE LikeCommentAgain(c) \/ (Present(c, "view") /\ Goto(c, "ended") /\ UNCHANGED markVars)
  BY <1>2, <1>19, OldMarkShape DEF LikeCommentAgain
<1>20. CASE Absent(c, "unlikeComment") /\ Goto(c, "ended") /\ UNCHANGED markVars
  BY <1>2, <1>20, RewriteShape DEF Absent, At
<1>21. QED
  BY <1>3, <1>4, <1>5, <1>6, <1>7, <1>8, <1>9, <1>10, <1>11, <1>12, <1>13, <1>14, <1>15, <1>16,
     <1>17, <1>18, <1>19, <1>20
     DEF MarksStep, UnlikeComment, UpdateCollection, View, ReactStory, ReactMessage, CloseFriend

----------------------------------------------------------------------------
(* What follows from the shapes.                                           *)
(***************************************************************************)
\* What is over stays as it is; what was written stays written; who was
\* disturbed stays disturbed; and a call in flight, or over, stays that call.
LEMMA CallsKeep ==
    ASSUME SharedInv, NEW c \in Calls, CallStep(c), NEW d \in Calls
    PROVE  /\ call[d].step \in Over =>
                  d # c /\ Kept(d) /\ call'[d].calm = call[d].calm /\ Named(d)' = Named(d)
           /\ call[d].step # "unused" =>
                  /\ call'[d].op = call[d].op /\ call'[d].user = call[d].user
                  /\ call'[d].on = call[d].on /\ Named(d)' \subseteq Named(d)
                  /\ call[d].calm = "no" => call'[d].calm = "no"
           /\ call[d].did # "nothing" =>
                  /\ call[d].step # "unused" /\ call'[d].did = call[d].did
           /\ d # c => Kept(d) /\ Named(d)' = Named(d)
<1>1. call \in [Calls -> CallRecord] /\ CallFits(d)
  BY DEF SharedInv, TypeOK, RequestsTypeOK, CallsFit
<1>2. d # c => Kept(d) /\ Named(d)' = Named(d)
  BY DEF CallStep, Began, Went, Kept, Named
<1>3. call[d].step \in Over => d # c
  BY DEF CallStep, Began, Went, InFlight, Over, Active
<1>4. call[d].step \in Over => call'[d].calm = call[d].calm
  BY <1>3 DEF CallStep, Began, Went, InFlight, Over, Active
<1>5. call[d].did # "nothing" => call[d].step # "unused"
  BY <1>1 DEF CallFits, StepFits
<1>6. call[d].step # "unused" =>
         /\ call'[d].op = call[d].op /\ call'[d].user = call[d].user
         /\ call'[d].on = call[d].on /\ Named(d)' \subseteq Named(d)
  BY <1>2, WentNames DEF CallStep, Began, Went, Kept
<1>7. call[d].step # "unused" /\ call[d].calm = "no" => call'[d].calm = "no"
  BY DEF CallStep, Began, Went
<1>8. call[d].did # "nothing" => call'[d].did = call[d].did
  BY <1>2, <1>5 DEF CallStep, Began, Went, Kept
<1>9. QED
  BY <1>2, <1>3, <1>4, <1>5, <1>6, <1>7, <1>8

\* What is gone stays gone, and what a call named and is gone too.
LEMMA GoneStays ==
    ASSUME SharedInv, RowStep
    PROVE  /\ \A x \in used : x \notin rows => x \notin rows'
           /\ \A x \in used \cup (Users \cup Emails \cup Reactions \cup Accounts \cup {None}) :
                  Exists(x)' => Exists(x)
BY RequestsAssumption DEF RowStep, Exists

\* Who was beaten stays beaten.
LEMMA BeatenStays ==
    ASSUME SharedInv, NEW c \in Calls, CallStep(c), NEW d \in Calls, Beaten(d)
    PROVE  Beaten(d)'
<1>1. PICK e \in Calls \ {d} : /\ call[e].op \in DOMAIN Table /\ KeyOf(e) = KeyOf(d)
                              /\ call[e].did \in {"created", "deleted"}
  BY DEF Beaten
<1>2. call'[e].did = call[e].did /\ call'[e].op = call[e].op /\ KeyOf(e)' = KeyOf(e)
  BY <1>1, CallsKeep DEF KeyOf
<1>3. call[d].step # "unused"
  BY TableOf DEF Beaten, SharedInv, CallsFit, CallFits, StepFits, MarkOps
<1>4. call'[d].op = call[d].op /\ KeyOf(d)' = KeyOf(d)
  BY <1>3, CallsKeep DEF KeyOf
<1>5. QED
  BY <1>1, <1>2, <1>4 DEF Beaten

\* The shared part of the invariant, when a call that stays in flight deletes
\* nothing.
LEMMA SharedKept ==
    ASSUME SharedInv, NEW c \in Calls, CallStep(c), RowStep, notice' \subseteq NoticeRecord,
           InFlight(c)' => rows \subseteq rows'
    PROVE  RequestsTypeOK' /\ RowsFit' /\ CallsFit' /\ CalmFits'
<1>1. RequestsTypeOK' /\ RowsFit'
  BY DEF RequestsTypeOK, RowStep, CallStep
<1>2. CallsFit'
  <2>1. ASSUME NEW d \in Calls
        PROVE  CallFits(d)'
    <3>1. CASE d = c
      BY <3>1 DEF CallStep
    <3>2. CASE d # c
      BY <3>2, CallsKeep DEF SharedInv, CallsFit, CallFits, StepFits, Kept, RowStep
    <3>3. QED
      BY <3>1, <3>2
  <2>2. QED
    BY <2>1 DEF CallsFit
<1>3. CalmFits'
  <2>1. ASSUME NEW d \in Calls, InFlight(d)', call'[d].calm = "yes"
        PROVE  Named(d)' \subseteq rows' /\ \A e \in Calls : InFlight(e)' => e = d
    <3>1. CASE Began(c)
      <4>1. \A e \in Calls \ {c} : InFlight(e)' <=> InFlight(e)
        BY <3>1 DEF Began, Kept, InFlight
      <4>2. d = c
        BY <2>1, <3>1, <4>1 DEF Began
      <4>3. QED
        BY <2>1, <3>1, <4>1, <4>2 DEF Began
    <3>2. CASE Went(c)
      <4>1. InFlight(c) /\ InFlight(d) /\ call[d].calm = "yes"
        BY <2>1, <3>2 DEF Went, InFlight
      <4>2. d = c /\ Named(d) \subseteq rows /\ \A e \in Calls : InFlight(e) => e = d
        BY <4>1 DEF SharedInv, CalmFits
      <4>3. \A e \in Calls \ {c} : InFlight(e)' => InFlight(e)
        BY <3>2 DEF Went, InFlight
      <4>4. QED
        BY <2>1, <3>2, <4>2, <4>3, WentNames
    <3>3. QED
      BY <3>1, <3>2 DEF CallStep
  <2>2. QED
    BY <2>1 DEF CalmFits
<1>4. QED
  BY <1>1, <1>2, <1>3

\* A checkout names a sale.
LEMMA SaleFits ==
    ASSUME SharedInv, NEW c \in Calls, call[c].op = "checkout"
    PROVE  Sale(c) \in Sales
<1>1. call \in [Calls -> CallRecord] /\ CallFits(c)
  BY DEF SharedInv, TypeOK, RequestsTypeOK, CallsFit
<1>2. call[c].user \in Users /\ call[c].on \in Items
  BY <1>1 DEF CallFits, Targets, CallRecord
<1>3. QED
  BY <1>2 DEF Sale, Sales

\* A failure before the step is excused after it; so must be a new one.
LEMMA FailuresKept ==
    ASSUME SharedInv, FailsByRaceOnly, NEW c \in Calls, CallStep(c), RowStep,
           \A s \in Sales : purchase[s] # "none" => purchase'[s] # "none",
           call'[c].step = "failed" =>
               \/ call'[c].op = "checkout" /\ purchase'[Sale(c)'] # "none"
               \/ call'[c].calm = "no" /\ (Beaten(c)' \/ ~(Named(c)' \subseteq rows'))
    PROVE  FailsByRaceOnly'
<1>1. ASSUME NEW d \in Calls, call'[d].step = "failed"
      PROVE  \/ call'[d].op = "checkout" /\ purchase'[Sale(d)'] # "none"
             \/ call'[d].calm = "no" /\ (Beaten(d)' \/ ~(Named(d)' \subseteq rows'))
  <2>1. CASE d = c
    BY <1>1, <2>1
  <2>2. CASE d # c
    <3>1. Kept(d) /\ call[d].step = "failed"
      BY <1>1, <2>2, CallsKeep DEF Kept
    <3>2. call'[d].calm = call[d].calm /\ Named(d)' = Named(d) /\ Sale(d)' = Sale(d)
      BY <3>1, CallsKeep DEF Over, Sale, Kept
    <3>3. Named(d) \subseteq used
      BY DEF SharedInv, CallsFit, CallFits
    <3>4. ~(Named(d) \subseteq rows) => ~(Named(d) \subseteq rows')
      BY <3>3, GoneStays
    <3>5. \/ call[d].op = "checkout" /\ purchase[Sale(d)] # "none"
          \/ call[d].calm = "no" /\ (Beaten(d) \/ ~(Named(d) \subseteq rows))
      BY <3>1 DEF FailsByRaceOnly
    <3>6. QED
      BY <3>1, <3>2, <3>4, <3>5, BeatenStays, SaleFits DEF Kept
  <2>3. QED
    BY <2>1, <2>2
<1>2. QED
  BY <1>1 DEF FailsByRaceOnly

----------------------------------------------------------------------------
(* Marks: the steps of the calls that mark, and those of all others.       *)
(***************************************************************************)
\* What the two kinds of steps have to establish.
MarksInv == MarksTypeOK /\ MarksFit /\ LooksFit /\ BalancesFit

\* The calls that did something are finitely many.
LEMMA DidFinite ==
    ASSUME NEW what, NEW k
    PROVE  IsFiniteSet(Did(what, k)) /\ Cardinality(Did(what, k)) \in Nat
BY RequestsAssumption, FS_Subset, FS_CardinalityType DEF Did

\* Which calls have written a row is changed by a write only.
LEMMA DidSame ==
    ASSUME SharedInv, NEW c \in Calls, CallStep(c), NEW k, NEW what \in {"created", "deleted"},
           call'[c].did = what => call[c].did = what
    PROVE  Did(what, k)' = Did(what, k)
<1>1. ASSUME NEW d \in Calls
      PROVE  d \in Did(what, k)' <=> d \in Did(what, k)
  <2>1. d # c => call'[d].did = call[d].did
    BY CallsKeep DEF Kept
  <2>2. call[d].did = what => call'[d].did = what
    BY CallsKeep
  <2>3. call[d].did = what => call'[d].op = call[d].op /\ KeyOf(d)' = KeyOf(d)
    BY CallsKeep DEF KeyOf
  <2>4. QED
    BY <2>1, <2>2, <2>3 DEF Did
<1>2. QED
  BY <1>1 DEF Did

\* A write adds its call to those that have written its row.
LEMMA DidMore ==
    ASSUME SharedInv, NEW c \in Calls, CallStep(c), call[c].op \in MarkOps, Went(c),
           NEW what \in {"created", "deleted"}, call'[c].did = what, call[c].did = "nothing"
    PROVE  /\ Cardinality(Did(what, KeyOf(c)))' = Cardinality(Did(what, KeyOf(c))) + 1
           /\ \A k : k # KeyOf(c) => Did(what, k)' = Did(what, k)
<1>1. call'[c].op = call[c].op /\ KeyOf(c)' = KeyOf(c)
  BY DEF Went, KeyOf
<1>2. ASSUME NEW k, NEW d \in Calls, d # c
      PROVE  d \in Did(what, k)' <=> d \in Did(what, k)
  <2>1. KeyOf(d)' = KeyOf(d) /\ call'[d].op = call[d].op /\ call'[d].did = call[d].did
    BY <1>2, CallsKeep DEF KeyOf, Kept
  <2>2. QED
    BY <2>1 DEF Did
<1>3. Did(what, KeyOf(c))' = Did(what, KeyOf(c)) \cup {c} /\ c \notin Did(what, KeyOf(c))
  BY <1>1, <1>2, TableOf DEF Did
<1>4. \A k : k # KeyOf(c) => c \notin Did(what, k)' /\ c \notin Did(what, k)
  BY <1>1 DEF Did
<1>5. \A k : k # KeyOf(c) => Did(what, k)' = Did(what, k)
  BY <1>2, <1>4 DEF Did
<1>6. QED
  BY <1>3, <1>5, DidFinite, FS_AddElement

\* What every step of a mark's call does to the row of that call, and to no
\* other one.
LEMMA MarkShapeRows ==
    ASSUME SharedInv, MarksInv, NEW c \in Calls, MarkShape(c)
    PROVE  /\ CallStep(c) /\ RowStep /\ MarksTypeOK' /\ MarksFit'
           /\ KeyOf(c)' \in Key /\ (Went(c) => KeyOf(c)' = KeyOf(c) /\ KeyOf(c) \in Key)
           /\ \A k \in Key : mark'[k] # mark[k] =>
                  k = KeyOf(c) /\ Went(c) /\ (mark'[k].id = mark[k].id \/ call'[c].did \in {"created", "deleted"})
           /\ MarkInserts(c) => mark[KeyOf(c)] = NoRow /\ mark'[KeyOf(c)] # NoRow
           /\ MarkDeletes(c) => mark[KeyOf(c)] # NoRow /\ mark'[KeyOf(c)] = NoRow
           /\ ~MarkInserts(c) /\ ~MarkDeletes(c) =>
                  \A k \in Key : mark'[k].id = mark[k].id
<1> DEFINE K == KeyOf(c)
<1>1. /\ call \in [Calls -> CallRecord] /\ call' \in [Calls -> CallRecord] /\ CallFits(c)
      /\ mark \in [Key -> MarkRow] /\ serial \in [Key -> Nat]
  BY DEF SharedInv, TypeOK, RequestsTypeOK, MarksTypeOK, CallsFit, MarkShape
<1>2. CallStep(c) /\ RowStep
  BY NoRowStep DEF CallStep, MarkShape, MarkBegins, MarkLooks, MarkInserts, MarkDeletes, MarkMoves,
                   MarkFails, MarkRests
<1>3. KeyOf(c)' \in Key
  <2>1. call'[c].user \in Users \cup {None} /\ CallFits(c)' /\ call'[c].op \in MarkOps
    BY <1>1 DEF CallRecord, MarkShape
  <2>2. call'[c].op # "join" => call'[c].user \in Users
    BY <2>1 DEF CallFits, MarkOps
  <2> USE TableOf DEF KeyOf, Key, CallFits, Targets
  <2>3. CASE call'[c].op \in {"like", "bookmark", "file"}
    BY <2>1, <2>2, <2>3
  <2>4. CASE call'[c].op \in {"likeComment", "unlikeComment"}
    BY <2>1, <2>2, <2>4
  <2>5. CASE call'[c].op \in {"view", "reactStory"}
    BY <2>1, <2>2, <2>5
  <2>6. CASE call'[c].op \in {"reactMessage", "closeFriend"}
    BY <2>1, <2>2, <2>6
  <2>7. CASE call'[c].op = "join"
    BY <2>1, <2>7
  <2>8. QED
    BY <2>1, <2>3, <2>4, <2>5, <2>6, <2>7 DEF MarkOps
<1>4. Went(c) => KeyOf(c)' = K /\ K \in Key
  BY <1>3 DEF Went, KeyOf
<1>5. call[c].op \in MarkOps /\ Went(c) => call[c].with \in Details(call[c].op)
  BY <1>1 DEF CallFits
<1>6. Went(c) => call[c].op \in MarkOps
  BY DEF Went, MarkShape
<1>7. call[c].op \in MarkOps => Details(call[c].op) \subseteq Collections \cup Reactions \cup {None}
  BY DEF Details, MarkOps
<1> HIDE DEF K
<1>8. CASE MarkInserts(c)
  <2> DEFINE row == [id |-> serial[K] + 1, value |-> call[c].with]
  <2>1. K \in Key /\ row \in MarkRow /\ row.id # 0 /\ row # NoRow
    BY <1>1, <1>4, <1>5, <1>6, <1>7, <1>8 DEF MarkInserts, MarkRow, NoRow
  <2>2. /\ mark' = [mark EXCEPT ![K] = row] /\ serial' = [serial EXCEPT ![K] = @ + 1]
        /\ Went(c) /\ mark[K] = NoRow /\ Exists(K[3]) /\ call'[c].did = "created"
        /\ call[c].step = "write" /\ UNCHANGED contentVars
    BY <1>8 DEF MarkInserts, MarkShape, K
  <2> HIDE DEF row
  <2>3. MarksTypeOK' /\ MarksFit'
    BY <1>1, <2>1, <2>2 DEF MarksTypeOK, MarksFit, MarksInv, Exists, contentVars
  <2>4. ~MarkDeletes(c)
    BY <2>2 DEF MarkDeletes
  <2>5. QED
    BY <1>1, <1>2, <1>3, <1>4, <1>8, <2>1, <2>2, <2>3, <2>4 DEF K
<1>9. CASE MarkDeletes(c)
  <2>1. /\ mark' = [mark EXCEPT ![K] = NoRow] /\ serial' = serial
        /\ Went(c) /\ mark[K] # NoRow /\ call'[c].did = "deleted"
        /\ call[c].step = "write" /\ UNCHANGED contentVars
    BY <1>9 DEF MarkDeletes, MarkShape, K
  <2>2. K \in Key /\ NoRow \in MarkRow /\ NoRow.id = 0
    BY <1>4, <2>1 DEF NoRow, MarkRow
  <2>3. MarksTypeOK' /\ MarksFit'
    BY <1>1, <2>1, <2>2 DEF MarksTypeOK, MarksFit, MarksInv, Exists, contentVars
  <2>4. ~MarkInserts(c)
    BY <2>1 DEF MarkInserts
  <2>5. QED
    BY <1>1, <1>2, <1>3, <1>4, <1>9, <2>1, <2>2, <2>3, <2>4 DEF K
<1>10. CASE MarkMoves(c)
  <2> DEFINE row == [mark[K] EXCEPT !.value = call[c].with]
  <2>1. /\ mark' = [mark EXCEPT ![K] = row] /\ serial' = serial
        /\ Went(c) /\ mark[K] # NoRow /\ call'[c].did = "moved"
        /\ call[c].step = "write" /\ UNCHANGED contentVars
    BY <1>10 DEF MarkMoves, MarkShape, K
  <2>2. K \in Key /\ row \in MarkRow /\ row.id = mark[K].id
    BY <1>1, <1>4, <1>5, <1>6, <1>7, <2>1 DEF MarkRow
  <2>3. mark[K].id # 0 /\ NoRow.id = 0
    BY <2>1, <2>2 DEF MarksInv, MarksFit, NoRow
  <2> HIDE DEF row
  <2>4. \A k \in Key : mark'[k] # mark[k] => k = K
    BY <1>1, <2>1, <2>2
  <2>5. \A k \in Key : mark'[k].id = mark[k].id
    BY <1>1, <2>1, <2>2
  <2>6. MarksTypeOK' /\ MarksFit'
    BY <1>1, <2>1, <2>2, <2>3, <2>4 DEF MarksTypeOK, MarksFit, MarksInv, Exists, contentVars
  <2>7. ~MarkInserts(c) /\ ~MarkDeletes(c)
    BY <2>1 DEF MarkInserts, MarkDeletes
  <2>8. QED
    BY <1>2, <1>3, <1>4, <2>1, <2>4, <2>5, <2>6, <2>7 DEF K
<1>11. CASE MarkBegins(c) \/ MarkLooks(c) \/ MarkFails(c) \/ MarkRests(c)
  <2>1. UNCHANGED markVars /\ call'[c].did = "nothing" /\ UNCHANGED contentVars
    BY <1>11 DEF MarkBegins, Began, MarkLooks, MarkFails, MarkRests, MarkShape
  <2>2. MarksTypeOK' /\ MarksFit'
    BY <2>1 DEF MarksTypeOK, MarksFit, MarksInv, Exists, contentVars, markVars
  <2>3. ~MarkInserts(c) /\ ~MarkDeletes(c)
    BY <2>1 DEF MarkInserts, MarkDeletes
  <2>4. QED
    BY <1>2, <1>3, <1>4, <2>1, <2>2, <2>3 DEF K, markVars
<1>12. QED
  BY <1>8, <1>9, <1>10, <1>11 DEF MarkShape

\* What a call of a mark found it writes to, or has been beaten to it.
LEMMA MarkShapeLooks ==
    ASSUME SharedInv, MarksInv, NEW c \in Calls, MarkShape(c)
    PROVE  LooksFit'
<1>1. ASSUME NEW d \in Calls, call'[d].op \in DOMAIN Table, call'[d].step = "write"
      PROVE  \/ mark'[KeyOf(d)'].id = call'[d].seen
             \/ call'[d].calm = "no" /\ (Beaten(d)' \/ ~Exists(call[d].on)')
  <2>1. CASE d = c
    <3>1. MarkBegins(c) \/ MarkLooks(c)
      <4>1. call'[c].step = "write"
        BY <1>1, <2>1
      <4>2. ~(MarkDeletes(c) \/ MarkMoves(c) \/ MarkFails(c) \/ MarkRests(c))
        BY <4>1 DEF MarkDeletes, MarkMoves, MarkFails, MarkRests
      <4>3. ~MarkInserts(c)
        BY <4>1 DEF MarkInserts
      <4>4. QED
        BY <4>2, <4>3 DEF MarkShape
    <3>2. CASE MarkBegins(c)
      BY <1>1, <2>1, <3>2 DEF MarkBegins, markVars
    <3>3. CASE MarkLooks(c)
      BY <1>1, <2>1, <3>3 DEF MarkLooks, KeyOf, Went, markVars
    <3>4. QED
      BY <3>1, <3>2, <3>3
  <2>2. CASE d # c
    <3>1. CallStep(c) /\ Kept(d) /\ KeyOf(d)' = KeyOf(d) /\ UNCHANGED rows
      <4>1. CallStep(c) /\ UNCHANGED rows
        BY MarkShapeRows DEF MarkShape, contentVars
      <4>2. Kept(d)
        BY <2>2, <4>1, CallsKeep
      <4>3. QED
        BY <4>1, <4>2 DEF Kept, KeyOf
    <3>2. /\ call[d].op \in DOMAIN Table /\ call[d].step = "write" /\ call[d].op \in MarkOps
          /\ call[d].step # "unused"
      BY <1>1, <3>1, TableOf DEF Kept
    <3>3. KeyOf(d) \in Key
      BY <3>2, KeyFits DEF SharedInv, TypeOK, RequestsTypeOK, CallsFit
    <3>4. CASE mark'[KeyOf(d)].id = mark[KeyOf(d)].id
      <4>1. \/ mark[KeyOf(d)].id = call[d].seen
            \/ call[d].calm = "no" /\ (Beaten(d) \/ ~Exists(call[d].on))
        BY <1>1, <3>2 DEF MarksInv, LooksFit
      <4>2. Exists(call[d].on)' <=> Exists(call[d].on)
        BY <3>1 DEF Exists, Kept
      <4>3. QED
        BY <3>1, <3>2, <3>4, <4>1, <4>2, CallsKeep, BeatenStays DEF Kept
    <3>5. CASE mark'[KeyOf(d)].id # mark[KeyOf(d)].id
      <4>1. /\ KeyOf(d) = KeyOf(c) /\ Went(c) /\ call'[c].did \in {"created", "deleted"}
            /\ KeyOf(c)' = KeyOf(c)
        BY <3>3, <3>5, MarkShapeRows
      <4>2. call[d].calm = "no"
        BY <2>2, <3>2, <4>1
           DEF SharedInv, CalmFits, Went, InFlight, Active, TypeOK, RequestsTypeOK, CallRecord
      <4>3. call'[d].calm = "no"
        BY <3>1, <3>2, <4>2, CallsKeep
      <4>4. Beaten(d)'
        BY <1>1, <2>2, <3>1, <4>1, TableOf DEF Beaten, MarkShape
      <4>5. QED
        BY <4>3, <4>4
    <3>6. QED
      BY <3>4, <3>5
  <2>3. QED
    BY <2>1, <2>2
<1>2. QED
  BY <1>1 DEF LooksFit

\* One row inserted more, one row more; one deleted more, one row less.
LEMMA MarkShapeBalances ==
    ASSUME SharedInv, MarksInv, NEW c \in Calls, MarkShape(c)
    PROVE  BalancesFit'
<1> DEFINE K == KeyOf(c)
<1>1. CallStep(c) /\ UNCHANGED rows /\ \A x : Exists(x)' <=> Exists(x)
  BY MarkShapeRows DEF MarkShape, contentVars, Exists
<1>2. ASSUME NEW k, NEW what \in {"created", "deleted"}
      PROVE  Cardinality(Did(what, k)) \in Nat
  BY DidFinite
<1>3. CASE MarkInserts(c)
  <2>1. Went(c) /\ call[c].op \in MarkOps /\ call[c].did = "nothing" /\ call'[c].did = "created"
    BY <1>3 DEF MarkInserts, MarkShape, Went, SharedInv, CallsFit, CallFits, StepFits
  <2>2. /\ Cardinality(Did("created", K))' = Cardinality(Did("created", K)) + 1
        /\ \A k : k # K => Did("created", k)' = Did("created", k)
        /\ \A k : Did("deleted", k)' = Did("deleted", k)
    BY <1>1, <2>1, DidMore, DidSame
  <2>3. /\ mark[K] = NoRow /\ mark'[K] # NoRow /\ K' = K
        /\ \A k \in Key : k # K => mark'[k] = mark[k]
    BY <1>3, <2>1, MarkShapeRows
  <2> HIDE DEF K
  <2>4. Balance(K)' = Balance(K) + 1
    BY <1>2, <2>2, <2>3 DEF Balance
  <2>5. \A k : k # K => Balance(k)' = Balance(k)
    BY <2>2 DEF Balance
  <2>6. QED
    BY <1>1, <2>3, <2>4, <2>5 DEF MarksInv, BalancesFit
<1>4. CASE MarkDeletes(c)
  <2>1. Went(c) /\ call[c].op \in MarkOps /\ call[c].did = "nothing" /\ call'[c].did = "deleted"
    BY <1>4 DEF MarkDeletes, MarkShape, Went, SharedInv, CallsFit, CallFits, StepFits
  <2>2. /\ Cardinality(Did("deleted", K))' = Cardinality(Did("deleted", K)) + 1
        /\ \A k : k # K => Did("deleted", k)' = Did("deleted", k)
        /\ \A k : Did("created", k)' = Did("created", k)
    BY <1>1, <2>1, DidMore, DidSame
  <2>3. /\ mark[K] # NoRow /\ mark'[K] = NoRow /\ K' = K
        /\ \A k \in Key : k # K => mark'[k] = mark[k]
    BY <1>4, <2>1, MarkShapeRows
  <2> HIDE DEF K
  <2>4. Balance(K)' = Balance(K) - 1
    BY <1>2, <2>2, <2>3 DEF Balance
  <2>5. \A k : k # K => Balance(k)' = Balance(k)
    BY <2>2 DEF Balance
  <2>6. QED
    BY <1>1, <2>3, <2>4, <2>5 DEF MarksInv, BalancesFit
<1>5. CASE ~MarkInserts(c) /\ ~MarkDeletes(c)
  <2>1. call'[c].did \notin {"created", "deleted"}
    BY <1>5 DEF MarkShape, MarkBegins, Began, MarkLooks, MarkMoves, MarkFails, MarkRests
  <2>2. \A k : Balance(k)' = Balance(k)
    BY <1>1, <2>1, DidSame DEF Balance
  <2>3. \A k \in Key : mark'[k] = NoRow <=> mark[k] = NoRow
    BY <1>5, MarkShapeRows DEF MarksInv, MarksFit, NoRow
  <2>4. QED
    BY <1>1, <2>2, <2>3 DEF MarksInv, BalancesFit
<1>6. QED
  BY <1>3, <1>4, <1>5

\* A write that fails was beaten, or names what is gone.
LEMMA MarkShapeFails ==
    ASSUME SharedInv, MarksInv, NEW c \in Calls, MarkShape(c), call'[c].step = "failed"
    PROVE  call'[c].calm = "no" /\ (Beaten(c)' \/ ~(Named(c)' \subseteq rows'))
<1>1. MarkFails(c) /\ CallStep(c) /\ UNCHANGED rows
  BY MarkShapeRows DEF MarkShape, MarkBegins, MarkLooks, MarkInserts, MarkDeletes, MarkMoves, MarkFails,
                       MarkRests, contentVars
<1>2. Went(c) /\ call'[c].with = call[c].with /\ Named(c)' = Named(c) /\ call[c].step = "write"
      /\ call'[c].calm = call[c].calm /\ call[c].op \in MarkOps
  BY <1>1 DEF MarkFails, Went, Named, MarkShape
<1>3. ~Exists(call[c].on) \/ ~Exists(call[c].with) => ~(Named(c) \subseteq rows)
  BY DEF Named, Exists
<1>4. CASE ~(Named(c) \subseteq rows)
  <2>1. call[c].calm # "yes"
    BY <1>2, <1>4 DEF SharedInv, CalmFits, Went
  <2>2. call[c].calm = "no"
    BY <2>1 DEF SharedInv, TypeOK, RequestsTypeOK, CallRecord
  <2>3. QED
    BY <1>1, <1>2, <1>4, <2>2
<1>5. CASE Named(c) \subseteq rows
  <2>1. mark[KeyOf(c)].id # call[c].seen
    BY <1>1, <1>3, <1>5 DEF MarkFails
  <2>2. call[c].calm = "no" /\ Beaten(c)
    BY <1>2, <1>3, <1>5, <2>1, TableOf DEF MarksInv, LooksFit
  <2>3. QED
    BY <1>1, <1>2, <2>2, BeatenStays
<1>6. QED
  BY <1>4, <1>5

\* A step of another call leaves the rows of what exists, and no call has ever
\* named what it makes.
LEMMA MarksForeign ==
    ASSUME SharedInv, MarksInv, NEW c \in Calls, CallStep(c), RowStep, CalmFits',
           call'[c].op \in MarkOps =>
               Went(c) /\ call'[c].step # "write" /\ call'[c].did = call[c].did,
           mark' \in [Key -> MarkRow], UNCHANGED serial,
           \A k \in Key : /\ mark'[k].id = 0 => mark'[k] = NoRow
                          /\ IF Exists(k[3])' THEN mark'[k].id = mark[k].id ELSE mark'[k] = NoRow
    PROVE  MarksInv'
<1>1. MarksTypeOK' /\ MarksFit'
  <2>1. \A k \in Key : mark'[k] # NoRow => Exists(k[3])'
    OBVIOUS
  <2>2. QED
    BY <2>1 DEF MarksTypeOK, MarksInv, MarksFit
<1>2. LooksFit'
  <2>1. ASSUME NEW d \in Calls, call'[d].op \in DOMAIN Table, call'[d].step = "write"
        PROVE  \/ mark'[KeyOf(d)'].id = call'[d].seen
               \/ call'[d].calm = "no" /\ (Beaten(d)' \/ ~Exists(call[d].on)')
    <3>1. d # c /\ Kept(d) /\ KeyOf(d)' = KeyOf(d)
      BY <2>1, TableOf, CallsKeep DEF KeyOf, Kept
    <3>2. /\ call[d].op \in DOMAIN Table /\ call[d].step = "write" /\ call[d].op \in MarkOps
          /\ call[d].step # "unused"
      BY <2>1, <3>1, TableOf DEF Kept
    <3>3. KeyOf(d) \in Key /\ KeyOf(d)[3] = call[d].on /\ CallFits(d)
      BY <3>2, KeyFits DEF SharedInv, TypeOK, RequestsTypeOK, CallsFit
    <3>4. \/ mark[KeyOf(d)].id = call[d].seen
          \/ call[d].calm = "no" /\ (Beaten(d) \/ ~Exists(call[d].on))
      BY <3>2 DEF MarksInv, LooksFit
    <3>5. CASE ~Exists(call[d].on)'
      <4>1. call[d].on \in Things /\ call[d].on \notin rows'
        BY <3>1, <3>5 DEF Exists, Kept
      <4>2. ~(Named(d)' \subseteq rows') /\ InFlight(d)'
        BY <2>1, <3>1, <4>1 DEF Named, InFlight, Active, Kept
      <4>3. call'[d].calm # "yes"
        BY <4>2 DEF CalmFits
      <4>4. call'[d].calm = "no"
        BY <4>3 DEF CallStep, CallRecord
      <4>5. QED
        BY <3>5, <4>4
    <3>6. CASE Exists(call[d].on)'
      <4>1. Exists(call[d].on)
        <5>1. call[d].on \in used \/ call[d].on \notin Things
          BY <3>3 DEF CallFits, Named
        <5>2. QED
          BY <3>1, <3>6, <5>1 DEF Exists, RowStep, Kept
      <4>2. QED
        BY <3>1, <3>2, <3>3, <3>4, <3>6, <4>1, CallsKeep, BeatenStays DEF Kept
    <3>7. QED
      BY <3>5, <3>6
  <2>2. QED
    BY <2>1 DEF LooksFit
<1>3. BalancesFit'
  <2>1. ASSUME NEW k \in Key, Exists(k[3])'
        PROVE  Balance(k)' = IF mark'[k] = NoRow THEN 0 ELSE 1
    <3>1. mark'[k] = NoRow <=> mark[k] = NoRow
      BY <2>1 DEF MarksInv, MarksFit, NoRow
    <3>2. CASE Exists(k[3])
      <4>1. ASSUME NEW what \in {"created", "deleted"}
            PROVE  Did(what, k)' = Did(what, k)
        <5>1. ASSUME NEW d \in Calls
              PROVE  d \in Did(what, k)' <=> d \in Did(what, k)
          <6>1. CASE d # c
            BY <6>1, CallsKeep DEF Did, KeyOf, Kept
          <6>2. CASE d = c /\ call'[c].op \in MarkOps
            BY <6>2 DEF Did, KeyOf, Went
          <6>3. CASE d = c /\ call'[c].op \notin MarkOps
            <7>1. call[c].op \in MarkOps => call[c].step # "unused"
              BY DEF SharedInv, CallsFit, CallFits, StepFits, MarkOps
            <7>2. call[c].op \notin MarkOps
              BY <6>3, <7>1, CallsKeep
            <7>3. QED
              BY <6>3, <7>2, TableOf DEF Did
          <6>4. QED
            BY <6>1, <6>2, <6>3
        <5>2. QED
          BY <5>1 DEF Did
      <4>2. Balance(k)' = Balance(k)
        BY <4>1 DEF Balance
      <4>3. QED
        BY <3>1, <3>2, <4>2 DEF MarksInv, BalancesFit
    <3>3. CASE ~Exists(k[3])
      <4>1. k[3] \in Things \ used
        BY <2>1, <3>3 DEF Exists, RowStep, SharedInv, TypeOK, RequestsTypeOK
      <4>2. ASSUME NEW d \in Calls, call'[d].op \in MarkOps
            PROVE  KeyOf(d)' # k
        <5>1. call'[d].on = call[d].on /\ Named(d) \subseteq used
          <6>1. CASE d # c
            BY <6>1, CallsKeep DEF SharedInv, CallsFit, CallFits, Kept
          <6>2. CASE d = c
            BY <4>2, <6>2 DEF SharedInv, CallsFit, CallFits, Went
          <6>3. QED
            BY <6>1, <6>2
        <5>2. QED
          BY <4>1, <5>1 DEF KeyOf, Named
      <4>3. \A what : Did(what, k)' = {}
        BY <4>2, TableOf DEF Did
      <4>4. k \notin DOMAIN SeedMarks
        BY <4>1, RequestsAssumption, MarksAssumption DEF SharedInv, RowsFit
      <4>5. Balance(k)' = 0
        <5>1. Cardinality(Did("created", k)') = 0 /\ Cardinality(Did("deleted", k)') = 0
          BY <4>3, FS_EmptySet
        <5>2. QED
          BY <4>4, <5>1 DEF Balance
      <4>6. mark[k] = NoRow
        BY <3>3 DEF MarksInv, MarksFit
      <4>7. QED
        BY <3>1, <4>5, <4>6
    <3>4. QED
      BY <3>2, <3>3
  <2>2. QED
    BY <2>1 DEF BalancesFit
<1>4. QED
  BY <1>1, <1>2, <1>3 DEF MarksInv

\* Either its target went, and the row too, or only what the row is filed under.
LEMMA ForeignKeysFit ==
    ASSUME SharedInv, MarksInv, ForeignKeys
    PROVE  /\ mark' \in [Key -> MarkRow] /\ UNCHANGED serial
           /\ \A k \in Key : /\ mark'[k].id = 0 => mark'[k] = NoRow
                             /\ IF Exists(k[3])' THEN mark'[k].id = mark[k].id
                                ELSE mark'[k] = NoRow
<1>1. mark \in [Key -> MarkRow] /\ NoRow \in MarkRow /\ UNCHANGED serial
  BY DEF SharedInv, TypeOK, MarksTypeOK, MarkRow, NoRow, ForeignKeys
<1>2. ASSUME NEW k \in Key
      PROVE  /\ mark'[k] \in MarkRow /\ (mark'[k].id = 0 => mark'[k] = NoRow)
             /\ IF Exists(k[3])' THEN mark'[k].id = mark[k].id ELSE mark'[k] = NoRow
  <2>1. CASE k[3] \in Things \ rows'
    BY <1>1, <2>1 DEF ForeignKeys, Exists
  <2>2. CASE k[3] \notin Things \ rows' /\ mark[k].value \in Things \ rows'
    <3>1. mark'[k] = [mark[k] EXCEPT !.value = None] /\ Exists(k[3])'
      BY <2>2 DEF ForeignKeys, Exists
    <3>2. mark[k] # NoRow
      BY <2>2, RequestsAssumption DEF NoRow
    <3>3. QED
      BY <1>1, <3>1, <3>2 DEF MarkRow, MarksInv, MarksFit
  <2>3. CASE k[3] \notin Things \ rows' /\ mark[k].value \notin Things \ rows'
    BY <1>1, <2>3 DEF ForeignKeys, Exists, MarksInv, MarksFit
  <2>4. QED
    BY <2>1, <2>2, <2>3
<1>3. QED
  BY <1>1, <1>2 DEF ForeignKeys

\* No row is of a promotion, so that these come and go without a key.
LEMMA NoForeignKeysFit ==
    ASSUME SharedInv, MarksInv, UNCHANGED markVars, rows \ rows' \subseteq Promotions
    PROVE  /\ mark' \in [Key -> MarkRow] /\ UNCHANGED serial
           /\ \A k \in Key : /\ mark'[k].id = 0 => mark'[k] = NoRow
                             /\ IF Exists(k[3])' THEN mark'[k].id = mark[k].id
                                ELSE mark'[k] = NoRow
<1>1. mark \in [Key -> MarkRow] /\ UNCHANGED <<mark, serial>>
  BY DEF SharedInv, TypeOK, MarksTypeOK, markVars
<1>2. \A k \in Key : k[3] \notin Promotions
  BY RequestsAssumption DEF Key, Things
<1>3. QED
  BY <1>1, <1>2 DEF Exists, MarksInv, MarksFit

----------------------------------------------------------------------------
(* Notices.                                                                *)
(***************************************************************************)
\* The same notice, read or not.
Same(n, m) == n.call = m.call /\ n.kind = m.kind /\ n.to = m.to /\ n.post = m.post

\* Whom a call has to notify, and of which post, is settled when it begins.
LEMMA DueSame ==
    ASSUME SharedInv, NEW c \in Calls, CallStep(c), RowStep, NEW d \in Calls,
           call[d].op \in TellingOps, call'[d].with = call[d].with
    PROVE  /\ Due(d)' = Due(d) /\ PostOf(d)' = PostOf(d)
           /\ call'[d].step = call[d].step /\ call'[d].to = call[d].to => Pending(d)' = Pending(d)
           /\ call[d].op = "comment" => Except(call[d].user, {<<owner[call[d].with], "reply">>})'
                                        = Except(call[d].user, {<<owner[call[d].with], "reply">>})
                                        \/ call[d].with = None
<1>1. /\ CallFits(d) /\ call[d].op # "none" /\ call[d].step # "unused"
  BY DEF SharedInv, CallsFit, CallFits, StepFits, TellingOps
<1>2. /\ call'[d].op = call[d].op /\ call'[d].user = call[d].user /\ call'[d].on = call[d].on
  BY <1>1, CallsKeep
<1>3. call'[d].args = call[d].args
  BY <1>1 DEF CallStep, Began, Went, Kept
<1>4. call[d].on \in used /\ (call[d].with # None /\ call[d].op = "comment" => call[d].with \in used)
  BY <1>1 DEF CallFits, Targets, Details, Named, TellingOps, Things
<1>5. call[d].op # "comment" => call[d].with = None
  BY <1>1 DEF CallFits, Details, TellingOps
<1>6. owner'[call[d].on] = owner[call[d].on] /\ within'[call[d].on] = within[call[d].on]
  BY <1>4 DEF RowStep
<1>7. call[d].with # None => owner'[call[d].with] = owner[call[d].with]
  BY <1>4, <1>5 DEF RowStep
<1>8. \A m \in {call[d].with} \cap Things : owner'[m] = owner[m]
  BY <1>7, RequestsAssumption
<1>9. Due(d)' = Due(d)
  BY <1>2, <1>3, <1>6, <1>8 DEF Due, Except, OwnerAndMentioned
<1>10. PostOf(d)' = PostOf(d)
  BY <1>2, <1>6 DEF PostOf
<1>11. ASSUME call'[d].step = call[d].step, call'[d].to = call[d].to
       PROVE  Pending(d)' = Pending(d)
  BY <1>2, <1>7, <1>11 DEF Pending, IsReply, Except
<1>12. QED
  BY <1>2, <1>7, <1>9, <1>10, <1>11 DEF Except

\* A notice goes when its post goes, and then what its call named is gone.
LEMMA PostGone ==
    ASSUME SharedInv, NEW d \in Calls, call[d].op \in TellingOps, PostOf(d) \notin rows
    PROVE  ~(Named(d) \subseteq rows)
<1>1. CallFits(d) /\ call[d].on \in used /\ call[d].on \in Posts \cup Comments
      /\ call[d].on \in Named(d)
  BY DEF SharedInv, CallsFit, CallFits, TellingOps, Targets, Named, Things
<1>2. CASE call[d].on \in Posts
  BY <1>1, <1>2 DEF PostOf
<1>3. CASE call[d].on \notin Posts
  <2>1. within[call[d].on] \cap Posts # {}
    BY <1>1, <1>3 DEF SharedInv, RowsFit
  <2>2. PostOf(d) \in within[call[d].on]
    BY <1>3, <2>1 DEF PostOf
  <2>3. QED
    BY <1>1, <2>2 DEF SharedInv, RowsFit
<1>4. QED
  BY <1>2, <1>3

\* What the others' notices need of a step.
OthersNotices(c) ==
    /\ \A n \in notice' : n.call # c => \E m \in notice : Same(n, m)
    /\ \A m \in notice : m.call # c => m.post \notin rows' \/ \E n \in notice' : Same(n, m)

\* The notices of other calls and this one's make those of all.
LEMMA NoticesKept ==
    ASSUME SharedInv, NoticesFit, NEW c \in Calls, CallStep(c), RowStep, RowsFit',
           OthersNotices(c), NoticesOf(c)', notice' \subseteq NoticeRecord, notice \subseteq NoticeRecord
    PROVE  NoticesFit'
<1>1. ASSUME NEW d \in Calls, d # c
      PROVE  NoticesOf(d)'
  <2>1. /\ Kept(d) /\ Named(d)' = Named(d) /\ NoticesOf(d)
        /\ Named(d) \subseteq used
    BY <1>1, CallsKeep DEF NoticesFit, SharedInv, CallsFit, CallFits
  <2>2. call[d].op \in TellingOps => /\ Due(d)' = Due(d) /\ PostOf(d)' = PostOf(d)
                                     /\ Pending(d)' = Pending(d)
    BY <2>1, DueSame DEF Kept
  <2>3. call[d].op \notin TellingOps => Due(d)' = Due(d)
    BY <2>1 DEF Due, TellingOps, Kept, Except
  <2>4. \A n \in notice' : n.call = d => \E m \in notice : Same(n, m)
    BY <1>1 DEF OthersNotices
  <2>5. ASSUME NEW n \in notice', n.call = d
        PROVE  /\ call'[d].op \in TellingOps /\ call'[d].did = "created"
               /\ n.post = PostOf(d)' /\ <<n.to, n.kind>> \in Due(d)'
    <3>1. PICK m \in notice : Same(n, m)
      BY <2>4, <2>5
    <3>2. QED
      BY <2>1, <2>2, <2>5, <3>1 DEF NoticesOf, Same, Kept
  <2>6. ASSUME Named(d)' \subseteq rows', call'[d].op \in TellingOps
        PROVE  Named(d) \subseteq rows /\ Sent(d)' = Sent(d)
    <3>1. Named(d) \subseteq rows
      BY <2>1, <2>6 DEF RowStep
    <3>2. \A m \in notice : m.call = d => m.post \in rows'
      <4>1. PostOf(d)' \in rows'
        <5>1. /\ call'[d].on = call[d].on /\ call[d].on \in Named(d)
              /\ call[d].on \in Posts \cup Comments
          BY <2>1, <2>6 DEF SharedInv, CallsFit, CallFits, TellingOps, Targets, Named, Things, Kept
        <5>2. CASE call[d].on \in Posts
          BY <2>1, <2>6, <5>1, <5>2 DEF PostOf
        <5>3. CASE call[d].on \notin Posts
          <6>1. within'[call[d].on] \cap Posts # {} /\ within'[call[d].on] \subseteq rows'
            BY <2>1, <2>6, <5>1, <5>3 DEF RowsFit, RowStep
          <6>2. QED
            BY <5>1, <5>3, <6>1 DEF PostOf
        <5>4. QED
          BY <5>2, <5>3
      <4>2. QED
        BY <2>1, <2>2, <2>6, <4>1 DEF NoticesOf, Kept
    <3>3. \A m \in notice : m.call = d => \E n \in notice' : Same(n, m)
      BY <1>1, <3>2 DEF OthersNotices
    <3>4. QED
      BY <2>4, <3>1, <3>3 DEF Sent, Same
  <2>7. QED
    BY <2>1, <2>2, <2>3, <2>5, <2>6 DEF NoticesOf, Kept
<1>2. QED
  BY <1>1 DEF NoticesFit

\* A call that has created nothing, or is not of the kind, has no notices.
LEMMA NoticesNone ==
    ASSUME SharedInv, NoticesFit, NEW c \in Calls, CallStep(c),
           \A n \in notice' : \E m \in notice : Same(n, m),
           call[c].did # "created" \/ call'[c].op \notin TellingOps
    PROVE  \A n \in notice' : n.call # c
<1>1. ASSUME NEW n \in notice', n.call = c
      PROVE  FALSE
  <2>1. PICK m \in notice : Same(n, m)
    BY <1>1
  <2>2. call[c].op \in TellingOps /\ call[c].did = "created"
    BY <1>1, <2>1 DEF NoticesFit, NoticesOf, Same
  <2>3. call[c].step # "unused"
    BY <2>2 DEF SharedInv, CallsFit, CallFits, StepFits
  <2>4. QED
    BY <2>2, <2>3, CallsKeep
<1>2. QED
  BY <1>1

\* A call that tells nobody owes no notice.
LEMMA NoticesQuiet ==
    ASSUME SharedInv, NoticesFit, NEW c \in Calls, CallStep(c),
           \A n \in notice' : \E m \in notice : Same(n, m),
           call'[c].to = {}, call'[c].did = "nothing" \/ call'[c].op \notin TellingOps
    PROVE  NoticesOf(c)'
<1>1. call'[c].did = "nothing" => call[c].did # "created"
  BY CallsKeep
<1>2. \A n \in notice' : n.call # c
  BY <1>1, NoticesNone
<1>3. QED
  BY <1>2 DEF NoticesOf

\* A step of a mark owes no notice but for what it created.
LEMMA MarkShapeNotices ==
    ASSUME SharedInv, MarksInv, NoticesFit, NEW c \in Calls, MarkShape(c)
    PROVE  OthersNotices(c) /\ NoticesOf(c)'
<1>1. /\ CallStep(c) /\ RowStep /\ UNCHANGED notice /\ call'[c].op \in MarkOps
      /\ notice \subseteq NoticeRecord
  BY MarkShapeRows DEF MarkShape, SharedInv, TypeOK, RequestsTypeOK
<1>2. OthersNotices(c) /\ \A n \in notice' : \E m \in notice : Same(n, m)
  BY <1>1 DEF OthersNotices, Same
<1>3. CASE MarkInserts(c)
  <2>1. /\ Went(c) /\ call[c].did = "nothing" /\ call'[c].with = call[c].with
        /\ call'[c].op = call[c].op /\ call'[c].to = Due(c) /\ call[c].op \in MarkOps
    BY <1>1, <1>3 DEF MarkInserts, Went, SharedInv, CallsFit, CallFits, StepFits
  <2>2. CASE call[c].op \notin TellingOps
    <3>1. call'[c].to = {}
      BY <2>1, <2>2 DEF Due, TellingOps, Except
    <3>2. QED
      BY <1>1, <1>2, <2>1, <2>2, <3>1, NoticesQuiet
  <2>3. CASE call[c].op \in TellingOps
    <3>1. call[c].op \in {"like", "likeComment"}
      BY <2>1, <2>3 DEF TellingOps, MarkOps
    <3>2. \A n \in notice' : n.call # c
      BY <1>1, <1>2, <2>1, NoticesNone
    <3>3. Due(c)' = Due(c) /\ \A n \in Due(c) : n[2] # "reply"
      BY <1>1, <2>1, <2>3, <3>1, DueSame DEF Due, Except
    <3>4. Sent(c)' = {} /\ Pending(c)' = {}
      BY <2>1, <3>1, <3>2 DEF Sent, Pending, IsReply
    <3>5. call'[c].step = IF call'[c].to = {} THEN "ended" ELSE "notify"
      BY <1>3 DEF MarkInserts
    <3>6. QED
      BY <1>2, <2>1, <3>2, <3>3, <3>4, <3>5 DEF NoticesOf
  <2>4. QED
    BY <2>2, <2>3
<1>4. CASE MarkDeletes(c) \/ MarkMoves(c)
  <2>1. call'[c].to = {} /\ call'[c].did # "created" /\ Went(c) /\ call[c].step = "write"
    BY <1>4 DEF MarkDeletes, MarkMoves
  <2>2. call[c].did # "created"
    BY <1>1, <2>1, CallsKeep
  <2>3. \A n \in notice' : n.call # c
    BY <1>1, <1>2, <2>2, NoticesNone
  <2>4. QED
    BY <1>2, <2>1, <2>3 DEF NoticesOf
<1>5. CASE MarkBegins(c) \/ MarkLooks(c) \/ MarkFails(c) \/ MarkRests(c)
  <2>1. call'[c].to = {} /\ call'[c].did = "nothing"
    BY <1>5 DEF MarkBegins, Began, MarkLooks, MarkFails, MarkRests, NoticesFit, NoticesOf
  <2>2. QED
    BY <1>1, <1>2, <2>1, NoticesQuiet
<1>6. QED
  BY <1>3, <1>4, <1>5 DEF MarkShape

----------------------------------------------------------------------------
(* The same shapes for the other components.                               *)
(***************************************************************************)
LEMMA OtherTargets ==
    ASSUME NEW op \in Ops
    PROVE  /\ Targets(op) \subseteq Target /\ Details(op) \subseteq Detail
           /\ Arguments(op) \subseteq Users \cup Stories \cup Promotions
<1>1. Arguments(op) \subseteq Users \cup Stories \cup Promotions
  BY DEF Arguments
<1>2. Details(op) \subseteq Detail
  BY DEF Details, Detail, Things
<1>3. Targets(op) \subseteq Target
  BY DEF Targets, Target, Things, Items
<1>4. QED
  BY <1>1, <1>2, <1>3

\* The steps that a request can come to first.
FirstSteps(op) ==
    Over \cup (CASE op = "listPromotions" -> {"sweep"}
              [] op = "checkout" -> {"seller"}
              [] op = "connect" -> {"write", "link"}
              [] OTHER -> {"write"})

\* What a request names was drawn; and the call that it makes.
Drawn(on, with, args) == ({on, with} \cup args) \cap Things \subseteq used'
Asked(c, op, u, on, with, args, step) ==
    /\ CallStep(c) /\ Began(c)
    /\ call'[c].op = op /\ call'[c].user = u /\ call'[c].on = on /\ call'[c].with = with
    /\ call'[c].args = args /\ call'[c].step = step
    /\ call'[c].did = "nothing" /\ call'[c].to = {}
    /\ Named(c)' = ({on, with} \cup args) \cap Things

\* A request that begins keeps what is shared.
LEMMA BeginFits ==
    ASSUME SharedInv, NEW c \in Calls, NEW op \in Ops \ {"join"}, NEW u \in Users,
           NEW on \in Targets(op), NEW with \in Details(op), NEW args \in SUBSET Arguments(op),
           NEW seen \in Nat, NEW step \in FirstSteps(op),
           Begin(c, op, u, on, with, args, seen, step),
           Drawn(on, with, args)
    PROVE  Asked(c, op, u, on, with, args, step)
<1>1. /\ call \in [Calls -> CallRecord] /\ step \in Active \cup Over /\ u # None
      /\ step \notin {"unused", "find", "notify", "findParent", "session", "store", "list"}
      /\ step = "write" => op # "listPromotions"
      /\ step = "seller" => op = "checkout"
      /\ step = "link" => op = "connect"
      /\ step = "sweep" => op = "listPromotions"
  BY RequestsAssumption DEF SharedInv, TypeOK, RequestsTypeOK, Active, Over, FirstSteps
<1>2. /\ on \in Target /\ with \in Detail /\ op \in Ops
      /\ args \in SUBSET (Users \cup Stories \cup Promotions)
  BY OtherTargets
<1>3. /\ call' \in [Calls -> CallRecord] /\ Began(c)
      /\ call'[c].op = op /\ call'[c].user = u /\ call'[c].on = on /\ call'[c].with = with
      /\ call'[c].args = args /\ call'[c].seen = seen /\ call'[c].step = step
  BY <1>1, <1>2, BeginShape
<1>4. op \notin {"none", "join"}
  BY DEF Ops
<1>5. StepFits(c)'
  BY <1>1, <1>3, <1>4 DEF StepFits, Began, Over
<1>6. Named(c)' = ({on, with} \cup args) \cap Things
  BY <1>3 DEF Named
<1>7. CallFits(c)'
  BY <1>1, <1>3, <1>4, <1>5, <1>6 DEF CallFits, Drawn
<1>8. QED
  BY <1>3, <1>6, <1>7 DEF CallStep, Began, Asked

\* Most requests name nothing more.
LEMMA BeginBare ==
    ASSUME SharedInv, NEW c \in Calls, NEW op \in Ops \ {"join"}, NEW u \in Users,
           NEW on \in Targets(op), NEW with \in Details(op), NEW step \in FirstSteps(op),
           Begin(c, op, u, on, with, {}, 0, step), {on, with} \cap Things \subseteq used'
    PROVE  /\ CallStep(c) /\ Began(c)
           /\ call'[c].op = op /\ call'[c].user = u /\ call'[c].on = on /\ call'[c].with = with
           /\ call'[c].args = {} /\ call'[c].step = step
           /\ call'[c].did = "nothing" /\ call'[c].to = {}
           /\ Named(c)' = {on, with} \cap Things
<1>1. /\ call \in [Calls -> CallRecord] /\ step \in Active \cup Over /\ u # None
      /\ step \notin {"unused", "find", "notify", "findParent", "session", "store", "list"}
      /\ step = "write" => op # "listPromotions"
      /\ step = "seller" => op = "checkout"
      /\ step = "link" => op = "connect"
      /\ step = "sweep" => op = "listPromotions"
  BY RequestsAssumption DEF SharedInv, TypeOK, RequestsTypeOK, Active, Over, FirstSteps
<1>2. on \in Target /\ with \in Detail /\ op \in Ops /\ 0 \in Nat
  BY OtherTargets
<1>3. /\ call' \in [Calls -> CallRecord] /\ Began(c)
      /\ call'[c].op = op /\ call'[c].user = u /\ call'[c].on = on /\ call'[c].with = with
      /\ call'[c].args = {} /\ call'[c].step = step
  BY <1>1, <1>2, BeginShape
<1>4. op \notin {"none", "join"}
  BY DEF Ops
<1>5. StepFits(c)'
  BY <1>1, <1>3, <1>4 DEF StepFits, Began, Over
<1>6. Named(c)' = {on, with} \cap Things
  BY <1>3 DEF Named
<1>7. CallFits(c)'
  BY <1>1, <1>3, <1>4, <1>5, <1>6 DEF CallFits
<1>8. QED
  BY <1>3, <1>6, <1>7 DEF CallStep, Began

\* A call that goes on without writing keeps what is shared.
LEMMA GotoFits ==
    ASSUME SharedInv, NEW c \in Calls, InFlight(c), NEW step, Goto(c, step),
           \/ step \in Over
           \/ step \in {"session", "store"} /\ call[c].op = "checkout"
           \/ step = "link" /\ call[c].op = "connect"
           \/ step = "list" /\ call[c].op = "listPromotions",
           used \subseteq used'
    PROVE  /\ CallStep(c) /\ Went(c)
           /\ call'[c].step = step /\ call'[c].with = call[c].with
           /\ call'[c].seen = call[c].seen /\ call'[c].to = call[c].to
           /\ call'[c].did = call[c].did /\ Named(c)' = Named(c)
<1>1. /\ step \in Active \cup Over /\ CallFits(c) /\ call[c].op # "none"
      /\ step \notin {"unused", "find", "write", "notify", "findParent", "seller", "sweep"}
      /\ step \notin Over => call[c].did = "nothing"
      /\ Over = {"refused", "ended", "failed", "dead"}
  BY DEF Active, Over, SharedInv, CallsFit, CallFits, StepFits, InFlight, TellingOps
<1>2. /\ call' \in [Calls -> CallRecord] /\ Went(c)
      /\ call'[c].step = step /\ call'[c].with = call[c].with
      /\ call'[c].seen = call[c].seen /\ call'[c].to = call[c].to
      /\ call'[c].did = call[c].did
  BY <1>1, GotoShape
<1>3. StepFits(c)'
  BY <1>1, <1>2 DEF StepFits, Went
<1>4. CallFits(c)'
  BY <1>2, <1>3, GoingFits
<1>5. QED
  BY <1>2, <1>4 DEF CallStep, Named, Went

\* A call that wrote keeps what is shared.
LEMMA WroteFits ==
    ASSUME SharedInv, NEW c \in Calls, InFlight(c),
           NEW did \in {"created", "moved", "deleted"}, NEW to \in SUBSET (Users \X Kinds),
           call[c].did \in {"nothing", did}, Wrote(c, did, to), used \subseteq used',
           to = {} \/ (call[c].op \in TellingOps /\ did = "created")
    PROVE  /\ CallStep(c) /\ Went(c)
           /\ call'[c].step = IF to = {} THEN "ended" ELSE "notify"
           /\ call'[c].with = call[c].with /\ call'[c].seen = call[c].seen
           /\ call'[c].to = to /\ call'[c].did = did /\ Named(c)' = Named(c)
<1>1. CallFits(c) /\ call[c].op # "none"
  BY DEF Active, SharedInv, CallsFit, CallFits, StepFits, InFlight
<1>2. /\ call' \in [Calls -> CallRecord] /\ Went(c)
      /\ call'[c].step = IF to = {} THEN "ended" ELSE "notify"
      /\ call'[c].with = call[c].with /\ call'[c].seen = call[c].seen
      /\ call'[c].to = to /\ call'[c].did = did
  BY WroteShape
<1>3. StepFits(c)'
  BY <1>1, <1>2 DEF StepFits, Went
<1>4. CallFits(c)'
  BY <1>2, <1>3, GoingFits
<1>5. QED
  BY <1>2, <1>4 DEF CallStep, Named, Went

\* A call in flight that names what is gone is not calm.
LEMMA NotCalm ==
    ASSUME SharedInv, NEW c \in Calls, InFlight(c), ~(Named(c) \subseteq rows)
    PROVE  call[c].calm = "no"
BY DEF SharedInv, CalmFits, TypeOK, RequestsTypeOK, CallRecord

----------------------------------------------------------------------------
(* The library.                                                            *)
(***************************************************************************)
LibraryOps == {"comment", "remove", "update", "createCollection", "createHighlight"}

\* A comment is made, and a reply's parent is found or not.
CommentMade(c) ==
    /\ Went(c) /\ call[c].op = "comment" /\ call[c].step = "write"
    /\ call'[c].did = "created" /\ call'[c].with = call[c].with
    /\ call'[c].to = OwnerAndMentioned(c)
    /\ call'[c].step = (IF call'[c].to # {} THEN "notify"
                        ELSE IF call[c].with # None THEN "findParent" ELSE "ended")
CommentTold(c) ==
    /\ Went(c) /\ call[c].op = "comment" /\ call[c].step = "findParent"
    /\ call'[c].did = "created" /\ call'[c].with = call[c].with
    /\ call'[c].to = (IF call[c].with \in rows
                      THEN Except(call[c].user, {<<owner[call[c].with], "reply">>}) ELSE {})
    /\ call'[c].step = (IF call'[c].to = {} THEN "ended" ELSE "notify")
    /\ UNCHANGED <<contentVars, notice>>

LibraryShape(c) ==
    /\ CallStep(c) /\ RowStep /\ call'[c].op \in LibraryOps
    /\ notice' \subseteq notice /\ \A n \in notice \ notice' : n.post \notin rows'
    /\ InFlight(c)' => rows \subseteq rows'
    /\ rows \cap Promotions \subseteq rows'
    /\ call'[c].step = "failed" => call'[c].calm = "no" /\ ~(Named(c)' \subseteq rows')
    /\ \/ /\ call'[c].to = {} /\ call'[c].step \notin {"notify", "findParent"}
          /\ call'[c].did = "nothing" \/ call'[c].op # "comment"
       \/ CommentMade(c) \/ CommentTold(c)

\* Rows and notices stay as they are.
LEMMA StillShape ==
    ASSUME SharedInv, NEW c \in Calls, CallStep(c), call'[c].op \in LibraryOps,
           UNCHANGED <<contentVars, notice>>,
           call'[c].step = "failed" => call'[c].calm = "no" /\ ~(Named(c)' \subseteq rows),
           call'[c].to = {} /\ call'[c].step \notin {"notify", "findParent"},
           call'[c].did = "nothing" \/ call'[c].op # "comment"
    PROVE  LibraryShape(c)
BY NoRowStep DEF LibraryShape, contentVars

\* Rows are deleted, and none of them is a promotion.
LEMMA DropShape ==
    ASSUME SharedInv, NEW c \in Calls, CallStep(c), call'[c].op = "remove",
           NEW x \in used \ Promotions, DropRow(x), call'[c].step = "ended", call'[c].to = {}
    PROVE  LibraryShape(c)
<1>1. RowStep /\ UNCHANGED used
  BY DropRowStep DEF DropRow
<1>2. rows \cap Promotions \subseteq rows'
  <2>1. ASSUME NEW q \in rows \cap Promotions
        PROVE  q \in rows'
    <3>1. q \in used /\ q \notin Comments /\ q # x
      BY RequestsAssumption DEF SharedInv, TypeOK, RequestsTypeOK
    <3>2. within[q] = {}
      BY <3>1 DEF SharedInv, RowsFit
    <3>3. QED
      BY <3>1, <3>2, StayingStays DEF DropRow
  <2>2. QED
    BY <2>1
<1>3. x \notin rows' /\ notice' \subseteq notice /\ \A n \in notice \ notice' : n.post \notin rows'
  BY StayingStays DEF DropRow
<1>4. ~InFlight(c)'
  BY DEF InFlight, Active
<1>5. QED
  BY <1>1, <1>2, <1>3, <1>4 DEF LibraryShape, LibraryOps

\* A row is made by a call that ends with it.
LEMMA MakeShape ==
    ASSUME SharedInv, NEW c \in Calls, CallStep(c), call'[c].op \in {"createCollection", "createHighlight"},
           NEW x \in Collections \cup Highlights, NEW u \in Users, NEW stories \in SUBSET Stories,
           MakeRow(x, u, {}, stories),
           UNCHANGED notice, call'[c].step = "ended", call'[c].to = {}
    PROVE  LibraryShape(c)
<1>1. x \in Things /\ x \notin Comments
  BY RequestsAssumption DEF Things
<1>2. RowStep
  BY <1>1, MakeRowStep
<1>3. QED
  BY <1>2 DEF LibraryShape, LibraryOps, MakeRow

\* The beginning of a change to what one owns is a step of the library.
LEMMA BeginOwnedShape ==
    ASSUME SharedInv, NEW c \in Calls, NEW op \in {"remove", "update"}, NEW u \in Users,
           NEW x \in Things \cap used, BeginOwned(c, op, u, x)
    PROVE  LibraryShape(c)
<1>1. /\ op \in Ops \ {"join"} /\ x \in Targets(op) /\ None \in Details(op)
      /\ op \in LibraryOps
      /\ UNCHANGED <<contentVars, notice>> /\ op # "comment"
      /\ "write" \in FirstSteps(op) /\ "refused" \in FirstSteps(op)
  BY DEF Ops, Targets, Details, LibraryOps, BeginOwned, FirstSteps, Over
<1>2. {x, None} \cap Things \subseteq used'
  BY <1>1, RequestsAssumption DEF contentVars
<1>3. CASE x \in rows /\ owner[x] = u
  <2>1. Begin(c, op, u, x, None, {}, 0, "write")
    BY <1>3 DEF BeginOwned
  <2>2. QED
    BY <1>1, <1>2, <2>1, BeginBare, StillShape
<1>4. CASE ~(x \in rows /\ owner[x] = u)
  <2>1. Begin(c, op, u, x, None, {}, 0, "refused") /\ "refused" \in Over
    BY <1>4 DEF BeginOwned, Over
  <2>2. /\ CallStep(c) /\ call'[c].op = op /\ call'[c].step = "refused"
        /\ call'[c].did = "nothing" /\ call'[c].to = {}
    BY <1>1, <1>2, <2>1, BeginBare
  <2>3. QED
    BY <1>1, <2>2, StillShape
<1>5. QED
  BY <1>3, <1>4

\* The statements of a comment are steps of the library.
LEMMA CommentShapes ==
    ASSUME SharedInv, NoticesFit, NEW c \in Calls,
           CommentFindPost(c) \/ Comment(c) \/ CommentFindParent(c)
    PROVE  LibraryShape(c)
<1> USE RequestsAssumption
<1>1. call \in [Calls -> CallRecord] /\ CallFits(c)
  BY DEF SharedInv, TypeOK, RequestsTypeOK, CallsFit
<1>2. CASE CommentFindPost(c)
  <2>1. PICK u \in Actors, p \in Posts \cap used, parent \in (Comments \cap used) \cup {None},
            mentions \in SUBSET Users :
                Begin(c, "comment", u, p, parent, mentions, 0,
                      IF p \in rows THEN "write" ELSE "refused")
    BY <1>2 DEF CommentFindPost
  <2>2. /\ "comment" \in Ops \ {"join"} /\ p \in Targets("comment")
        /\ parent \in Details("comment") /\ mentions \in SUBSET Arguments("comment")
        /\ u \in Users /\ 0 \in Nat /\ UNCHANGED <<contentVars, notice>>
        /\ "comment" \in LibraryOps /\ {"write", "refused"} \subseteq FirstSteps("comment")
    BY <1>2 DEF Ops, Targets, Details, Arguments, LibraryOps, CommentFindPost, Over, FirstSteps
  <2>3. Drawn(p, parent, mentions)
    BY <2>2 DEF contentVars, Drawn
  <2>4. PICK step \in {"write", "refused"} : Begin(c, "comment", u, p, parent, mentions, 0, step)
    BY <2>1
  <2>5. /\ CallStep(c) /\ call'[c].op = "comment" /\ call'[c].step = step
        /\ call'[c].did = "nothing" /\ call'[c].to = {}
    BY <2>2, <2>3, <2>4, BeginFits DEF Asked
  <2>6. QED
    BY <2>2, <2>4, <2>5, StillShape
<1>3. CASE Comment(c)
  <2> DEFINE x == call[c].on
             parent == call[c].with
             to == OwnerAndMentioned(c)
  <2>1. /\ call[c].op = "comment" /\ call[c].step = "write" /\ InFlight(c) /\ UNCHANGED notice
        /\ call[c].did = "nothing" /\ call[c].to = {}
        /\ x \in Posts /\ parent \in Comments \cup {None} /\ call[c].args \subseteq Users
        /\ call[c].user \in Users
    BY <1>1, <1>3
       DEF Comment, At, InFlight, Active, CallFits, Targets, Details, Arguments, StepFits, CallRecord,
           NoticesFit, NoticesOf
  <2>2. CASE x \in rows /\ parent \in rows \cup {None}
    <3> DEFINE step == IF to # {} THEN "notify" ELSE IF parent # None THEN "findParent" ELSE "ended"
               rec == [call[c] EXCEPT !.did = "created", !.to = to, !.step = step]
    <3>1. PICK m \in Comments : MakeRow(m, call[c].user, {x, parent} \ {None}, {})
      BY <1>3, <2>2 DEF Comment
    <3>2. call' = [call EXCEPT ![c].did = "created", ![c].to = to, ![c].step = step]
      BY <1>3, <2>2 DEF Comment
    <3>3. to \in SUBSET (Users \X Kinds)
      <4>1. owner[x] \in Users
        BY <2>2 DEF SharedInv, RowsFit, TypeOK, RequestsTypeOK
      <4>2. QED
        BY <2>1, <4>1 DEF OwnerAndMentioned, Except, Kinds
    <3> HIDE DEF to
    <3>4. step \in {"notify", "findParent", "ended"}
      OBVIOUS
    <3>5. call' = [call EXCEPT ![c] = rec]
      BY <1>1, <3>2
    <3>6. /\ rec \in CallRecord /\ rec.op = "comment" /\ rec.user = call[c].user
          /\ rec.on = x /\ rec.args = call[c].args /\ rec.calm = call[c].calm
          /\ rec.with = parent /\ rec.step = step /\ rec.to = to /\ rec.did = "created"
      <4> HIDE DEF step
      <4>1. step \in Active \cup Over
        BY <3>4 DEF Active, Over
      <4>2. /\ call[c] \in CallRecord
            /\ "created" \in {"nothing", "created", "moved", "deleted"}
        BY <1>1
      <4>3. QED
        BY ZenonT(30), <2>1, <3>3, <4>1, <4>2 DEF CallRecord
    <3> HIDE DEF rec
    <3>7. call' \in [Calls -> CallRecord] /\ Went(c) /\ call'[c] = rec
      BY <1>1, <2>1, <3>4, <3>5, <3>6 DEF Went
    <3>8. RowStep /\ rows \subseteq rows' /\ used \subseteq used'
      <4>1. m \in Things /\ {x, parent} \ {None} \in SUBSET rows /\ {} \in SUBSET Stories
        BY <2>1, <2>2 DEF Things
      <4>2. /\ {x, parent} \ {None} \subseteq Posts \cup Comments
            /\ ({x, parent} \ {None}) \cap Posts # {}
        BY <2>1 DEF Things
      <4>3. RowStep
        BY <2>1, <3>1, <4>1, <4>2, MakeRowStep
      <4>4. QED
        BY <3>1, <4>3 DEF MakeRow
    <3>9. StepFits(c)'
      BY <3>4, <3>6, <3>7 DEF StepFits, TellingOps, Active
    <3>10. CallFits(c)'
      BY <3>6, <3>7, <3>8, <3>9, GoingFits
    <3>11. CommentMade(c)
      BY <2>1, <3>6, <3>7 DEF CommentMade, to
    <3>12. call'[c].step # "failed" /\ call'[c].op \in LibraryOps
      BY <3>6, <3>7 DEF LibraryOps
    <3>13. QED
      BY <2>1, <3>7, <3>8, <3>10, <3>11, <3>12 DEF LibraryShape, CallStep
  <2>3. CASE ~(x \in rows /\ parent \in rows \cup {None})
    <3>1. Goto(c, "failed") /\ UNCHANGED contentVars
      BY <1>3, <2>3 DEF Comment
    <3>2. /\ CallStep(c) /\ Went(c) /\ call'[c].step = "failed" /\ call'[c].to = {}
          /\ call'[c].did = "nothing" /\ Named(c)' = Named(c)
      BY <2>1, <3>1, GotoFits DEF Over, contentVars
    <3>3. ~(Named(c) \subseteq rows)
      BY <2>1, <2>3 DEF Named, Things
    <3>4. call'[c].calm = "no" /\ call'[c].op \in LibraryOps
      BY <2>1, <3>2, <3>3, NotCalm DEF Went, LibraryOps
    <3>5. QED
      BY <2>1, <3>1, <3>2, <3>3, <3>4, StillShape
  <2>4. QED
    BY <2>2, <2>3
<1>4. CASE CommentFindParent(c)
  <2> DEFINE parent == call[c].with
             to == IF parent \in rows THEN Except(call[c].user, {<<owner[parent], "reply">>}) ELSE {}
  <2>1. /\ call[c].op = "comment" /\ call[c].step = "findParent" /\ InFlight(c)
        /\ call[c].did = "created" /\ UNCHANGED <<contentVars, notice>>
        /\ Wrote(c, "created", to)
    BY <1>1, <1>4 DEF CommentFindParent, At, InFlight, Active, CallFits, StepFits
  <2>2. to \in SUBSET (Users \X Kinds) /\ call[c].op \in TellingOps /\ used \subseteq used'
    BY <2>1 DEF SharedInv, RowsFit, TypeOK, RequestsTypeOK, Except, Kinds, TellingOps, contentVars
  <2> HIDE DEF to
  <2>3. /\ CallStep(c) /\ Went(c) /\ call'[c].to = to /\ call'[c].did = "created"
        /\ call'[c].step = (IF to = {} THEN "ended" ELSE "notify") /\ call'[c].with = parent
    BY <2>1, <2>2, WroteFits
  <2>4. CommentTold(c)
    BY <2>1, <2>3 DEF CommentTold, to
  <2>5. RowStep /\ rows' = rows
    BY <2>1, NoRowStep DEF contentVars
  <2>6. call'[c].op \in LibraryOps /\ call'[c].step # "failed"
    BY <2>1, <2>3 DEF LibraryOps, Went
  <2>7. QED
    BY <2>1, <2>3, <2>4, <2>5, <2>6 DEF LibraryShape
<1>5. QED
  BY <1>2, <1>3, <1>4

\* Finding, deleting and updating what one owns are steps of the library.
LEMMA RemovalShapes ==
    ASSUME SharedInv, NoticesFit, NEW c \in Calls,
           \/ \E T \in {Comments, Posts, Collections, Highlights} : Removable(T, c) \/ Delete(c, T)
           \/ UpdateFind(c) \/ UpdatePost(c) \/ RenameCollection(c)
    PROVE  LibraryShape(c)
<1>1. call \in [Calls -> CallRecord] /\ CallFits(c)
  BY DEF SharedInv, TypeOK, RequestsTypeOK, CallsFit
<1>2. ASSUME NEW op \in {"remove", "update"}, At(c, op, "write")
      PROVE  /\ InFlight(c) /\ call[c].op = op /\ call[c].did = "nothing" /\ call[c].to = {}
             /\ call[c].on \in Things => call[c].on \in used /\ call[c].on \in Named(c)
             /\ op \in LibraryOps /\ op # "comment"
  BY <1>1, <1>2 DEF At, InFlight, Active, CallFits, StepFits, NoticesFit, NoticesOf, Named, LibraryOps
<1>3. ASSUME NEW op \in {"remove", "update"}, At(c, op, "write"), call[c].on \in Things \ rows,
             Goto(c, "failed"), UNCHANGED <<contentVars, notice>>
      PROVE  LibraryShape(c)
  <2>1. /\ CallStep(c) /\ Went(c) /\ call'[c].step = "failed" /\ call'[c].to = {}
        /\ call'[c].did = "nothing" /\ Named(c)' = Named(c)
    BY <1>2, <1>3, GotoFits DEF Over, contentVars
  <2>2. ~(Named(c) \subseteq rows)
    BY <1>2, <1>3
  <2>3. call'[c].calm = "no" /\ call'[c].op = op
    BY <1>2, <1>3, <2>1, <2>2, NotCalm DEF Went
  <2>4. QED
    BY <1>2, <1>3, <2>1, <2>2, <2>3, StillShape
<1>4. CASE \E T \in {Comments, Posts, Collections, Highlights} : Removable(T, c)
  <2>1. PICK u \in Users, x \in Things \cap used : BeginOwned(c, "remove", u, x)
    BY <1>4, RequestsAssumption DEF Removable, Things
  <2>2. QED
    BY <2>1, BeginOwnedShape
<1>5. CASE \E T \in {Comments, Posts, Collections, Highlights} : Delete(c, T)
  <2>1. /\ At(c, "remove", "write") /\ call[c].on \in Things \ Promotions
        /\ IF call[c].on \in rows
           THEN DropRow(call[c].on) /\ Wrote(c, "deleted", {})
           ELSE Goto(c, "failed") /\ UNCHANGED <<contentVars, notice>>
    BY <1>5, RequestsAssumption DEF Delete, Things
  <2>2. CASE call[c].on \in rows
    <3>1. DropRow(call[c].on) /\ Wrote(c, "deleted", {}) /\ used' = used
      BY <2>1, <2>2 DEF DropRow
    <3>2. call[c].on \in used \ Promotions
      BY <1>2, <2>1
    <3>3. /\ CallStep(c) /\ Went(c) /\ call'[c].step = "ended" /\ call'[c].to = {}
          /\ call'[c].op = "remove"
      BY <1>2, <2>1, <3>1, WroteFits DEF Went
    <3>4. QED
      BY <3>1, <3>2, <3>3, DropShape
  <2>3. CASE call[c].on \notin rows
    BY <1>3, <2>1, <2>3
  <2>4. QED
    BY <2>2, <2>3
<1>6. CASE UpdateFind(c)
  <2>1. PICK u \in Users, x \in Things \cap used : BeginOwned(c, "update", u, x)
    BY <1>6, RequestsAssumption DEF UpdateFind, Things
  <2>2. QED
    BY <2>1, BeginOwnedShape
<1>7. CASE UpdatePost(c) \/ RenameCollection(c)
  <2>1. /\ At(c, "update", "write") /\ call[c].on \in Things /\ UNCHANGED <<contentVars, notice>>
        /\ IF call[c].on \in rows THEN Wrote(c, "moved", {}) ELSE Goto(c, "failed")
    BY <1>7 DEF UpdatePost, RenameCollection, Things
  <2>2. CASE call[c].on \in rows
    <3>1. Wrote(c, "moved", {}) /\ used' = used
      BY <2>1, <2>2 DEF contentVars
    <3>2. /\ CallStep(c) /\ Went(c) /\ call'[c].step = "ended" /\ call'[c].to = {}
          /\ call'[c].op = "update"
      BY <1>2, <2>1, <3>1, WroteFits DEF Went
    <3>3. QED
      BY <2>1, <3>2, StillShape DEF LibraryOps
  <2>3. CASE call[c].on \notin rows
    BY <1>3, <2>1, <2>3
  <2>4. QED
    BY <2>2, <2>3
<1>8. QED
  BY <1>4, <1>5, <1>6, <1>7

\* Requests of one statement are steps of the library.
LEMMA OneStatementShapes ==
    ASSUME SharedInv, NEW c \in Calls,
           DeleteStory(c) \/ DeleteConversation(c) \/ CreateCollection(c) \/ CreateHighlight(c)
    PROVE  LibraryShape(c)
<1> USE RequestsAssumption
<1>1. /\ "remove" \in Ops \ {"join"} /\ "createCollection" \in Ops \ {"join"}
      /\ "createHighlight" \in Ops \ {"join"} /\ "remove" \in LibraryOps
      /\ "createHighlight" \in LibraryOps
      /\ \A op \in {"remove", "createCollection", "createHighlight"} :
             {"ended", "failed"} \subseteq FirstSteps(op) /\ None \in Details(op)
             /\ Targets(op) = Things \cup {None}
      /\ Arguments("createHighlight") = Stories /\ Actors \subseteq Users
      /\ rows \subseteq used /\ used \subseteq Things
      /\ Collections \cap Comments = {} /\ Highlights \cap Comments = {}
      /\ None \notin Things
  BY DEF Ops, LibraryOps, FirstSteps, Over, Details, Targets, Arguments, SharedInv, TypeOK,
         RequestsTypeOK
<1>2. ASSUME NEW u \in Actors, NEW x \in (Stories \cup Messages) \cap used,
             Begin(c, "remove", u, x, None, {}, 0, "ended"),
             DropRow(x) \/ UNCHANGED <<contentVars, notice>>
      PROVE  LibraryShape(c)
  <2>1. used' = used /\ x \in Targets("remove") /\ x \notin Promotions
    BY <1>1, <1>2 DEF DropRow, contentVars, Things
  <2>2. {x, None} \cap Things \subseteq used'
    BY <1>1, <2>1
  <2>3. /\ CallStep(c) /\ call'[c].op = "remove" /\ call'[c].step = "ended"
        /\ call'[c].did = "nothing" /\ call'[c].to = {}
    BY <1>1, <1>2, <2>1, <2>2, BeginBare
  <2>4. CASE DropRow(x)
    BY <2>1, <2>3, <2>4, DropShape
  <2>5. CASE UNCHANGED <<contentVars, notice>>
    BY <1>1, <2>3, <2>5, StillShape
  <2>6. QED
    BY <1>2, <2>4, <2>5
<1>3. CASE DeleteStory(c)
  BY <1>2, <1>3 DEF DeleteStory
<1>4. CASE DeleteConversation(c)
  BY <1>1, <1>2, <1>4 DEF DeleteConversation
<1>5. CASE CreateCollection(c)
  <2>1. PICK u \in Actors, k \in Collections :
            /\ Begin(c, "createCollection", u, None, None, {}, 0, "ended") /\ MakeRow(k, u, {}, {})
            /\ UNCHANGED notice
    BY <1>5 DEF CreateCollection
  <2>2. {None, None} \cap Things \subseteq used'
    BY <1>1
  <2>3. /\ CallStep(c) /\ call'[c].op = "createCollection" /\ call'[c].step = "ended"
        /\ call'[c].to = {}
    BY <1>1, <2>1, <2>2, BeginBare
  <2>4. QED
    BY <1>1, <2>1, <2>3, MakeShape
<1>6. CASE CreateHighlight(c)
  <2>1. PICK u \in Actors, stories \in SUBSET (Stories \cap used) \ {{}}, h \in Highlights :
            /\ UNCHANGED notice
            /\ IF stories \subseteq rows
               THEN /\ Begin(c, "createHighlight", u, h, None, stories, 0, "ended")
                    /\ MakeRow(h, u, {}, stories)
               ELSE /\ Begin(c, "createHighlight", u, None, None, stories, 0, "failed")
                    /\ UNCHANGED contentVars
    BY <1>6 DEF CreateHighlight
  <2>2. /\ h \in Targets("createHighlight") /\ None \in Targets("createHighlight")
        /\ u \in Users /\ stories \in SUBSET Arguments("createHighlight") /\ 0 \in Nat
        /\ None \in Details("createHighlight")
        /\ {"ended", "failed"} \subseteq FirstSteps("createHighlight")
        /\ "createHighlight" \in Ops \ {"join"}
    BY <1>1, <2>1 DEF Things
  <2>6. ASSUME NEW on \in Targets("createHighlight"), NEW step \in {"ended", "failed"},
               Begin(c, "createHighlight", u, on, None, stories, 0, step),
               Drawn(on, None, stories)
        PROVE  /\ CallStep(c) /\ Began(c) /\ call'[c].op = "createHighlight"
               /\ call'[c].step = step /\ call'[c].to = {} /\ call'[c].did = "nothing"
               /\ Named(c)' = ({on, None} \cup stories) \cap Things
    BY <2>2, <2>6, BeginFits DEF Asked
  <2>3. CASE stories \subseteq rows
    <3>1. Begin(c, "createHighlight", u, h, None, stories, 0, "ended") /\ MakeRow(h, u, {}, stories)
      BY <2>1, <2>3
    <3>2. Drawn(h, None, stories)
      BY <1>1, <3>1 DEF MakeRow, Drawn
    <3>3. /\ CallStep(c) /\ call'[c].op = "createHighlight" /\ call'[c].step = "ended"
          /\ call'[c].to = {}
      BY <2>2, <2>6, <3>1, <3>2
    <3>4. QED
      BY <1>1, <2>1, <3>1, <3>3, MakeShape
  <2>4. CASE ~(stories \subseteq rows)
    <3>1. Begin(c, "createHighlight", u, None, None, stories, 0, "failed") /\ UNCHANGED contentVars
      BY <2>1, <2>4
    <3>2. Drawn(None, None, stories)
      BY <1>1, <3>1 DEF contentVars, Drawn
    <3>3. /\ CallStep(c) /\ Began(c) /\ call'[c].op = "createHighlight" /\ call'[c].step = "failed"
          /\ call'[c].to = {} /\ call'[c].did = "nothing"
          /\ Named(c)' = ({None, None} \cup stories) \cap Things
      BY <2>2, <2>6, <3>1, <3>2
    <3>4. ~(Named(c)' \subseteq rows)
      BY <2>4, <3>3 DEF Things
    <3>5. call'[c].calm = "no"
      BY <3>3, <3>4 DEF Began, CallStep, CallRecord
    <3>6. QED
      BY <1>1, <2>1, <3>1, <3>3, <3>4, <3>5, StillShape
  <2>5. QED
    BY <2>3, <2>4
<1>7. QED
  BY <1>3, <1>4, <1>5, <1>6

\* All statements of requests for content are steps of the library.
LEMMA LibraryShapes ==
    ASSUME SharedInv, NoticesFit, NEW c \in Calls, LibraryStep(c)
    PROVE  LibraryShape(c)
BY CommentShapes, RemovalShapes, OneStatementShapes
   DEF LibraryStep, RemoveCommentFind, RemovePostFind, DeleteCollectionFind, RemoveHighlightFind,
       RemoveComment, RemovePost, DeleteCollection, RemoveHighlight

\* What a comment has to tell is told, or still to be told.
LEMMA LibraryShapeNotices ==
    ASSUME SharedInv, NoticesFit, NEW c \in Calls, LibraryShape(c)
    PROVE  OthersNotices(c) /\ NoticesOf(c)'
<1>1. CallStep(c) /\ RowStep /\ notice' \subseteq notice
  BY DEF LibraryShape
<1>2. OthersNotices(c) /\ \A n \in notice' : \E m \in notice : Same(n, m)
  BY DEF OthersNotices, Same, LibraryShape
<1>3. CASE call'[c].to = {} /\ (call'[c].did = "nothing" \/ call'[c].op # "comment")
  BY <1>1, <1>2, <1>3, NoticesQuiet DEF LibraryShape, LibraryOps, TellingOps
<1>4. ASSUME CommentMade(c) \/ CommentTold(c)
      PROVE  /\ Went(c) /\ call[c].op = "comment" /\ call'[c].op = "comment"
             /\ call'[c].user = call[c].user
             /\ call[c].with \in Comments \cup {None} /\ call'[c].with = call[c].with
             /\ Due(c)' = Due(c)
             /\ Due(c) = Except(call[c].user, OwnerAndMentioned(c) \cup
                                {<<owner[m], "reply">> : m \in {call[c].with} \cap Things})
             /\ \A n \in OwnerAndMentioned(c) : n[1] # call[c].user /\ n[2] # "reply"
             /\ IsReply(c)' <=> call[c].with # None
             /\ call[c].with # None =>
                    Except(call[c].user, {<<owner[call[c].with], "reply">>})'
                        = Except(call[c].user, {<<owner[call[c].with], "reply">>})
  <2>1. /\ Went(c) /\ call[c].op = "comment" /\ call'[c].with = call[c].with /\ call'[c].op = "comment"
        /\ call'[c].user = call[c].user
    BY <1>4 DEF CommentMade, CommentTold, Went
  <2>2. call[c].with \in Comments \cup {None}
    BY <2>1 DEF SharedInv, CallsFit, CallFits, Details
  <2>3. call[c].op \in TellingOps
    BY <2>1 DEF TellingOps
  <2>4. /\ Due(c)' = Due(c)
        /\ call[c].with # None => Except(call[c].user, {<<owner[call[c].with], "reply">>})'
                                = Except(call[c].user, {<<owner[call[c].with], "reply">>})
    BY <1>1, <2>1, <2>3, DueSame
  <2>5. Due(c) = Except(call[c].user, OwnerAndMentioned(c) \cup
                        {<<owner[m], "reply">> : m \in {call[c].with} \cap Things})
    BY <2>1 DEF Due
  <2>6. \A n \in OwnerAndMentioned(c) : n[1] # call[c].user /\ n[2] # "reply"
    BY DEF OwnerAndMentioned, Except
  <2>7. QED
    BY <2>1, <2>2, <2>4, <2>5, <2>6 DEF IsReply
<1>5. CASE CommentMade(c)
  <2>1. call[c].did = "nothing"
    BY <1>5 DEF CommentMade, SharedInv, CallsFit, CallFits, StepFits
  <2>2. \A n \in notice' : n.call # c
    BY <1>1, <1>2, <2>1, NoticesNone
  <2>3. Sent(c)' = {}
    BY <2>2 DEF Sent
  <2>4. /\ call'[c].to = OwnerAndMentioned(c)
        /\ call'[c].step = (IF call'[c].to # {} THEN "notify"
                            ELSE IF call[c].with # None THEN "findParent" ELSE "ended")
    BY <1>5 DEF CommentMade
  <2>5. OwnerAndMentioned(c) \subseteq Due(c) /\ \A n \in OwnerAndMentioned(c) : n[2] # "reply"
    BY <1>4, <1>5 DEF Except
  <2>6. Pending(c)' = IF call[c].with # None
                      THEN Except(call[c].user, {<<owner[call[c].with], "reply">>}) ELSE {}
    <3>1. CASE call[c].with = None
      BY <1>4, <1>5, <3>1 DEF Pending
    <3>2. CASE call[c].with # None
      <4>1. call'[c].step = "findParent" \/ (call'[c].step = "notify" /\ \A n \in call'[c].to : n[2] # "reply")
        BY <2>4, <2>5, <3>2
      <4>2. call'[c].with # None /\ call'[c].user = call[c].user
        BY <1>4, <1>5, <3>2
      <4>3. QED
        BY <1>4, <1>5, <3>2, <4>1, <4>2 DEF Pending, Except
    <3>3. QED
      BY <3>1, <3>2
  <2>7. Due(c) = OwnerAndMentioned(c) \cup
                 IF call[c].with # None
                 THEN Except(call[c].user, {<<owner[call[c].with], "reply">>}) ELSE {}
    <3>1. CASE call[c].with = None
      <4>1. {call[c].with} \cap Things = {}
        BY <3>1, RequestsAssumption
      <4>2. QED
        BY <1>4, <1>5, <3>1, <4>1 DEF Except
    <3>2. CASE call[c].with # None
      <4>1. {call[c].with} \cap Things = {call[c].with}
        BY <1>4, <1>5, <3>2 DEF Things
      <4>2. QED
        BY <1>4, <1>5, <3>2, <4>1 DEF Except
    <3>3. QED
      BY <3>1, <3>2
  <2>8. Due(c)' = Sent(c)' \cup call'[c].to \cup Pending(c)'
    BY <1>4, <1>5, <2>3, <2>4, <2>6, <2>7
  <2>9. call'[c].to \subseteq Due(c)' /\ \A n \in call'[c].to : n[2] # "reply"
    BY <1>4, <1>5, <2>4, <2>5
  <2>10. call'[c].step \notin {"notify", "failed", "dead"} => call'[c].to = {}
    BY <2>4
  <2>11. QED
    BY <1>2, <2>2, <2>8, <2>9, <2>10 DEF NoticesOf
<1>6. CASE CommentTold(c)
  <2> DEFINE reply == {<<owner[call[c].with], "reply">>}
  <2>1. /\ call[c].with # None /\ call[c].did = "created" /\ call[c].step = "findParent"
        /\ UNCHANGED <<contentVars, notice>> /\ NoticesOf(c) /\ call'[c].did = "created"
        /\ call[c].op \in TellingOps
    BY <1>6 DEF CommentTold, SharedInv, CallsFit, CallFits, StepFits, NoticesFit, TellingOps
  <2>2. Sent(c)' = Sent(c) /\ PostOf(c)' = PostOf(c) /\ Named(c)' = Named(c)
    <3>1. call'[c].on = call[c].on /\ call'[c].args = call[c].args /\ call'[c].with = call[c].with
      BY <1>4, <1>6 DEF Went
    <3>2. notice' = notice /\ within' = within
      BY <2>1 DEF contentVars
    <3>3. QED
      BY <3>1, <3>2 DEF Sent, PostOf, Named
  <2>3. call[c].to = {} /\ Pending(c) = Except(call[c].user, reply)
    BY <1>4, <1>6, <2>1 DEF NoticesOf, Pending, IsReply
  <2>4. /\ call'[c].to = (IF call[c].with \in rows THEN Except(call[c].user, reply) ELSE {})
        /\ call'[c].step = (IF call'[c].to = {} THEN "ended" ELSE "notify")
    BY <1>6 DEF CommentTold
  <2>5. \A n \in Except(call[c].user, reply) : n[2] = "reply" /\ Except(call[c].user, reply) = {n}
    BY DEF Except
  <2>6. Pending(c)' = {}
    BY <2>4, <2>5 DEF Pending
  <2>7. Except(call[c].user, reply) \subseteq Due(c)
    <3>1. call[c].with \in Things
      BY <1>4, <1>6, <2>1 DEF Things
    <3>2. QED
      BY <1>4, <1>6, <3>1 DEF Except
  <2>8. Named(c) \subseteq rows => call[c].with \in rows
    BY <1>4, <1>6, <2>1 DEF Named, Things
  <2>9. Named(c)' \subseteq rows' => Due(c)' = Sent(c)' \cup call'[c].to \cup Pending(c)'
    BY <1>4, <1>6, <2>1, <2>2, <2>3, <2>4, <2>6, <2>8 DEF NoticesOf, contentVars
  <2>10. \A n \in notice' : n.call = c =>
             /\ call'[c].op \in TellingOps /\ call'[c].did = "created"
             /\ n.post = PostOf(c)' /\ <<n.to, n.kind>> \in Due(c)'
    BY <1>4, <1>6, <2>1, <2>2 DEF NoticesOf
  <2> HIDE DEF reply
  <2>11. call'[c].to \subseteq Due(c)' /\ \A n \in call'[c].to : n[2] = "reply" => call'[c].to = {n}
    BY <1>4, <1>6, <2>4, <2>5, <2>7
  <2>12. call'[c].step \notin {"notify", "failed", "dead"} => call'[c].to = {}
    BY <2>4
  <2>13. QED
    BY <1>2, <2>9, <2>10, <2>11, <2>12 DEF NoticesOf
<1>7. QED
  BY <1>3, <1>5, <1>6 DEF LibraryShape

----------------------------------------------------------------------------
(* Sales.                                                                  *)
(***************************************************************************)
SalesInv == PurchasesTypeOK /\ SalesFit /\ AccountsFit

\* A purchase is never undone, and a sale is its first buyer's.
LEMMA SalesKept ==
    ASSUME SharedInv, SalesInv, NEW c \in Calls,
           \A d \in Calls \ {c} : Kept(d) /\ session'[d] = session[d],
           \A s \in Sales : /\ purchase[s] # "none" => purchase'[s] # "none"
                            /\ purchase[s] = "COMPLETED" => purchase'[s] = "COMPLETED",
           delivered' \subseteq delivered \cup {c},
           session'[c] # "none" => /\ call'[c].op = "checkout"
                                   /\ call'[c].step \notin {"seller", "write", "session"},
           Bought(c)' => purchase'[Sale(c)'] # "none",
           Bought(c)' => IF Bought(c) THEN Sale(c)' = Sale(c) ELSE purchase[Sale(c)'] = "none",
           c \in delivered' => session'[c] = "paid" /\ purchase'[Sale(c)'] = "COMPLETED"
    PROVE  SalesFit'
<1>1. ASSUME NEW d \in Calls \ {c}
      PROVE  /\ session'[d] # "none" => /\ call'[d].op = "checkout"
                                        /\ call'[d].step \notin {"seller", "write", "session"}
             /\ Sale(d)' = Sale(d) /\ (Bought(d)' <=> Bought(d))
             /\ Bought(d)' => purchase'[Sale(d)'] # "none"
             /\ d \in delivered' => session'[d] = "paid" /\ purchase'[Sale(d)'] = "COMPLETED"
  <2>1. Kept(d) /\ session'[d] = session[d]
    OBVIOUS
  <2>2. Sale(d)' = Sale(d) /\ (Bought(d)' <=> Bought(d))
    BY <2>1 DEF Sale, Bought, Kept
  <2>3. Bought(d) => purchase[Sale(d)] # "none" /\ Sale(d) \in Sales
    BY SaleFits DEF SalesInv, SalesFit, Bought
  <2>4. d \in delivered' => /\ session[d] = "paid" /\ purchase[Sale(d)] = "COMPLETED"
                            /\ call[d].op = "checkout"
    BY DEF SalesInv, SalesFit
  <2>5. session[d] # "none" => /\ call[d].op = "checkout"
                               /\ call[d].step \notin {"seller", "write", "session"}
    BY DEF SalesInv, SalesFit
  <2>6. QED
    BY <2>1, <2>2, <2>3, <2>4, <2>5, SaleFits DEF Kept
<1>2. ASSUME NEW d \in Calls \ {c}, Bought(c)', Bought(d)', Sale(c)' = Sale(d)'
      PROVE  FALSE
  <2>1. Bought(d) /\ Sale(d)' = Sale(d) /\ purchase[Sale(d)] # "none"
    BY <1>1, <1>2 DEF SalesInv, SalesFit
  <2>2. Bought(c) /\ Sale(c) = Sale(d)
    BY <1>2, <2>1
  <2>3. QED
    BY <2>1, <2>2 DEF SalesInv, SalesFit
<1>3. ASSUME NEW d \in Calls, NEW e \in Calls, Bought(d)', Bought(e)', Sale(d)' = Sale(e)'
      PROVE  d = e
  BY <1>1, <1>2, <1>3 DEF SalesInv, SalesFit
<1>4. QED
  BY <1>1, <1>3 DEF SalesFit

\* An account once made is somebody's for ever; a user's account is replaced by
\* the store of a request that found none.
LEMMA AccountsKept ==
    ASSUME SharedInv, SalesInv, NEW c \in Calls, CallStep(c),
           \A u \in Users : stripeAccountId'[u] # None => madeFor'[stripeAccountId'[u]] = u,
           \A a \in Accounts : madeFor[a] # None => madeFor'[a] = madeFor[a],
           \A u \in Users : stripeAccountId'[u] # stripeAccountId[u] =>
               At(c, "connect", "store") /\ u = call[c].user,
           call'[c].op = "connect" /\ call'[c].step \in {"store", "link", "ended"} =>
               /\ call'[c].with # None /\ madeFor'[call'[c].with] = call'[c].user
               /\ call'[c].calm = "yes" /\ call'[c].step # "store" =>
                      stripeAccountId'[call'[c].user] = call'[c].with,
           At(c, "connect", "write")' => stripeAccountId[call'[c].user] = None,
           At(c, "connect", "store")' => Went(c) /\ call[c].step = "write"
    PROVE  AccountsFit'
<1>1. ASSUME NEW d \in Calls, call'[d].op = "connect", call'[d].step \in {"store", "link", "ended"}
      PROVE  /\ call'[d].with # None /\ madeFor'[call'[d].with] = call'[d].user
             /\ call'[d].calm = "yes" /\ call'[d].step # "store" =>
                    /\ stripeAccountId'[call'[d].user] = call'[d].with
                    /\ \A e \in Calls : At(e, "connect", "write")' \/ At(e, "connect", "store")'
                                           => call'[e].user # call'[d].user
  <2>1. CASE d = c
    <3>1. ASSUME call'[c].calm = "yes", NEW e \in Calls, e # c, InFlight(e)'
          PROVE  FALSE
      <4>1. InFlight(e)
        BY <3>1, CallsKeep DEF InFlight, Kept
      <4>2. Went(c)
        BY <3>1, <4>1 DEF CallStep, Began
      <4>3. QED
        BY <3>1, <4>1, <4>2 DEF SharedInv, CalmFits, Went
    <3>2. QED
      BY <1>1, <2>1, <3>1 DEF At, InFlight, Active
  <2>2. CASE d # c
    <3>1. Kept(d) /\ call[d].op = "connect" /\ call[d].step \in {"store", "link", "ended"}
          /\ CallFits(d) /\ call[d].step # "unused" /\ call \in [Calls -> CallRecord]
      BY <1>1, <2>2, CallsKeep DEF Kept, SharedInv, CallsFit, TypeOK, RequestsTypeOK
    <3>2. /\ call[d].with # None /\ madeFor[call[d].with] = call[d].user
          /\ call[d].calm = "yes" /\ call[d].step # "store" =>
                 /\ stripeAccountId[call[d].user] = call[d].with
                 /\ \A e \in Calls : At(e, "connect", "write") \/ At(e, "connect", "store")
                                        => call[e].user # call[d].user
      BY <3>1 DEF SalesInv, AccountsFit
    <3>3. call[d].user \in Users /\ call[d].user # None /\ call[d].with \in Accounts
      BY <3>1, <3>2 DEF CallFits, Details, CallRecord
    <3>4. madeFor'[call'[d].with] = call'[d].user
      BY <3>1, <3>2, <3>3 DEF Kept
    <3>5. ASSUME call'[d].calm = "yes", call'[d].step # "store"
          PROVE  /\ stripeAccountId'[call'[d].user] = call'[d].with
                 /\ \A e \in Calls : At(e, "connect", "write")' \/ At(e, "connect", "store")'
                                        => call'[e].user # call'[d].user
      <4>1. call[d].calm # "no"
        BY <3>1, <3>5, CallsKeep
      <4>2. call[d].calm = "yes" /\ call[d].step # "store"
        BY <3>1, <3>5, <4>1 DEF CallRecord, Kept
      <4>3. stripeAccountId'[call'[d].user] = call'[d].with
        BY <3>1, <3>2, <3>3, <4>2 DEF Kept
      <4>4. ASSUME NEW e \in Calls, At(e, "connect", "write")' \/ At(e, "connect", "store")'
            PROVE  call'[e].user # call'[d].user
        <5>1. CASE e # c
          BY <3>1, <3>2, <4>2, <4>4, <5>1, CallsKeep DEF At, Kept
        <5>2. CASE e = c /\ At(e, "connect", "write")'
          BY <3>1, <3>2, <4>2, <5>2 DEF Kept
        <5>3. CASE e = c /\ At(e, "connect", "store")'
          BY <3>1, <3>2, <4>2, <5>3 DEF Kept, At, Went
        <5>4. QED
          BY <4>4, <5>1, <5>2, <5>3
      <4>5. QED
        BY <4>3, <4>4
    <3>6. QED
      BY <3>1, <3>2, <3>4, <3>5 DEF Kept
  <2>3. QED
    BY <2>1, <2>2
<1>2. QED
  BY <1>1 DEF AccountsFit

\* A step of other calls, or one that ends a call.
LEMMA SalesForeign ==
    ASSUME SharedInv, SalesInv, NEW c \in Calls, CallStep(c), UNCHANGED purchaseVars,
           call'[c].op \in {"connect", "checkout"} => Went(c) /\ call'[c].step = "dead"
    PROVE  SalesInv'
<1>1. /\ UNCHANGED <<stripeAccountId, madeFor, purchase, session, delivered>>
      /\ \A d \in Calls \ {c} : Kept(d) /\ session'[d] = session[d]
  BY CallsKeep DEF purchaseVars
<1>2. Bought(c) => call[c].step # "unused" /\ Sale(c)' = Sale(c) /\ call'[c].op = call[c].op
  <2>1. Bought(c) => call[c].step # "unused"
    BY DEF Bought, SharedInv, CallsFit, CallFits, StepFits
  <2>2. QED
    BY <2>1, CallsKeep DEF Sale
<1>3. session[c] # "none" => Bought(c)
  BY DEF SalesInv, SalesFit, Bought
<1>4. Bought(c)' => Bought(c)
  BY <1>1, <1>3 DEF Bought, SalesInv, SalesFit
<1>5. SalesFit'
  <2>1. session'[c] # "none" => call'[c].op = "checkout" /\ call'[c].step \notin {"seller", "write", "session"}
    BY <1>1, <1>2, <1>3 DEF SalesInv, SalesFit
  <2>2. Bought(c)' => purchase'[Sale(c)'] # "none"
    BY <1>1, <1>2, <1>4 DEF SalesInv, SalesFit
  <2>3. c \in delivered' => session'[c] = "paid" /\ purchase'[Sale(c)'] = "COMPLETED"
    BY <1>1, <1>2, <1>3 DEF SalesInv, SalesFit
  <2>4. QED
    BY <1>1, <1>2, <1>4, <2>1, <2>2, <2>3, SalesKept
<1>6. AccountsFit'
  <2>1. \A u \in Users : stripeAccountId'[u] # None => madeFor'[stripeAccountId'[u]] = u
    BY <1>1 DEF SalesInv, AccountsFit
  <2>2. call'[c].op = "connect" => call'[c].step = "dead"
    OBVIOUS
  <2>3. QED
    BY <1>1, <2>1, <2>2, AccountsKept DEF At
<1>7. QED
  BY <1>1, <1>5, <1>6 DEF SalesInv, PurchasesTypeOK

\* What the steps of a sale are to the other components.
SaleShape(c) ==
    /\ CallStep(c) /\ UNCHANGED <<contentVars, notice>> /\ call'[c].op \in {"connect", "checkout"}
    /\ call'[c].to \in {{}, call[c].to} /\ call'[c].step # "notify"
    /\ call'[c].step = "failed" => call'[c].op = "checkout" /\ purchase'[Sale(c)'] # "none"
    /\ \A s \in Sales : purchase[s] # "none" => purchase'[s] # "none"

\* Each statement that links an account keeps what is said of sales.
LEMMA ConnectSteps ==
    ASSUME SharedInv, SalesInv, NEW c \in Calls,
           ConnectFind(c) \/ ConnectCreate(c) \/ ConnectStore(c) \/ ConnectLink(c)
    PROVE  SaleShape(c) /\ SalesInv'
<1> USE RequestsAssumption
<1>1. /\ call \in [Calls -> CallRecord] /\ CallFits(c)
      /\ stripeAccountId \in [Users -> Accounts \cup {None}]
      /\ madeFor \in [Accounts -> Users \cup {None}]
      /\ None \notin Users \cup Accounts
  BY DEF SharedInv, TypeOK, RequestsTypeOK, CallsFit, SalesInv, PurchasesTypeOK
<1>2. UNCHANGED <<contentVars, notice>> /\ UNCHANGED <<purchase, session, delivered>>
  BY DEF ConnectFind, ConnectCreate, ConnectStore, ConnectLink, Stays, purchaseVars
<1>3. ASSUME CallStep(c), call'[c].op = "connect"
      PROVE  SalesFit'
  <2>1. /\ \A d \in Calls \ {c} : Kept(d) /\ session'[d] = session[d]
        /\ session[c] = "none"
    <3>1. session[c] # "none" => call[c].op = "checkout" /\ call[c].step # "unused"
      BY DEF SalesInv, SalesFit, SharedInv, CallsFit, CallFits, StepFits
    <3>2. call[c].step # "unused" => call'[c].op = call[c].op
      BY <1>3, CallsKeep
    <3>3. QED
      BY <1>2, <1>3, <3>1, <3>2, CallsKeep
  <2>2. c \notin delivered /\ ~Bought(c)'
    BY <1>2, <1>3, <2>1 DEF SalesInv, SalesFit, Bought
  <2>3. QED
    BY <1>2, <1>3, <2>1, <2>2, SalesKept
<1>4. CASE ConnectFind(c)
  <2>1. PICK u \in Users :
            Begin(c, "connect", u, None, stripeAccountId[u], {}, 0,
                  IF stripeAccountId[u] = None THEN "write" ELSE "link")
    BY <1>4 DEF ConnectFind
  <2>2. /\ "connect" \in Ops \ {"join"} /\ None \in Targets("connect")
        /\ stripeAccountId[u] \in Details("connect")
        /\ "write" \in FirstSteps("connect") /\ "link" \in FirstSteps("connect")
        /\ {None, stripeAccountId[u]} \cap Things \subseteq used'
        /\ UNCHANGED <<stripeAccountId, madeFor>>
    BY <1>1, <1>4 DEF Ops, Targets, Details, FirstSteps, ConnectFind, purchaseVars
  <2>3. /\ CallStep(c) /\ call'[c].op = "connect" /\ call'[c].user = u
        /\ call'[c].with = stripeAccountId[u] /\ call'[c].to = {} /\ Began(c)
        /\ call'[c].step = IF stripeAccountId[u] = None THEN "write" ELSE "link"
    <3>1. CASE stripeAccountId[u] = None
      <4>1. Begin(c, "connect", u, None, stripeAccountId[u], {}, 0, "write")
        BY <2>1, <3>1
      <4>2. QED
        BY <2>2, <3>1, <4>1, BeginBare
    <3>2. CASE stripeAccountId[u] # None
      <4>1. Begin(c, "connect", u, None, stripeAccountId[u], {}, 0, "link")
        BY <2>1, <3>2
      <4>2. QED
        BY <2>2, <3>2, <4>1, BeginBare
    <3>3. QED
      BY <3>1, <3>2
  <2>4. AccountsFit'
    <3>1. \A v \in Users : stripeAccountId[v] # None => madeFor[stripeAccountId[v]] = v
      BY DEF SalesInv, AccountsFit
    <3>2. QED
      BY <1>2, <2>2, <2>3, <3>1, AccountsKept DEF At
  <2>5. QED
    BY <1>1, <1>2, <1>3, <2>2, <2>3, <2>4 DEF SaleShape, SalesInv, PurchasesTypeOK
<1>5. CASE ConnectCreate(c)
  <2>1. PICK a \in Accounts :
            /\ madeFor[a] = None
            /\ madeFor' = [madeFor EXCEPT ![a] = call[c].user]
            /\ call' = [call EXCEPT ![c].with = a, ![c].step = "store"]
    BY <1>5 DEF ConnectCreate
  <2> DEFINE rec == [call[c] EXCEPT !.with = a, !.step = "store"]
  <2>2. /\ call[c].op = "connect" /\ call[c].step = "write" /\ InFlight(c)
        /\ call[c].user \in Users /\ stripeAccountId' = stripeAccountId
        /\ a \notin Things
    BY <1>1, <1>5 DEF ConnectCreate, At, InFlight, Active, CallFits, CallRecord
  <2>3. call' = [call EXCEPT ![c] = rec]
    BY <1>1, <2>1
  <2>4. /\ rec \in CallRecord /\ rec.op = "connect" /\ rec.user = call[c].user
        /\ rec.on = call[c].on /\ rec.args = call[c].args /\ rec.calm = call[c].calm
        /\ rec.with = a /\ rec.step = "store" /\ rec.to = call[c].to /\ rec.did = call[c].did
    <3>1. call[c] \in CallRecord /\ "store" \in Active
      BY <1>1 DEF Active
    <3>2. QED
      BY <2>2, <3>1 DEF CallRecord
  <2> HIDE DEF rec
  <2>5. call' \in [Calls -> CallRecord] /\ Went(c) /\ call'[c] = rec
    BY <1>1, <2>2, <2>3, <2>4 DEF Went
  <2>6. StepFits(c)' /\ a \in Details("connect") /\ used \subseteq used'
    <3>1. call[c].did = "nothing"
      BY <1>1, <2>2 DEF CallFits, StepFits
    <3>2. QED
      BY <1>2, <2>4, <2>5, <3>1 DEF StepFits, Details, contentVars
  <2>7. CallStep(c)
    BY <2>2, <2>4, <2>5, <2>6, GoingFits DEF CallStep
  <2>8. AccountsFit'
    <3>1. \A u \in Users : stripeAccountId[u] # None =>
              madeFor[stripeAccountId[u]] = u /\ stripeAccountId[u] # a
      BY <1>1, <2>1 DEF SalesInv, AccountsFit
    <3>2. \A u \in Users : stripeAccountId'[u] # None => madeFor'[stripeAccountId'[u]] = u
      BY <1>1, <2>1, <2>2, <3>1
    <3>3. \A b \in Accounts : madeFor[b] # None => madeFor'[b] = madeFor[b]
      BY <1>1, <2>1
    <3>4. call'[c].with # None /\ madeFor'[call'[c].with] = call'[c].user /\ call'[c].step = "store"
      BY <1>1, <2>1, <2>4, <2>5
    <3>5. QED
      BY <2>2, <2>5, <2>7, <3>2, <3>3, <3>4, AccountsKept DEF At
  <2>9. PurchasesTypeOK'
    BY <1>1, <1>2, <2>1, <2>2 DEF SalesInv, PurchasesTypeOK
  <2>10. QED
    BY <1>2, <1>3, <2>4, <2>5, <2>7, <2>8, <2>9 DEF SaleShape, SalesInv
<1>6. CASE ConnectStore(c)
  <2>1. /\ call[c].op = "connect" /\ call[c].step = "store" /\ InFlight(c) /\ Goto(c, "link")
        /\ stripeAccountId' = [stripeAccountId EXCEPT ![call[c].user] = call[c].with]
        /\ madeFor' = madeFor /\ used \subseteq used'
    BY <1>2, <1>6 DEF ConnectStore, At, InFlight, Active, contentVars
  <2>2. /\ CallStep(c) /\ Went(c) /\ call'[c].step = "link" /\ call'[c].with = call[c].with
        /\ call'[c].to = call[c].to
    BY <2>1, GotoFits
  <2>3. /\ call[c].with \in Accounts /\ madeFor[call[c].with] = call[c].user
        /\ call[c].user \in Users /\ call'[c].user = call[c].user /\ call'[c].op = "connect"
    BY <1>1, <2>1, <2>2 DEF SalesInv, AccountsFit, CallFits, Details, CallRecord, Went
  <2>4. AccountsFit'
    <3>1. \A u \in Users : stripeAccountId'[u] # None => madeFor'[stripeAccountId'[u]] = u
      BY <1>1, <2>1, <2>3 DEF SalesInv, AccountsFit
    <3>2. \A u \in Users : stripeAccountId'[u] # stripeAccountId[u] => u = call[c].user
      BY <1>1, <2>1
    <3>3. call'[c].with # None /\ madeFor'[call'[c].with] = call'[c].user
          /\ stripeAccountId'[call'[c].user] = call'[c].with
      BY <1>1, <2>1, <2>2, <2>3
    <3>4. QED
      BY <2>1, <2>2, <2>3, <3>1, <3>2, <3>3, AccountsKept DEF At
  <2>5. PurchasesTypeOK'
    BY <1>1, <1>2, <2>1, <2>3 DEF SalesInv, PurchasesTypeOK
  <2>6. QED
    BY <1>2, <1>3, <2>2, <2>3, <2>4, <2>5 DEF SaleShape, SalesInv
<1>7. CASE ConnectLink(c)
  <2>1. /\ call[c].op = "connect" /\ call[c].step = "link" /\ InFlight(c) /\ Goto(c, "ended")
        /\ stripeAccountId' = stripeAccountId /\ madeFor' = madeFor /\ used \subseteq used'
    BY <1>2, <1>7 DEF ConnectLink, At, InFlight, Active, contentVars, purchaseVars
  <2>2. /\ CallStep(c) /\ Went(c) /\ call'[c].step = "ended" /\ call'[c].with = call[c].with
        /\ call'[c].to = call[c].to
    BY <2>1, GotoFits DEF Over
  <2>3. /\ call[c].with # None /\ madeFor[call[c].with] = call[c].user
        /\ call[c].calm = "yes" => stripeAccountId[call[c].user] = call[c].with
        /\ call'[c].user = call[c].user /\ call'[c].op = "connect" /\ call'[c].calm = call[c].calm
        /\ \A u \in Users : stripeAccountId[u] # None => madeFor[stripeAccountId[u]] = u
    BY <2>1, <2>2 DEF SalesInv, AccountsFit, Went
  <2>4. AccountsFit'
    BY <2>1, <2>2, <2>3, AccountsKept DEF At
  <2>5. QED
    BY <1>2, <1>3, <2>1, <2>2, <2>3, <2>4 DEF SaleShape, SalesInv, PurchasesTypeOK
<1>8. QED
  BY <1>4, <1>5, <1>6, <1>7

\* Each statement of a checkout keeps what is said of sales.
LEMMA CheckoutSteps ==
    ASSUME SharedInv, SalesInv, NEW c \in Calls,
           \/ CheckoutFind(c) \/ CheckoutSeller(c) \/ CheckoutCreate(c) \/ CheckoutSession(c)
           \/ CheckoutStore(c)
    PROVE  SaleShape(c) /\ SalesInv'
<1> USE RequestsAssumption
<1>1. /\ call \in [Calls -> CallRecord] /\ CallFits(c)
      /\ stripeAccountId \in [Users -> Accounts \cup {None}]
      /\ purchase \in [Sales -> {"none", "PENDING", "COMPLETED"}]
      /\ session \in [Calls -> {"none", "open", "paid", "expired"}]
      /\ None \notin Users \cup Accounts
      /\ \A u \in Users : stripeAccountId[u] # None => madeFor[stripeAccountId[u]] = u
  BY DEF SharedInv, TypeOK, RequestsTypeOK, CallsFit, SalesInv, PurchasesTypeOK, AccountsFit
<1>2. UNCHANGED <<contentVars, notice>> /\ UNCHANGED <<stripeAccountId, madeFor, delivered>>
      /\ used \subseteq used'
  BY DEF CheckoutFind, CheckoutSeller, CheckoutCreate, CheckoutSession, CheckoutStore, Stays,
         purchaseVars, contentVars
<1>3. ASSUME CallStep(c), call'[c].op = "checkout"
      PROVE  AccountsFit'
  BY <1>1, <1>2, <1>3, AccountsKept DEF At
<1>4. /\ session[c] # "none" => Bought(c)
      /\ session[c] # "none" => call[c].step \notin {"seller", "write", "session"}
      /\ Bought(c) => purchase[Sale(c)] # "none"
      /\ c \in delivered => session[c] = "paid" /\ purchase[Sale(c)] = "COMPLETED"
      /\ Bought(c) => call[c].step # "unused" /\ call[c].op = "checkout"
  BY <1>1 DEF SalesInv, SalesFit, Bought, CallFits, StepFits
<1>5. ASSUME CallStep(c)
      PROVE  /\ \A d \in Calls \ {c} : Kept(d)
             /\ Bought(c) => Sale(c)' = Sale(c)
  BY <1>4, <1>5, CallsKeep DEF Sale
<1>6. CASE CheckoutFind(c)
  <2>1. PICK u \in Actors, x \in Items \cap used :
            Begin(c, "checkout", u, x, None, {}, 0, IF x \in rows \cap Priced THEN "seller" ELSE "refused")
    BY <1>6 DEF CheckoutFind
  <2>2. /\ "checkout" \in Ops \ {"join"} /\ x \in Targets("checkout") /\ u \in Users
        /\ None \in Details("checkout") /\ {x, None} \cap Things \subseteq used'
        /\ {"seller", "refused"} \subseteq FirstSteps("checkout")
        /\ UNCHANGED <<purchase, session>>
    BY <1>2, <1>6 DEF Ops, Targets, Details, FirstSteps, Over, CheckoutFind, purchaseVars
  <2>3. /\ CallStep(c) /\ call'[c].op = "checkout" /\ call'[c].to = {} /\ Began(c)
        /\ call'[c].step \in {"seller", "refused"}
    <3>1. PICK step \in {"seller", "refused"} : Begin(c, "checkout", u, x, None, {}, 0, step)
      BY <2>1
    <3>2. QED
      BY <2>2, <3>1, BeginBare
  <2>4. session[c] = "none" /\ c \notin delivered
    BY <1>4, <2>3 DEF Began
  <2>5. ~Bought(c)'
    BY <2>2, <2>3, <2>4 DEF Bought
  <2>6. SalesFit'
    BY <1>2, <1>5, <2>2, <2>3, <2>4, <2>5, SalesKept
  <2>7. QED
    BY <1>2, <1>3, <2>2, <2>3, <2>6 DEF SaleShape, SalesInv, PurchasesTypeOK
<1>7. CASE CheckoutSeller(c)
  <2> DEFINE seller == owner[call[c].on]
             account == stripeAccountId[seller]
             step == IF account # None /\ seller \in Monetized THEN "write" ELSE "refused"
             rec == [call[c] EXCEPT !.with = account, !.step = step]
  <2>1. /\ call[c].op = "checkout" /\ call[c].step = "seller" /\ InFlight(c)
        /\ call' = [call EXCEPT ![c].with = account, ![c].step = step]
        /\ UNCHANGED <<purchase, session>>
    BY <1>7 DEF CheckoutSeller, At, InFlight, Active, purchaseVars
  <2>2. account \in Accounts \cup {None}
    <3>1. call[c].on \in used
      BY <1>1, <2>1 DEF CallFits, Targets, Named, Items, Things
    <3>2. seller \in Users
      BY <3>1 DEF SharedInv, RowsFit
    <3>3. QED
      BY <1>1, <3>2
  <2>3. call' = [call EXCEPT ![c] = rec]
    BY <1>1, <2>1
  <2>4. step \in {"write", "refused"} /\ step \in Active \cup Over
    BY DEF Active, Over
  <2> HIDE DEF step, account
  <2>5. /\ rec \in CallRecord /\ rec.op = "checkout" /\ rec.user = call[c].user
        /\ rec.on = call[c].on /\ rec.args = call[c].args /\ rec.calm = call[c].calm
        /\ rec.with = account /\ rec.step = step /\ rec.to = call[c].to /\ rec.did = call[c].did
    <3>1. call[c] \in CallRecord
      BY <1>1
    <3>2. QED
      BY ZenonT(30), <2>1, <2>2, <2>4, <3>1 DEF CallRecord
  <2> HIDE DEF rec
  <2>6. call' \in [Calls -> CallRecord] /\ Went(c) /\ call'[c] = rec
    <3>1. account \notin Things
      BY <2>2
    <3>2. call'[c] = rec /\ step # "unused" /\ \A d \in Calls \ {c} : call'[d] = call[d]
      BY <1>1, <2>3, <2>4
    <3>3. QED
      BY <1>1, <2>1, <2>3, <2>5, <3>1, <3>2 DEF Went
  <2>7. call[c].did = "nothing"
    BY <1>1, <2>1 DEF CallFits, StepFits
  <2>8. StepFits(c)' /\ account \in Details("checkout")
    BY <2>2, <2>4, <2>5, <2>6, <2>7 DEF StepFits, Details
  <2>9. CallStep(c)
    BY <1>2, <2>1, <2>5, <2>6, <2>8, GoingFits DEF CallStep
  <2>10. session[c] = "none" /\ c \notin delivered
    BY <1>4, <2>1
  <2>11. ~Bought(c)'
    BY <2>1, <2>4, <2>5, <2>6, <2>10 DEF Bought
  <2>12. SalesFit'
    BY <1>2, <1>5, <2>1, <2>9, <2>10, <2>11, SalesKept
  <2>13. QED
    BY <1>2, <1>3, <2>1, <2>4, <2>5, <2>6, <2>9, <2>12 DEF SaleShape, SalesInv, PurchasesTypeOK
<1>8. CASE CheckoutCreate(c)
  <2>1. /\ call[c].op = "checkout" /\ call[c].step = "write" /\ InFlight(c) /\ session' = session
        /\ IF purchase[Sale(c)] = "none"
           THEN purchase' = [purchase EXCEPT ![Sale(c)] = "PENDING"] /\ Goto(c, "session")
           ELSE Goto(c, "failed") /\ UNCHANGED purchase
    BY <1>8 DEF CheckoutCreate, At, InFlight, Active
  <2>2. PICK step \in {"session", "failed"} :
            Goto(c, step) /\ step = (IF purchase[Sale(c)] = "none" THEN "session" ELSE "failed")
    BY <2>1
  <2>3. /\ CallStep(c) /\ Went(c) /\ call'[c].step = step /\ call'[c].to = call[c].to
        /\ call'[c].op = "checkout" /\ Sale(c)' = Sale(c)
    BY <1>2, <2>1, <2>2, GotoFits DEF Over, Went, Sale
  <2>4. Sale(c) \in Sales /\ session[c] = "none" /\ c \notin delivered
    BY <1>4, <2>1, SaleFits
  <2>5. \A s \in Sales : /\ purchase[s] # "none" => purchase'[s] # "none"
                         /\ purchase[s] = "COMPLETED" => purchase'[s] = "COMPLETED"
    BY <1>1, <2>1, <2>4
  <2>6. purchase'[Sale(c)] # "none" /\ purchase' \in [Sales -> {"none", "PENDING", "COMPLETED"}]
    BY <1>1, <2>1, <2>4
  <2>7. ~Bought(c) /\ (Bought(c)' => purchase[Sale(c)] = "none")
    BY <2>1, <2>2, <2>3, <2>4 DEF Bought
  <2>8. SalesFit'
    BY <1>2, <1>5, <2>1, <2>3, <2>4, <2>5, <2>6, <2>7, SalesKept
  <2>9. QED
    BY <1>2, <1>3, <2>1, <2>2, <2>3, <2>5, <2>6, <2>8 DEF SaleShape, SalesInv, PurchasesTypeOK
<1>9. CASE CheckoutSession(c)
  <2>1. /\ call[c].op = "checkout" /\ call[c].step = "session" /\ InFlight(c) /\ purchase' = purchase
        /\ session' = [session EXCEPT ![c] = "open"] /\ Goto(c, "store")
    BY <1>9 DEF CheckoutSession, At, InFlight, Active
  <2>2. /\ CallStep(c) /\ Went(c) /\ call'[c].step = "store" /\ call'[c].to = call[c].to
        /\ call'[c].op = "checkout" /\ Sale(c)' = Sale(c)
    BY <1>2, <2>1, GotoFits DEF Went, Sale
  <2>3. Bought(c) /\ c \notin delivered
    BY <1>4, <2>1 DEF Bought
  <2>4. /\ session' \in [Calls -> {"none", "open", "paid", "expired"}]
        /\ \A d \in Calls \ {c} : session'[d] = session[d]
    BY <1>1, <2>1
  <2>5. SalesFit'
    BY <1>2, <1>4, <1>5, <2>1, <2>2, <2>3, <2>4, SalesKept
  <2>6. QED
    BY <1>2, <1>3, <2>1, <2>2, <2>4, <2>5 DEF SaleShape, SalesInv, PurchasesTypeOK
<1>10. CASE CheckoutStore(c)
  <2>1. /\ call[c].op = "checkout" /\ call[c].step = "store" /\ InFlight(c) /\ Wrote(c, "created", {})
        /\ UNCHANGED <<purchase, session>>
    BY <1>10 DEF CheckoutStore, At, InFlight, Active, purchaseVars
  <2>2. call[c].did \in {"nothing", "created"}
    BY <1>1, <2>1 DEF CallFits, StepFits
  <2>3. /\ CallStep(c) /\ Went(c) /\ call'[c].step = "ended" /\ call'[c].to = {}
        /\ call'[c].op = "checkout" /\ Sale(c)' = Sale(c)
    BY <1>2, <2>1, <2>2, WroteFits DEF Went, Sale
  <2>4. Bought(c)
    BY <2>1 DEF Bought
  <2>5. SalesFit'
    BY <1>2, <1>4, <1>5, <2>1, <2>3, <2>4, SalesKept
  <2>6. QED
    BY <1>2, <1>3, <2>1, <2>3, <2>5 DEF SaleShape, SalesInv, PurchasesTypeOK
<1>11. QED
  BY <1>6, <1>7, <1>8, <1>9, <1>10

\* Stripe's steps are of no call.
LEMMA StripeSteps ==
    ASSUME SharedInv, SalesInv, NEW c \in Calls, Pay(c) \/ SessionExpires(c) \/ HandleWebhook(c)
    PROVE  /\ UNCHANGED requestVars /\ SalesInv'
           /\ \A s \in Sales : purchase[s] # "none" => purchase'[s] # "none"
<1>1. /\ UNCHANGED requestVars /\ call' = call /\ UNCHANGED <<stripeAccountId, madeFor>>
      /\ session \in [Calls -> {"none", "open", "paid", "expired"}]
      /\ purchase \in [Sales -> {"none", "PENDING", "COMPLETED"}] /\ delivered \subseteq Calls
  BY DEF Pay, SessionExpires, HandleWebhook, requestVars, SalesInv, PurchasesTypeOK
<1>2. AccountsFit' /\ \A d \in Calls \ {c} : Kept(d)
  BY <1>1 DEF SalesInv, AccountsFit, At, Kept
<1>3. /\ session[c] # "none" /\ call[c].op = "checkout" /\ Bought(c) /\ Sale(c)' = Sale(c)
      /\ call[c].step \notin {"seller", "write", "session"}
      /\ purchase[Sale(c)] # "none" /\ Sale(c) \in Sales
      /\ c \in delivered => session[c] = "paid" /\ purchase[Sale(c)] = "COMPLETED"
  BY <1>1, SaleFits DEF Pay, SessionExpires, HandleWebhook, SalesInv, SalesFit, Bought, Sale
<1>4. CASE Pay(c) \/ SessionExpires(c)
  <2>1. PICK to \in {"paid", "expired"} : session' = [session EXCEPT ![c] = to]
    BY <1>4 DEF Pay, SessionExpires
  <2>2. session[c] = "open" /\ UNCHANGED <<purchase, delivered>>
    BY <1>4 DEF Pay, SessionExpires
  <2>3. SalesFit'
    BY <1>1, <1>2, <1>3, <2>1, <2>2, SalesKept
  <2>4. QED
    BY <1>1, <1>2, <2>1, <2>2, <2>3 DEF SalesInv, PurchasesTypeOK
<1>5. CASE HandleWebhook(c)
  <2>1. /\ session[c] = "paid" /\ session' = session /\ delivered' = delivered \cup {c}
        /\ purchase' = [purchase EXCEPT ![Sale(c)] = "COMPLETED"]
    BY <1>5 DEF HandleWebhook
  <2>2. /\ purchase' \in [Sales -> {"none", "PENDING", "COMPLETED"}]
        /\ purchase'[Sale(c)] = "COMPLETED"
        /\ \A s \in Sales : /\ purchase[s] # "none" => purchase'[s] # "none"
                            /\ purchase[s] = "COMPLETED" => purchase'[s] = "COMPLETED"
    BY <1>1, <1>3, <2>1
  <2>3. SalesFit'
    BY <1>1, <1>2, <1>3, <2>1, <2>2, SalesKept
  <2>4. QED
    BY <1>1, <1>2, <2>1, <2>2, <2>3 DEF SalesInv, PurchasesTypeOK
<1>6. QED
  BY <1>4, <1>5

----------------------------------------------------------------------------
(* Promotions.                                                             *)
(***************************************************************************)
PromotionsInv == CampaignsTypeOK /\ PromotionsFit

\* What a listing showed as completed is kept by all that do not delete it.
LEMMA PromotionsKept ==
    ASSUME SharedInv, PromotionsInv, NEW c \in Calls, CallStep(c),
           \A q \in Promotions : /\ status[q] = "completed" => status'[q] = "completed"
                                 /\ status'[q] # "cancelled",
           \A d \in Calls \ {c} : listed'[d] = listed[d],
           \A q \in Promotions \cap rows :
               status[q] = "completed" /\ ~(At(c, "cancel", "write") /\ call[c].on = q) => q \in rows',
           At(c, "cancel", "write")' => status[call'[c].on] # "completed",
           call'[c].op = "listPromotions" =>
               /\ \A q \in call'[c].args : status'[q] = "completed"
               /\ call'[c].step = "ended" =>
                      /\ Went(c) /\ listed'[c].active \cap call'[c].args = {}
                      /\ call'[c].calm = "yes" =>
                             \A q \in listed'[c].completed : q \in rows' /\ status'[q] = "completed"
    PROVE  PromotionsFit'
<1>1. ASSUME NEW d \in Calls, call'[d].op = "listPromotions"
      PROVE  /\ \A q \in call'[d].args : status'[q] = "completed"
             /\ call'[d].step = "ended" => listed'[d].active \cap call'[d].args = {}
             /\ call'[d].step = "ended" /\ call'[d].calm = "yes" =>
                    \A q \in listed'[d].completed :
                        /\ q \in rows' /\ status'[q] = "completed"
                        /\ \A e \in Calls : At(e, "cancel", "write")' => call'[e].on # q
  <2>1. CASE d = c
    <3>1. ASSUME call'[c].step = "ended", call'[c].calm = "yes", NEW e \in Calls,
                 At(e, "cancel", "write")'
          PROVE  FALSE
      <4>1. Went(c) /\ e # c
        BY <1>1, <2>1, <3>1 DEF At
      <4>2. InFlight(e) /\ InFlight(c) /\ call[c].calm = "yes"
        BY <3>1, <4>1 DEF Went, At, InFlight, Active
      <4>3. QED
        BY <4>1, <4>2 DEF SharedInv, CalmFits
    <3>2. QED
      BY <1>1, <2>1, <3>1
  <2>2. CASE d # c
    <3>1. Kept(d) /\ call[d].op = "listPromotions" /\ listed'[d] = listed[d]
          /\ call \in [Calls -> CallRecord] /\ CallFits(d)
      BY <1>1, <2>2, CallsKeep DEF Kept, SharedInv, TypeOK, RequestsTypeOK, CallsFit
    <3>2. call[d].args \subseteq Promotions /\ listed[d].completed \subseteq Promotions
      BY <3>1 DEF CallFits, Arguments, PromotionsInv, CampaignsTypeOK
    <3>3. \A q \in call'[d].args : status'[q] = "completed"
      BY <3>1, <3>2 DEF PromotionsInv, PromotionsFit, Kept
    <3>4. call'[d].step = "ended" => listed'[d].active \cap call'[d].args = {}
      BY <3>1 DEF PromotionsInv, PromotionsFit, Kept
    <3>5. ASSUME call'[d].step = "ended", call'[d].calm = "yes", NEW q \in listed'[d].completed
          PROVE  /\ q \in rows' /\ status'[q] = "completed"
                 /\ \A e \in Calls : At(e, "cancel", "write")' => call'[e].on # q
      <4>1. call[d].step = "ended" /\ call[d].calm = "yes"
        <5>1. call[d].step = "ended" /\ call[d].step \in Over
          BY <3>1, <3>5 DEF Kept, Over
        <5>2. QED
          BY <3>5, <5>1, CallsKeep
      <4>2. /\ q \in Promotions /\ q \in rows /\ status[q] = "completed"
            /\ \A e \in Calls : At(e, "cancel", "write") => call[e].on # q
        BY <3>1, <3>2, <3>5, <4>1 DEF PromotionsInv, PromotionsFit
      <4>3. \A e \in Calls \ {c} : At(e, "cancel", "write")' => call'[e].on # q
        BY <4>2, CallsKeep DEF At, Kept
      <4>4. At(c, "cancel", "write")' => call'[c].on # q
        BY <4>2
      <4>5. q \in rows' /\ status'[q] = "completed"
        BY <4>2
      <4>6. QED
        BY <4>3, <4>4, <4>5
    <3>6. QED
      BY <3>3, <3>4, <3>5
  <2>3. QED
    BY <2>1, <2>2
<1>2. QED
  BY <1>1 DEF PromotionsFit

\* Requests of other kinds keep what is said of promotions.
LEMMA PromotionsForeign ==
    ASSUME SharedInv, PromotionsInv, NEW c \in Calls, CallStep(c), UNCHANGED campaignVars,
           rows \cap Promotions \subseteq rows',
           call'[c].op \in {"cancel", "listPromotions"} => Went(c) /\ call'[c].step = "dead"
    PROVE  PromotionsInv'
<1>1. UNCHANGED <<status, over, listed>>
  BY DEF campaignVars
<1>2. \A q \in Promotions : status[q] # "cancelled"
  BY DEF PromotionsInv, PromotionsFit
<1>3. call'[c].op = "listPromotions" =>
          call'[c].step # "ended" /\ \A q \in call'[c].args : status[q] = "completed"
  BY DEF PromotionsInv, PromotionsFit, Went
<1>4. ~At(c, "cancel", "write")'
  BY DEF At
<1>5. PromotionsFit'
  BY <1>1, <1>2, <1>3, <1>4, PromotionsKept
<1>6. QED
  BY <1>1, <1>5 DEF PromotionsInv, CampaignsTypeOK

\* What the steps of a promotion are to the other components.
CampaignShape(c) ==
    /\ CallStep(c) /\ RowStep /\ UNCHANGED notice
    /\ call'[c].op \in {"promote", "cancel", "listPromotions"}
    /\ call'[c].to \in {{}, call[c].to} /\ call'[c].step # "notify"
    /\ call'[c].step = "failed" => call'[c].calm = "no" /\ ~(Named(c)' \subseteq rows')
    /\ InFlight(c)' => rows \subseteq rows'
    /\ rows \ rows' \subseteq Promotions

\* No row refers to a promotion, so that any of them can be deleted.
LEMMA PromotionRowStep ==
    ASSUME SharedInv, rows' \subseteq rows, rows \ rows' \subseteq Promotions,
           UNCHANGED <<used, owner, within, parts>>
    PROVE  RowStep
<1>1. \A x \in used : within[x] \cap Promotions = {}
  BY RequestsAssumption DEF SharedInv, RowsFit
<1>2. rows \subseteq used /\ used \subseteq Things
  BY DEF SharedInv, TypeOK, RequestsTypeOK
<1>3. RowsFit'
  BY <1>1, <1>2 DEF SharedInv, RowsFit
<1>4. QED
  BY <1>2, <1>3 DEF RowStep, SharedInv, TypeOK, RequestsTypeOK

\* The statements that make a promotion keep what is said of promotions.
LEMMA PromoteSteps ==
    ASSUME SharedInv, PromotionsInv, NEW c \in Calls, PromoteFind(c) \/ Promote(c)
    PROVE  CampaignShape(c) /\ PromotionsInv'
<1> USE RequestsAssumption
<1>1. UNCHANGED <<status, over, listed>> /\ UNCHANGED notice
      /\ \A q \in Promotions : status[q] # "cancelled"
  BY DEF PromoteFind, Promote, campaignVars, PromotionsInv, PromotionsFit
<1>2. ASSUME CallStep(c), call'[c].op = "promote", rows \subseteq rows'
      PROVE  PromotionsInv'
  <2>1. PromotionsFit'
    BY <1>1, <1>2, PromotionsKept DEF At
  <2>2. QED
    BY <1>1, <2>1 DEF PromotionsInv, CampaignsTypeOK
<1>3. CASE PromoteFind(c)
  <2>1. PICK u \in Actors, x \in (Posts \cup Stories) \cap used :
            Begin(c, "promote", u, x, None, {}, 0, IF x \in rows /\ owner[x] = u THEN "write" ELSE "refused")
    BY <1>3 DEF PromoteFind
  <2>2. /\ "promote" \in Ops \ {"join"} /\ x \in Targets("promote") /\ u \in Users
        /\ None \in Details("promote") /\ {x, None} \cap Things \subseteq used'
        /\ {"write", "refused"} \subseteq FirstSteps("promote") /\ UNCHANGED contentVars
    BY <1>3 DEF Ops, Targets, Details, FirstSteps, Over, Things, PromoteFind, contentVars
  <2>3. /\ CallStep(c) /\ call'[c].op = "promote" /\ call'[c].to = {}
        /\ call'[c].step \in {"write", "refused"}
    <3>1. PICK step \in {"write", "refused"} : Begin(c, "promote", u, x, None, {}, 0, step)
      BY <2>1
    <3>2. QED
      BY <2>2, <3>1, BeginBare
  <2>4. QED
    BY <1>1, <1>2, <2>2, <2>3, NoRowStep DEF CampaignShape, contentVars
<1>4. CASE Promote(c)
  <2>1. PICK q \in Promotions : MakeRow(q, call[c].user, {}, {})
    BY <1>4 DEF Promote
  <2>2. /\ call[c].op = "promote" /\ call[c].step = "write" /\ InFlight(c) /\ Wrote(c, "created", {})
        /\ call[c].did = "nothing" /\ call[c].user \in Users /\ used \subseteq used' /\ rows \subseteq rows'
    BY <1>4, <2>1
       DEF Promote, At, InFlight, Active, SharedInv, CallsFit, CallFits, StepFits, TypeOK,
           RequestsTypeOK, CallRecord, MakeRow
  <2>3. /\ CallStep(c) /\ Went(c) /\ call'[c].step = "ended" /\ call'[c].to = {}
        /\ call'[c].op = "promote"
    BY <2>2, WroteFits DEF Went
  <2>4. RowStep
    <3>1. q \in Things /\ q \notin Comments /\ {} \in SUBSET rows /\ {} \in SUBSET Stories
      BY DEF Things
    <3>2. QED
      BY <2>1, <2>2, <3>1, MakeRowStep
  <2>5. QED
    BY <1>1, <1>2, <2>2, <2>3, <2>4 DEF CampaignShape
<1>5. QED
  BY <1>3, <1>4

\* The statements that list promotions keep what is said of them.
LEMMA ListSteps ==
    ASSUME SharedInv, PromotionsInv, NoticesFit, NEW c \in Calls,
           ListComplete(c) \/ ListSweep(c) \/ ListFind(c)
    PROVE  CampaignShape(c) /\ PromotionsInv'
<1> USE RequestsAssumption
<1>1. /\ UNCHANGED <<notice, over, used>> /\ status \in [Promotions -> Statuses]
      /\ over \subseteq Promotions
      /\ listed \in [Calls -> [active : SUBSET Promotions, completed : SUBSET Promotions]]
      /\ \A q \in Promotions : status[q] # "cancelled"
  BY DEF ListComplete, ListSweep, ListFind, contentVars, campaignVars, PromotionsInv, PromotionsFit,
         CampaignsTypeOK
<1>2. CASE ListComplete(c)
  <2>1. PICK u \in Actors :
            /\ Begin(c, "listPromotions", u, None, None, Lapsed(u), 0, "sweep")
            /\ status' = [q \in Promotions |-> IF q \in Lapsed(u) THEN "completed" ELSE status[q]]
    BY <1>2 DEF ListComplete
  <2>2. UNCHANGED contentVars /\ listed' = listed /\ rows' = rows
    BY <1>2 DEF ListComplete, contentVars
  <2>3. /\ "listPromotions" \in Ops \ {"join"} /\ None \in Targets("listPromotions") /\ u \in Users
        /\ None \in Details("listPromotions") /\ Lapsed(u) \in SUBSET Arguments("listPromotions")
        /\ "sweep" \in FirstSteps("listPromotions") /\ 0 \in Nat
        /\ Drawn(None, None, Lapsed(u))
    BY <1>1 DEF Ops, Targets, Details, Arguments, FirstSteps, Lapsed, OfUser, Drawn, SharedInv, TypeOK,
                RequestsTypeOK
  <2>4. Asked(c, "listPromotions", u, None, None, Lapsed(u), "sweep")
    BY <2>1, <2>3, BeginFits
  <2>5. /\ CallStep(c) /\ call'[c].op = "listPromotions" /\ call'[c].to = {} /\ call'[c].step = "sweep"
        /\ call'[c].args = Lapsed(u)
    BY <2>4 DEF Asked
  <2>6. /\ status' \in [Promotions -> Statuses]
        /\ \A q \in Promotions : /\ status[q] = "completed" => status'[q] = "completed"
                                 /\ status'[q] # "cancelled"
        /\ \A q \in Lapsed(u) : status'[q] = "completed"
    BY <1>1, <2>1 DEF Statuses, Lapsed, OfUser
  <2>7. PromotionsFit'
    BY <2>2, <2>5, <2>6, PromotionsKept DEF At
  <2>8. QED
    BY <1>1, <2>2, <2>5, <2>6, <2>7, NoRowStep DEF CampaignShape, PromotionsInv, CampaignsTypeOK
<1>3. CASE ListSweep(c)
  <2>1. /\ call[c].op = "listPromotions" /\ call[c].step = "sweep" /\ InFlight(c) /\ Goto(c, "list")
        /\ UNCHANGED <<used, owner, within, parts>> /\ UNCHANGED <<status, listed>>
    BY <1>3 DEF ListSweep, At, InFlight, Active, campaignVars
  <2>2. rows' = rows
    BY <1>1, <1>3 DEF ListSweep, OfUser
  <2>3. /\ CallStep(c) /\ Went(c) /\ call'[c].step = "list" /\ call'[c].to = call[c].to
        /\ call'[c].op = "listPromotions" /\ call'[c].args = call[c].args
    BY <2>1, GotoFits DEF Went
  <2>4. \A q \in call[c].args : status[q] = "completed"
    BY <2>1 DEF PromotionsInv, PromotionsFit
  <2>5. PromotionsFit'
    BY <1>1, <2>1, <2>2, <2>3, <2>4, PromotionsKept DEF At
  <2>6. QED
    BY <1>1, <2>1, <2>2, <2>3, <2>5, PromotionRowStep DEF CampaignShape, PromotionsInv, CampaignsTypeOK
<1>4. CASE ListFind(c)
  <2> DEFINE having(s) == {q \in OfUser(call[c].user) : status[q] = s}
             answer == [active |-> having("active"), completed |-> having("completed")]
  <2>1. /\ call[c].op = "listPromotions" /\ call[c].step = "list" /\ InFlight(c) /\ Goto(c, "ended")
        /\ UNCHANGED contentVars /\ rows' = rows /\ status' = status /\ used' = used
        /\ listed' = [listed EXCEPT ![c] = answer]
    BY <1>4 DEF ListFind, At, InFlight, Active, contentVars
  <2>2. /\ CallStep(c) /\ Went(c) /\ call'[c].step = "ended" /\ call'[c].to = call[c].to
        /\ call'[c].op = "listPromotions" /\ call'[c].args = call[c].args
    BY <2>1, GotoFits DEF Went, Over
  <2>3. \A q \in call[c].args : status[q] = "completed"
    BY <2>1 DEF PromotionsInv, PromotionsFit
  <2>4. /\ answer \in [active : SUBSET Promotions, completed : SUBSET Promotions]
        /\ answer.active \cap call[c].args = {}
        /\ \A q \in answer.completed : q \in rows /\ status[q] = "completed"
    BY <2>3 DEF OfUser
  <2> HIDE DEF answer
  <2>5. /\ listed'[c] = answer /\ \A d \in Calls \ {c} : listed'[d] = listed[d]
        /\ listed' \in [Calls -> [active : SUBSET Promotions, completed : SUBSET Promotions]]
    BY <1>1, <2>1, <2>4
  <2>6. PromotionsFit'
    BY <1>1, <2>1, <2>2, <2>3, <2>4, <2>5, PromotionsKept DEF At
  <2>7. QED
    BY <1>1, <2>1, <2>2, <2>5, <2>6, NoRowStep DEF CampaignShape, PromotionsInv, CampaignsTypeOK
<1>5. QED
  BY <1>2, <1>3, <1>4

\* The statements that cancel a promotion keep what is said of promotions.
LEMMA CancelSteps ==
    ASSUME SharedInv, PromotionsInv, NEW c \in Calls, CancelFind(c) \/ Cancel(c)
    PROVE  CampaignShape(c) /\ PromotionsInv'
<1> USE RequestsAssumption
<1>1. /\ UNCHANGED <<status, over, listed>> /\ UNCHANGED <<notice, used>>
      /\ \A q \in Promotions : status[q] # "cancelled"
  BY DEF CancelFind, BeginCancel, Cancel, contentVars, campaignVars, PromotionsInv, PromotionsFit
<1>2. CASE CancelFind(c)
  <2>1. PICK u \in Actors, q \in Promotions \cap used : BeginCancel(c, u, q, Statuses \ {"completed"})
    BY <1>2 DEF CancelFind
  <2>2. /\ "cancel" \in Ops \ {"join"} /\ q \in Targets("cancel") /\ u \in Users
        /\ None \in Details("cancel") /\ {q, None} \cap Things \subseteq used'
        /\ {"write", "refused"} \subseteq FirstSteps("cancel") /\ UNCHANGED contentVars /\ rows' = rows
    BY <1>1, <2>1 DEF Ops, Targets, Details, FirstSteps, Over, Things, BeginCancel, contentVars
  <2>3. PICK step \in {"write", "refused"} :
            /\ Begin(c, "cancel", u, q, None, {}, 0, step)
            /\ step = "write" => status[q] # "completed"
    BY <2>1 DEF BeginCancel
  <2>4. /\ CallStep(c) /\ call'[c].op = "cancel" /\ call'[c].to = {} /\ call'[c].step = step
        /\ call'[c].on = q
    BY <2>2, <2>3, BeginBare
  <2>5. PromotionsFit'
    BY <1>1, <2>2, <2>3, <2>4, PromotionsKept DEF At
  <2>6. QED
    BY <1>1, <2>2, <2>3, <2>4, <2>5, NoRowStep DEF CampaignShape, PromotionsInv, CampaignsTypeOK
<1>3. CASE Cancel(c)
  <2>1. /\ call[c].op = "cancel" /\ call[c].step = "write" /\ InFlight(c) /\ call[c].did = "nothing"
        /\ UNCHANGED <<used, owner, within, parts>> /\ used \subseteq used'
        /\ call[c].on \in Promotions /\ call[c].on \in Things /\ call[c].on \in Named(c)
        /\ IF call[c].on \in rows
           THEN rows' = rows \ {call[c].on} /\ Wrote(c, "deleted", {})
           ELSE Goto(c, "failed") /\ UNCHANGED rows
    BY <1>3 DEF Cancel, At, InFlight, Active, SharedInv, CallsFit, CallFits, StepFits, Targets, Named,
                Things
  <2>2. rows' \subseteq rows /\ rows \ rows' \subseteq {call[c].on}
    BY <2>1
  <2>3. /\ CallStep(c) /\ Went(c) /\ call'[c].step \in {"ended", "failed"} /\ call'[c].op = "cancel"
        /\ call'[c].to \in {{}, call[c].to} /\ Named(c)' = Named(c)
        /\ call'[c].step = "failed" => call[c].on \notin rows
    <3>1. CASE call[c].on \in rows
      <4>1. Wrote(c, "deleted", {})
        BY <2>1, <3>1
      <4>2. QED
        BY <2>1, <4>1, WroteFits DEF Went
    <3>2. CASE call[c].on \notin rows
      <4>1. Goto(c, "failed") /\ "failed" \in Over
        BY <2>1, <3>2 DEF Over
      <4>2. QED
        BY <2>1, <3>2, <4>1, GotoFits DEF Went
    <3>3. QED
      BY <3>1, <3>2
  <2>4. call'[c].step = "failed" => call'[c].calm = "no" /\ ~(Named(c)' \subseteq rows')
    <3>1. call'[c].step = "failed" => ~(Named(c) \subseteq rows)
      BY <2>1, <2>3
    <3>2. QED
      BY <2>1, <2>2, <2>3, <3>1, NotCalm DEF Went
  <2>5. PromotionsFit'
    BY <1>1, <2>1, <2>2, <2>3, PromotionsKept DEF At
  <2>6. ~InFlight(c)'
    BY <2>3 DEF InFlight, Active
  <2>7. QED
    BY <1>1, <2>1, <2>2, <2>3, <2>4, <2>5, <2>6, PromotionRowStep
       DEF CampaignShape, PromotionsInv, CampaignsTypeOK
<1>4. QED
  BY <1>2, <1>3

----------------------------------------------------------------------------
(* Notifications.                                                          *)
(***************************************************************************)
\* One step of NotificationsService, or the end of a call that dies: no notice
\* is lost, and no call writes anything more.
RequestShape(c) ==
    /\ CallStep(c) /\ UNCHANGED contentVars /\ notice' \subseteq NoticeRecord
    /\ NoticesOf(c)'
    /\ \A n \in notice' : n.call # c => \E m \in notice : Same(n, m)
    /\ \A m \in notice : \E n \in notice' : Same(n, m)
    /\ At(c, "markRead", "write")' =>
           \E n \in notice' : IdOf(n) = call'[c].on /\ n.post = call'[c].with
    /\ call'[c].step = "failed" => call'[c].calm = "no" /\ ~(Named(c)' \subseteq rows')
    /\ \/ Went(c) /\ call'[c].step = "dead" /\ call'[c].did = call[c].did
       \/ call'[c].op \in {"markRead", "markAllRead"}
       \/ /\ Went(c) /\ call'[c].did = call[c].did /\ call'[c].op \in TellingOps
          /\ call'[c].step \in {"notify", "findParent", "ended", "failed"}

\* A call that dies or fails is a step that every request has.
LEMMA StopShape ==
    ASSUME SharedInv, NoticesFit, NEW c \in Calls, InFlight(c), NEW step \in {"dead", "failed"},
           Goto(c, step), UNCHANGED <<contentVars, notice>>,
           step = "failed" => call[c].op \in TellingOps \cup {"markRead"} /\ ~(Named(c) \subseteq rows)
    PROVE  RequestShape(c)
<1>1. used \subseteq used' /\ step \in Over
  BY DEF contentVars, Over
<1>2. /\ CallStep(c) /\ Went(c) /\ call'[c].step = step /\ call'[c].with = call[c].with
      /\ call'[c].to = call[c].to /\ call'[c].did = call[c].did /\ Named(c)' = Named(c)
  BY <1>1, GotoFits
<1>3. RowStep
  BY <1>1, NoRowStep
<1>4. NoticesOf(c) /\ CallFits(c)
  BY DEF NoticesFit, SharedInv, CallsFit
<1>5. call'[c].op = call[c].op
  BY <1>2 DEF Went
<1>6. ASSUME NEW n \in notice, n.call = c
      PROVE  /\ call'[c].op \in TellingOps /\ call'[c].did = "created"
             /\ n.post = PostOf(c)' /\ <<n.to, n.kind>> \in Due(c)'
  <2>1. /\ call[c].op \in TellingOps /\ call[c].did = "created"
        /\ n.post = PostOf(c) /\ <<n.to, n.kind>> \in Due(c)
    BY <1>4, <1>6 DEF NoticesOf
  <2>2. QED
    BY <1>2, <1>3, <1>5, <2>1, DueSame
<1>7. call'[c].to \subseteq Due(c)' /\ \A n \in call'[c].to : n[2] = "reply" => call'[c].to = {n}
  <2>1. call[c].to \subseteq Due(c) /\ \A n \in call[c].to : n[2] = "reply" => call[c].to = {n}
    BY <1>4 DEF NoticesOf
  <2>2. CASE call[c].op \in TellingOps
    BY <1>2, <1>3, <2>1, <2>2, DueSame
  <2>3. CASE call[c].op \notin TellingOps
    <3>1. Due(c) = {}
      BY <2>3 DEF Due, Except, TellingOps
    <3>2. QED
      BY <1>2, <2>1, <3>1
  <2>4. QED
    BY <2>2, <2>3
<1>8. NoticesOf(c)'
  BY <1>2, <1>6, <1>7 DEF NoticesOf
<1>9. \A n \in notice : Same(n, n)
  BY DEF Same
<1>10. step = "failed" => call'[c].calm = "no" /\ ~(Named(c)' \subseteq rows')
  BY <1>2, NotCalm DEF Went, contentVars
<1>11. \/ Went(c) /\ call'[c].step = "dead" /\ call'[c].did = call[c].did
       \/ call'[c].op \in {"markRead", "markAllRead"}
       \/ /\ Went(c) /\ call'[c].did = call[c].did /\ call'[c].op \in TellingOps
          /\ call'[c].step \in {"notify", "findParent", "ended", "failed"}
  BY <1>2, <1>5
<1>12. notice' \subseteq NoticeRecord
  BY DEF SharedInv, TypeOK, RequestsTypeOK
<1>13. QED
  BY <1>2, <1>8, <1>9, <1>10, <1>11, <1>12 DEF RequestShape, At

\* The notice of a post that exists is written, the next is up; or the post is
\* gone and the call fails.
LEMMA NotifyFits ==
    ASSUME SharedInv, NoticesFit, NEW c \in Calls, NEW n \in call[c].to,
           call[c].step = "notify", UNCHANGED contentVars, PostOf(c) \in rows,
           notice' = notice \cup {[call |-> c, kind |-> n[2], to |-> n[1],
                                   post |-> PostOf(c), read |-> "no"]},
           call' = [call EXCEPT ![c].to = call[c].to \ {n}, ![c].step =
                        IF call[c].to \ {n} # {} THEN "notify"
                        ELSE IF n[2] # "reply" /\ IsReply(c) THEN "findParent"
                        ELSE "ended"]
    PROVE  RequestShape(c)
<1> DEFINE rest == call[c].to \ {n}
           step == IF rest # {} THEN "notify"
                   ELSE IF n[2] # "reply" /\ IsReply(c) THEN "findParent" ELSE "ended"
           rec == [call[c] EXCEPT !.to = rest, !.step = step]
           new == [call |-> c, kind |-> n[2], to |-> n[1], post |-> PostOf(c), read |-> "no"]
<1>1. /\ call[c] \in CallRecord /\ CallFits(c) /\ NoticesOf(c) /\ rows \subseteq Things
      /\ call \in [Calls -> CallRecord] /\ notice \subseteq NoticeRecord /\ used \subseteq used'
  BY DEF SharedInv, TypeOK, RequestsTypeOK, CallsFit, NoticesFit, contentVars
<1>2. /\ call[c].op \in TellingOps /\ call[c].did = "created"
      /\ n \in Users \X Kinds /\ call[c].to \in SUBSET (Users \X Kinds)
  BY <1>1 DEF CallFits, StepFits, CallRecord
<1>3. step \in {"notify", "findParent", "ended"} /\ step \in Active \cup Over
  BY DEF Active, Over
<1>4. /\ rec \in CallRecord /\ rec.op = call[c].op /\ rec.step = step /\ rec.user = call[c].user
      /\ rec.on = call[c].on /\ rec.with = call[c].with /\ rec.args = call[c].args
      /\ rec.to = rest /\ rec.did = call[c].did /\ rec.calm = call[c].calm
  <2>1. call[c] \in CallRecord /\ rest \in SUBSET (Users \X Kinds) /\ step \in Active \cup Over
    BY <1>1, <1>2, <1>3
  <2> DEFINE q == [call[c] EXCEPT !.to = rest]
  <2> HIDE DEF step, rest
  <2>2. q \in CallRecord
    BY <2>1 DEF CallRecord
  <2>3. [q EXCEPT !.step = step] \in CallRecord
    <3> HIDE DEF q
    <3>1. QED
      BY <2>1, <2>2 DEF CallRecord
  <2>4. rec = [q EXCEPT !.step = step]
    BY <2>1 DEF CallRecord
  <2>5. /\ rec.op = call[c].op /\ rec.step = step /\ rec.user = call[c].user
        /\ rec.on = call[c].on /\ rec.with = call[c].with /\ rec.args = call[c].args
        /\ rec.to = rest /\ rec.did = call[c].did /\ rec.calm = call[c].calm
    BY <2>1 DEF CallRecord
  <2> HIDE DEF q, rec
  <2>6. QED
    BY <2>3, <2>4, <2>5
<1>5. call' \in [Calls -> CallRecord] /\ call'[c] = rec /\ \A d \in Calls \ {c} : call'[d] = call[d]
  <2> HIDE DEF step
  <2>1. call' = [call EXCEPT ![c] = rec]
    BY DEF step
  <2> HIDE DEF rec
  <2>2. QED
    BY ZenonT(30), <1>1, <1>4, <2>1
<1> HIDE DEF rec
<1>6. InFlight(c)
  BY DEF InFlight, Active
<1>7. Went(c)
  BY <1>3, <1>4, <1>5, <1>6 DEF Went
<1>8. step = "findParent" => call[c].op = "comment" /\ call[c].with # None
  BY DEF IsReply
<1> HIDE DEF step
<1>9. StepFits(c)'
  BY <1>1, <1>2, <1>3, <1>4, <1>5, <1>8 DEF StepFits, CallFits, TellingOps
<1>10. CallStep(c)
  <2>1. CallFits(c)'
    BY <1>1, <1>4, <1>5, <1>7, <1>9, GoingFits
  <2>2. QED
    BY <1>5, <1>7, <2>1 DEF CallStep
<1>11. RowStep
  BY NoRowStep
<1>12. /\ Due(c)' = Due(c) /\ PostOf(c)' = PostOf(c) /\ Named(c)' = Named(c) /\ rows' = rows
       /\ call[c].op = "comment" => Except(call[c].user, {<<owner[call[c].with], "reply">>})'
                                     = Except(call[c].user, {<<owner[call[c].with], "reply">>})
                                     \/ call[c].with = None
  <2>1. call'[c].with = call[c].with
    BY <1>4, <1>5
  <2>2. Named(c)' = Named(c) /\ rows' = rows
    BY <1>4, <1>5 DEF Named, contentVars
  <2>3. QED
    BY <1>2, <1>10, <1>11, <2>1, <2>2, DueSame
<1>13. PostOf(c) \in Posts
  <2>1. call[c].on \in used /\ call[c].on \in Posts \cup Comments
    BY <1>1, <1>2 DEF CallFits, Targets, TellingOps, Named, Things
  <2>2. CASE call[c].on \in Posts
    BY <2>2 DEF PostOf
  <2>3. CASE call[c].on \notin Posts
    <3>1. within[call[c].on] \cap Posts # {}
      BY <2>1, <2>3 DEF SharedInv, RowsFit
    <3>2. QED
      BY <2>3, <3>1 DEF PostOf
  <2>4. QED
    BY <2>2, <2>3
<1>14. /\ new \in NoticeRecord /\ new.call = c /\ new.post = PostOf(c) /\ <<new.to, new.kind>> = n
  BY <1>2, <1>13 DEF NoticeRecord
<1>15. notice' = notice \cup {new}
  OBVIOUS
<1> HIDE DEF new
<1>16. notice' \subseteq NoticeRecord
  BY <1>1, <1>14, <1>15
<1>17. Sent(c)' = Sent(c) \cup {n}
  BY <1>14, <1>15 DEF Sent
<1>18. NoticesOf(c)'
  <2>1. ASSUME NEW m \in notice', m.call = c
        PROVE  /\ call'[c].op \in TellingOps /\ call'[c].did = "created"
               /\ m.post = PostOf(c)' /\ <<m.to, m.kind>> \in Due(c)'
    <3>1. call'[c].op \in TellingOps /\ call'[c].did = "created"
      BY <1>2, <1>4, <1>5
    <3>2. CASE m = new
      BY <1>1, <1>12, <1>14, <3>1, <3>2 DEF NoticesOf
    <3>3. CASE m \in notice
      BY <1>1, <1>12, <2>1, <3>1, <3>3 DEF NoticesOf
    <3>4. QED
      BY <1>15, <3>2, <3>3
  <2>2. call'[c].to \subseteq Due(c)' /\ \A m \in call'[c].to : m[2] = "reply" => call'[c].to = {m}
    <3>1. call[c].to \subseteq Due(c) /\ \A m \in call[c].to : m[2] = "reply" => call[c].to = {m}
      BY <1>1 DEF NoticesOf
    <3>2. \A m \in rest : m \in call[c].to /\ m # n
      OBVIOUS
    <3>3. \A m \in rest : m[2] # "reply"
      BY <3>1, <3>2
    <3>4. call'[c].to = rest
      BY <1>4, <1>5
    <3>5. QED
      BY <1>12, <3>1, <3>2, <3>3, <3>4
  <2>3. call'[c].step \notin {"notify", "failed", "dead"} => call'[c].to = {}
    BY <1>4, <1>5 DEF step
  <2>4. ASSUME Named(c)' \subseteq rows'
        PROVE  Due(c)' = Sent(c)' \cup call'[c].to \cup Pending(c)'
    <3>1. Due(c) = Sent(c) \cup call[c].to \cup Pending(c)
      BY <1>1, <1>2, <1>12, <2>4 DEF NoticesOf
    <3>2. Pending(c)' = Pending(c)
      <4>1. IsReply(c)' <=> IsReply(c)
        BY <1>4, <1>5 DEF IsReply
      <4>2. CASE ~IsReply(c)
        BY <4>1, <4>2 DEF Pending
      <4>3. CASE IsReply(c) /\ n[2] = "reply"
        <5>1. rest = {} /\ step = "ended"
          BY <1>1, <4>3 DEF NoticesOf, step
        <5>2. Pending(c) = {}
          BY <4>3 DEF Pending
        <5>3. Pending(c)' = {}
          BY <1>4, <1>5, <5>1 DEF Pending
        <5>4. QED
          BY <5>2, <5>3
      <4>4. CASE IsReply(c) /\ n[2] # "reply"
        <5>1. \A m \in call[c].to : m[2] # "reply"
          BY <1>1, <4>4 DEF NoticesOf
        <5>2. Pending(c) = Except(call[c].user, {<<owner[call[c].with], "reply">>})
          BY <4>4, <5>1 DEF Pending
        <5>3. step \in {"notify", "findParent"}
          BY <4>4 DEF step
        <5>4. \/ call'[c].step = "findParent"
              \/ call'[c].step = "notify" /\ \A m \in call'[c].to : m[2] # "reply"
          BY <1>4, <1>5, <5>1, <5>3
        <5>5. Pending(c)' = Except(call[c].user, {<<owner[call[c].with], "reply">>})'
          BY <1>4, <1>5, <4>1, <4>4, <5>4 DEF Pending, Except
        <5>6. QED
          BY <1>12, <4>4, <5>2, <5>5 DEF IsReply
      <4>5. QED
        BY <4>2, <4>3, <4>4
    <3>3. call'[c].to = rest /\ call[c].to = rest \cup {n}
      BY <1>4, <1>5
    <3> HIDE DEF rest
    <3>4. QED
      BY <1>12, <1>17, <3>1, <3>2, <3>3
  <2>5. QED
    BY <2>1, <2>2, <2>3, <2>4 DEF NoticesOf
<1>19. /\ \A m \in notice' : m.call # c => \E k \in notice : Same(m, k)
       /\ \A m \in notice : \E k \in notice' : Same(k, m)
  BY <1>14, <1>15 DEF Same
<1>20. call'[c].step \notin {"failed", "write"}
  BY <1>3, <1>4, <1>5
<1>21. call'[c].op \in TellingOps /\ call'[c].did = call[c].did
       /\ call'[c].step \in {"notify", "findParent", "ended", "failed"}
  BY <1>2, <1>3, <1>4, <1>5
<1>22. QED
  BY <1>7, <1>10, <1>16, <1>18, <1>19, <1>20, <1>21 DEF RequestShape, At

\* Telling somebody, or dying before it, is a step that every request has.
LEMMA NotifyShape ==
    ASSUME SharedInv, NoticesFit, NEW c \in Calls, Notify(c) \/ CallDies(c)
    PROVE  RequestShape(c)
<1>1. UNCHANGED contentVars
  BY DEF Notify, CallDies
<1>2. ASSUME CallDies(c)
      PROVE  RequestShape(c)
  BY <1>2, StopShape DEF CallDies
<1>3. ASSUME Notify(c), PostOf(c) \notin rows
      PROVE  RequestShape(c)
  <2>1. call[c].step = "notify" /\ Goto(c, "failed") /\ UNCHANGED notice
    BY <1>3 DEF Notify
  <2>2. InFlight(c) /\ call[c].op \in TellingOps
    BY <2>1 DEF InFlight, Active, SharedInv, CallsFit, CallFits, StepFits
  <2>3. ~(Named(c) \subseteq rows)
    BY <1>3, <2>2, PostGone
  <2>4. QED
    BY <1>1, <2>1, <2>2, <2>3, StopShape
<1>4. ASSUME Notify(c), PostOf(c) \in rows
      PROVE  RequestShape(c)
  <2>1. PICK n \in call[c].to :
            /\ notice' = notice \cup {[call |-> c, kind |-> n[2], to |-> n[1],
                                       post |-> PostOf(c), read |-> "no"]}
            /\ call' = [call EXCEPT ![c].to = call[c].to \ {n}, ![c].step =
                            IF call[c].to \ {n} # {} THEN "notify"
                            ELSE IF n[2] # "reply" /\ IsReply(c) THEN "findParent"
                            ELSE "ended"]
    BY <1>4 DEF Notify
  <2>2. call[c].step = "notify"
    BY <1>4 DEF Notify
  <2>3. QED
    BY <1>1, <1>4, <2>1, <2>2, NotifyFits
<1>5. QED
  BY <1>2, <1>3, <1>4

\* A notice that was read is the same notice.
LEMMA ReadSame ==
    ASSUME NEW n \in NoticeRecord
    PROVE  /\ Read(n) \in NoticeRecord /\ Same(Read(n), n) /\ Same(n, Read(n)) /\ Same(n, n)
           /\ IdOf(Read(n)) = IdOf(n) /\ Read(n).post = n.post
           /\ IdOf(n) \in NoticeId /\ n.to \in Users /\ n.post \in Posts /\ n.call \in Calls
BY DEF Read, NoticeRecord, Same, IdOf, NoticeId

\* Finding a notice is a step that every request has.
LEMMA MarkReadFindShape ==
    ASSUME SharedInv, NoticesFit, NEW c \in Calls, MarkReadFind(c)
    PROVE  RequestShape(c)
<1>1. PICK n \in notice : Begin(c, "markRead", n.to, IdOf(n), n.post, {}, 1, "write")
  BY DEF MarkReadFind
<1>2. UNCHANGED <<contentVars, notice>> /\ notice \subseteq NoticeRecord
  BY DEF MarkReadFind, SharedInv, TypeOK, RequestsTypeOK
<1>3. /\ IdOf(n) \in NoticeId /\ n.to \in Users /\ n.post \in Posts /\ n.call \in Calls
  BY <1>2, ReadSame
<1>4. n.post \in used
  <2> DEFINE d == n.call
  <2>1. NoticesOf(d) /\ CallFits(d)
    BY <1>3 DEF NoticesFit, SharedInv, CallsFit
  <2>2. n.post = PostOf(d) /\ call[d].op \in TellingOps
    BY <2>1 DEF NoticesOf
  <2>3. call[d].on \in used /\ call[d].on \in Posts \cup Comments
    BY <2>1, <2>2 DEF CallFits, Targets, TellingOps, Named, Things
  <2>4. CASE call[d].on \in Posts
    BY <2>2, <2>3, <2>4 DEF PostOf
  <2>5. CASE call[d].on \notin Posts
    <3>1. within[call[d].on] \cap Posts # {} /\ within[call[d].on] \subseteq used
      BY <2>3, <2>5 DEF SharedInv, RowsFit
    <3>2. QED
      BY <2>2, <2>5, <3>1 DEF PostOf
  <2>6. QED
    BY <2>4, <2>5
<1>5. Asked(c, "markRead", n.to, IdOf(n), n.post, {}, "write")
  <2>1. /\ "markRead" \in Ops \ {"join"} /\ IdOf(n) \in Targets("markRead")
        /\ n.post \in Details("markRead") /\ {} \in SUBSET Arguments("markRead") /\ 1 \in Nat
        /\ "write" \in FirstSteps("markRead")
    BY <1>3 DEF Ops, Targets, Details, FirstSteps
  <2>2. Drawn(IdOf(n), n.post, {})
    BY <1>2, <1>3, <1>4, RequestsAssumption DEF Drawn, contentVars
  <2>3. QED
    BY <1>1, <1>3, <2>1, <2>2, BeginFits
<1>6. /\ CallStep(c) /\ call'[c].op = "markRead" /\ call'[c].on = IdOf(n) /\ call'[c].with = n.post
      /\ call'[c].step = "write" /\ call'[c].to = {} /\ call'[c].did = "nothing"
  BY <1>5 DEF Asked
<1>7. \A m \in notice' : \E k \in notice : Same(m, k)
  BY <1>2 DEF Same
<1>8. NoticesOf(c)'
  BY <1>6, <1>7, NoticesQuiet
<1>9. \A m \in notice : \E k \in notice' : Same(k, m)
  BY <1>2 DEF Same
<1>10. IdOf(n) = call'[c].on /\ n.post = call'[c].with /\ n \in notice'
  BY <1>2, <1>6
<1>11. QED
  BY <1>2, <1>6, <1>7, <1>8, <1>9, <1>10 DEF RequestShape

\* Marking a notice as read is a step that every request has.
LEMMA MarkReadShape ==
    ASSUME SharedInv, NoticesFit, ReadsFit, NEW c \in Calls, MarkRead(c) \/ MarkAllRead(c)
    PROVE  RequestShape(c)
<1>1. UNCHANGED contentVars /\ notice \subseteq NoticeRecord /\ used \subseteq used'
  BY DEF MarkRead, MarkAllRead, SharedInv, TypeOK, RequestsTypeOK, contentVars
<1>2. \A n \in notice : /\ Read(n) \in NoticeRecord /\ Same(Read(n), n) /\ Same(n, Read(n))
                        /\ Same(n, n)
  BY <1>1, ReadSame
<1>3. ASSUME MarkRead(c)
      PROVE  RequestShape(c)
  <2> DEFINE found == {n \in notice : IdOf(n) = call[c].on}
  <2>1. /\ call[c].op = "markRead" /\ call[c].step = "write" /\ InFlight(c)
        /\ notice' = (notice \ found) \cup {Read(n) : n \in found}
    BY <1>3 DEF MarkRead, At, InFlight, Active
  <2>2. /\ notice' \subseteq NoticeRecord /\ \A m \in notice' : \E k \in notice : Same(m, k)
        /\ \A m \in notice : \E k \in notice' : Same(k, m)
    <3>1. notice' \subseteq NoticeRecord /\ \A m \in notice' : \E k \in notice : Same(m, k)
      BY <1>1, <1>2, <2>1
    <3>2. ASSUME NEW m \in notice
          PROVE  \E k \in notice' : Same(k, m)
      <4>1. m \in notice' \/ Read(m) \in notice'
        BY <2>1
      <4>2. QED
        BY <1>2, <4>1
    <3>3. QED
      BY <3>1, <3>2
  <2>3. NoticesOf(c) /\ CallFits(c)
    BY DEF NoticesFit, SharedInv, CallsFit
  <2>4. call[c].to = {} /\ call[c].did = "nothing"
    BY <2>1, <2>3 DEF NoticesOf, CallFits, StepFits
  <2>5. CASE found # {}
    <3>1. Wrote(c, "moved", {})
      BY <1>3, <2>5 DEF MarkRead
    <3>2. /\ CallStep(c) /\ Went(c) /\ call'[c].step = "ended" /\ call'[c].to = {}
      <4>1. "moved" \in {"created", "moved", "deleted"} /\ {} \in SUBSET (Users \X Kinds)
        OBVIOUS
      <4>2. QED
        BY <1>1, <2>1, <2>4, <3>1, <4>1, WroteFits
    <3>3. call'[c].op = "markRead"
      BY <2>1, <3>2 DEF Went
    <3>4. NoticesOf(c)'
      BY <2>2, <3>2, <3>3, NoticesQuiet DEF TellingOps
    <3>5. QED
      BY <1>1, <2>2, <3>2, <3>3, <3>4 DEF RequestShape, At
  <2>6. CASE found = {}
    <3>1. Goto(c, "failed") /\ UNCHANGED notice
      BY <1>3, <2>1, <2>6 DEF MarkRead
    <3>2. call[c].with \notin rows
      BY <2>1, <2>6 DEF ReadsFit, At
    <3>3. call[c].with \in Posts
      BY <2>1, <2>3 DEF CallFits, Details
    <3>4. ~(Named(c) \subseteq rows)
      BY <3>2, <3>3 DEF Named, Things
    <3>5. QED
      BY <1>1, <2>1, <3>1, <3>4, StopShape
  <2>7. QED
    BY <2>5, <2>6
<1>4. ASSUME MarkAllRead(c)
      PROVE  RequestShape(c)
  <2>1. PICK u \in Actors :
            /\ Begin(c, "markAllRead", u, None, None, {}, 0, "ended")
            /\ notice' = {IF n.to = u THEN Read(n) ELSE n : n \in notice}
    BY <1>4 DEF MarkAllRead
  <2>2. /\ notice' \subseteq NoticeRecord /\ \A m \in notice' : \E k \in notice : Same(m, k)
    BY <1>1, <1>2, <2>1
  <2>3. ASSUME NEW m \in notice
        PROVE  \E k \in notice' : Same(k, m)
    <3>1. m \in notice' \/ Read(m) \in notice'
      BY <2>1
    <3>2. QED
      BY <1>2, <3>1
  <2>4. /\ CallStep(c) /\ call'[c].op = "markAllRead" /\ call'[c].step = "ended"
        /\ call'[c].to = {} /\ call'[c].did = "nothing"
    <3>1. /\ "markAllRead" \in Ops \ {"join"} /\ None \in Targets("markAllRead")
          /\ None \in Details("markAllRead") /\ "ended" \in FirstSteps("markAllRead") /\ u \in Users
      BY RequestsAssumption DEF Ops, Targets, Details, FirstSteps, Over
    <3>2. {None, None} \cap Things \subseteq used'
      BY RequestsAssumption
    <3>3. QED
      BY <2>1, <3>1, <3>2, BeginBare
  <2>5. NoticesOf(c)'
    BY <2>2, <2>4, NoticesQuiet
  <2>6. QED
    BY <1>1, <2>2, <2>3, <2>4, <2>5 DEF RequestShape, At
<1>5. QED
  BY <1>3, <1>4

\* All statements about notices are steps that every request has.
LEMMA RequestShapes ==
    ASSUME SharedInv, NoticesFit, ReadsFit, NEW c \in Calls, RequestsStep(c)
    PROVE  RequestShape(c)
BY NotifyShape, MarkReadFindShape, MarkReadShape DEF RequestsStep

\* A notice that is about to be read stays while its post does.
LEMMA ReadsKept ==
    ASSUME SharedInv, ReadsFit, NEW c \in Calls, CallStep(c), RowStep,
           \A m \in notice : m.post \notin rows' \/ \E n \in notice' : Same(n, m),
           At(c, "markRead", "write")' =>
               \E n \in notice' : IdOf(n) = call'[c].on /\ n.post = call'[c].with
    PROVE  ReadsFit'
<1> SUFFICES ASSUME NEW d \in Calls, At(d, "markRead", "write")'
             PROVE  \/ \E n \in notice' : IdOf(n) = call'[d].on /\ n.post = call'[d].with
                    \/ call'[d].with \notin rows'
  BY DEF ReadsFit, IdOf, At
<1>1. CASE d = c
  BY <1>1
<1>2. CASE d # c
  <2>1. Kept(d) /\ At(d, "markRead", "write")
    BY <1>2, CallsKeep DEF At, Kept
  <2>2. call'[d].on = call[d].on /\ call'[d].with = call[d].with
    BY <2>1 DEF Kept
  <2>3. call[d].with \in used
    <3>1. CallFits(d) /\ call[d].op = "markRead"
      BY <2>1 DEF SharedInv, CallsFit, At
    <3>2. QED
      BY <3>1 DEF CallFits, Details, Named, Things
  <2>4. CASE call[d].with \notin rows
    BY <2>2, <2>3, <2>4, GoneStays
  <2>5. ASSUME NEW m \in notice, IdOf(m) = call[d].on, m.post = call[d].with, call[d].with \in rows'
        PROVE  \E n \in notice' : IdOf(n) = call'[d].on /\ n.post = call'[d].with
    <3>1. PICK n \in notice' : Same(n, m)
      BY <2>5
    <3>2. IdOf(n) = IdOf(m) /\ n.post = m.post
      BY <3>1 DEF Same, IdOf
    <3>3. QED
      BY <2>2, <2>5, <3>2
  <2>6. QED
    BY <2>1, <2>2, <2>4, <2>5 DEF ReadsFit
<1>3. QED
  BY <1>1, <1>2

----------------------------------------------------------------------------
(* The invariant.                                                          *)
(***************************************************************************)
LEMMA InvParts ==
    /\ EngagementInv <=> /\ SharedInv /\ MarksInv /\ ReadsFit /\ FailsByRaceOnly
                         /\ NoticesFit /\ SalesInv /\ PromotionsInv
    /\ EngagementInv' <=> /\ SharedInv' /\ MarksInv' /\ ReadsFit' /\ FailsByRaceOnly'
                          /\ NoticesFit' /\ SalesInv' /\ PromotionsInv'
BY DEF EngagementInv, SharedInv, TypeOK, MarksInv, SalesInv, PromotionsInv

\* Requests for marks keep the invariant.
LEMMA MarksKeep ==
    ASSUME EngagementInv, NEW c \in Calls, MarksStep(c), UNCHANGED saleVars
    PROVE  EngagementInv'
<1>1. /\ SharedInv /\ MarksInv /\ ReadsFit /\ FailsByRaceOnly /\ NoticesFit /\ SalesInv
      /\ PromotionsInv /\ MarksFit
  BY InvParts DEF MarksInv
<1>2. MarkShape(c)
  BY <1>1, MarksShape
<1>3. CallStep(c) /\ RowStep /\ MarksTypeOK' /\ MarksFit'
  BY <1>1, <1>2, MarkShapeRows
<1>4. /\ UNCHANGED contentVars /\ UNCHANGED notice /\ UNCHANGED purchaseVars /\ UNCHANGED campaignVars
      /\ call'[c].op \in MarkOps /\ rows' = rows /\ purchase' = purchase
  BY <1>2 DEF MarkShape, saleVars, purchaseVars, contentVars
<1>5. notice \subseteq NoticeRecord /\ notice' \subseteq NoticeRecord
  BY <1>1, <1>4 DEF SharedInv, TypeOK, RequestsTypeOK
<1>6. RequestsTypeOK' /\ RowsFit' /\ CallsFit' /\ CalmFits'
  BY <1>1, <1>3, <1>4, <1>5, SharedKept
<1>7. MarksInv'
  BY <1>1, <1>2, <1>3, MarkShapeLooks, MarkShapeBalances DEF MarksInv
<1>8. ReadsFit'
  <2>1. \A m \in notice : m.post \notin rows' \/ \E n \in notice' : Same(n, m)
    BY <1>4 DEF Same
  <2>2. ~At(c, "markRead", "write")'
    BY <1>4 DEF At, MarkOps
  <2>3. QED
    BY <1>1, <1>3, <2>1, <2>2, ReadsKept
<1>9. FailsByRaceOnly'
  BY <1>1, <1>2, <1>3, <1>4, MarkShapeFails, FailuresKept
<1>10. NoticesFit'
  BY <1>1, <1>2, <1>3, <1>5, <1>6, MarkShapeNotices, NoticesKept
<1>11. SalesInv'
  BY <1>1, <1>3, <1>4, SalesForeign DEF MarkOps
<1>12. PromotionsInv'
  BY <1>1, <1>3, <1>4, PromotionsForeign DEF MarkOps
<1>13. SharedInv'
  BY <1>6, <1>7, <1>11, <1>12 DEF SharedInv, TypeOK, MarksInv, SalesInv, PromotionsInv
<1>14. QED
  BY <1>7, <1>8, <1>9, <1>10, <1>11, <1>12, <1>13, InvParts

\* Requests for content keep the invariant.
LEMMA LibraryKeeps ==
    ASSUME EngagementInv, NEW c \in Calls, LibraryStep(c), ForeignKeys, UNCHANGED saleVars
    PROVE  EngagementInv'
<1>1. /\ SharedInv /\ MarksInv /\ ReadsFit /\ FailsByRaceOnly /\ NoticesFit /\ SalesInv
      /\ PromotionsInv
  BY InvParts
<1>2. LibraryShape(c)
  BY <1>1, LibraryShapes
<1>3. /\ CallStep(c) /\ RowStep /\ call'[c].op \in LibraryOps
      /\ notice' \subseteq notice /\ \A n \in notice \ notice' : n.post \notin rows'
      /\ InFlight(c)' => rows \subseteq rows'
      /\ rows \cap Promotions \subseteq rows'
      /\ call'[c].step = "failed" => call'[c].calm = "no" /\ ~(Named(c)' \subseteq rows')
  BY <1>2 DEF LibraryShape
<1>4. UNCHANGED purchaseVars /\ UNCHANGED campaignVars /\ purchase' = purchase
  BY DEF saleVars, purchaseVars
<1>5. notice \subseteq NoticeRecord /\ notice' \subseteq NoticeRecord
  BY <1>1, <1>3 DEF SharedInv, TypeOK, RequestsTypeOK
<1>6. RequestsTypeOK' /\ RowsFit' /\ CallsFit' /\ CalmFits'
  BY <1>1, <1>3, <1>5, SharedKept
<1>7. MarksInv'
  BY <1>1, <1>3, <1>6, ForeignKeysFit, MarksForeign DEF MarkOps, LibraryOps
<1>8. ReadsFit'
  <2>1. \A m \in notice : m.post \notin rows' \/ \E n \in notice' : Same(n, m)
    BY <1>3 DEF Same
  <2>2. ~At(c, "markRead", "write")'
    BY <1>3 DEF At, LibraryOps
  <2>3. QED
    BY <1>1, <1>3, <2>1, <2>2, ReadsKept
<1>9. FailsByRaceOnly'
  BY <1>1, <1>3, <1>4, FailuresKept
<1>10. NoticesFit'
  BY <1>1, <1>2, <1>3, <1>5, <1>6, LibraryShapeNotices, NoticesKept
<1>11. SalesInv'
  BY <1>1, <1>3, <1>4, SalesForeign DEF LibraryOps
<1>12. PromotionsInv'
  BY <1>1, <1>3, <1>4, PromotionsForeign DEF LibraryOps
<1>13. SharedInv'
  BY <1>6, <1>7, <1>11, <1>12 DEF SharedInv, TypeOK, MarksInv, SalesInv, PromotionsInv
<1>14. QED
  BY <1>7, <1>8, <1>9, <1>10, <1>11, <1>12, <1>13, InvParts

\* A step of a call that neither sends a notice nor is about one.
LEMMA NoNoticeKeeps ==
    ASSUME SharedInv, NoticesFit, ReadsFit, NEW c \in Calls, CallStep(c), RowStep, RowsFit',
           UNCHANGED notice, call'[c].op \notin TellingOps \cup {"markRead"},
           call'[c].to \in {{}, call[c].to}, call'[c].step # "notify"
    PROVE  NoticesFit' /\ ReadsFit'
<1>1. notice \subseteq NoticeRecord /\ notice' \subseteq NoticeRecord
  BY DEF SharedInv, TypeOK, RequestsTypeOK
<1>2. /\ \A n \in notice' : \E m \in notice : Same(n, m)
      /\ \A m \in notice : \E n \in notice' : Same(n, m)
  BY DEF Same
<1>3. call'[c].to = {}
  <2>1. NoticesOf(c) /\ CallFits(c)
    BY DEF NoticesFit, SharedInv, CallsFit
  <2>2. CASE call[c].op \in TellingOps
    <3>1. call[c].step = "unused"
      BY <2>2, CallsKeep
    <3>2. QED
      BY <2>1, <3>1 DEF NoticesOf
  <2>3. CASE call[c].op \notin TellingOps
    <3>1. Due(c) = {}
      BY <2>3 DEF Due, Except, TellingOps
    <3>2. QED
      BY <2>1, <3>1 DEF NoticesOf
  <2>4. QED
    BY <2>2, <2>3
<1>4. NoticesOf(c)'
  BY <1>2, <1>3, NoticesQuiet
<1>5. OthersNotices(c)
  BY <1>2 DEF OthersNotices
<1>6. NoticesFit'
  BY <1>1, <1>4, <1>5, NoticesKept
<1>7. ~At(c, "markRead", "write")'
  BY DEF At
<1>8. ReadsFit'
  BY <1>2, <1>7, ReadsKept
<1>9. QED
  BY <1>6, <1>8

\* Requests for sales keep the invariant.
LEMMA SalesKeep ==
    ASSUME EngagementInv, NEW c \in Calls, SaleShape(c), SalesInv', UNCHANGED <<markVars, campaignVars>>
    PROVE  EngagementInv'
<1>1. /\ SharedInv /\ MarksInv /\ ReadsFit /\ FailsByRaceOnly /\ NoticesFit /\ PromotionsInv
  BY InvParts
<1>2. /\ CallStep(c) /\ UNCHANGED contentVars /\ UNCHANGED notice
      /\ call'[c].op \in {"connect", "checkout"}
      /\ call'[c].to \in {{}, call[c].to} /\ call'[c].step # "notify"
      /\ call'[c].step = "failed" => call'[c].op = "checkout" /\ purchase'[Sale(c)'] # "none"
      /\ \A s \in Sales : purchase[s] # "none" => purchase'[s] # "none"
  BY DEF SaleShape
<1>3. RowStep /\ rows' = rows
  BY <1>1, <1>2, NoRowStep DEF contentVars
<1>4. notice' \subseteq NoticeRecord
  BY <1>1, <1>2 DEF SharedInv, TypeOK, RequestsTypeOK
<1>5. RequestsTypeOK' /\ RowsFit' /\ CallsFit' /\ CalmFits'
  BY <1>1, <1>2, <1>3, <1>4, SharedKept
<1>6. MarksInv'
  BY <1>1, <1>2, <1>3, <1>5, NoForeignKeysFit, MarksForeign DEF MarkOps
<1>7. NoticesFit' /\ ReadsFit'
  BY <1>1, <1>2, <1>3, <1>5, NoNoticeKeeps DEF TellingOps
<1>8. FailsByRaceOnly'
  BY <1>1, <1>2, <1>3, FailuresKept
<1>9. PromotionsInv'
  BY <1>1, <1>2, <1>3, PromotionsForeign
<1>10. SharedInv'
  BY <1>5, <1>6, <1>9 DEF SharedInv, TypeOK, MarksInv, SalesInv, PromotionsInv
<1>11. QED
  BY <1>6, <1>7, <1>8, <1>9, <1>10, InvParts

\* Requests for promotions keep the invariant.
LEMMA CampaignsKeep ==
    ASSUME EngagementInv, NEW c \in Calls, CampaignShape(c), PromotionsInv',
           UNCHANGED <<markVars, purchaseVars>>
    PROVE  EngagementInv'
<1>1. /\ SharedInv /\ MarksInv /\ ReadsFit /\ FailsByRaceOnly /\ NoticesFit /\ SalesInv
  BY InvParts
<1>2. /\ CallStep(c) /\ RowStep /\ UNCHANGED notice
      /\ call'[c].op \in {"promote", "cancel", "listPromotions"}
      /\ call'[c].to \in {{}, call[c].to} /\ call'[c].step # "notify"
      /\ call'[c].step = "failed" => call'[c].calm = "no" /\ ~(Named(c)' \subseteq rows')
      /\ InFlight(c)' => rows \subseteq rows'
      /\ rows \ rows' \subseteq Promotions
  BY DEF CampaignShape
<1>3. notice' \subseteq NoticeRecord /\ UNCHANGED purchaseVars /\ UNCHANGED markVars
      /\ purchase' = purchase
  BY <1>1, <1>2 DEF SharedInv, TypeOK, RequestsTypeOK, purchaseVars
<1>4. RequestsTypeOK' /\ RowsFit' /\ CallsFit' /\ CalmFits'
  BY <1>1, <1>2, <1>3, SharedKept
<1>5. MarksInv'
  BY <1>1, <1>2, <1>3, <1>4, NoForeignKeysFit, MarksForeign DEF MarkOps
<1>6. NoticesFit' /\ ReadsFit'
  BY <1>1, <1>2, <1>4, NoNoticeKeeps DEF TellingOps
<1>7. FailsByRaceOnly'
  BY <1>1, <1>2, <1>3, FailuresKept
<1>8. SalesInv'
  BY <1>1, <1>2, <1>3, SalesForeign
<1>9. SharedInv'
  BY <1>4, <1>5, <1>8 DEF SharedInv, TypeOK, MarksInv, SalesInv, PromotionsInv
<1>10. QED
  BY <1>5, <1>6, <1>7, <1>8, <1>9, InvParts

\* Requests about notices keep the invariant.
LEMMA RequestsKeep ==
    ASSUME EngagementInv, NEW c \in Calls, RequestsStep(c), UNCHANGED <<markVars, saleVars>>
    PROVE  EngagementInv'
<1>1. /\ SharedInv /\ MarksInv /\ ReadsFit /\ FailsByRaceOnly /\ NoticesFit /\ SalesInv
      /\ PromotionsInv
  BY InvParts
<1>2. RequestShape(c)
  BY <1>1, RequestShapes
<1>3. /\ CallStep(c) /\ UNCHANGED contentVars /\ notice' \subseteq NoticeRecord
      /\ NoticesOf(c)'
      /\ \A n \in notice' : n.call # c => \E m \in notice : Same(n, m)
      /\ \A m \in notice : \E n \in notice' : Same(n, m)
      /\ At(c, "markRead", "write")' =>
             \E n \in notice' : IdOf(n) = call'[c].on /\ n.post = call'[c].with
      /\ call'[c].step = "failed" => call'[c].calm = "no" /\ ~(Named(c)' \subseteq rows')
      /\ \/ Went(c) /\ call'[c].step = "dead" /\ call'[c].did = call[c].did
         \/ call'[c].op \in {"markRead", "markAllRead"}
         \/ /\ Went(c) /\ call'[c].did = call[c].did /\ call'[c].op \in TellingOps
            /\ call'[c].step \in {"notify", "findParent", "ended", "failed"}
  BY <1>2 DEF RequestShape
<1>4. /\ UNCHANGED purchaseVars /\ UNCHANGED campaignVars /\ UNCHANGED markVars
      /\ purchase' = purchase /\ notice \subseteq NoticeRecord /\ rows' = rows
  BY <1>1, <1>3 DEF saleVars, purchaseVars, SharedInv, TypeOK, RequestsTypeOK, contentVars
<1>5. RowStep
  BY <1>1, <1>3, NoRowStep
<1>6. RequestsTypeOK' /\ RowsFit' /\ CallsFit' /\ CalmFits'
  BY <1>1, <1>3, <1>4, <1>5, SharedKept
<1>7. MarksInv'
  <2>1. ASSUME call'[c].op \in MarkOps
        PROVE  Went(c) /\ call'[c].step # "write" /\ call'[c].did = call[c].did
    BY <1>3, <2>1 DEF MarkOps
  <2>2. QED
    BY <1>1, <1>3, <1>4, <1>5, <1>6, <2>1, NoForeignKeysFit, MarksForeign
<1>8. OthersNotices(c)
  BY <1>3 DEF OthersNotices
<1>9. NoticesFit'
  BY <1>1, <1>3, <1>4, <1>5, <1>6, <1>8, NoticesKept
<1>10. ReadsFit'
  BY <1>1, <1>3, <1>5, ReadsKept
<1>11. FailsByRaceOnly'
  BY <1>1, <1>3, <1>4, <1>5, FailuresKept
<1>12. SalesInv'
  BY <1>1, <1>3, <1>4, SalesForeign DEF TellingOps
<1>13. PromotionsInv'
  BY <1>1, <1>3, <1>4, PromotionsForeign DEF TellingOps
<1>14. SharedInv'
  BY <1>6, <1>7, <1>12, <1>13 DEF SharedInv, TypeOK, MarksInv, SalesInv, PromotionsInv
<1>15. QED
  BY <1>7, <1>9, <1>10, <1>11, <1>12, <1>13, <1>14, InvParts

\* What holds of the calls and the rows holds as long as these stay.
LEMMA RequestsSame ==
    ASSUME UNCHANGED requestVars
    PROVE  /\ RequestsTypeOK => RequestsTypeOK'
           /\ RowsFit => RowsFit'
           /\ CallsFit => CallsFit'
           /\ CalmFits => CalmFits'
           /\ NoticesFit => NoticesFit'
           /\ ReadsFit => ReadsFit'
           /\ MarksInv /\ UNCHANGED markVars => MarksInv'
<1>1. /\ rows' = rows /\ used' = used /\ owner' = owner /\ within' = within /\ parts' = parts
      /\ notice' = notice /\ call' = call
  BY DEF requestVars, contentVars
<1>2. RequestsTypeOK => RequestsTypeOK'
  BY <1>1 DEF RequestsTypeOK
<1>3. RowsFit => RowsFit'
  BY <1>1 DEF RowsFit
<1>4. CallsFit => CallsFit'
  BY <1>1 DEF CallsFit, CallFits, StepFits, Named
<1>5. CalmFits => CalmFits'
  BY <1>1 DEF CalmFits, InFlight, Named
<1>6. NoticesFit => NoticesFit'
  <2> SUFFICES ASSUME NEW c \in Calls, NoticesOf(c)
               PROVE  NoticesOf(c)'
    BY DEF NoticesFit
  <2>1. Due(c)' = Due(c)
    BY <1>1 DEF Due, OwnerAndMentioned, Except
  <2>2. Sent(c)' = Sent(c)
    BY <1>1 DEF Sent
  <2>3. Pending(c)' = Pending(c)
    BY <1>1 DEF Pending, IsReply, Except
  <2>4. PostOf(c)' = PostOf(c) /\ Named(c)' = Named(c)
    BY <1>1 DEF PostOf, Named
  <2>5. QED
    BY <1>1, <2>1, <2>2, <2>3, <2>4 DEF NoticesOf
<1>7. ReadsFit => ReadsFit'
  BY <1>1 DEF ReadsFit, IdOf, At
<1>8. ASSUME MarksInv, UNCHANGED markVars
      PROVE  MarksInv'
  <2>1. mark' = mark /\ serial' = serial
    BY <1>8 DEF markVars
  <2>2. MarksTypeOK' /\ MarksFit'
    BY <1>1, <1>8, <2>1 DEF MarksInv, MarksTypeOK, MarksFit, Exists
  <2>3. LooksFit'
    BY <1>1, <1>8, <2>1 DEF MarksInv, LooksFit, Beaten, KeyOf, Exists
  <2>4. BalancesFit'
    BY <1>1, <1>8, <2>1 DEF MarksInv, BalancesFit, Balance, Did, KeyOf, Exists
  <2>5. QED
    BY <2>2, <2>3, <2>4 DEF MarksInv
<1>9. QED
  BY <1>2, <1>3, <1>4, <1>5, <1>6, <1>7, <1>8

\* What goes on at Stripe, and the end of a promotion, are no steps of a call.
LEMMA OutsideKeeps ==
    ASSUME EngagementInv, UNCHANGED <<requestVars, markVars>>, SalesInv', PromotionsInv',
           \A s \in Sales : purchase[s] # "none" => purchase'[s] # "none"
    PROVE  EngagementInv'
<1>1. SharedInv /\ MarksInv /\ ReadsFit /\ FailsByRaceOnly /\ NoticesFit
  BY InvParts
<1>2. /\ RequestsTypeOK' /\ RowsFit' /\ CallsFit' /\ CalmFits' /\ NoticesFit' /\ ReadsFit'
      /\ MarksInv'
  BY <1>1, RequestsSame DEF SharedInv, TypeOK
<1>3. FailsByRaceOnly'
  <2> SUFFICES ASSUME NEW c \in Calls, call'[c].step = "failed"
               PROVE  \/ call'[c].op = "checkout" /\ purchase'[Sale(c)'] # "none"
                      \/ call'[c].calm = "no" /\ (Beaten(c)' \/ ~(Named(c)' \subseteq rows'))
    BY DEF FailsByRaceOnly
  <2>1. call' = call /\ rows' = rows
    BY DEF requestVars, contentVars
  <2>2. Sale(c)' = Sale(c) /\ Named(c)' = Named(c) /\ (Beaten(c) => Beaten(c)')
    BY <2>1 DEF Sale, Named, Beaten, KeyOf
  <2>3. CASE call[c].op = "checkout" /\ purchase[Sale(c)] # "none"
    <3>1. Sale(c) \in Sales
      BY <1>1, <2>3, SaleFits
    <3>2. QED
      BY <2>1, <2>2, <2>3, <3>1
  <2>4. CASE call[c].calm = "no" /\ (Beaten(c) \/ ~(Named(c) \subseteq rows))
    BY <2>1, <2>2, <2>4
  <2>5. QED
    BY <1>1, <2>1, <2>3, <2>4 DEF FailsByRaceOnly
<1>4. SharedInv'
  BY <1>2 DEF SharedInv, TypeOK, MarksInv, SalesInv, PromotionsInv
<1>5. QED
  BY <1>2, <1>3, <1>4, InvParts

\* What is said of sales does not depend on the rest.
LEMMA SalesSame ==
    ASSUME UNCHANGED requestVars, UNCHANGED purchaseVars, SalesInv
    PROVE  SalesInv'
<1>1. /\ call' = call /\ stripeAccountId' = stripeAccountId /\ madeFor' = madeFor
      /\ purchase' = purchase /\ session' = session /\ delivered' = delivered
  BY DEF requestVars, purchaseVars
<1>2. PurchasesTypeOK'
  BY <1>1 DEF SalesInv, PurchasesTypeOK
<1>3. SalesFit'
  BY <1>1 DEF SalesInv, SalesFit, Bought, Sale
<1>4. AccountsFit'
  BY <1>1 DEF SalesInv, AccountsFit, At
<1>5. QED
  BY <1>2, <1>3, <1>4 DEF SalesInv

\* What is said of promotions stays when end dates pass.
LEMMA PromotionsSame ==
    ASSUME UNCHANGED requestVars, UNCHANGED <<status, listed>>, over' \subseteq Promotions,
           PromotionsInv
    PROVE  PromotionsInv'
<1>1. call' = call /\ rows' = rows
  BY DEF requestVars, contentVars
<1>2. PromotionsFit'
  BY <1>1 DEF PromotionsInv, PromotionsFit, At
<1>3. QED
  BY <1>2 DEF PromotionsInv, CampaignsTypeOK

\* Each step keeps the invariant.
LEMMA NextKeeps ==
    ASSUME EngagementInv, [Next]_vars
    PROVE  EngagementInv'
<1>1. SharedInv /\ SalesInv /\ PromotionsInv /\ NoticesFit
  BY InvParts
<1>2. ASSUME NEW c \in Calls, MarksStep(c), UNCHANGED saleVars
      PROVE  EngagementInv'
  BY <1>2, MarksKeep
<1>3. ASSUME NEW c \in Calls, LibraryStep(c), ForeignKeys, UNCHANGED saleVars
      PROVE  EngagementInv'
  BY <1>3, LibraryKeeps
<1>4. ASSUME NEW c \in Calls, PurchasesStep(c), UNCHANGED <<markVars, campaignVars>>
      PROVE  EngagementInv'
  <2>1. CASE ConnectFind(c) \/ ConnectCreate(c) \/ ConnectStore(c) \/ ConnectLink(c)
    BY <1>1, <1>4, <2>1, ConnectSteps, SalesKeep
  <2>2. CASE \/ CheckoutFind(c) \/ CheckoutSeller(c) \/ CheckoutCreate(c) \/ CheckoutSession(c)
             \/ CheckoutStore(c)
    BY <1>1, <1>4, <2>2, CheckoutSteps, SalesKeep
  <2>3. CASE Pay(c) \/ SessionExpires(c) \/ HandleWebhook(c)
    <3>1. /\ UNCHANGED requestVars /\ SalesInv'
          /\ \A s \in Sales : purchase[s] # "none" => purchase'[s] # "none"
      BY <1>1, <2>3, StripeSteps
    <3>2. UNCHANGED <<status, listed>> /\ over' \subseteq Promotions
      BY <1>1, <1>4 DEF campaignVars, PromotionsInv, CampaignsTypeOK
    <3>3. PromotionsInv'
      BY <1>1, <3>1, <3>2, PromotionsSame
    <3>4. QED
      BY <1>4, <3>1, <3>3, OutsideKeeps
  <2>4. QED
    BY <1>4, <2>1, <2>2, <2>3 DEF PurchasesStep
<1>5. ASSUME NEW c \in Calls, CampaignsStep(c), UNCHANGED <<markVars, purchaseVars>>
      PROVE  EngagementInv'
  <2>1. CASE PromoteFind(c) \/ Promote(c)
    BY <1>1, <1>5, <2>1, PromoteSteps, CampaignsKeep
  <2>2. CASE ListComplete(c) \/ ListSweep(c) \/ ListFind(c)
    BY <1>1, <1>5, <2>2, ListSteps, CampaignsKeep
  <2>3. CASE CancelFind(c) \/ Cancel(c)
    BY <1>1, <1>5, <2>3, CancelSteps, CampaignsKeep
  <2>4. QED
    BY <1>5, <2>1, <2>2, <2>3 DEF CampaignsStep
<1>6. ASSUME NEW c \in Calls, RequestsStep(c), UNCHANGED <<markVars, saleVars>>
      PROVE  EngagementInv'
  BY <1>6, RequestsKeep
<1>7. ASSUME UNCHANGED requestVars, UNCHANGED <<markVars, purchaseVars>>,
             UNCHANGED <<status, listed>>, over' \subseteq Promotions
      PROVE  EngagementInv'
  <2>1. SalesInv'
    BY <1>1, <1>7, SalesSame
  <2>2. PromotionsInv'
    BY <1>1, <1>7, PromotionsSame
  <2>3. purchase' = purchase
    BY <1>7 DEF purchaseVars
  <2>4. QED
    BY <1>7, <2>1, <2>2, <2>3, OutsideKeeps
<1>8. ASSUME EndDatePasses, UNCHANGED <<markVars, purchaseVars>>
      PROVE  EngagementInv'
  <2>1. over' \subseteq Promotions /\ UNCHANGED requestVars /\ UNCHANGED <<status, listed>>
    BY <1>1, <1>8 DEF EndDatePasses, PromotionsInv, CampaignsTypeOK
  <2>2. QED
    BY <1>7, <1>8, <2>1
<1>9. ASSUME UNCHANGED vars
      PROVE  EngagementInv'
  <2>1. /\ UNCHANGED requestVars /\ UNCHANGED <<markVars, purchaseVars>>
        /\ UNCHANGED <<status, listed>> /\ over' \subseteq Promotions
    BY <1>1, <1>9 DEF vars, saleVars, campaignVars, PromotionsInv, CampaignsTypeOK
  <2>2. QED
    BY <1>7, <2>1
<1>10. QED
  BY <1>2, <1>3, <1>4, <1>5, <1>6, <1>8, <1>9 DEF Next

\* The invariant holds at first.
LEMMA InitFits ==
    ASSUME Init
    PROVE  EngagementInv
<1>1. /\ RequestsInit /\ MarksInit /\ PurchasesInit /\ CampaignsInit
  BY DEF Init
<1>2. /\ rows = Seeds /\ used = Seeds /\ notice = {}
      /\ owner = [x \in Things |-> IF x \in Seeds THEN Maker[x] ELSE None]
      /\ within = [x \in Things |-> IF x \in Seeds THEN Within[x] ELSE {}]
      /\ parts = [h \in Highlights |-> {}]
  BY <1>1 DEF RequestsInit
<1>3. call \in [Calls -> CallRecord]
  BY <1>1 DEF RequestsInit, CallRecord
<1>4. \A c \in Calls : /\ call[c].op = "none" /\ call[c].step = "unused" /\ call[c].user = None
                       /\ call[c].on = None /\ call[c].with = None /\ call[c].args = {}
                       /\ call[c].to = {} /\ call[c].did = "nothing" /\ call[c].calm = "yes"
  BY <1>1 DEF RequestsInit
<1>5. RequestsTypeOK
  <2>1. owner \in [Things -> Users \cup {None}] /\ within \in [Things -> SUBSET Things]
    BY <1>2, RequestsAssumption
  <2>2. QED
    BY <1>2, <1>3, <2>1, RequestsAssumption DEF RequestsTypeOK
<1>6. RowsFit
  BY <1>2, RequestsAssumption DEF RowsFit
<1>7. CallsFit
  <2> SUFFICES ASSUME NEW c \in Calls
               PROVE  CallFits(c)
    BY DEF CallsFit
  <2>1. call[c].on \in Targets(call[c].op) /\ call[c].with \in Details(call[c].op)
    BY <1>4 DEF Targets, Details
  <2>2. StepFits(c)
    BY <1>4 DEF StepFits
  <2>3. Named(c) = {}
    BY <1>4, RequestsAssumption DEF Named
  <2>4. QED
    BY <1>4, <2>1, <2>2, <2>3 DEF CallFits
<1>8. CalmFits
  BY <1>4 DEF CalmFits, InFlight, Active
<1>9. MarksTypeOK /\ MarksFit
  <2>1. \A k \in DOMAIN SeedMarks :
            /\ k \in Key /\ k[3] \in Seeds \cup Users \cup Emails
            /\ SeedMarks[k] \in Collections \cup Reactions \cup {None}
    BY MarksAssumption
  <2>2. \A k \in Key : mark[k] = IF k \in DOMAIN SeedMarks THEN [id |-> 1, value |-> SeedMarks[k]]
                                 ELSE NoRow
    BY <1>1 DEF MarksInit
  <2>3. NoRow \in MarkRow /\ NoRow.id = 0
    BY DEF NoRow, MarkRow
  <2>4. \A k \in DOMAIN SeedMarks : [id |-> 1, value |-> SeedMarks[k]] \in MarkRow
    BY <2>1 DEF MarkRow
  <2>5. mark \in [Key -> MarkRow]
    <3>1. \A k \in Key : mark[k] \in MarkRow
      BY <2>2, <2>3, <2>4
    <3>2. mark = [k \in Key |-> mark[k]]
      BY <1>1 DEF MarksInit
    <3>3. QED
      BY <3>1, <3>2
  <2>6. serial \in [Key -> Nat]
    BY <1>1, <2>5 DEF MarksInit, MarkRow
  <2>7. MarksFit
    <3> SUFFICES ASSUME NEW k \in Key
                 PROVE  /\ mark[k].id = 0 => mark[k] = NoRow
                        /\ mark[k] # NoRow => Exists(k[3])
      BY DEF MarksFit
    <3>1. CASE k \in DOMAIN SeedMarks
      <4>1. mark[k] = [id |-> 1, value |-> SeedMarks[k]]
        BY <2>2, <3>1
      <4>2. Exists(k[3])
        BY <1>2, <2>1, <3>1, RequestsAssumption DEF Exists
      <4>3. QED
        BY <4>1, <4>2
    <3>2. CASE k \notin DOMAIN SeedMarks
      BY <2>2, <3>2
    <3>3. QED
      BY <3>1, <3>2
  <2>8. QED
    BY <2>5, <2>6, <2>7 DEF MarksTypeOK
<1>10. LooksFit /\ ReadsFit /\ FailsByRaceOnly
  BY <1>4 DEF LooksFit, ReadsFit, FailsByRaceOnly, At
<1>11. BalancesFit
  <2> SUFFICES ASSUME NEW k \in Key
               PROVE  Balance(k) = IF mark[k] = NoRow THEN 0 ELSE 1
    BY DEF BalancesFit
  <2>1. Did("created", k) = {} /\ Did("deleted", k) = {}
    BY <1>4 DEF Did
  <2>2. Cardinality({}) = 0
    BY FS_EmptySet
  <2>3. mark[k] = IF k \in DOMAIN SeedMarks THEN [id |-> 1, value |-> SeedMarks[k]] ELSE NoRow
    BY <1>1 DEF MarksInit
  <2>4. mark[k] = NoRow <=> k \notin DOMAIN SeedMarks
    BY <2>3 DEF NoRow
  <2>5. QED
    BY <2>1, <2>2, <2>4 DEF Balance
<1>12. NoticesFit
  BY <1>2, <1>4 DEF NoticesFit, NoticesOf, TellingOps
<1>13. SalesInv
  <2>1. PurchasesTypeOK
    BY <1>1, PurchasesAssumption DEF PurchasesInit, PurchasesTypeOK
  <2>2. \A c \in Calls : session[c] = "none" /\ c \notin delivered
    BY <1>1 DEF PurchasesInit
  <2>3. SalesFit
    BY <1>4, <2>2 DEF SalesFit, Bought
  <2>4. AccountsFit
    <3>1. ASSUME NEW u \in Users, stripeAccountId[u] # None
          PROVE  madeFor[stripeAccountId[u]] = u
      <4>1. stripeAccountId[u] \in Accounts /\ stripeAccountId[u] = SeedAccounts[u]
        BY <1>1, <2>1, <3>1 DEF PurchasesInit, PurchasesTypeOK
      <4>2. \A v \in Users : SeedAccounts[v] = SeedAccounts[u] => v = u
        BY <3>1, <4>1, PurchasesAssumption
      <4>3. madeFor[stripeAccountId[u]] = CHOOSE v \in Users : SeedAccounts[v] = SeedAccounts[u]
        BY <1>1, <4>1 DEF PurchasesInit
      <4>4. QED
        BY <4>2, <4>3
    <3>2. QED
      BY <1>4, <3>1 DEF AccountsFit
  <2>5. QED
    BY <2>1, <2>3, <2>4 DEF SalesInv
<1>14. PromotionsInv
  <2>1. CampaignsTypeOK
    BY <1>1 DEF CampaignsInit, CampaignsTypeOK, Statuses
  <2>2. PromotionsFit
    BY <1>1, <1>4 DEF CampaignsInit, PromotionsFit
  <2>3. QED
    BY <2>1, <2>2 DEF PromotionsInv
<1>15. QED
  BY <1>5, <1>6, <1>7, <1>8, <1>9, <1>10, <1>11, <1>12, <1>13, <1>14, InvParts
     DEF SharedInv, TypeOK, MarksInv, SalesInv, PromotionsInv

\* Whatever users ask for at the same time, rows refer to rows that exist, a
\* call under way finds what it relies on or was overtaken, and what it wrote
\* and whom it told agree.
THEOREM Invariance == Spec => []EngagementInv
<1>1. Init => EngagementInv
  BY InitFits
<1>2. EngagementInv /\ [Next]_vars => EngagementInv'
  BY NextKeeps
<1>3. QED
  BY <1>1, <1>2, PTL DEF Spec

----------------------------------------------------------------------------
(* What the invariant says of the properties.                              *)
(***************************************************************************)
LEMMA BalancedMarks ==
    ASSUME EngagementInv, NEW table, NEW x, Exists(x),
           \A u \in Users : <<table, u, x>> \in Key
    PROVE  Balanced(table, x) = {u \in Users : IsMarked(table, u, x)}
<1>1. MarksFit /\ BalancesFit
  BY DEF EngagementInv
<1>2. ASSUME NEW u \in Users
      PROVE  Balance(<<table, u, x>>) = 1 <=> IsMarked(table, u, x)
  <2> DEFINE k == <<table, u, x>>
  <2>1. k \in Key /\ k[3] = x
    OBVIOUS
  <2>2. Balance(k) = IF mark[k] = NoRow THEN 0 ELSE 1
    BY <1>1, <2>1 DEF BalancesFit
  <2>3. mark[k] = NoRow <=> mark[k].id = 0
    BY <1>1, <2>1 DEF MarksFit, NoRow
  <2> HIDE DEF k
  <2>4. Balance(k) = 1 <=> mark[k].id # 0
    BY <2>2, <2>3
  <2>5. QED
    BY <2>4 DEF IsMarked, k
<1>3. QED
  BY <1>2 DEF Balanced

\* Answers add up.
LEMMA AnswersFit ==
    ASSUME EngagementInv
    PROVE  AnswersAddUp
<1>1. BalancesFit /\ rows \subseteq Things
  BY DEF EngagementInv, SharedInv, TypeOK, RequestsTypeOK
<1>2. ASSUME NEW p \in Posts \cap rows
      PROVE  LikesByPost(p) = Balanced("like", p)
  <2>1. Exists(p) /\ \A u \in Users : <<"like", u, p>> \in Key
    BY DEF Exists, Key
  <2>2. QED
    BY <2>1, BalancedMarks DEF LikesByPost, Liked
<1>3. ASSUME NEW s \in Stories \cap rows
      PROVE  /\ Views(s) = Balanced("view", s)
             /\ {r[1] : r \in StoryReactions(s)} = Balanced("reaction", s)
  <2>1. Exists(s) /\ \A u \in Users : <<"view", u, s>> \in Key /\ <<"reaction", u, s>> \in Key
    BY DEF Exists, Key
  <2>2. Views(s) = Balanced("view", s)
    BY <2>1, BalancedMarks DEF Views
  <2>3. {r[1] : r \in StoryReactions(s)} = {u \in Users : IsMarked("reaction", u, s)}
    <3> DEFINE S == {v \in Users : IsMarked("reaction", v, s)}
    <3>1. ASSUME NEW r \in StoryReactions(s)
          PROVE  r[1] \in S
      <4>1. \E u \in S : r = <<u, mark[<<"reaction", u, s>>].value>>
        BY DEF StoryReactions
      <4> HIDE DEF S
      <4>2. QED
        BY <4>1
    <3>2. ASSUME NEW u \in S
          PROVE  \E r \in StoryReactions(s) : r[1] = u
      <4>1. <<u, mark[<<"reaction", u, s>>].value>> \in StoryReactions(s)
        BY DEF StoryReactions
      <4>2. QED
        BY <4>1
    <3> HIDE DEF S
    <3>3. {r[1] : r \in StoryReactions(s)} = S
      BY <3>1, <3>2
    <3>4. QED
      BY <3>3 DEF S
  <2>4. QED
    BY <2>1, <2>2, <2>3, BalancedMarks
<1>4. ASSUME NEW u \in Users
      PROVE  GetCloseFriends(u) = {f \in Users : u \in Balanced("closeFriend", f)}
  <2>1. ASSUME NEW f \in Users
        PROVE  u \in Balanced("closeFriend", f) <=> IsMarked("closeFriend", u, f)
    <3>1. Exists(f) /\ \A v \in Users : <<"closeFriend", v, f>> \in Key
      BY RequestsAssumption DEF Exists, Key
    <3>2. Balanced("closeFriend", f) = {v \in Users : IsMarked("closeFriend", v, f)}
      BY <3>1, BalancedMarks
    <3>3. QED
      BY <3>2
  <2>2. QED
    BY <2>1 DEF GetCloseFriends
<1>5. QED
  BY <1>1, <1>2, <1>3, <1>4 DEF AnswersAddUp, BalancesFit

\* Notices match what they tell of.
LEMMA NoticesAgree ==
    ASSUME EngagementInv
    PROVE  NoticesMatch
<1> SUFFICES ASSUME NEW c \in Calls
             PROVE  /\ Sent(c) \subseteq Due(c)
                    /\ Sent(c) # {} => call[c].did = "created"
                    /\ (call[c].step = "ended" /\ call[c].did = "created" /\ Named(c) \subseteq rows)
                           => Sent(c) = Due(c)
  BY DEF NoticesMatch
<1>1. NoticesOf(c)
  BY DEF EngagementInv, NoticesFit
<1>2. Sent(c) \subseteq Due(c) /\ (Sent(c) # {} => call[c].did = "created")
  BY <1>1 DEF NoticesOf, Sent
<1>3. ASSUME call[c].step = "ended", call[c].did = "created", Named(c) \subseteq rows
      PROVE  Sent(c) = Due(c)
  <2>1. CASE call[c].op \in TellingOps
    <3>1. Pending(c) = {} /\ call[c].to = {}
      BY <1>1, <1>3 DEF NoticesOf, Pending
    <3>2. Due(c) = Sent(c) \cup call[c].to \cup Pending(c)
      BY <1>1, <1>3, <2>1 DEF NoticesOf
    <3>3. QED
      BY <3>1, <3>2
  <2>2. CASE call[c].op \notin TellingOps
    <3>1. Due(c) = {}
      BY <2>2 DEF Due, Except, TellingOps
    <3>2. QED
      BY <1>2, <3>1
  <2>3. QED
    BY <2>1, <2>2
<1>4. QED
  BY <1>2, <1>3

\* Nobody pays twice, and what is paid is unlocked.
LEMMA PaymentsFit ==
    ASSUME EngagementInv
    PROVE  PaidOnceAndUnlocked
<1>1. SalesFit /\ delivered \subseteq Calls
  BY DEF EngagementInv, SharedInv, TypeOK, PurchasesTypeOK
<1>2. ASSUME NEW s \in Sales
      PROVE  Cardinality(Paying(s)) <= 1
  <2>1. ASSUME NEW c \in Paying(s), NEW d \in Paying(s)
        PROVE  c = d
    <3>1. /\ c \in Calls /\ session[c] = "paid" /\ Sale(c) = s
          /\ d \in Calls /\ session[d] = "paid" /\ Sale(d) = s
      BY DEF Paying
    <3>2. Bought(c) /\ Bought(d)
      BY <1>1, <3>1 DEF SalesFit, Bought
    <3>3. QED
      BY <1>1, <3>1, <3>2 DEF SalesFit
  <2>2. CASE Paying(s) = {}
    BY <2>2, FS_EmptySet
  <2>3. ASSUME NEW c \in Paying(s)
        PROVE  Cardinality(Paying(s)) <= 1
    <3>1. Paying(s) = {c}
      BY <2>1
    <3>2. Cardinality({c}) = 1
      BY FS_Singleton
    <3>3. QED
      BY <3>1, <3>2
  <2>4. QED
    BY <2>2, <2>3
<1>3. ASSUME NEW c \in delivered
      PROVE  Uncensored(call[c].user, call[c].on)
  BY <1>1 DEF SalesFit, Uncensored, IsPurchased, Sale
<1>4. QED
  BY <1>2, <1>3 DEF PaidOnceAndUnlocked

\* Promotions are as listed.
LEMMA ListingsFit ==
    ASSUME EngagementInv
    PROVE  PromotionsAsListed
<1>1. PromotionsFit /\ \A c \in Calls : call[c].calm \in {"no", "yes"}
  BY DEF EngagementInv, SharedInv, TypeOK, RequestsTypeOK, CallRecord
<1>2. QED
  BY <1>1 DEF PromotionsFit, PromotionsAsListed

----------------------------------------------------------------------------
(* The properties.                                                         *)
(***************************************************************************)
\* Every variable has the type it is declared with: an id is of a row that was
\* drawn, a call's record and a row's columns are of their kinds.
THEOREM TypeCorrect == Spec => []TypeOK
<1>1. EngagementInv => TypeOK
  BY DEF EngagementInv, SharedInv
<1>2. QED
  BY <1>1, Invariance, PTL

\* What lists and checks answer for what exists adds up from what the calls
\* of toggle, view, addReaction, toggleCloseFriend and their like wrote, in
\* whichever order their finds and their writes interleaved.
THEOREM AnswersAlwaysAddUp == Spec => []AnswersAddUp
<1>1. EngagementInv => AnswersAddUp
  BY AnswersFit
<1>2. QED
  BY <1>1, Invariance, PTL

\* A handler fails only because another request wrote first what it was about
\* to write, or deleted what it names; or because the item has a purchase.
THEOREM FailuresHaveACause == Spec => []FailsByRaceOnly
<1>1. EngagementInv => FailsByRaceOnly
  BY DEF EngagementInv
<1>2. QED
  BY <1>1, Invariance, PTL

\* The notices of a like or a comment are those due, none of them to its
\* author, and all of them when the request has been answered.
THEOREM NoticesAlwaysMatch == Spec => []NoticesMatch
<1>1. EngagementInv => NoticesMatch
  BY NoticesAgree
<1>2. QED
  BY <1>1, Invariance, PTL

\* Nobody pays twice for an item, and who paid is shown it from the webhook's
\* answer on.
THEOREM NobodyPaysTwice == Spec => []PaidOnceAndUnlocked
<1>1. EngagementInv => PaidOnceAndUnlocked
  BY PaymentsFit
<1>2. QED
  BY <1>1, Invariance, PTL

\* A seller is sent to set up the account that is stored for them, unless two
\* requests to connect overlapped; and an account is never another seller's.
THEOREM AccountsStand == Spec => []LinkedAccountStands
<1>1. EngagementInv => LinkedAccountStands
  BY DEF EngagementInv, AccountsFit, LinkedAccountStands
<1>2. QED
  BY <1>1, Invariance, PTL

\* getPromotions shows as active nothing that had lapsed when it was asked, and
\* what it shows as completed stays, unless a cancellation overlapped it.
THEOREM ListingsStand == Spec => []PromotionsAsListed
<1>1. EngagementInv => PromotionsAsListed
  BY ListingsFit
<1>2. QED
  BY <1>1, Invariance, PTL

=============================================================================
