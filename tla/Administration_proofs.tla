------------------------ MODULE Administration_proofs ------------------------
(***************************************************************************)
(* What the log of administrators keeps, for any numbers of users, rows    *)
(* and requests; and, at the end, what the profile cache serves that their *)
(* writes, with those of the users, refresh.  The two modules share the    *)
(* users and nothing else.                                                 *)
(***************************************************************************)
EXTENDS Administration, ProfileCache, TLAPS

\* The entries are of requests that passed the guard, by accounts that exist.
EntriesStand ==
    \A r \in Requests : Logged(r) => request[r].step # "unused" /\ request[r].admin \in rows

\* A deletion that logs first is logged before it acts.
LoggedBeforeActing ==
    \A r \in Requests :
        request[r].step = "act" /\ LogsFirst(request[r].command) => Logged(r)

\* A write that has ended without an entry was made by an account that is gone.
OnlyTheGoneAreUnlogged ==
    \A r \in Requests :
        request[r].step = "ended" /\ request[r].effect = "yes"
            => Logged(r) \/ request[r].admin \notin rows

AdministrationInv ==
    TypeOK /\ EntriesStand /\ LoggedBeforeActing /\ OnlyTheGoneAreUnlogged

\* The target of a typed command is of the kind its action asks for.
LEMMA CommandsFit ==
    ASSUME NEW command \in Command
    PROVE  /\ command.action = "set" => command.target \in Cells /\ command.value \in Value
           /\ command.action \in {"updateUserStatus", "deleteUser"} => command.target \in Users
           /\ command.action = "deletePost" => command.target \in Posts
           /\ command.action = "deleteComment" => command.target \in Comments
BY DEF Command

\* An entry's administrator is a user.
LEMMA ActorIsUser ==
    ASSUME AdministrationInv, NEW r \in Requests, Logged(r)
    PROVE  request[r].admin \in Users /\ request[r].admin \in rows /\ Acted(request[r].admin)
<1>1. request[r].admin \in rows
  BY DEF AdministrationInv, EntriesStand
<1>2. request[r] \in RequestRecord
  BY DEF AdministrationInv, TypeOK
<1>3. request[r].admin \in Users \cup {None}
  BY <1>2 DEF RequestRecord
<1>4. request[r].admin # None
  BY <1>1, AccountsAssumption, AdministrationAssumption DEF AdministrationInv, TypeOK
<1>5. QED
  BY <1>1, <1>3, <1>4 DEF Logged, Acted

\* Nothing is logged to begin with.
LEMMA AdministrationInit == Init => AdministrationInv
<1> SUFFICES ASSUME Init PROVE AdministrationInv
  OBVIOUS
<1>1. TypeOK
  <2>1. FirstValue \in [Cells -> Value]
    BY DEF FirstValue, Cells, Value
  <2>2. [step |-> "unused", admin |-> None, command |-> NoCommand, effect |-> "no"]
            \in RequestRecord
    BY DEF RequestRecord
  <2>3. QED
    BY <2>1, <2>2 DEF Init, TypeOK
<1>2. \A r \in Requests : request[r].step = "unused" /\ ~Logged(r)
  BY DEF Init, Logged
<1>3. QED
  BY <1>1, <1>2 DEF AdministrationInv, EntriesStand, LoggedBeforeActing,
                    OnlyTheGoneAreUnlogged

\* A request whose record is replaced by a typed one that is no longer unused.
LEMMA RecordReplaced ==
    ASSUME TypeOK, NEW r \in Requests, NEW rec \in RequestRecord,
           request' = [request EXCEPT ![r] = rec]
    PROVE  /\ request' \in [Requests -> RequestRecord]
           /\ request'[r] = rec
           /\ \A q \in Requests \ {r} : request'[q] = request[q]
BY DEF TypeOK

\* Rows are only removed, and never the account of an entry: the requests and the log
\* that stay as they were keep the invariant's parts.
LEMMA DeletionSpares ==
    ASSUME AdministrationInv, NEW row \in Users \cup Written,
           row \in Users => ~Acted(row), rows' = Without(row)
    PROVE  /\ rows' \subseteq rows
           /\ \A q \in Requests : Logged(q) => request[q].admin \in rows'
<1>1. rows' \subseteq rows
  BY DEF Without
<1>2. ASSUME NEW q \in Requests, Logged(q) PROVE request[q].admin \in rows'
  <2>1. request[q].admin \in Users /\ request[q].admin \in rows /\ Acted(request[q].admin)
    BY <1>2, ActorIsUser
  <2>2. request[q].admin # row /\ request[q].admin \notin Written
    BY <2>1, AccountsAssumption, AdministrationAssumption
  <2>3. QED
    BY <2>1, <2>2 DEF Without
<1>3. QED
  BY <1>1, <1>2

\* The guard lets a request in: it is neither logged nor past its write.
LEMMA AuthorizeKeeps ==
    ASSUME AdministrationInv, NEW r \in Requests, NEW u \in Users, Authorize(r, u)
    PROVE  AdministrationInv'
<1>1. PICK command \in Command :
          request' = [request EXCEPT ![r] =
              [step |-> IF LogsFirst(command) THEN "log" ELSE "act", admin |-> u,
               command |-> command, effect |-> "no"]]
  BY DEF Authorize
<1>2. PICK rec : rec = [step |-> IF LogsFirst(command) THEN "log" ELSE "act", admin |-> u,
                        command |-> command, effect |-> "no"]
  OBVIOUS
<1>3. rec \in RequestRecord
  BY <1>2 DEF RequestRecord
<1>4. /\ request' \in [Requests -> RequestRecord]
      /\ request'[r] = rec
      /\ \A q \in Requests \ {r} : request'[q] = request[q]
  BY <1>1, <1>2, <1>3, RecordReplaced DEF AdministrationInv
<1>5. UNCHANGED <<rows, value, log, blurred>>
  BY DEF Authorize
<1>6. ~Logged(r)
  BY DEF Authorize, AdministrationInv, EntriesStand
<1>7. \A q \in Requests : Logged(q)' <=> Logged(q)
  BY <1>5 DEF Logged
<1>8. rec.effect = "no" /\ (rec.step = "act" => ~LogsFirst(rec.command)) /\ rec.step # "ended"
  BY <1>2
<1>9. TypeOK'
  BY <1>4, <1>5 DEF AdministrationInv, TypeOK
<1>10. EntriesStand'
  BY <1>4, <1>5, <1>6, <1>7 DEF AdministrationInv, EntriesStand
<1>11. LoggedBeforeActing'
  BY <1>4, <1>7, <1>8 DEF AdministrationInv, LoggedBeforeActing, LogsFirst
<1>12. OnlyTheGoneAreUnlogged'
  BY <1>4, <1>5, <1>7, <1>8 DEF AdministrationInv, OnlyTheGoneAreUnlogged
<1>13. QED
  BY <1>9, <1>10, <1>11, <1>12 DEF AdministrationInv

\* A write: the request keeps its administrator and its command, and ends only if it is
\* logged already.
LEMMA WriteKeeps ==
    ASSUME AdministrationInv, NEW r \in Requests, request[r].step = "act", Wrote(r),
           log' = log, rows' \subseteq rows,
           \A q \in Requests : Logged(q) => request[q].admin \in rows',
           value' \in [Cells -> Value], blurred' \subseteq Cells
    PROVE  AdministrationInv'
<1>1. request[r] \in RequestRecord /\ request \in [Requests -> RequestRecord]
  BY DEF AdministrationInv, TypeOK
<1>2. PICK step \in {"log", "ended"} :
          /\ step = "ended" => LogsFirst(request[r].command)
          /\ request' = [request EXCEPT ![r].effect = "yes", ![r].step = step]
  BY DEF Wrote
<1>3. PICK rec : rec = [request[r] EXCEPT !.effect = "yes", !.step = step]
  OBVIOUS
<1>4. /\ rec \in RequestRecord
      /\ rec.step = step /\ rec.admin = request[r].admin
      /\ rec.command = request[r].command
  BY <1>1, <1>2, <1>3 DEF RequestRecord
<1>5. request' = [request EXCEPT ![r] = rec]
  BY <1>1, <1>2, <1>3
<1>6. /\ request' \in [Requests -> RequestRecord]
      /\ request'[r] = rec
      /\ \A q \in Requests \ {r} : request'[q] = request[q]
  BY <1>4, <1>5, RecordReplaced DEF AdministrationInv
<1>7. \A q \in Requests : Logged(q)' <=> Logged(q)
  BY DEF Logged
<1>8. TypeOK'
  BY <1>6 DEF AdministrationInv, TypeOK
<1>9. EntriesStand'
  BY <1>2, <1>4, <1>6, <1>7 DEF AdministrationInv, EntriesStand
<1>10. LoggedBeforeActing'
  BY <1>2, <1>4, <1>6, <1>7 DEF AdministrationInv, LoggedBeforeActing
<1>11. OnlyTheGoneAreUnlogged'
  <2>1. step = "ended" => Logged(r)
    BY <1>2 DEF AdministrationInv, LoggedBeforeActing
  <2>2. QED
    BY <1>4, <1>6, <1>7, <2>1 DEF AdministrationInv, OnlyTheGoneAreUnlogged
<1>12. QED
  BY <1>8, <1>9, <1>10, <1>11 DEF AdministrationInv

\* A column is set.
LEMMA SetColumnKeeps ==
    ASSUME AdministrationInv, NEW r \in Requests, SetColumn(r)
    PROVE  AdministrationInv'
<1>1. request[r].step = "act" /\ request[r].command.action = "set"
  BY DEF SetColumn, Acting
<1>2. request[r] \in RequestRecord
  BY DEF AdministrationInv, TypeOK
<1>3. request[r].command \in Command
  BY <1>1, <1>2 DEF RequestRecord, NoCommand
<1>4. Target(r) \in Cells /\ request[r].command.value \in Value
  BY <1>1, <1>3, CommandsFit DEF Target
<1>5. value' \in [Cells -> Value] /\ blurred' \subseteq Cells
  BY <1>4 DEF SetColumn, AdministrationInv, TypeOK
<1>6. Wrote(r) /\ log' = log /\ rows' = rows
  BY DEF SetColumn
<1>7. \A q \in Requests : Logged(q) => request[q].admin \in rows'
  BY <1>6 DEF AdministrationInv, EntriesStand
<1>8. QED
  BY <1>1, <1>5, <1>6, <1>7, WriteKeeps

\* The columns of an account are set together.
LEMMA UpdateUserStatusKeeps ==
    ASSUME AdministrationInv, NEW r \in Requests, UpdateUserStatus(r)
    PROVE  AdministrationInv'
<1>1. request[r].step = "act"
  BY DEF UpdateUserStatus, Acting
<1>2. value' \in [Cells -> Value] /\ blurred' \subseteq Cells
  BY DEF UpdateUserStatus, AdministrationInv, TypeOK
<1>3. Wrote(r) /\ log' = log /\ rows' = rows
  BY DEF UpdateUserStatus
<1>4. \A q \in Requests : Logged(q) => request[q].admin \in rows'
  BY <1>3 DEF AdministrationInv, EntriesStand
<1>5. QED
  BY <1>1, <1>2, <1>3, <1>4, WriteKeeps

\* An account or content is deleted.
LEMMA DeletionKeeps ==
    ASSUME AdministrationInv, NEW r \in Requests, DeleteUser(r) \/ DeleteContent(r)
    PROVE  AdministrationInv'
<1>1. /\ request[r].step = "act"
      /\ request[r].command.action \in {"deleteUser", "deletePost", "deleteComment"}
      /\ request[r].command.action = "deleteUser" => ~Acted(Target(r))
  BY DEF DeleteUser, DeleteContent, Acting
<1>2. request[r] \in RequestRecord
  BY DEF AdministrationInv, TypeOK
<1>3. request[r].command \in Command
  BY <1>1, <1>2 DEF RequestRecord, NoCommand
<1>4. /\ Target(r) \in Users \cup Written
      /\ Target(r) \in Users => ~Acted(Target(r))
  BY <1>1, <1>3, CommandsFit, AccountsAssumption, AdministrationAssumption DEF Target, Written
<1>5. /\ rows' = Without(Target(r)) /\ Wrote(r) /\ log' = log
      /\ value' = value /\ blurred' = blurred
  BY DEF DeleteUser, DeleteContent
<1>6. rows' \subseteq rows /\ \A q \in Requests : Logged(q) => request[q].admin \in rows'
  BY <1>4, <1>5, DeletionSpares
<1>7. value' \in [Cells -> Value] /\ blurred' \subseteq Cells
  BY <1>5 DEF AdministrationInv, TypeOK
<1>8. QED
  BY <1>1, <1>5, <1>6, <1>7, WriteKeeps

\* A request that is not unused changes its step only, and the log grows at most by it.
LEMMA StepKeeps ==
    ASSUME AdministrationInv, NEW r \in Requests, NEW step \in {"act", "ended", "dead"},
           request[r].step # "unused",
           request' = [request EXCEPT ![r].step = step],
           rows' = rows, value' = value, blurred' \subseteq Cells,
           log' = log \/ (log' = Append(log, r) /\ request[r].admin \in rows),
           step = "act" => Logged(r)',
           step = "ended" => Logged(r)' \/ request[r].admin \notin rows
    PROVE  AdministrationInv'
<1>1. request[r] \in RequestRecord /\ request \in [Requests -> RequestRecord]
  BY DEF AdministrationInv, TypeOK
<1>2. PICK rec : rec = [request[r] EXCEPT !.step = step]
  OBVIOUS
<1>3. /\ rec \in RequestRecord
      /\ rec.step = step /\ rec.admin = request[r].admin
      /\ rec.command = request[r].command
  BY <1>1, <1>2 DEF RequestRecord
<1>4. request' = [request EXCEPT ![r] = rec]
  BY <1>1, <1>2
<1>5. /\ request' \in [Requests -> RequestRecord]
      /\ request'[r] = rec
      /\ \A q \in Requests \ {r} : request'[q] = request[q]
  BY <1>3, <1>4, RecordReplaced DEF AdministrationInv
<1>6. log \in Seq(Requests)
  BY DEF AdministrationInv, TypeOK
<1>7. /\ log' \in Seq(Requests)
      /\ \A q \in Requests : Logged(q) => Logged(q)'
      /\ \A q \in Requests \ {r} : Logged(q)' => Logged(q)
  BY SMTT(20), <1>6 DEF Logged
<1>8. TypeOK'
  BY <1>5, <1>7 DEF AdministrationInv, TypeOK
<1>9. EntriesStand'
  <2>1. Logged(r)' => request[r].admin \in rows
    BY <1>6 DEF Logged, AdministrationInv, EntriesStand
  <2>2. QED
    BY <1>3, <1>5, <1>7, <2>1 DEF AdministrationInv, EntriesStand
<1>10. LoggedBeforeActing'
  BY <1>3, <1>5, <1>7 DEF AdministrationInv, LoggedBeforeActing
<1>11. OnlyTheGoneAreUnlogged'
  BY <1>3, <1>5, <1>7 DEF AdministrationInv, OnlyTheGoneAreUnlogged
<1>12. QED
  BY <1>8, <1>9, <1>10, <1>11 DEF AdministrationInv

\* An entry is written, is refused, or the request dies.
LEMMA LogKeeps ==
    ASSUME AdministrationInv, NEW r \in Requests,
           LogAction(r) \/ LogActionFails(r) \/ RequestDies(r)
    PROVE  AdministrationInv'
<1>1. CASE LogAction(r)
  <2>1. PICK step \in {"act", "ended"} : request' = [request EXCEPT ![r].step = step]
    BY <1>1 DEF LogAction
  <2>2. Logged(r)'
    BY <1>1 DEF LogAction, Logged, AdministrationInv, TypeOK
  <2>3. blurred' \subseteq Cells
    BY <1>1 DEF LogAction, AdministrationInv, TypeOK
  <2>4. QED
    BY <1>1, <2>1, <2>2, <2>3, StepKeeps DEF LogAction
<1>2. CASE LogActionFails(r)
  <2>1. blurred' \subseteq Cells
    BY <1>2 DEF LogActionFails, AdministrationInv, TypeOK
  <2>2. QED
    BY <1>2, <2>1, StepKeeps DEF LogActionFails
<1>3. CASE RequestDies(r)
  <2>1. blurred' \subseteq Cells
    BY <1>3 DEF RequestDies, AdministrationInv, TypeOK
  <2>2. QED
    BY <1>3, <2>1, StepKeeps DEF RequestDies
<1>4. QED
  BY <1>1, <1>2, <1>3

\* What goes past the log leaves the requests and the entries alone.
LEMMA UnloggedKeeps ==
    ASSUME AdministrationInv,
           (\E x \in Cells : SetUnlogged(x))
               \/ (\E k \in Posts \cup Comments : DeleteUnlogged(k))
    PROVE  AdministrationInv'
<1>1. UNCHANGED <<request, log>>
  BY DEF SetUnlogged, DeleteUnlogged
<1>2. rows' \subseteq rows /\ \A q \in Requests : Logged(q) => request[q].admin \in rows'
  <2>1. CASE \E x \in Cells : SetUnlogged(x)
    BY <2>1 DEF SetUnlogged, AdministrationInv, EntriesStand
  <2>2. CASE \E k \in Posts \cup Comments : DeleteUnlogged(k)
    <3>1. PICK k \in Posts \cup Comments : rows' = Without(k)
      BY <2>2 DEF DeleteUnlogged
    <3>2. k \in Users \cup Written /\ k \notin Users
      BY AccountsAssumption, AdministrationAssumption DEF Written
    <3>3. QED
      BY <3>1, <3>2, DeletionSpares
  <2>3. QED
    BY <2>1, <2>2
<1>3. \A q \in Requests : Logged(q)' <=> Logged(q)
  BY <1>1 DEF Logged
<1>4. TypeOK'
  <2>1. value' \in [Cells -> Value] /\ blurred' \subseteq Cells
    BY DEF SetUnlogged, DeleteUnlogged, AdministrationInv, TypeOK
  <2>2. QED
    BY <1>1, <1>2, <2>1 DEF AdministrationInv, TypeOK
<1>5. EntriesStand' /\ LoggedBeforeActing' /\ OnlyTheGoneAreUnlogged'
  BY <1>1, <1>2, <1>3 DEF AdministrationInv, EntriesStand, LoggedBeforeActing,
                          OnlyTheGoneAreUnlogged
<1>6. QED
  BY <1>4, <1>5 DEF AdministrationInv

\* Every step keeps the invariant.
LEMMA AdministrationNext == AdministrationInv /\ [Next]_vars => AdministrationInv'
<1> SUFFICES ASSUME AdministrationInv, [Next]_vars PROVE AdministrationInv'
  OBVIOUS
<1>1. ASSUME NEW r \in Requests, NEW u \in Users, Authorize(r, u) PROVE AdministrationInv'
  BY <1>1, AuthorizeKeeps
<1>2. ASSUME NEW r \in Requests, SetColumn(r) PROVE AdministrationInv'
  BY <1>2, SetColumnKeeps
<1>3. ASSUME NEW r \in Requests, UpdateUserStatus(r) PROVE AdministrationInv'
  BY <1>3, UpdateUserStatusKeeps
<1>4. ASSUME NEW r \in Requests, DeleteUser(r) \/ DeleteContent(r) PROVE AdministrationInv'
  BY <1>4, DeletionKeeps
<1>5. ASSUME NEW r \in Requests, LogAction(r) \/ LogActionFails(r) \/ RequestDies(r)
      PROVE  AdministrationInv'
  BY <1>5, LogKeeps
<1>6. CASE (\E x \in Cells : SetUnlogged(x))
               \/ (\E k \in Posts \cup Comments : DeleteUnlogged(k))
  BY <1>6, UnloggedKeeps
<1>7. CASE UNCHANGED vars
  <2>1. UNCHANGED <<rows, value, request, log, blurred>>
    BY <1>7 DEF vars
  <2>2. \A q \in Requests : Logged(q)' <=> Logged(q)
    BY <2>1 DEF Logged
  <2>3. QED
    BY <2>1, <2>2 DEF AdministrationInv, TypeOK, EntriesStand, LoggedBeforeActing,
                      OnlyTheGoneAreUnlogged
<1>8. QED
  BY <1>1, <1>2, <1>3, <1>4, <1>5, <1>6, <1>7 DEF Next

\* The invariant holds throughout.
THEOREM AdministrationInvariant == Spec => []AdministrationInv
<1>1. QED
  BY AdministrationInit, AdministrationNext, PTL DEF Spec

\* Every reachable state of AdminService is well typed.
THEOREM AdministrationTypes == Spec => []TypeOK
<1>1. AdministrationInv => TypeOK
  BY DEF AdministrationInv
<1>2. QED
  BY <1>1, AdministrationInvariant, PTL

\* Who is in the log once has an entry for every write that ended.
THEOREM ActorsStayLogged == Spec => []ActorsAreLogged
<1>1. AdministrationInv => ActorsAreLogged
  <2> SUFFICES ASSUME AdministrationInv, NEW r \in Requests,
                      request[r].effect = "yes", request[r].step = "ended",
                      Acted(request[r].admin)
               PROVE  Logged(r)
    BY DEF ActorsAreLogged
  <2>1. PICK i \in DOMAIN log : request[log[i]].admin = request[r].admin
    BY DEF Acted
  <2>2. log[i] \in Requests
    BY DEF AdministrationInv, TypeOK
  <2>3. request[r].admin \in rows
    BY <2>1, <2>2 DEF AdministrationInv, EntriesStand, Logged
  <2>4. QED
    BY <2>3 DEF AdministrationInv, OnlyTheGoneAreUnlogged
<1>2. QED
  BY <1>1, AdministrationInvariant, PTL

\* Entries are only added.
LEMMA LogGrows ==
    ASSUME AdministrationInv, [Next]_vars
    PROVE  /\ IsPrefix(log, log')
           /\ \A q \in Requests : Logged(q) => Logged(q)'
<1>1. log \in Seq(Requests)
  BY DEF AdministrationInv, TypeOK
<1>2. log' = log \/ \E r \in Requests : log' = Append(log, r)
  BY DEF Next, vars, Authorize, SetColumn, UpdateUserStatus, DeleteUser, DeleteContent,
         LogAction, LogActionFails, RequestDies, SetUnlogged, DeleteUnlogged
<1>3. CASE log' = log
  BY <1>1, <1>3 DEF IsPrefix, Logged
<1>4. ASSUME NEW r \in Requests, log' = Append(log, r)
      PROVE  IsPrefix(log, log') /\ \A q \in Requests : Logged(q) => Logged(q)'
  BY <1>1, <1>4 DEF IsPrefix, Logged
<1>5. QED
  BY <1>2, <1>3, <1>4

\* A request keeps its administrator once it has one.
LEMMA AdminStays ==
    ASSUME AdministrationInv, [Next]_vars, NEW q \in Requests, request[q].step # "unused"
    PROVE  request'[q].admin = request[q].admin
<1>1. request \in [Requests -> RequestRecord]
  BY DEF AdministrationInv, TypeOK
<1>2. request[q] \in RequestRecord
  BY <1>1
<1>3. ASSUME NEW r \in Requests, NEW u \in Users, Authorize(r, u)
      PROVE  request'[q] = request[q]
  BY <1>1, <1>3 DEF Authorize
<1>4. ASSUME NEW r \in Requests, Wrote(r)
      PROVE  request'[q].admin = request[q].admin
  BY <1>1, <1>2, <1>4 DEF Wrote, RequestRecord
<1>5. ASSUME NEW r \in Requests, LogAction(r) \/ LogActionFails(r) \/ RequestDies(r)
      PROVE  request'[q].admin = request[q].admin
  BY <1>1, <1>2, <1>5 DEF LogAction, LogActionFails, RequestDies, RequestRecord
<1>6. CASE UNCHANGED request
  BY <1>6
<1>7. QED
  BY <1>3, <1>4, <1>5, <1>6 DEF Next, vars, SetColumn, UpdateUserStatus, DeleteUser,
     DeleteContent, SetUnlogged, DeleteUnlogged

\* The log only grows and its administrators' accounts stay.
THEOREM LogStaysKept == Spec => LogIsKept
<1>1. AdministrationInv /\ AdministrationInv' /\ [Next]_vars =>
          [/\ IsPrefix(log, log')
           /\ \A u \in Users : Acted(u) => u \in rows']_vars
  <2> SUFFICES ASSUME AdministrationInv, AdministrationInv', [Next]_vars,
                      NEW u \in Users, Acted(u), vars' # vars
               PROVE  u \in rows'
    BY LogGrows
  <2>1. PICK i \in DOMAIN log : request[log[i]].admin = u
    BY DEF Acted
  <2>2. PICK r \in Requests : r = log[i]
    BY DEF AdministrationInv, TypeOK
  <2>3. Logged(r) /\ request[r].step # "unused"
    BY <2>2 DEF AdministrationInv, EntriesStand, Logged
  <2>4. Logged(r)'
    BY <2>3, LogGrows
  <2>5. request'[r].admin = u
    BY <2>1, <2>2, <2>3, AdminStays
  <2>6. QED
    BY <2>4, <2>5 DEF AdministrationInv, EntriesStand
<1>2. QED
  BY <1>1, AdministrationInvariant, PTL DEF Spec, LogIsKept

----------------------------------------------------------------------------
(* The log tells the state.                                                *)
(***************************************************************************)
\* A write of the column that is still to be logged.
Pending(r, x) == Sets(r, x) /\ ToBeLogged(r)

\* The last entry about a column names its value.
Tells(x) ==
    LET about == {i \in DOMAIN log : Sets(log[i], x)} IN
    IF about = {} THEN value[x] = FirstValue[x]
    ELSE \E i \in about :
             /\ \A j \in about : j <= i
             /\ value[x] = request[log[i]].command.value

\* A column that is not blurred has at most one write to be logged, which is the one it
\* holds; without one it is as the log tells.
CellTold(x) ==
    x \notin blurred =>
        /\ \A r \in Requests : Pending(r, x) =>
               /\ value[x] = request[r].command.value
               /\ \A q \in Requests : Pending(q, x) => q = r
        /\ (\A r \in Requests : ~Pending(r, x)) => Tells(x)

\* A write that logs last and is to be logged was made.
LoggedAfterActing ==
    \A r \in Requests :
        request[r].step = "log" /\ ~LogsFirst(request[r].command)
            => request[r].effect = "yes"

TellingInv ==
    AdministrationInv /\ LoggedAfterActing /\ \A x \in Cells : CellTold(x)

\* What a write does to the requests.
LEMMA WroteMoves ==
    ASSUME TypeOK, NEW r \in Requests, request[r].step = "act", Wrote(r)
    PROVE  /\ request'[r].command = request[r].command
           /\ request'[r].effect = "yes"
           /\ request'[r].step = IF LogsFirst(request[r].command) THEN "ended" ELSE "log"
           /\ \A q \in Requests \ {r} : request'[q] = request[q]
<1>1. request \in [Requests -> RequestRecord] /\ request[r] \in RequestRecord
  BY DEF TypeOK
<1>2. QED
  BY <1>1 DEF Wrote, RequestRecord

\* What an entry, its refusal or the death of a request does to the requests.
LEMMA StepMoves ==
    ASSUME TypeOK, NEW r \in Requests, NEW step,
           request' = [request EXCEPT ![r].step = step]
    PROVE  /\ request'[r].command = request[r].command
           /\ request'[r].effect = request[r].effect
           /\ request'[r].step = step
           /\ \A q \in Requests \ {r} : request'[q] = request[q]
<1>1. request \in [Requests -> RequestRecord] /\ request[r] \in RequestRecord
  BY DEF TypeOK
<1>2. QED
  BY <1>1 DEF RequestRecord

\* A step that leaves a column, the writes of it that are to be logged and the log alone.
LEMMA CellFramed ==
    ASSUME AdministrationInv, NEW x \in Cells, CellTold(x),
           x \notin blurred' => x \notin blurred /\ value'[x] = value[x],
           log' = log,
           \A q \in Requests : request[q].step # "unused" =>
               request'[q].command = request[q].command,
           x \notin blurred' => \A q \in Requests : Pending(q, x)' <=> Pending(q, x)
    PROVE  CellTold(x)'
<1> SUFFICES ASSUME x \notin blurred' PROVE CellTold(x)'
  BY DEF CellTold
<1>1. \A q \in Requests : Pending(q, x) => request'[q].command = request[q].command
  BY DEF Pending, ToBeLogged
<1>2. \A i \in DOMAIN log : log[i] \in Requests /\ request[log[i]].step # "unused"
  BY DEF AdministrationInv, TypeOK, EntriesStand, Logged
<1>3. \A i \in DOMAIN log : request'[log[i]].command = request[log[i]].command
  BY <1>2
<1>4. \A i \in DOMAIN log : Sets(log[i], x)' <=> Sets(log[i], x)
  BY <1>3 DEF Sets
<1>5. {i \in DOMAIN log' : Sets(log[i], x)'} = {i \in DOMAIN log : Sets(log[i], x)}
  BY <1>4
<1>6. Tells(x) => Tells(x)'
  BY <1>3, <1>5 DEF Tells
<1>7. QED
  BY <1>1, <1>6 DEF CellTold

\* The guard adds a request that has written nothing.
LEMMA AuthorizeTells ==
    ASSUME TellingInv, NEW r \in Requests, NEW u \in Users, Authorize(r, u)
    PROVE  LoggedAfterActing' /\ \A x \in Cells : CellTold(x)'
<1>1. PICK command \in Command :
          request' = [request EXCEPT ![r] =
              [step |-> IF LogsFirst(command) THEN "log" ELSE "act", admin |-> u,
               command |-> command, effect |-> "no"]]
  BY DEF Authorize
<1>2. /\ request'[r].step = IF LogsFirst(command) THEN "log" ELSE "act"
      /\ request'[r].command = command /\ request'[r].effect = "no"
      /\ \A q \in Requests \ {r} : request'[q] = request[q]
  BY <1>1 DEF TellingInv, AdministrationInv, TypeOK
<1>3. request[r].step = "unused" /\ UNCHANGED <<value, log, blurred>>
  BY DEF Authorize
<1>4. LoggedAfterActing'
  BY <1>2 DEF TellingInv, LoggedAfterActing, LogsFirst
<1>5. ASSUME NEW x \in Cells PROVE CellTold(x)'
  <2>1. \A q \in Requests : Pending(q, x)' <=> Pending(q, x)
    BY <1>2, <1>3 DEF Pending, Sets, ToBeLogged
  <2>2. QED
    BY <1>2, <1>3, <2>1, CellFramed DEF TellingInv
<1>6. QED
  BY <1>4, <1>5

\* Setting a column: the write is the one to be logged, or the column blurs.
LEMMA SetColumnTells ==
    ASSUME TellingInv, NEW r \in Requests, SetColumn(r)
    PROVE  LoggedAfterActing' /\ \A x \in Cells : CellTold(x)'
<1>1. /\ request[r].step = "act" /\ request[r].command.action = "set"
      /\ Wrote(r) /\ log' = log
      /\ value' = [value EXCEPT ![Target(r)] = request[r].command.value]
  BY DEF SetColumn, Acting
<1>2. /\ request'[r].command = request[r].command
      /\ request'[r].effect = "yes" /\ request'[r].step = "log"
      /\ \A q \in Requests \ {r} : request'[q] = request[q]
  BY <1>1, WroteMoves DEF TellingInv, AdministrationInv, LogsFirst
<1>3. LoggedAfterActing'
  BY <1>2 DEF TellingInv, LoggedAfterActing, LogsFirst
<1>4. value \in [Cells -> Value]
  BY DEF TellingInv, AdministrationInv, TypeOK
<1>5. ASSUME NEW x \in Cells, x # Target(r) PROVE CellTold(x)'
  <2>1. ~Sets(r, x) /\ ~Sets(r, x)'
    BY <1>2, <1>5 DEF Sets, Target
  <2>2. \A q \in Requests : Pending(q, x)' <=> Pending(q, x)
    BY <1>2, <2>1 DEF Pending, Sets, ToBeLogged
  <2>3. x \in blurred' <=> x \in blurred
    BY <1>5 DEF SetColumn
  <2>4. value'[x] = value[x]
    BY <1>1, <1>4, <1>5
  <2>5. QED
    BY <1>1, <1>2, <2>2, <2>3, <2>4, CellFramed DEF TellingInv
<1>6. ASSUME NEW x \in Cells, x = Target(r) PROVE CellTold(x)'
  <2> SUFFICES ASSUME x \notin blurred' PROVE CellTold(x)'
    BY DEF CellTold
  <2>1. \A q \in Requests \ {r} : ~(Sets(q, x) /\ ToBeLogged(q))
    BY <1>6 DEF SetColumn
  <2>2. \A q \in Requests \ {r} : ~Pending(q, x)'
    BY <1>2, <2>1 DEF Pending, Sets, ToBeLogged
  <2>3. Pending(r, x)'
    BY <1>1, <1>2, <1>6 DEF Pending, Sets, ToBeLogged, Target
  <2>4. value'[x] = request'[r].command.value
    BY <1>1, <1>2, <1>4, <1>6
  <2>5. QED
    BY <2>2, <2>3, <2>4 DEF CellTold
<1>7. QED
  BY <1>3, <1>5, <1>6

\* The other writes: what they change of the columns blurs.
LEMMA WriteTells ==
    ASSUME TellingInv, NEW r \in Requests,
           UpdateUserStatus(r) \/ DeleteUser(r) \/ DeleteContent(r)
    PROVE  LoggedAfterActing' /\ \A x \in Cells : CellTold(x)'
<1>1. /\ request[r].step = "act" /\ request[r].command.action # "set"
      /\ Wrote(r) /\ log' = log
  BY DEF UpdateUserStatus, DeleteUser, DeleteContent, Acting
<1>2. /\ request'[r].command = request[r].command
      /\ request'[r].effect = "yes"
      /\ \A q \in Requests \ {r} : request'[q] = request[q]
  BY <1>1, WroteMoves DEF TellingInv, AdministrationInv
<1>3. LoggedAfterActing'
  BY <1>2 DEF TellingInv, LoggedAfterActing
<1>4. ASSUME NEW x \in Cells PROVE CellTold(x)'
  <2>1. ~Sets(r, x) /\ ~Sets(r, x)'
    BY <1>1, <1>2 DEF Sets
  <2>2. \A q \in Requests : Pending(q, x)' <=> Pending(q, x)
    BY <1>2, <2>1 DEF Pending, Sets, ToBeLogged
  <2>3. x \notin blurred' => x \notin blurred /\ value'[x] = value[x]
    BY DEF UpdateUserStatus, DeleteUser, DeleteContent
  <2>4. QED
    BY <1>1, <1>2, <2>2, <2>3, CellFramed DEF TellingInv
<1>5. QED
  BY <1>3, <1>4

\* An entry: it is the last one about the column that its request wrote.
LEMMA LogActionTells ==
    ASSUME TellingInv, NEW r \in Requests, LogAction(r)
    PROVE  LoggedAfterActing' /\ \A x \in Cells : CellTold(x)'
<1>1. PICK step \in {"act", "ended"} : request' = [request EXCEPT ![r].step = step]
  BY DEF LogAction
<1>2. /\ request'[r].command = request[r].command
      /\ request'[r].step # "log"
      /\ \A q \in Requests \ {r} : request'[q] = request[q]
  BY <1>1, StepMoves DEF TellingInv, AdministrationInv
<1>3. /\ request[r].step = "log" /\ log' = Append(log, r)
      /\ value' = value /\ blurred' = blurred
  BY DEF LogAction
<1>4. LoggedAfterActing'
  BY <1>2 DEF TellingInv, LoggedAfterActing
<1>5. log \in Seq(Requests)
  BY DEF TellingInv, AdministrationInv, TypeOK
<1>6. PICK n \in Nat :
      /\ DOMAIN log = 1 .. n - 1 /\ DOMAIN log' = 1 .. n
      /\ n \in DOMAIN log' /\ log'[n] = r
      /\ \A i \in DOMAIN log : log'[i] = log[i] /\ log[i] \in Requests
  <2>1. Len(log) + 1 \in Nat
    BY <1>5
  <2>2. QED
    BY <1>3, <1>5, <2>1
<1>7. \A q \in Requests : request'[q].command = request[q].command
  BY <1>2
<1>8. ASSUME NEW x \in Cells PROVE CellTold(x)'
  <2> SUFFICES ASSUME x \notin blurred' PROVE CellTold(x)'
    BY DEF CellTold
  <2>1. \A q \in Requests : Sets(q, x)' <=> Sets(q, x)
    BY <1>7 DEF Sets
  <2>2. CellTold(x) /\ x \notin blurred
    BY <1>3 DEF TellingInv
  <2>3. CASE Sets(r, x)
    <3>1. Pending(r, x)
      BY <1>3, <2>3 DEF TellingInv, LoggedAfterActing, LogsFirst, Pending, Sets, ToBeLogged
    <3>2. /\ value'[x] = request'[r].command.value
          /\ \A q \in Requests \ {r} : ~Pending(q, x)
      BY <1>3, <1>7, <2>2, <3>1 DEF CellTold
    <3>3. \A q \in Requests : ~Pending(q, x)'
      BY <1>2, <3>2 DEF Pending, Sets, ToBeLogged
    <3>4. Tells(x)'
      <4>1. Sets(log[n], x)'
        BY <1>6, <1>7, <2>3 DEF Sets
      <4>2. n \in {i \in DOMAIN log' : Sets(log[i], x)'}
        BY <1>6, <4>1
      <4>3. \A j \in DOMAIN log' : j <= n
        BY <1>6
      <4>4. value'[x] = request'[log'[n]].command.value
        BY <1>6, <3>2
      <4>5. QED
        BY <4>2, <4>3, <4>4 DEF Tells
    <3>5. QED
      BY <3>3, <3>4 DEF CellTold
  <2>4. CASE ~Sets(r, x)
    <3>1. \A q \in Requests : Pending(q, x)' <=> Pending(q, x)
      BY <1>2, <2>1, <2>4 DEF Pending, ToBeLogged
    <3>2. {i \in DOMAIN log' : Sets(log[i], x)'} = {i \in DOMAIN log : Sets(log[i], x)}
      <4>1. \A i \in DOMAIN log : Sets(log[i], x)' <=> Sets(log[i], x)
        BY <1>6, <1>7 DEF Sets
      <4>2. \A i \in DOMAIN log' : i \in DOMAIN log \/ i = n
        BY <1>6
      <4>3. ~Sets(log[n], x)'
        BY <1>6, <1>7, <2>4 DEF Sets
      <4>4. \A i \in DOMAIN log : i \in DOMAIN log'
        BY <1>6
      <4>5. QED
        BY <4>1, <4>2, <4>3, <4>4
    <3>3. \A i \in DOMAIN log : request'[log'[i]].command = request[log[i]].command
      BY <1>6, <1>7
    <3>4. Tells(x) => Tells(x)'
      BY <1>3, <3>2, <3>3 DEF Tells
    <3>5. QED
      BY <1>3, <1>7, <2>2, <3>1, <3>4 DEF CellTold
  <2>5. QED
    BY <2>3, <2>4
<1>9. QED
  BY <1>4, <1>8

\* A request that ends without its entry blurs the column it wrote.
LEMMA EndTells ==
    ASSUME TellingInv, NEW r \in Requests, LogActionFails(r) \/ RequestDies(r)
    PROVE  LoggedAfterActing' /\ \A x \in Cells : CellTold(x)'
<1>1. PICK step \in {"ended", "dead"} : request' = [request EXCEPT ![r].step = step]
  BY DEF LogActionFails, RequestDies
<1>2. /\ request'[r].command = request[r].command
      /\ request'[r].step # "log"
      /\ \A q \in Requests \ {r} : request'[q] = request[q]
  BY <1>1, StepMoves DEF TellingInv, AdministrationInv
<1>3. LoggedAfterActing'
  BY <1>2 DEF TellingInv, LoggedAfterActing
<1>4. log' = log /\ value' = value /\ blurred \subseteq blurred'
      /\ \A x \in Cells : Pending(r, x) => x \in blurred'
  BY DEF LogActionFails, RequestDies, Pending
<1>5. ASSUME NEW x \in Cells PROVE CellTold(x)'
  <2>1. x \notin blurred' => \A q \in Requests : Pending(q, x)' <=> Pending(q, x)
    BY <1>2, <1>4 DEF Pending, Sets, ToBeLogged
  <2>2. QED
    BY <1>2, <1>4, <2>1, CellFramed DEF TellingInv
<1>6. QED
  BY <1>3, <1>5

\* What goes past the log blurs what it sets.
LEMMA UnloggedTells ==
    ASSUME TellingInv,
           \/ \E x \in Cells : SetUnlogged(x)
           \/ \E k \in Posts \cup Comments : DeleteUnlogged(k)
           \/ UNCHANGED vars
    PROVE  LoggedAfterActing' /\ \A x \in Cells : CellTold(x)'
<1>1. request' = request /\ log' = log
  BY DEF SetUnlogged, DeleteUnlogged, vars
<1>2. \A x \in Cells : x \notin blurred' => x \notin blurred /\ value'[x] = value[x]
  BY DEF SetUnlogged, DeleteUnlogged, vars, TellingInv, AdministrationInv, TypeOK
<1>3. LoggedAfterActing'
  BY <1>1 DEF TellingInv, LoggedAfterActing
<1>4. ASSUME NEW x \in Cells PROVE CellTold(x)'
  <2>1. \A q \in Requests : Pending(q, x)' <=> Pending(q, x)
    BY <1>1 DEF Pending, Sets, ToBeLogged
  <2>2. QED
    BY <1>1, <1>2, <2>1, CellFramed DEF TellingInv
<1>5. QED
  BY <1>3, <1>4

\* At first there is no entry and every column has its first value.
LEMMA TellingInit == Init => TellingInv
<1> SUFFICES ASSUME Init PROVE TellingInv
  OBVIOUS
<1>1. \A r \in Requests : request[r].step = "unused"
  BY DEF Init
<1>2. \A x \in Cells : Tells(x)
  BY DEF Init, Tells
<1>3. \A x \in Cells : CellTold(x)
  BY <1>1, <1>2 DEF CellTold, Pending, ToBeLogged
<1>4. QED
  BY <1>1, <1>3, AdministrationInit DEF TellingInv, LoggedAfterActing

\* Every step keeps what the log tells.
LEMMA TellingNext == TellingInv /\ [Next]_vars => TellingInv'
<1> SUFFICES ASSUME TellingInv, [Next]_vars PROVE TellingInv'
  OBVIOUS
<1>1. AdministrationInv'
  BY AdministrationNext DEF TellingInv
<1>2. LoggedAfterActing' /\ \A x \in Cells : CellTold(x)'
  BY AuthorizeTells, SetColumnTells, WriteTells, LogActionTells, EndTells, UnloggedTells
     DEF Next
<1>3. QED
  BY <1>1, <1>2 DEF TellingInv

\* A column holds what its last entry names, whatever requests overlap or die.
THEOREM LogTells == Spec => []LogTellsState
<1>1. TellingInv => LogTellsState
  BY DEF TellingInv, CellTold, Pending, Tells, LogTellsState
<1>2. QED
  BY <1>1, TellingInit, TellingNext, PTL DEF Spec

----------------------------------------------------------------------------
(* ProfileCache: what getProfile serves, however its readers and the       *)
(* writers, of which administrators are, overlap.                          *)
(***************************************************************************)
\* A record of the type is put in the place of a call's, and of no other's.
LEMMA CallReplaced ==
    ASSUME CacheTypeOK, NEW c \in Calls, NEW rec \in CallRecord, Goto(c, rec)
    PROVE  /\ call' \in [Calls -> CallRecord]
           /\ call'[c] = rec
           /\ \A d \in Calls \ {c} : call'[d] = call[d]
BY DEF CacheTypeOK, Goto

\* A slot without a call is typed.
LEMMA IdleIsTyped == Idle \in CallRecord /\ Idle.step = "idle" /\ ~Idle.wrote
<1>1. 0 \in 0..MaxVersion
  BY CacheAssumption
<1>2. QED
  BY <1>1 DEF Idle, CallRecord, Step

\* What a call's record holds.
LEMMA CallTyped ==
    ASSUME CacheTypeOK, NEW c \in Calls
    PROVE  /\ call[c].step \in Step /\ call[c].user \in Users \cup {None}
           /\ call[c].key \in Names \cup {None} /\ call[c].version \in 0..MaxVersion
           /\ call[c].newName \in Names \cup {None} /\ call[c].wrote \in BOOLEAN
BY DEF CacheTypeOK, CallRecord

\* Nothing is cached at first, and no call is in flight.
LEMMA CacheInitKeeps == CacheInit => CacheInv
<1> SUFFICES ASSUME CacheInit PROVE CacheInv
  OBVIOUS
<1>1. CacheTypeOK
  <2>1. 0 \in 0..MaxVersion
    BY CacheAssumption
  <2>2. QED
    BY <2>1, IdleIsTyped DEF CacheInit, CacheTypeOK
<1>2. \A c \in Calls : call[c].step = "idle" /\ ~call[c].wrote
  BY DEF CacheInit, Idle
<1>3. CallsFit /\ ReadsStand
  BY <1>2 DEF CallsFit, ReadsStand, Current
<1>4. EntriesAccounted
  BY DEF EntriesAccounted, CacheInit
<1>5. QED
  BY <1>1, <1>3, <1>4 DEF CacheInv

\* A step that writes nothing, in which a call that has not written goes on.
LEMMA ReadingKeeps ==
    ASSUME CacheInv, NEW c \in Calls, NEW rec \in CallRecord, Goto(c, rec),
           UNCHANGED <<username, version, cache, excused>>,
           ~call[c].wrote, ~rec.wrote,
           rec.step # "idle" /\ rec.step # "findUsername" => rec.key \in Names,
           rec.step \notin {"idle", "find"} => rec.user \in Users,
           rec.step \in {"writeAccountType", "writeProfile"} => rec.newName \in Names,
           rec.step \in {"fill", "writeAccountType", "writeProfile"} =>
               username[rec.user] \in {None, rec.key},
           rec.step = "fill" => rec.version = version[rec.user]
    PROVE  CacheInv'
<1>1. /\ call' \in [Calls -> CallRecord] /\ call'[c] = rec
      /\ \A d \in Calls \ {c} : call'[d] = call[d]
  BY CallReplaced DEF CacheInv
<1>2. CacheTypeOK'
  BY <1>1 DEF CacheInv, CacheTypeOK
<1>3. CallsFit'
  BY <1>1 DEF CacheInv, CallsFit
<1>4. ReadsStand'
  BY <1>1 DEF CacheInv, ReadsStand, Current
<1>5. EntriesAccounted'
  <2>1. \A d \in Calls, u \in Users, n \in Names : WillDelete(d, u, n) => WillDelete(d, u, n)'
    BY <1>1 DEF WillDelete
  <2>2. QED
    BY <2>1 DEF CacheInv, EntriesAccounted
<1>6. QED
  BY <1>2, <1>3, <1>4, <1>5 DEF CacheInv

\* A read that misses the cache begins with nothing found.
LEMMA GetMissKeeps ==
    ASSUME CacheInv, NEW c \in Calls, NEW n \in Names, GetMiss(c, n)
    PROVE  CacheInv'
<1> DEFINE rec == [Idle EXCEPT !.step = "find", !.key = n]
<1>1. /\ rec \in CallRecord /\ rec.step = "find" /\ rec.key = n /\ ~rec.wrote
  BY IdleIsTyped DEF CallRecord, Step
<1>2. ~call[c].wrote /\ Goto(c, rec) /\ UNCHANGED <<username, version, cache, excused>>
  BY DEF GetMiss, Idle
<1> HIDE DEF rec
<1>3. QED
  BY <1>1, <1>2, ReadingKeeps

\* A read finds the row as it is.
LEMMA GetFindKeeps ==
    ASSUME CacheInv, NEW c \in Calls, GetFind(c)
    PROVE  CacheInv'
<1>1. /\ ~call[c].wrote /\ call[c].step = "find" /\ call[c].key \in Names
      /\ UNCHANGED <<username, version, cache, excused>>
  BY CallTyped DEF GetFind, CacheInv, CallsFit
<1>2. CASE Finish(c)
  BY <1>1, <1>2, IdleIsTyped, ReadingKeeps DEF Finish
<1>3. ASSUME NEW u \in Users, username[u] = call[c].key,
             Goto(c, [call[c] EXCEPT !.step = "fill", !.user = u, !.version = version[u]])
      PROVE  CacheInv'
  <2> DEFINE rec == [call[c] EXCEPT !.step = "fill", !.user = u, !.version = version[u]]
  <2>1. call[c] \in CallRecord /\ version[u] \in 0..MaxVersion
    BY DEF CacheInv, CacheTypeOK
  <2>2. /\ rec \in CallRecord /\ rec.step = "fill" /\ rec.user = u /\ rec.key = call[c].key
        /\ rec.version = version[u] /\ rec.wrote = call[c].wrote
    BY <2>1 DEF CallRecord, Step
  <2>3. Goto(c, rec)
    BY <1>3
  <2> HIDE DEF rec
  <2>4. QED
    BY <1>1, <1>3, <2>2, <2>3, ReadingKeeps
<1>4. QED
  BY <1>2, <1>3 DEF GetFind

\* An update finds the row that it is to write.
LEMMA UpdateFindKeeps ==
    ASSUME CacheInv, NEW c \in Calls, NEW u \in Users, NEW n \in Names, UpdateFind(c, u, n)
    PROVE  CacheInv'
<1>1. PICK step \in {"writeAccountType", "writeProfile"} :
          Goto(c, [Idle EXCEPT !.step = step, !.user = u, !.key = username[u], !.newName = n])
  BY DEF UpdateFind
<1> DEFINE rec == [Idle EXCEPT !.step = step, !.user = u, !.key = username[u], !.newName = n]
<1>2. username[u] \in Names
  BY DEF UpdateFind, CacheInv, CacheTypeOK
<1>3. /\ rec \in CallRecord /\ rec.step = step /\ rec.user = u /\ rec.key = username[u]
      /\ rec.newName = n /\ ~rec.wrote
  BY <1>2, IdleIsTyped DEF CallRecord, Step
<1>4. ~call[c].wrote /\ Goto(c, rec) /\ UNCHANGED <<username, version, cache, excused>>
  BY <1>1 DEF UpdateFind, Idle
<1> HIDE DEF rec
<1>5. QED
  BY <1>2, <1>3, <1>4, ReadingKeeps

\* A soft deletion names the entry that it is to remove.
LEMMA SoftDeleteKeeps ==
    ASSUME CacheInv, NEW c \in Calls, NEW u \in Users, SoftDelete(c, u)
    PROVE  CacheInv'
<1> DEFINE rec == [Idle EXCEPT !.step = "del", !.user = u, !.key = username[u]]
<1>1. username[u] \in Names
  BY DEF SoftDelete, CacheInv, CacheTypeOK
<1>2. /\ rec \in CallRecord /\ rec.step = "del" /\ rec.user = u /\ rec.key = username[u]
      /\ ~rec.wrote
  BY <1>1, IdleIsTyped DEF CallRecord, Step
<1>3. ~call[c].wrote /\ Goto(c, rec) /\ UNCHANGED <<username, version, cache, excused>>
  BY DEF SoftDelete, Idle
<1> HIDE DEF rec
<1>4. QED
  BY <1>1, <1>2, <1>3, ReadingKeeps

\* The step of a call that removes at most entries from the cache, and not those it
\* would still account for.
LEMMA EndingKeeps ==
    ASSUME CacheInv, NEW c \in Calls, Finish(c), UNCHANGED <<username, version>>,
           cache' \in [Names -> Entry \cup {None}],
           excused \subseteq excused', excused' \subseteq Users,
           \A n \in Names : cache'[n] # None => cache'[n] = cache[n],
           \A u \in Users \ excused', n \in Names : WillDelete(c, u, n) =>
               cache'[n] = None \/ username[u] = None
    PROVE  CacheInv'
<1>1. /\ call' \in [Calls -> CallRecord] /\ call'[c] = Idle
      /\ \A d \in Calls \ {c} : call'[d] = call[d]
  BY CallReplaced, IdleIsTyped DEF CacheInv, Finish
<1>2. CacheTypeOK'
  BY <1>1 DEF CacheInv, CacheTypeOK
<1>3. CallsFit'
  BY <1>1, IdleIsTyped DEF CacheInv, CallsFit
<1>4. ReadsStand'
  BY <1>1, IdleIsTyped DEF CacheInv, ReadsStand, Current
<1>5. EntriesAccounted'
  <2> SUFFICES ASSUME NEW u \in Users \ excused', NEW n \in Names, cache'[n] # None,
                      cache'[n].user = u, username[u] # None
               PROVE  \/ username[u] = n /\ version[u] = cache[n].version
                      \/ \E d \in Calls : WillDelete(d, u, n)'
    BY DEF EntriesAccounted
  <2>1. cache'[n] = cache[n]
    OBVIOUS
  <2>2. CASE username[u] = n /\ version[u] = cache[n].version
    BY <2>2
  <2>3. ASSUME NEW d \in Calls, WillDelete(d, u, n)
        PROVE  WillDelete(d, u, n)'
    <3>1. d # c
      BY <2>3
    <3>2. QED
      BY <1>1, <2>3, <3>1 DEF WillDelete
  <2>4. QED
    BY <2>1, <2>2, <2>3 DEF CacheInv, EntriesAccounted
<1>6. QED
  BY <1>2, <1>3, <1>4, <1>5 DEF CacheInv

\* A call that has ended accounts for the entries under the key it deletes only.
LEMMA DelKeeps ==
    ASSUME CacheInv, NEW c \in Calls, Del(c)
    PROVE  CacheInv'
<1>1. /\ call[c].step = "del" /\ cache' = [cache EXCEPT ![call[c].key] = None]
      /\ Finish(c) /\ UNCHANGED <<username, version, excused>>
  BY DEF Del
<1>2. call[c].key \in Names /\ cache \in [Names -> Entry \cup {None}] /\ excused \subseteq Users
  BY <1>1 DEF CacheInv, CallsFit, CacheTypeOK
<1>3. /\ cache' \in [Names -> Entry \cup {None}] /\ cache'[call[c].key] = None
      /\ \A n \in Names : cache'[n] # None => cache'[n] = cache[n]
  BY <1>1, <1>2
<1>4. \A u \in Users, n \in Names : WillDelete(c, u, n) => cache'[n] = None
  BY <1>1, <1>3 DEF WillDelete
<1>5. QED
  BY <1>1, <1>2, <1>3, <1>4, EndingKeeps

\* A writer that dies excuses its user.
LEMMA CallDiesKeeps ==
    ASSUME CacheInv, NEW c \in Calls, CallDies(c)
    PROVE  CacheInv'
<1>1. /\ excused' = IF call[c].wrote THEN excused \cup {call[c].user} ELSE excused
      /\ Finish(c) /\ UNCHANGED <<username, version, cache>>
  BY DEF CallDies
<1>2. call[c].wrote => call[c].user \in Users
  BY CallTyped DEF CacheInv, CallsFit
<1>3. excused \subseteq excused' /\ excused' \subseteq Users
  BY <1>1, <1>2 DEF CacheInv, CacheTypeOK
<1>4. \A u \in Users \ excused', n \in Names : ~WillDelete(c, u, n)
  BY <1>1 DEF WillDelete
<1>5. cache' \in [Names -> Entry \cup {None}]
  BY <1>1 DEF CacheInv, CacheTypeOK
<1>6. QED
  BY <1>1, <1>3, <1>4, <1>5, EndingKeeps

\* An administrator finds the name under which a profile is cached.
LEMMA AdminFindUsernameKeeps ==
    ASSUME CacheInv, NEW c \in Calls, AdminFindUsername(c)
    PROVE  CacheInv'
<1>1. call[c].step = "findUsername" /\ UNCHANGED <<username, version, cache, excused>>
  BY DEF AdminFindUsername
<1>2. call[c].user \in Users
  BY <1>1 DEF CacheInv, CallsFit
<1>3. CASE username[call[c].user] = None /\ Finish(c)
  <2>1. \A u \in Users, n \in Names : WillDelete(c, u, n) => username[u] = None
    BY <1>3 DEF WillDelete
  <2>2. cache' \in [Names -> Entry \cup {None}] /\ excused' \subseteq Users
    BY <1>1 DEF CacheInv, CacheTypeOK
  <2>3. QED
    BY <1>1, <1>3, <2>1, <2>2, EndingKeeps
<1>4. ASSUME username[call[c].user] # None,
             Goto(c, [call[c] EXCEPT !.step = "del", !.key = username[call[c].user]])
      PROVE  CacheInv'
  <2> DEFINE rec == [call[c] EXCEPT !.step = "del", !.key = username[call[c].user]]
  <2>1. username[call[c].user] \in Names /\ call[c] \in CallRecord
    BY <1>2, <1>4 DEF CacheInv, CacheTypeOK
  <2>2. /\ rec \in CallRecord /\ rec.step = "del" /\ rec.user = call[c].user
        /\ rec.key = username[call[c].user] /\ rec.wrote = call[c].wrote
    BY <2>1 DEF CallRecord, Step
  <2>3. Goto(c, rec)
    BY <1>4
  <2> HIDE DEF rec
  <2>4. /\ call' \in [Calls -> CallRecord] /\ call'[c] = rec
        /\ \A d \in Calls \ {c} : call'[d] = call[d]
    BY <2>2, <2>3, CallReplaced DEF CacheInv
  <2>5. CacheTypeOK' /\ CallsFit'
    BY <1>1, <1>2, <2>1, <2>2, <2>4 DEF CacheInv, CacheTypeOK, CallsFit
  <2>6. ReadsStand'
    BY <1>1, <2>2, <2>4 DEF CacheInv, ReadsStand, Current
  <2>7. \A d \in Calls, u \in Users, n \in Names : WillDelete(d, u, n) => WillDelete(d, u, n)'
    BY <1>1, <2>2, <2>4 DEF WillDelete
  <2>8. EntriesAccounted'
    BY <1>1, <2>7 DEF CacheInv, EntriesAccounted
  <2>9. QED
    BY <2>5, <2>6, <2>8 DEF CacheInv
<1>5. QED
  BY <1>1, <1>3, <1>4 DEF AdminFindUsername

\* A read fills the cache with what it found, outdated or not.
LEMMA GetFillKeeps ==
    ASSUME CacheInv, NEW c \in Calls, GetFill(c)
    PROVE  CacheInv'
<1> DEFINE e == [user |-> call[c].user, version |-> call[c].version]
<1>1. /\ call[c].step = "fill" /\ cache' = [cache EXCEPT ![call[c].key] = e]
      /\ Finish(c) /\ UNCHANGED <<username, version, excused>>
  BY DEF GetFill
<1>2. /\ call[c].key \in Names /\ call[c].user \in Users /\ call[c].version \in 0..MaxVersion
      /\ ~call[c].wrote
  BY <1>1, CallTyped DEF CacheInv, CallsFit
<1>3. e \in Entry /\ e.user = call[c].user /\ e.version = call[c].version
  BY <1>2 DEF Entry
<1> HIDE DEF e
<1>4. /\ cache' \in [Names -> Entry \cup {None}] /\ cache'[call[c].key] = e
      /\ \A n \in Names \ {call[c].key} : cache'[n] = cache[n]
  BY <1>1, <1>2, <1>3 DEF CacheInv, CacheTypeOK
<1>5. /\ call' \in [Calls -> CallRecord] /\ call'[c] = Idle
      /\ \A d \in Calls \ {c} : call'[d] = call[d]
  BY <1>1, CallReplaced, IdleIsTyped DEF CacheInv, Finish
<1>6. CacheTypeOK' /\ CallsFit'
  BY <1>1, <1>4, <1>5, IdleIsTyped DEF CacheInv, CacheTypeOK, CallsFit
<1>7. ReadsStand'
  BY <1>1, <1>5, IdleIsTyped DEF CacheInv, ReadsStand, Current
<1>8. EntriesAccounted'
  <2> SUFFICES ASSUME NEW u \in Users \ excused, NEW n \in Names, cache'[n] # None,
                      cache'[n].user = u, username[u] # None
               PROVE  \/ username[u] = n /\ version[u] = cache'[n].version
                      \/ \E d \in Calls : WillDelete(d, u, n)'
    BY <1>1 DEF EntriesAccounted
  <2>1. CASE n = call[c].key
    <3>1. u = call[c].user
      BY <1>3, <1>4, <2>1
    <3>2. c \in Current(u)
      BY <3>1 DEF Current
    <3>3. username[u] = n /\ version[u] = call[c].version
      BY <1>1, <2>1, <3>2 DEF CacheInv, ReadsStand
    <3>4. QED
      BY <1>3, <1>4, <2>1, <3>3
  <2>2. CASE n # call[c].key
    <3>1. \A d \in Calls : WillDelete(d, u, n) => WillDelete(d, u, n)'
      BY <1>1, <1>2, <1>5 DEF WillDelete
    <3>2. cache'[n] = cache[n]
      BY <1>4, <2>2
    <3>3. QED
      BY <3>1, <3>2 DEF CacheInv, EntriesAccounted
  <2>3. QED
    BY <2>1, <2>2
<1>9. QED
  BY <1>6, <1>7, <1>8 DEF CacheInv

\* A write of cached columns of u, by a call that had no other user: unless it
\* overlaps another call, it accounts for the entries of u from then on.
LEMMA CacheWriteKeeps ==
    ASSUME CacheInv, NEW c \in Calls, NEW u \in Users, NEW rec \in CallRecord,
           Write(c, u), Goto(c, rec), cache' = cache,
           username' \in [Users -> Names \cup {None}],
           \A v \in Users \ {u} : username'[v] = username[v],
           call[c].user \in {u, None}, rec.user = u,
           rec.step \in {"writeProfile", "findUsername", "del"},
           rec.step # "findUsername" => rec.key \in Names,
           rec.step = "writeProfile" => rec.newName \in Names,
           ~Overlapped(c, u) /\ u \notin excused =>
               /\ rec.step = "writeProfile" => rec.key = username'[u]
               /\ \A n \in Names :
                      username[u] = n \/ WillDelete(c, u, n) => WillDelete(c, u, n)'
    PROVE  CacheInv'
<1>1. /\ call' \in [Calls -> CallRecord] /\ call'[c] = rec
      /\ \A d \in Calls \ {c} : call'[d] = call[d]
  BY CallReplaced DEF CacheInv
<1>2. /\ version' = [version EXCEPT ![u] = @ + 1] /\ version[u] < MaxVersion
      /\ excused' = IF Overlapped(c, u) THEN excused \cup {u} ELSE excused
  BY DEF Write
<1>3. /\ version' \in [Users -> 0..MaxVersion]
      /\ \A v \in Users \ {u} : version'[v] = version[v]
  BY <1>2, CacheAssumption DEF CacheInv, CacheTypeOK
<1>4. excused \subseteq excused' /\ excused' \subseteq Users
  BY <1>2 DEF CacheInv, CacheTypeOK
<1>5. u \notin excused' => /\ ~Overlapped(c, u) /\ u \notin excused
                           /\ \A d \in Calls \ {c} : call[d].user # u
  BY <1>2 DEF Overlapped
<1>6. CacheTypeOK'
  BY <1>1, <1>3, <1>4 DEF CacheInv, CacheTypeOK
<1>7. CallsFit'
  BY <1>1 DEF CacheInv, CallsFit
<1>8. ReadsStand'
  <2> SUFFICES ASSUME NEW v \in Users, NEW d \in Calls, d \in Current(v)'
               PROVE  /\ call'[d].step \in {"fill", "writeAccountType", "writeProfile"} =>
                             call'[d].key = username'[v]
                      /\ call'[d].step = "fill" => call'[d].version = version'[v]
    BY DEF ReadsStand, Current
  <2>1. call'[d].user = v /\ username'[v] # None /\ v \notin excused'
    BY DEF Current
  <2>2. CASE v = u
    BY <1>1, <1>5, <2>1, <2>2
  <2>3. CASE v # u
    <3>1. d # c
      BY <1>1, <2>1, <2>3
    <3>2. d \in Current(v)
      BY <1>1, <1>4, <2>1, <2>3, <3>1 DEF Current
    <3>3. QED
      BY <1>1, <1>3, <2>3, <3>1, <3>2 DEF CacheInv, ReadsStand
  <2>4. QED
    BY <2>2, <2>3
<1>9. EntriesAccounted'
  <2> SUFFICES ASSUME NEW v \in Users \ excused', NEW n \in Names, cache[n] # None,
                      cache[n].user = v, username'[v] # None
               PROVE  \/ username'[v] = n /\ version'[v] = cache[n].version
                      \/ \E d \in Calls : WillDelete(d, v, n)'
    BY DEF EntriesAccounted
  <2>1. CASE v = u
    <3>1. username[u] # None
      BY DEF Write
    <3>2. username[u] = n \/ \E d \in Calls : WillDelete(d, u, n)
      BY <1>5, <2>1, <3>1 DEF CacheInv, EntriesAccounted
    <3>3. username[u] = n \/ WillDelete(c, u, n)
      BY <1>5, <2>1, <3>2 DEF WillDelete
    <3>4. WillDelete(c, u, n)'
      BY <1>5, <2>1, <3>3
    <3>5. QED
      BY <2>1, <3>4
  <2>2. CASE v # u
    <3>1. username'[v] = username[v] /\ version'[v] = version[v] /\ v \in Users \ excused
      BY <1>3, <1>4, <2>2
    <3>2. ASSUME NEW d \in Calls, WillDelete(d, v, n) PROVE WillDelete(d, v, n)'
      <4>1. d # c
        BY <2>2, <3>2, AccountsAssumption DEF WillDelete
      <4>2. QED
        BY <1>1, <3>1, <3>2, <4>1 DEF WillDelete
    <3>3. QED
      BY <3>1, <3>2 DEF CacheInv, EntriesAccounted
  <2>3. QED
    BY <2>1, <2>2
<1>10. QED
  BY <1>6, <1>7, <1>8, <1>9 DEF CacheInv

\* An administrator's write owes the cache a removal.
LEMMA AdminWriteKeeps ==
    ASSUME CacheInv, NEW c \in Calls, NEW u \in Users, AdminWrite(c, u)
    PROVE  CacheInv'
<1> DEFINE rec == [Idle EXCEPT !.step = "findUsername", !.user = u, !.wrote = TRUE]
<1>1. /\ rec \in CallRecord /\ rec.step = "findUsername" /\ rec.user = u /\ rec.wrote = TRUE
  BY IdleIsTyped DEF CallRecord, Step
<1>2. /\ Write(c, u) /\ Goto(c, rec) /\ UNCHANGED <<username, cache>> /\ call[c] = Idle
  BY DEF AdminWrite
<1> HIDE DEF rec
<1>3. username \in [Users -> Names \cup {None}]
  BY DEF CacheInv, CacheTypeOK
<1>4. call'[c] = rec
  BY <1>1, <1>2, CallReplaced DEF CacheInv
<1>5. \A n \in Names : username[u] = n \/ WillDelete(c, u, n) => WillDelete(c, u, n)'
  BY <1>1, <1>2, <1>4, IdleIsTyped DEF WillDelete
<1>6. call[c].user = None
  BY <1>2 DEF Idle
<1>7. QED
  BY <1>1, <1>2, <1>3, <1>5, <1>6, CacheWriteKeeps

\* A change of the account type is a write like others.
LEMMA UpdateAccountTypeKeeps ==
    ASSUME CacheInv, NEW c \in Calls, UpdateAccountType(c)
    PROVE  CacheInv'
<1>0. PICK u \in Users : u = call[c].user
  BY DEF UpdateAccountType, CacheInv, CallsFit
<1> DEFINE rec == [call[c] EXCEPT !.step = "writeProfile", !.wrote = TRUE]
<1>1. /\ call[c].step = "writeAccountType" /\ Write(c, u) /\ Goto(c, rec)
      /\ UNCHANGED <<username, cache>>
  BY <1>0 DEF UpdateAccountType
<1>2. call[c].key \in Names /\ call[c].newName \in Names /\ ~call[c].wrote
  BY <1>0, <1>1, CallTyped DEF CacheInv, CallsFit
<1>3. /\ rec \in CallRecord /\ rec.step = "writeProfile" /\ rec.user = u /\ rec.wrote = TRUE
      /\ rec.key = call[c].key /\ rec.newName = call[c].newName
  <2>1. call[c] \in CallRecord
    BY DEF CacheInv, CacheTypeOK
  <2>2. QED
    BY <1>0, <2>1 DEF CallRecord, Step
<1> HIDE DEF rec
<1>4. username \in [Users -> Names \cup {None}]
  BY DEF CacheInv, CacheTypeOK
<1>5. call'[c] = rec
  BY <1>1, <1>3, CallReplaced DEF CacheInv
<1>6. username[u] # None
  BY <1>1 DEF Write
<1>7. u \notin excused => call[c].key = username[u]
  BY <1>0, <1>1, <1>2, <1>6 DEF CacheInv, ReadsStand, Current
<1>8. u \notin excused => \A n \in Names :
          username[u] = n \/ WillDelete(c, u, n) => WillDelete(c, u, n)'
  BY <1>2, <1>3, <1>5, <1>7 DEF WillDelete
<1>9. call[c].user \in {u, None} /\ cache' = cache /\ username' = username
  BY <1>0, <1>1
<1>10. QED
  BY <1>1, <1>2, <1>3, <1>4, <1>7, <1>8, <1>9, CacheWriteKeeps

\* An update writes the row, and owes the cache a removal.
LEMMA UpdateRowKeeps ==
    ASSUME CacheInv, NEW c \in Calls, UpdateRow(c)
    PROVE  CacheInv'
<1>0. PICK u \in Users : u = call[c].user
  BY DEF UpdateRow, CacheInv, CallsFit
<1> DEFINE rec == [Idle EXCEPT !.step = "del", !.user = u, !.key = call[c].key, !.wrote = TRUE]
<1>1. /\ call[c].step = "writeProfile" /\ Write(c, u) /\ Goto(c, rec)
      /\ username' = [username EXCEPT ![u] = call[c].newName] /\ cache' = cache
  BY <1>0 DEF UpdateRow
<1>2. call[c].key \in Names /\ call[c].newName \in Names
  BY <1>0, <1>1 DEF CacheInv, CallsFit
<1>3. /\ rec \in CallRecord /\ rec.step = "del" /\ rec.user = u /\ rec.wrote = TRUE
      /\ rec.key = call[c].key
  BY <1>2, IdleIsTyped DEF CallRecord, Step
<1> HIDE DEF rec
<1>4. /\ username' \in [Users -> Names \cup {None}]
      /\ \A v \in Users \ {u} : username'[v] = username[v]
  BY <1>1, <1>2 DEF CacheInv, CacheTypeOK
<1>5. call'[c] = rec
  BY <1>1, <1>3, CallReplaced DEF CacheInv
<1>6. username[u] # None
  BY <1>1 DEF Write
<1>7. u \notin excused => call[c].key = username[u]
  BY <1>0, <1>1, <1>2, <1>6 DEF CacheInv, ReadsStand, Current
<1>8. u \notin excused => \A n \in Names :
          username[u] = n \/ WillDelete(c, u, n) => WillDelete(c, u, n)'
  BY <1>1, <1>3, <1>5, <1>7 DEF WillDelete
<1>9. call[c].user \in {u, None}
  BY <1>0
<1>10. QED
  BY <1>1, <1>2, <1>3, <1>4, <1>8, <1>9, CacheWriteKeeps

\* What is cached of an account that is gone is no longer accounted for.
LEMMA AdminDeleteUserKeeps ==
    ASSUME CacheInv, NEW u \in Users, AdminDeleteUser(u)
    PROVE  CacheInv'
<1>1. username' = [username EXCEPT ![u] = None] /\ UNCHANGED <<version, cache, call, excused>>
  BY DEF AdminDeleteUser
<1>2. /\ username' \in [Users -> Names \cup {None}] /\ username'[u] = None
      /\ \A v \in Users \ {u} : username'[v] = username[v]
  BY <1>1 DEF CacheInv, CacheTypeOK
<1>3. CacheTypeOK' /\ CallsFit'
  BY <1>1, <1>2 DEF CacheInv, CacheTypeOK, CallsFit
<1>4. ReadsStand'
  BY <1>1, <1>2 DEF CacheInv, ReadsStand, Current
<1>5. EntriesAccounted'
  <2>1. \A c \in Calls, v \in Users \ {u}, n \in Names :
            WillDelete(c, v, n) => WillDelete(c, v, n)'
    BY <1>1, <1>2 DEF WillDelete
  <2>2. QED
    BY <1>1, <1>2, <2>1 DEF CacheInv, EntriesAccounted
<1>6. QED
  BY <1>3, <1>4, <1>5 DEF CacheInv

\* An entry that expires is gone.
LEMMA ExpireKeeps ==
    ASSUME CacheInv, NEW n \in Names, Expire(n)
    PROVE  CacheInv'
<1>1. cache' = [cache EXCEPT ![n] = None] /\ UNCHANGED <<username, version, call, excused>>
  BY DEF Expire
<1>2. /\ cache' \in [Names -> Entry \cup {None}]
      /\ \A m \in Names : cache'[m] # None => cache'[m] = cache[m]
  BY <1>1 DEF CacheInv, CacheTypeOK
<1>3. CacheTypeOK' /\ CallsFit' /\ ReadsStand'
  BY <1>1, <1>2 DEF CacheInv, CacheTypeOK, CallsFit, ReadsStand, Current
<1>4. EntriesAccounted'
  <2>1. \A c \in Calls, u \in Users, m \in Names : WillDelete(c, u, m) => WillDelete(c, u, m)'
    BY <1>1 DEF WillDelete
  <2>2. QED
    BY <1>1, <1>2, <2>1 DEF CacheInv, EntriesAccounted
<1>5. QED
  BY <1>3, <1>4 DEF CacheInv

\* Every step keeps the invariant.
LEMMA CacheNextKeeps == CacheInv /\ [CacheNext]_cacheVars => CacheInv'
<1> SUFFICES ASSUME CacheInv, [CacheNext]_cacheVars PROVE CacheInv'
  OBVIOUS
<1>1. ASSUME NEW c \in Calls, Advance(c) PROVE CacheInv'
  BY <1>1, GetFindKeeps, GetFillKeeps, UpdateAccountTypeKeeps, UpdateRowKeeps, DelKeeps,
     AdminFindUsernameKeeps, CallDiesKeeps DEF Advance
<1>2. CASE UNCHANGED cacheVars
  <2>1. \A c \in Calls, u \in Users, n \in Names : WillDelete(c, u, n) => WillDelete(c, u, n)'
    BY <1>2 DEF WillDelete, cacheVars
  <2>2. EntriesAccounted'
    BY <1>2, <2>1 DEF CacheInv, EntriesAccounted, cacheVars
  <2>3. QED
    BY <1>2, <2>2 DEF CacheInv, CacheTypeOK, CallsFit, ReadsStand, Current, cacheVars
<1>3. QED
  BY <1>1, <1>2, GetMissKeeps, UpdateFindKeeps, SoftDeleteKeeps, AdminWriteKeeps,
     AdminDeleteUserKeeps, ExpireKeeps DEF CacheNext

\* The invariant of the cache.
LEMMA CacheInvariance == CacheSpec => []CacheInv
BY CacheInitKeeps, CacheNextKeeps, PTL DEF CacheSpec

\* The cache and the calls stay within their types.
THEOREM CacheTyped == CacheSpec => []CacheTypeOK
<1>1. CacheInv => CacheTypeOK
  BY DEF CacheInv
<1>2. QED
  BY <1>1, CacheInvariance, PTL

\* Once the calls on a profile have ended, what is cached of it is what the database
\* holds, unless a write overlapped another call on it or a writer died: for any
\* numbers of profiles, names, calls and writes.
THEOREM CacheStaysFresh == CacheSpec => []CacheIsFresh
<1>1. CacheInv => CacheIsFresh
  <2> SUFFICES ASSUME CacheInv, NEW n \in Names, cache[n] # None,
                      username[cache[n].user] # None, cache[n].user \notin excused,
                      CacheQuiet(cache[n].user)
               PROVE  username[cache[n].user] = n /\ version[cache[n].user] = cache[n].version
    BY DEF CacheIsFresh
  <2>1. cache[n].user \in Users
    BY DEF CacheInv, CacheTypeOK, Entry
  <2>2. \A c \in Calls : ~WillDelete(c, cache[n].user, n)
    BY DEF CacheQuiet, WillDelete
  <2>3. QED
    BY <2>1, <2>2 DEF CacheInv, EntriesAccounted
<1>2. QED
  BY <1>1, CacheInvariance, PTL

=============================================================================
