--------------------------- MODULE Administration ---------------------------
(***************************************************************************)
(* AdminService (src/src/admin/admin.service.ts): what administrators do   *)
(* to accounts, content and reports, and the log that is kept of it.       *)
(*                                                                         *)
(* A request passes the guard, which reads the administrator's role, and   *)
(* then makes two statements: deleteUser and deletePost (deleteWhitelist   *)
(* likewise) log first and delete then; the others write first and log     *)
(* then.  The refresh of the profile cache that follows is in ProfileCache.*)
(***************************************************************************)
EXTENDS Accounts, Naturals, Sequences, SequencesExt

CONSTANTS
    Admins,    \* who has the role to begin with
    Posts,     \* content whose deletion is logged first
    Comments,  \* content whose deletion is logged last (stories likewise)
    Reports,   \* rows whose update is logged last (the whitelist, audio likewise)
    Holders,   \* of each of those, what it is deleted with: author and post
    Requests   \* requests of administrators, each made once

Written == Posts \cup Comments \cup Reports

ASSUME AdministrationAssumption ==
    /\ None \notin Written
    /\ Users \cap Written = {}
    /\ Admins \subseteq Users
    /\ Holders \in [Written -> SUBSET (Users \cup Posts)]

VARIABLES
    rows,     \* the users, posts, comments and reports that exist
    value,    \* [Cells -> Value]: the columns that administrators set
    request,  \* [Requests -> RequestRecord]
    log,      \* AdminAuditLog: the requests that were logged, in order
    blurred   \* History: cells whose last write was not logged, or not in order

vars == <<rows, value, request, log, blurred>>

\* isActive; role, which is on for ADMIN; status, which is on for one of the
\* two decisions about a report.
Cells == (Users \X {"isActive", "role"}) \cup (Reports \X {"status"})
Value == {"on", "off"}

\* The columns each entry of the log names with their new values (ban_user,
\* promote_user, resolved_report); update_user_status names neither.
Command ==
    [action : {"set"}, target : Cells, value : Value] \cup
    [action : {"updateUserStatus", "deleteUser"}, target : Users, value : {"off"}] \cup
    [action : {"deletePost"}, target : Posts, value : {"off"}] \cup
    [action : {"deleteComment"}, target : Comments, value : {"off"}]
\* Mutant: bans, promotions and report decisions are logged before they are made.
LogsFirst_Sets(command) == command.action \in {"deleteUser", "deletePost", "set"}
LogsFirst(command) == command.action \in {"deleteUser", "deletePost"}

NoCommand == [action |-> "none", target |-> None, value |-> "off"]
RequestRecord == [step : {"unused", "log", "act", "ended", "dead"},
                  admin : Users \cup {None}, command : Command \cup {NoCommand},
                  effect : {"no", "yes"}]

TypeOK ==
    /\ rows \subseteq Users \cup Written
    /\ value \in [Cells -> Value]
    /\ request \in [Requests -> RequestRecord]
    /\ log \in Seq(Requests)
    /\ blurred \subseteq Cells

FirstValue ==
    [x \in Cells |-> CASE x[2] = "isActive" -> "on"
                       [] x[2] = "role" -> IF x[1] \in Admins THEN "on" ELSE "off"
                       [] x[2] = "status" -> "off"]

Init ==
    /\ rows = Users \cup Written
    /\ value = FirstValue
    /\ request = [r \in Requests |-> [step |-> "unused", admin |-> None,
                                      command |-> NoCommand, effect |-> "no"]]
    /\ log = <<>>
    /\ blurred = {}

Logged(r) == \E i \in DOMAIN log : log[i] = r
\* Whose accounts the log refers to.
Acted(u) == \E i \in DOMAIN log : request[log[i]].admin = u

\* What was written and is still to be logged.
ToBeLogged(r) == request[r].step = "log" /\ request[r].effect = "yes"
Sets(r, x) == request[r].command.action = "set" /\ request[r].command.target = x

\* Deletions cascade.
Without(row) == rows \ ({row} \cup {k \in Written : row \in Holders[k]})

----------------------------------------------------------------------------
(* The guard.                                                              *)
(***************************************************************************)
Authorize(r, u) ==
    /\ request[r].step = "unused"
    /\ u \in rows /\ value[<<u, "role">>] = "on"
    /\ \E command \in Command :
           request' = [request EXCEPT ![r] =
               [step |-> IF LogsFirst(command) THEN "log" ELSE "act", admin |-> u,
                command |-> command, effect |-> "no"]]
    /\ UNCHANGED <<rows, value, log, blurred>>

----------------------------------------------------------------------------
(* The writes.                                                             *)
(***************************************************************************)
Acting(r, action) == request[r].step = "act" /\ request[r].command.action = action
Target(r) == request[r].command.target

Wrote(r) ==
    request' = [request EXCEPT ![r].effect = "yes",
                    ![r].step = IF LogsFirst(request[r].command) THEN "ended" ELSE "log"]

\* banUser, unbanUser, promoteUser, demoteUser, updateReportStatus.  Whose entry
\* is first is open again while another write of the column is to be logged.
SetColumn(r) ==
    LET x == Target(r) IN
    /\ Acting(r, "set")
    /\ x[1] \in rows
    /\ value' = [value EXCEPT ![x] = request[r].command.value]
    /\ Wrote(r)
    /\ blurred' = IF \E q \in Requests \ {r} : Sets(q, x) /\ ToBeLogged(q)
                  THEN blurred \cup {x} ELSE blurred \ {x}
    /\ UNCHANGED <<rows, log>>

UpdateUserStatus(r) ==
    LET u == Target(r) IN
    /\ Acting(r, "updateUserStatus")
    /\ u \in rows
    /\ \E isActive, role \in Value :
           value' = [value EXCEPT ![<<u, "isActive">>] = isActive, ![<<u, "role">>] = role]
    /\ Wrote(r)
    /\ blurred' = blurred \cup {x \in Cells : value'[x] # value[x]}
    /\ UNCHANGED <<rows, log>>

\* The entries of an administrator keep the account: no onDelete, so RESTRICT.
DeleteUser(r) ==
    /\ Acting(r, "deleteUser")
    /\ Target(r) \in rows /\ ~Acted(Target(r))
    /\ rows' = Without(Target(r))
    /\ Wrote(r)
    /\ UNCHANGED <<value, log, blurred>>

DeleteContent(r) ==
    /\ Acting(r, "deletePost") \/ Acting(r, "deleteComment")
    /\ Target(r) \in rows
    /\ rows' = Without(Target(r))
    /\ Wrote(r)
    /\ UNCHANGED <<value, log, blurred>>

\* The foreign key of an entry needs the administrator.
LogAction(r) ==
    /\ request[r].step = "log"
    /\ request[r].admin \in rows
    /\ log' = Append(log, r)
    /\ request' = [request EXCEPT ![r].step =
                       IF LogsFirst(request[r].command) THEN "act" ELSE "ended"]
    /\ UNCHANGED <<rows, value, blurred>>

\* Mutant: an entry that could not be written is ignored.
LogActionFails_Ignored(r) ==
    /\ request[r].step = "log"
    /\ request' = [request EXCEPT ![r].step =
                       IF LogsFirst(request[r].command) THEN "act" ELSE "ended"]
    /\ UNCHANGED <<rows, value, log, blurred>>

\* The entry is refused, and with it the request: the administrator is gone.
LogActionFails(r) ==
    /\ request[r].step = "log"
    /\ request[r].admin \notin rows
    /\ request' = [request EXCEPT ![r].step = "ended"]
    /\ blurred' = IF ToBeLogged(r) THEN blurred \cup {x \in Cells : Sets(r, x)} ELSE blurred
    /\ UNCHANGED <<rows, value, log>>

\* Another statement fails, or the process stops.
RequestDies(r) ==
    /\ request[r].step \in {"log", "act"}
    /\ request' = [request EXCEPT ![r].step = "dead"]
    /\ blurred' = IF ToBeLogged(r) THEN blurred \cup {x \in Cells : Sets(r, x)} ELSE blurred
    /\ UNCHANGED <<rows, value, log>>

----------------------------------------------------------------------------
(* What is done to the same rows elsewhere and logs nothing.               *)
(***************************************************************************)
\* deactivateAccount and deleteAccount, the controllers of users and reports for
\* administrators, the script grant-admin.
SetUnlogged(x) ==
    /\ x[1] \in rows
    /\ \E v \in Value : value' = [value EXCEPT ![x] = v]
    /\ blurred' = blurred \cup {x}
    /\ UNCHANGED <<rows, request, log>>

\* The author, or the posts controller for administrators.
DeleteUnlogged(k) ==
    /\ k \in rows \cap (Posts \cup Comments)
    /\ rows' = Without(k)
    /\ UNCHANGED <<value, request, log, blurred>>

Next ==
    \/ \E r \in Requests :
        \/ \E u \in Users : Authorize(r, u)
        \/ SetColumn(r) \/ UpdateUserStatus(r) \/ DeleteUser(r) \/ DeleteContent(r)
        \/ LogAction(r) \/ LogActionFails(r) \/ RequestDies(r)
    \/ \E x \in Cells : SetUnlogged(x)
    \/ \E k \in Posts \cup Comments : DeleteUnlogged(k)

Spec == Init /\ [][Next]_vars

----------------------------------------------------------------------------
(* Properties.                                                             *)
(***************************************************************************)
\* The log tells the state: a column has the value that the last entry about it
\* names, its first one if there is none, unless an entry is still to come, two
\* administrators overlapped, or the last write went past the log.
LogTellsState ==
    \A x \in Cells \ blurred :
        x[1] \in rows /\ (\A r \in Requests : ~(Sets(r, x) /\ ToBeLogged(r))) =>
            LET about == {i \in DOMAIN log : Sets(log[i], x)} IN
            IF about = {} THEN value[x] = FirstValue[x]
            ELSE \E i \in about :
                     /\ \A j \in about : j <= i
                     /\ value[x] = request[log[i]].command.value

\* "Log every admin action for accountability": who is in the log once is always
\* logged.  Only an administrator who was never logged can be deleted between a
\* write and its entry, and the write then has none.
ActorsAreLogged ==
    \A r \in Requests :
        request[r].effect = "yes" /\ request[r].step = "ended" /\ Acted(request[r].admin)
            => Logged(r)

\* The log only grows, and nobody removes the account of an administrator it
\* refers to, however requests of deleteUser overlap with what their target does.
LogIsKept ==
    [][/\ IsPrefix(log, log')
       /\ \A u \in Users : Acted(u) => u \in rows']_vars

=============================================================================
