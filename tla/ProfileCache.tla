---------------------------- MODULE ProfileCache ----------------------------
(***************************************************************************)
(* The profile cache: ProfilesService (src/src/profiles/                   *)
(* profiles.service.ts) answers getProfile from Redis under the key        *)
(* profile:<username> and fills it from the database for ten minutes; the  *)
(* writers of ProfilesService and AdminService delete the key after they   *)
(* have written.                                                           *)
(*                                                                         *)
(* The columns getProfile caches (the Profile row, role, verification      *)
(* level, account type) are abstracted to a version that every write to    *)
(* them advances.  The counters cached with them are left out: nothing     *)
(* invalidates them.  call[c] is what a handler in flight remembers across *)
(* its next await; an answer from the cache changes nothing and is no      *)
(* step.                                                                   *)
(***************************************************************************)
EXTENDS Accounts, Naturals

CONSTANTS
    Names,       \* usernames
    MaxVersion,  \* bound: writes to the cached columns of one user
    Calls        \* slots for calls in flight at the same time

ASSUME CacheAssumption ==
    /\ None \notin Names
    /\ MaxVersion \in Nat

VARIABLES
    username,  \* [Users -> Names \cup {None}]; None: the account is deleted
    version,   \* [Users -> 0..MaxVersion]: the cached columns
    cache,     \* [Names -> Entry \cup {None}]: Redis
    call,      \* the calls in flight
    excused    \* History: users whose cached columns were written while another
               \* call on them was in flight, or by a call that died

cacheVars == <<username, version, cache, call, excused>>

Entry == [user : Users, version : 0..MaxVersion]
Step == {"idle", "find", "fill", "writeAccountType", "writeProfile",
         "findUsername", "del"}
\* wrote (history): whether the call has written cached columns.
CallRecord == [step : Step, user : Users \cup {None}, key : Names \cup {None},
               version : 0..MaxVersion, newName : Names \cup {None},
               wrote : BOOLEAN]

Idle == [step |-> "idle", user |-> None, key |-> None, version |-> 0,
         newName |-> None, wrote |-> FALSE]

CacheTypeOK ==
    /\ username \in [Users -> Names \cup {None}]
    /\ version \in [Users -> 0..MaxVersion]
    /\ cache \in [Names -> Entry \cup {None}]
    /\ call \in [Calls -> CallRecord]
    /\ excused \subseteq Users

\* Profile.username is unique.
Unique(names) ==
    \A u1, u2 \in Users : names[u1] = names[u2] /\ names[u1] # None => u1 = u2

CacheInit ==
    /\ username \in {names \in [Users -> Names] : Unique(names)}
    /\ version = [u \in Users |-> 0]
    /\ cache = [n \in Names |-> None]
    /\ call = [c \in Calls |-> Idle]
    /\ excused = {}

Goto(c, rec) == call' = [call EXCEPT ![c] = rec]
Finish(c) == Goto(c, Idle)

Overlapped(c, u) == \E d \in Calls \ {c} : call[d].user = u

\* An UPDATE of cached columns of u by call c.
Write(c, u) ==
    /\ username[u] # None
    /\ version[u] < MaxVersion
    /\ version' = [version EXCEPT ![u] = @ + 1]
    /\ excused' = IF Overlapped(c, u) THEN excused \cup {u} ELSE excused

----------------------------------------------------------------------------
(* getProfile.                                                             *)
(***************************************************************************)
GetMiss(c, n) ==
    /\ call[c] = Idle
    /\ cache[n] = None
    /\ Goto(c, [Idle EXCEPT !.step = "find", !.key = n])
    /\ UNCHANGED <<username, version, cache, excused>>

\* Mutant: also caches that nobody has the name.
GetFindNobody(c) ==
    /\ call[c].step = "find"
    /\ Goto(c, [call[c] EXCEPT !.step = "fill"])
    /\ UNCHANGED <<username, version, cache, excused>>

GetFind(c) ==
    /\ call[c].step = "find"
    /\ \/ \E u \in Users :
              /\ username[u] = call[c].key
              /\ Goto(c, [call[c] EXCEPT !.step = "fill", !.user = u,
                                         !.version = version[u]])
       \/ /\ \A u \in Users : username[u] # call[c].key
          /\ Finish(c)
    /\ UNCHANGED <<username, version, cache, excused>>

GetFill(c) ==
    /\ call[c].step = "fill"
    /\ cache' = [cache EXCEPT ![call[c].key] =
                     [user |-> call[c].user, version |-> call[c].version]]
    /\ Finish(c)
    /\ UNCHANGED <<username, version, excused>>

----------------------------------------------------------------------------
(* updateProfile: the profile is read, the account type and the profile    *)
(* are written by two statements, and the key is deleted that the read     *)
(* gave.  A new username that is taken fails the second statement, after   *)
(* the first one has been written (CallDies).                              *)
(***************************************************************************)
UpdateFind(c, u, n) ==
    /\ call[c] = Idle
    /\ username[u] # None
    /\ \E step \in {"writeAccountType", "writeProfile"} :
           Goto(c, [Idle EXCEPT !.step = step, !.user = u, !.key = username[u],
                                !.newName = n])
    /\ UNCHANGED <<username, version, cache, excused>>

UpdateAccountType(c) ==
    /\ call[c].step = "writeAccountType"
    /\ Write(c, call[c].user)
    /\ Goto(c, [call[c] EXCEPT !.step = "writeProfile", !.wrote = TRUE])
    /\ UNCHANGED <<username, cache>>

\* Mutant: the key of the updated row is deleted, not of the one read first.
UpdateRowDelNewName(c) ==
    LET u == call[c].user
        n == call[c].newName
    IN
    /\ call[c].step = "writeProfile"
    /\ \A v \in Users \ {u} : username[v] # n
    /\ Write(c, u)
    /\ username' = [username EXCEPT ![u] = n]
    /\ Goto(c, [Idle EXCEPT !.step = "del", !.user = u, !.key = n,
                            !.wrote = TRUE])
    /\ UNCHANGED cache

UpdateRow(c) ==
    LET u == call[c].user
        n == call[c].newName
    IN
    /\ call[c].step = "writeProfile"
    /\ \A v \in Users \ {u} : username[v] # n
    /\ Write(c, u)
    /\ username' = [username EXCEPT ![u] = n]
    /\ Goto(c, [Idle EXCEPT !.step = "del", !.user = u, !.key = call[c].key,
                            !.wrote = TRUE])
    /\ UNCHANGED cache

\* deactivateAccount and deleteAccount: isActive and deletedAt, which they
\* write before the key is deleted, are not among the cached columns.
SoftDelete(c, u) ==
    /\ call[c] = Idle
    /\ username[u] # None
    /\ Goto(c, [Idle EXCEPT !.step = "del", !.user = u, !.key = username[u]])
    /\ UNCHANGED <<username, version, cache, excused>>

\* The last step of every writer.
Del(c) ==
    /\ call[c].step = "del"
    /\ cache' = [cache EXCEPT ![call[c].key] = None]
    /\ Finish(c)
    /\ UNCHANGED <<username, version, excused>>

----------------------------------------------------------------------------
(* AdminService: promoteUser, demoteUser and updateUserStatus write first, *)
(* then look the username up and delete its key.  deleteUser deletes the   *)
(* rows and no key.                                                        *)
(***************************************************************************)
AdminWrite(c, u) ==
    /\ call[c] = Idle
    /\ Write(c, u)
    /\ Goto(c, [Idle EXCEPT !.step = "findUsername", !.user = u,
                            !.wrote = TRUE])
    /\ UNCHANGED <<username, cache>>

AdminFindUsername(c) ==
    LET u == call[c].user IN
    /\ call[c].step = "findUsername"
    /\ \/ /\ username[u] # None
          /\ Goto(c, [call[c] EXCEPT !.step = "del", !.key = username[u]])
       \/ /\ username[u] = None
          /\ Finish(c)
    /\ UNCHANGED <<username, version, cache, excused>>

AdminDeleteUser(u) ==
    /\ username[u] # None
    /\ username' = [username EXCEPT ![u] = None]
    /\ UNCHANGED <<version, cache, call, excused>>

----------------------------------------------------------------------------
\* Mutant: an entry set with no time to live.
ExpireNever(n) == cache[n] = None /\ UNCHANGED cacheVars

\* Ten minutes after it was set, an entry expires.
Expire(n) ==
    /\ cache[n] # None
    /\ cache' = [cache EXCEPT ![n] = None]
    /\ UNCHANGED <<username, version, call, excused>>

\* A call in flight ends without its remaining steps: the process stops, the
\* username is taken, the log or Redis refuses.
CallDies(c) ==
    /\ call[c] # Idle
    /\ excused' = IF call[c].wrote THEN excused \cup {call[c].user} ELSE excused
    /\ Finish(c)
    /\ UNCHANGED <<username, version, cache>>

Advance(c) ==
    \/ GetFind(c) \/ GetFill(c)
    \/ UpdateAccountType(c) \/ UpdateRow(c) \/ Del(c)
    \/ AdminFindUsername(c) \/ CallDies(c)

CacheNext ==
    \/ \E c \in Calls : Advance(c)
    \/ \E c \in Calls, n \in Names : GetMiss(c, n)
    \/ \E c \in Calls, u \in Users, n \in Names : UpdateFind(c, u, n)
    \/ \E c \in Calls, u \in Users : SoftDelete(c, u) \/ AdminWrite(c, u)
    \/ \E u \in Users : AdminDeleteUser(u)
    \/ \E n \in Names : Expire(n)

\* A handler in flight goes on or dies, and time passes.
Fairness ==
    /\ \A c \in Calls : WF_cacheVars(Advance(c))
    /\ \A n \in Names : WF_cacheVars(Expire(n))

CacheSpec == CacheInit /\ [][CacheNext]_cacheVars /\ Fairness

----------------------------------------------------------------------------
(* Properties.                                                             *)
(***************************************************************************)
CacheQuiet(u) == \A c \in Calls : call[c].user # u

\* "Invalidates the profile cache" (line 138): once the calls on a profile
\* have ended, what is cached of it, under whatever name, is what the
\* database holds, however often it was written and renamed, unless a write
\* overlapped another call on the same profile or a writer died.
CacheIsFresh ==
    \A n \in Names :
        LET e == cache[n] IN
        e # None =>
            \/ username[e.user] = None
            \/ e.user \in excused
            \/ ~CacheQuiet(e.user)
            \/ username[e.user] = n /\ version[e.user] = e.version

Outdated(u, v) == username[u] = None \/ version[u] > v

\* Whatever races, crashes and renames did to the cache, a profile that was
\* overwritten or removed is at last no longer served (the ten minutes of
\* line 64): no stale fill keeps itself alive.
StaleEntriesVanish ==
    \A u \in Users, v \in 0..MaxVersion :
        Outdated(u, v) ~>
            [](\A n \in Names : cache[n] # [user |-> u, version |-> v])

----------------------------------------------------------------------------
(* The inductive strengthening of CacheIsFresh.                            *)
(***************************************************************************)
\* What a call remembers at each step, and that it wrote before it looks up the
\* key, never before it has read.
CallsFit ==
    \A c \in Calls :
        /\ call[c].step # "idle" /\ call[c].step # "findUsername" => call[c].key \in Names
        /\ call[c].step \notin {"idle", "find"} => call[c].user \in Users
        /\ call[c].step \in {"writeAccountType", "writeProfile"} => call[c].newName \in Names
        /\ call[c].wrote => call[c].step \in {"writeProfile", "findUsername", "del"}

\* For a user not excused, what a call has read is so when the call uses it.
Current(u) == {c \in Calls : call[c].user = u /\ username[u] # None /\ u \notin excused}
ReadsStand ==
    \A u \in Users : \A c \in Current(u) :
        /\ call[c].step \in {"fill", "writeAccountType", "writeProfile"} =>
               call[c].key = username[u]
        /\ call[c].step = "fill" => call[c].version = version[u]

\* The call has outdated what is cached of its user under the name n, and will
\* delete that key.
WillDelete(c, u, n) ==
    /\ call[c].user = u /\ call[c].wrote
    /\ \/ call[c].step = "findUsername" /\ username[u] = n
       \/ call[c].step \in {"writeProfile", "del"} /\ call[c].key = n

EntriesAccounted ==
    \A u \in Users \ excused, n \in Names :
        cache[n] # None /\ cache[n].user = u /\ username[u] # None =>
            \/ username[u] = n /\ version[u] = cache[n].version
            \/ \E c \in Calls : WillDelete(c, u, n)

CacheInv == CacheTypeOK /\ CallsFit /\ ReadsStand /\ EntriesAccounted

=============================================================================
