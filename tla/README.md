# Formal models of the CircleSfera backend

TLA+ specifications of `circlesfera-backend`, a NestJS API over PostgreSQL
(through Prisma), Redis, Socket.IO, BullMQ and Stripe. The models are translated
from the services under `src/src/` and the schema `src/prisma/schema.prisma`;
line numbers in comments and in `PROJECT.json` refer to those files. TLC checks
the modules on small instances, and TLAPS proves the most important properties
for all instances.

Contents: [the system](#1-the-system) · [how the code becomes a
model](#2-how-the-code-becomes-a-model) · [modules](#3-the-modules) ·
[runs](#4-the-runs) · [proofs](#5-the-proofs) · [disagreements
found](#6-where-the-code-disagrees-with-its-documentation) · [not
modelled](#7-what-is-not-modelled) · [plan](#8-plan) · [running
it](#9-running-it)

## 1. The system

### Components, their state and what makes them correct

| Component (service) | State | Operations | Correct when | Module |
|---|---|---|---|---|
| Authentication (`auth/auth.service.ts`) | `User` row, `RefreshToken` rows | register, verifyEmail, login, loginById, refreshToken, logout, requestPasswordReset, resetPassword | a session has one carrier; a refresh token is exchanged once; an ended session stays ended; an answered reset holds | `Auth`, `TokenRotation` |
| Passkeys (`auth/passkey`) | `Passkey` rows, `User.currentChallenge` | registration and authentication ceremonies, delete | a challenge is used once; the counter does not go back; a removed passkey is out | `Passkeys` |
| Follows and blocks (`follows`) | `Follow`, `Block`, `Notification` | toggle, accept, reject, block, unblock | private accounts consent to followers; acceptance notices are true; a block separates | `Follows` |
| Profiles (`profiles`) and the Redis cache | `Profile`, `User` columns, `profile:<username>` keys | getProfile, updateProfile, deactivate, delete | the cache shows what the database holds, at the latest after the entry's life | `ProfileCache` |
| Chat (`chat`) | `Conversation`, `Participant`, `Message`, `MessageReaction` | createGroup, sendMessage, deleteConversation, markAsRead, addReaction | one direct conversation per pair; messages reach their conversation only; deletions are announced | `Chat` |
| Socket gateway (`socket`) | `User.isOnline`, rooms | connect, disconnect, typing, reactions | a user is shown online exactly while connected | `Presence` |
| Notifications (`notifications`) | `Notification` | create, markAsRead, markAllAsRead, findAll | a notice tells what happened, and is there when the call has answered | `Requests`, also in `Follows` and `Posts` |
| Posts and hashtags (`posts`) | `Post`, `PostHashtag`, `Hashtag.postCount`, mention notices | create, update, remove, adminRemove | counters count creations exactly; what leaves the database follows the commit | `Posts` |
| Likes, comments (`likes`, `comments`) | `Like`, `Comment`, `CommentLike` | toggle, like, unlike, create, remove, lists | at most one like per user; those concerned are told of what happened | `Marks`, `Library` |
| Stories, highlights (`stories`, `highlights`) | `Story`, `StoryView`, `StoryReaction`, `Highlight` | create, view, react, delete, tray, profile page | one view and one reaction per user; a reader is shown what is theirs to see | `Marks`, `Library`, `Tray` |
| Bookmarks and collections | `Bookmark`, `Collection` | toggle, move, create, rename, delete, lists | one bookmark per user and post; it survives its collection | `Marks`, `Library` |
| Close friends, whitelist | `CloseFriend`, `WhitelistEntry` | toggle, join | one row each | `Marks` |
| Payments (`payments`) | `Purchase`, `User.stripeAccountId`; accounts and sessions at Stripe | connect, checkout, webhook, analytics | nobody pays twice; who paid is shown what they bought; a seller is paid to the account they set up | `Purchases` |
| Promotions (`creator`) | `Promotion` | create, list, cancel | a listing shows as running what runs; what was completed stays | `Campaigns` |
| Lists and pages (admin, creator, posts, comments, bookmarks, notifications; `PaginationDto`) | – | 22 paginated reads | a walk through the pages shows every row once; what feeds and profiles list may be opened | `Listings` |
| Statistics and charts (admin, creator, payments) | – | stats, charts, growth, top users, sales | nothing is left out; the services agree | `Dashboards` |
| Administration (`admin`) | `AdminAuditLog`, everything | ban, promote, delete, moderate | the log says what was done | `Administration` |
| AI (`ai`) | queue `ai-processing`, `post_embeddings` | generate-embedding job | a finished job left its embedding; no embedding without its post; jobs end | `EmbeddingJobs` |
| Reports, search, audio, uploads, e-mail, HTTP plumbing | one row or none each | single statements, I/O | – | see section 7 |

### How they interact

Handlers of one process share the event loop, handlers of several processes
share only PostgreSQL, Redis and the Socket.IO adapter. A handler is a chain of
awaits, nearly all of them a single database statement; only
`PostsService.create` opens a transaction. Services call each other directly:
follows, likes, comments and posts call `NotificationsService.create`, which
inserts a row and emits through the gateway; chat emits through the gateway;
admin writes other services' tables and deletes profile cache keys; the passkey
controller calls `AuthService.loginById`; posts put jobs on the queue.
`User` is the shared row: authentication, administration, profiles, the gateway
and the passkeys all write columns of it by id. Deleting it cascades.

### What is hard

* **Interleaving at every await.** The code reads, decides and writes in separate
  statements. What protects it is the schema: unique keys refuse a second insert
  (`P2002`), `update` and `delete` by id refuse a row that is gone (`P2025`),
  foreign keys refuse children of a deleted parent. `updateMany` and `deleteMany`
  refuse nothing.
* **Stale snapshots.** `login` migrates a hash it read earlier, `toggle` uses an
  `isPrivate` and a block check made earlier, `getProfile` stores a row read
  earlier, `updateProfile` deletes the key of a username read earlier.
* **Crashes and partial failure.** There is no compensation: rotation dies between
  delete and insert, `blockUser` between block and removal, `updateProfile`
  between its two updates, a removal between its announcement and the `DELETE`,
  an administrator's request between the write and its entry in the log.
* **Order of events.** `conversationDeleted` goes out before the row goes,
  `receiveMessage` after the conversation may have gone.
* **Requests that meet.** A like, a comment, a bookmark or a view is written for content
  that may be deleted, or by a request the same user sends twice; a checkout may be
  repeated, abandoned, or confirmed by Stripe more than once.
* **Answers put together from several reads.** A page is a find and a count side by side, a
  walk a sequence of offsets, the tray four kinds of statements; dates are cut in UTC and
  in local time.
* **Locks.** Creations upsert the rows of their hashtags in the order of the caption,
  inside a transaction: they wait for each other, in a cycle too.
* **Time.** Two expiries of one refresh token, reset tokens of an hour, cache
  entries of ten minutes, stories of a day, promotions that end unnoticed.

`PROJECT.json` lists these hazards one by one with their lines and the properties
that would notice them going wrong.

## 2. How the code becomes a model

**Steps.** One action per database statement, Redis command or emission, with the
code between it and the next await. `call[c]` is a record of what the handler in
slot `c` still needs: `step` names the statement it is about to make. Validation
failures and answers that change nothing are not steps, with one exception: where
a read decides between going on and giving up and the call already occupies a slot,
giving up frees the slot.

**Failure.** `CallDies(c)` ends any call in flight before its next statement. It
stands for a process that stops, a database, Redis or mail server that refuses, and
every error the model's guards imply (a guard such as `t \in refreshToken` in
`RefreshRotate` is the `P2025` of a delete by id: when it is false only `CallDies`
is left).

**Identities.** Generated ids (rows, tokens, reset tokens, conversations) are model
values drawn once. A row that is gone is marked, so that a stale id never denotes a
new row.

**History variables** are named as such where they are declared: no guard reads
them. They say what properties are about, e.g. `session` and `parent` of a token,
`approved` rows, `excused` users.

**Data left out.** Clear text is its own identity and a hash is a record of scheme
and secret (verification is equality); the columns that are only displayed,
wording, and the JWT access token, which is stateless.

## 3. The modules

`Accounts` names the users and `None` for the modules that share a proof module.

### `TokenRotation` – what refresh tokens promise

A token is unissued, live or spent. `Open`, `Redeem`, `Succeed`, `Forfeit`,
`Revoke`: redeeming spends a live token and earns one successor of its session,
which is issued or lost. There are no calls, users or expiries. `OneCarrier`: a
session never has two tokens that could be continued.

### `Auth` – AuthService

`account`, `password`, `active`, `unverified`, `resetToken` are columns of `User`;
`refreshToken` is the table of that name; `lifetime` and `lapsed` are the clock as
far as the code compares it. Each public method is a group of actions:
`RegisterCheck/Create`, `VerifyEmail`, `LoginFind/Migrate`, `LoginById`,
`RefreshVerify/Lookup/Purge/Rotate`, `Logout`, `RequestPasswordReset`,
`ResetFind/Write`, all issuing through `GenerateTokens`. `SetActive` and
`DeleteUser` are what the admin and profile services do to the same rows.
An idle slot is taken by the first read; `LoginFind` covers both lookups (by e-mail,
by username), which find the same row.

* `OneTokenPerSession`, `NoForkedRotation` – concurrent refreshes, a retry after a
  lost answer, and logouts never yield two tokens of a session. They are proved; TLC checks
  them as part of `ImplementsRotation`.
* `EndedSessionStaysEnded` – an action property: what logout, purge, removal or a
  crash ended is not continued by a call that was under way.
* `ModernResetIsEffective` – an answered reset holds, for accounts whose hash never
  was a bcrypt one. `ResetIsEffective` says it of all accounts and fails.
* `ImplementsRotation` – `TokenRotation` with `state` computed from the table and
  `owed` from the refreshes between delete and insert.

### `Follows` – FollowsService and its notices

`follow` maps row ids to rows, `block` is the set of (blocker, blocked) pairs,
`private` the accounts with `isPrivate`. `Toggle*`, `Accept*`, `Reject*`, `Block*`,
`Unblock`, `Notify` are the statements; `SetPrivate` is the part of `updateProfile`
that matters here.

* `Consent` – an account that was private throughout has only followers whose very
  request it accepted; withdrawing and renewing a request under a pending accept
  does not let the new request in, because the update is by row id.
* `AcceptanceIsTrue` – no `FOLLOW_ACCEPTED` for a request that was not accepted.
* `SeparationLasts` – once a block stands, no follow exists and no toggle is past
  its block check, nothing makes the blocked user follow the blocker until the
  block is lifted.

### `ProfileCache` – getProfile and the writers

`username` and `version` are the database, the cached columns being abstracted to a
version that each write advances; `cache` is Redis, by key. Readers are
`GetMiss/Find/Fill`; writers `UpdateFind/AccountType/Row`, `SoftDelete`,
`AdminWrite/FindUsername`, ending in `Del`; `AdminDeleteUser` deletes no key; `Expire`
is the ten-minute life of an entry.

* `CacheIsFresh` – when no call on a profile is in flight, what is cached of it is
  current and under its current name, unless a write overlapped another call on the
  same profile or a writer died after it had written. The excuses are exact enough
  that a rename, an exchange of names, and the administrators' late lookup of the
  name are all covered.
* `StaleEntriesVanish` – liveness: an outdated copy is at last gone for good, races,
  crashes and removal included.

Fairness: weak fairness of a call's next step, dying included (a handler in flight
is scheduled by the event loop, ends or fails), and of expiry (Redis removes the
entry). No fairness is assumed of clients: nobody needs to call anything.
In `Posts` the same is assumed of a begun creation, including that the database ends a
deadlock (`Proceed`), and in `EmbeddingJobs` of the worker, job by job (`Work`); neither
assumes that anything fails, since `Proceed` holds `CallDies` only for a deadlock.

### `Chat` – ChatService

`conversation` and `message` are the tables, `told` the events emitted.
`CreateGroup`, `CreateGroupFind`, `SendFind`, `SendFindDirect`, `CreateDirect`
(common to `createGroup` and `sendMessage`), `MessageCreate`, `MessageEmit`,
`DeleteFind/Announce/Row`.

* `DuplicateOnlyByRace` – a pair has two direct conversations only if two calls that
  had both looked in vain overlapped (`raced`), whichever endpoints they used.
* `ReachesItsRecipientOnly` – a message sent to a recipient is stored in the pair's
  own conversation and emitted to the two only, although they may share groups.
* `GoneWasAnnounced` – every participant was told of a deletion before it happened,
  even when deletes race or die half way.

### `Presence` – the sockets of AppGateway

`Clients` are the users who connect, `link` is the set of connected sockets, `connecting[s]` and `closing[s]` the await in
which `handleConnection` and `handleDisconnect` of socket `s` are; `isOnline` is the
column, `room` the presence rooms joined, `heard` the last `user_status` each socket
was sent. The two handlers of a socket overlap, since the second does not wait for
the first; `AfterDrop` is its look at `data.user`, which the first sets after the
token was verified. The rooms a socket joins are any at all, which covers follows
of any status and those that changed since. `SocketLost` is a process that stops:
no handler runs.

Two history variables say what the code does not promise. `stranded` holds a user
whose `isOnline` nobody is left to reset: its handler died, or the connection wrote
`true` after the disconnect of the same socket had written `false`. `tangled` holds a
user of whom two sockets, or the two handlers of one, overlapped.

* `GoneIsOffline` – with any number of sockets and any interleaving, a user whose
  sockets are gone and handled is offline unless stranded, until the next disconnect.
* `ConnectedIsOnline` – nobody is shown offline while connected without an overlap.
* `WatchersAgree` – what the followers' sockets heard last is what the column says.

`Gateway` is the disjoint union of `Chat` and `Presence`: `told` records what was emitted and
`heard` who is online, and neither handler reads the other's state.

### `Posts` – PostsService.create and the removals

`post[p].status` runs from `unused` over `open` (written in a transaction, visible to
nobody) to `live` and `removed`; `postCount` is the committed counter of each hashtag.
A post's author, tags and mentions are one of the `Drafts`.
`CreateBegin` opens the transaction with the post and its media; `UpsertTag` takes the
next tag of the caption, if no other transaction has its row, and `call[c].wrote` keeps
the count it wrote, which is the row lock as well; `Commit` makes everything visible and
drops the locks. After it `Enqueue`, `FindMentions` and `NotifyMention` are the awaits
outside the transaction. `CallDies` rolls an open transaction back; `DeadlockVictim` is
what PostgreSQL does to one transaction of a cycle. `RemoveFind/Delete` are both
removals, `DeleteUser` the administrator's, with the schema's cascades (`Cascade`),
which take links and embeddings and leave counters.

* `CountIsCreations` – a counter is the number of posts ever created with the tag:
  overlapping creations lose no increment, rollbacks and deadlock victims leave none,
  removals take none away.
* `EffectsFollowCommit` – a job or a notice speaks of a post that was committed, and of
  mentions in its caption other than its author's.
* `TransactionsEnd` – liveness: no creation waits for ever, whatever order its caption
  has.

### `EmbeddingJobs` – AIProcessor

Extends `Posts` with the worker of `ai-processing`: `JobStart` (text to the provider),
`JobStore` (the upsert by post id, whose foreign key needs the post), `JobComplete`,
`JobFails`, and BullMQ, which is external. `src/` adds jobs without options, so BullMQ's
defaults hold: one attempt, and one more delivery when a worker stalled (`JobStalls`).

* `DoneIsEmbedded` – a job that is done left the embedding of its post while that exists,
  and a removed post has none, although the job runs twice or the post goes under it.
* `JobsEnd` – liveness: a job that was added ends.

### `Passkeys` – PasskeyService

`currentChallenge` is the one column that registration and authentication ceremonies
share; `passkey[k]` is the row of a credential. Storing a challenge and answering it
(`GenerateRegistrationOptions`, `GenerateAuthenticationOptions`) is one step, as is
`DeletePasskey`: the reads before them decide nothing that the write does not decide
again. A verification is `RegistrationFind` or `AuthenticationFind` (challenge, passkey and
counter are compared with what is read there), then `RegistrationCreate` or
`AuthenticationCounter`, `ClearChallenge`, and for a sign-in `LoginById`, which `Auth` has
in detail. Authenticators and the library that checks their responses are external:
`CreateCredential` and `Sign` make responses, which a client may send any number of times.

History: `latest` challenge of a user, how often a challenge was `spent`, what `raced`
(two verifications of a challenge or credential overlapped), the challenges `crossed`
(stored while a verification of the user was under way), the passkeys `removed` for good.

* `ChallengeServesOnce` – two ceremonies end with one challenge only if both verifications
  had read it before either cleared it.
* `LatestChallengeStands` – the challenge a user was offered last stands until it is
  verified; only a verification that overlapped its storing takes it away.
* `CounterGoesBackByRaceOnly` – a stored counter decreases only where two verifications of
  the credential overlapped and wrote in the other order.
* `RemovedPasskeyIsOut` – verifications under way at a removal get no further, and no
  response replays the registration.

### `Administration` – AdminService

`rows` are the accounts, posts and comments that exist, `value` the columns that
administrators set, `log` the sequence of requests that `AdminAuditLog` has entries of. A
`request` passes the guard (`Authorize`) and makes two statements: `LogAction` and a write,
in the order `LogsFirst` says. `SetColumn` is any of ban, unban, promote, demote and a
decision about a report; `UpdateUserStatus` sets two columns and its entry names neither.
`DeleteUser` is refused for an account that has entries, since the migration that made the
table restricts its foreign key; so `deleteUser`, which says it cascades all data, only
removes accounts that never acted as administrators, and an administrator's request to
remove their own account logs itself and thereby fails. The other modules' `DeleteUser`
speak of accounts without entries.

`SetUnlogged` and `DeleteUnlogged` are what changes the same rows and logs nothing. It
includes endpoints for administrators (`users.controller.ts:33-43`,
`reports.controller.ts`, `posts.controller.ts:141`), although the comment of `logAction`
(`admin.service.ts:36`) speaks of every admin action. `blurred` is the history of it: the
columns whose last write was not logged, or overlapped another.

* `LogTellsState` – otherwise a column holds what the last entry about it names, whatever
  overlaps and dies.
* `ActorsAreLogged` – an administrator who is in the log once has an entry for every write
  that ended. The write of an administrator deleted in between has none.
* `LogIsKept` – the log only grows and no removal takes the account of an entry, although
  the removal logs first and its target may act meanwhile. Proved only.

### `Requests`, `Marks`, `Library`, `Purchases`, `Campaigns` – and `Engagement`

What users do with content. `Requests` holds what they share: `rows` that exist, each with
`owner` and the rows it is deleted with (`within`, the schema's `onDelete: Cascade`),
`notice` (rows of `Notification`, whose foreign key needs the post), and the calls in
flight. `Begin` is the first statement of a handler, `Notify` is
`NotificationsService.create`, `MarkRead*` its reading marks. `calm` is history: nothing a
call named was gone and no call overlapped it.

* `Marks`: the eight tables with a unique key of user and target. Each handler looks for the
  row and then writes by what it found: by id (`UpdateById`, `DeleteById`), by key
  (`BookmarkDelete`), or with an insert that the key and the foreign keys may refuse
  (`Insert`). The differences between the handlers are kept: who looks for the target first,
  who answers what it found, what naming the same collection again means.
* `Library`: comments with the three kinds of notices in their order, removals with their
  cascade, collections, highlights (a transaction of nested writes), updates.
* `Purchases`: connect and checkout statement by statement, the webhook by the purchase id
  that the session carries. Stripe is external: a session is paid at most once, and its event
  may come any number of times.
* `Campaigns`: promotions, whose end nothing but a listing notices.

`Engagement` composes them over one database; `ForeignKeys` is what a removal does to the
tables of `Marks`.

* `AnswersAddUp` – the rows that lists and checks show are what answered calls add up to:
  of toggles, views, reactions that race one inserts and one deletes, removed content takes
  its rows along, and a removed collection takes none.
* `FailsByRaceOnly` – a request fails only by one that overlapped it and served the same
  user and target, or removed what it named; but for a checkout of something that has a
  purchase, pending ones included, which fails for ever.
* `NoticesMatch` – exactly those a like or comment concerns are told of it when it
  was written and answered. Notices are a set: that one is sent twice would not show.
* `PaidOnceAndUnlocked` – at most one session of a buyer and an item is ever paid, and who
  paid is shown it from Stripe's answered event on.
* `LinkedAccountStands` – sales are paid to the account the seller was sent to set up,
  unless two requests to connect overlapped.
* `PromotionsAsListed` – what a listing shows as running had not ended when it began, and
  what it shows as completed is not cancelled any more, unless a cancellation overlapped it.

### `Listings`, `Tray`, `Dashboards` – and `Reading`

Reads of several statements while rows change. The three share no state; `Reading` is their
disjoint union, so that a behaviour is of one `kind`.

* `Listings`: 22 paginated endpoints, each by its condition on a row (`GetFeed`,
  `PostsFindByUser`, `AdminGetReports`, ...), its order (newest first, or a ranking) and who is
  admitted. `PageRequest` reads what comes before the page (the profile, the follows, the
  collection), `FindPage` and `CountRows` are the two halves of `Promise.all`, `AnswerPage` the
  arithmetic of `createPaginatedResult` and the client's next request. Meanwhile rows come,
  go and move, profiles turn private, follows change.
* `Tray`: `findAll` and `findByUser` of stories. A condition (`fresh`, `follows`, `close`,
  `paid`, ...) is a fact that may change between any two statements.
* `Dashboards`: figures as functions of rows with `createdAt`, of the accounts that are
  `active`, of a calendar of months and a server zone; `setMonth`, `setDate` and `toISOString` are modelled by what they do. `getTopUsers` ranks active accounts, and its sort leaves ties
  in the order in which they were found, which is any: `TopUsers` is the set of answers that
  this allows.

The rows that a find selects are `Matching`, in the order of the table. `PagesInv`, at the end of
`Listings`, is what a proof needs of them (section 5).

* `WalkShowsRows` – a walk misses or repeats no more rows than changed under it, and an
  undisturbed one shows each row once, in order, on pages that are not empty, but for the
  comments of a post with replies: these are counted and not listed.
* `WhatIsListedOpens` – a post that a feed or a profile's posts show can be opened by its
  reader, unless privacy or follows changed since the page was asked for. The posts of a hashtag
  and those a user is tagged in are outside of it (section 6).
* `StoriesShownFairly` – a story that meets the conditions of the endpoint during the whole
  visit is shown; what is shown met them, each at some time of it; media of sold stories
  likewise; what the tray shows the author's page shows too. The conditions are the
  endpoint's own: the tray asks who is a close friend, the author's page does not.
* `CloseFriendsRespected` – whatever the endpoint, a story for close friends is shown to its
  author and to them only. The code does not keep it (section 6).
* `ChartsComplete` – a chart has every row of its 14 days exactly once when the server runs
  in UTC. Elsewhere it lacks what was written on the UTC date after its last label.
* `FiguresConsistent` – the creators' likes, comments and earnings add up to the
  administrators'; the top users are accounts that are not banned, and whoever of these is left
  out has `Top` others with at least as many likes and comments, in whatever order ties come;
  sales are compared with last month's, except on days that the month before lacks: there they
  are compared with nothing.

`MCAuth`, `MCFollows`, `MCProfileCache`, `MCGateway`, `MCEmbeddingJobs` (which
checks `Posts` as well), `MCPasskeys`, `MCAdministration`, `MCEngagement` and `MCReading`
extend these for TLC and define symmetry sets and larger constants where a run uses them; the
`.cfg` files give the constants.

## 4. The runs

| Run | Instance | Asks |
|---|---|---|
| `auth_sessions` | 1 user (legacy), 3 tokens, 3 calls | rotation safety and the refinement |
| `auth_credentials` | 2 users (1 legacy, 1 to be registered), 2 passwords, 2 reset tokens, 2 calls | `ModernResetIsEffective` |
| `auth_migration` | 1 legacy user, 2 passwords | violation of `ResetIsEffective` |
| `follows` | 2 users, 2 row ids, 2 calls | consent, acceptance, separation |
| `profile_cache` | 2 users, 2 names, 1 write each, 2 calls | freshness and the liveness of expiry |
| `gateway` | chats of 3 users, 2 conversations, 1 message, 2 calls; 2 clients, 3 sockets, each used once | find-or-create, delivery, deletion; who is shown online, to whom |
| `posts` | 2 users, 2 posts, 2 tags, 2 drafts, 2 calls | hashtag counters, deadlocks, the end of every creation, and what follows a commit: jobs, notices, embeddings |
| `passkeys` | 2 users, 2 credentials (1 counts), 2 challenges, counters to 2, 2 calls | challenges, counters and removals under overlapping ceremonies |
| `administration` | 2 administrators, 1 post, 1 comment, 2 requests | the audit log against what was done |
| `engagement` | 3 users (2 act), one row of each kind, some to be made, 2 calls | rows, notices, failures, purchases and promotions under two requests of any kind |
| `reading` | walks over up to 3 rows by pages of 1 or 2 while 1 thing changes; visits to 2 stories of 2 authors while 1 changes; figures of 2 rows of 2 users, banned or not, at 8 moments in 3 zones | what readers are shown |
| `reading_close_friends` | a visit to 2 stories of 2 authors | violation of `CloseFriendsRespected` |

**Why the bounds are enough.** The races are between two statements of two calls, so
two slots show them; three are given to the refresh tokens, so that two refreshes of
one token and a third call (logout's rival, the next sign-in) overlap, and three
tokens reach a successor of a successor or two sessions. Two follow rows let a
request be withdrawn and made anew under a stale accept. Two users and two names
let an account take the name of one that was deleted, and let two calls chase one
profile; one write each is enough for a copy to be outdated. Three users in the chat
allow a group beside a direct conversation, two conversations a duplicate. Three
sockets let a user have two of them, or one after the other, beside a watcher. Two
drafts over two tags come in opposite orders, which is what deadlocks, and one mentions the
other user; two calls let a removal overlap what follows the commit. With two posts a creation waits for one
other at most: starvation by an endless stream of others is outside the bound, and
PostgreSQL's queue of waiters, which the model does not keep, is what prevents it. Two
challenges are what one ceremony can take from another, and a counter of 2 is what a slower
verification can set back to 1. Two
requests are a removal and what its target does, or two writes of one column. In
`engagement` two calls are any two requests, overlapping or one after the other, on rows that
exist, are made by the first or were marked before; the third user only owns a comment
and is mentioned. Three rows by pages of one and two give a last page that is full, half full
or beyond the end, and a change before, within and after the rows a walk has passed; with
one change a miss or repetition is that change's. One story or author
changes during a visit, in any number of its conditions: each condition is read once for each
story, and stories do not depend on each other but by their author, hence two of them. The
eight moments are mornings and evenings at the ends of February and March and 14
days later, where UTC and local dates and the lengths of months part; with two users and a
top of one, a banned user leads, ties or is outdone. The
bounds are the finite sets of ids, `MaxVersion`, `MaxCounter`, `MaxRows`, `MaxOthers`,
`MaxChanges`, `MaxFlips` and `MaxFacts`; the guards that mention them
(`FreshTokens`, `status = "unused"`, `version < MaxVersion`) have no counterpart in
the code, which never runs out of UUIDs.

**Deadlock** is checked in the follows run. The other instances really stop:
when the tokens, sockets or calls are used up, a walk or visit has ended or every account was
deleted nothing is left to do.

**Symmetry** is used in runs whose properties are invariants or step properties; the
liveness runs declare none. In `gateway` the users of the chat and the sockets are the same model
values, and so are its calls and the clients: no behaviour has both.

Each property of a passing run has a mutant definition beside the action it changes
(comment `Mutant:`), a bug that the code could plausibly have, under which the same
run reports a violation.

## 5. The proofs

All proofs are checked by TLAPS to the last leaf, from the assumptions on constants that
stand at the head of the modules. They say:

* `None` is no id (`AccountsAssumption`, and a conjunct of most others);
* what is seeded or special is of its kind: seeded users are users, administrators are
  users, credentials that count are credentials, priced items are items (`AuthAssumption`,
  `AdministrationAssumption`, `PasskeyAssumption`, `PurchasesAssumption`,
  `DraftsAssumption`, `MarksAssumption`, `TrayAssumption`);
* ids of different tables differ (`RequestsAssumption`, `AdministrationAssumption`), which
  UUIDs do, and no two users start with one Stripe account (`PurchasesAssumption`: no key of the
  schema says so, but the code stores nothing but accounts it has just made for the user);
* counters are bounded by numbers, and there are finitely many posts, so that they can be
  counted (`PostsAssumption`);
* there is some moment, and each moment is a month or more after the calendar begins, in every
  zone (`DashboardsAssumption`): `createdAt` is the time at which a row is written, and the
  calendar may begin as early as one likes. Creators are finitely many, amounts are not negative.

The rotation needs none. Users, tokens, rows, tags, calls and sockets may be any sets,
finite or not. Every proof has the same outline: a typing of the calls in flight, an
inductive invariant made of named parts, one lemma per action that shows it is kept, and
the properties as corollaries. In each module TLC checked the invariant before it was
proved.

**`Auth_proofs`.** `RotationInv` is the inductive invariant. `OneTokenPerSession`
alone is not inductive: a call about to issue could hold a token whose row still
exists, or name a session no one opened. It is strengthened by `CallsWellFormed`
(a record fits its step, its token was issued), `FreshIsUnknown` (a token not yet
issued is nobody's session, parent or row) and `RedeemedIsSpent` (what a refresh
holds in step `issue` has no row and no child). The only hard steps are
`RefreshRotate`, which moves the carrier from the table to the call, and
`GenerateTokens`, which moves it back. From it follow `TypeCorrect`,
`SessionsNeverFork`, `RotationIsOneTime`, `EndedSessionsStayEnded` (a step property)
and `Implementation` (initial states map to initial states and each action to a
rotation step or a stutter). `ModernResetsHold` uses a second invariant, `ModernInv`:
a modern account has an Argon2 hash, so no call waits to migrate it.

The abstract specification has a theorem of its own there, `RotationOneCarrier` (of
`Any == INSTANCE TokenRotation` with variables of any value): `OneCarrier` is inductive
together with the typing, "the session of an issued token is named after an issued
token" (so that a fresh token opens a session nobody has) and "what is owed is spent".

**`Follows_proofs`.** `FollowInv` adds to `Consent` and `AcceptanceIsTrue` what calls
in flight remember (`CallsFit`): a toggle that saw a public profile names a user who
was public at some time, an accept holds a row that was found pending, a notice to
come a row that was updated. `FollowTypes`, `ConsentHolds`, `AcceptanceHolds` and
`SeparationHolds` follow.

**`EmbeddingJobs_proofs`.** The first half is about `Posts` alone. `CountIsCreations` speaks of committed state only, and a commit
copies what the transaction wrote some steps earlier. `TransactionsFit` says what must
hold meanwhile: an open transaction has its own post, no two have a lock in common, the
tags it has done are the ones it has locked, and what it wrote to a locked row is one more
than the committed count, which nobody can change under the lock. `CommitKeeps` is the
one hard step: the set of committed posts with a tag grows by this post exactly for the
tags it had locked. `AftermathFits` ties the calls after the commit to committed posts.
`PostsTypes` and `CountersAreExact` follow.

The second half adds the worker. `JobsInv` is `PostsInv` with `StoredIsEmbedded`, which is
`DoneIsEmbedded` for jobs that have stored and not yet completed as well. The steps of
`Posts` keep it by the first half; each step of the worker moves one job and
leaves the rest (`JobMoves`, `WorkerKeepsPosts`). `EffectsComeAfterCommit` and
`DoneJobsEmbed` follow.

**`Passkeys_proofs`.** `PasskeyInv` adds to the two invariants where things come from
(`OriginsFit`: a stored or verified challenge was offered to that very user, and an offer is
unique) and what is known of calls under way: two verifications of one thing raced
(`RacesKnown`), who still verifies a spent challenge raced (`SpentIsSpent`), who verifies
another challenge than the latest crossed it (`LateEndsKnown`), who did not race writes a
counter above the stored one (`CountersAhead`). The hard step is `ClearKeeps`, the write of
`None` over whatever is stored. `ChallengesServeOnce`, `LatestChallengesStand`,
`CountersGrow` and `RemovedPasskeysStayOut` follow.

**`Administration_proofs`.** `AdministrationInv` adds to the typing that entries are of
accounts that exist (`EntriesStand`), that a deletion is logged before it acts
(`LoggedBeforeActing`), and that only an account that is gone has a write without an entry
(`OnlyTheGoneAreUnlogged`), which with the first gives `ActorsStayLogged`. `LogStaysKept`
takes `EntriesStand` after the step, for the entries from before it. `LogTellsState` says
nothing while an entry is to come; `TellingInv` adds what holds then: a column that is not
blurred has at most one write to be logged and holds what that one wrote (`CellTold`), so
that `LogActionTells` finds the new entry true. `LogTells` follows.

Its last section is about `ProfileCache`, which administrators write to as well.
`CacheIsFresh` speaks of profiles no call is busy with; `CacheInv` says what holds while
there are some. A reader that has found a row and is about to store it holds the current
one, or its user is excused (`ReadsStand`). For every entry that is outdated, and whose user is
not excused, there is a call that will delete that very key (`EntriesAccounted`, `WillDelete`): it
is past its write and knows the name, or is an administrator's that has yet to look it up and
will find it, the name being unchanged. The hard step is the write itself (`CacheWriteKeeps`), which
makes an entry outdated, and is excused only where another call is busy with the user.
`CacheTyped` and `CacheStaysFresh` follow.

**`Gateway_proofs`.** What reaches clients by sockets: `Chat`, then `Presence`. `GatewayIsBoth`
says that a behaviour of the gateway is one of each, so that the theorems about them hold of it.

`ChatInv` proves all three properties of `Chat`. For
`DuplicateOnlyByRace`, `NoneFoundYet`: while a call that looked in vain is to create the
conversation there is none of its pair, or the pair is in `raced`; the hard step is
`CreateDirectKeeps`, where every other call that missed the same pair makes it a race. For
`ReachesItsRecipientOnly`, `MessagesFit` and `ToldFits` follow a message from the lookup
(`AddressFits`) to its row and to whom it was emitted, and `ConversationsFit` says that
what is no group has two participants, so that finding both of them in it means these two.
For `GoneWasAnnounced`, `DeleteFits`: who is about to delete has announced, or found that a
faster one had. `ChatTypes`, `DuplicatesComeByRace`, `MessagesReachTheirRecipient` and
`DeletionsAreAnnounced` follow.

`GoneIsOffline` speaks of sockets that are gone; what is
inductive is `OnlineIsHeld`: every online user is stranded or owns a socket that had
`isOnline` set and has not reset it yet. `SocketsFit` (a socket is connected exactly
between its `handleConnection` and its `handleDisconnect`) then gives the rest: such a
socket is neither gone nor handled. `PresenceTypes` and `GoneUsersAreOffline` follow.

`WatchersInv` adds three parts. `OneByOne`: of a user who is not tangled at most one socket has a
handler under way or a connection, so that no second write comes between a write and its emission.
`RoomsFit`: nothing is heard from outside a room, and no room is joined early. `HeardFits`: between
the emissions, what watchers heard last is what the column says. `ConnectedUsersAreOnline` and
`WatchersAlwaysAgree` follow.

**`Engagement_proofs`.** Five components over one database, of which any statement may meet any
other. The proof goes two rounds. The first is about what components share: for each kind of step
(a handler begins, an update by id, an insert, a removal with its cascade, a notice, ...) a
*shape* says which rows, marks, notices and calls it may change and how, and each action is
shown to have one (`MarkShapeBegins`, `MarkShapeLooks` and the like). `SharedInv` – the typing,
the foreign keys (`RowsFit`), which calls were alone (`calm`) – is kept by every shape.
The second takes one component at a time: its part of `EngagementInv` is kept by its
own actions, and by all the others because of their shapes.

* `MarksFit`, `LooksFit` and `BalancesFit`: what a call has found is what it will write to, or
  another served the same user and target first; inserts less deletes are the rows of a key.
  They give `AnswersAddUp` and, with `ReadsFit` and the shared part, `FailsByRaceOnly`.
* `NoticesFit`: what was sent, is to be sent and waits for the parent comment's author is what
  is due. It gives `NoticesMatch`.
* `SalesFit`: of one buyer and item at most one checkout got past the row of the purchase, and
  what is delivered was paid to it. It gives `PaidOnceAndUnlocked`.
* `AccountsFit`: an account belongs to the user it was made for, and after a calm request no
  other is about to replace it. It gives `LinkedAccountStands`.
* `PromotionsFit`: what a calm listing answered as completed nobody is about to delete. It
  gives `PromotionsAsListed`.

`Invariance` is the inductive invariant; `TypeCorrect`, `AnswersAlwaysAddUp`,
`FailuresHaveACause`, `NoticesAlwaysMatch`, `NobodyPaysTwice`, `AccountsStand` and `ListingsStand`
follow, for any number of requests in flight, where the run has two.

**`Reading_proofs`.** What a visit to the stories has put together so far lies between two
sets: every statement's result has all that `always` held and nothing that `ever` did not
(`ScopeFits`, `FriendsFit`, `ProfileFits`, `PurchasesFit`, which with the answer make `TrayInv`). Conditions that are
read at different times are therefore each true at some time, and those that held throughout
are found by all. `StoriesAreShownFairly` follows, for any number of stories and changes.

What listings and figures say rests on definitions by recursion: the rows that a find selects
(`Chosen`), sums over sets of rows (`SumFunctionOnSet` of the community modules) and the first
days of months (`FirstDay`). The library states induction and recursion for operators, which
the provers cannot instantiate; the module states both for sets instead, where they can:
`SetInduction` (a set that has 0 and, with n, n + 1 has all numbers; from the
well-foundedness of their order), `UnfoldsExists` and `UnfoldsUnique` (what a function steps to
from a first value exists and is unique), `PrefixInduction` for sequences and
`FiniteInduction` for finite sets. On them rest what a selection has, in which order and how
often (`ChosenHas`), how it changes when a row comes, goes or moves (`ChosenGrows`), and how
sums split and scale (`SumSplits`, `SumOfTwo`, `SumByLabel`, `CountByLabel`).

`PagesInv` is the inductive invariant of walks through pages:

* `PagesFit`: the types; ids are drawn once; what is on a page was a row;
* `ScopeStands`: who is followed and who is private was read as it is, unless it changed since;
* `ListedOpens`: the conditions of the feeds, of a profile's posts and of `findOne` agree. This
  is `WhatIsListedOpens`, theorem `ListedRowsOpen`;
* `WalkFits`: what has slipped over the end of the pages read so far (`Passed`) without being
  seen (`Missed`) is no more than rows left, moved or came between the two statements of a
  page; what was seen and slipped back (`Again`) is, with what was sent twice, no more than
  rows came and moved. A row that comes or goes moves one row over any position, a row that
  moves takes one with it (`GrownWithin`, `MovedWithin`);
* `QuietFits`: without changes the ids sent so far are those at the head of the listing, and the
  count is of what is there.

`WalksShowRows` follows from the last two: for any number of rows, pages of any size and
any number of changes, where the run has three rows and one change.

Figures need no more than the types, and that no row is of the future (`FiguresInvariant`). For
`ChartsStayComplete` the dates of a window of 14 local days are counted in UTC
(`LabelsAre`, `ChartedIs`), and a chart that counts label by label counts each row of them once.
For `FiguresStayConsistent` sums over creators are sums over rows, any
finite set of users has a best part of each size (`RankingsExist`), whom that leaves out has `Top`
of it at least as good (`RankingsAreTop`), and the months tile the days (`MonthOfIs`). `setMonth` in a month after a
shorter one is a case of its own (`LastMonthIs`).

Only model-checked are:

* `StaleEntriesVanish`, `TransactionsEnd` and `JobsEnd`, since liveness under fairness is
  beyond this prover;
* the violations, which are single traces.

## 6. Where the code disagrees with its documentation

* `auth_migration`: `ResetFind`, `LoginFind` (bcrypt hash), `ResetWrite`,
  `LoginMigrate`. The sign-in that verified the old password writes it back after
  the reset was answered (`auth.service.ts:232` against the comment at 157).
* `reading_close_friends`: `FindProfile`, `FindUserStories`. `StoriesService` "supports
  close-friends-only visibility" (`stories.service.ts:31`) and a "guest cannot view ... close
  friends" (line 154), which is so in the tray; `findByUser` (line 196) shows these stories to
  everyone who may see the profile, guests included. No interleaving is needed.
  `StoriesShownFairly` holds of both endpoints by the conditions that each has.

Read in the code while modelling, and built into the models as they are:

* `blockUser` "also removes any existing follow relationships" (`follows.service.ts:208`). A
  toggle that looked for the block before it was created inserts its follow after the removal;
  `SeparationLasts` states what does hold.
* `createGroup` "re-uses an existing conversation if one already exists with the same
  participant set" (`chat.service.ts:29`). It looks only for an unnamed pair; groups are
  always new (`CreateGroup`). Two calls that look for the pair at the same time, `sendMessage`
  included, make a conversation each; `DuplicateOnlyByRace` states what does hold.
* A `blockUser` that dies between the block and the removal leaves the follows, and a retry fails
  on the unique key of the block before it reaches the removal.
* "Create a new connected account if none exists" (`payments.service.ts:35`): two requests of a
  seller that both find none make one each at Stripe, and the second write decides which one sales
  are paid to. `LinkedAccountStands` leaves out requests that overlap.
* "Cannot cancel completed promotion" (`creator.service.ts:335`): the status is read before the
  delete, which is by id; a listing that completes the promotion in between does not stop it.
  `PromotionsAsListed` leaves out cancellations that overlap.
* A checkout whose session was not made or was abandoned leaves a pending purchase, whose unique
  key refuses every later checkout of the item by that buyer (`payments.service.ts:165`).
* "Log every admin action for accountability" (`admin.service.ts:36`): the endpoints of section 3
  that log nothing, a request that dies between its write and its entry, and two requests at one
  column that log in the other order are what `blurred` takes out of `LogTellsState`.
* `getByTag` and `getTaggedPosts` (`posts.service.ts:158, 475`) have no condition on privacy, so
  that they list posts that `findOne` refuses to the same reader. No document says otherwise.
* `view` is "idempotent" (`stories.service.ts`): two first views that overlap make one row, and
  the slower call fails; `FailsByRaceOnly` says when.
* The charts are "for the last 14 days" (`admin.service.ts:620`): see `ChartsComplete`.
* `payments.controller.ts:22-44` passes `req.user.id`, which the JWT strategy does not set. The
  model starts at the service, given the caller's id.

## 7. What is not modelled

* Uploads, media processing, e-mail, the AI provider, CSRF, cookies, filters,
  configuration: input and output without state of the application. Failures of what
  a handler awaits are `CallDies`.
* Search and suggestions: reads whose ranking nothing depends on, and history inserts nobody
  awaits. Audio and reports: single statements.
* Reads of one statement that are not paginated (lists of collections, highlights,
  conversations and passkeys; CSV exports).
* The `_count` columns in cached profiles, which nothing invalidates; their age is
  bounded by the life of an entry.
* Removal of users in `Follows`, `Chat` and `Engagement`: it deletes rows by cascade, and in
  `Chat` would leave conversations of one participant.
* Delivery by Socket.IO: `told` and `heard` record emission, not receipt. The relays of
  typing, reactions and read marks keep no state.
* The whitelist and the audio tracks as administrators change them: they follow the two orders of
  statements it has and add no state of their own.
* Refunds, payouts and Stripe's other events, which the webhook ignores. No code sets
  `isMonetizationEnabled`, so that who has it is a constant of `Purchases`.
* Rounding of amounts and percentages, and daylight saving, in `Dashboards`.
* More than two requests at a time in `Engagement`: any handler races any other, but three
  of them do not.

## 8. Plan

Done: all modules of section 3 and the proofs of section 5.

Next, most important first:

1. Shorter proofs: the shapes of steps in `Engagement_proofs` serve other modules as well.
2. Removal of users in `Engagement`, `Follows` and `Chat`.

Runs are kept to one per question; where a new module extends an old one its run takes
over the questions of the old module's run.

## 9. Running it

```
tlc -workers 2 -config MCAuthSessions.cfg MCAuth
tlapm Auth_proofs.tla
```

Every other run is the module and `.cfg` of the same row of `PROJECT.json`. The
longest passing runs take two to three minutes; `Engagement_proofs` takes about nine and
`Reading_proofs` about seven when nothing is remembered, the other proofs about one each.
