# NexPlay backend: specifications, model checking and proofs

This directory holds TLA+ models of the NexPlay backend (`src/src`, an Express
server over Prisma and PostgreSQL with an optional Redis cache and Socket.IO, and
`src/prisma`, its schema and seed), the TLC configurations that check them on
small instances, and TLAPS proofs of their main invariants for every value of
their constants.

The server is one Node process. Its handlers are `async` functions, and between
two `await`s nothing else runs; at every `await` any other request may run. The
database runs each statement at READ COMMITTED: a statement sees what had been
committed when it started. Almost all that is hard in this program comes from
those two facts: **a handler reads a row, decides, and writes, in two or more
statements, with other requests between them**. A unit test runs one handler
from start to end and cannot see this. The models therefore give every awaited
statement a step of its own and let requests interleave between the steps.

## 1. The system

| Component | State it keeps | Operations | What makes it correct |
|---|---|---|---|
| Rewards economy (`rewards.service.ts`) | wallets, their ledger, spins, claims, stock, redemptions | spin, claim, redeem, balance and status reads | The wallet continues from a balance its user had, and shows its ledger's last row; one spin and one claim a day; every ledger row has its record; no stock or limit overrun |
| Rewards administration (`adminRewards.service.ts`) | segments, ladder, items | create, update, delete or deactivate | What was won or bought keeps the row it refers to; what is withdrawn is no longer taken |
| Game sessions (`gameSession`, `achievement`, `xp` services, their repositories) | sessions, statistics, plays, XP, leaderboard entries, achievements | start, end, abandon | Each session is counted once; statistics and leaderboard are what the sessions add up to; an achievement is rewarded once |
| Public lists and the catalogue (`game`, `adminGame`, `leaderboard`, `tournament` services) | games, categories, scores; cached lists of them | list, create, update, remove, restore | A list is what the tables say, or stops being served soon; a board is in order and names nobody who has gone |
| Tournament registration (`tournament.service.ts`) | tournaments, participants | register, create, update, remove, list | One entry per user, within capacity and window, no orphan entries |
| Community (`community.service.ts`) | posts, comments, likes | create, edit, delete, restore, toggle like | An old post is not rewritten, a removed one gains no comments; a like counts once per user |
| Messenger and support inbox (`messenger`, `adminSupport` services) | conversations, messages, audits, reads | send, edit, delete, react, mark read, reply, set state, assign, delete | Deleted text is kept for moderation and shown to nobody; writing reopens a closed thread; reading clears the badge |
| Support workspace (`supportWorkspace.service.ts`) | notes, tags, financial records | add, delete, toggle, record, summarise | Every toggle counts; the summary is that of the records |
| Live updates (`realtime.service.ts` and its callers, `settings.service.ts`) | what open screens show | emit after a write | Screens show the row once all is quiet |
| Broadcasts (`broadcast.service.ts`) | broadcasts and the messages they create | create, update, send, remove | Everybody in the audience is written to once; an interrupted send can be retried |
| Cache (`cache.service.ts` and its readers) | Redis keys or the in-process map, with a TTL | remember, set, del, invalidatePrefix | What is cached is what the database holds, or stops being served soon |
| Permissions (`permission`, `adminUser` services, `constants/permissions.ts`) | roles, overrides, their cached union | getEffective, set overrides, change role, change status | Nobody is served what is reserved or acts on those above; a revoked permission ends |
| Login lockout (`auth.service.ts`) | `failedLoginAttempts`, `lockedUntil` | login, reset by a success or a new password | Locked after the configured number of failures, whatever the concurrency; not sooner |
| Sessions and tokens (`auth`, `token` services) | sessions, refresh tokens, reset links | login, refresh, logout, forgot, reset | A refresh token is used once; a reset logs everybody out; a reset link works once |
| Registration (`auth.service.ts`) | accounts, verifications | register, resend, verify | One account per address and name; verified only by its own link |
| Login history and agent links (`accountSecurity.service.ts`) | sign-ins; links and who a conversation is assigned to | record, report related accounts; create, switch, claim | Nobody is related without cause; an assignment is kept |
| Job queue (`jobs/queue.ts`) | pending list, `processing` flag, timers, in memory | register, enqueue, process | No job lost, run twice at a time, or retried beyond its limit |
| Scheduler (`jobs/scheduler.ts`), notifications (`notification.service.ts`) | timers; rows per user | notify, read, delete; sweep | What is pushed was kept; what is spent goes in the end, and nothing alive |
| Presence and rooms (`config/socket.ts`) | connections per user, rooms, in memory | handshake, connect, join, disconnect | A user is shown online exactly while a connection is |
| Uploads (`upload.middleware.ts`, `storage`, `media`, `messengerAttachment` services) | files, and the rows that name them | upload, attach, catalogue, remove, avatar | No row names an answered URL of a file that is not there; what is stored fits its kind |
| Control centre and reports (`controlCenter`, `reporting`, `health` services) | none: figures computed on request | snapshot, overview, trends, agents | A figure that could not be read is not shown as a number |
| Seed (`prisma/seed.ts`) | the first rows of most tables | one run per deploy | Safe to run repeatedly |
| The rest: profile, settings of users, CMS pages, SEO, FAQ, activity log, search, HTTP layer, boot | single rows, or none | single statements, formatting, I/O | Nothing that depends on the order of steps |

`nexplay-server` is an older copy of the same server; see "What is not modelled".

How the components meet:

* **Shared rows.** Spin, claim and redeem all end in `applyCoins` on one wallet
  row, and are one module; end-of-session and achievements write one XP ledger;
  the staff withdraw what customers are winning and buying (`Withdrawal`); a
  login and a password reset write the same counter (`Lockout`) and sessions
  (`Sessions`); agents' links and the staff assign the same conversation
  (`AgentLinks`).
* **Calls.** `gameSession.end` calls the stats, leaderboard, XP, achievement and
  notification services in sequence, in no transaction: whatever has been
  written when one of them fails stays written.
* **Cache.** Content blocks, tournaments, the game catalogue, boards and
  permissions are read through `remember`; their writers call `del` or
  `invalidatePrefix`, and for boards nobody does.
* **Callbacks.** The job queue's loop is re-entered from `enqueue`, from timers
  and from the continuation of handlers; Socket.IO handlers and `Promise.allSettled`
  over a broadcast's chunk, or over a report's queries, run between each other's
  awaits.
* **Events.** Services write a row and then send what they have in hand to the
  rooms of `config/socket.ts`: `Screens` models the senders, `Presence` who
  receives.
* **Fire and forget.** Activity rows and some notifications are not awaited, or
  their failure is swallowed; no operation decides by them.

The hard behaviours, each listed at its line under `hazards` in `PROJECT.json`:
check-then-write over two statements (stock, limits, capacity, status of a
session, of a broadcast, of a message, a leaderboard's best, a history counted
before a delete, an assignment, a like, a tag, a token about to be rotated),
uniqueness that depends on an index and not on the check before it, statements
outside a transaction with a request that dies between them, a process that ends
in the middle of a send, a run of the seed or a presence map, lock waits inside a
transaction, a value computed before and cached after a write, answers sent in
another order than the writes, limited queries that return some of the rows,
reports whose queries fail one by one, a counter decided on before a slow
password comparison, a midnight between the start of a request and its insert,
and a flag around a loop that awaits.

## 2. Modules

| Module | Models | Actions and what they stand for |
|---|---|---|
| `RewardsEconomy` | the abstract economy: every spin, claim and redemption commits in one step, and continues from a balance the wallet had while it was on its way | `SpinWheel`, `ClaimReward`, `Purchase`, `Midnight` |
| `Rewards` | `rewards.service.ts` statement by statement; implements the former | `Arrive`; `Read` (a statement that reads: segments, claims, item, limit and `FindWallet`, the upsert's SELECT); `Wait` (a statement that needs a key or row: the insert, `OpenWallet`, `UpdateWallet`, the stock decrement); `Commit`; `GetBalance` (opens a wallet); `Abort`; `Crash`; `NewDay` |
| `Withdrawal` | `adminRewards.service.ts` against wins and purchases | `createPrize`, `updatePrize`, `deleteSegment`/`deleteStoreItem` (count), `Deactivate` or `Delete`; `spin`/`redeem` (read), `Take` (insert with its foreign key) |
| `GameSession` | one user's sessions of one game | one action per awaited statement of `start`, `abandon` and `end`, in its order, and `Abort` before any of them |
| `Listings` | cached lists and boards against catalogue edits and play | a reader's `remember`, `ReadOne`, `listCategories`, `GroupScores`, `NameRows`, `set`; a writer's `Admin` write and `bustCatalogCache`, `del`; `Expire`, `Play`, `SoftDelete` |
| `Tournament` | one tournament: the row, its participants, the clock | `register` and its statements `find`, `count`, `existing`, `create`; `update`, `remove`, `Tick` |
| `Community` | posts and comments | `createPost`, `updatePost`, `updateComment` and `SaveContent`; `deletePost`, `deleteComment` and `MarkDeleted`; `addComment`, `FindParent`, `CreateComment`; `restorePost`; `EditWindowEnds` |
| `Likes` | likes of posts and comments | `toggleLike`, `toggleCommentLike` (find), `DeleteLike`, `CreateLike` |
| `Messenger` | one customer's conversation | customer: `getOrCreateForUser`, `create`, `touch`, `reopen`, `findForEdit`/`edit`, `findForDelete`/`auditUpsert`/`softDelete`; agents: `reply`, `setState`, `deleteConversation` |
| `ReadMarks` | what the customer has read | `listByConversation`, `markRead`, against `sendMessage` and `softDelete` |
| `Screens` | what open screens make of the events | each writer of a ticket, a message or the settings, with the answer it has in hand and its `emit`; the bulk updates, which emit nothing; `Open` |
| `CustomerFile` | notes, tags and the ledger of a customer | `createTag`, `deleteTag`, `toggleUserTag` and `Unassign`/`AssignTag`; `addNote`, `deleteNote`; `addFinancialRecord`, `deleteFinancialRecord`; `getFinancials` is an operator |
| `Broadcast` | one broadcast | `send` and its statements, `deliver` to each recipient of a chunk in any order or failing, the `catch`, `remove`, `Crash` |
| `CacheAside` | `cache.service.ts` and what reads and writes through it | reader: `get`, `produce`, `set`; writers: `setContent` (write, `del`), `removeContent` (`del`, write), `writeListed` (write, list keys, delete them); `Expire`; `Abort` |
| `Roles` | the table of `constants/permissions.ts` as it stands | none: operators |
| `Permissions` | effective permissions through the cache, and the admin operations | `signIn`, `requirePermission` and the statements of what it lets in (`Step`), `CacheExpires`, `TokenExpires` |
| `Lockout` | the counter and the lock of one account | `login`, `FindUser`, `ComparePassword`, `lockAccount`, `incrementFailedAttempts`, `resetFailedAttempts`, `updatePassword`, `LockExpires`, `Abort` |
| `Sessions` | sessions, refresh tokens and reset links of one account | `login`, `rotate`, `logout`, `resetPassword`, and their statements (`Step`); `forgotPassword`; expiry of sessions, tokens, links |
| `Registration` | accounts and the links that verify them | `register`, `create`, `resendVerification`, `createEmailVerificationToken`, `sendVerificationEmail`, `verifyEmail` and its statements; `Expire`, `Sweep` |
| `LoginHistory` | sign-ins and the report of related accounts | `recordLogin`; the report is an operator over whichever rows the limited queries take |
| `AgentLinks` | whom each conversation is assigned to | `getOrCreateAgentLink`, `CreateLink`, `setAgentLinkActive`; `claimViaLink` and its statements; `assign`, `bulkAssign`, `deleteConversation` |
| `JobBoard` | what a queue promises, whatever it is made of | each job moves by itself: accepted, run, dropped, finished, retried, given up, lost |
| `JobQueue` | `jobs/queue.ts`; implements the former | `register`, `enqueue`, `HandlerResolves`, `HandlerRejects`, `BackoffEnds`, `Restart`; each contains the whole run of the loop to its next await (`Drain`) |
| `Presence` | `config/socket.ts` | `Handshake`, `Connection`, `GiveUp`, `Disconnect`, `Join`, `Leave`, `Restart`, `RoleChanges` |
| `Notices` | notifications and the scheduler's tasks | `notify`, `broadcast`, `createMany`, `toUser`; `markRead`, `markAllRead`, `delete`, `deleteAllRead`; `Tick`, `deleteMany`, `safeRun`; `Restart` |
| `Uploads` | files and what names them | `multer`, `check`, `store`, `catalog`, `sendMessage`, `remove`; `uploadAvatar`, `uploadImage`, `updateAvatar`; `Restart` |
| `Reports` | the snapshot, overview, trends and agents' figures | `Ask`, `Answer` and `Fail` of each query, `NextBatch`, `Respond`; tickets: `open`, `setState`, `assign`; `Tick` |
| `Seed` | `prisma/seed.ts`, a section at a time | `seedAdmin`, `Start`, `Upsert`, `RetireOthers`, `Find`, `Create`, `TooFewAccounts`, `Die`; admins: `AdminRemoves`, `AdminWrites`, `AdminPublishes`; `SignIn` |

The instances for TLC:

| MC module | Instantiates |
|---|---|
| `MCRewards`, `MCWallet` | `Rewards`; and with `Reports` |
| `MCGames` | `GameSession` twice (by wins, by score), `Listings` |
| `MCSite` | `Tournament`, `Withdrawal`, `Community`, `Likes`, `Seed` |
| `MCSupport` | `Messenger`, `CustomerFile`, `ReadMarks`, `Screens` |
| `MCBroadcast` | `Broadcast` |
| `MCCaches` | `CacheAside`, `Permissions` |
| `MCAccounts` | `Lockout`, `Sessions`, `LoginHistory`, `AgentLinks`, `Registration` |
| `MCServer` | `JobQueue`, `Presence`, `Notices`, `Uploads` |

Where an MC module holds several modules, a behaviour exercises **one of them,
chosen in its first state**. They are kept in one run because none decides by a
row of another, so that interleaving them would multiply the states and add no
behaviour to any; where two parts of the code do share rows they are one module.
A property of a part holds trivially in the behaviours of the others.

`...Proofs` modules hold the theorems (section 5). In `PROJECT.json`, `map` gives
the source lines of every definition that translates code; where `nexplay-server`
holds a byte-identical copy of a file, the whole specification (`Spec` or
`FairSpec`) is mapped to that copy and its parts to the file under `src/src`.
Definitions named `Fault_...` are the seeded faults used to show that each
property can fail; no specification uses them.

### Conventions

* **Requests.** `req[p]` is the record of the request in slot `p`: its place in
  the handler (`pc`, named after the statement it is about to execute) and the
  locals it still needs. A slot that is `Idle` can take another request, so a
  behaviour has any number of requests, with as many at a time as there are
  slots.
* **Transactions.** In `Rewards`, where a transaction spans many statements and
  holds locks, what it has written stays in its record and reaches the tables
  with `Commit`; `Abort` drops it. The locks are read off the positions of the
  other requests: who has inserted a row holds its unique key (`KeyHeld`), who
  has opened a wallet holds its key (`RowHeld`), and who has set one its row
  (`HoldsWallet`); who has only read it holds nothing. In `Tournament` the only
  write is the last statement, so it and the commit are one step.
* **No transaction.** Elsewhere every statement commits by itself.
* **Failure.** A statement may fail, a request time out, or the process end at
  any place: `Abort` ends one request there, `Crash`, `Restart` and `Die` the
  process. A handler with a `catch` goes there instead.
* **Answers.** In `Screens` a statement is executed and answered in two steps,
  since two answers of the database may arrive in either order; elsewhere the
  order of answers decides nothing and the two are one step.
* **Limited queries.** A `take` without an order returns any of the rows, as many
  as the limit (`LoginHistory`); with an order, the first (`ReadMarks`,
  `CustomerFile`).
* **Data.** Users, items, messages, keys and jobs are model values. Text is kept
  to what the properties tell apart: a message is `"first"`, `"edited"` or
  blank. Days and times are small numbers, or a flag where only one edge matters
  (a link that has expired, a post past its window): the code compares them and
  asks for yesterday, nothing else.
* **History variables** (`began`, `lost`, `recorded`, `strikes`, `written`, `late`,
  `tried`, `sends`, `sealed`, `due`, `raced`, `behind`, `cleared`, `flips`,
  `moved`, `alone`, `owed`, `opened`, `wiped`) are written and never read by the
  actions.

### What is assumed of the outside

* PostgreSQL: READ COMMITTED, unique indexes checked at the insert, which waits
  for an uncommitted owner of the key, and in which a null equals nothing; foreign
  keys with their cascade; an `UPDATE` keeps the row locked, and an `INSERT` its
  key, until the end of its transaction; `{ increment: 1 }` and `{ decrement: 1 }`
  apply to the row's present value.
* Prisma: an `upsert` with nothing to update, as of the wallet in `applyCoins`, is
  a `SELECT`, and an `INSERT` when that finds no row: it locks nothing that is
  there; an interactive transaction has a time limit, which is
  one of the causes of `Abort`; a value outside an enum is refused.
* Redis or the in-process map: a single command is atomic; a key disappears at
  its TTL at the latest; a failing command is swallowed, as `cache.service.ts`
  does.
* Socket.IO delivers what one process sends to one socket in the order it sent
  it. E-mail and Cloudinary either do what they were asked or fail.
* Bodies of admin requests are validated as far as the code does: amounts of
  segments, ladder and prices can be any integer, which is what the constants of
  `Rewards` allow.

## 3. What is checked

`tlc -config <file>.cfg <MC module>` reproduces each run. Those marked ✗ are
expected to end in a counterexample; see section 6.

| Run | Configuration | Question and answer |
|---|---|---|
| `rewards_wallet` | `RewardsWallet.cfg`, `MCWallet` | Two concurrent requests of one user over spin, claim and redeem: do the interleaved transactions do what the economy of single commits does (`EconSpec`), does the wallet show its last row and each row continue from a balance that was the wallet's while its request was on its way (`WalletContinues`), does the ledger tell exactly what was won and bought (`LedgerTellsAll`), is no decrement of stock lost and by how much can the unlocked checks of stock and limit be overrun (`ShelfSound`: by fewer than the requests in flight)? And reports: is a figure that was not read ever shown as a number, and do those of one report belong together when nothing changes (`FiguresHold`)? |
| `rewards_days` | `RewardsDays.cfg`, `MCRewards` | Two requests across a midnight: one reward a day whichever day a slow request carries (`OneRewardPerDay`), and nobody waits for ever (`RequestsEnd`): locks are always taken in the order key, wallet, item. |
| `rewards_lost` ✗ | `RewardsLost.cfg`, `MCRewards` | Is the balance the running total of the ledger? No: two requests that read one balance are two rows and one movement. |
| `rewards_oversell` ✗ | `RewardsOversell.cfg`, `MCRewards` | Can stock go below zero? Yes: to -1 with two users. |
| `games` | `Games.cfg`, `MCGames` | How often can a session count (`RecordedBounded`: once per request that found it in progress), can a number of wins or a score pass without anybody noticing the achievement it earns (`TierNoticed`: only if the request that saw it died), can one be rewarded twice (`AchievementOnce`: no)? Lists: stale only for the races the cache leaves open, and a board in order, naming nobody who had gone (`ListsSound`). |
| `tournament` | `Tournament.cfg`, `MCSite` | Registrations against the admin's edits, deletion and the clock: one entry per user, none without a tournament, capacity overrun by fewer than the requests in flight (`EntriesSound`). Prizes withdrawn while they are taken: no history without its row, nothing withdrawn taken by who had not seen it on offer (`WithdrawnForGood`). Posts, comments and likes: what the window or a removal closed is reopened only by requests past the check, and likes do not pile up (`CommunitySound`). Deploys that die, repeat and overlap: nothing twice but by those that overlap (`SeededOnce`). |
| `messenger` | `Messenger.cfg`, `MCSupport` | Customer and agents on one thread, deleted and begun again: deleted text is kept (`AuditKept`), a customer who writes in time to see the thread closed reopens it (`ReopensInTime`). Every answered toggle of a tag counts and the summary is that of the records it can read (`FileAgrees`). Reading clears the badge, up to what one list holds (`ReadClears`). Open screens show the row, or are behind for one of five known reasons (`ScreensFollow`). |
| `broadcast` | `Broadcast.cfg`, `MCBroadcast` | Two sends at a time: none skips or repeats a customer by itself (`EveryoneOnce`), the row's count is not inflated (`CountIsHonest`), every send ends whatever fails (`SendsEnd`). |
| `broadcast_double` ✗ | `BroadcastDouble.cfg`, `MCBroadcast` | Does marking SENDING first keep a double click out? No. |
| `cache` | `Caches.cfg`, `MCCaches` | Why can an entry be stale (`StaleIsLate`: its deletion is pending, it failed, the reader was overtaken, or the row was removed after its entry), and for how long (`StaleEnds`: not for ever)? Permissions: what is reserved is served to super admins alone, and one acts only on those below oneself (`LadderHolds`); once changes stop, what is served catches up, through cache and token (`SettlesFresh`). |
| `accounts` | `Accounts.cfg`, `MCAccounts` | Concurrent logins: an unlocked account has fewer failures than one below the maximum plus one for each login in flight (`LockInTime`). A reset logs everybody out but whom it cannot reach (`OldPasswordOut`); a rotated refresh token is good for no third (`RotatedOnce`); an ended session takes no more tokens than were on their way (`EndedIsSealed`). Accounts are related for what they share and no more, whichever rows the limited queries return (`SignalsSound`). A claim never takes a conversation that it could have seen assigned (`AssignmentKept`). One account per address and name, verified only by its own link in time (`RegisteredSound`). |
| `job_queue` | `JobQueue.cfg`, `MCServer` | Enqueues, timers and settling handlers around the flag: no lost wake-up, no job in two places, attempts within limits (`JobsTended`), every job settled (`JobsSettle`), and all of it implements `JobBoard` (`KeepsPromise`). Presence: what clients were last told of a user is so, but for those a restart forgot (`PresenceTold`). No URL that was answered dangles, what is stored fits its kind, and what the chat refuses does not, by type, size or length (`UploadsSound`). What is pushed was kept, and what is spent goes in the end (`HouseKept`). |

Each property has a seeded fault (`mutants` in `PROJECT.json`): a change to one
definition of the kind a slip in the code would be - a lock not taken, a unique
index missing, a check off by one, a flag left up, a cascade forgotten, a null
compared as if it were equal - under which TLC finds that property violated in
the same configuration. Type invariants are conjuncts of the inductive
invariants of section 5.

### Bounds, and why they are enough

| Run | Instance | Distinct states |
|---|---|---|
| `rewards_wallet` | 1 user, 2 requests at a time, prize 3 or none, ladder paying 1, two items of price 1 (one with stock 1, one with limit 1), one day; 1 report at a time over 1 ticket, a window of 1 day, a clock of 5 half-days | 1,067,568 up to symmetry |
| `rewards_days` | 1 user, 2 requests, two days, an empty prize, ladder paying 1, one item with stock 1 and limit 1 | 80,829 |
| `games` | 2 requests; 2 sessions, wins and losses with tiers at 1 and 2, or scores 1 and 2; 1 game, 1 category, 3 users for a board of 2 places | 1,669,917 up to symmetry |
| `tournament` | 3 users, 2 registrations, capacity 0 or 1 at the admin's will, times 0 and 1; 3 requests for 1 segment and 1 item with a history up to 2; an author and a moderator, 2 requests, 1 post, 2 comments; 3 toggles, 4 like rows; 2 deploys with 2 addresses and 1 edit | 936,528 up to symmetry |
| `messenger` | 3 requests, 2 messages, 2 conversations one after the other; 3 toggles of 1 tag with 3 assignments, a ledger of 3 rows against a read of 2; 3 tabs over a thread of 3 against a list of 2; 2 writers of 1 row | 1,606,384 up to symmetry |
| `broadcast` | 3 customers, 2 sends at a time, 2 sends in all past the marking, chunks of 2 | 460,588 |
| `cache` | 2 requests, 2 keys, 3 writes, all writers; 2 users, 3 roles, 3 permissions, 1 change | 137,352 |
| `accounts` | 3 logins, limit 2, counter up to 6; 2 requests over 2 sessions, 2 tokens, 1 link, 1 new password; a log of 6 sign-ins against takes of 3 and 2; 2 claims over 2 customers and 2 agents; 2 forms over 2 addresses, 2 names, 1 link | 1,196,738 up to symmetry |
| `job_queue` | 3 jobs with limits 3, 2 and 0, two names; 2 users, 3 sockets, 1 conversation; 1 announcement, 1 token, 1 verification; 1 file, long or not, sizes on and beside each limit, 2 avatars | 32,018 |

The races this program has are between two requests that read before either
writes; a third is there to come in behind them (a retry, a replay) where the
state space allows it, and above all where a bound counts the requests in flight
(the lock of an account, likes, prizes). Slots are reused, so the number of requests in a behaviour
is bounded only by what the tables can hold. A user's wallet is touched by that
user's requests alone, so one user suffices for the wallet; the race for the last
item needs two and has its own configuration. Two days are the least with a
midnight. Chunks of two over three customers give a full chunk and a short one,
and one or two customers, selected by tags, an exact or a short only one. Two
tiers are the least at which one can be missed between the others. Limited reads
are given one row more than their limit, the least at which something is left
out; a board one user more than its places; a presence count two sockets of one
user beside one of another. Sizes of files lie on a limit and one past it. One
change of permissions is enough because cached sets do not depend on how often
they changed, only on what they were computed from and when. The bounds are
named: `MaxDay`, `MaxSessions`, `MaxTime`, `MaxGens`, `MaxSends`, `MaxVersion`,
`MaxChanges`, `MaxHistory`, `MaxRows`, `MaxIds`, `MaxMessages`, `MaxScore`,
`MaxPasswords`, `MaxAvatars`, `MaxEdits`, `FailedBound`. What depends on no bound
is proved (section 5).

Deadlock is checked in every run; an idle slot can always take another request,
so a state without a successor would be a request stuck for good.

### Fairness

Assumed only where a liveness property is checked, and only of the system:

* `Rewards`: weak fairness of reads and commits (PostgreSQL answers, or the
  transaction's time limit ends it) and strong fairness of the statements that
  wait for a lock: the lock can be taken and released by others again and again,
  and PostgreSQL serves the waiters of a row in turn. `RequestsEnd` then says
  that no cycle of waiting exists, which no fairness could resolve.
* `Broadcast`: weak fairness of a send's next statement, with either outcome.
* `CacheAside`: weak fairness of `Expire`. No request has to be answered for a
  stale entry to end.
* `Permissions`: weak fairness of a request's next statement, of the TTL and of
  the life of an access token. Without the last a token of an old role would be
  presented for ever, which the code's short life of tokens is there to end.
* `JobQueue`: handlers settle (`queue.ts` has no timeout of its own, and a
  handler that never settles does stop the queue) and timers fire.
* `Notices`: weak fairness of a task's timer, and strong fairness of its
  statement: it may fail at any tick, but not at every one.

Nothing makes a user, an admin or a producer act.

## 4. Abstract specifications

`RewardsEconomy` says what the wallet promises with no request, lock or
transaction in it: a spin, a claim or a purchase is one step, which changes a
wallet together with one ledger row and one record that explains it. It does not
say that the step continues from the balance there is. The upsert at
`rewards.service.ts:44-48` reads the wallet without a lock and lines 53-56 set it
to what was computed from that, so a step may continue from any balance the
wallet has shown since its request began (`Seen`), and what was credited or
debited in between is undone: that is all the code promises, and
`rewards_lost` shows it happen. `Rewards` extends the module with the requests,
and its variables of the same names are the committed tables, so the refinement
mapping is the identity: `Spec => EconSpec` is checked as a property of
`rewards_wallet` and proved in `WalletProofs`. It holds because a ledger is only
appended to, with its wallet, so what a request has read is the balance after one
of the rows that came since it began, or the one it began with (`Began`). A
request that overlaps with no other of its user continues from the last row.
Stock and limits are not part of the abstract module: the code does not keep them
atomically, and `ShelfSound` says what it does keep.

`JobBoard` says what a producer may rely on, in terms that would fit the
distributed queue `jobs/queue.ts` mentions as well: a job waits, is run, and
comes to one end for good; at most one runs at a time; each is begun at most as
often as it may be. `JobQueue` instantiates it with the attempts and with a
`Phase` of each job computed from its outcome and the handler that is awaited;
neither the list, the flag nor the timers show. `KeepsPromise == Board!Spec` is
checked in `job_queue` and proved in `ServerProofs`. One step of the queue may
be several of the board: the loop drops every job without a handler on its way to
the next it can run.

## 5. What is proved

All proofs are checked by TLAPS with the SMT and Zenon backends, and LS4 for the
temporal steps. They hold for every value of the constants that satisfies the
named assumption of the module (finite or typed constants; nothing is assumed of
the number of requests but, where something is counted, that it is finite).

Each component's `...Assumption` is the only thing assumed of its constants; where
an MC module instantiates the component, it ASSUMEs the same, and TLC evaluates it
in every run. A `...Proofs` module extends the MC module whose parts it is about -
the MC modules are as parametric as the components, their small sets are in the
`.cfg` files - and does the same for each part: the initial states satisfy its
`IInv`, every step keeps it, `IInv` implies what the run checks. Its last section
carries this over to the composition: a behaviour that exercises a part is one of
that part, or leaves it alone. The `IInv`s stand at the end of the components'
modules, under "Why it holds"; TLC checked each of them on its run before it was
proved.

| Module | Theorems | Argument |
|---|---|---|
| `WalletProofs` | `TypeCorrect`, `Invariance`, `WalletCorrect`, `DailyLimitCorrect`, `ShelfIsSound`, `LedgerIsComplete`, `ImplementsEconomy` | `Steps` fixes what a request knows at each statement; `Began`: what a request has computed is its amount added to the balance after some row of the ledger, or of none, since it began; `KeyLock`: a request that has inserted a spin or claim owns a key nobody has. Without these two the wallet and the day are not inductive: a commit would apply a balance computed from who knows what. The commit of each operation is then one step of the economy, and all else a stutter. Rows are never changed, so what was after a row stays so while others are appended. The shelf is what it was less what was redeemed, and an unlocked check is overrun by requests that were past it together. |
| | `FiguresAreSound` (Reports) | `AnswersAreRead`: what a report has got is the database's, if nothing moved, and nothing unread except in a snapshot. That states make up their total is counting of disjoint sets; that the bars of a trend make up its card is an induction over its days. |
| `GamesProofs` | `Invariance`, `CountedBounded`, `AchievedOnce`, `TiersAreNoticed` | What has been counted of a session plus the requests still to count it is at most the number of slots, and while a session is in progress nothing has been counted. The bound alone is not inductive, for a request about to count must have found the session open. An achievement has one row by its index, and only who inserts it rewards; the request whose increment makes the wins reach a tier is the one that is still to look. |
| | `ListsAreSound` (Listings) | `InHandIsCurrent`: what a reader has in hand is what the tables say, or it was marked as overtaken; and a bust that is on its way will come. `BoardInOrder`: dropping from an ordered board whoever has gone leaves it ordered, an induction over its rows. |
| `SiteProofs` | `Invariance`, `EntriesAreSound` | One entry per user from the unique index at the insert, none without its tournament from the foreign key and the cascade, and a count of those who had counted a place free. |
| | `NothingIsOrphaned` (Withdrawal), `CommunityIsSound` (Community, Likes), `SeedIsIdempotent` (Seed) | Each bounds what comes after a closing by who was past the check then: `OnTheWay`, `DueIsSaved` and `Sealing` say that plus what has come since is no more. Likes: no identifier is given twice. Seed: while no two deploys have overlapped, one runs at a time (`OneRuns`), and a row is created only by who looked for it. |
| `SupportProofs` | `Invariance`, `AuditIsKept`, `ReopenedInTime`, `MessagesGoAlong` | A request about to copy has the text or finds a copy, one about to blank finds a copy; and a blank live message is a deleted one, so that what a request reads is never a blank it might keep. Who writes to a thread seen as closed is on the way to reopen it. |
| | `FilesAgree` (CustomerFile), `ReadingClears` (ReadMarks), `ScreensCatchUp` (Screens) | An assignment that is there was made by the last toggle; a summary is the net of its rows, an induction over them. What is marked is what was listed (`MarksWhatWasListed`), and a thread only grows. A screen is behind only while an answer is on its way, or for a reason the module names. |
| `BroadcastProofs` | `Invariance`, `EveryoneIsServedOnce`, `CountNeverLies` | For each customer, messages plus the sends that may yet write to it are at most the sends made; for each send, tried, being tried and remaining are its audience. |
| `CachesProofs` | `Invariance`, `WritesBustTheCache` | `InHandIsFresh`: a value in a reader's hand is the database's or marked as overtaken. |
| | `LadderIsKept` (Permissions) | Nobody becomes a super admin and none is demoted: whoever acts as one is one (`SupersAreSupers`), and what is about to be written makes and unmakes none (`WritesAreBelow`). By the table of `constants/permissions.ts` nothing reserved is in the set of a lesser role, nor can an override grant it. |
| `AccountsProofs` | `Invariance`, `LockComesInTime` | `LateFailures`: once the counter has reached `Due`, one below the maximum, with no lock set, what can still be added comes from logins that read it before, and each slot can do so once. |
| | `SessionsInvariance`, `ResetLogsOut`, `TokensRotateOnce`, `EndedStaysEnded` (Sessions), `AssignmentIsKept` (AgentLinks), `RegistrationIsSound` (Registration), `SignalsAreSound` (LoginHistory) | The same shape four times: what may still be done against a decision by a request that had read what was before it is counted when the decision is made. Registration rests on its two unique indexes, and on a link that was opened before it is used. A report is bounded by what the whole log would justify because what a query takes is some of it, and all of it while it fits. |
| `ServerProofs` | `Invariance`, `WorkIsTended`, `ImplementsBoard` | The flag is up exactly while a handler is awaited; a job that waits for an attempt has one. The loop to the next await (`Drain`) is handled as a lemma about the prefix of the queue it drops. |
| | `PresenceIsTold` (Presence), `NoRowDangles` (Uploads), `NoticesAreKept` (Notices) | The map's count of a user is the number of connected sockets, and clients are told at 0 and 1. What has passed the checks fits, and a URL is answered only of what was stored. What is pushed was inserted for all it is for, and no row goes back to not being there. |

Induction over data - the bars of a trend, the rows of a
board, the records of a customer - cannot use the library's induction theorems,
which take an operator as a parameter, which no prover here instantiates. It is
done with least elements instead: the set of lengths at which a claim fails is a
set of naturals, so if it is not empty it has a least member (`Least`, from
`NatLessThanWellFounded` and `WFMin`), at which the recursive function is unfolded
once and the claim taken from one length below.

Only model-checked: `RequestsEnd`, `SendsEnd`, `StaleEnds`, `SettlesFresh`,
`JobsSettle` and `SpentEnds` of `HouseKept` (liveness under fairness is beyond
TLAPS here). Every invariant that a run checks is stated by a theorem. Of the properties
of section 6 nothing can be proved: the code does not have them.

## 6. Where the code does not do what it says

Three runs show it (`findings` in `PROJECT.json`):

| Run | Property | What happens |
|---|---|---|
| `rewards_oversell` | `NeverOversold` | Two users read stock 1 and both decrement (`rewards.service.ts:258`, comment at 250-251). |
| `rewards_lost` | `WalletMatchesLedger` | Two redemptions of one user read balance 2 and both set it to 1: the ledger tells of two payments, the wallet of one (`rewards.service.ts:44-56`; `schema.prisma:1612`: "`balance` is a cached running total; the authoritative history lives in CoinTransaction"). |
| `broadcast_double` | `NoDoubleSend` | The status is checked in memory and then written unconditionally (`broadcast.service.ts:74`; comment at 68: "so a double-click can't send the same broadcast twice"). |

The modules state further properties that one would expect and the code does not
have. No run checks them; put in place of a configuration's properties, TLC ends
each with a counterexample - `StreakContinues` once the ladder has two days, and
`OnlyCoinSegmentsPay` once the wheel has a badge that carries coins.

| Module | Property | What happens |
|---|---|---|
| `Rewards` | `LimitRespected` | A double click counts the user's redemptions twice before either inserts (`rewards.service.ts:262`). |
| | `StreakContinues` | Before today's claim the loop at `rewards.service.ts:181` stops at once, so the streak is 0 and every claim is of day 1 (comment at 178: "ending yesterday (or today if claimed)"). |
| | `OnlyCoinSegmentsPay` | A segment of another type with a coin amount pays it (`rewards.service.ts:141`; `schema.prisma:1659`: "ignored otherwise"). |
| `GameSession` | `EndedOnce` | Two requests find the session in progress and both count it (`gameSession.service.ts:76`). |
| | `HigherKept` | The lower of two concurrent scores is written last (`leaderboard.repository.ts:28`; comment at 22: "keeping the higher"). |
| | `UnlockNeverFails` | The loser of a race for an achievement fails on the unique index after its session was counted (`achievement.service.ts:20`; comment at 8-11: "Safe to call speculatively"). |
| `Tournament` | `NeverOverfull` | Two registrations count the last place free (`tournament.service.ts:99`; comment at 85: "respecting capacity and window"). |
| | `WindowRespected` | `registrationOpensAt` is never read (`tournament.service.ts:93`). |
| `Messenger` | `ReopenedByWriting` | An agent resolves the thread after the customer's request read it as open (`messenger.service.ts:159`). |
| | `DeletedStaysBlank` | An edit in flight writes its text into a message that has been deleted (`messenger.service.ts:194`). |
| | `DeletedTextKept` | An edit between copy and blanking: the audit has another text than the one that was deleted (`messenger.service.ts:215`). |
| `ReadMarks` | `BadgeClears` | `markRead` lists the oldest messages, up to a limit; what lies beyond stays unread for ever. Broadcasts have no sender, and a null is not other than the customer: they are never counted as unread. |
| `Screens` | `ScreensSettle`, `DeletedIsGone` | Two answers sent in another order than the writes, files added after the message was in hand, bulk updates that send nothing. |
| `CustomerFile` | `SummaryNeverDrifts` | The summary is added up from at most 200 rows (`supportWorkspace.service.ts`; "it can never drift out of sync"), and in one sum for all currencies. |
| `Broadcast` | `NeverStuck` | A crash, or a database that also fails the write of FAILED, leaves SENDING, which no later send accepts (`broadcast.service.ts:152`). |
| `CacheAside`, `Permissions` | `FreshAtRest` | A reader caches what a write has overtaken, for the whole TTL (`cache.service.ts:86`). |
| `Lockout` | `LockNeedsMax` | The counter survives the lock, so the first failure after it locks again (`auth.service.ts:109`). |
| `Registration` | `WelcomedWithLink` | The welcome is sent although no link could be made or mailed. |
| `LoginHistory` | `SeenFromBothSides` | Which rows a report reads depends on whose it is; A is related to B and B not to A. |
| `AgentLinks` | `NeverPulledAway` | A claim that had read the conversation as unassigned writes over an assignment made since. |
| `Likes` | `OneLike` | The unique index has a null in every row and refuses nothing (`schema.prisma`; `community.service.ts:324`). |
| `Seed` | `RunsThrough` | The second tournament is created with status `IN_PROGRESS`, which the schema does not have (`seed.ts:375`); the script ends there and what is behind it is never seeded, although it is "safe to run repeatedly" (`seed.ts:7`). |
| `Presence` | `NoGhosts`, `SentOnce` | A restart forgets who was online and tells nobody; an agent in the room of a conversation hears of each message twice. |
| `Uploads` | `AvatarCurrent` | Of two uploads the one stored last need not be the one the profile names. |
| `Reports` | `PartsAddUp`, `ResolvedAreResolved` | The queries of one report are of different moments; a ticket reopened keeps `resolvedAt` and still counts as resolved. |
| `Listings` | `FiguresMatch`, `BoardFull` | `public:stats` is under none of the prefixes that writers bust; a board drops who has gone after it was limited, and has fewer places than users. |

Seen while reading, and in the models as the code has it, without a property of
its own: an older draft restored from the archive is published; a list of
tournaments asked for with `status=DRAFT` shows drafts, which
`tournament.service.ts:12` says is never; a deleted message keeps its attachment
rows; the library never deletes a stored file; a seed under a second
`SEED_ADMIN_EMAIL` fails on the username; a sweep between the two statements of
`verifyEmail` fails the second; the first, partial day of a trend is in no bar;
`stopScheduler` is called by nobody and leaves the first runs' timers.

`AggregateAgrees` of `GameSession` completes the picture: with one request at a
time the statistics and the leaderboard entry are what the completed sessions add
up to, which concurrent requests break by the races above.

## 7. What is not modelled

Within the modelled components:

* Messenger: the text of messages beyond first, edited and blank; previews.
* Broadcast: editing a broadcast's text and tags; the audience is chosen when it
  is resolved.
* Tournament: creation (it begins in any state an admin can give it) and
  free-text fields; its list cache is in `CacheAside` and `Listings`.
* Game sessions: losses, draws, play time and session XP amounts, which are sums
  kept as wins are.
* Rewards: the probability of a segment; integer overflow of a balance, which
  PostgreSQL answers with an error (an `Abort`). The ladder's administration is
  one statement per row and refers to nothing.
* Listings: the weekly and the friends' boards take the same two statements over
  other rows.
* Presence: the acknowledgement of a delivery writes a column nothing reads;
  typing leaves no trace; delivery itself is Socket.IO's.
* Reports: breakdowns by tag and priority, averages and names, which are further
  columns of the same queries.
* Uploads: what a message says of an attachment beside its URL (kind, size and
  duration are stored as the client sends them), and whether a URL that no upload
  answered leads anywhere: the schema accepts any string, the model sends one
  (`sendMessage`), and `NothingDangles` promises nothing of it.
* Login history: the parsing of user agents; a device is a model value.
* Registration: password rules and hashing; a form is a name and an address.

Left out: profile and settings of users, CMS pages, SEO and FAQ (each operation is
one statement on one row; the cached content blocks are in `CacheAside`), the
activity log (append-only, failure swallowed) and search (read-only), HTTP routing
and validation (a refused or failed request is an `Abort` in every model), boot,
configuration and logging (no state that a step decides by). E-mail, Redis,
PostgreSQL, Cloudinary and Socket.IO are external and appear as what the code may
see of them.

`nexplay-server` is an older copy of the server. Most of its services are the same
byte for byte and the same modules model them. Where the two differ - messenger,
support inbox, community, uploads, realtime, parts of `auth.service.ts`, and the
settings, whose update emits nothing there - the models follow `src/src`.

## 8. What comes next

An abstract specification of `Sessions` - a token is redeemed once, and a user
whose sessions were revoked has none - with the exceptions that `RotatedOnce` and
`OldPasswordOut` name as its only difference from the code, and a refinement like
the two of section 4. A `recipientCount` written by two overlapping sends is
bounded by `CountIsHonest` from above only; how far below the messages it may lie
has not been asked.
