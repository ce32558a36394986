# Null-Void in TLA+

Null-Void is a collaborative drawing board. Users open a room in the browser,
every stroke is broadcast to the other users of the room through Socket.IO, kept
in Redis, and checkpointed in Postgres. This directory holds TLA+ modules of
the parts of it whose correctness depends on the order in which things happen,
the TLC configurations that check them, and machine-checked proofs.

Paths are relative to `src/`; `RGS` stands for
`apps/server/src/modules/rooms/rooms-gateway.service.ts`.

Contents: 1 the system, 2 inventory of its components, 3 the modules, 4 what is
checked, 5 what is proved, 6 where the code differs from what is said about it,
7 what is not modelled, 8 plan.

## 1. The system

| part | code | state it keeps |
|---|---|---|
| server gateway (one per process, several processes behind the Redis adapter) | `RGS` | `client.data` of each socket, socket rooms |
| queue Redis | `apps/server/src/core/queue-redis` | hash of pending strokes, snapshot, flush lock, active-user hash, BullMQ jobs |
| cache Redis | `apps/server/src/core/cache-redis` | cached accounts and rooms, OAuth states, blacklisted tokens, throttler counters |
| processor | `apps/processor/src/index.ts` | none; consumes the idle-snapshot queue |
| HTTP services | `apps/server/src/modules/{rooms,accounts,auth}` | none; write Postgres and cache Redis |
| Postgres | `apps/server/prisma/schema.prisma` | users, rooms, members, invites, snapshots, refresh tokens |
| website | `apps/website` | the strokes and users on the screen (`stores/room-state.ts`), the cookies |

How they interact. A stroke arrives as a Socket.IO message; `handleDraw` puts it
into the hash, broadcasts it, replaces the room's idle-snapshot job (remove, then
add, five minutes of delay) and, when the hash has `MAX_NUMBER_OF_DRAW_EVENTS`
strokes, takes the lock, merges the hash with the latest snapshot, stores the merge
in Redis, deletes the hash, inserts a row into `Snapshots`, removes the job and
releases the lock. The processor does the same when the job fires, in another order
(it inserts before it deletes) and with other error paths. `handleConnection` reads
the same hash and the same snapshot for a user who joins. Membership, roles and
invites are written by HTTP handlers and by gateway handlers of an admin, and read
by guards, partly from the database and partly from `client.data`. Browsers carry a
pair of tokens in cookies; an expired access token is renewed by whichever request is
refused first, or by several at once.

What is hard: every handler is a chain of awaits, so any number of them interleave
on one server and across servers; each Redis or Postgres call can fail or have its
reply lost, and most failures are only logged; processes crash between two calls;
keys have TTLs; jobs are retried; caches are filled by readers that race writers.

## 2. Inventory

For each component: its state, its operations, what is hard about it, and what makes
it correct. Components without a module here are listed in section 7.

**Canvas write path** (`handleDraw`, `RGS` 100-300, 927-1093). State: the hash, the
snapshot, the lock, the job, the newest row. Operations: hash and broadcast a stroke,
reschedule the job, flush at the threshold. Hard: flushes of several servers and of
the processor at once; strokes arriving during a flush; a failure or crash at each of
fifteen calls; the lock is released by the happy path and by its TTL only. Correct
when: flushes exclude each other, no stroke leaves the canvas, every stroke reaches
the database, and the lock is never kept for good.

**Idle-snapshot worker** (`apps/processor/src/index.ts`) and the **BullMQ queue**. State:
the job. Operations: run, retry, restart after a stall. Hard: a job of the same id
that is still active makes `Queue.add` a no-op; a retry meets the lock of its own
failed attempt; a crash between the insert and the delete repeats the flush. Correct
when: a room with pending strokes always has a job, and a repeated flush does no harm.

**Canvas of a user who joins** (`RGS` 415-528, 1010-1093, `app/rooms/[roomId]/page.tsx`).
State: the strokes read so far, the messages in flight, the strokes of the page. Hard:
two reads while a flush moves strokes from the place read first to the place read
second; broadcasts that overtake the state; the reader's own write to the cache.
Correct when: the page has every stroke of the canvas, and joining changes nothing.

**Membership, presence and roles** (`RGS` 302-474, 606-925, `room-role.guard.ts`). State:
one fact in four places: the row of `RoomMember`, the Redis list of active users,
`client.data` of the socket, the pages. Operations: connect, disconnect, remove, leave,
promote. Hard: sockets on different servers, copies of `client.data` returned by
`fetchSockets`, handlers that go on after their socket has closed, transactions that
call Redis in the middle. Correct when: the four places agree once a user's own doings
are over, and no row stays locked.

**Invites** (`inviteUser`, `revokeInvite` of `rooms.service.ts`, `updateInvite` of
`accounts.service.ts`). State: rows of `Invite` and `RoomMember`. Hard: the status is read
in one call and written in the next; a mail is sent inside a transaction; replies are
lost and requests repeated; the answer is the caller's, whoever that is. Correct when: an
invite is answered or revoked once, and accepting one is the only way in.

**Login sessions** (`auth.service.ts`, `auth.guard.ts`, `fetchWithAuth` of the website).
State: rows of `RefreshToken`, the blacklist, the cookies. Hard: several requests of a
page refresh with one token; a logout crosses a refresh; answers that set cookies are
lost or late. Correct when: a session never multiplies, is not lost without a failure,
and a revoked token stays refused while the cache Redis has room for it.

**Drawing on the page** (`room-canvas.tsx`, `toolbar-panel.tsx`, `stores/*.ts`, `page.tsx`,
`useEmitEvent.ts`). State: refs of the gesture, the tool, the strokes painted, the messages on
their way. Operations: mouse events, picking a tool, opening and leaving a room, a handler for
each message. Hard: stores outlive the page and the room; messages arrive in the middle of a
gesture; a stroke is shown before the server has it, sent as a volatile message, and refused
without an undo. Correct when: gestures never mix, and page and server agree once nothing is on
the wire.

**Data of strokes** (DTOs, generated protobuf code, `mergeSnapshotsWithPendingEvents`, on the
server and in the processor). State: the hash, the encoded snapshot, the row. Hard: default
values are not on the wire, JSON and protobuf differ in what is absent, points come from clients
unchecked, strokes are ordered by the clocks of browsers, equal timestamps by the merge. Correct
when: a stroke comes back once and with every number it was drawn with, however often it was encoded
and merged and whatever else was drawn, and keeps its place among the others.

**Paginated lists** (`getRooms`, `getInvites`, the lists of dashboard and panel). State: rows,
the pages kept under a query key, the fetch that runs. Hard: rows come and go between the
requests of a walk; `created_at` precedes the commit; refetch, Load More and a revocation take
each other's place. Correct when: no row is shown twice, none is missing, and what the user
removed disappears.

**Account, its cached copy, sign-in** (`accounts.service.ts`, `auth.service.ts`, settings page).
State: the row of the user, the cached account, the OAuth state. Hard: a reader fills the cache
next to writers; row and cache are written one after the other, with failures and the end of the
server in between; a callback is made twice. Correct when: the cache never keeps what is not in
the database but for what a failure left there, and who comes back from Google is signed in.

**Throttler** (`increment` of `cache-redis.service.ts`, `app.module.ts`). State: a counter for each
address and path, with or without a TTL. Hard: INCR and EXPIRE are two calls, of any number of
servers; the methods of a path share the counter and have limits of their own; errors let the
request pass. Correct when: who is refused is refused for a time that ends. Not modelled (section 7).

## 3. Modules

| module | extends | models |
|---|---|---|
| `CanvasPipeline` | | write path, worker, queue |
| `CanvasContract` | | what the write path promises |
| `CanvasRefinement` | `CanvasPipeline` | maps one to the other |
| `CanvasJoin` | `CanvasPipeline` | a joining user, next to all of the write path |
| `CanvasPipelineProofs` | `CanvasRefinement`, `CanvasJoin` | proofs about both |
| `RoomMembers` | | membership, presence, roles on several servers |
| `RoomMembersProofs` | `RoomMembers` | proofs |
| `RoomInvites`, `InviteContract` | | invites, and what inviting promises |
| `RoomInvitesProofs` | `RoomInvites` | proofs |
| `AuthSessions` | | the tokens of one browser |
| `AuthSessionsProofs` | `AuthSessions` | proofs |
| `DrawingBoard` | | the page of a user who draws, and its exchange with the gateway |
| `DrawingBoardProofs` | `DrawingBoard` | proofs |
| `SnapshotData` | | validation, encoding and merge of strokes |
| `SnapshotDataProofs` | `SnapshotData` | proofs |
| `Listings` | | the three paginated lists, from row to page |
| `ListingsProofs` | `Listings` | proofs |
| `Accounts` | | an account: sign-in, cached copy, settings page |
| `AccountsProofs` | `Accounts` | proofs |
| `MC...` | each of these | constants and symmetry for TLC |

Conventions shared by the modules. An action is one awaited call with the synchronous
code up to the next one. `Outcome(ok)` says whether the call succeeds; a failure takes
one unit of `MaxFaults`. `Applied` gives the values a written variable may have: after
a failure the write may or may not have been carried out. `pc` names the call that a
process makes next. Definitions under the comment "Faulty variant" or "Variant" are plausible bugs of
a definition next to them; no specification uses them, they show that a property would
notice.

### CanvasPipeline: the write path of a canvas

One room. A process per stroke (its `handleDraw` call, `Events`) and the `Worker`.

| variable | code |
|---|---|
| `pending` | Redis hash `makeRoomDrawEventsCacheKey(roomId)` |
| `snap` | Redis key `makeRoomSnapshotCacheKey(roomId)`; `ttl` because the server sets one day and the processor none |
| `db` | the row of `Snapshots` with the latest timestamp |
| `lock` | Redis key `makeLockKey(...)`; its value in the model names who set it, which the code never looks at |
| `job` | the BullMQ job with `jobId = roomId` |
| `work`, `row`, `stamp` | local variables of a flush: merged strokes, database row to be cached, `new Date()` |
| `accepted`, `raced`, `unwatched` | history: broadcast strokes, strokes hashed inside a flush window |

`Canvas` is what a user who joins now is sent: `pending` over the snapshot, or over
the newest row when the snapshot is not cached.

| actions | code |
|---|---|
| `HashStroke` | `hSetInCache`, the broadcast or `ROOM_UNDO_DRAW`, `RGS` 100-147 |
| `RemoveOldJob`, `AddJob` | `rescheduleIdleSnapshotJob` |
| `CountPending`, `AcquireLock` | HLEN and SET NX, `RGS` 148-194 |
| `ReadPending`, `ReadCache`, `FindLatest`, `FillCache` | HGETALL and `getLatestSnapshot` |
| `EncodeSnapshot`, `DeletePending`, `CreateSnapshot`, `RemoveIdleJob`, `Unlock` | the rest of the flush, `RGS` 211-289 |
| `StartJob`, `RunJob` (eight calls), `CompleteJob`, `JobThrows` | the worker and BullMQ's retries |
| `CrashHandler`, `CrashWorker`, `RestartStalledJob` | a process dies, BullMQ finds the stalled job |
| `ExpireLock`, `ExpireSnapshot`, `ExpirePending` | TTLs |

`Timely` and `CanExpire` switch two families of timing. With `Timely`, a process in its
critical section finishes before its lock expires (`LOCK_TTL` is 20 s), and a job fires
with its first delay (5 minutes) only when no handler that could have replaced it still
runs. Without `Timely` the lock may expire at any time and jobs may fire at any time.
With `CanExpire` the one-day TTLs of the snapshot and the hash may elapse. `raced` and
`unwatched` name the strokes for which the code promises less than its documentation
(section 6): hashed between the HGETALL and the DEL of a flush, or between the HGETALL
and the end of it. The properties are about all other strokes.

### CanvasContract and CanvasRefinement

`CanvasContract` says what the write path promises with three variables: strokes
join the canvas one at a time, only strokes at risk leave it, and every checkpoint
holds the whole canvas but for strokes at risk, and nothing else. `CanvasRefinement`
maps `CanvasPipeline` to it: canvas is `Canvas`, the checkpoint is `db.strokes`, and a
stroke is at risk when it is in `unwatched`.

### CanvasJoin: a user joins a canvas that is being drawn

All of `CanvasPipeline`, and one `handleConnection` from `client.join` on: `jpc`, `batch`
and `jrow` are where it is and what it has read; `wire` holds USER_DRAW messages on their
way to its server, `screen` the strokes of the page, `late` the strokes that the filter
on `joinedAt` drops. `kept` is history: the strokes that have been on the canvas ever
since `client.join`. `Draw` is `HashStroke` with its broadcast, `Deliver` is `addDrawEvent`,
`JoinReadsPending` ... `JoinFillsCache` are the reads of `RGS` 474-517 and of
`getLatestSnapshot`, `SendState` is CANVAS_STATE, which replaces the strokes of the page.

### RoomMembers: who is in a room, and as what

| variable | code |
|---|---|
| `member`, `locked` | rows of `RoomMember`, and those an open transaction has written |
| `active` | the Redis hash of currently active users |
| `live`, `data` | sockets that are connected, the role in `client.data` |
| `pc`, `row`, `list` | `handleConnection` and its local variables |
| `bye` | `handleDisconnect` |
| `cpc`, `arg` | `handleRemove`, `handleLeave`, `handlePromote` and their arguments |
| `page` | connected users on each page |
| `channel` | what other servers published through the adapter |
| `blurred` | history: users whose entry changed while a socket's connection was between reading the list and sending it |

A role assigned by `handlePromote` reaches `client.data` only when the socket is on the
same server: `fetchSockets` returns copies of remote sockets' data. `Disconnect` of a remote
socket is a message. `Unhurried` keeps apart what concerns one user: nothing starts for a
user for whom something is going on. Doings of different users still overlap in every
way. `OneTab` gives a user one socket at a time.

### RoomInvites and InviteContract

`status`, `mail`, `members` are the rows and what has become of the mail; a request is two
steps, `CheckPending` and `Write` (`Delete` or `Answer`), as in the code. `caller` is the user who is
signed in (`req.user.id`): it is the caller whom `updateInvite` makes a member
(`accounts.service.ts` 188-218), without a look at the email the invite was sent to, and so any user
may be the caller of any request. Transactions are one step because Postgres runs them on one
version of the rows they write. `overlapped` is history: the invites about which one request began
while another was under way. `InviteContract` has one step for each of sending, accepting (an invite
that is PENDING, and one user who was not a member), closing, departing and deleting the room. What
the code promises less is in its `Overlap`: an invite that requests overlapped about may be answered
again. After a revocation, or the end of the room, it may not.

### AuthSessions

`jar` holds the cookies of the browser, `rows` the refresh tokens in the database,
`blacklist` the revoked access tokens; `fresh` and `outdated` say which tokens have expired.
A request goes through `Guard`; refused, it refreshes (`FindToken`, `DeleteToken`,
`CreateToken`, `SetCookies`) and is sent again once. A logout goes through `Blacklist`,
`SeekToken`, `DropToken`, `ClearCookies`. An entry of the blacklist goes when its token has expired
(`ForgetBlacklisted`), or before, when the cache Redis is full and makes room (`Evict`;
`volatile-lfu` in `ops/cache-redis.conf`). `crossed` and `revoked` are history: requests whose
refresh or logout overlapped another's, and tokens that a logout blacklisted and Redis has not
evicted.

### DrawingBoard: a user draws

| variable | code |
|---|---|
| `lineStart`, `circleCenter`, `polygonPoints`, `preview` | the refs of `RoomCanvas` |
| `tool`, `role`, `drawEvents`, `ready` | the stores of toolbar and room, which outlive the page |
| `outbox`, `inbox` | messages between the page and the gateway, in order |
| `first`, `entry`, `clientData` | the socket of the page: the strokes from which on it sent them, where its `handleConnection` is and what it has read, its role |
| `underway` | the user's strokes whose HSET is under way |
| `canvas`, `unsent` | the strokes kept for each room, those not broadcast yet |
| `astray` | history: strokes that page and server disagree about, for the reasons of section 6 |

`PickTool`, `MouseDown`, `MouseMove`, `MouseUp`, `Click`, `DoubleClick` are the handlers of
`RoomCanvas`; `ForgetGesture` is its effect on `[tool, redraw]`, which also runs whenever the
strokes of the page change. A stroke of the user takes three steps on the server: `ServerReceives`
is the guard and the pipe, `HashStroke` (or `HashFails`) the HSET and `Broadcast` the broadcast, which
leaves out the socket that sent the stroke. `Open` connects a socket, and its `handleConnection`
takes three more: `Join` (`client.join`, `client.data`, and `joinedAt`: which strokes are there `early`),
`Inform` (USER_INFO) and `SendCanvasState` (what the filter of the hash lets through, and any strokes
that a flush had moved to the snapshot by the time it was read). Strokes are drawn, hashed and broadcast
between any two of them. `Leave` disconnects; an HSET under way goes on, also while the user comes back.
`Join` chooses which of the strokes that are there come from browsers whose clock is `ahead` of the
server's.
`PageReceives` is the handlers of CANVAS_STATE, USER_DRAW, ROOM_UNDO_DRAW and USER_INFO.

### SnapshotData: what becomes of a stroke

The generated readers and writers are tables of fields (`DrawEventFields` and so on), with the number
and the default of each, and two operators, `Write` and `Read`: a field is written unless it has its
default, and read if it is there. A message is a function from numbers of fields to values; in which
order they are sent makes no difference to readers, since no field but `points` comes twice.
`Accepted` is the pipe with its DTOs. They say of `from`, `to` and `center` only that they are objects
(`draw-event.dto.ts` 81-87, 104-106), and fields of other types of strokes are neither looked at nor
removed; so a coordinate may be any JSON (`Others`), or missing. `Double` says which number
JavaScript makes of it, `NaN` for most; for `Unwritable` ones, objects without a primitive value, the
writer throws. `Convert` applies such a conversion to all coordinates of a stroke: `AsDouble` on its way to the wire,
`AsJson` on its way to a row, where NaN becomes null (`Payload`).

`MergeSnapshotsWithPendingEvents` works on places in the list:
`DedupeById` keeps the first place of every id, and `Place` says where a stable sort puts it. A flush
is one step here, since `CanvasPipeline` takes it apart; what is added is the fields of the strokes,
every order HGETALL may have, and the TTL of the cached snapshot.

### Listings: the pages of a list

`FindMany` and `GetPage` are the queries of the services, with what Prisma does with a cursor
whose row no longer matches. Rows are numbered by `created_at` and a page is the set of its rows, since
ORDER BY puts the newest first within a page; what can go wrong is which rows a page has, and where
the next one goes on. `query` and `fetch` are what TanStack Query keeps and has under way.
`Begin`, `End`, `Vanish`, `Expire` change rows next to a walk; `Open`, `LoadMore`, `Refetch`,
`Dismiss`, `Send`, `Invalidate` are the page. `steady`, `cut`, `settled`, `excused` are history: the
rows there when a walk began, whether the row of a cursor vanished in it, what the user removed,
and the removals whose refetch did not happen.

### Accounts: the account of a person

A request is `[kind, pc, user, val, auth]`, with `pc` the next await of its handler. `name` is the
row, `cache` the cached account, `oauth` and `code` a state and what Google makes of its code,
`page` the settings page with its query and mutation. A call to Postgres or Redis may fail with or
without having been carried out, and after each the server may die: `Written` is the row with the
reply that comes or gets lost, `StoreAccount` and `DropCachedAccount` the call to the cache with the
same outcomes. `suspect`, `doubted`, `replaced`, `late`, `moved` are history and name the exceptions of the
properties; a user becomes a suspect when such a failure leaves another name in the cache than in
the row, or when a row is written between the read and the store of another request.

## 4. What is checked

| run | instance | shows |
|---|---|---|
| `PipelineFaults` | 3 strokes, threshold 2, any 2 failures or crashes | flushes exclude each other (`FlushMutex`); only raced strokes vanish (`OnlyRacedStrokesVanish`); the write path implements `CanvasContract` (`ImplementsContract`) |
| `PipelineProgress` | 2 strokes, any 2 failures or crashes, the one-day TTLs, fairness | without a failure every stroke not at risk reaches the database (`StrokesBecomeDurable`), before its TTL (`OnlyUnwatchedStrokesExpire`); the lock is always released (`LockIsReleased`) |
| `JoinFaults` | 2 strokes, 1 failure or crash, the TTLs | a page that gets CANVAS_STATE has every stroke that stayed on the canvas since `client.join` (`JoinerHasTheCanvas`), raced or not |
| `MembersSafety` | an admin and a user who comes back on another socket, two servers, two commands | list, sockets, `client.data`, pages and database agree (`PresenceIsExact`, `OnlyMembersAreThere`, `ListedRoleIsCurrent`, `GuardedRoleIsCurrent`, `PagesShowTheOthers`) |
| `MembersProgress` | a socket and two commands that may meet on a row, a failure or a crash, fairness | every command ends (`CommandsEnd`) |
| `InvitesContract` | two invites, two users, three requests that overlap in any way, a failure | the requests implement `InviteContract` (`ImplementsInviteContract`); accepting makes its caller a member and nothing else makes one (`AcceptingAdmits`) |
| `Sessions` | three requests and a logout, a failure or lost answer, eviction | one row per session (`SessionsDoNotMultiply`), no session lost (`SessionSurvives`), no request refused that nothing crossed (`OnlyCrossedRequestsAreRefused`), revoked tokens refused until they are evicted (`RevokedTokensAreRefused`) |
| `Board` | two rooms, two points, a stroke of the user or of somebody else, polygons of three corners, any clock ahead, a failure | gestures fit the tool (`GestureFitsTool`); page and server agree (`PageShowsTheCanvas`) |
| `Snapshots` | three strokes out of thirteen samples at the edges of DTOs and wire, malformed ones included | strokes stay intact and in their order, and nothing is deleted unsaved (`StrokesStayIntact`, `CheckpointOrderIsKept`, `FlushedIsCheckpointed`) |
| `Listings` | each list, three rows, pages of one row, one invite of another room | no row twice, none missing, a removed one disappears (`NewestFirst`, `CompleteUnlessCut`, `OwnRemovalShows`) |
| `Accounts` | four requests, two sign-ins, two users, a failure | the cache has what is in the row (`CacheIsCurrent`), a saved name is shown (`OwnUpdateShows`), who comes back from Google is signed in (`OnlyCrossedSignInsFail`) |
| `FoundLostStroke` | 3 strokes, no failure | the disagreement of section 6 (`NoStrokeIsLost` fails) |

Bounds and why they are enough. Two strokes are needed for a race with a flush and three for
a second flush next to a first with a stroke in its window (`MaxDrawEvents` is 2 where the
code has a larger constant; the threshold matters only as "reached or not"). `MaxAttempts` 4 is
more than any run with two faults can use up, so jobs are given up only by the stall rule. Two
faults cover a failure during the recovery from another one. The proofs of section 5 remove
these bounds for every safety property. One joining user is enough since a join shares no state
with another but the cache, which a flush's `FillCache` also writes. Membership needs two
servers, because everything remote differs from everything local, and two users, since
only pairs (subject and observer, admin and target) interact. Three requests in `Sessions`
let two lose the race for a refresh; in `InvitesContract` they let a retry follow a
failure while another invite is open, and two callers answer one invite. In `Board` a second room
shows what the stores carry over, and one stroke is enough since `PageShowsTheCanvas` says of each stroke
by itself where it is: nothing that happens to one depends on another, but for the order they are
painted in, which is not its subject, and what is said of any number is proved. Three corners are what a
polygon must have. Two strokes of `Snapshots` can have equal timestamps while a third
is merged in between. Pages of one row make every row of `Listings` a cursor. In `Accounts` the
four requests are two that overlap, the fetch that follows a save, and one more of another tab.

Symmetry is used for strokes, points, rooms, invites, users, requests, callers and sign-ins in runs without
liveness. The
room starts with or without an earlier row and a cached snapshot, a person with or without an
account, a list with any number of rows.

Fairness. `CanvasPipeline`: weak fairness of each handler and of the worker (awaited calls
return and the event loop is fair), of starting a delayed job and of finding a stalled one
(BullMQ's timers), and of the lock's TTL (Redis). Not of drawing, failing, crashing or of
the one-day TTLs. `RoomMembers`: of handlers and commands, and of receiving what was
published. No property needs strong fairness.

Deadlock. `CanvasPipeline` and `CanvasJoin` are checked for it: `Rest` stutters only when all
handlers are done and the worker is idle. `DrawingBoard`, `SnapshotData` and `Listings` are checked,
too. `RoomMembers`, `RoomInvites`, `AuthSessions` and `Accounts` have a finite supply of sockets and
requests, and nothing has to happen after them, so their runs set `CHECK_DEADLOCK FALSE`;
`CommandsEnd` is the check that no command waits for ever.

Every property of a passing run has a faulty variant of a definition that violates it,
named in `PROJECT.json`.

## 5. What is proved

TLAPS checks the following for every value of the constants that satisfies the modules'
assumptions (names distinct, bounds naturals): any number of strokes, servers, users,
requests, failures and crashes.

`CanvasPipelineProofs`
- `TypeCorrect`. The inductive invariant adds that a job that the worker runs has attempts
  left (`JobInv`), without which `JobThrows` could leave the range.
- `MutualExclusion`. `FlushMutex` is inductive given the types: with `Timely` the lock
  expires only when its owner is not in its critical section, and every entry to it sets
  the key by NX.
- `PhasesHold`. `FlushPhases`, for `Timely` without eviction: the inductive invariant behind the
  other theorems, and not a property of a run of its own. It says what the local
  variables of a flush have to do with the shared state at each label (`InPhase`), and is inductive
  together with mutual exclusion and the fact that there are no strokes without a row.
- `NoUnracedStrokeVanishes`. The action property `OnlyRacedStrokesVanish`, from that invariant:
  the only steps that shrink the canvas are the DELs, after which the cached snapshot has
  all of the hash but raced strokes, and the stores of a snapshot, which has all of it.
- `TtlsTakeUnwatchedStrokesOnly`. `OnlyUnwatchedStrokesExpire`, for `Timely`. While nothing has
  failed, the row being inserted is newer than every other (`FreshInv`), the cached snapshot is
  what is being inserted or the newest row (`SyncInv`), and a pending stroke that is not unwatched has
  somebody who will flush it: a delayed job, a handler about to add one, a worker about to ask for
  the lock, or a flush that has not deleted the hash (`WatchInv`). When the TTL of the hash elapses
  none of these is there, so nothing but unwatched strokes goes.
- `PipelineKeepsContract`. `ImplementsContract`, for `Timely` without eviction: every step of the
  write path, crashes and retries included, is a step of `CanvasContract` or a stutter. `MergeInv`
  adds to the phases that a flush merges strokes of the canvas only and inserts what it cached.

`CanvasPipelineProofs`, of `CanvasJoin`
- `JoinTypeCorrect`.
- `JoinerIsSentTheCanvas`. `JoinerHasTheCanvas`, unless flushes overlap while keys are evicted. A
  stroke is hashed once (`DrawnOnce`), so one that was on the canvas when the joiner read the hash is
  in its batch or in the latest snapshot, wherever flushes move it (`NothingMissed`). The window
  between the joiner's two reads of a missing snapshot and a row is covered by `FlushIsCached`: who
  is about to insert a row has its snapshot in the cache.

`RoomMembersProofs`
- `MembersTypeCorrect`, and `LocksEndWithTheirCommand`: a locked row belongs to exactly one command,
  which is inside its transaction. Both without hypotheses.
- `PresenceStaysExact`, `NobodyStaysWithoutARow`, `ListedRoleStaysCurrent`, `GuardedRoleStaysCurrent`,
  `PagesKeepShowingTheOthers`: the five invariants of `MembersSafety`, for any users, sockets,
  servers and commands, with `Unhurried`, `OneTab` and no failure. `UserInv` says for each user
  what its socket, its entry in the list and the command that concerns it have to do with one another
  at each of their labels; it is inductive because at most one of connection, disconnect and
  command is under way (`Alone`). `PagesInv` adds what a page is yet to be told: where it differs from
  the list, a command, a socket or a message on its way to the server will tell it (`Owed`), or the
  user is blurred.

`RoomInvitesProofs`
- `TypeCorrect`.
- `KeepsContract`. `ImplementsInviteContract`, without hypotheses. The invariant: an invite that no
  requests have overlapped about has at most one in progress (`Alone`), so what `CheckPending` saw
  still holds when `Write` runs (`Checked`); and an invite not yet committed has no row (`Unsent`).
- `AcceptanceAndMembershipGoTogether`. `AcceptingAdmits`, without hypotheses: for requests that
  overlap in any way and whoever their callers are.

`AuthSessionsProofs`
- `TypeCorrect`.
- `OneRefreshToken`. A session never has two rows. The invariant `OneRow`: the request that is
  about to create a row has deleted the only one, and there is at most one such request.
- `BlacklistHolds`. AuthGuard never admits a token that a logout has blacklisted and Redis has not
  evicted. The invariant `Revocation`: tokens in use belong to pairs that have been issued, so a new
  pair is never one that was revoked, and a revoked token stays listed until it expires or is evicted.
- `SessionOutlivesRefreshes`, `RefusalsNeedACrossing`. `SessionSurvives` and
  `OnlyCrossedRequestsAreRefused`. The invariants: the refresh cookie has its row unless a request is
  about to replace or clear it (`TokenInv`), and a request that nothing crosses refreshes the cookie
  that is there, so that it is refused only when there is none (`LoneInv`).

`DrawingBoardProofs`
- `BoardTypeCorrect`.
- `GesturesDoNotMix`. `GestureFitsTool`, whatever messages arrive in the middle of a gesture.
- `PageEndsUpRight`. `PageShowsTheCanvas`, for any interleaving of entering a room, HSETs, broadcasts and
  leaving. `AroundInv` says that an id names one stroke, `ApartInv` that a stroke is at one place of its way
  and for one room, `MineInv` that what the page's socket has sent belongs to the page's room, and `WiresInv`
  what a message may say. `AgreeInv` is the point: what the user has drawn is on the page (`MineShown`); after
  CANVAS_STATE a stroke of the page that the server does not have is on its way there or about to be
  undone (`NothingOdd`); and a broadcast stroke is on the page, in a message, or was there at the join
  of a CANVAS_STATE to come (`Awaited`) (`NothingMissing`); each unless the stroke is `astray`.

`ListingsProofs`
- `ListsTypeCorrect`.
- `PagesDescend`, `WalksMissNothing`. `NewestFirst` and `CompleteUnlessCut`, for any rows and any size of a
  page. Of a walk, shown or under way, the invariant (`Walk`) says that all it has listed is newer
  than its cursor and that a row it was to list has been listed or is not newer than the cursor.
  `PageRows` is the lemma about `GetPage` for this: it takes the newest rows up to `Limit`, and its
  cursor is the newest of the rest.
- `RemovedRowsDisappear`. `OwnRemovalShows`: a fetch either began after the removal, or has the row
  among `excused` (`RemovalInv`).

`AccountsProofs`
- `TypeCorrect`. The type invariant says which calls of a request need a user, a row or a
  sign-in, and adds that an account's email is unique (`OneEmail`) and that a state in the
  cache belongs to a redirect (`StatesAreSent`).
- `CacheStaysCurrent`. `CacheIsCurrent` is not inductive: a store is only as good as the value
  that its request carries. `StoresAreCurrent` adds that a request about to store an account
  carries the row, unless its user is a suspect. Failures and servers that die are among the steps.
- `SignInsNeedACrossing`. `OnlyCrossedSignInsFail`. `CallbackInv`: a callback that nothing crossed finds
  its state, its code and its account at every call (`Straight`).
- `SavedNameIsShown`. `OwnUpdateShows`. `UpdateInv` follows the name from the row to the answer of the
  fetch that the settings page makes after a save; `CacheInv` is what that fetch may find cached.

`SnapshotDataProofs`
- `SnapshotsTypeCorrect`.
- `StrokesKeepTheirData`. `StrokesStayIntact`, for any strokes the DTOs let in, malformed points included.
  The invariant says that every stroke is in the newest row or the hash as it was drawn, but for what
  was no number (`RowInv`, with `Faithful` and `Intact`), and that the cache has the encoding of strokes that
  are faithful too and alike the row (`CacheInv`). It rests on three results about operators:
  `DecodeOfEncode`, that reading gives what was written after the conversion of its coordinates,
  because the fields of a message have different numbers and writer and reader agree on the
  defaults; `IntactConverted`, that conversions which leave numbers alone, as `AsDouble` and `AsJson` do
  (`ConversionsOfTheCode`), leave a stroke intact, however often they are repeated; and `MergeMerges`, that a
  merge has every id of both lists once, in the order of painting (`PlacesNumber`: places are a
  bijection from what is kept to 1..n that respects this order).
- `CheckpointsKeepTheirOrder`. `CheckpointOrderIsKept`: the checkpoint comes first in the merge, so a
  tie with a pending stroke never parts two of its strokes.
- `FlushesDeleteWhatTheySaved`. `FlushedIsCheckpointed`.

Hypotheses. A theorem that names one holds for the instances that set the switch, as the run of
the property does: `PipelineFaults` is `Timely` without eviction, `PipelineProgress` and `JoinFaults` are
`Timely` with it, `MembersSafety` is `Unhurried` with `OneTab` and `MaxFaults` 0. The code does not
enforce them: section 6 says what happens without. All other theorems have no hypothesis but
the assumptions on the constants.

Only model-checked: liveness (`StrokesBecomeDurable`, `LockIsReleased`, `CommandsEnd`), which is
out of the prover's reach.

## 6. Where the code differs from what is said about it

`FoundLostStroke` finds a disagreement. A flush deletes the whole hash, with the strokes that were added
after it had read it (`RGS` 248). ADR 002 (line 18) says of the mechanism "ensuring no user actions are lost".

The properties step around further behaviours, which the modules have and which the
named conditions set aside. Of the canvas:

| behaviour | condition |
|---|---|
| A stroke drawn while a flush ends loses its job: the flush removes the new job (`RGS` 265), or `Queue.add` is ignored because the old one is active. The stroke stays pending until the next one. | `unwatched` |
| A retry of a failed job finds the lock of the failed attempt and completes without flushing (`processor/src/index.ts` 36). | `StrokesBecomeDurable` excuses failures |
| The hash is deleted before the row is inserted (`RGS` 248, 257): after a crash between them the strokes are in a snapshot with a TTL of one day. | `OnlyUnwatchedStrokesExpire` excuses failures |
| A flush that outlives `LOCK_TTL` overlaps another, deletes the other's lock and may store an older merge over a newer one. | `Timely` |
| A user who joins stores the row read from Postgres over the snapshot of a flush that ended in between (`RGS` 1068), without the lock: its strokes are missing from the canvas and from the next checkpoint, against the same sentence of ADR 002. | `JoinerHasTheCanvas` is about the user who joins |
| A stroke of somebody else that is hashed after `client.join` is broadcast to the joiner at once, is later than `joinedAt` and so not in CANVAS_STATE (`RGS` 491), and `setDrawEvents` removes it (`page.tsx` 113). Nothing fails, and the joiner does not see it until the room is opened again. | `kept` in `CanvasJoin`, `astray` in `PageShowsTheCanvas` |
| A stroke from a browser whose clock is ahead of the server is filtered out of CANVAS_STATE (`RGS` 494), also when it was broadcast before the join. | `ClocksAgree` in `CanvasJoin`, `ahead` of `entry`, and `astray`, in `DrawingBoard` |
| A stroke hashed before CANVAS_STATE is read and broadcast after it is on the page twice. So is an own stroke whose HSET was under way when the user left and came back, since the broadcast leaves out the socket that sent it and not the user (`RGS` 143). | `PageShowsTheCanvas` counts what the user has drawn since the page was opened |
| HSET succeeds, EXPIRE fails: the drawer is told to undo a stroke that stays in the hash (`queue-redis.service.ts` 224). | `astray` |
| A stroke that is refused (a viewer's, a circle without radius) or dropped by the volatile emit (`page.tsx` 196) stays on the page of its drawer. | `astray` |
| Nothing calls `reset` (`room-state.ts` 108): the next room opens with the strokes and the ready flags of the last, can be drawn in at once, and CANVAS_STATE removes what was drawn. | `astray` |
| Every stroke of somebody else throws away the gesture in progress (`room-canvas.tsx` 152), and a demoted user keeps the tool in hand. | none: `GestureFitsTool` says that nothing worse happens |
| The DTO lets through a stroke width that is not whole (`draw-event.dto.ts` 59), which the `int32` of the wire cannot hold: every later flush of the room fails before its DEL, and the strokes expire with the hash. Against ADR 002, again. | `FlushedIsCheckpointed` is about what leaves the hash; `CanvasPipeline` bounds failed encodings by `MaxFaults` |
| The DTO does not look into `from`, `to` and `center` (no `@ValidateNested`), and the pipe validates without `whitelist` (`draw-event-validation.pipe.ts` 33). A coordinate that is missing is 0 after the first checkpoint; a word is NaN in the cached snapshot, null in the row and 0 after the next flush, so that the stroke looks different from checkpoint to checkpoint; an object without a primitive value makes the encoding throw, as a width does that is not whole. | `StrokesStayIntact` is about the numbers of strokes |

Of users and rooms:

| behaviour | condition |
|---|---|
| `handleConnection` goes on when its socket has closed; the disconnect handler returned early because `client.data` was empty (`RGS` 611), so the user stays in the list. | `Unhurried` |
| Closing one of a user's two tabs takes the user off the list (`RGS` 613). | `OneTab` |
| A user removed while connecting passes the membership check, is not found by `fetchSockets` (`RGS` 660) and stays in the room without a row. | `Unhurried` |
| Two users who join at the same time: one may not see the other, because USER_LIST was read before `client.join` (`RGS` 399, 472). | `blurred` |
| A promotion through another server changes a copy of `client.data` (`RGS` 861); the guard goes on with the old role. | `GuardedRoleIsCurrent` is for sockets of one server |
| A removal or promotion whose transaction fails is rolled back in Postgres only: the user who keeps the row is off the list, or listed with the new role and, when only the commit failed, has it in `client.data` (`RGS` 700, 850). | `MembersSafety` is for runs without a failure |
| A server that dies runs no `handleDisconnect` (`RGS` 606): its users stay in the list until they come back and leave, or nobody joins for as long as the list's TTL. | `MembersSafety` is for runs without a crash |
| An invite is answered by whoever is signed in and has its id: `updateInvite` does not compare the email of the caller with that of the invite, and makes the caller the member (`accounts.service.ts` 188-218). The list of a room's invites, which members see, has the ids. | `caller` is any user; the properties speak of the caller |
| Of two answers that both read PENDING, the later one wins, so an invite is REJECTED by which somebody became a member, or two callers become members by one invite (`accounts.service.ts` 204-206). The test at `accounts.service.spec.ts` 244 expects a second answer to be refused. | `overlapped` |
| A revocation deletes an answer given between its check and its delete (`rooms.service.ts` 288, 306). | `overlapped` |
| An expired invite that a page still shows can be accepted: `expires_at` is used by the listing only. | `expires_at` is in `Listings` only |
| Deleting a room or an account leaves the sockets in the room (`rooms.service.ts` 152): strokes go on being hashed, and the flush fails on the foreign key after it has deleted the hash. | one room, which stays |
| Two updates of the room info that cross are broadcast in either order, and its form keeps the values it was opened with. | not modelled |

Of lists, accounts and sessions:

| behaviour | condition |
|---|---|
| When the row of a cursor is answered, revoked or removed before the next page is asked for, that page is empty and the list ends there (`rooms.service.ts` 266). | `cut` |
| Load More in the middle of the refetch that follows a revocation takes its place: the revoked invite stays on the page. A change made while the first load runs is not followed by a refetch. | `excused` |
| The key of the panel's list has no room id (`invite-panel.tsx` 54): a fetch for one room is joined by the panel of another, and its data shown there. | `query.scope` |
| Rows with the same `created_at` have no order among them (`rooms.service.ts` 77): a walk may skip or repeat one. | `Listings` has no two such rows |
| A reader that found no cached account stores the row it read over what an update or a delete wrote since (`accounts.service.ts` 61), for as long as the TTL. | `suspect` |
| The row is updated or deleted, and then the reply gets lost, the server dies, or the cache cannot be reached (`accounts.service.ts` 77-91, 107-113): the old account stays cached for as long as the TTL. | `suspect` |
| Another tab keeps the account it has shown (`staleTime: Infinity`). | `OwnUpdateShows` is about one page |
| `DELETE /accounts/me` has a limit of 3 in 2.5 seconds (`accounts.controller.ts` 84), and Redis refuses 2.5 as the time of an EXPIRE. When a DELETE is the first request of a window, its EXPIRE throws, it passes (`cache-redis.service.ts` 70: "dont let redis issues block users from using the app"), and the counter has no TTL. GET and PATCH count on it too, since its key has the path and not the method (`app.module.ts` 177-186), and so does everybody at the address, since the throttler runs before `AuthGuard`. The third request is refused if it is a DELETE (the answer compares with `>=`). A DELETE at the fourth place, and no other, sends an EXPIRE of 5 seconds; without it nothing ends the counter before the 31st request. | not modelled |
| A counter whose EXPIRE failed, or whose server died before it, has no TTL, and refuses from the limit on until the second EXPIRE is sent (`cache-redis.service.ts` 47-58). | not modelled |
| The blacklist is in the cache Redis, which drops keys with a TTL when it is full (`volatile-lfu`, `ops/cache-redis.conf` 2): a token revoked by a logout is admitted again until it expires. | `Evict`: `RevokedTokensAreRefused` is about entries that are not evicted |
| A refresh between the two calls of a logout makes the second fail, and the cookies stay; a refresh under way when a logout ends sets the cookies again. | `SessionSurvives` is for browsers without a logout |
| A refresh deletes the old row before it creates the new one (`auth.service.ts` 374): a failure in between ends the session. | `SessionSurvives` is for runs without a failure |
| `proxy.ts` refreshes without the visitor's cookies and drops those of the answer: an expired access token always leads to the front page. | not modelled |

## 7. What is not modelled

- Painting, forms, layout and cursor positions: the latter keep no state on the server, and each
  message is replaced by the next.
- Room information over WebSocket, `updateRoom`, and the HTTP guards: one row read or written
  each. The cached copy of a room is written by four handlers and read by none.
- The middleware `proxy.ts`, which changes no state.
- The throttler: a counter per path and address in the cache Redis, whose guard is of a library. Section 6
  says what it does.
- In `Accounts`, the retry of the settings page after a refetch that failed while an older answer was
  there; in `Listings`, rows with equal `created_at`; in `SnapshotData`, fields of strokes that come in
  another shape than DTO and wire have them (a list that is none), which behave like `Unwritable`.
- Socket.IO's reconnection and its `retries: 3` without `ackTimeout` (`useSockets.ts` 16), by which an
  unacknowledged emit may hold back the ones behind it: what the library does then is not in
  this repository.
- The messages of the generated code that nothing refers to (`LineEvent` and others), metrics,
  health, logging, configuration, bootstrap, migrations, seed, deployment.

A process's clock differs from another's only where `ClocksAgree` is FALSE. Redis and
Postgres themselves are taken to be up or to fail a call; a failover that loses
acknowledged writes is outside the model. Prisma, TanStack Query, BullMQ
and the Socket.IO adapter are modelled from how the code uses them.

## 8. Plan

Done, in this order, because the product rests on the first: the write path with its proofs, the
reader next to it, membership, invites, sessions; then the page that draws, the data of strokes,
lists, and accounts with sign-in.

Left to model: the deletion of a room in `CanvasPipeline` (strokes after it, and the insert that
fails), reconnection of the page, the room's information with its two ways to be written, the throttler.

Left to prove: nothing of what is model-checked now but liveness; what a new action adds needs a step
in the invariants of its module.
