# Verification of feedsystem_video_go

TLA+ models of the short-video feed system in this repository, the TLC runs
that check them on small instances, and theorems about them checked by TLAPS
for every value of their constants. `PROJECT.json` lists components, runs,
mutants, hazards and theorems, and maps every definition to the lines it models.
Paths below are relative to `src/backend/internal` unless they start with `cmd`,
`http` or `frontend`.

    tlc -workers 2 -config sessions.cfg MCSessions
    tlapm OutboxProofs.tla

## The system

Two Go processes share MySQL, RabbitMQ and Redis: the API process (`cmd/main.go`,
`http/router.go`), of which several may run, and the worker process
(`cmd/worker/main.go`). A React frontend calls the API.

The recurring design: a request checks MySQL, publishes an event and returns; a
worker applies the event later. If a publication is refused the request writes
the target store itself (follow requests always do). Redis holds copies (feed
items, timeline, rankings, tokens, unread counts, details) that are allowed to be
missing and not meant to be wrong. No publication waits for a confirmation of the
broker, and a failed delivery is put back with `Nack(requeue)`.

| Component | State | Operations | Module | What makes it correct |
|---|---|---|---|---|
| Likes (`video/like_*.go`, `worker/likeworker.go`) | rows of `likes`, `videos.likes_count`, `videos.popularity` | Like, Unlike, applyLike, applyUnlike | `LikePipeline` | counters equal the rows; the last request wins; every accepted event is applied |
| Feed read model (`readmodel/`) | `feed:item:<id>` in Redis | load, save, load-modify-save, expiry | `LikePipeline` | the copy follows the row |
| Publishing and timeline relay (`video/video_service.go`, `worker/outboxworker.go`) | `videos`, `outbox_msgs`, `feed:global_timeline` | Publish, poll-send-delete, consume-add-trim | `Outbox`, `Relay` | no published video is forgotten; the newest 1000 stay in the set |
| Feed queries (`feed/`) | page cursors, caches, ranking snapshots | ListLatest, ListLikesCount, ListByFollowing, ListByPopularity, rebuild | `FeedPages`, `HotRank`, `Following`, `Outbox` | paging neither skips nor repeats; hot and cold halves meet |
| Popularity and hot ranking (`worker/popularityworker.go`, `video/popularity_cache.go`) | one sorted set per minute, a merged snapshot | Update, ZINCRBY, ZUNIONSTORE | `HotRank` | each change counts once in its minute |
| Comments (`video/comment_*.go`, `worker/commentworker.go`) | `comments`, `videos.popularity`, list cache | Publish, Delete, GetAll, apply | `Comments` | one comment per request; a cached list that is not the table's has a reason |
| Social graph (`social/`, `worker/socialworker.go`) | `socials` | Follow, Unfollow, apply | `Following` | the last request wins; a cached page of the feed is a recent one |
| Accounts and sessions (`account/`, `auth/`, `middleware/jwt/`) | token columns, `account:<id>`, `refresh:<token>` | Login, Logout, Rename, ChangePassword, Refresh, check | `Sessions` | a session that was logged out is refused |
| Notifications and SSE (`notification/`, `worker/notificationworker.go`, `worker/ssehub.go`) | `notifications`, unread counter, client channels | process, Push, Subscribe, MarkRead, UnreadCount | `Notifications`, `PushHub` | counter equals unread rows; no event is dropped; no stream is forgotten |
| Direct messages (`message/`) | `messages`, client channels | Send, Push, subscribe | `Notifications`, `PushHub` | as above, over two hubs |
| Video details (`video/video_service.go` GetDetail) | local cache, Redis cache, lock | GetDetail, UpdatePopularityCache | `DetailCache` | one reader fills; a stale copy does not outlive its TTLs |
| Redis client (`middleware/redis/`) | lock tokens | Lock, Unlock, INCRBY, sorted sets | `RedisLock` and the users | only the holder unlocks |
| Broker adapter (`middleware/rabbitmq/`) | queues, retry count | PublishJSON, GetRetryCount | every module with a queue | a message is delivered at least once |

Hard behaviours: unconfirmed publications; requeues, redeliveries and crashes
between the statements of one event; requests that race a worker over the same
counters; copies filled from rows that have changed since; two writers of a row
and a key in different orders; slices used after the unlock; several API processes
polling the same table; commits in another order than creation times; cursors
into lists that move; the loss of Redis keys. `PROJECT.json` has the list with
lines and, for each, the property that covers it or the reason why none does.

## Modules

Each state variable is a table, a Redis key, a queue or a goroutine's position;
each action is one statement, command, publication or delivery, so that every
interleaving the processes can produce is a behaviour. Where a Redis error is
logged or ignored, the action has a failing alternative with the same successor
position. Variables marked `history` are updated where the code forgoes or
repeats something; no guard reads them. (`LikePipeline.lost`, `Outbox.dropped`,
`Comments.torn`, `Sessions.inStep`, `Following.last`, `HotRank.total` are such.)
`MC*` modules hold instances, symmetry and narrowing; `*Proofs` hold theorems.

### LikePipeline

A request of the API process is a program counter `rpc[c]`: `Begin` does the
existence and IsLiked checks, `PublishLike` and `PublishHeat` hand the two events
over, `Return` ends it if both were accepted, otherwise `LikeTx`/`UnlikeTx` (one
transaction, skipped for the store that was handed over) and `BumpHot` write
directly; `ClientLoads`/`ClientSaves` are the two Redis commands of the feed item.
`RequestFails` is an error returned to the caller.

A worker receives up to `Prefetch` deliveries (`Deliver`) and runs the oldest:
`ApplyRow` (INSERT IGNORE or DELETE; if no row changed the event is acknowledged
at once), `ApplyCount`, `WorkerLoads`/`WorkerSaves`, `ApplyPopularity`, `Ack`.
`StepFails` puts the delivery back (or acknowledges it at the retry limit),
`Crash` redelivers everything the worker held. `LikePublish` and `HeatPublish` name
what a publication can do in a run: the broker has the event, the client returned
nil but nothing was queued, or an error was returned.

`copies[v]` are the counts readers have of a row, wherever they keep them (a request
of `buildFeedVideos`, its goroutine, a local copy, an entity that has been in Redis
for an hour): `FillReads` takes one from the row at any time, `FillSaves` writes one
over the feed item, present or not, and `CopyEnds` discards one; `Expire` takes the
item away. Each has the number of changes made since it was read, from which
`stale[v]` follows: the item was last saved from a copy that lacked more or less
than the change the worker was about to load it for. `latest[p]` is the last event
queued about a pair, and `reordered` has the pairs of which an older event went back
to the queue while the worker held the last.

### Outbox and Relay

A video is named by its creation time. `Publish(v)` may happen in any order of
`v` because `create_time` is chosen before the transaction commits. The poller of
process `a` holds the rows it fetched (`batch[a]`) and works on the oldest one:
`Send`, then `Delete`; `SendRefused` leaves the row for a later poll, and an
ignored error of `db.Delete` leaves it to be sent again. `Send` may also hand over
a message that the broker never has (`Unconfirmed`); `dropped` remembers the
video. The consumer of `a` runs `Add` (ZADD), `Trim` (ZREMRANGEBYRANK, error
ignored) and `Ack`; `AddFails` requeues whether or not the write was executed.
`RebuildStarts`, `RebuildReads`, `RebuildSaves` are the rebuild that ListLatest
starts on an empty set. `Restart(a)` loses the memory of process `a`; the broker
takes its unacknowledged deliveries back. `Lose` deletes the sorted set.

`Relay` is what is left of a transactional outbox's promise when nothing is confirmed:
only committed items are handed over or lost, and each one is, at least once.
`Outbox` refers to it as `R` with `committed <- stored`, `handed <- consumed` and
`lost <- dropped`. That each committed item is handed over, which is what an outbox
is for, does not follow and does not hold (see *Where a property is narrower*).

### Sessions

One account; `op[o]` is a request of the account and the statement it has come to.
`CheckCache`, `CheckRow`, `Refill` are `check` of the JWT middleware, run before
the handlers of logout and rename; `LoginReads`, `LoginStores`, `SetToken`,
`SetLookup` the login; `LogoutReads`, `LogoutForgets`, `LogoutUnlooks`,
`LogoutClears` the logout, which ChangePassword ends with; `RenameStores` the
transaction of Rename; `RefreshLooks`, `RefreshVerifies`, `RefreshStores` the
refresh through `refresh:<token>` and `RefreshScans`, `RefreshStoresOnly` its path
over all accounts. A token is its name and second of issue, since two tokens of
one second are the same string. `Lose` is a key that expired or was evicted.
`behind` has the tokens that scans have replaced in the row since the key
`account:<id>` was last written.

### PushHub and Notifications

`PushHub` models the slices of `SSEHub` and `StreamHub` as Go has them: a pointer
to an array, and a length. `Subscribe` appends in place while there is room and
moves to an array of twice the size otherwise; `Unsubscribe` moves the members
behind the removed one down *in the same array* and closes the channel. `Push`
copies pointer and length under the lock (`PushCopies`), then sends without it
(`PushSends`, one turn of the loop). A send to a closed channel is a panic.

`Notifications` extends it with one user's rows, the unread counter, the
notification worker of the API process and the requests that write, read and
count notifications: `Process`, `Increment`, `Push*`, `Ack`; `Send` (a direct
message with two pushes, a published video, a mention); `MarkRead`, `Decrement`,
`ClampReads`, `ClampSets`; `Recount` (GET), `RecountReads` (COUNT, whose error is
ignored: 0 is then stored) and `RecountSets` (SET). An insert that fails may have been
committed; `redone` counts those and the ends of the process. `Crash` ends the process, also
because a worker panicked, and the broker takes the deliveries back; `Recover` is
gin's recovery of a request that panicked.

### Comments

`act[c]` is a request: `SendEvent` and `SendHeat` are the two publications,
`WriteTx`, `BumpHeat`, `DeleteRow` their fallbacks, `Invalidate` the DEL of the list,
`Mention` the end of Publish; `ListReads`/`ListFills` are GetAll after a miss.
The worker is `Deliver`, `InsertRow`, `ChangePopularity` or `FindRow`, `RemoveRow`,
`Ack`; `StepFails` is a failed statement or an ended worker between any two. `late`
marks a copy of the list, cached or in a reader's hand, that nobody will drop for a
write it lacks: the worker wrote after it was read, a drop went before it, or failed.

### RedisLock, Following and DetailCache

`RedisLock` is the token lock: SET NX, the compare-and-delete script, expiry.
`Following` is a follow request (`BeginEdge`, `Announce`, `WriteEdge`), the worker
that writes the same edge again (`Deliver`, `Apply`, `Ack`, `Requeue`) and
ListByFollowing's page: `BeginFeed`, `TryLock`, `LookAgain`, `WaitForPage`,
`ReadEdges`, `FillPage`, `Release`. A page is the set of authors it was read for. It
lives `PageTTL` ticks (`Tick`, `ExpirePage`); `last` says until when the table held
each set of edges, and the page carries how long its reader took to store it.
`DetailCache` is GetDetail over a local cache for each process, the Redis copy and
the lock; `Change` is any writer of the row and `Invalidate` its DEL. Copies have
the ticks they have left; a request does not hold a value across a tick
(`Prompt`). Its Redis calls have 50 ms and the TTLs are seconds, but `GetByID` has no
timeout of its own: that MySQL answers within the tick is an assumption.

### FeedPages and HotRank

`FeedPages` is a client that pages to the end of one of three feeds while videos
are published, relayed, trimmed, lost and liked. `Ask` compares the cursor with
the watermark, `ReadHot` reads the sorted set, `Stitch` fills the page up from
MySQL, `ReadRows` is a page from MySQL, `RebuildReads`/`RebuildSaves` the rebuild.
The following feed answers from its page in Redis, one for each cursor, and a visitor's
first page by likes from a local copy: `FromCache` and `Miss`, before the lock, with it
or while another reader has it. What was read is stored later and over whatever is
there (`SavePage`), other readers do the same (`OtherReads`), and a page goes when its
time is over (`Lapse`, at any moment). `Reply` gives the client the page and its cursor,
which in the following feed is in whole seconds.

`HotRank` is the ranking: `NewHeat` (the event is queued, refused and written directly,
or taken by the client and never queued), `TakeHeat`, `AddHeat` (ZINCRBY), `KeepWindow`
(EXPIRE), `EndProcess`; `AskPage` (EXISTS), `MakeSnapshot` (ZUNIONSTORE and EXPIRE),
`ReadRange`; `NextMinute` is time.

## Runs

All but the last pass; that one checks what a design text of the repository says,
and is violated (see Findings).

| Run | Bounds | Question |
|---|---|---|
| `like_accounting` | 2 users, 1 stored and 1 unknown video, 2 requests at a time, 4 in all, 2 workers, prefetch 1, 1 failure, accepted and refused publications | is `likes_count` off only by what the accounting names; can it be too low without a failure |
| `like_settles` | 2 users, 2 requests at a time, 4 in all, 1 worker, prefetch 2, a broker that takes all events or none, Redis up, 2 counts held by readers, no failure | once everything is consumed, are both counters exact, and the feed item equal to the column; does the ranking follow the rows when every request falls back |
| `like_order` | prefetch 2, 3 requests, 2 failures, accepted and lost publications, fair consumer | does the last event win; is every event acknowledged |
| `outbox_two_apis` | 2 processes, 2 videos, set of 1, poll of 1, unconfirmed messages, 1 failure, 1 loss of the set | is a video ever forgotten by two pollers and consumers over one table and queue |
| `outbox_timeline` | 3 videos, set of 2, poll of 2, unconfirmed messages, 1 failure, rebuilds, fair loops | is the timeline complete above its watermark; does the outbox implement `Relay`, liveness included |
| `sessions` | 2 requests at a time, 4 in all, 2 names, tokens of 2 ticks, 3 ticks, 1 failed command, 1 lost key | does the key hold no token but the row's or one the scan replaced; is a revoked refresh token dead; does a new password end the old sessions |
| `notifications` | 1 worker, 1 request at a time, 2 in all, 1 event, 2 streams, 2 hubs, channels of 1, 1 failure | does a push reach each stream once; is the counter the unread rows; is an event dropped or doubled |
| `comments` | 2 requests at a time, 3 in all, accepted, refused and lost publications, 1 failure, fair | are copies, missing popularity and a stale list explained; is an accepted comment kept, and does it appear |
| `following` | 2 requests at a time; 3 follows, 2 feeds and 2 failures in one tick, or 2 follows, 3 feeds, 1 failure and 3 ticks with pages of 1 | does the edge end as the last request wanted; how old can a cached page be |
| `detail` | 2 processes, 2 requests at a time, 3 reads, 1 change, 1 DEL, TTLs of 2 ticks, 4 ticks, 1 failure | is the lock exclusive; how stale can an answer be; does the lock keep a crowd from the table |
| `feeds` | 4 videos (3 by likes), pages of 2, set of 2, 1 fault, 1 flush, 2 changes of likes, 1 page read by others; 2 videos, 2 readers, 3 minutes, 2 changes, 3 pages of 1, up to 2 faults | does paging repeat or skip; is every change counted; is a ranking complete |
| `sessions_logout` | 2 requests at a time, 3 in all, nothing fails | is the old token refused after a logout (no) |

**Bounds.** Two requests and two workers are the smallest numbers for which two writers
meet over one counter; two users make two rows, and with one user the same row is fought
over. A second video of `LikePipeline` exists only as an id without a row, so that the
existence checks have both answers. In Outbox a set of two with three videos is the
smallest where a trim drops something and a late, older event may arrive after it; the
theorems drop these bounds. In `sessions` two interleaved requests are one race, and
four requests in all suffice for a login, a second one or a rename, a logout and a
refresh with an old token; three ticks let a token of two expire and make tokens of one
second, and of different ones. In `notifications` two streams with channels of one are
the smallest registry in which an array is grown, appended to in place and shifted under
a push, and a full channel is met. In `detail` four ticks are both lifetimes in
sequence, so the bound of `StalenessBounded` is reached. In `feeds` videos 2 and 3 share
a second and 3 and 4 a millisecond: the smallest table in which each cursor's tie-break
matters. A window that lives three minutes and is ranked for two has the ratio of 120
and 60 as far as `RankingComplete` can tell: it outlives each ranking of it. A prefetch
of two is the smallest with which a delivery that is put back falls behind a later one
of its pair, and two counts held by readers let an older one be saved over a newer.
`MaxCalls`, `MaxOps`, `MaxFailures`, `MaxLosses`, `MaxTime` and the other `Max`
constants, and the finite `Videos`, end every behaviour, which is why the cfgs switch
the deadlock check off.

Four runs are narrowed in their MC module. `MCNotifications!MentionsApart` explores
mentions beside liked videos only, since a mention is a message without a push.
`MCLikePipeline!BrokerSteady` keeps the broker up or down for a whole behaviour of
`like_settles`; `like_accounting` mixes the two. `MCFollowing!Apart` is the "or" in the
table: pages and edges meet only where a page is read. `MCFeeds!Short` leaves the feed
by likes three videos, still two pages, and `MCFeeds` puts `FeedPages` and `HotRank`,
which share no variable, under one `focus` chosen at the start: a behaviour moves only
one of them, and one about the ranking has two readers without faults, one reader and
one fault, or two faults and no reader. The pages' state multiplied by the ranking's
would show nothing new. In `feeds` every change of popularity is +1; an unlike's −1 is
the same ZINCRBY.

**Fairness.** `LikePipeline!FairSpec` is weak fairness of a worker's own steps:
`LikeWorker.Run` is an endless loop over its deliveries. `Outbox!FairSpec` is weak
fairness of the poller's and the consumer's steps, two endless loops.
`Comments!FairSpec` is weak fairness of its worker's. Nothing is assumed about requests,
those under way included, nor about restarts, fills or rebuilds. Failures are finitely
many by `MaxFailures`: an event whose statement always fails is requeued for ever, since
`Nack` with requeue does not set the `x-death` header that `GetRetryCount` reads.

## Findings

`sessions_logout` expects its property violated. The project's design
(`src/feedsystem_video_go项目设计.md:39`) says of `/account/logout` 旧 token 立即失效, the old
token is invalid at once: `LoggedOutIsOut`. Logout deletes `account:<id>` before it
clears the row (`account/service.go:161`, `171`), and nothing orders the two with a
login's SET of the key or a refill by the middleware. In TLC's shortest behaviour
a login has written the row, `ChangePassword` ends with its logout up to the delete of
the key, the login writes the key, and the logout clears the row: the row has no token and
the key lets the old one in.

## Where a property is narrower than one might hope

These are behaviours of the code that the models have and the properties name or
except; each was seen as a counterexample to the wider formula.

- *Likes.* The worker changes the row, `likes_count` and `popularity` in separate
  statements, and a redelivered event returns early when the row is there: a failure
  between them is never made up for. The fallback's decrement is clamped at zero, so one
  that overtakes a worker's increment leaves a like too many. `LikesAccounting` says by
  how much the column is off; `SettledCountsExact` is checked without failures, and with
  the broker up or down throughout. A reader saves over the feed item a count it read
  before a like was applied, or one that has a change which the worker is yet to add to
  the item: `FeedItemFollows` excepts the items last saved so (`stale`), is checked
  without failures, and says nothing once a request has taken its fallback, since two
  fallbacks load and save one item side by side. A failed delivery falls behind those
  the worker has prefetched, so an unlike may be applied before the like it followed:
  `LastEventWins` excepts the pairs to which that happened (`reordered`).
  `HeatFollowsLikes` is checked with the broker down: two quick likes both pass the
  check and are queued, one row and two ranking changes.
- *Outbox.* A row is deleted after a publication that nobody confirmed. The design text
  says that at least the row is there to be sent again (面试版_中间件与存储设计详解.md:691); that a
  video which is not in the timeline still has its row or its message is false, with
  nothing else failing. `NothingForgotten` excepts the videos in `dropped`, and `Relay`
  lets them be lost. If Redis loses the set and an event arrives before a reader, the
  set is not empty and never rebuilt: `NoHoleAboveWatermark` is checked, and proved,
  without losses.
- *Sessions.* Nothing orders the operations of one account. A check that runs
  beside a logout can put the old token back into Redis for its 24 h, and two
  logins can leave one token in the row and the other in the key. `CacheAgrees` and
  `OldPasswordIsOut` speak of the time after a login or logout that ran
  undisturbed. A refresh that does not find `refresh:<token>` stores its token in the
  row alone, with no other request about and nothing that fails: until the key
  expires the middleware lets in the replaced token and refuses the new one, although
  its comment (`middleware/jwt/jwt.go:18`) says that a token is compared with the stored one.
  `CacheAgrees` allows the tokens replaced so (`behind`), and no other.
  `RevokedRefreshIsDead` needs no such premise.
- *Notifications.* A stream that unsubscribes while a push is sending may make it panic,
  skip a neighbour or offer it the item twice; `PushVisitsEach` excepts exactly those
  pushes. The counter may part from the rows after a failed command (a COUNT that fails
  stores 0), an insert that was committed and taken for failed, a lost key, a marked
  follow notification (never counted, but taken off), a clamp that struck between a row
  and its increment, or a recount beside another activity; `CounterExact` holds until
  then and again after a recount that ran alone and could count. An error in reading a
  video's author passes for a video without one and the event is acknowledged;
  `NoEventDropped` excepts it.
- *Comments.* A delivery that ends after the insert leaves a copy, since the next
  one does not look for it. `NoUnexplainedCopies` and `PopularityAccounts` count them.
  The list is dropped when the event is queued, before the worker writes the row: for
  its TTL it may lack the comment, and nothing drops it again. `StaleListExplained`
  excepts the lists read before a write of the worker, read before a drop and cached
  after it, or left by a failed drop; a list is never stale otherwise.
- *Following.* A request that begins before the event of an earlier one was applied
  may be undone by it. `EdgeFollowsLast` excepts such edges (`mixed`).
  Nothing drops a cached page when an edge changes. `PageIsRecent` says how old it can be:
  its TTL and the time its reader took between the table and Redis.
- *Feeds.* The sorted set's cursor skips videos of the page's last millisecond and the
  following feed's those of its last second; a page cut short by a failed read says
  there are no more. A set that has outgrown `Cap` for a moment, by an old event,
  reaches below trimmed videos. A page answered from a cache passes over what was stored
  since it was read, up to 24 h ago; in the feed by likes a video moves with its count.
  `NoGaps` names each of these in `skipped`, `touched` and `cut`, and whatever else
  would be missed violates it. `HeatCounted` excepts the events that the broker never
  had. `RankPaged` is about pages of one snapshot: it may expire, or be made a second
  time by a reader who found none.

## Proofs

`LikePipelineProofs`, from the assumptions of the module (finite users, clients and
workers, clients and workers disjoint):

- `TypeCorrect`: `TypeOK`. The strengthening `TypeInv` adds that a busy request has its
  arguments and a worker past its first step has a delivery.
- `AccountingHolds`: `likes_count` = rows − increments owed + decrements owed −
  lost + clamped. Inductive relative to `TypeInv`: inserting a row makes a worker
  owe an increment, `ApplyCount` pays it, a failure or crash moves it to `lost`, a
  swallowed decrement to `clamped`. The lemmas `InsertRow`, `DeleteRow` and `OneOwes`
  are the cardinality arguments.
- `CountNeverLow`: without failures `lost` is zero (`LostByFailure`) and `clamped`
  and the owed decrements are non-negative, so the count is never too low.

The four properties of a pipeline at rest, under the restrictions without which they
fail. The first three assume one worker, as `cmd/worker` starts it, and that no
publication of a like is refused (`Routed`: no request then reaches its fallback).

- `LastEventHolds`, for any prefetch, failures and crashes: the last event about a pair is
  queued, or in hand behind every other one of the pair, or the row is as it
  says (`Stands`), unless the pair is in `reordered`. Ids order what the worker holds
  and what is queued (`InOrder`, `Newest`) but for events that were put back. The
  lemma `NotReordered` is the case that matters: what a failure or crash puts back is
  older than the last event of its pair only if that one was in hand, and then the
  pair is in `reordered`.
- `SettledHolds`, without failures: each counter lacks what the worker has still to do
  for the row it changed (`Counted`, `Due`).
- `FeedItemHolds`, without failures, for any expiry and any number of copies held by
  readers: the item lacks what the worker has still to copy, and what it has loaded
  plus its change is the count, unless the item is stale; a copy that lacks nothing has
  the count, and one that lacks the change the worker is about to load the item for lacks
  just that (`Copied`). The second kind may be saved: the worker then adds the rest.
- `HeatHolds`, broker down, Redis up, no failures, any workers: the ranking lacks one
  change for each request that has committed its row (`Ranked`). The cardinality
  lemmas are those of the rows.

`OutboxProofs`, from finitely many videos, positive `Cap` and `Limit`:

- `TypeCorrect`, with the two facts about the loops' positions.
- `ImplementsRelay`: `Spec => R!SafeSpec`: nothing is handed over or lost that was not
  committed. Needs `Known` (everything downstream is stored) and `WrittenFirst` (a
  consumer past ZADD has written its video).
- `NothingForgottenHolds`, with and without confirmed messages. Needs `SentFirst`: the
  row that is about to be deleted has been sent. `FlightKept` and `GivenKept` are the
  main lemmas: a message in flight stays so until its video has been written, through
  receives, requeues, acknowledgements and restarts, and a dropped one stays dropped.
- `StaysUntilSurpassedHolds`, for every `Cap`. Inductive with `TypeOK` alone; the
  lemma `TrimKeepsNewest` is the argument about ranks: if a kept member were
  older than an absent video, all of that video's Cap successors would be kept
  beside it, one too many.
- `NoHoleHolds`, assuming `MaxLosses = 0`: a consequence of the two preceding
  theorems.

`DetailCacheProofs`, from finitely many callers, positive lifetimes and a free lock
that is no caller's token:

- `LockExclusiveHolds`: whoever still has the lock is the one the Redis key names
  (`LockInv`). `DetailStep` shows that each step of `GetDetail` is one of the three
  commands on the lock or leaves it alone.
- `StalenessHolds`: a value is followed on its way by how long ago at most it was the
  row's (`Ages`): a copy in Redis by `CacheTTL` less what is left of its life, a local one
  by both lifetimes less what is left of its own, and what a request has in hand by the copy it
  came from. Time passes only while no request holds a value (`Prompt`), which is the
  model's reading of "a request takes less than a second".
- `ReadsHold`: `Credit` counts with the reads made those that are certain (a request at
  the read, one whose lock lapsed before it looked) and the one that is due while the
  copy is missing and nobody is about to fill it. Each step that adds to this
  sum adds to `gone`, `lapsed` or `failures`; the bare property is far from inductive.

`SessionsProofs`, from the assumptions of `Sessions`:

- `RevokedRefreshHolds`: `RevokedRefreshIsDead`, for any number of requests, failures
  and lost keys. Inductive with `Fresh` (a login that has not written its row has a
  refresh token that nobody holds and no other request carries) and `Presented` (a
  refresh presents a token that was given out, and one that was revoked then is never
  the row's again). Without `Fresh` a login could bring a revoked token back to life.
  `GoesOn` describes what every step does but those three: a login that reads, one that
  writes its row, and a refresh that begins. `GoingOn` shows that it keeps the
  invariant, `PlainGoesOn` that the steps are of that form.
- `CacheAgreesHolds` and `OldPasswordHolds`, from one invariant (`SInv`): in a calm
  period only visits run side by side (`Calm`, `Sole`); what the row and the keys are
  while a request that nothing disturbed is at each of its steps is `Owed`; row and key
  agree, but for the tokens in `behind`, but while a token has been written to one of
  them only, and an open session is the present password's but while a logout is ending
  it (`Settled`).
- `TypeCorrect`: `TypeOK`. The bounds of the numbers of tokens and passwords need
  the requests in progress (`Ranged`): the refresh tokens issued and the logins that
  have still to issue one are together no more than the requests started, and so
  are the changes of password made and the requests that have still to make one.

`CommentsProofs`, from finitely many callers and the outcomes of a publication:

- `TypeCorrect`. The bound on `heat` needs the changes still due (`HeatDue`).
- `PopularityHolds`: inductive with the types.
- `AcceptedKeptHolds`: needs that whatever request has handed its publication over, and
  whatever the worker is past inserting, is kept (`Written`).
- `CopiesExplained`: needs that a publication is in one place only (`OnePlace`): with
  its request, in one message or in hand. `Copies` counts with the copies there are
  the publications that have a row and a message that will be applied once more.
- `StaleListHolds`: a list in a reader's hand, like the cached one, is the table's unless a
  request is about to drop it or it is late (`ReadExplained`).

`NotificationsProofs`, from finitely many streams and pushers. `HubStepOf` shows that each
step of `Notifications` is one of `PushHub` for its hubs or leaves them alone, so that
the two properties of the hub are proved for it alone:

- `RegistryHolds`: the slice lists the open channels without repetition (`Registered`),
  and every slice anyone still has lies within its array, where a slot that has held a
  channel never ceases to (`Grown`).
- `PushVisits`: what a call has still to visit in its slice is what it has still to
  offer (`Visiting`). A subscription extends the array behind the slice, or copies it;
  only `Unsubscribe` moves members within it, and then the call is no longer `alone`.
- `EventsKept` and `RowsOnce`: each event is queued once, in one hand, or noted (`Placed`);
  a crash, or an insert that was committed and taken for failed, may put back what has
  been noted, once for each event.
- `CounterHolds`: the counter's equation, and that a recount which is still alone has
  counted what there is (`Recounted`). `ClampHolds` is inductive with the types.

`FollowingProofs`, assuming that no author is called "none":

- `EdgeHolds`: about an edge whose requests have not overlapped, at most one
  request is under way (`OneRequest`), every event still to be applied says what that request
  says (`OneMind`) and what is wanted (`Agreed`), and when none is left to be applied
  the edge is as wanted (`Settled`). That all open events agree is what makes repeated
  and lost ones harmless.
- `PageHolds`: the table held the page's edges no longer ago than the page has been cached
  plus the time between its read and its store (`Fresh`); what a reader has in hand was the
  table's when it read (`Carries`).

`FeedsProofs`, about `PagesSpec`, `RankSpec` and the two side by side. A behaviour of
the `feeds` run moves the pages or the ranking, which share no variable (`MCFeeds`):
`FeedsCompose` shows that its `Spec` implies both.

- `RepeatsNever`: what was shown is at or above the cursor, and the page lies below it
  and at or above the next one (`Down`), whichever of the set and the table its parts
  were read from and whatever changed between.
- `GapsNever`: a video the client has still to be shown is below the cursor; while a
  page is being made, on it or below its last; afterwards on it or below the next cursor
  (`Reach`). That the timeline passes over nothing rests on `Trimmed`: a video trimmed
  from it has `Cap` newer ones there, as long as Redis keeps the set. That a cached page
  passes over nothing else than what is newer than itself rests on what it was selected
  from, which it carries. `LastOf` exists by a least-element argument over pairs
  (`WellFoundedInduction`).
- `HeatCountedHolds`: an event before its ZINCRBY has been counted less often than it
  was delivered, and one that is neither queued nor in hand is counted or `spoilt`, as
  one the broker never had is at once (`Counts`); no event is with both processes, or in
  hand and queued (`Working`).
- `RankingCompleteHolds`: until `WindowTTL` after its minute a window has all that was
  counted in it (`Lasting`), so a ranking that is not too old sums the same numbers twice:
  from the windows there are and from all that was counted.
- `RankPagedHolds`: a client of an intact snapshot has seen exactly the first `offset` of
  its videos (`Paged`). That the ranking numbers them without a gap (`RankNumbers`) is
  again a least-element argument, and `NextPage` counts the next page.
- `FeedsTyped`: `MCFeeds!TypeOK`. Scores are integers because a sum of finitely many
  integers is one (`SumType`): the fold is unrolled by its definition, and a failure of
  `SumUpTo` has a least size at which it occurs.

Only model-checked: the liveness properties `EventsLand` and `AcceptedAppears` and the
fairness half of `RelayImplemented`, which are out of the prover's reach. Every invariant
the passing runs check is proved, some under the restrictions stated above; the type
invariant of `Notifications` is proved and not run.

## Plan

Models: an abstract session (valid between a login and its logout) that `Sessions`
implements where nothing interleaves; a batch read of the feed items with
`ChangeFeedVideoPopularity`.

## Not modelled

- Rate limit: one atomic Lua script per request on a key of its own, a fixed
  window; there is nothing to interleave.
- Seed command: demo data for an idle system. Its deletion of the feed keys is
  `Outbox!Lose` and `FeedPages!Flush`; its rebuild is ListLatest's without the check.
- Frontend: TypeScript in a browser. What a client does with cursors is in
  `FeedPages` and `HotRank` (`HotView.tsx`); a refresh that is answered after a logout
  is a listed hazard.
- `VideoService.Delete`, `UpdateLikesCount` and `UpdatePopularity`: no route reaches
  them. Uploads: file I/O.
- Registration, profile, avatar: they touch no token. List queries of likes,
  followers, messages and notifications change nothing.
- A request's statement that was committed although its answer was lost (an insert of the
  notification worker and a ZADD of the timeline are modelled so).
- `ListByTag`, the two-second local copy of the ranking's first page, the three-part
  cursor of the database ranking, the context shared by a singleflight group,
  and the recursion of ListLatest when Redis reads but does not write.
- Exchange and queue declarations, the dead-letter queue, which nothing consumes,
  and reconnection: after the loss of its AMQP connection a loop stops until the
  process is restarted.
- Configuration, database handle, errors, profiling, views: no protocol of their own.
