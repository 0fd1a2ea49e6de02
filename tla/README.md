# pluto-feed: specification and proofs

TLA+ modules, TLC runs and TLAPS proofs about the server side of pluto-feed: an
API process (`cmd/server`) and a worker process (`cmd/worker`) around MySQL,
Redis and RabbitMQ. Paths below are relative to `src/`.

## 1. The system

### Components, state, operations

| Component | Source | State | Operations that change it |
|---|---|---|---|
| Interactions | `internal/service/interaction_service.go`, `internal/repository/interaction_repo.go` | tables `likes`, `comments`, new `outbox` rows | Like, Unlike, Comment, DeleteComment |
| Outbox | `internal/repository/outbox_repo.go`, `internal/model/outbox.go` | table `outbox`, `processed_at` | EnqueueInTx, FetchPending (read), MarkProcessed |
| Worker | `internal/worker/worker.go`, `cmd/worker/main.go` | `processed_events`, `posts.like_count`, `posts.comment_count` | relayOnce, handleDelivery, Counter.Apply, RunDLQ |
| MQ client | `internal/mq/mq.go` | one AMQP channel, its confirmation channel (capacity 1) | Publish, SetupTopology |
| Posts | `internal/service/post_service.go`, `internal/repository/post_repo.go` | table `posts` (soft delete), Redis `post:<id>` and `user:<id>`, a singleflight group | Create, Get, getUserCached, Delete, Search (read) |
| Cache | `internal/cache/cache.go` | Redis keys, hot buckets per minute | GetJSON, SetJSON, Del, ZIncrBy, HotTopN (read) |
| Bloom filter | `internal/bloom/bloom.go`, `cmd/server/main.go` | a bit array per API process | Add, Test |
| Feeds | `internal/service/feed_service.go` | result cache of the hot list | List, ListFollowingFeed, ListHot |
| Social | `internal/service/social_service.go`, `internal/repository/follow_repo.go` | table `follows`, two counters in `users`, Redis `user:<id>` | Follow, Unfollow |
| Auth | `internal/service/auth_service.go`, `internal/jwtutil`, `internal/middleware/auth.go` | table `users`, Redis white list of refresh tokens | Register, Login, Refresh, Logout; GinAuth (read) |
| Rate limits | `internal/middleware/ratelimit.go`, `internal/router/router.go`, `internal/config` | a Redis counter per IP and minute, a sorted set per user | RateLimitIP, RateLimitUser |
| Profiles, uploads, web front end | `internal/service/profile_service.go`, `internal/service/upload_service.go`, `web` | none of their own worth a model, or files | - |

### How they interact

- The API never writes the counters. A business transaction changes one row of
  `likes` or `comments` and inserts one row into `outbox`; the worker's relay
  publishes outbox rows, its consumer applies them to the counters. The two
  processes share MySQL's `outbox` and Redis, nothing else.
- Relay, consumer and dead-letter consumer of a worker share one AMQP channel.
  Confirms and deliveries come to the client over one connection and are handed
  out by one reader goroutine.
- `posts` rows reach Redis only through Get (read-through under singleflight,
  behind the Bloom filter); Delete, the interactions and the worker drop entries.
  `users` rows reach it through `getUserCached`, without singleflight; Social drops them.
- Every request passes the counter of its IP, then authentication where the route asks
  for it, then, for the routes of `authedWrite` (posts, likes and comments), the user's
  sliding window; follow, unfollow, upload and logout have only the counter of the IP. Each
  of the layers goes on or answers; none of them waits.

### What is hard

Interleavings of handlers of the same user and row; ids handed out at INSERT and
visible at COMMIT; a crash between any two of commit, publish, confirm, mark, DEL
and ack; late and negative confirms; redelivery and several workers; lost
connections; fills of the cache by readers that were overtaken; callbacks shared
by singleflight; unsynchronised bit sets; checks and writes of the white list and of the
rate limits as separate Redis commands, each with an error that is ignored; keys that
end while requests of their minute are still on the way. `PROJECT.json` lists each at
its line.

### What makes each part correct

- Interactions: the outbox says, at every moment, exactly what the business tables
  say (`LikeLedger`); for comments it never says more (`CommentNeverOver`).
- Worker: every event is counted at most once (`ExactlyOnce`), a row the relay has
  put aside is not lost (`NoLoss`), a stale cache entry has one of three known reasons
  (`StaleCovered`: a DEL to come, unless its message is a dead letter; a failed DEL; an
  overtaken reader), and every row is counted or dead-lettered, and marked, in the end, with
  no stale entry left (`EventuallySettled`).
- Posts and cache: an entry that differs from the row has one of two known reasons
  (`OnlyOvertakenFills`); a deleted post goes for good (`DeletedStaysGone`), a created one
  is found in the end (`CreatedIsFound`).
- Bloom filter: no false negatives, but for the bytes two calls were in at once; so a
  visible post is in it (`BloomComplete`) unless its bit was lost that way or its Create
  failed.
- Social: the counters are the degrees of the follow graph (`Degrees`), two users
  who follow each other at one moment do not hang (`RequestsEnd`), and a cached user with
  old counters has a known reason (`StaleUserCovered`).
- Feeds: paging shows no row twice (`InOrder`) and skips none that stays
  (`NothingSkipped`), while rows come and go between two pages.
- Hot list: a place is earned (`RankIsEarned`), by heat no older than a bucket's TTL
  (`HotIsRecent`), and a kept ranking carries nobody's flags (`OwnLikes`).
- Auth: a nickname has one owner (`OneOwner`); a refresh token yields one pair
  (`OneSuccessor`) and, once deleted, none (`SpentYieldsNothing`); a pair in a client's
  hands is good until it is presented or expires, unless its key could not be set
  (`GivenIsListed`). A client whose answer to Refresh is lost has to log in again.
- Rate limits: at most the limit of a minute passes (`MinuteBound`, `SlidingBound`), and who
  is refused has asked for it within that minute (`CountIsEarned`, `RefusedForCause`).

## 2. Modules

| Module | Models | Notes |
|---|---|---|
| `CountEvents` | outbox rows as messages | `Net(S, f, p)` is what a set of events adds to a counter |
| `Interaction` | the API for likes and comments | one action per statement of a transaction, then `Commit`, then Redis |
| `Worker` | relay, broker, consumer, dead letters, crash, connection | one action per network or database step |
| `CountService` | abstract: every change of `likes` owes one event, each settled once | no outbox, broker or retries |
| `Pipeline` | `Interaction` and `Worker` over a shared `outbox` and `cache` | proved to implement `CountService`; what commits is a `CountEvent` of `Interaction`; the readers that fill the cache are those of `Worker` |
| `PostCache` | the cache entry of one post: Get, Create, Delete, counter updates | several API processes, singleflight, Bloom filter |
| `Social` | Follow and Unfollow, statement by statement, and the user cache | row locks, deadlock and its victim |
| `FeedPaging` | the five lists paged by a cursor, seen by one client | everybody else inserts, removes, follows |
| `HotRank` | minute buckets, HotTopN, ListHot and the kept ranking | minutes are counted backwards from now, so time has no bound |
| `Bloom` | the filter, at the granularity of byte loads and stores | |
| `Tokens` | accounts, pairs of tokens, the white list | one action per Redis command or INSERT |
| `RateLimit` | both windows, behind each other | one action per Redis command or transaction, a clock |
| `MC*` | small instances for TLC | |
| `*Proofs` | theorems about the module of that name | `CountEventsProofs` has the lemmas about `Net`; `CacheProofs` is about `PostCache` and `Bloom`, `FeedProofs` about `FeedPaging`, `HotRank` and `Social` |

How state and code correspond:

- `Interaction`. `pc[r]` is the position of a handler in the service method (`checked`:
  `mustGetPost` or `GetComment` passed; `read`: `DeleteComment` re-read its row; `open`: row
  changed and event inserted, not committed; `after`: committed, Redis to come). Uncommitted
  rows are in `call[r]`; `RowFree` is the row lock InnoDB holds from the change to the
  commit. `ChangeCache` is whatever readers, the worker and a TTL do to an entry, since the
  API's own part is only to drop it; `Entries` is what an entry may be, and `Pipeline` puts
  the states of `Worker` there. `AfterInteraction` covers each subset of its two Redis
  calls, since both errors are only logged and the process may die. `Abort` is any failure
  before the commit.
- `Worker`. `relay[w]` is `relayOnce` (`batch`: rows still to publish, `done`: ids to
  mark). `wire` and `confirms` are the two directions of the channel: `Publish`
  writes, the broker accepts or rejects, `TakeConfirm` takes whatever confirm is next,
  exactly as `mq.go:117` does. `Deliver` waits while a confirm does not fit into the
  confirmation channel, because the client's reader is one goroutine. `consumer[w]`
  is the delivery in hand between commit (`Apply`), `DEL` (`DelCache`) and ack.
  `status` is `cut` after a lost connection: the process lives, nothing reconnects.
  `ApplyFails` is a rollback, or a commit whose answer is lost: the event is counted, and
  dead-lettered without a DEL. `fill[s][p]` is what the flight of process `s` for post `p` has
  read and not yet cached: Get reads the row (`ReadRow`) and sets the entry (`SetRow`) in two
  steps, and an Apply with its DEL may come between them; `cache[p]` then becomes
  `overtaken`. `forgotten` is an entry whose DEL failed.
  `Limit` bounds each kind of fault, `MaxFaults` all of them together.
- `PostCache`. `entry` is `post:<id>`; `overtaken` is a history flag set by a fill whose row
  has changed since it was read. `flight[s]` is the singleflight call; readers that join
  share its result. `filter[s]` is what the process's Bloom filter has of the id: `doomed`
  when the Add of another post has loaded one of its bytes before the bit was set, `lost`
  when that Add has stored its copy (`LoseBit`). `creator` is Create, which stands before
  Add when its INSERT is committed, or fails there with the row in the table.
- `Social`. `pc[r]` says which statement of the transaction is next: `checked` the
  INSERT IGNORE or DELETE on `follows`, `edited` and `bumped` the two updates of
  `users`, `open` the commit. The rows a transaction has locked follow from it
  (`Locks`), and so does what it will have changed at `Commit`. `EditFollows` that changes
  no row is the early return of a repeated request, which still drops the cache
  entries (`AfterSocial`). `fill[u]` is what a reader has read and will cache: `current`, or
  `stale` once the row has changed since. `entry[u]` is `user:<id>`, which can also be
  `overtaken` (filled by such a reader) or `forgotten` (its DEL failed or its handler died).
- `FeedPaging`. `stage` is what the client does next; `list` says which query the client
  repeats; `cursor` and the rows of the last `page` are what it knows. The rows are one set
  for all lists, since the client reads one at a time. `FollowingIDs` and `ListByUserIDs`,
  `MustGetPost` and `ListComments` are separate steps because they are separate queries.
- `HotRank`. `heat[a]` and `ttl[a]` are the sorted set `hot:<minute>` of `a` minutes ago and
  the minutes it has left; `Tick` shifts both. ZINCRBY and EXPIRE are two steps, each of
  which may fail. `reader[r]` is ListHot: `read` adds up one bucket per step, counted back
  from the time taken at the start (`late` is how long ago that was), `hydrate` looks up one
  post per step, `liked` and `cached` stand before the query for the flags, `set` before
  SetJSON. The table `likes` does not change here; `Interaction` has its changes.
- `Bloom`. A call of Add loads a byte and stores it, once for each derived position;
  `raced` is the history of bytes two calls held at once.
- `Tokens`. A refresh token is its number in the order of signing; `parent` says what
  it was signed for. `call[r]` is the handler: `insert` between the look at the nickname and
  the INSERT, `parsed` before the look at the white list, `rotate` before the DEL of the old
  key, `list` before the SET of the new one, `revoke` before Logout's DEL. `told`, `given`,
  `spent`, `kept`, `unlisted` and `overlapped` are history: who was answered, which pairs
  reached a client, whose key was deleted, could not be deleted, could not be set, and
  which token two refreshes had past the check at once.
- `RateLimit`. Time is counted in ticks. `count` and `ends` are the minute keys and their
  ends, `window` the members of the user's set, as indices of `tries`, the history of its
  transactions. `Setting` is what `config.Load` makes of the file. A request carries the
  minute or the stamp of the API's clock and comes to Redis up to `MaxLate` later.
- Modules with `Mutant:` definitions keep, next to an operation, a faulty variant of
  it. No specification uses them; each shows a property that would notice the fault.

Outside the repository, and modelled from how the code uses it: InnoDB's row locks,
commit and rollback, RabbitMQ's confirms, redelivery and dead-lettering, the order
of frames on a connection, singleflight, Redis expiry.

## 3. Runs

| Run | Question | Instance and bounds |
|---|---|---|
| `interaction` | do the tables and the outbox agree | 2 users, 2 handlers, 1 post, 4 events: two full conflicts on a row |
| `worker` | is any event counted twice or lost, why is an entry stale, how many confirms are due | 2 workers that share 1 event, 1 reader, prefetch 2, any 2 faults, each kind once and the timeout twice; 0.56 million states |
| `pipeline` | does the whole implement `CountService`; is everything settled in the end | 1 user, 1 handler, 1 worker, 1 reader, a like and its unlike, batch 2, prefetch 1, one of crash, rejected publish, failed DEL; 0.73 million states |
| `post_cache` | how can an entry be stale; does a deleted post go; is a created one found | 1 process, 2 readers, 1 deleter, 2 counter updates, 1 crash, 1 lost DEL, false positives, a Create that fails, a lost bit; 0.38 million states |
| `hot_rank` | is a ranking deserved, no older than its buckets, and impersonal | 2 posts, a list of 1, a viewer and a guest, 4 minutes in the window, 1 minute of TTL |
| `bloom` | do two callers lose or invent a bit | 4 keys in 24 bits, shared bytes, a shared bit, a degenerate second hash; 0.55 million states |
| `social` | are the counters the degrees, why is an entry stale, does every request end | 2 users, 2 handlers: repeats, reversals, the mutual follow that deadlocks, a reader of each user |
| `feed_paging` | is each row shown once, in order; does paging end | 4 rows, three of one time, the older one with the largest id; limits below, at and above the bounds |
| `tokens` | how can a token yield two pairs, or none | 1 nickname, 2 people, 2 handlers, 3 pairs: a login and two rotations, or two branches; 0.6 million states |
| `rate_limit` | do more pass than may, is anyone refused for what is past | 2 handlers, 4 requests in 2 minutes of 2 ticks, a minute limit of 3 and, from a 0 in the file, a window limit of 2, delays of a tick, one repeated INCR; 2.1 million states |

`worker` is about one event in several hands at a time: events are counted by id and marked
by id, so the second one adds nothing to `ExactlyOnce` and `NoLoss` but the batch.
`pipeline` has the batch: a like and the unlike of one post suffice for every reordering of
a pair, and for a round that breaks off in the middle. `NoLoss` and `StaleCovered` name what
they do not hold under (a late confirm; a failed DEL or an overtaken reader), so that every
fault can stay in one run; the proofs cover what the bounds on faults leave out. The single
handler of `pipeline` commits in the order of the ids; commits out of that order are in
`interaction` (`LikeIdOrder`) and in `PipelineNonNegative`. `hot_rank` needs a window longer
than a bucket's life and a handler's delay together, as 60 is longer than 11; four minutes
are the fewest. In `rate_limit` a minute of two ticks has a first and a second half, and a
delay of one tick crosses its end; its key lives for three ticks, as the minute and a half
of the code; the clock stops at `MaxTime`, so the run does not look for deadlock. `MaxHeat`,
`MaxEvents`, `MaxVersion`, `MaxLost`, `MaxCrash`, `MaxPairs`, `MaxTime`, `MaxAsked`,
`MaxAgain` and `MaxLate` bound what grows for ever in the code. Posts do not interact
(`Net`, the cache key and the flight are per post), so one is enough; the proofs cover the
rest. Type invariants that are proved (`Interaction`, `Social`, `Bloom`, `RateLimit`) are
not run once more.

### Where the code and its text disagree

Each of these runs checks a claim of a comment or of the README and finds it refuted.

| Run | Claim | What happens |
|---|---|---|
| `comment_race` | `interaction_repo.go:119`: the re-read avoids the race | two deletions of one comment both enqueue -1 |
| `stale_confirm` | `mq.go:105`: not confirmed means not marked | a late confirm is taken for the next message, which is marked and then lost |

More consequences of the modelled code have no run of their own; they are the exceptions
that the properties name, and are listed as hazards:

- a flight that read a row before its delete fills the cache after the DEL, although
  `post_service.go:262` says that the entry disappears with the post (`OnlyOvertakenFills`
  has this as its exception, and `DeletedStaysGone` says that it ends);
- an older nil envelope answers 404 for a post just created (`post_service.go:144`;
  `CreatedIsFound` says that it ends);
- two Adds that hold one byte at once can lose a bit, although `bloom.go:5` promises that
  there are no false negatives (`bloom.go:81`; the exception of `NoFalseNegative`);
- a reader that has read the row before a count, and sets the entry after that count's DEL,
  leaves an old counter in the cache until its TTL ends, with no fault at all
  (`post_service.go:152` and `:162`; `overtaken` in `Worker`, and `EventuallySettled` says
  that it ends);
- one failed transaction puts a good event into the dead-letter queue, from where `RunDLQ`
  takes it with an automatic acknowledgement, logs it, and it is gone (`worker.go:129`,
  `worker.go:151`, `Nack`); if only the answer of the commit was lost, the event is counted
  and its DEL never comes (`worker.go:63`, `ApplyFails`);
- the hot list adds up "the last 60 minutes" (`feed_service.go:255`), but its buckets end
  after 11, for a "hot window of 10 minutes" (`cache.go:95`): heat between 11 and 60 minutes
  old is not counted (`HotIsRecent`);
- a worker whose connection is gone lives on and does nothing (`worker.go:134`,
  `cmd/worker/main.go:67`, `status = "cut"`);
- two confirm timeouts leave two late confirms, which block the client's reader, and
  deliveries stop (`mq.go:98`, `Deliver`; `ConfirmsOwed` says when);
- two refreshes that overlap both get a pair, although a refresh token is to be used
  once (`auth_service.go:142`; the exception of `OneSuccessor`);
- Logout deletes the token it is given and no other, where `README.md:106`,
  `auth_handler.go:91` and `auth_service.go:162` speak of logging out everywhere; access
  tokens stay good until they expire, and a refresh that was past the check leaves a pair
  behind (`SpentYieldsNothing` says that there is no more);
- a pair whose key could not be set is refused at its first use, where the log at
  `auth_service.go:64` speaks of a rotation that merely does not end old tokens (the
  exception of `GivenIsListed`);
- a limit of 0 does not turn the limit off, as `config.go:21` says: Load takes over only
  what is positive (`Setting`);
- a refused write does extend the window, though `ratelimit.go:51` says that it is not
  written (`RefusedForCause` counts refused tries for this reason).

### Fairness

`Pipeline!Fairness` asks that relay, broker and consumer of a worker do not all stand still
while one of them can go on (`Runs`): the relay's ticker fires and its loop has no other way
out, the broker answers and delivers, a delivery in hand is finished. It also asks that an
entry's TTL runs out. It promises no fault, no commit of the API, no end of a read, and no
restart: `docker-compose.yml` gives the worker no restart policy, and a process with a lost
connection does not die. So `EventuallySettled` excepts a worker that stays away from some
moment on, and a confirm that was late (`NeverLost` is what can happen then).
`PostCache!FairSpec` asks that flights end, that a handler that has written a row goes on to
its Add or its DEL, and that TTLs run out. The Add that loses a bit need not go on.
`Social!FairSpec` is strong for a handler's next statement: a row may be locked and freed
again and again, but InnoDB queues the waiters of a row; and weak for the victim of a
deadlock, which InnoDB detects. `FairPagingSpec` of `FeedPaging` only asks that the client
goes on to ask for pages.

## 4. Proofs

All proofs hold for any constants that satisfy the `ASSUME` of the module (bounds are
naturals, `outbox.id` identifies a row, hash sums are naturals, a minute key outlives its
minute and the slowest request).

- `InteractionType`, `InteractionLedger`, `InteractionComments`: `[]TypeOK` and
  `[](LikeLedger /\ CommentNeverOver)`.
  Neither is inductive: `Commit` changes table and outbox by something an earlier
  statement decided. `Books` records it: an open transaction's event says what its
  commit will do to the table (`LikeEvents`, `CommentEvents`), nobody else's
  transaction can change that row meanwhile (`LikeLocks`), and no id is given twice
  (`EventIds`, `CommentIds`). With it `Commit` adds one new event to the outbox and one
  row to the table, and `NetAdd` says what that does to the sum.
- `InteractionIdOrder`: `[]LikeIdOrder`. A prefix of the outbox by id is not a prefix in
  time, so the invariant speaks of what is certain to come as well: `Promised` is the
  outbox with the events of open unlikes, and `Kept` the likes that no open unlike removes.
  At every cut of the ids the promised events sum up to the kept likes at least
  (`Fits`): a new event has the largest id, and an event that is committed late was either
  promised, or is a like, which only adds.
- `InteractionHeat`: `[]HeatEarned`, since the handler that adds heat has committed.
- `WorkerType`, `WorkerExactlyOnce`: `[]TypeOK` and `[]ExactlyOnce`. `Holding` (a delivery
  in hand is unacknowledged) is needed because `Settle` takes the tail of a sequence.
  The counting argument is in `ApplyCounts` and `ProduceCounts`: the set of counted rows
  grows by the row whose delta is added, and a new row has an id no message has had.
- `WorkerConfirms`: `[]ConfirmsOwed`, with `Closed` (a lost channel carries nothing).
- `WorkerNoLoss`: `[]NoLoss`. What Publish relies on without saying it is `Asked`: an
  answer on the channel is about the row last written. It holds because nothing else is
  due there (`OneDue`, from `ConfirmsOwed` with no timeout). Then a row put aside has been
  accepted, and `SafeNext` follows it: the broker gives a message up only after it has been
  counted or refused (`Hands`: an acknowledgement is of the message in hand).
- `WorkerStale`: `[]StaleCovered`, for flights in any number of API processes. `Track(e)`
  leaves out the delivery whose DEL is done. The message whose count makes an entry, or a row
  in the hands of a flight, old is still on its track (`HandSafe`: also in a worker whose
  connection is gone), and leaves it at a DEL of that entry (`TrackNext`), which turns the
  flight's row into `missed`; or it is dead-lettered, as the one whose commit lost its answer.
- `PostCacheType`, `CacheAside`: `[]TypeOK`, and `[]OnlyOvertakenFills` with `Uncreated` (no
  row before Create). `PostCacheBloom`: `[]BloomComplete` under the assumption that there is
  one process; with two the post is missing in the other's filter. The lost bit is its
  exception, as it is in `OnlyRacesLoseBits`.
- `BloomType`, `OnlyRacesLoseBits`, `BloomOnlyTheirBits`: with any number of callers, the
  copy of a byte a caller holds is still current when it stores (`CopyCurrent`), outside the
  bytes that were raced for (`RacesSeen`). `SingleAdder` is the consequence for one caller at
  a time: every added key is found.
- `SocialType`, `SocialDegrees`: `[]TypeOK` and `[]Degrees`. `Commit` adds or removes an edge
  on the word of a statement that looked at the table earlier; `EdgeLocked` says that
  what it saw still holds, and that no second transaction is beyond that statement for
  the same edge. With it each counter moves by one exactly when its set of edges does.
  `SocialCache`: `[]StaleUserCovered`.
- `TokensType`, `TokensOneOwner`, `TokensOneSuccessor`, `TokensSpent`, `TokensGivenIsListed`:
  from one invariant. `InHand`: a handler's pair is nobody else's and not yet given;
  `OnlyGiven`: only given tokens are refreshed or deleted, so the SET of a new key never
  revives a deleted one (`NeverRelisted`); `Settled`: a token that has yielded a pair is
  about to be deleted, unless the DEL failed. `TokensSpent` is an action property.
- `RateLimitType`, `RateLimitMinute`, `RateLimitEarned`, `RateLimitSliding`,
  `RateLimitRefused`: `OnTime` bounds how late a request can come to its key, `KeyBound` that
  the key is still there, `Earned` counts the requests on the way with those counted, and
  `InWindow` says which tries are in the set (`Survivors`).

- `WorkerInOrder`: a row committed before another, with the smaller id, is counted before
  it, if there is one worker, no confirm is late and nothing is dead-lettered (`Orderly`:
  without each of the three the order is lost). `Ordered` follows a pair of rows through
  the batch, the wire, the queue and the unacknowledged deliveries: the later row is never
  in front (`Fetched`, `InLine`). Rounds that are broken off, crashes and requeues keep
  that, because a round is ordered by id and ends at its first failure, and because a
  row put aside has been accepted (`Calm` has this part of `NoLoss`).
- `PipelineApi`, `PipelineWorker`: each process, in the company of the other, is a behaviour
  of its own module. So what is proved of `Interaction` and `Worker` holds of `Pipeline`,
  and its proofs only combine. To the API what readers and worker do to a cache entry is
  `ChangeCache` (`EntryChanges`: one entry at most in each step); to the worker a deletion
  is a cache entry that goes.
- `PipelineCounts`: `[]QuiescentCounts`, from `LikeLedger` and `CommentNeverOver` of the API
  and `ExactlyOnce` of the worker, when the counted events are all there are.
- `PipelineImplements`: `Spec => ImplementsCountService`, the refinement, action by action.
  Only a `Commit` that changes `likes` and a commit of the consumer, answered or not, that
  settles a like's event are steps of `CountService`; `PInv` has what they need (`Books`:
  the event of a commit is the change of the row and has a new id; `Holding`: what is
  applied is in the outbox).
- `PipelineNonNegative`: `[]LikeCountNonNegative` for any number of users, posts and handlers,
  under the assumptions of `WorkerInOrder`. `Paired` gives every committed unlike a
  committed like of its own with a smaller id, which the row lock put there before it; the
  worker does not count the unlike before that like; so the pairing maps the counted
  unlikes one to one into the counted likes (`NetMatched`).
- `PagingType`, `PagingInOrder`, `PagingNothingSkipped`: with `Begun` (a client without a
  cursor has seen nothing; no row of its page is below the cursor) and `ToShow` (a row kept in
  the following feed has an author whom the query asks for). ORDER BY ... LIMIT is
  `First(S, n)`; that it is the n rows of least
  rank, each rank taken once, is `RankIs`, `RankTaken`, `FirstIs`. The order is total
  because no two rows have the same time and id (`PagingAssumption`).
- `HotType`, `HotOwnLikes`, `HotRecent`: from `HotInv`. `BucketsEnd`: the age of a bucket
  and what it has left are at most its TTL and a handler's delay together; `ResultOK`: what
  is kept for everybody has no flags; `ReaderOK`: flags are a reader's own at every point.
- `HotEarned`: `RankIsEarned`, an action property. `Tallied` is its invariant: what a reader
  has added up is at most what is in the buckets it has read, and with the buckets to come
  at least what was in the window at its start. It survives heat that comes in, and a minute
  that passes, because the reader goes on to count from the minute of its start. Sums over a
  window are a recursive function; the lemmas on them (`AddsExists`, `AddsGrow`, `SumAdds`)
  go by the least length at which they would fail (`Least`).

Every invariant and every action property that a passing run checks is the subject of one of
these theorems. What is only model-checked is liveness: `EventuallySettled`,
`DeletedStaysGone`, `CreatedIsFound`, `RequestsEnd` and `PagingEnds`. They rest on fairness,
that is on `ENABLED`, which the prover does not have.

Three theorems hold under an assumption about how the program is run, and not for every
constant: `PostCacheBloom` (one process), `SingleAdder` (one caller) and
`PipelineNonNegative` (above).

## 5. Plan

Done: all modules of the table above, and a theorem for every safety property of theirs.
Next, in this order:

1. Each run has the smallest instance in which its cases occur; with the safety properties
   proved, more states are worth spending on liveness alone: two handlers in `pipeline`,
   three users in `social`.
2. The safety part of the liveness properties: that a row which is not yet counted is always
   somewhere, as an invariant of `Worker` (`NoLoss` says it of the rows put aside).
3. The mode without Redis, and several API processes with their Bloom filters.

## 6. Not modelled

- Search (a read with a pattern), uploads (a file under a fresh name), profiles but for
  their list of posts, the web front end: they keep no state or only render it.
- Decoding and encoding of requests, formats and limits of inputs, logging, recovery from
  panics; of the configuration everything but the rate limits; migrations as scripts.
- The mode without Redis (`cache = nil`), in which Refresh accepts every signed token and
  nothing is limited or cached; `DelUserCache`, which has no callers.
- The Bloom filters of several API processes: a post made by one is unknown to the
  others, which answer 404 until they restart (`cmd/server/main.go:57`). `PostCache` can be
  instantiated with several processes; `BloomComplete` then fails, as it must.
- Two writes of a user with the same nanosecond stamp, which would share a member of the
  sorted set.
- A comment repeated by its author after an error (`interaction_service.go:113`): it is a
  comment like any other. How long a bucket without an end counts
  (`cache.go:92`): for the whole window, which follows from the window alone.
- Topology declarations, which are idempotent and happen before anything else. Redis and
  MySQL failing for good: their operations may fail, one by one.
