# A TLA+ model of GoToIM

GoToIM is a push and instant-messaging service in Go: *comets* hold the
clients' long connections, *logic* knows who is connected where, *routers*
deliver messages to users, *workers* (job) deliver what went through Kafka, and
*notify* is a business service that produces notifications. The modules here
model the parts whose correctness depends on interleavings, failures and
retries; TLC checks them on small instances, and TLAPS proves their invariants for
every instance.

All source paths below are relative to `src/`.

## 1. Inventory

| Component | State | Operations | What is hard | What makes it correct |
|---|---|---|---|---|
| Sequence allocator `internal/logic/service/seq.go` | the Redis counter `user_seq:{uid}`; per process and user a current and a prefetched block, the flag `reserving` and its channel | `Allocate`, the prefetch goroutine | blocks are fetched outside the mutex, replies get lost, processes restart, several processes serve one user | no number twice, increasing within a process, no caller waits for ever |
| Dispatch `internal/router/dispatch.go`, `ack.go` | the status hash `msg:{id}`, the attempt lock, the sync index, the offline queue, Kafka, the local spool | `RouteByUserResult`, `HandleACKWithDevice` | callers retry on any router; every step is a remote call that may fail after it took effect; the lock has a TTL | one attempt at a time, a success is a delivery, a status is true, acked is final |
| Idempotency cache `internal/router/idempotency.go` | 64 shards of hashes with expiry | `IsDuplicate`, `MarkSeen`, eviction | entries outlive or outrun Redis, collisions | what it suppresses is really finished |
| Spool replay `internal/router/spool_replay.go` | JSON files | `drainDir`, `replayRecord`, `moveToExpired` | partial success, order, batch limit | a spooled message comes back |
| Limiters and breaker `internal/router/ratelimit*.go`, `pkg/ratelimit`, `internal/notify/service/push_client.go` | token buckets, the breaker's state | `Allow`, `RecordSuccess`, `RecordFailure` | each bucket has its own lock; calls end after the breaker opened; the clock is set back | no more than the rate, open after enough failures |
| Bucket and rooms `internal/comet/bucket.go`, `room.go` | maps of keys, rooms and addresses under `cLock`; a doubly linked list, a counter and the flag `drop` per room under `rLock` | `Put`, `Del`, `ChangeRoom`, `DelRoom`, `Broadcast` | two locks, taken one after the other; Channel objects are pooled | every connection can be found, is in one list, is counted once |
| Connection `internal/comet/server_tcp.go`, `server_websocket.go`, `channel.go`, `ring.go`, `priority_queue.go` | the ring `CliProto`, two Go channels, the goroutines' positions | the reader and dispatcher loops, `Push`, `Signal`, `Close` | unsynchronised counters, blocking sends, reuse of the object | answers in order, no lost wake-up, cleanup ends, messages reach whom they were meant for |
| Sessions `internal/logic/service/session.go`, `online_router.go` | four Redis keys for each session, a local cache of a minute | `Create`, `Kick`, `Heartbeat`, `Disconnect`, `GetSessions` | get-then-delete, two connections of one device, late disconnects | a device has one session, an online user is not lost |
| Sync `internal/logic/service/sync.go`, `internal/logic/dao/redis_cursor.go` | the index `user_msgs:{uid}`, a cursor for each device | paging by sequence number, `AdvanceDeviceCursor` | late messages with small numbers, GET then SET | a device sees every message |
| Gateways seen by logic `internal/logic/logic.go`, `balancer.go`, `comet.go` | the balancer's nodes and totals, the pool of gRPC connections | `newNodes`, `Update`, `NodeAddrs`, broadcasts | clients and pushes run beside the update; dialling happens outside the lock | totals add up, no closed connection is used, none leaks |
| Message queue `internal/mq/kafka` | partition offsets, timers, pending batches | the consumer handler, dead letters, delays, the ACK batcher | offsets are marked and never committed; events arrive while the batcher closes | a marked message was handled, an accepted event is published |
| Worker `internal/worker` | retry counts, aggregators of rooms, queues of gateway clients | `push`, `checkRetry`, `pushproc`, the routines of `Comet` | timers, full queues, ambiguous produces, gateways that leave | a push at most once, a room in order, nothing marked is dropped silently |
| Outbox `internal/notify/service/outbox_*.go`, `notify_push_consumer.go` | `notification_outbox`, `notifications`, `notification_dlq` | relay, worker, push consumer, replay | leases, retries, duplicates, partial batches | every event is sent, or is in the dead letters |
| Orders `internal/notify/service/order_notify.go`, `purchase_order.go` | `orders`, `order_status_events`, `idempotency_keys` | create, change status, announce logistics | clients repeat requests; a request decides on a status it read before | one effect and one answer for each key, legal histories |
| Campaigns `internal/notify/service/campaign_batch_generator.go`, `flash_sale.go` | campaigns, audience targets and batches, approval requests | import, claim, generate, pause, cancel, retry, bulk recovery | generators share batches and crash; approvals race | one notification for each user, true counters, no change without approval |
| Acknowledgements `internal/notify/service/ack_bridge.go`, `internal/mq/kafka/ack_batcher.go` | ack rows, counters and policy verdict of a notification | HTTP ack, batcher, bridge, `RecordAckIdempotent` | counters from snapshots, batches that fail in the middle | a verdict is backed and stays, a marked event was answered |
| Chat `internal/notify/service/chat.go`, `store/chat.go` | conversations, members, messages | open, join, send, mark delivered and read | statement by statement, without a transaction | one conversation for each order, member counts, kept times |
| Libraries `pkg/time`, `pkg/snowflake`, `pkg/websocket`, `pkg/bufio`, `api/protocol` | timer heap, ID generator, buffers | | the mutex is released in the middle, the clock, split reads, thresholds | no timeout slept through, unique IDs, round trip |

How they interact: notify (or an HTTP caller) pushes through logic to a
router's `RouteByUser`. The router allocates a sequence number, tracks the
message in Redis, asks for the user's sessions and calls the comets'
`PushMsg`; what it cannot push goes to the offline queue and Kafka, from where a
worker pushes it. A comet's `PushMsg` finds the Channel in a bucket and
queues the message for the connection's dispatcher. The client's ACK travels
back through comet and logic to the router, which marks the message and
publishes an event that notify consumes. A client that comes back reads what it
missed from the index, by sequence number.

`PROJECT.json` lists the hazards of this code line by line, with the
properties that cover them.

## 2. Modules

| Module | Models | Used by |
|---|---|---|
| `SeqAllocator` | `seq.go` and the INCRBY of `dao/redis.go` | `MCSeqAllocator`, `FoundationProofs` |
| `Issuer` | nothing; the abstract specification of the allocators | `SeqAllocator` (`INSTANCE ... WITH`) |
| `Dispatch` | `RouteByUserResult` and everything it calls, the ACK, the worker, sync and spool replay as far as they touch the message | `MCDispatch`, `DispatchProofs` |
| `Delivery` | abstract: what the routers promise about a message | refined by `Dispatch` |
| `Bucket` | `bucket.go`, `room.go`, the pool of `channel.go` | `MCBucket`, `CometProofs` |
| `Connection` | the two goroutines of a connection and those who push to it | `MCConnection`, `CometProofs` |
| `Outbox` | notify's outbox table with its relay, push consumer and worker, as far as a row passes through them | `MCOutbox`, `OutboxProofs` |
| `Orders`, `Chat` | notify's orders and its support chat | `MCOrders`, `OrdersProofs` |
| `Acks` | acknowledgements: HTTP, batcher, topic, bridge, store | `MCAcks`, `AcksProofs` |
| `Campaigns` | audience batches, generators, bulk recovery with approvals | `MCCampaigns`, `CampaignsProofs` |
| `Sessions`, `Sync` | logic's sessions and offline sync | `MCSessions`, `MCLogic`, `SessionsProofs` |
| `Job` | the delivery worker and the consumer handler under it | `MCJob`, `OrdersProofs` |
| `Limits`, `Nodes` | IDs, token buckets and breaker; balancer and gateway pool | `MCFoundations`, `DispatchProofs` (`Limits`), `SessionsProofs` (`Nodes`) |
| `Timer` | the heap and the goroutine of `pkg/time` | `MCFoundations`, `CometProofs` |
| `Framing` | wire format and buffers | `MCFoundations`, `FoundationProofs` |

The `MC` modules name model values, assignments of callers to processes, and
symmetries. `Bucket`, `Connection`, `Outbox` and `Sessions` choose what takes
part in a behaviour at `Init` (`setup`, `clients`, `Groups`), out of a set that the `MC`
module gives; `MCOrders`, `MCLogic` and `MCFoundations` put modules that share no
state side by side and choose with `part` which one moves.

### SeqAllocator

One user; any number of processes (`Allocators`) and calling goroutines
(`Callers`). A critical section under `st.mu` is one step: `AllocateHit` is
`allocateLocked` with the start of a prefetch, `AllocateWait` and
`AllocateReserve` the two ways to go on after a miss, `ForegroundInstall` and
`PrefetchInstall` the sections after the Redis call. The Redis call itself is a
step between them (`reserveRange`); it may fail, before or after the counter
was incremented. `Cancel` is `ctx.Done()`. `Restart` takes a process's memory and
its calls away; the counter stays. `log` is a history of what was handed out.

### Dispatch

One message to one user; `Attempts` are the calls of `RouteByUserResult` for
it, on the router `Home[t]`. `pc[t]` goes through the function: lock
(`Begin`), the parts of `TrackMessage` (`IsDuplicate`, `AllowExisting`,
`AllocateSeq`, `TrackAtomic`, `AddUserMessage`), the limiter, `IsOnline`,
`directPush` one session at a time, `MarkDelivered`, and the two halves of
`reliableEnqueue`; then the deferred release. Each remote call may fail, with
or without effect. Around it: the ACK in two halves, spool replay and expiry,
the worker, the client's sync, cache expiry, crashes, and the TTL of the lock.
The kinds of fault are a constant, so that a run can ask what holds while, say,
Redis answers. Not modelled: the expiry of the Redis keys after 7 days, the
recorders and the second limiter, which no production code installs, and
`RouteByUserWithMode`, which has no caller.

### Bucket

Channel objects of the pool (`Channels`), keys, addresses, and Room objects
numbered as they are created (`made`); `rooms` maps a name to an
object, so that two objects of one name can exist, as in the code. Every
section under a lock is a step; a `pc` for each Channel stands for its
connection's goroutine. `in` is a history variable: the Room the Channel was
last inserted into and not removed from. `Members` walks the linked list: the
least set with the head that is closed under `next`.

### Connection

The reader (`Set`, `ReadTCP`, `Signal`, then `Del`, `Close`, `Disconnect`), the
dispatcher (`PopHigh`, `PopBlocks`, `PopNormal`, the ring loop `Get`, `Reply`,
`GetAdv`, and `Write`), and pushers with a task each: `PushMsg`, `Broadcast`
(under `cLock.RLock`), a kick, or the take-over of the key by `Bucket.Put`
(under `cLock.Lock`). `Ring.Set` reads `rp` while the dispatcher increments it
without synchronisation: the model lets it see any value since the last one
it saw. Counters are words modulo `WordSize`. `Connect` reuses the same
object for the next connection with new Go channels. The websocket
server's loops have the same control.

### Outbox

Rows of `notification_outbox`, with the status of their notification and their
dead letter. A transaction of `store.go` is one operator (`MarkOutboxSent`,
`MarkOutboxPublished`, `MoveOutboxToDLQ` ...) with the conditions of its WHERE
clauses; an action is one transaction, one publish or one push. With Kafka, a
relay claims every row that is due (`ClaimOutbox`) and publishes the rows of the
batch side by side; a producer's error may hide a message that is in the log.
Consumers take one message after the other (`Receive`: `checkTTLExpired`,
`claimEnvelope`), push, and record. The consumer group turns auto-commit off
and never calls `Commit`, so there is no offset to come back to: an error
skips the message and a new session (`Rebalance`) starts at the end. Without Kafka,
a worker goes through its batch one row at a time (`Turn`). Around them: locks
that lapse, TTLs that pass, failed transactions, crashes, ACKs, replay and
resolution of dead letters, and a campaign that is paused, resumed or cancelled.

`job[a][r]` is where actor `a` is with row `r`, and the retry count it read when it
claimed the row, which may be stale when it is used. `slips`, `fails` and `missed`
are histories that the properties compare with. Abstracted: `next_retry_at` (a
failed row may be claimed at once or later), the token bucket (any row of the
campaign may be skipped), the order of a batch, the ACK policies (any device), and
the fields of the row that nothing decides on.

### Orders and Chat

In `Orders` a request looks for its idempotency key, reads the order, and runs
one transaction (`CreateOrderNotificationOutbox`,
`ChangeOrderNotificationOutbox` ...), which fails as a whole on a duplicate key or
when the order no longer has the status that was read; after a conflict on the
key it looks for the stored answer again, `MaxReloads` times. `Chat` has a
step for each SQL statement, as `service/chat.go` uses no transaction. A failing
statement ends a request. IDs of messages and conversations are unique.

### Acks

`Calls` are HTTP requests, `Publishers` goroutines of a router whose events go
through the batcher's channel (`Enqueue`, `BatcherAdd`, `FlushOne`, and the drain after
`CloseBatcher`) to a topic; the bridge reads batches, looks each message up, records
it and marks the batch. Both ways end in `RecordAckIdempotent`: the row is
inserted, the count read and the verdict computed by `ackPolicySatisfied`, and
written. A conflict on the key, a lost commit and a new session of the group are
faults. The notification's policy and devices are chosen at `Init`.

### Campaigns

A generator claims a batch (by owner and lock), lists at most
`TargetBatchSize` targets, writes one notification for each (`Fresh` is the
WHERE clause that lets a target be taken once), and finishes the batch with its
counters, or dies. Operators create it, import its
audience, pause, resume and cancel the
campaign, send batches round again, and recover dead letters in bulk: above a
threshold only with a request that is approved and executed once.

### Sessions and Sync

`Sessions` has the four keys of a session with what is left of their lives,
each logic process's cache, and one call for each connection at a time:
`Connect` (`Create`, `Kick` of the device's former session, `AddSession`), `Heartbeat`,
`Disconnect`, and `GetSessions` for readers. The commands of one pipeline are
one step; a step may fail with or without effect. `Tick` passes time; with
`Timely` it waits for every open connection's heartbeat.

`Sync` has one user with one device. Routers take a number, write the hash
and then the index, so that indices appear late; pulls read a page, the
cursor, the hashes and the maximum one after the other; the push at coming
online advances the cursor with a GET and a SET. The client takes the reply's
`currentSeq` as its next `lastSeq`, as `examples/chat-demo/index.html` does. In
this repository `conn.go` passes no device when a connection comes online, so the
cursor is reached through the HTTP API only.

### Job

Two topics with a consumer each. A message is put off (delayed), dropped
(expired), handed to a gateway's queue by turn, to the room's aggregator or to
all gateways; an error is counted (`checkRetry`), and ends in the offline topic or
the dead letters; a mark is kept, a commit never happens, and a new session
starts at the end. The aggregator flushes on a full batch or on its signal timer,
which always fires before the idle timer, so that the latter is left out, as is the
write-ahead log, which is read only when the process starts.

### Framing, Timer, Limits and Nodes

`Framing` writes a script of packets through a bounded buffer into a stream that
may break, and reads it back in pieces of any size: plain TCP, frames of the
server, and masked, fragmented frames with control frames between them from a
client. A fixed-width field is one cell instead of its bytes, and the thresholds
of the frame length and of the buffers are constants. Clients are well formed.
The loop of `Write` is one step in closed form: one flush either leaves the buffer
empty, and the rest fits or goes out directly, or it sets the error that ends the
loop. The loop over the messages of a sync reply is a fold of `NextMessage`.

`Timer` is the heap of `pkg/time` with its free list; the goroutine releases the
mutex while it runs an expired entry's function. The loops of `up` and `down` are
not written as loops: `Path` is the set of positions the loop visits, the least one
that holds the start and is closed under its step, and `Sift` says what the swaps
add up to, the entry at the start ends where the loop breaks and every other entry
on the path moves one place back. The comparisons of the loop can be read off the
heap as it was, because each is between the entry that moves and entries that
have not been moved yet. `Limits` has the snowflake
generator, the token buckets with a lock each, and the push client's breaker,
all on a clock that may go back. `Nodes` has the goroutine of `newNodes`, which
updates balancer and pool one after the other, beside clients that ask for
servers and broadcasts that use the pool; weights are exact fractions where the
code has `float64`.

## 3. Runs

`pass` runs:

| Run | Instance | Shows |
|---|---|---|
| `seq_allocator` | 2 processes, 3 callers, blocks of 2, one fault | numbers are unique, the allocators implement `Issuer`, every call returns |
| `dispatch` | 2 routers, 2 attempts; 2 devices with one fault of any kind, or one device with two | delivered and acked are true, the attempts exclude each other unless a lock lapsed, one sender, nothing is lost while Redis answers, and the routers implement `Delivery`: caches never outrun Redis, no status goes back to unfinished, each caller gets one answer and it is backed |
| `bucket` | 3 Channels; 2 keys that are taken over and 2 rooms, or 1 room name and 3 Room objects | connections are found under key and room; lists and counters agree |
| `connection` | ring of 2 slots, counters modulo 4; 4 frames, a limiter and a broadcaster, or 2 connections on one object with a broadcaster and a take-over | answers in order, right recipient, the bucket is not blocked, cleanup ends, frames are answered |
| `outbox` | 1 row with 2 relays, 2 consumers, 3 faults; or 2 rows with 2 workers, 1 fault; 1 retry | a row is delivered once but for lost locks, answers and records, and its statuses are true; dead letters are not early, ACKs stay; a row that waits for ever had a message given up |
| `orders` | any 3 of 10 requests; or 2 chat goroutines | a key has one effect and one answer; histories are legal; conversations, members and messages agree |
| `acks` | any 3 of 3 calls and 3 publishers, 5 policies, one fault | verdicts are backed and stay; a marked event was answered; a closed batcher leaves nothing |
| `campaigns` | 2 targets in a batch of pages of 1, 2 generators, 1 operator, 4 commands, one fault | one notification for each target, completed batches are empty, counters are true, only approved requests act |
| `sessions` | 4 groups of connections on 2 processes, lives of 2 ticks; or 2 pulls over 2 messages | a live session is listed, only rivals and time take a session away; no cursor passes a message that was not sent |
| `job` | 3 pushes and a room, or a broadcast and 5 room messages; queues of 1, batches of 2, one fault | rooms in order, a push once, a marked push was handled |
| `foundations` | 9 scripts; 4 timer entries; 5 IDs; 3 requests; 6 calls; 6 fleets | round trip of frames, no timeout slept through, limits, balancer and pool |

`violation` run: `sessions_heartbeat` has clients that send every heartbeat in
time, and no faults. `ExpireSession` (`dao/redis.go:347`) renews `session:{sid}`
and `user_sessions:{uid}` but not `key_sid:{key}`; when that one lapses,
`Heartbeat` finds no session and renews nothing any more, and a life later the
session of a connected client is gone. `session.go:90` says that this does not
happen as long as the client keeps its heartbeat.

The passing runs state their properties with the ingredient left out that breaks
them (Redis answering, senders under the lock, no message given up), so that they
show that nothing else does. What the left-out ingredient does:

* `dispatch.go:503`: any error of `TrackMessage` is answered as a success
  (`SuccessIsDelivery`; `NothingLost` restricts it to behaviours in which Redis
  answers, and `Delivery` lets only a failing Redis lift the guard of "direct").
* `grpc/server.go:217`: `PushMsg` uses the Channel after the bucket's lock was
  released and may write to the next client of a recycled object; a task `"msg"` in
  `MCSetups` shows it.
* `consumer.go:156`: a consumer that reads a message before the relay has marked its
  row, or whose push fails, leaves the row `published` or `delivering` for ever;
  nothing has to fail for it.
* `ack.go:359`: `MarkDelivered` overwrites an earlier ACK (`AckedIsFinal`).
* `seq.go:148`: numbers of one user do not increase across processes, and sync
  passes a message that is indexed after a larger one was read (`excused`).
* `room.go:68`, `bucket.go:137`: `DelRoom` deletes by name and may take a newer room
  away, and a `ChangeRoom` into a room that is being dropped leaves `ch.Room` at
  the room the Channel has left (`lastLeaves` with moves).
* `server_tcp.go:244`: a handshake whose `room.Put` fails recycles a Channel that is
  still registered. `bucket.go:205`: after a take-over `ipCnts` drifts.
* `server_tcp.go:427`, `bucket.go:261`: with a kick the dispatcher leaves before its
  reader; the reader may block in `Signal`, and so may a `Broadcast` that holds
  `cLock` (`CleanedUp` and `BucketNotStuck` without `OnlyReaderCloses`).
* `server_tcp.go:296`: a frame above the rate limit stays in the ring and is
  written back with the next reply.
* `session.go:354`: the late `Disconnect` of a connection deletes the session of a
  successor with the same key. `session.go:202`: a cached list may be up to a minute
  older than the last `Create`.
* `store.go:1448`: with a resolver of devices, a later acknowledgement may write
  `pending` over `satisfied`. `ack_bridge.go:238`: an acknowledgement whose lookup
  fails is skipped and its event marked; `ack_bridge.go:266`: the bridge's key
  does not name the device, so that a second device's ACK counts as a repetition.
* `store.go:265`, `1494`: a replayed row that fails again keeps its dead letter
  resolved. An expired Kafka message leaves its row `published`. `immediate_dlq`
  is retried like `retry_then_dlq`.
* `handler/dlq.go:255`: the size of a bulk recovery is compared with the threshold
  on one list, and carried out on another one.

Met while reading, outside the models: `ack_bridge.go:124` closes `ready` again
at the second session of the group; `room_aggregator.go:81` replays a
length-prefixed log as one raw body; `websocket/conn.go:271` writes a Pong beside
the dispatcher's writes; `comet.go:159` reuses a connection by host name when the
address has changed; `logic.go:73` gives every logic process machine ID 0;
`dao/redis.go:152` shadows `err`; the process of the router never sets
`onlineRouter`, and that of logic never reads it.

**Bounds.** Two processes and three callers let a prefetch, a foreground
reservation and a foreign process interleave, and the calls use up a current
and a prefetched block of two. Two attempts on two routers with two devices
give every partial failure and every order of two attempts; two faults are enough
for a failed offline queue and a failed produce in one attempt. The constraint `Small`
of `MCDispatch` keeps the two apart: a behaviour with two devices in play has one
fault; the theorems of `DispatchProofs` have no such bound. Three Channels are
the fewest with a middle of a list and with two members leaving while a third one
joins. A ring of two slots with words modulo four wraps and fills within four
frames. A row with two relays and two consumers gives every order of two holders of
its lock, and three faults suffice for a lost lock, a new session and a replay in
one behaviour; one retry separates the first failure from the last. The second row
of `outbox` is there for batches, of which a failed transaction gives up the rest.
Three requests are a repetition and one that interferes with it. A page of one
target, or of one message, makes batches and pulls go on over several pages. A
life of two ticks lets a key that is renewed outlive one that is not. Queues of
one place fill. The frame thresholds lie between the sizes of the scripts'
packets, so that every form of the header occurs, and the buffers are smaller than
the largest packet. Every constant named `Max...` is a bound and a guard; `Small`
is the only constraint. The symmetries exchange Channels, keys, devices, actors and targets, and in
`dispatch` the two attempts together with their routers; no run with a liveness
property uses one.

**Deadlock** is not checked: callers, attempts and clients may stop, and the
bounds end every behaviour.

**Fairness.** `SeqAllocator` assumes weak fairness of each goroutine's steps
(the Go scheduler, and a Redis call that returns or fails), not of new calls,
cancellation or restart. `Connection` assumes it of the reader, the dispatcher
and the pushers once they have begun; a write to the socket ends because the
peer reads or the heartbeat timer closes the connection. Nobody is assumed to
send, push or disconnect. The other modules state safety only.

## 4. Proofs

The eight `...Proofs` modules prove what section 3 checks on small instances for
every value of the constants, from the assumptions on the constants that the
models state. A module of proofs may serve several models, which share no name:
`FoundationProofs` has `SeqAllocator` and `Framing`, `DispatchProofs` has `Dispatch`
and `Limits`, `OrdersProofs` has `Orders`, `Chat` and `Job`, `SessionsProofs` has
`Sessions`, `Sync` and `Nodes`, `CometProofs` has `Connection`, `Bucket` and
`Timer`.
Everywhere the argument is an inductive invariant
(`IInv`, or named after the model), of which the checked property is a part or a
consequence; the parts that were added to make it inductive follow.

*SeqAllocator.* The numbers a process may still give out are in its `current`,
`next` and freshly `fetched` blocks. The inductive invariant says that these
blocks, for all processes, are pairwise disjoint, lie within the Redis counter,
hold no number of the log, and within a process lie above all numbers it gave
out, with `current` before `next` and `fetched`; and that at most one goroutine
of a process is reserving (`OneReserver`). `Unique` alone is not inductive: it
says nothing of the numbers that are still in memory. The lemmas `StockShrinks`,
`StockGrows` and `StockServed` do the three ways in which that stock changes.
Theorems: `Typed`, `NoDuplicates`, `Monotonic`, `CounterBounds`,
`NoOrphanWaiter`, and `Refines`: with `counter <- redis` and `issued <- log` every
step of the allocators is one of `Issuer` or a stutter. An `AllocateHit` is an
`Issue`, because its number is in the process's stock and the stock is fresh and
above what the process gave out; a Redis call that takes effect is a `Reserve`.

*Dispatch.* `Holds`: an attempt in the protected section whose lock did not
lapse is the value of the lock, hence `Exclusive`. `Recorded`: status, cache
and events are backed by a device that was reached, hence `NoFalseDelivery` and
`CacheBehindRedis`. `Sole`: while nothing has gone wrong, a second attempt that is
past the duplicate check found the message unfinished, and whoever has pushed
either still holds the lock or has marked the message; hence `NoDoublePush`.
`Told`: while Redis answers, an answer "direct" or "queued" is backed by a device or
a Kafka record, and behind every "in progress", as behind a lock that is held,
there is an attempt that has such an answer or is still going to give one; hence
`NoSilentLoss`. The attempt that vouches may be one that vouched for nobody when
the other was refused, which is why `NothingLost` alone is not inductive.

`KeepsPromise` is the refinement of `Delivery`: with `state <- status`, `known <-
cache`, `has <- reached`, `handed <- kafka` and the answers of the attempts that have
returned, every step of an attempt, a router, the worker, sync or the spool is one of
`Delivery` or a stutter. `Delivery` has no lock, program point, queue or retry; its
guards say what a caller may rely on. A status becomes delivered or acked only when a
device has the message, and then never unfinished; a router remembers a message only
with such a status; records in Kafka stay; a call is refused only while, or after,
another one answers for itself; "direct" and "queued" are told with a device or a
record behind them, and nobody is told twice; a second sender needs trouble with Redis,
a crash or a lapsed lock. The guards name the faults that lift them, and a fault that is not
named (a push that times out, Kafka or the disk failing) lifts none. The invariant
needs one more part, `Replies`: an attempt has an answer when it has returned and never
earlier, "queued" has a record behind it whatever fails, whoever holds the lock was not
refused, and a spooled record had a caller.

*Limits.* Three invariants, one for each guard. `Minted`: the last ID lies below
the first of the generator's next millisecond, and unless it is waiting, not above
its present sequence number. `Metered`: what a bucket has let through is paid for by
its burst and the refills up to its last one, less the tokens left, and its debt is
what the clock was set back by since its latest reading; a request that refills and
one that takes are a lemma each, as both limiters make both. `Tripped`: the
breaker's count is that of the failures reported since the last success.

*Orders.* `Fenced`: a key's row names the request whose transaction committed, and
nobody else with that key has committed; `AnswersBacked`: a request that committed or
was answered has its rows; hence `Idempotent`. `Decided` and `Uncreated`: what a
request decided is a legal step from the status it read, and a transaction that finds
another status fails; hence `LegalHistory`, although the read is outside.

*Chat.* `KeysUnique` (a conversation is named by its ID and by its pair),
`RequestsBacked` (a request in the middle of its statements has the rows of those
before), `AnswersNamed`, `MessagesOwned` and `ReadKept`. Steps only add rows and never
change whose they are (`Grown`), under which all of these are kept.

*Job.* `OnePlace`: a push is at no more than one of the places on its way: with the
producer, unread in a topic, behind a timer, in a queue of its gateway's client,
sent. No step leaves it at two places; each is a map from the places after the step
to those before, under which different places come from different ones (`Moved`).
`PushesOnce` follows, and says more than what is counted at the end.
`RoomsInOrder` counts the messages between the signals of the queue (`Ordered`):
appending and taking the head shift these numbers alike. `MarksHandled`: a mark comes
with a hand-over, a move, a dead letter or a fault (`HandledAs`), and what has been
handed over stays so but for faults.

*Outbox.* Conditions on the row alone are not inductive, as an actor that lost its
lock keeps working. `Budget` counts: deliveries, and rights to deliver, which an actor
has that may still push or give the row back, and the row itself while it can be
claimed, are no more than one, and one more for each lock, answer or record that was
lost. `Held`: who works on a row has its lock unless something has slipped.
`Delivered`, `Tries`: statuses and every retry count, stale or not, are backed by
pushes and failed tries. `Waits`: a row that waits for a consumer has a message
unread, in work or given up. `Single`: a worker is past the claim with one row at a
time. They give `DeliveredOnce`, `DeadLetters`, `AcksStay` and `NoOtherStranding`.

*Acks.* `SnapsBacked`: the counter in any open transaction is backed by rows; then a
write of a stale one is, too (`CountersBacked`), and for the same reason a verdict once
reached stays (`SatisfactionStays`). For the bridge: its batch is what it has read and
not marked, without a gap (`Offsets`), and until something fails everything it has
looked up is answered or about to be recorded (`InWork`); hence `MarksAnswered`.
`CloseFlushes`: the drain ends on an empty queue.

*Campaigns.* `NotImported` and `InHand`: what a generator has in hand belongs to its
batch; with the WHERE clause `Fresh` a target is taken once, whoever else has it in
hand, too. `OwnerHasAll`: the owner that has listed everything and failed nowhere
has every pending target in hand; others may still work on the batch, but take
targets away only. `OwnerCounts`: the owner's count and the batch's together are no
more than the targets created. `RunsApproved`: an approved recovery runs under an
approval that is not withdrawn.

*Sessions.* `Named`: keys lead to sessions of their own device or connection only.
`Phases`: where a connection's call can be, given the connection. `Keeps`: from the
write of its keys on, a connection has its session, unless it lapsed or has a rival.
Hence `AlwaysListed` and `SessionKept`.

*Sync.* `Passed(n)`: everything up to `n` was handed over, or excused. Every number
the device or the server may go on from is `Passed`: the client's, the cursor, the
base of each pull. `PageOf` says of a page between its statements that it has no gap
with respect to the index as it was read; that it is the least such page comes from
the order of the numbers. `Accounted` then covers what a reply passes.

*Nodes.* `Open`: the open connections are those of the pool, and during an update
those of the map being built, or of the one being given up; the maps are one-to-one
and agree where both have a gateway (`Follows`), so that what `Update` closes is not
in the pool. `Balanced`: the totals are sums over the nodes. What `Sum` returns
cannot be shown by induction over sets here; the lemmas about it take a smallest
counterexample instead, which the library's well-ordering of `Nat` provides.

*Connection.* `Counters`, `Lagging`, `Kept`: the counters are the numbers of frames
modulo the word, the reader's view of the read counter is some earlier number that is
at most a ring behind, and the slots hold what is not passed; from `Size < WordSize`
and `WordSize % Size = 0` follows `RepliesInOrder`. `LockedRecipient` and
`LockedBucket` have a hypothesis, `Locking`: every pusher keeps the bucket's lock
while it uses the Channel, as `Broadcast` and `Put` do. `PushMsg` and the kick let go
of `cLock` before they send, and without `Locking` both properties are false, as
section 3 says.

*Bucket.* `Linked` relates each Channel to its neighbours, `Counted` the counter to
the members; for the walk, `Ordered` says that some numbering of the Channels
increases along `next`, so that no list runs in a circle, and a member with the least
rank that the walk misses has a predecessor that it does not miss: hence
`ListsHoldMembers`. `Found`, `Registered`, `Named`, `Company` give
`StaysReachable`. The hypothesis of both, `Orderly`, keeps apart what the code does not
get right together: in one behaviour either rooms lose their last member or members
move to other rooms. With both, `ChangeRoom` into a room that is being dropped leaves
`ch.Room` at the room the Channel has left.

*Timer.* `PathChain` is the lemma the heap rests on: when every step of a loop comes
nearer by a rank that tells positions apart, nothing on its path lies between a
position and the next one. Its induction is over nothing but the set `Path`: the
positions for which the statement holds from there on contain the start and are
closed. From it, sifting is a cycle of the path (`Cycle`, `SiftFacts`): a permutation of
the entries that keeps every index true. `UpFacts` and `DownFacts` then give the order:
`up` repairs a heap whose only fault is above one position (`OrderedAbove`), `down` turns
a fault around a position (`OrderedAround`, what `del` has after it put the last entry
into the gap) into one above it; hence `DelFacts` and `AddFacts`. `TimerInv` has the heap
ordered with true indices, an account of the entries (armed ones are held, free ones
are not, none is lost), and `Signalled`: while the goroutine waits with no signal
pending, the signal fires no later than the first entry expires. `Signalled` is
inductive only with the order of the heap, because `Add` and `Set` reset the signal only
when their entry has become the first, and with true indices, because that is read
from `td.index`. `TimeoutsInTime` is `InTime`, for every number of entries, every
delay and every interleaving.

*Framing.* `due` is the stream of all items handed over, and `mark[i]` where the
i-th ends in it (`Layout`); both exist in every state, so the invariant `FInv`
quantifies over them instead of carrying them as history variables. `Writes`: what
has gone out is a beginning of `due`, and as long as the connection stands, what has
gone out with the buffer is all of it. `Reads`: the read buffer is the part of `due`
from where the reader stands to what it has fetched. `Between` or `Within`: the
reader is at the mark after the packets it has returned, or in the next packet at a
place that `Stands` lists with all the reader knows there (the header of a TCP
packet, the length and flags of a frame). `Ends`: the reader met the end of the
stream only when everything was sent and returned or the connection broke, and gave
up only on a packet that it may refuse. `FramesIntact` is not inductive: it does not
say what the buffers hold. The lemmas below it are about strings of cells: the part
of a stream after more was appended (`PartGrown`), its cells (`PartThree`,
`CellAt`), and for the writer, that each operation appends what it is given and
nothing else (`Sound`, `Stream`). They give `FramingInvariance`, and with
`RoundTrip`, that what was encoded decodes to the same, `PacketsIntact`:
`FramesIntact` for every script with `Plain`, whose items are each one packet from a
server to its client, over TCP or in WebSocket frames: messages of any kind,
heartbeat replies, and raw batches over a WebSocket. All sizes, thresholds,
contents, and places at which the connection breaks or a read ends are arbitrary. Of
a sync reply, `Plain` asks that its body decodes to what was meant, as its list of
messages is encoded by recursion over data.

**Assumptions.** The proofs need a few facts that the code guarantees and the models
now assume by name: targets, consumers and workers, a bucket's pool, fleets and
routines are finite; connections, readers, relays, consumers and workers have
different names (the worker IDs differ in their prefix, "notify-relay-" and
"notify-push-"); the bridge's keys are not empty (they begin with "kafka-ack-");
groups are named "grp_..." and conversations "CHAT-...", and a customer 0 is
replaced before the store sees it; a fleet has an instance for each host name, the
key of the discovery; rates and bursts are not negative; a timer allocates one lot
of entries when it is made; what is produced are distinct messages, and neither the
aggregator's signal nor a batch is one; a heartbeat fits a packet and the buffers of
both ends (20 bytes, against 4096 and the 8192 of `comet/conf/conf.go:83`), and the
two flag values of a frame's length fit seven bits beside the lengths.

**Only model-checked.** Liveness (`CallsReturn`, `CleanedUp`, `Answered`), which is
beyond the prover; `HeartbeatKeeps`, which is false; and of `FramesIntact` the
scripts without `Plain`: clients with masked, fragmented messages and control
frames, and raw batches over TCP, one item of which is several packets, and the
decoding of sync replies. What these compute is defined by recursion over the data
(`FlattenSeq`, `FoldLeft`, `Xor`), for which there is no induction here.

## 5. Plan

1. An abstract specification of the outbox.
2. The idempotency cache with several messages, and spool replay with its order
   and batch limit.
3. The delivery reports of `store/delivery.go`, and the recorders of the router if
   they are ever installed.

## 6. Not modelled

HTTP and gRPC handlers that only decode and forward, configuration, metrics,
logging, tracing, service discovery, generated code, delivery reports and
queries, the simulator, the benchmarks and the examples. The recorders, the
merge policy and the state table of the router, which no production code
installs (the second rate limiter is not installed either, but modelled with the
first), room and broadcast routing, which loop over gateways, and
`RouteByUserWithMode`, which has no caller. Data (bodies, names, addresses) is
reduced to identities.
