------------------------------ MODULE Dispatch ------------------------------
(***************************************************************************)
(* Point-to-point delivery by the router (internal/router/dispatch.go,     *)
(* ack.go, spool_replay.go): RouteByUserResult, the call behind the gRPC   *)
(* method RouteByUser, together with the client's acknowledgement, the     *)
(* delivery worker, the client's sync and the replay of the local spool.   *)
(*                                                                         *)
(* One message for one user is modelled. Callers send it more than once:   *)
(* every attempt is one RouteByUserResult call, on the router process      *)
(* Home[t]. All that the attempts share is in Redis (the status hash, the  *)
(* attempt lock, the offline queue, the sync index) and in each router's   *)
(* idempotency cache. A Redis command, RPC or Kafka write is a step of its *)
(* own; only the best-effort repair of the index and a second read of the  *)
(* hash that has just been found are part of the step before them.         *)
(*                                                                         *)
(* Left out: the expiry of the Redis keys after 7 days, the record of a    *)
(* device's ACK, which nothing here reads, and limiterV2, stateRec and     *)
(* attemptRec, which no production code sets.                              *)
(***************************************************************************)
EXTENDS Naturals

CONSTANTS Routers,   \* the router processes
          Attempts,  \* the calls of RouteByUserResult for the message
          Home,      \* Home[t] is the router that serves t
          Devices,   \* the user's devices, one session each
          Faults,    \* the kinds of fault that may happen, see Kinds
          MaxFaults  \* bound: how many faults

\* redis: a command fails, applied or not. push: a PushMsg RPC fails, queued
\* by the comet or not. kafka: a produce fails, written or not. disk: the
\* spool cannot be written. crash: a router dies. lapse: the attempt lock's
\* TTL passes while its owner is still at work.
Kinds == {"redis", "push", "kafka", "disk", "crash", "lapse"}

ASSUME DispatchAssumption ==
    /\ "none" \notin Attempts
    /\ Home \in [Attempts -> Routers]
    /\ Faults \subseteq Kinds
    /\ MaxFaults \in Nat

VARIABLES
    status,   \* the field status of the hash msg:{id}
    indexed,  \* the message is in user_msgs:{uid}, which sync reads
    offline,  \* the message is in the zset offline:{uid}
    kafka,    \* the records in Kafka: the devices each is addressed to
    spool,    \* spool[r]: the records in r's local spool directory
    lock,     \* the holder of the key msg_attempt:{id}
    cache,    \* the routers whose idempotency cache holds the message
    pc,       \* pc[t]: where t is in RouteByUserResult
    todo,     \* todo[t]: sessions t has yet to push to
    failed,   \* failed[t]: failedSessions
    sent,     \* history: the attempts that had a push accepted
    offErr,   \* offErr[t]: offlineErr # nil
    result,   \* result[t]: what t returned
    acking,   \* the routers between the two halves of HandleACK
    reached,  \* the devices whose comet queued the message or that pulled it
    events,   \* the ACK events published to Kafka
    faults,   \* how many faults there have been
    seen,     \* history: the kinds of fault that have happened
    lapsed    \* history: the attempts whose lock expired under them

store == <<status, indexed, offline, kafka, spool, lock>>
local == <<cache, pc, todo, failed, offErr, result, acking>>
trace == <<sent, reached, events, faults, seen, lapsed>>
vars == <<store, local, trace>>

NoOne == "none"
Done == {"delivered", "acked"}

\* The program points at which t holds the attempt lock, unless it lapsed.
Section == {"duplicate", "existing", "allocate", "track", "index", "limit",
            "online", "push", "mark", "queue", "produce", "unlock"}
Pushing == {"push", "mark"}

\* A fault of kind k happens in this step.
Fault(k) ==
    /\ k \in Faults
    /\ faults < MaxFaults
    /\ faults' = faults + 1
    /\ seen' = seen \cup {k}

NoFault == UNCHANGED <<faults, seen>>

Init ==
    /\ status = "none"
    /\ indexed = FALSE
    /\ offline = FALSE
    /\ kafka = {}
    /\ spool = [r \in Routers |-> {}]
    /\ lock = NoOne
    /\ cache = {}
    /\ pc = [t \in Attempts |-> "idle"]
    /\ todo = [t \in Attempts |-> {}]
    /\ failed = [t \in Attempts |-> {}]
    /\ sent = {}
    /\ offErr = [t \in Attempts |-> FALSE]
    /\ result = [t \in Attempts |-> "none"]
    /\ acking = {}
    /\ reached = {}
    /\ events = {}
    /\ faults = 0
    /\ seen = {}
    /\ lapsed = {}

-----------------------------------------------------------------------------
(* The attempt lock *)

Goto(t, l) == pc' = [pc EXCEPT ![t] = l]

\* Return r and let the deferred unlockAttempt run.
Return(t, r) ==
    /\ result' = [result EXCEPT ![t] = r]
    /\ Goto(t, "unlock")

\* Return r without releasing the lock (or without having it).
ReturnLocked(t, r) ==
    /\ result' = [result EXCEPT ![t] = r]
    /\ Goto(t, "done")

\* BeginDeliveryAttempt: SET NX PX. Held by somebody else means success with
\* path in_progress; an error is returned, though the key may have been set.
BeginOverwrites(t) ==
    /\ pc[t] = "idle"
    /\ lock' = t
    /\ Goto(t, "duplicate")
    /\ NoFault
    /\ UNCHANGED <<status, indexed, offline, kafka, spool, cache, todo, failed, offErr, result, acking,
                   sent, reached, events, lapsed>>
Begin(t) ==
    /\ pc[t] = "idle"
    /\ \/ /\ lock = NoOne
          /\ lock' = t
          /\ Goto(t, "duplicate")
          /\ NoFault
          /\ UNCHANGED result
       \/ /\ lock # NoOne
          /\ ReturnLocked(t, "in_progress")
          /\ NoFault
          /\ UNCHANGED lock
       \/ /\ Fault("redis")
          /\ lock' \in IF lock = NoOne THEN {NoOne, t} ELSE {lock}
          /\ ReturnLocked(t, "error")
    /\ UNCHANGED <<status, indexed, offline, kafka, spool, cache, todo, failed, offErr, acking,
                   sent, reached, events, lapsed>>

\* The deferred release: a script that deletes the key only if it still holds
\* this attempt's token. A failure is logged and leaves the key to its TTL.
Unlock(t) ==
    /\ pc[t] = "unlock"
    /\ Goto(t, "done")
    /\ \/ lock' = (IF lock = t THEN NoOne ELSE lock) /\ NoFault
       \/ lock' = lock /\ Fault("redis")
    /\ UNCHANGED <<status, indexed, offline, kafka, spool, cache, todo, failed, offErr, result, acking,
                   sent, reached, events, lapsed>>

\* The key's TTL (deliveryAttemptLockTTL, 10 s) passes. Under an attempt that
\* still works this is a fault; otherwise its owner kept it or is gone.
ExpireLock ==
    /\ lock # NoOne
    /\ lock' = NoOne
    /\ \/ pc[lock] \in Section /\ Fault("lapse") /\ lapsed' = lapsed \cup {lock}
       \/ pc[lock] \notin Section /\ NoFault /\ UNCHANGED lapsed
    /\ UNCHANGED <<status, indexed, offline, kafka, spool, local, sent, reached, events>>

-----------------------------------------------------------------------------
(* TrackMessage. Whatever error it returns, the caller is told "grpc_direct" *)
(* and success.                                                              *)

AlreadyTracked(t) == Return(t, "direct")

\* A read of the status hash; it may fail.
Read(seenStatus) ==
    \/ seenStatus = status /\ NoFault
    \/ seenStatus = "fail" /\ Fault("redis")

\* ensureUserMessageIndex: repair the index if the hash exists; best effort.
EnsureIndex ==
    \/ indexed' = (indexed \/ status # "none")
    \/ "redis" \in Faults /\ UNCHANGED indexed

\* IsDuplicate: the cache of this router, then the status in Redis. A failed
\* read counts as "not a duplicate".
IsDuplicate(t) ==
    /\ pc[t] = "duplicate"
    /\ \/ Home[t] \in cache /\ AlreadyTracked(t) /\ EnsureIndex /\ NoFault
       \/ /\ Home[t] \notin cache
          /\ \E s \in {status, "fail"} :
                /\ Read(s)
                /\ IF s \in Done THEN AlreadyTracked(t) /\ EnsureIndex
                                 ELSE Goto(t, "existing") /\ UNCHANGED <<result, indexed>>
    /\ UNCHANGED <<status, offline, kafka, spool, lock, cache, todo, failed, offErr, acking,
                   sent, reached, events, lapsed>>

\* handleTrackedStatus on the status s that was read.
HandleTracked(t, s) ==
    /\ EnsureIndex
    /\ IF s \in Done
         THEN cache' = cache \cup {Home[t]} /\ AlreadyTracked(t)
         ELSE Goto(t, "limit") /\ UNCHANGED <<cache, result>>

\* allowExistingUnfinishedMessage: a message that is tracked but not finished
\* is dispatched again; a failed read counts as "not tracked".
AllowExisting(t) ==
    /\ pc[t] = "existing"
    /\ \E s \in {status, "fail"} :
          /\ Read(s)
          /\ IF s \in {"none", "fail"}
               THEN Goto(t, "allocate") /\ UNCHANGED <<cache, result, indexed>>
               ELSE HandleTracked(t, s)
    /\ UNCHANGED <<status, offline, kafka, spool, lock, todo, failed, offErr, acking,
                   sent, reached, events, lapsed>>

\* seqAlloc.Allocate: see SeqAllocator. Here it succeeds or fails.
AllocateSeq(t) ==
    /\ pc[t] = "allocate"
    /\ \/ Goto(t, "track") /\ NoFault /\ UNCHANGED result
       \/ Fault("redis") /\ AlreadyTracked(t)
    /\ UNCHANGED <<store, cache, todo, failed, offErr, acking, sent, reached, events, lapsed>>

\* TrackMessageAtomic: one script that writes the hash unless it exists. If
\* it exists, handleExistingTrackedMessage reads it, and that may fail too.
TrackAtomicOverwrite(t) ==
    /\ pc[t] = "track"
    /\ status' = "pending"
    /\ Goto(t, "index")
    /\ NoFault
    /\ UNCHANGED <<indexed, offline, kafka, spool, lock, cache, todo, failed, offErr, result, acking,
                   sent, reached, events, lapsed>>
TrackAtomic(t) ==
    /\ pc[t] = "track"
    /\ \/ /\ status = "none"
          /\ status' = "pending"
          /\ Goto(t, "index")
          /\ NoFault
          /\ UNCHANGED <<cache, result, indexed>>
       \/ /\ status # "none"
          /\ HandleTracked(t, status)
          /\ NoFault
          /\ UNCHANGED status
       \/ /\ Fault("redis")
          /\ status' \in {status, IF status = "none" THEN "pending" ELSE status}
          /\ AlreadyTracked(t)
          /\ UNCHANGED <<cache, indexed>>
    /\ UNCHANGED <<offline, kafka, spool, lock, todo, failed, offErr, acking,
                   sent, reached, events, lapsed>>

\* AddUserMessage after a first tracking.
AddUserMessage(t) ==
    /\ pc[t] = "index"
    /\ \/ indexed' = TRUE /\ Goto(t, "limit") /\ NoFault /\ UNCHANGED result
       \/ indexed' \in {indexed, TRUE} /\ Fault("redis") /\ AlreadyTracked(t)
    /\ UNCHANGED <<status, offline, kafka, spool, lock, cache, todo, failed, offErr, acking,
                   sent, reached, events, lapsed>>

-----------------------------------------------------------------------------
(* Routing *)

\* publishACK: best effort, the caller goes on either way.
Publish(e) == events' \in {events, events \cup {e}}

\* publishACK("server_received"), then the per-user limiter, which may refuse.
Limit(t) ==
    /\ pc[t] = "limit"
    /\ Publish("server_received")
    /\ \/ Goto(t, "online") /\ UNCHANGED result
       \/ Return(t, "error")
    /\ NoFault
    /\ UNCHANGED <<store, cache, todo, failed, offErr, acking, sent, reached, lapsed>>

\* IsOnline: the sessions of the user as the router knows them. The list may
\* be stale either way, and is empty when Redis cannot be read.
IsOnline(t) ==
    /\ pc[t] = "online"
    /\ \E S \in SUBSET Devices :
          /\ todo' = [todo EXCEPT ![t] = S]
          /\ Goto(t, IF S = {} THEN "queue" ELSE "push")
    /\ failed' = [failed EXCEPT ![t] = {}]
    /\ NoFault
    /\ UNCHANGED <<store, cache, offErr, result, acking, sent, reached, events, lapsed>>

\* directPush: one RPC with its own timeout for every session. A timeout does
\* not tell whether the comet has queued the message.
DirectPush(t) ==
    /\ pc[t] = "push"
    /\ \E d \in todo[t] :
          /\ todo' = [todo EXCEPT ![t] = @ \ {d}]
          /\ \/ /\ reached' = reached \cup {d}
                /\ sent' = sent \cup {t}
                /\ NoFault
                /\ UNCHANGED failed
             \/ /\ reached' \in {reached, reached \cup {d}}
                /\ failed' = [failed EXCEPT ![t] = @ \cup {d}]
                /\ Fault("push")
                /\ UNCHANGED sent
    /\ UNCHANGED <<store, cache, pc, offErr, result, acking, events, lapsed>>

\* The three outcomes of directPush: all sessions, some, or none.
Pushed(t) ==
    /\ pc[t] = "push"
    /\ todo[t] = {}
    /\ Goto(t, IF t \in sent THEN "mark" ELSE "queue")
    /\ NoFault
    /\ UNCHANGED <<store, cache, todo, failed, offErr, result, acking, sent, reached, events, lapsed>>

\* markDelivered: an unconditional HSET, tried three times, then the
\* "pushed" event. It precedes the enqueueing for the sessions that failed.
MarkForgotten(t) ==
    /\ pc[t] = "mark"
    /\ Publish("pushed")
    /\ IF failed[t] = {} THEN Return(t, "direct") ELSE Goto(t, "queue") /\ UNCHANGED result
    /\ NoFault
    /\ UNCHANGED <<store, cache, todo, failed, offErr, acking, sent, reached, lapsed>>
MarkDelivered(t) ==
    /\ pc[t] = "mark"
    /\ \/ /\ status' = "delivered"
          /\ cache' = cache \cup {Home[t]}
          /\ Publish("pushed")
          /\ IF failed[t] = {} THEN Return(t, "direct") ELSE Goto(t, "queue") /\ UNCHANGED result
          /\ NoFault
       \/ /\ status' \in {status, "delivered"}
          /\ Fault("redis")
          /\ Return(t, "error")
          /\ UNCHANGED <<cache, events>>
    /\ UNCHANGED <<indexed, offline, kafka, spool, lock, todo, failed, offErr, acking,
                   sent, reached, lapsed>>

-----------------------------------------------------------------------------
(* reliableEnqueue *)

\* AddToOfflineQueue: ZADD; a failure is remembered and does not stop.
AddOffline(t) ==
    /\ pc[t] = "queue"
    /\ \/ offline' = TRUE /\ NoFault /\ offErr' = [offErr EXCEPT ![t] = FALSE]
       \/ offline' \in {offline, TRUE} /\ Fault("redis") /\ offErr' = [offErr EXCEPT ![t] = TRUE]
    /\ Goto(t, "produce")
    /\ UNCHANGED <<status, indexed, kafka, spool, lock, cache, todo, failed, result, acking,
                   sent, reached, events, lapsed>>

\* writeLocalSpool; written says whether it succeeded.
Spool(t, written) ==
    IF written THEN spool' = [spool EXCEPT ![Home[t]] = @ \cup {failed[t]}]
               ELSE "disk" \in Faults /\ UNCHANGED spool

\* The Kafka write, addressed to the sessions that were not reached. If it
\* fails and the offline queue failed too, the message goes to the local
\* spool; if only the offline queue failed, the spool repairs it. After a
\* full enqueue (nothing was pushed) the attempt lock is kept.
ProduceUnreported(t) ==
    /\ pc[t] = "produce"
    /\ \/ kafka' = kafka \cup {failed[t]} /\ NoFault
       \/ kafka' = kafka /\ Fault("kafka")
    /\ IF t \in sent THEN Return(t, "queued") ELSE ReturnLocked(t, "queued")
    /\ UNCHANGED <<spool, status, indexed, offline, lock, cache, todo, failed, offErr, acking,
                   sent, reached, events, lapsed>>
Produce(t) ==
    /\ pc[t] = "produce"
    /\ \/ /\ kafka' = kafka \cup {failed[t]}
          /\ IF t \in sent THEN Return(t, "queued") ELSE ReturnLocked(t, "queued")
          /\ IF offErr[t] THEN \E w \in BOOLEAN : Spool(t, w) ELSE UNCHANGED spool
          /\ NoFault
       \/ /\ kafka' \in {kafka, kafka \cup {failed[t]}}
          /\ Fault("kafka")
          /\ Return(t, "error")
          /\ IF offErr[t] THEN \E w \in BOOLEAN : Spool(t, w) ELSE UNCHANGED spool
    /\ UNCHANGED <<status, indexed, offline, lock, cache, todo, failed, offErr, acking,
                   sent, reached, events, lapsed>>

-----------------------------------------------------------------------------
(* What goes on around the attempts *)

\* replayRecord of r's spool worker: offline queue and Kafka again, each may
\* fail; the file is removed when one of them succeeded.
ReplayRecord(r) ==
    /\ \E rec \in spool[r] :
          \E redisOK \in {TRUE, "redis" \notin Faults}, kafkaOK \in {TRUE, "kafka" \notin Faults} :
             /\ redisOK \/ kafkaOK
             /\ offline' = (offline \/ redisOK)
             /\ kafka' = IF kafkaOK THEN kafka \cup {rec} ELSE kafka
             /\ spool' = [spool EXCEPT ![r] = @ \ {rec}]
    /\ UNCHANGED <<status, indexed, lock, local, trace>>

\* moveToExpired: a record older than maxAge is put aside for good.
MoveToExpired(r) ==
    /\ \E rec \in spool[r] : spool' = [spool EXCEPT ![r] = @ \ {rec}]
    /\ UNCHANGED <<status, indexed, offline, kafka, lock, local, trace>>

\* DeliveryWorker.pushKeys for one key of a record.
WorkerPush(d) ==
    /\ \E rec \in kafka : d \in rec
    /\ d \notin reached
    /\ reached' = reached \cup {d}
    /\ UNCHANGED <<store, local, sent, events, faults, seen, lapsed>>

\* GetOfflineMessages: a device pulls what it missed. Only the index is read;
\* an acknowledged message is not returned but removed from the offline queue.
Sync(d) ==
    /\ indexed
    /\ \/ /\ status \in {"pending", "delivered"}
          /\ d \notin reached
          /\ reached' = reached \cup {d}
          /\ UNCHANGED offline
       \/ /\ status = "acked"
          /\ offline
          /\ offline' = FALSE
          /\ UNCHANGED reached
    /\ UNCHANGED <<status, indexed, kafka, spool, lock, local, sent, events, faults, seen, lapsed>>

\* HandleACKWithDevice, first half: the status, unconditionally.
AckStatusUnread(r) ==
    /\ r \notin acking
    /\ status' = "acked"
    /\ acking' = acking \cup {r}
    /\ NoFault
    /\ UNCHANGED <<indexed, offline, kafka, spool, lock, cache, pc, todo, failed, offErr, result,
                   sent, reached, events, lapsed>>
AckStatus(r) ==
    /\ reached # {}
    /\ r \notin acking
    /\ \/ status' = "acked" /\ acking' = acking \cup {r} /\ NoFault
       \/ status' \in {status, "acked"} /\ Fault("redis") /\ UNCHANGED acking
    /\ UNCHANGED <<indexed, offline, kafka, spool, lock, cache, pc, todo, failed, offErr, result,
                   sent, reached, events, lapsed>>

\* Second half: offline queue and event, best effort, then the cache.
AckCleanup(r) ==
    /\ r \in acking
    /\ acking' = acking \ {r}
    /\ offline' \in {FALSE, offline /\ "redis" \in Faults}
    /\ Publish("acked")
    /\ cache' = cache \cup {r}
    /\ UNCHANGED <<status, indexed, kafka, spool, lock, pc, todo, failed, offErr, result,
                   sent, reached, faults, seen, lapsed>>

\* The cached entry expires (entryTTL) or is evicted.
Forget(r) ==
    /\ r \in cache
    /\ cache' = cache \ {r}
    /\ UNCHANGED <<store, pc, todo, failed, offErr, result, acking, trace>>

\* A router dies: its memory and its calls are gone, their callers get an
\* error; Redis, Kafka and the spool directory stay.
Crash(r) ==
    /\ Fault("crash")
    /\ cache' = cache \ {r}
    /\ acking' = acking \ {r}
    /\ result' = [t \in Attempts |->
                    IF Home[t] = r /\ pc[t] \in Section THEN "error" ELSE result[t]]
    /\ pc' = [t \in Attempts |->
                    IF Home[t] = r /\ pc[t] \in Section THEN "done" ELSE pc[t]]
    /\ UNCHANGED <<store, todo, failed, offErr, sent, reached, events, lapsed>>

-----------------------------------------------------------------------------

Step(t) ==
    \/ Begin(t)
    \/ IsDuplicate(t)
    \/ AllowExisting(t)
    \/ AllocateSeq(t)
    \/ TrackAtomic(t)
    \/ AddUserMessage(t)
    \/ Limit(t)
    \/ IsOnline(t)
    \/ DirectPush(t)
    \/ Pushed(t)
    \/ MarkDelivered(t)
    \/ AddOffline(t)
    \/ Produce(t)
    \/ Unlock(t)

RouterStep(r) ==
    \/ AckStatus(r)
    \/ AckCleanup(r)
    \/ ReplayRecord(r)
    \/ MoveToExpired(r)
    \/ Forget(r)
    \/ Crash(r)

Next ==
    \/ \E t \in Attempts : Step(t)
    \/ \E r \in Routers : RouterStep(r)
    \/ \E d \in Devices : WorkerPush(d) \/ Sync(d)
    \/ ExpireLock

Spec == Init /\ [][Next]_vars

-----------------------------------------------------------------------------
(* Properties *)

TypeOK ==
    /\ status \in {"none", "pending"} \cup Done
    /\ indexed \in BOOLEAN
    /\ offline \in BOOLEAN
    /\ kafka \subseteq SUBSET Devices
    /\ spool \in [Routers -> SUBSET SUBSET Devices]
    /\ lock \in Attempts \cup {NoOne}
    /\ cache \subseteq Routers
    /\ pc \in [Attempts -> {"idle", "done"} \cup Section]
    /\ todo \in [Attempts -> SUBSET Devices]
    /\ failed \in [Attempts -> SUBSET Devices]
    /\ sent \subseteq Attempts
    /\ offErr \in [Attempts -> BOOLEAN]
    /\ result \in [Attempts -> {"none", "in_progress", "direct", "queued", "error"}]
    /\ acking \subseteq Routers
    /\ reached \subseteq Devices
    /\ events \subseteq {"server_received", "pushed", "acked"}
    /\ faults \in Nat
    /\ seen \subseteq Kinds
    /\ lapsed \subseteq Attempts

InSection(t) == pc[t] \in Section

\* Two attempts work on the message at the same time only if the lock of one
\* of them has expired under it: BeginDeliveryAttempt excludes the others,
\* and the release never frees somebody else's lock.
OneAttempt ==
    \A t, u \in Attempts \ lapsed : InSection(t) /\ InSection(u) => t = u

\* As long as Redis answers, no router dies and no lock lapses, at most one
\* attempt gets the message accepted by a comet directly, however often and
\* on whatever routers the caller tries.
SingleSender ==
    seen \cap {"redis", "crash", "lapse"} = {} => \A t, u \in sent : t = u

\* A message counts as delivered or acknowledged, in Redis, in a router's
\* cache or in a published event, only if some device really has it.
DeliveredIsReal ==
    status \in Done \/ cache # {} \/ events \cap {"pushed", "acked"} # {} => reached # {}

\* A cache entry never outruns Redis: what one router skips as already
\* processed is finished for every router.
CacheSound == cache # {} => status \in Done

Finished == \A t \in Attempts : ~ InSection(t)
Attempted == \E t \in Attempts : pc[t] = "done"
AllSucceeded == \A t \in Attempts : pc[t] = "done" => result[t] # "error"

\* When everybody who sent the message was told that it succeeded, a device
\* has it or it is in Kafka.
SuccessIsDelivery ==
    Finished /\ Attempted /\ AllSucceeded => reached # {} \/ kafka # {}

\* The same for every behaviour in which Redis answers, whatever else fails:
\* reliableEnqueue reports a message that no path has taken.
NothingLost == "redis" \notin seen => SuccessIsDelivery

\* What the callers have been told, and who has called.
answers == [t \in Attempts |-> IF pc[t] = "done" THEN result[t] ELSE "none"]
callers == {t \in Attempts : pc[t] # "idle"}

\* The routers keep the promise of Delivery: through retries on other routers,
\* refused, lost or late replies, dying routers and the spool, no status goes
\* back or outruns the devices, no cache outruns a status, no message leaves
\* Kafka, and every caller gets one answer that is backed.
Promise == INSTANCE Delivery WITH Senders <- Attempts, state <- status, known <- cache,
    has <- reached, handed <- kafka, begun <- callers, told <- answers, trouble <- seen
IsDelivery == Promise!Spec

\* Acknowledged is final.
AckedIsFinal == [][status = "acked" => status' = "acked"]_vars

=============================================================================
