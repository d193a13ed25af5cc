-------------------------------- MODULE Job ---------------------------------
(* The delivery worker (job): two consumers read the online and the offline *)
(* topic and hand messages to queues of gateways, to the aggregator of a    *)
(* room, or to everybody; routines of the gateways' clients empty the       *)
(* queues. What cannot be handed on is counted, moved to the offline topic  *)
(* or dead-lettered. Offsets are marked and never committed, so that a new  *)
(* session begins at the end of its topic.                                  *)
EXTENDS Integers, Sequences, FiniteSets, Functions

CONSTANTS
    Feeds,          \* a set of [Topics -> Seq(messages)], what is produced in time
    Kind,           \* [messages -> {"push", "room", "all", "bad"}]
    ServerOf,       \* [messages -> Servers], for pushes
    Transient,      \* messages with delivery mode 1
    Delayed,        \* messages with goim_delayed_until
    Mortal,         \* messages with a TTL
    Servers,        \* gateways
    Routines,       \* RoutineSize routines for each, 0 .. n - 1
    RoutineChan,    \* capacity of a routine's queue (1024)
    Batch,          \* messages of a room that are sent together (20)
    MaxRetries,     \* 3
    MaxFaults       \* bound: failed calls, sessions, restarts, gateways lost

Topics == {"online", "offline"}
Msgs == UNION {Range(f[t]) : f \in Feeds, t \in Topics}

Ready == "roomReadyProto"

\* What is produced are distinct messages, none of which is the signal of an
\* aggregator or a batch of messages.
ASSUME JobAssumption ==
    /\ \A f \in Feeds : /\ f \in [Topics -> Seq(Msgs)]
                        /\ \A t, u \in Topics : \A i \in DOMAIN f[t], j \in DOMAIN f[u] :
                              f[t][i] = f[u][j] => t = u /\ i = j
    /\ \A m \in Msgs : Kind[m] \in {"push", "room", "all", "bad"} /\ ServerOf[m] \in Servers
    /\ Ready \notin Msgs /\ \A m \in Msgs : m \notin Seq(Msgs)
    /\ IsFiniteSet(Routines) /\ Routines # {} /\ Routines = 0..Cardinality(Routines) - 1
    /\ RoutineChan \in Nat \ {0} /\ Batch \in Nat \ {0} /\ MaxRetries \in Nat \ {0}
    /\ MaxFaults \in Nat

VARIABLES
    feed,       \* what is still to be produced
    log,        \* the topics
    next,       \* how far the session of a consumer has read
    timers,     \* delayed messages that wait, with their topic
    marked,     \* messages marked, with their topic
    retries,    \* retry_cnt:{topic}:{partition}:{offset}
    dlq,        \* the dead-letter topic
    pool,       \* gateways the worker is connected to
    turn,       \* pushChanNum and roomChanNum of a gateway's client
    queue,      \* its queues: of a routine for pushes and for rooms, and for all
    sent,       \* history: what a gateway was sent
    room,       \* the aggregator of the room: its state, queue and buffer
    accepted,   \* history: messages the aggregator took
    flushed,    \* history: messages it has broadcast
    faults

consumers == <<feed, log, next, timers, marked, retries, dlq>>
clients == <<pool, turn, queue, sent>>
rooms == <<room, accepted, flushed>>
jobVars == <<consumers, clients, rooms, faults>>

NoQueues == [push |-> [i \in Routines |-> <<>>], room |-> [i \in Routines |-> <<>>], all |-> <<>>]
NoRoom == [state |-> "none", ch |-> <<>>, buf |-> <<>>, armed |-> FALSE]

JobInit ==
    /\ feed \in Feeds
    /\ log = [t \in Topics |-> <<>>]
    /\ next = [t \in Topics |-> 0]
    /\ timers = {} /\ marked = {}
    /\ \E n \in {0, MaxRetries - 1} : retries = [t \in Topics |-> [m \in Msgs |-> n]]
    /\ dlq = <<>>
    /\ pool = Servers
    /\ turn = [s \in Servers |-> [push |-> 0, room |-> 0]]
    /\ queue = [s \in Servers |-> NoQueues]
    /\ sent = [s \in Servers |-> {}]
    /\ room = NoRoom
    /\ accepted = <<>> /\ flushed = <<>>
    /\ faults = 0

Fault == faults < MaxFaults /\ faults' = faults + 1
Size == Cardinality(Routines)

-----------------------------------------------------------------------------
(* The queues of the gateways' clients                                      *)

(* cometClient.push and broadcastRoom take the routines in turn, and fail   *)
(* when the queue of the next one is full. The turn advances all the same.  *)
NextOf(s, kind) == (turn[s][kind] + 1) % Size
Fits(s, kind) == Len(queue[s][kind][NextOf(s, kind)]) < RoutineChan
Turned(s, kind) == [turn EXCEPT ![s][kind] = NextOf(s, kind)]

(* CometClientPool.BroadcastRoom and Broadcast report no error. *)
BroadcastRoom(batch) ==
    /\ queue' = [s \in Servers |->
          IF s \in pool /\ Fits(s, "room")
          THEN [queue[s] EXCEPT !.room[NextOf(s, "room")] = Append(@, batch)] ELSE queue[s]]
    /\ turn' = [s \in Servers |->
          IF s \in pool THEN [turn[s] EXCEPT !.room = NextOf(s, "room")] ELSE turn[s]]

Broadcast(m) ==
    queue' = [s \in Servers |->
        IF s \in pool /\ Len(queue[s].all) < Size THEN [queue[s] EXCEPT !.all = Append(@, m)] ELSE queue[s]]

(* One item is taken from a queue; the call may fail, which is logged. *)
Send(s, i) ==
    /\ s \in pool
    /\ \E kind \in {"push", "room", "all"} :
          LET q == IF kind = "all" THEN queue[s].all ELSE queue[s][kind][i] IN
          /\ q # <<>>
          /\ queue' = [queue EXCEPT ![s] =
                IF kind = "all" THEN [@ EXCEPT !.all = Tail(q)] ELSE [@ EXCEPT ![kind][i] = Tail(q)]]
          /\ \/ sent' = [sent EXCEPT ![s] = @ \cup {Head(q)}] /\ UNCHANGED faults
             \/ Fault /\ UNCHANGED sent
    /\ UNCHANGED <<consumers, pool, turn, rooms>>

(* A gateway that is no longer announced takes its queues along. *)
UpdateComets(s) ==
    /\ \/ s \in pool /\ Fault /\ pool' = pool \ {s} /\ queue' = [queue EXCEPT ![s] = NoQueues]
       \/ s \notin pool /\ pool' = pool \cup {s} /\ UNCHANGED <<queue, faults>>
    /\ turn' = [turn EXCEPT ![s] = [push |-> 0, room |-> 0]]
    /\ UNCHANGED <<consumers, sent, rooms>>

-----------------------------------------------------------------------------
(* The consumers                                                            *)

Produce(t) ==
    /\ feed[t] # <<>>
    /\ log' = [log EXCEPT ![t] = Append(@, Head(feed[t]))]
    /\ feed' = [feed EXCEPT ![t] = Tail(@)]
    /\ UNCHANGED <<next, timers, marked, retries, dlq, clients, rooms, faults>>

Mark(t, m) == marked' = marked \cup {<<t, m>>}

(* dlq.Send: only the worker of the offline topic has a dead-letter queue.  *)
DeadLetter(t, m) ==
    \/ t = "offline" /\ dlq' = Append(dlq, m) /\ Mark(t, m) /\ UNCHANGED faults
    \/ t = "offline" /\ Fault /\ UNCHANGED <<dlq, marked>>
    \/ t = "online" /\ Mark(t, m) /\ UNCHANGED <<dlq, faults>>

(* EnqueueToTopic(offline): done, failed, or done and reported as failed. *)
MoveToOffline(t, m) ==
    \/ log' = [log EXCEPT !["offline"] = Append(@, m)] /\ Mark(t, m) /\ UNCHANGED faults
    \/ /\ Fault
       /\ log' = [log EXCEPT !["offline"] = Append(@, m)] \/ UNCHANGED log
       /\ UNCHANGED marked

\* A push that went well is counted like one that failed.
checkRetryAlways(t, m, ok) ==
    LET n == retries[t][m] + 1 IN
    /\ retries' = [retries EXCEPT ![t][m] = n]
    /\ \/ n < MaxRetries /\ UNCHANGED <<log, marked, dlq, faults>>
       \/ n >= MaxRetries /\ t = "online" /\ MoveToOffline(t, m) /\ UNCHANGED dlq
       \/ n >= MaxRetries /\ t = "offline" /\ DeadLetter(t, m) /\ UNCHANGED log
checkRetry(t, m, ok) ==
    LET n == retries[t][m] + 1 IN
    \/ ok /\ Mark(t, m) /\ UNCHANGED <<log, retries, dlq, faults>>
    \/ ~ok /\ Fault /\ UNCHANGED <<log, retries, dlq, marked>>
    \/ /\ ~ok
       /\ retries' = [retries EXCEPT ![t][m] = n]
       /\ \/ n < MaxRetries /\ UNCHANGED <<log, marked, dlq, faults>>
          \/ n >= MaxRetries /\ t = "online" /\ MoveToOffline(t, m) /\ UNCHANGED dlq
          \/ n >= MaxRetries /\ t = "offline" /\ DeadLetter(t, m) /\ UNCHANGED log

\* Every message is dropped when it cannot be handed on.
handlePushResultDropping(t, m, ok) == Mark(t, m) /\ UNCHANGED <<log, retries, dlq, faults>>
handlePushResult(t, m, ok) ==
    \/ ~ok /\ m \in Transient /\ Mark(t, m) /\ UNCHANGED <<log, retries, dlq, faults>>
    \/ (ok \/ m \notin Transient) /\ checkRetry(t, m, ok)

pushKeys(t, m) ==
    LET s == ServerOf[m] IN
    /\ \/ /\ s \in pool /\ Fits(s, "push")
          /\ queue' = [queue EXCEPT ![s].push[NextOf(s, "push")] = Append(@, m)]
          /\ turn' = Turned(s, "push")
          /\ handlePushResult(t, m, TRUE)
       \/ /\ s \in pool /\ ~Fits(s, "push")
          /\ turn' = Turned(s, "push")
          /\ handlePushResult(t, m, FALSE)
          /\ UNCHANGED queue
       \/ s \notin pool /\ handlePushResult(t, m, FALSE) /\ UNCHANGED <<queue, turn>>
    /\ UNCHANGED <<pool, sent, rooms>>

(* getRoom makes the aggregator when there is none in the map, and the map  *)
(* keeps one whose routine has ended.                                       *)
PushRoom(t, m) ==
    LET r == IF room.state = "none" THEN [NoRoom EXCEPT !.state = "running", !.armed = TRUE] ELSE room
        fits == Len(r.ch) < 2 * Batch IN
    /\ room' = IF fits THEN [r EXCEPT !.ch = Append(@, m)] ELSE r
    /\ accepted' = IF fits THEN Append(accepted, m) ELSE accepted
    /\ handlePushResult(t, m, fits)
    /\ UNCHANGED <<clients, flushed>>

processMessage(t, m) ==
    \/ Kind[m] = "push" /\ pushKeys(t, m)
    \/ Kind[m] = "room" /\ PushRoom(t, m)
    \/ Kind[m] = "all" /\ Broadcast(m) /\ handlePushResult(t, m, TRUE) /\ UNCHANGED <<pool, turn, sent, rooms>>
    \/ Kind[m] = "bad" /\ Mark(t, m) /\ UNCHANGED <<log, retries, dlq, faults, clients, rooms>>

(* A message is handled, or found to have outlived its TTL. *)
Due(t, m) ==
    \/ processMessage(t, m)
    \/ m \in Mortal /\ DeadLetter(t, m) /\ UNCHANGED <<log, retries, clients, rooms>>

ConsumeClaim(t) ==
    LET m == log[t][next[t] + 1] IN
    /\ next[t] < Len(log[t])
    /\ next' = [next EXCEPT ![t] = @ + 1]
    /\ \/ Due(t, m) /\ UNCHANGED timers
       \/ /\ m \in Delayed
          /\ timers' = timers \cup {<<t, m>>}
          /\ UNCHANGED <<log, marked, retries, dlq, clients, rooms, faults>>
    /\ UNCHANGED feed

processDueMessage(t, m) ==
    /\ <<t, m>> \in timers
    /\ timers' = timers \ {<<t, m>>}
    /\ Due(t, m)
    /\ UNCHANGED <<feed, next>>

(* A new session: the timers of the old one find it ended. *)
Rebalance(t) ==
    /\ Fault
    /\ next' = [next EXCEPT ![t] = Len(log[t])]
    /\ timers' = {x \in timers : x[1] # t}
    /\ UNCHANGED <<feed, log, marked, retries, dlq, clients, rooms>>

Restart ==
    /\ Fault
    /\ next' = [t \in Topics |-> Len(log[t])]
    /\ timers' = {}
    /\ queue' = [s \in Servers |-> NoQueues]
    /\ turn' = [s \in Servers |-> [push |-> 0, room |-> 0]]
    /\ room' = NoRoom
    /\ accepted' = <<>> /\ flushed' = <<>>
    /\ UNCHANGED <<feed, log, marked, retries, dlq, pool, sent>>

-----------------------------------------------------------------------------
(* The aggregator of the room                                               *)

SignalFires ==
    /\ room.state = "running" /\ room.armed
    /\ room' = [room EXCEPT !.armed = FALSE,
                            !.ch = IF Len(@) < 2 * Batch THEN Append(@, Ready) ELSE @]
    /\ UNCHANGED <<consumers, clients, accepted, flushed, faults>>

\* The buffer is used again with what it holds.
AfterFlushKept(buf) == buf
AfterFlush(buf) == <<>>

(* A message joins the buffer, which is broadcast when it is full or a      *)
(* second old, or when the signal comes. A signal that finds nothing ends   *)
(* the routine.                                                             *)
PushprocTake ==
    LET p == Head(room.ch)
        buf == IF p = Ready THEN room.buf ELSE Append(room.buf, p) IN
    /\ room.state = "running" /\ room.ch # <<>>
    /\ \/ /\ p = Ready /\ room.buf = <<>>
          /\ room' = [room EXCEPT !.state = "exited", !.ch = Tail(@), !.armed = FALSE]
          /\ UNCHANGED <<queue, turn, flushed>>
       \/ /\ p # Ready /\ (Len(buf) = 1 \/ Len(buf) < Batch)
          /\ room' = [room EXCEPT !.ch = Tail(@), !.buf = buf, !.armed = @ \/ Len(buf) = 1]
          /\ UNCHANGED <<queue, turn, flushed>>
       \/ /\ buf # <<>> /\ (p = Ready \/ Len(buf) > 1)
          /\ BroadcastRoom(buf)
          /\ flushed' = flushed \o buf
          /\ room' = [room EXCEPT !.ch = Tail(@), !.buf = AfterFlush(buf), !.armed = TRUE]
    /\ UNCHANGED <<consumers, pool, sent, accepted, faults>>

JobNext ==
    \/ \E t \in Topics : \/ Produce(t) \/ ConsumeClaim(t) \/ Rebalance(t)
                         \/ \E m \in Msgs : processDueMessage(t, m)
    \/ \E s \in Servers : UpdateComets(s) \/ \E i \in Routines : Send(s, i)
    \/ SignalFires \/ PushprocTake \/ Restart

JobSpec == JobInit /\ [][JobNext]_jobVars

-----------------------------------------------------------------------------
(* Properties.                                                              *)

\* How many messages are among the first n places of a queue.
Messages(q, n) == Cardinality({k \in 1..n : q[k] # Ready})

(* The aggregator broadcasts what it took, once and in the order of the     *)
(* topic; what it has not broadcast is in its buffer or its queue, also     *)
(* after its routine has ended.                                             *)
RoomInOrder ==
    LET taken == flushed \o room.buf IN
    /\ Len(accepted) = Len(taken) + Messages(room.ch, Len(room.ch))
    /\ \A k \in DOMAIN taken : accepted[k] = taken[k]
    /\ \A k \in DOMAIN room.ch :
          room.ch[k] # Ready => accepted[Len(taken) + Messages(room.ch, k)] = room.ch[k]

Queued(s, m) == \E i \in Routines : m \in Range(queue[s].push[i])

(* A push is handed to its gateway at most once on all its ways: read, put  *)
(* off, moved to the offline topic with or without an answer, read again.   *)
PushedOnce ==
    \A m \in Msgs : Kind[m] = "push" =>
        LET s == ServerOf[m]
            copies == {i \in Routines : m \in Range(queue[s].push[i])} IN
        /\ Cardinality(copies) + (IF m \in sent[s] THEN 1 ELSE 0) <= 1
        /\ \A i \in copies : Cardinality({j \in DOMAIN queue[s].push[i] : queue[s].push[i][j] = m}) = 1

(* A push that is marked, and is not to be dropped, was handed to its       *)
(* gateway's client, moved, dead-lettered, or lost with that client or by   *)
(* the call, which only a fault explains.                                   *)
MarkedIsHandled ==
    \A m \in Msgs : \A t \in Topics :
        Kind[m] = "push" /\ <<t, m>> \in marked /\ m \notin Transient \cup Mortal =>
            \/ Queued(ServerOf[m], m) \/ m \in sent[ServerOf[m]]
            \/ t = "online" /\ m \in Range(log["offline"])
            \/ m \in Range(dlq)
            \/ faults > 0

=============================================================================
