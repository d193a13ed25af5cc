----------------------------- MODULE Connection -----------------------------
(***************************************************************************)
(* One client connection of a comet (internal/comet/server_tcp.go,         *)
(* server_websocket.go, channel.go, ring.go, priority_queue.go) and those  *)
(* who push to it (internal/comet/grpc/server.go, bucket.go).              *)
(*                                                                         *)
(* The reader goroutine (ServeTCP) puts the client's frames into the ring  *)
(* CliProto and signals the dispatcher goroutine (dispatchTCP), which      *)
(* writes the replies and the pushed messages. Both are connected by the   *)
(* two bounded Go channels of a PriorityQueue: Push never blocks, Signal   *)
(* and Close do. The Channel object comes from a pool: the connections     *)
(* 1, 2, ... modelled here use one after the other the same object, each   *)
(* registered in the bucket under a key of its own.                        *)
(*                                                                         *)
(* ServeWebsocket and dispatchWebsocket have the same control. Rooms and   *)
(* the other maps of the bucket are in module Bucket; NeedPush, which only *)
(* lets a pusher skip a client that did not subscribe, is left out.        *)
(***************************************************************************)
EXTENDS Naturals, Sequences, FiniteSets

CONSTANTS Pushers,    \* goroutines that push to the connection
          Setups,     \* what happens to the connection: a set of records
          Size,       \* the size of the ring (num)
          WordSize,   \* the ring's counters are words modulo this (2^64)
          HighCap,    \* the capacity of PriorityQueue.high
          NormalCap,  \* the capacity of PriorityQueue.normal
          MaxPushes   \* bound: how often a pusher pushes

\* msg: PushMsg. cast: Bucket.Broadcast. kick: PushMsg with OpKickConnection.
\* take: Bucket.Put of another Channel under the same key.
Tasks == {"msg", "cast", "kick", "take", "none"}

ASSUME ConnectionAssumption ==
    /\ "none" \notin Pushers
    /\ Size \in Nat \ {0}
    /\ WordSize \in Nat \ {0} /\ WordSize % Size = 0 /\ WordSize > Size
    /\ HighCap \in Nat \ {0}
    /\ NormalCap \in Nat \ {0}
    /\ MaxPushes \in Nat
    /\ \A s \in Setups : /\ s.task \in [Pushers -> Tasks] /\ s.limit \in BOOLEAN
                         /\ s.frames \in Nat /\ s.conns \in Nat

VARIABLES
    setup,      \* what happens to the connection, chosen at the start
    conn,       \* the number of the connection, and its key
    up,         \* the TCP connection is open
    registered, \* the Channel is registered in the bucket under its key
    rlocked,    \* the pushers that hold cLock.RLock
    wlocked,    \* the pusher that holds cLock.Lock
    rp, wp,     \* the ring's counters
    data,       \* the ring's slots: the number of the frame in each
    readRp,     \* the value of rp that the reader saw last
    high,       \* the contents of the channel PriorityQueue.high
    normal,     \* the contents of the channel PriorityQueue.normal
    reader,     \* where the reader is
    dispatcher, \* where the dispatcher is
    broken,     \* the dispatcher is past its label failed
    item,       \* the message the dispatcher is about to write
    pusher,     \* pusher[p]: where p is
    aim,        \* aim[p]: the connection that p looked up
    pushes,     \* pushes[p]: how often p has pushed
    left,       \* how many frames the client has yet to send
    frames,     \* history: the kinds of the frames put into the ring
    replied,    \* history: the numbers of the frames written back
    obeyed      \* history: the messages written and the closes carried out, as
                \*   pairs of the connection meant and the one it happened to

Task == setup.task        \* Task[p]: what p does, see Tasks
RateLimit == setup.limit  \* whether a rate limiter is configured
MaxFrames == setup.frames \* bound: frames a client sends
MaxConns == setup.conns   \* bound: connections that use the Channel object

which == <<setup, conn>>
ring == <<rp, wp, data, readRp>>
queue == <<high, normal>>
bucket == <<registered, rlocked, wlocked>>
pushing == <<pusher, aim, pushes>>
history == <<frames, replied, obeyed>>
vars == <<which, up, bucket, ring, queue, reader, dispatcher, broken, item, pushing, left, history>>

\* What goes through the queue: ProtoReady, and ProtoFinish and messages with
\* the connection they are meant for.
Ready == [op |-> "ready", to |-> 0]
Finish(c) == [op |-> "finish", to |-> c]
Message(c) == [op |-> "message", to |-> c]

Init ==
    /\ setup \in Setups
    /\ conn = 0
    /\ up = FALSE
    /\ registered = FALSE
    /\ rlocked = {}
    /\ wlocked = "none"
    /\ rp = 0 /\ wp = 0 /\ readRp = 0
    /\ data = [i \in 0 .. Size - 1 |-> 0]
    /\ high = << >> /\ normal = << >>
    /\ reader = "free"
    /\ dispatcher = "done"
    /\ broken = FALSE
    /\ item = Ready
    /\ pusher = [p \in Pushers |-> "idle"]
    /\ aim = [p \in Pushers |-> 0]
    /\ pushes = [p \in Pushers |-> 0]
    /\ left = 0
    /\ frames = << >> /\ replied = << >> /\ obeyed = {}

HighFull == Len(high) >= HighCap

\* A blocking send on PriorityQueue.high (Signal, Close).
Send(x) == ~ HighFull /\ high' = Append(high, x)

\* cLock.Lock and cLock.RLock can be taken.
CanLock == rlocked = {} /\ wlocked = "none"
CanRLock == wlocked = "none"

-----------------------------------------------------------------------------
(* The reader *)

\* GetChannel with its Reset, the handshake, Bucket.Put and the start of the
\* dispatcher. The queue gets new Go channels: who was blocked on a full old
\* one stays blocked for ever, who was about to send uses the new one.
Connect ==
    /\ reader = "free"
    /\ conn < MaxConns
    /\ CanLock
    /\ conn' = conn + 1
    /\ up' = TRUE
    /\ registered' = TRUE
    /\ rp' = 0 /\ wp' = 0 /\ readRp' = 0
    /\ data' = [i \in 0 .. Size - 1 |-> 0]
    /\ high' = << >> /\ normal' = << >>
    /\ reader' = "set"
    /\ dispatcher' = "pop"
    /\ broken' = FALSE
    /\ \E B \in SUBSET {p \in Pushers : HighFull /\ pusher[p] \in {"signal", "close"}} :
          pusher' = [p \in Pushers |-> IF p \in B THEN "stuck" ELSE pusher[p]]
    /\ left' = MaxFrames
    /\ frames' = << >> /\ replied' = << >>
    /\ UNCHANGED <<setup, rlocked, wlocked, item, aim, pushes, obeyed>>

\* Ring.Set: is there a free slot? rp is read without synchronisation while
\* the dispatcher increments it, so that any value since the last read may
\* be seen. A full ring ends the connection.
SetOffByOne ==
    /\ reader = "set"
    /\ readRp' = rp
    /\ reader' = IF (wp + WordSize - rp) % WordSize > Size THEN "del" ELSE "read"
    /\ UNCHANGED <<which, up, bucket, rp, wp, data, queue, dispatcher, broken, item, pushing, left, history>>
Set ==
    /\ reader = "set"
    /\ \E k \in 0 .. (rp + WordSize - readRp) % WordSize :
          LET r == (readRp + k) % WordSize IN
          /\ readRp' = r
          /\ reader' = IF (wp + WordSize - r) % WordSize >= Size THEN "del" ELSE "read"
    /\ UNCHANGED <<which, up, bucket, rp, wp, data, queue, dispatcher, broken, item, pushing, left, history>>

\* The frame is put into the slot that Set returned, and SetAdv.
Fill(kind) ==
    /\ data' = [data EXCEPT ![wp % Size] = Len(frames) + 1]
    /\ wp' = (wp + 1) % WordSize
    /\ frames' = Append(frames, kind)

\* ReadTCP and what follows it up to SetAdv: a heartbeat and an operation are
\* to be answered, an acknowledgement is forwarded to logic and leaves the
\* slot free, a frame above the rate limit is skipped, a malformed one ends the
\* connection (Operate never fails). Frames that are in the read buffer are
\* still read when the connection is down.
ReadTCP ==
    /\ reader = "read"
    /\ left > 0
    /\ left' = left - 1
    /\ \/ Fill("answer") /\ reader' = "signal"
       \/ RateLimit /\ Fill("limited") /\ reader' = "set"
       \/ reader' \in {"set", "del"} /\ UNCHANGED <<data, wp, frames>>
    /\ UNCHANGED <<which, up, bucket, rp, readRp, queue, dispatcher, broken, item, pushing,
                   replied, obeyed>>

ReadFails ==
    /\ reader = "read"
    /\ ~ up
    /\ reader' = "del"
    /\ UNCHANGED <<which, up, bucket, ring, queue, dispatcher, broken, item, pushing, left, history>>

Signal ==
    /\ reader = "signal"
    /\ Send(Ready)
    /\ reader' = "set"
    /\ UNCHANGED <<which, up, bucket, ring, normal, dispatcher, broken, item, pushing, left, history>>

\* Bucket.Del, then conn.Close.
BucketDelUnlocked ==
    /\ reader = "del"
    /\ registered' = FALSE
    /\ up' = FALSE
    /\ reader' = "close"
    /\ UNCHANGED <<which, rlocked, wlocked, ring, queue, dispatcher, broken, item, pushing, left, history>>
BucketDel ==
    /\ reader = "del"
    /\ CanLock
    /\ registered' = FALSE
    /\ up' = FALSE
    /\ reader' = "close"
    /\ UNCHANGED <<which, rlocked, wlocked, ring, queue, dispatcher, broken, item, pushing, left, history>>

Close ==
    /\ reader = "close"
    /\ Send(Finish(conn))
    /\ reader' = "wait"
    /\ UNCHANGED <<which, up, bucket, ring, normal, dispatcher, broken, item, pushing, left, history>>

\* <-ch.Done(), Disconnect and, deferred, PutChannel.
Disconnect ==
    /\ reader = "wait"
    /\ dispatcher = "done"
    /\ reader' = "free"
    /\ UNCHANGED <<which, up, bucket, ring, queue, dispatcher, broken, item, pushing, left, history>>

-----------------------------------------------------------------------------
(* The dispatcher *)

\* What the dispatcher does with x. Past failed it only waits for ProtoFinish.
Handle(x) ==
    /\ dispatcher' = CASE x.op = "finish" -> "done"
                       [] x.op = "ready" /\ ~ broken -> "get"
                       [] x.op = "message" /\ ~ broken -> "write"
                       [] broken -> "pop"
    /\ item' = x
    /\ up' = (up /\ x.op # "finish")
    /\ obeyed' = IF x.op = "finish" THEN obeyed \cup {<<x.to, conn>>} ELSE obeyed

\* Pop: first a look at high alone, then a select on both.
PopHigh ==
    /\ dispatcher \in {"pop", "select"}
    /\ high # << >>
    /\ Handle(Head(high))
    /\ high' = Tail(high)
    /\ UNCHANGED <<which, bucket, ring, normal, reader, broken, pushing, left, frames, replied>>

PopBlocks ==
    /\ dispatcher = "pop"
    /\ high = << >>
    /\ dispatcher' = "select"
    /\ UNCHANGED <<which, up, bucket, ring, queue, reader, broken, item, pushing, left, history>>

PopNormal ==
    /\ dispatcher = "select"
    /\ normal # << >>
    /\ Handle(Head(normal))
    /\ normal' = Tail(normal)
    /\ UNCHANGED <<which, bucket, ring, high, reader, broken, pushing, left, frames, replied>>

\* A write or flush fails: label failed, the connection is closed.
FailedUndrained ==
    /\ dispatcher' = "done"
    /\ broken' = TRUE
    /\ up' = FALSE
Failed ==
    /\ dispatcher' = "pop"
    /\ broken' = TRUE
    /\ up' = FALSE

\* Ring.Get: everything in the ring is written, one frame after the other.
Get ==
    /\ dispatcher = "get"
    /\ IF rp = wp
         THEN \/ up /\ dispatcher' = "pop" /\ UNCHANGED <<up, broken>>
              \/ Failed
         ELSE dispatcher' = "reply" /\ UNCHANGED <<up, broken>>
    /\ UNCHANGED <<which, bucket, ring, queue, reader, item, pushing, left, history>>

Reply ==
    /\ dispatcher = "reply"
    /\ \/ /\ up
          /\ replied' = Append(replied, data[rp % Size])
          /\ dispatcher' = "adv"
          /\ UNCHANGED <<up, broken>>
       \/ Failed /\ UNCHANGED replied
    /\ UNCHANGED <<which, bucket, ring, queue, reader, item, pushing, left, frames, obeyed>>

GetAdvOne ==
    /\ dispatcher = "adv"
    /\ rp' = (rp + 1) % WordSize
    /\ dispatcher' = "pop"
    /\ UNCHANGED <<which, up, bucket, wp, data, readRp, queue, reader, broken, item, pushing, left, history>>
GetAdv ==
    /\ dispatcher = "adv"
    /\ rp' = (rp + 1) % WordSize
    /\ dispatcher' = "get"
    /\ UNCHANGED <<which, up, bucket, wp, data, readRp, queue, reader, broken, item, pushing, left, history>>

\* A pushed message is written and flushed.
Write ==
    /\ dispatcher = "write"
    /\ \/ /\ up
          /\ obeyed' = obeyed \cup {<<item.to, conn>>}
          /\ dispatcher' = "pop"
          /\ UNCHANGED <<up, broken>>
       \/ Failed /\ UNCHANGED obeyed
    /\ UNCHANGED <<which, bucket, ring, queue, reader, item, pushing, left, frames, replied>>

-----------------------------------------------------------------------------
(* The pushers *)

\* PushMsg: Bucket.Channel under cLock.RLock, released at once. Bucket.Put of
\* another Channel and Broadcast keep the lock.
LookupUnlocked(p) ==
    /\ Task[p] # "none" /\ pusher[p] = "idle"
    /\ pushes[p] < MaxPushes
    /\ registered
    /\ aim' = [aim EXCEPT ![p] = conn]
    /\ pushes' = [pushes EXCEPT ![p] = @ + 1]
    /\ pusher' = [pusher EXCEPT ![p] = IF Task[p] \in {"kick", "take"} THEN "close" ELSE "push"]
    /\ UNCHANGED <<which, up, bucket, ring, queue, reader, dispatcher, broken, item, left, history>>
Lookup(p) ==
    /\ Task[p] # "none" /\ pusher[p] = "idle"
    /\ pushes[p] < MaxPushes
    /\ registered
    /\ IF Task[p] = "take" THEN CanLock ELSE CanRLock
    /\ rlocked' = IF Task[p] = "cast" THEN rlocked \cup {p} ELSE rlocked
    /\ wlocked' = IF Task[p] = "take" THEN p ELSE wlocked
    /\ aim' = [aim EXCEPT ![p] = conn]
    /\ pushes' = [pushes EXCEPT ![p] = @ + 1]
    /\ pusher' = [pusher EXCEPT ![p] = IF Task[p] \in {"kick", "take"} THEN "close" ELSE "push"]
    /\ UNCHANGED <<which, up, registered, ring, queue, reader, dispatcher, broken, item, left, history>>

\* The pusher is through and gives back the lock it may have.
Through(p) ==
    /\ pusher' = [pusher EXCEPT ![p] = "idle"]
    /\ rlocked' = rlocked \ {p}
    /\ wlocked' = IF wlocked = p THEN "none" ELSE wlocked

\* Channel.Push: the message goes to the queue of its priority or, if that is
\* full, is dropped.
Push(p) ==
    /\ pusher[p] = "push"
    /\ \/ /\ ~ HighFull
          /\ high' = Append(high, Message(aim[p]))
          /\ pusher' = [pusher EXCEPT ![p] = "signal"]
          /\ UNCHANGED <<normal, rlocked, wlocked>>
       \/ /\ Len(normal) < NormalCap
          /\ normal' = Append(normal, Message(aim[p]))
          /\ pusher' = [pusher EXCEPT ![p] = "signal"]
          /\ UNCHANGED <<high, rlocked, wlocked>>
       \/ /\ HighFull \/ Len(normal) >= NormalCap
          /\ Through(p)
          /\ UNCHANGED <<high, normal>>
    /\ UNCHANGED <<which, up, registered, ring, reader, dispatcher, broken, item, aim, pushes, left, history>>

SignalPushed(p) ==
    /\ pusher[p] = "signal"
    /\ Send(Ready)
    /\ Through(p)
    /\ UNCHANGED <<which, up, registered, ring, normal, reader, dispatcher, broken, item, aim, pushes,
                   left, history>>

\* Channel.Close by a kick, or by the Put that takes the key over.
CloseOther(p) ==
    /\ pusher[p] = "close"
    /\ Send(Finish(aim[p]))
    /\ Through(p)
    /\ registered' = (registered /\ Task[p] # "take")
    /\ UNCHANGED <<which, up, ring, normal, reader, dispatcher, broken, item, aim, pushes, left, history>>

\* The client closes the connection, the network fails or the heartbeat timer
\* fires.
ConnDies ==
    /\ up
    /\ up' = FALSE
    /\ UNCHANGED <<which, bucket, ring, queue, reader, dispatcher, broken, item, pushing, left, history>>

-----------------------------------------------------------------------------

ReaderStep == Set \/ ReadFails \/ Signal \/ BucketDel \/ Close \/ Disconnect

DispatcherStep == PopHigh \/ PopBlocks \/ PopNormal \/ Get \/ Reply \/ GetAdv \/ Write

PusherStep(p) == Push(p) \/ SignalPushed(p) \/ CloseOther(p)

Next ==
    \/ Connect
    \/ ReadTCP
    \/ ReaderStep
    \/ DispatcherStep
    \/ ConnDies
    \/ \E p \in Pushers : Lookup(p) \/ PusherStep(p)

Spec == Init /\ [][Next]_vars

\* The goroutines are scheduled fairly, a write to the client ends; nobody
\* needs to send, push or disconnect.
FairSpec ==
    /\ Spec
    /\ WF_vars(ReaderStep)
    /\ WF_vars(DispatcherStep)
    /\ \A p \in Pushers : WF_vars(PusherStep(p))

-----------------------------------------------------------------------------
(* Properties *)

Items == [op : {"ready", "finish", "message"}, to : Nat]
Words == 0 .. WordSize - 1

TypeOK ==
    /\ setup \in Setups /\ conn \in Nat /\ {up, registered, broken} \subseteq BOOLEAN
    /\ rlocked \subseteq Pushers /\ wlocked \in Pushers \cup {"none"}
    /\ {rp, wp, readRp} \subseteq Words /\ data \in [0 .. Size - 1 -> Nat]
    /\ high \in Seq(Items) /\ normal \in Seq(Items) /\ item \in Items
    /\ Len(high) <= HighCap /\ Len(normal) <= NormalCap
    /\ reader \in {"free", "set", "read", "signal", "del", "close", "wait"}
    /\ dispatcher \in {"pop", "select", "get", "reply", "adv", "write", "done"}
    /\ pusher \in [Pushers -> {"idle", "push", "signal", "close", "stuck"}]
    /\ aim \in [Pushers -> Nat] /\ pushes \in [Pushers -> 0 .. MaxPushes]
    /\ left \in Nat /\ frames \in Seq({"answer", "limited"}) /\ replied \in Seq(Nat)
    /\ obeyed \subseteq Nat \X Nat

\* Every frame put into the ring is written back once and in order: the
\* reader never reuses a slot that the dispatcher has yet to write, although
\* it reads rp without synchronisation and the counters wrap.
InOrder ==
    /\ Len(replied) <= Len(frames)
    /\ \A i \in 1 .. Len(replied) : replied[i] = i

Waiting(i) == i > Len(replied) /\ frames[i] = "answer"
Unanswered == \E i \in 1 .. Len(frames) : Waiting(i)

\* Whoever sends to the connection while it holds the bucket's cLock, and so
\* stops every other connection of the bucket, sends to a dispatcher that
\* still receives.
BucketNotStuck ==
    \A p \in rlocked \cup ({wlocked} \ {"none"}) :
        pusher[p] \in {"signal", "close"} /\ HighFull => dispatcher # "done"

\* A message is written only to the connection it was pushed to, and a close
\* ends only the connection it was meant for.
RightRecipient == \A w \in obeyed : w[1] = w[2]

\* Nobody but the reader closes the connection. Otherwise a second ProtoFinish
\* can fill the queue after its dispatcher has left.
OnlyReaderCloses == \A p \in Pushers : Task[p] \in {"cast", "msg", "none"}

\* When a connection is down its reader gets through the cleanup, to the
\* Disconnect that tells the logic service: it never waits in Signal or Close
\* for a dispatcher that has left.
CleanedUp == OnlyReaderCloses /\ reader # "free" /\ ~ up ~> reader = "free"

\* A frame that is to be answered is answered, or the connection goes down: no
\* wake-up of the dispatcher is lost.
Answered == OnlyReaderCloses /\ up /\ Unanswered ~> ~ up \/ ~ Unanswered

=============================================================================
