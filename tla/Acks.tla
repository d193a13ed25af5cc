-------------------------------- MODULE Acks --------------------------------
(* How an acknowledgement reaches the notification it is about. A client    *)
(* acknowledges over HTTP, or to a router, which hands the event to its     *)
(* ACKBatcher; batches go to the ACK topic, and notify's ACK bridge         *)
(* consumes them. Both ways end in RecordAckIdempotent. The model has one   *)
(* notification with one message, one router process, one partition of the  *)
(* topic and one bridge.                                                    *)
EXTENDS Integers, FiniteSets, SequencesExt

CONSTANTS
    Calls,          \* POST /api/ack
    Input,          \* [Calls -> the body: msg, device, key]
    Publishers,     \* goroutines of the router that publish an event
    Event,          \* [Publishers -> status, msg, device]
    Deployments,    \* what the notification may have: policy, targets, primary
    Bridge,         \* the bridge's consumer
    QueueSize,      \* capacity of the batcher's channel (4096)
    BatchMax,       \* messages in a batch of the batcher (100)
    BridgeBatch,    \* messages in a batch of the bridge (100)
    MaxActive,      \* bound: calls and publishers that take part
    MaxFaults,      \* bound: sessions that end, failures of the database or of Kafka
    NoKey, NoDevice, NoMsg

Policies == {"none", "best_effort", "any_device", "primary_device", "all_devices"}
Statuses == {"server_received", "pushed", "acked"}
Msgs == {Input[c].msg : c \in Calls} \cup {Event[p].msg : p \in Publishers} \cup {NoMsg}
Devices == {Input[c].device : c \in Calls} \cup {Event[p].device : p \in Publishers} \cup {NoDevice}
Callers == Calls \cup {Bridge}
BridgeKey(m) == <<"kafka-ack", m>>
Keys == {Input[c].key : c \in Calls} \cup {BridgeKey(m) : m \in Msgs} \cup {NoKey}
Inputs == [msg : Msgs, device : Devices, key : Keys]
Notifications == [status : {"pending", "delivering", "delivered", "acked"},
                  acked : Nat, business : {"pending", "satisfied"}]
Entries == [status : Statuses, device : Devices, msgs : SUBSET Msgs]

ASSUME AcksAssumption ==
    /\ \A d \in Deployments : d.policy \in Policies /\ d.targets \subseteq Devices \ {NoDevice}
                              /\ IsFiniteSet(d.targets) /\ d.primary \in Devices
    /\ \A c \in Calls : Input[c] \in Inputs
    /\ \A m \in Msgs : BridgeKey(m) # NoKey
    /\ \A p \in Publishers : Event[p].status \in Statuses
    /\ Bridge \notin Calls \cup Publishers
    /\ QueueSize \in Nat /\ BatchMax \in Nat \ {0} /\ BridgeBatch \in Nat \ {0}
    /\ MaxFaults \in Nat /\ MaxActive \in Nat

VARIABLES
    deployed,   \* policy, target devices and primary device of the notification
    notif,      \* its row: status, acked_count, business_ack_status
    rows,       \* notification_acks
    keys,       \* idempotency_keys of scope ack: the stored answer, or "none"
    at,         \* where a call, or the bridge's current one, is
    snap,       \* the notification as its transaction read it
    pub,        \* where a publisher is
    queue,      \* the batcher's channel
    pending,    \* the batcher's open batches: [batch key -> messages]
    batcher,    \* running, draining (stop is closed), done
    log,        \* the ACK topic
    ready,      \* the bridge has a session
    pos,        \* its next offset
    committed,  \* the group's committed offset, 0 for none
    marked,     \* the last offset it has marked
    batch,      \* offsets it has received
    left,       \* offsets of the batch it has still to look up
    inputs,     \* acknowledgements it has still to record
    failed,     \* one of them was not recorded
    skipped,    \* history: messages of events it passed over
    late,       \* history: publishers that found the queue open after stop
    faults

acks == <<deployed, notif, rows, keys>>
call == <<at, snap>>
batching == <<pub, queue, pending, batcher, late>>
bridge == <<batch, left, inputs, failed>>
bridging == <<ready, pos, committed, marked, bridge, skipped>>
vars == <<acks, call, batching, log, bridging, faults>>

BatchKeys == {<<Event[p].status, Event[p].device>> : p \in Publishers}

(* normalizeNotificationAckDefaults *)
ExpectedAckCount == IF deployed.targets # {} THEN Cardinality(deployed.targets)
                    ELSE IF deployed.policy \in {"none", "best_effort"} THEN 0 ELSE 1
InitialBusiness(policy) ==
    IF policy \in {"none", "best_effort"} THEN "satisfied" ELSE "pending"

Init ==
    /\ deployed \in Deployments
    /\ notif = [status |-> "pending", acked |-> 0, business |-> InitialBusiness(deployed.policy)]
    /\ rows = {}
    /\ keys = [k \in Keys |-> "none"]
    /\ \E S \in {S \in SUBSET (Calls \cup Publishers) : Cardinality(S) <= MaxActive} :
          /\ at = [x \in Callers |-> IF x \in S THEN "new" ELSE "idle"]
          /\ pub = [p \in Publishers |-> IF p \in S THEN "new" ELSE "idle"]
    /\ snap = [x \in Callers |-> notif]
    /\ queue = <<>>
    /\ pending = [k \in BatchKeys |-> <<>>]
    /\ batcher = "running"
    /\ log = <<>>
    /\ ready = TRUE /\ pos = 1 /\ committed = 0 /\ marked = 0
    /\ batch = <<>> /\ left = <<>> /\ inputs = <<>> /\ failed = FALSE
    /\ skipped = {} /\ late = {}
    /\ faults = 0

Fault == faults < MaxFaults /\ faults' = faults + 1

-----------------------------------------------------------------------------
(* RecordAckIdempotent                                                      *)

Goto(x, s) == at' = [at EXCEPT ![x] = s]
In(x) == IF x = Bridge THEN Head(inputs) ELSE Input[x]

LoadIdempotency(x) ==
    /\ at[x] = "new"
    /\ \/ keys[In(x).key] # "none" /\ Goto(x, keys[In(x).key])
       \/ keys[In(x).key] = "none" /\ Goto(x, "looked")
    /\ UNCHANGED <<acks, snap, batching, log, bridging, faults>>

(* RecordAckWithIdempotency: the SELECT sets the transaction's snapshot. *)
Begin(x) ==
    /\ at[x] = "looked"
    /\ snap' = [snap EXCEPT ![x] = notif]
    /\ Goto(x, "read")
    /\ UNCHANGED <<acks, batching, log, bridging, faults>>

\* Any device of the user counts as the primary one.
ackPolicySatisfiedByAny(device, acked) == acked > 0
\* The counter is compared for equality.
ackPolicySatisfiedExactly(device, acked) == acked = ExpectedAckCount
ackPolicySatisfied(device, acked) ==
    CASE deployed.policy \in {"none", "best_effort"} -> TRUE
      [] deployed.policy = "primary_device" ->
            IF deployed.primary = NoDevice THEN acked > 0 ELSE device = deployed.primary
      [] deployed.policy = "all_devices" ->
            IF deployed.targets # {} THEN acked >= Cardinality(deployed.targets)
            ELSE ExpectedAckCount > 0 /\ acked >= ExpectedAckCount
      [] OTHER -> acked > 0

(* The unique key of notification_acks: message, device and session. *)
AckKey(i) == <<i.msg, i.device>>
(* The snapshot already satisfies the policy, or the row is there. *)
NothingToRecord(x) ==
    \/ /\ snap[x].business = "satisfied"
       /\ deployed.policy \in {"any_device", "none", "best_effort"}
    \/ \E a \in rows : AckKey(a) = AckKey(In(x))

CountsFor(i) == deployed.policy # "all_devices" \/ deployed.targets = {} \/ i.device \in deployed.targets

SaveIdempotencyTx(x, answer) ==
    \/ In(x).key = NoKey /\ UNCHANGED keys
    \/ /\ In(x).key # NoKey /\ keys[In(x).key] = "none"
       /\ keys' = [keys EXCEPT ![In(x).key] = answer]

(* The counter and the status are computed from the snapshot. *)
InsertAck(x) ==
    LET n == snap[x]
        acked == n.acked + IF CountsFor(In(x)) THEN 1 ELSE 0
        satisfied == ackPolicySatisfied(In(x).device, acked)
    IN /\ rows' = rows \cup {In(x)}
       /\ notif' = [status |-> IF satisfied THEN "acked" ELSE n.status,
                    acked |-> acked,
                    business |-> IF satisfied THEN "satisfied" ELSE "pending"]

RecordAckWithIdempotency(x) ==
    /\ at[x] = "read"
    /\ \/ NothingToRecord(x) /\ SaveIdempotencyTx(x, "unrecorded") /\ UNCHANGED <<rows, notif>>
          /\ Goto(x, "unrecorded")
       \/ ~NothingToRecord(x) /\ SaveIdempotencyTx(x, "recorded") /\ InsertAck(x)
          /\ Goto(x, "recorded")
    /\ UNCHANGED <<deployed, snap, batching, log, bridging, faults>>

(* The same with a commit whose answer is lost. *)
CommitLost(x) ==
    /\ at[x] = "read"
    /\ \/ NothingToRecord(x) /\ SaveIdempotencyTx(x, "unrecorded") /\ UNCHANGED <<rows, notif>>
       \/ ~NothingToRecord(x) /\ SaveIdempotencyTx(x, "recorded") /\ InsertAck(x)
    /\ Goto(x, "error")
    /\ Fault
    /\ UNCHANGED <<deployed, snap, batching, log, bridging>>

Conflict(x) ==
    /\ at[x] = "read"
    /\ In(x).key # NoKey /\ keys[In(x).key] # "none"
    /\ Goto(x, "conflict")
    /\ UNCHANGED <<acks, snap, batching, log, bridging, faults>>

(* loadIdempotencyAfterWriteConflict: the winner has committed. *)
Reload(x) ==
    /\ at[x] = "conflict"
    /\ Goto(x, keys[In(x).key])
    /\ UNCHANGED <<acks, snap, batching, log, bridging, faults>>

(* A query fails, InnoDB rolls the transaction back (two of them hold a     *)
(* shared lock of the notification after the insert, and both want to       *)
(* update it), or the server of an HTTP call dies.                          *)
Fail(x) ==
    /\ at[x] \in {"new", "looked", "read", "conflict"}
    /\ Goto(x, "error")
    /\ Fault
    /\ UNCHANGED <<acks, snap, batching, log, bridging>>

-----------------------------------------------------------------------------
(* The router's ACKBatcher                                                  *)

(* HandleACKWithDevice and publishACK, up to Enqueue's first look at stop. *)
Publish(p) ==
    /\ pub[p] = "new"
    /\ pub' = [pub EXCEPT ![p] = IF batcher = "running" THEN "select" ELSE "send"]
    /\ UNCHANGED <<acks, call, queue, pending, batcher, late, log, bridging, faults>>

(* Enqueue's select takes any case that is ready. *)
Enqueue(p) ==
    /\ pub[p] = "select"
    /\ \/ /\ Len(queue) < QueueSize
          /\ queue' = Append(queue, p)
          /\ late' = IF batcher = "running" THEN late ELSE late \cup {p}
          /\ pub' = [pub EXCEPT ![p] = "queued"]
       \/ /\ batcher # "running" \/ Len(queue) = QueueSize
          /\ pub' = [pub EXCEPT ![p] = "send"]
          /\ UNCHANGED <<queue, late>>
    /\ UNCHANGED <<acks, call, pending, batcher, log, bridging, faults>>

(* sendACKBatch: the event is in the topic, or the send fails. *)
Send(k, ms) == log' = Append(log, [status |-> k[1], device |-> k[2], msgs |-> ms]) /\ UNCHANGED faults
SendFails == Fault /\ UNCHANGED log

SendACKEvent(p) ==
    /\ pub[p] = "send"
    /\ Send(<<Event[p].status, Event[p].device>>, {Event[p].msg}) \/ SendFails
    /\ pub' = [pub EXCEPT ![p] = "sent"]
    /\ UNCHANGED <<acks, call, queue, pending, batcher, late, bridging>>

BatchFull(ms) == Len(ms) >= BatchMax

(* add: the event joins the batch of its key, which is sent when full. *)
BatcherAdd ==
    /\ batcher \in {"running", "draining"}
    /\ queue # <<>>
    /\ queue' = Tail(queue)
    /\ LET e == Event[Head(queue)]
           k == <<e.status, e.device>>
           ms == Append(pending[k], e.msg)
       IN IF BatchFull(ms)
          THEN /\ Send(k, {ms[i] : i \in 1..Len(ms)}) \/ SendFails
               /\ pending' = [pending EXCEPT ![k] = <<>>]
          ELSE pending' = [pending EXCEPT ![k] = ms] /\ UNCHANGED <<log, faults>>
    /\ UNCHANGED <<acks, call, pub, batcher, late, bridging>>

(* flushAll sends one batch after the other. *)
FlushOne(k) ==
    /\ batcher \in {"running", "draining"}
    /\ pending[k] # <<>>
    /\ batcher = "draining" => queue = <<>>
    /\ Send(k, {pending[k][i] : i \in 1..Len(pending[k])}) \/ SendFails
    /\ pending' = [pending EXCEPT ![k] = <<>>]
    /\ UNCHANGED <<acks, call, pub, queue, batcher, late, bridging>>

CloseBatcher ==
    /\ batcher = "running"
    /\ batcher' = "draining"
    /\ UNCHANGED <<acks, call, pub, queue, pending, late, log, bridging, faults>>

\* The loop flushes what it has and does not look at the queue again.
BatcherDoneUndrained ==
    /\ batcher = "draining"
    /\ \A k \in BatchKeys : pending[k] = <<>>
    /\ batcher' = "done"
    /\ UNCHANGED <<acks, call, pub, queue, pending, late, log, bridging, faults>>
BatcherDone ==
    /\ batcher = "draining"
    /\ queue = <<>>
    /\ \A k \in BatchKeys : pending[k] = <<>>
    /\ batcher' = "done"
    /\ UNCHANGED <<acks, call, pub, queue, pending, late, log, bridging, faults>>

-----------------------------------------------------------------------------
(* The bridge                                                               *)

(* A session starts at the committed offset, or with the newest messages if *)
(* the group has none.                                                      *)
Setup ==
    /\ ~ready
    /\ ready' = TRUE
    /\ pos' = IF committed = 0 THEN Len(log) + 1 ELSE committed + 1
    /\ marked' = pos' - 1
    /\ skipped' = IF committed > 0 THEN skipped
                  ELSE skipped \cup UNION {{<<o, m>> : m \in log[o].msgs} : o \in 1..Len(log)}
    /\ UNCHANGED <<acks, call, batching, log, committed, bridge, faults>>

Receive ==
    /\ ready /\ at[Bridge] = "idle"
    /\ pos <= Len(log) /\ Len(batch) < BridgeBatch
    /\ batch' = Append(batch, pos)
    /\ pos' = pos + 1
    /\ UNCHANGED <<acks, call, batching, log, ready, committed, marked, left, inputs, failed,
                   skipped, faults>>

Flush ==
    /\ ready /\ at[Bridge] = "idle" /\ batch # <<>>
    /\ left' = batch
    /\ inputs' = <<>> /\ failed' = FALSE
    /\ Goto(Bridge, "lookup")
    /\ UNCHANGED <<acks, snap, batching, log, ready, pos, committed, marked, batch, skipped, faults>>

(* A message is known by the acknowledgements recorded for it. *)
FindNotifyIDByMsgID(m) == \E a \in rows : a.msg = m

UpdateNotificationStatus(status) == notif' = [notif EXCEPT !.status = status]

(* ackInputForEvent for the messages of an event. A lookup that fails is    *)
(* the same as one that finds nothing.                                      *)
AckInputForEvent ==
    /\ at[Bridge] = "lookup" /\ left # <<>>
    /\ LET o == Head(left)
           e == log[o]
       IN \E found \in {{m \in e.msgs : FindNotifyIDByMsgID(m)}, {}} :
          /\ IF \A m \in e.msgs \ found : ~FindNotifyIDByMsgID(m) THEN UNCHANGED faults ELSE Fault
          /\ skipped' = skipped \cup {<<o, m>> : m \in e.msgs \ found}
          /\ \/ found = {} /\ UNCHANGED <<notif, inputs>>
             \/ found # {} /\ e.status # "acked" /\ UNCHANGED inputs
                /\ UpdateNotificationStatus(IF e.status = "pushed" THEN "delivered" ELSE "delivering")
             \/ found # {} /\ e.status = "acked" /\ UNCHANGED notif
                /\ inputs' = inputs \o SetToSeq({[msg |-> m, device |-> e.device,
                                                  key |-> BridgeKey(m)] : m \in found})
    /\ left' = Tail(left)
    /\ UNCHANGED <<deployed, rows, keys, call, batching, log, ready, pos, committed, marked, batch, failed>>

(* RecordAckBatchIdempotent takes the next input, whatever became of the    *)
(* one before.                                                              *)
NextInput ==
    /\ \/ at[Bridge] = "lookup" /\ left = <<>> /\ UNCHANGED <<inputs, failed>>
          /\ Goto(Bridge, IF inputs = <<>> THEN "mark" ELSE "new")
       \/ at[Bridge] \in {"recorded", "unrecorded", "error"}
          /\ failed' = (failed \/ at[Bridge] = "error")
          /\ inputs' = Tail(inputs)
          /\ Goto(Bridge, IF Len(inputs) = 1 THEN "mark" ELSE "new")
    /\ UNCHANGED <<acks, snap, batching, log, ready, pos, committed, marked, batch, left, skipped, faults>>

\* An error of the batch is not told to the claim.
MarkBatchAnyway ==
    /\ at[Bridge] = "mark"
    /\ marked' = batch[Len(batch)]
    /\ batch' = <<>>
    /\ Goto(Bridge, "idle")
    /\ UNCHANGED <<acks, snap, batching, log, ready, pos, committed, left, inputs, failed, skipped, faults>>
MarkBatch ==
    /\ at[Bridge] = "mark" /\ ~failed
    /\ marked' = batch[Len(batch)]
    /\ batch' = <<>>
    /\ Goto(Bridge, "idle")
    /\ UNCHANGED <<acks, snap, batching, log, ready, pos, committed, left, inputs, failed, skipped, faults>>

(* The client library commits what is marked, from time to time. *)
Commit ==
    /\ ready /\ committed < marked
    /\ committed' = marked
    /\ UNCHANGED <<acks, call, batching, log, ready, pos, marked, bridge, skipped, faults>>

(* The session ends: ConsumeClaim returned an error, a rebalance, a crash.  *)
(* The handler keeps the ready channel of its first session, so that the    *)
(* next Setup would close it twice: notify panics and is started again. In  *)
(* each case what is not committed is read again.                           *)
SessionEnds ==
    /\ ready
    /\ \/ at[Bridge] = "mark" /\ failed /\ UNCHANGED faults
       \/ ~(at[Bridge] = "mark" /\ failed) /\ Fault
    /\ ready' = FALSE
    /\ batch' = <<>> /\ left' = <<>> /\ inputs' = <<>> /\ failed' = FALSE
    /\ Goto(Bridge, "idle")
    /\ UNCHANGED <<acks, snap, batching, log, pos, committed, marked, skipped>>

-----------------------------------------------------------------------------

Next ==
    \/ \E x \in Callers : \/ LoadIdempotency(x) \/ Begin(x) \/ RecordAckWithIdempotency(x)
                          \/ CommitLost(x) \/ Conflict(x) \/ Reload(x) \/ Fail(x)
    \/ \E p \in Publishers : Publish(p) \/ Enqueue(p) \/ SendACKEvent(p)
    \/ BatcherAdd \/ CloseBatcher \/ BatcherDone \/ (\E k \in BatchKeys : FlushOne(k))
    \/ Setup \/ Receive \/ Flush \/ AckInputForEvent \/ NextInput \/ MarkBatch \/ Commit \/ SessionEnds

Spec == Init /\ [][Next]_vars

-----------------------------------------------------------------------------
(* Properties.                                                              *)

TypeOK ==
    /\ deployed \in Deployments /\ notif \in Notifications
    /\ rows \subseteq Inputs /\ IsFiniteSet(rows)
    /\ keys \in [Keys -> {"none", "recorded", "unrecorded"}]
    /\ at \in [Callers -> {"idle", "new", "looked", "read", "conflict", "recorded", "unrecorded", "error",
                           "lookup", "mark"}]
    /\ snap \in [Callers -> Notifications]
    /\ pub \in [Publishers -> {"idle", "new", "select", "queued", "send", "sent"}]
    /\ queue \in Seq(Publishers) /\ pending \in [BatchKeys -> Seq(Msgs)] /\ late \subseteq Publishers
    /\ batcher \in {"running", "draining", "done"}
    /\ log \in Seq(Entries) /\ \A o \in 1..Len(log) : IsFiniteSet(log[o].msgs)
    /\ ready \in BOOLEAN /\ failed \in BOOLEAN
    /\ pos \in Nat \ {0} /\ committed \in Nat /\ marked \in Nat
    /\ batch \in Seq(Nat) /\ left \in Seq(Nat) /\ inputs \in Seq(Inputs)
    /\ skipped \subseteq Nat \X Msgs
    /\ faults \in Nat

(* What the notification says is backed by rows that were inserted,         *)
(* although its counter is computed from a snapshot: it counts no more than *)
(* there are, and a policy is satisfied only by the rows it asks for.       *)
Counted == {a \in rows : CountsFor(a)}
Backed ==
    /\ notif.acked <= Cardinality(Counted)
    /\ notif.business = "satisfied" =>
          CASE deployed.policy \in {"none", "best_effort"} -> TRUE
            [] deployed.policy = "primary_device" /\ deployed.primary # NoDevice ->
                  \E a \in rows : a.device = deployed.primary
            [] OTHER -> Cardinality(Counted) >=
                           IF deployed.policy = "all_devices" THEN ExpectedAckCount ELSE 1

(* Where no device resolver is installed, what is satisfied stays so,       *)
(* however many acknowledgements follow and in whatever order they commit.  *)
SatisfiedStays ==
    [][deployed.targets = {} /\ deployed.primary = NoDevice /\ notif.business = "satisfied"
         => notif'.business = "satisfied"]_vars

(* An event the bridge has marked, and so never reads again, has all its    *)
(* acknowledgements answered, but for those it found no notification for.   *)
MarkedIsAnswered ==
    \A o \in 1..marked : log[o].status = "acked" =>
        \A m \in log[o].msgs : <<o, m>> \in skipped \/ keys[BridgeKey(m)] # "none"

(* When the batcher has ended, only calls that reached the queue after stop *)
(* was closed have left events in it; no batch is open.                     *)
FlushedAtClose ==
    batcher = "done" => /\ {queue[i] : i \in 1..Len(queue)} \subseteq late
                        /\ \A k \in BatchKeys : pending[k] = <<>>

=============================================================================
