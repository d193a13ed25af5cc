----------------------------- MODULE AcksProofs -----------------------------
(***************************************************************************)
(* Proofs about acknowledgements for any calls, publishers, devices,       *)
(* deployments and sizes of queues and batches: what a notification says   *)
(* about itself, what the bridge has marked, and what the batcher leaves.  *)
(***************************************************************************)
EXTENDS Acks, FiniteSetTheorems, TLAPS

Working == {"new", "looked", "read", "conflict", "recorded", "unrecorded", "error"}

\* No transaction has read a counter that says more than the rows do.
SnapsBacked == \A x \in Callers : snap[x].acked <= Cardinality(Counted)

\* The parts of Backed.
CountBacked == notif.acked <= Cardinality(Counted)
Supported ==
    CASE deployed.policy \in {"none", "best_effort"} -> TRUE
      [] deployed.policy = "primary_device" /\ deployed.primary # NoDevice ->
            \E a \in rows : a.device = deployed.primary
      [] OTHER -> Cardinality(Counted) >=
                     IF deployed.policy = "all_devices" THEN ExpectedAckCount ELSE 1

\* The bridge works on the acknowledgements of its batch one after the other,
\* after it has looked all of them up.
Phases ==
    /\ at[Bridge] \in Working => inputs # <<>> /\ left = <<>>
    /\ at[Bridge] = "mark" => inputs = <<>> /\ left = <<>>
    /\ at[Bridge] # "idle" => batch # <<>>
    /\ ~ready => at[Bridge] = "idle" /\ batch = <<>>

\* Its batch is what it has read and not marked, without a gap.
Offsets ==
    /\ committed <= marked /\ marked <= Len(log)
    /\ ready => /\ pos <= Len(log) + 1 /\ Len(batch) = pos - 1 - marked
                /\ \A i \in 1..Len(batch) : batch[i] = marked + i
    /\ at[Bridge] = "lookup" => /\ Len(left) <= Len(batch)
                                /\ \A i \in 1..Len(left) : left[i] = pos - 1 - Len(left) + i

\* What it records has a key, and a recorded acknowledgement has an answer.
Keyed ==
    /\ \A i \in 1..Len(inputs) : inputs[i].key # NoKey
    /\ at[Bridge] \in {"conflict", "recorded", "unrecorded"} => keys[Head(inputs).key] # "none"

\* A call that met a conflict finds the answer of the winner.
Conflicts == \A x \in Calls : at[x] = "conflict" => keys[Input[x].key] # "none"

\* Until something fails, what is looked up is answered or is to be recorded.
Listed(m) == \E i \in 1..Len(inputs) : inputs[i].key = BridgeKey(m)
Answered(o) ==
    log[o].status = "acked" =>
        \A m \in log[o].msgs : <<o, m>> \in skipped \/ keys[BridgeKey(m)] # "none"
Prepared(o) ==
    log[o].status = "acked" =>
        \A m \in log[o].msgs : <<o, m>> \in skipped \/ keys[BridgeKey(m)] # "none" \/ Listed(m)
LookedUp == pos - 1 - (IF at[Bridge] = "lookup" THEN Len(left) ELSE 0)
InWork == at[Bridge] # "idle" /\ ~failed => \A o \in marked + 1..LookedUp : Prepared(o)

BridgeInv == Phases /\ Offsets /\ Keyed /\ InWork /\ MarkedIsAnswered
IInv == TypeOK /\ SnapsBacked /\ Backed /\ Conflicts /\ BridgeInv /\ FlushedAtClose

-----------------------------------------------------------------------------
(* Operators *)

\* SetToSeq lists all elements of a finite set.
LEMMA Lists ==
    ASSUME NEW S, IsFiniteSet(S)
    PROVE  SetToSeq(S) \in Seq(S) /\ \A e \in S : \E i \in 1..Len(SetToSeq(S)) : SetToSeq(S)[i] = e
<1> DEFINE n == Cardinality(S)
           f == SetToSeq(S)
<1>1. n \in Nat /\ ExistsBijection(1..n, S)
  BY FS_CardinalityType
<1>2. \E g \in [1..n -> S] : IsInjective(g)
  BY <1>1 DEF ExistsBijection, Bijection, Injection
<1>3. f \in [1..n -> S] /\ IsInjective(f)
  BY <1>2 DEF SetToSeq
<1>4. Cardinality(1..n) = n
  BY <1>1, FS_Interval
<1> HIDE DEF f
<1>5. f \in Surjection(1..n, S)
  BY <1>3, <1>4, FS_Injection DEF Injection
<1>6. f \in Seq(S) /\ Len(f) = n
  BY <1>1, <1>3
<1>7. \A e \in S : \E i \in 1..n : f[i] = e
  BY <1>5 DEF Surjection
<1> QED
  BY <1>6, <1>7 DEF f

LEMMA Appended ==
    ASSUME NEW S, NEW s \in Seq(S), NEW e \in S
    PROVE  /\ Append(s, e) \in Seq(S) /\ Len(s) \in Nat /\ Len(Append(s, e)) = Len(s) + 1
           /\ Append(s, e)[Len(s) + 1] = e /\ \A i \in 1..Len(s) : Append(s, e)[i] = s[i]
OBVIOUS

LEMMA IsEmpty ==
    ASSUME NEW S, NEW s \in Seq(S)
    PROVE  s = <<>> <=> Len(s) = 0
OBVIOUS

\* What a sequence holds is finite.
LEMMA FiniteRange ==
    ASSUME NEW S, NEW s \in Seq(S)
    PROVE  IsFiniteSet({s[i] : i \in 1..Len(s)}) /\ {s[i] : i \in 1..Len(s)} \subseteq S
<1> DEFINE T == {s[i] : i \in 1..Len(s)}
<1>1. s \in Surjection(1..Len(s), T)
  BY DEF Surjection
<1>2. IsFiniteSet(1..Len(s))
  BY FS_Interval
<1> QED
  BY <1>1, <1>2, FS_Surjection

-----------------------------------------------------------------------------
(* Types *)

Places == Working \cup {"idle", "lookup", "mark"}
AcksOK ==
    /\ deployed \in Deployments /\ notif \in Notifications
    /\ rows \subseteq Inputs /\ IsFiniteSet(rows)
    /\ keys \in [Keys -> {"none", "recorded", "unrecorded"}]
CallsOK == at \in [Callers -> Places] /\ snap \in [Callers -> Notifications]
BatcherOK ==
    /\ pub \in [Publishers -> {"idle", "new", "select", "queued", "send", "sent"}]
    /\ queue \in Seq(Publishers) /\ pending \in [BatchKeys -> Seq(Msgs)] /\ late \subseteq Publishers
    /\ batcher \in {"running", "draining", "done"}
LogOK == log \in Seq(Entries) /\ \A o \in 1..Len(log) : IsFiniteSet(log[o].msgs)
BridgeOK ==
    /\ ready \in BOOLEAN /\ failed \in BOOLEAN
    /\ pos \in Nat \ {0} /\ committed \in Nat /\ marked \in Nat
    /\ batch \in Seq(Nat) /\ left \in Seq(Nat) /\ inputs \in Seq(Inputs)
    /\ skipped \subseteq Nat \X Msgs

LEMMA TypeParts == TypeOK <=> AcksOK /\ CallsOK /\ BatcherOK /\ LogOK /\ BridgeOK /\ faults \in Nat
<1>1. Places = {"idle", "new", "looked", "read", "conflict", "recorded", "unrecorded", "error", "lookup", "mark"}
  BY DEF Places, Working
<1> QED
  BY <1>1 DEF TypeOK, AcksOK, CallsOK, BatcherOK, LogOK, BridgeOK

\* What a call or the bridge is about to record.
LEMMA InType ==
    ASSUME TypeOK, Phases, NEW x \in Callers, at[x] \in Working
    PROVE  In(x) \in Inputs /\ In(x).key \in Keys /\ In(x).device \in Devices
<1>1. CASE x = Bridge
  <2>1. inputs \in Seq(Inputs) /\ inputs # <<>>
    BY <1>1 DEF TypeOK, Phases
  <2>2. Head(inputs) \in Inputs
    BY <2>1
  <2> QED
    BY <1>1, <2>2 DEF In, Inputs
<1>2. CASE x # Bridge
  <2>1. Input[x] \in Inputs
    BY <1>2, AcksAssumption DEF AcksAssumption, Callers
  <2> QED
    BY <1>2, <2>1 DEF In, Inputs
<1> QED
  BY <1>1, <1>2

\* A step of RecordAckIdempotent.
CallStep(x) ==
    \/ LoadIdempotency(x) \/ Begin(x) \/ RecordAckWithIdempotency(x)
    \/ CommitLost(x) \/ Conflict(x) \/ Reload(x) \/ Fail(x)

\* It leaves the acknowledgements alone or inserts one and saves its answer.
Saves(x) ==
    \/ UNCHANGED keys /\ In(x).key = NoKey
    \/ /\ In(x).key # NoKey /\ keys[In(x).key] = "none"
       /\ \E a \in {"recorded", "unrecorded"} : keys' = [keys EXCEPT ![In(x).key] = a]
Calling(x) ==
    /\ UNCHANGED <<deployed, batching, log, bridging>>
    /\ at[x] \in Working \ {"recorded", "unrecorded", "error"}
    /\ \E s \in Working :
          /\ Goto(x, s)
          /\ s = "conflict" => keys[In(x).key] # "none"
          /\ s \in {"recorded", "unrecorded"} => Saves(x) \/ keys[In(x).key] # "none"
    /\ UNCHANGED keys \/ Saves(x)
    /\ UNCHANGED <<rows, notif>> \/ (~NothingToRecord(x) /\ InsertAck(x))
    /\ UNCHANGED snap \/ snap' = [snap EXCEPT ![x] = notif]
    /\ UNCHANGED faults \/ Fault

LEMMA CallSteps ==
    ASSUME TypeOK, Phases, Keyed, Conflicts, NEW x \in Callers, CallStep(x)
    PROVE  Calling(x)
<1> USE DEF Calling, Working, acks, call
<1>k. at[x] \in Working => In(x).key \in Keys
  BY InType
<1>t. keys \in [Keys -> {"none", "recorded", "unrecorded"}]
  BY DEF TypeOK
<1>1. CASE LoadIdempotency(x)
  BY <1>1, <1>k, <1>t DEF LoadIdempotency
<1>2. CASE Begin(x)
  BY <1>2 DEF Begin
<1>3. CASE RecordAckWithIdempotency(x)
  BY <1>3 DEF RecordAckWithIdempotency, SaveIdempotencyTx, Saves
<1>4. CASE CommitLost(x)
  BY <1>4 DEF CommitLost, SaveIdempotencyTx, Saves
<1>5. CASE Conflict(x)
  BY <1>5 DEF Conflict
<1>6. CASE Reload(x)
  <2>1. keys[In(x).key] # "none"
    BY <1>6 DEF Reload, Keyed, Conflicts, In, Callers
  <2> QED
    BY <1>6, <2>1, <1>k, <1>t DEF Reload
<1>7. CASE Fail(x)
  BY <1>7 DEF Fail
<1> QED
  BY <1>1, <1>2, <1>3, <1>4, <1>5, <1>6, <1>7 DEF CallStep

\* The notification that InsertAck writes.
Satisfied(x) == ackPolicySatisfied(In(x).device, snap[x].acked + IF CountsFor(In(x)) THEN 1 ELSE 0)

LEMMA Inserted ==
    ASSUME TypeOK, NEW x \in Callers, InsertAck(x)
    PROVE  /\ notif' \in Notifications
           /\ rows' = rows \cup {In(x)}
           /\ notif'.acked = snap[x].acked + IF CountsFor(In(x)) THEN 1 ELSE 0
           /\ notif'.business = IF Satisfied(x) THEN "satisfied" ELSE "pending"
<1> DEFINE n == snap[x]
           more == IF CountsFor(In(x)) THEN 1 ELSE 0
           ok == ackPolicySatisfied(In(x).device, n.acked + more)
<1>1. snap[x] \in Notifications
  BY DEF TypeOK
<1>2. /\ n.acked \in Nat /\ n.acked + more \in Nat
      /\ n.status \in {"pending", "delivering", "delivered", "acked"}
  BY <1>1 DEF Notifications
<1>3. /\ rows' = rows \cup {In(x)}
      /\ notif' = [status |-> IF ok THEN "acked" ELSE n.status,
                   acked |-> n.acked + more,
                   business |-> IF ok THEN "satisfied" ELSE "pending"]
  BY DEF InsertAck
<1>4. Satisfied(x) = ok
  BY DEF Satisfied
<1> HIDE DEF n, more, ok
<1>5. notif' \in Notifications
  BY <1>2, <1>3 DEF Notifications
<1>6. notif'.acked = n.acked + more /\ notif'.business = IF ok THEN "satisfied" ELSE "pending"
  BY <1>3
<1> QED
  BY <1>3, <1>4, <1>5, <1>6 DEF n, more

LEMMA CallTypes ==
    ASSUME TypeOK, Phases, NEW x \in Callers, Calling(x)
    PROVE  TypeOK'
<1>0. AcksOK /\ CallsOK /\ BatcherOK /\ LogOK /\ BridgeOK /\ faults \in Nat
  BY TypeParts
<1>i. In(x) \in Inputs /\ In(x).key \in Keys
  BY InType DEF Calling
<1>1. BatcherOK' /\ LogOK' /\ BridgeOK'
  BY <1>0 DEF Calling, BatcherOK, LogOK, BridgeOK, batching, bridging, bridge
<1>2. CallsOK'
  <2>1. at' \in [Callers -> Places]
    <3>0. Working \subseteq Places
      BY DEF Places
    <3>1. PICK s \in Working : Goto(x, s)
      BY DEF Calling
    <3> QED
      BY <3>0, <3>1, <1>0 DEF CallsOK, Goto
  <2>2. snap' \in [Callers -> Notifications]
    BY <1>0 DEF Calling, CallsOK, AcksOK
  <2> QED
    BY <2>1, <2>2 DEF CallsOK
<1>3. AcksOK'
  <2>1. keys' \in [Keys -> {"none", "recorded", "unrecorded"}]
    <3>1. CASE UNCHANGED keys
      BY <3>1, <1>0 DEF AcksOK
    <3>2. CASE Saves(x)
      BY <3>2, <1>0, <1>i DEF Saves, AcksOK
    <3> QED
      BY <3>1, <3>2 DEF Calling
  <2>2. notif' \in Notifications /\ rows' \subseteq Inputs /\ IsFiniteSet(rows')
    <3>1. CASE UNCHANGED <<rows, notif>>
      BY <3>1, <1>0 DEF AcksOK
    <3>2. CASE InsertAck(x)
      BY <3>2, <1>0, <1>i, Inserted, FS_AddElement DEF AcksOK
    <3> QED
      BY <3>1, <3>2 DEF Calling
  <2> QED
    BY <2>1, <2>2, <1>0 DEF Calling, AcksOK
<1>4. faults' \in Nat
  BY <1>0 DEF Calling, Fault
<1> QED
  BY <1>1, <1>2, <1>3, <1>4 DEF TypeOK, AcksOK, CallsOK, BatcherOK, LogOK, BridgeOK, Places, Working

\* The topic grows by events that the batcher or a publisher sends.
Grows == log' = log \/ \E e \in Entries : IsFiniteSet(e.msgs) /\ log' = Append(log, e)

LEMMA SendGrows ==
    ASSUME NEW k \in BatchKeys, NEW ms \in SUBSET Msgs, IsFiniteSet(ms), Send(k, ms) \/ SendFails, faults \in Nat
    PROVE  Grows /\ faults' \in Nat
<1>1. PICK p \in Publishers : k = <<Event[p].status, Event[p].device>>
  BY DEF BatchKeys
<1>2. k[1] \in Statuses /\ k[2] \in Devices
  BY <1>1, AcksAssumption DEF AcksAssumption, Devices
<1> DEFINE e == [status |-> k[1], device |-> k[2], msgs |-> ms]
<1>3. e \in Entries /\ e.msgs = ms
  BY <1>2 DEF Entries
<1>4. (log' = Append(log, e) /\ UNCHANGED faults) \/ (Fault /\ UNCHANGED log)
  BY DEF Send, SendFails
<1> HIDE DEF e
<1> QED
  BY <1>3, <1>4 DEF Grows, Fault

LEMMA LogTypes ==
    ASSUME LogOK, Grows
    PROVE  /\ LogOK' /\ Len(log') >= Len(log)
           /\ \A o \in 1..Len(log) : log'[o] = log[o]
<1>1. CASE log' = log
  BY <1>1 DEF LogOK
<1>2. ASSUME NEW e \in Entries, IsFiniteSet(e.msgs), log' = Append(log, e) PROVE LogOK' /\ Len(log') >= Len(log)
           /\ \A o \in 1..Len(log) : log'[o] = log[o]
  <2>1. log \in Seq(Entries) /\ Len(log) \in Nat
    BY DEF LogOK
  <2>2. /\ log' \in Seq(Entries) /\ Len(log') = Len(log) + 1 /\ log'[Len(log) + 1] = e
        /\ \A o \in 1..Len(log) : log'[o] = log[o]
    BY <1>2, <2>1
  <2>3. \A o \in 1..Len(log') : IsFiniteSet(log'[o].msgs)
    BY <1>2, <2>1, <2>2 DEF LogOK
  <2> QED
    BY <2>1, <2>2, <2>3 DEF LogOK
<1> QED
  BY <1>1, <1>2 DEF Grows

\* A step of the router: of a publisher or of the ACKBatcher.
RouterStep ==
    \/ \E p \in Publishers : Publish(p) \/ Enqueue(p) \/ SendACKEvent(p)
    \/ BatcherAdd \/ CloseBatcher \/ BatcherDone \/ (\E k \in BatchKeys : FlushOne(k))

LEMMA RouterSteps ==
    ASSUME TypeOK, FlushedAtClose, RouterStep
    PROVE  /\ BatcherOK' /\ Grows /\ faults' \in Nat /\ FlushedAtClose'
           /\ UNCHANGED <<acks, call, bridging>>
<1>0. BatcherOK /\ faults \in Nat
  BY TypeParts
<1>m. \A p \in Publishers : Event[p].msg \in Msgs /\ <<Event[p].status, Event[p].device>> \in BatchKeys
  BY DEF Msgs, BatchKeys
<1>1. ASSUME NEW p \in Publishers, Publish(p) PROVE BatcherOK' /\ Grows /\ faults' \in Nat /\ FlushedAtClose'
  <2>1. pub' \in [Publishers -> {"idle", "new", "select", "queued", "send", "sent"}]
    BY <1>1, <1>0 DEF Publish, BatcherOK
  <2> QED
    BY <1>1, <2>1, <1>0 DEF Publish, BatcherOK, Grows, FlushedAtClose
<1>2. ASSUME NEW p \in Publishers, Enqueue(p) PROVE BatcherOK' /\ Grows /\ faults' \in Nat /\ FlushedAtClose'
  <2>1. pub' \in [Publishers -> {"idle", "new", "select", "queued", "send", "sent"}]
    BY <1>2, <1>0 DEF Enqueue, BatcherOK
  <2>2. /\ UNCHANGED <<pending, batcher, log, faults>>
        /\ \/ queue' = Append(queue, p) /\ late' = (IF batcher = "running" THEN late ELSE late \cup {p})
           \/ UNCHANGED <<queue, late>>
    BY <1>2 DEF Enqueue
  <2>3. queue' \in Seq(Publishers) /\ late' \subseteq Publishers
    <3>1. queue \in Seq(Publishers) /\ late \subseteq Publishers
      BY <1>0 DEF BatcherOK
    <3> QED
      BY <2>2, <3>1, Appended
  <2>4. FlushedAtClose'
    <3>1. CASE UNCHANGED <<queue, late>>
      BY <2>2, <3>1 DEF FlushedAtClose
    <3>2. CASE queue' = Append(queue, p) /\ late' = (IF batcher = "running" THEN late ELSE late \cup {p})
      <4>1. \A i \in 1..Len(queue') : queue'[i] = p \/ \E j \in 1..Len(queue) : queue'[i] = queue[j]
        BY <3>2, <1>0 DEF BatcherOK
      <4> QED
        BY <2>2, <3>2, <4>1 DEF FlushedAtClose
    <3> QED
      BY <2>2, <3>1, <3>2
  <2> QED
    BY <2>1, <2>2, <2>3, <2>4, <1>0 DEF BatcherOK, Grows
<1>3. ASSUME NEW p \in Publishers, SendACKEvent(p) PROVE BatcherOK' /\ Grows /\ faults' \in Nat /\ FlushedAtClose'
  <2>1. pub' \in [Publishers -> {"idle", "new", "select", "queued", "send", "sent"}]
    BY <1>3, <1>0 DEF SendACKEvent, BatcherOK
  <2>2. BatcherOK' /\ FlushedAtClose'
    BY <1>3, <2>1, <1>0 DEF SendACKEvent, BatcherOK, FlushedAtClose
  <2>3. {Event[p].msg} \in SUBSET Msgs /\ IsFiniteSet({Event[p].msg})
    BY <1>m, FS_Singleton
  <2> QED
    BY <1>3, <2>2, <2>3, <1>0, <1>m, SendGrows DEF SendACKEvent
<1>4. ASSUME BatcherAdd PROVE BatcherOK' /\ Grows /\ faults' \in Nat /\ FlushedAtClose'
  <2> DEFINE e == Event[Head(queue)]
             k == <<e.status, e.device>>
             ms == Append(pending[k], e.msg)
             sent == {ms[i] : i \in 1..Len(ms)}
  <2>1. Head(queue) \in Publishers /\ Tail(queue) \in Seq(Publishers)
    <3>1. queue \in Seq(Publishers) /\ queue # <<>>
      BY <1>4, <1>0 DEF BatcherAdd, BatcherOK
    <3> QED
      BY <3>1
  <2>2. k \in BatchKeys /\ e.msg \in Msgs
    BY <2>1, <1>m
  <2>3. ms \in Seq(Msgs)
    <3>1. pending[k] \in Seq(Msgs)
      BY <2>2, <1>0 DEF BatcherOK
    <3> QED
      BY <2>2, <3>1, Appended
  <2>5. /\ UNCHANGED <<pub, batcher, late>> /\ batcher # "done" /\ queue' = Tail(queue)
        /\ \/ (Send(k, sent) \/ SendFails) /\ pending' = [pending EXCEPT ![k] = <<>>]
           \/ pending' = [pending EXCEPT ![k] = ms] /\ UNCHANGED <<log, faults>>
    BY <1>4, Zenon DEF BatcherAdd
  <2> HIDE DEF e, k, ms
  <2>4. sent \in SUBSET Msgs /\ IsFiniteSet(sent)
    BY <2>3, FiniteRange
  <2> HIDE DEF sent
  <2>e. <<>> \in Seq(Msgs) /\ pending \in [BatchKeys -> Seq(Msgs)]
    BY <1>0 DEF BatcherOK
  <2>6. pending' \in [BatchKeys -> Seq(Msgs)]
    <3>1. PICK v \in Seq(Msgs) : pending' = [pending EXCEPT ![k] = v]
      BY <2>e, <2>3, <2>5
    <3> QED
      BY <3>1, <2>e
  <2>7. Grows /\ faults' \in Nat
    BY <2>2, <2>4, <2>5, <1>0, SendGrows DEF Grows
  <2>8. BatcherOK'
    BY <2>1, <2>5, <2>6, <1>0 DEF BatcherOK
  <2> QED
    BY <2>5, <2>7, <2>8 DEF FlushedAtClose
<1>5. ASSUME NEW k \in BatchKeys, FlushOne(k) PROVE BatcherOK' /\ Grows /\ faults' \in Nat /\ FlushedAtClose'
  <2>1. pending[k] \in Seq(Msgs)
    BY <1>0 DEF BatcherOK
  <2> DEFINE sent == {pending[k][i] : i \in 1..Len(pending[k])}
  <2>2. sent \in SUBSET Msgs /\ IsFiniteSet(sent)
    BY <2>1, FiniteRange
  <2>3. /\ UNCHANGED <<pub, queue, batcher, late>> /\ batcher # "done"
        /\ Send(k, sent) \/ SendFails
        /\ pending' = [pending EXCEPT ![k] = <<>>]
    BY <1>5 DEF FlushOne
  <2> HIDE DEF sent
  <2>4. Grows /\ faults' \in Nat
    BY <2>2, <2>3, <1>0, SendGrows
  <2> QED
    BY <2>3, <2>4, <1>0 DEF BatcherOK, FlushedAtClose
<1>6. ASSUME CloseBatcher \/ BatcherDone PROVE BatcherOK' /\ Grows /\ faults' \in Nat /\ FlushedAtClose'
  <2>1. batcher' \in {"draining", "done"} /\ UNCHANGED <<pub, queue, pending, late, log, faults>>
    BY <1>6 DEF CloseBatcher, BatcherDone
  <2>2. batcher' = "done" => queue = <<>> /\ \A k \in BatchKeys : pending[k] = <<>>
    BY <1>6 DEF CloseBatcher, BatcherDone
  <2>3. FlushedAtClose'
    BY <2>1, <2>2 DEF FlushedAtClose
  <2> QED
    BY <2>1, <2>3, <1>0 DEF BatcherOK, Grows
<1>7. UNCHANGED <<acks, call, bridging>>
  BY Zenon DEF RouterStep, Publish, Enqueue, SendACKEvent, BatcherAdd, CloseBatcher, BatcherDone, FlushOne
<1> QED
  BY <1>1, <1>2, <1>3, <1>4, <1>5, <1>6, <1>7 DEF RouterStep

-----------------------------------------------------------------------------
(* The bridge *)

\* The acknowledgements for the messages of an event.
Note(m, d) == [msg |-> m, device |-> d, key |-> BridgeKey(m)]
Notes(found, d) == {Note(m, d) : m \in found}

LEMMA NotesListed ==
    ASSUME NEW found \in SUBSET Msgs, IsFiniteSet(found), NEW d \in Devices
    PROVE  LET ns == SetToSeq(Notes(found, d)) IN
           /\ ns \in Seq(Inputs)
           /\ \A i \in 1..Len(ns) : ns[i].key # NoKey
           /\ \A m \in found : \E i \in 1..Len(ns) : ns[i].key = BridgeKey(m)
<1> DEFINE f == [m \in found |-> Note(m, d)]
           ns == SetToSeq(Notes(found, d))
<1>1. f \in Surjection(found, Notes(found, d))
  BY DEF Surjection, Notes
<1>2. IsFiniteSet(Notes(found, d))
  BY <1>1, FS_Surjection
<1>3. \A m \in found : Note(m, d) \in Inputs /\ Note(m, d).key = BridgeKey(m) /\ BridgeKey(m) # NoKey
  BY AcksAssumption DEF AcksAssumption, Note, Inputs, Keys
<1>4. Notes(found, d) \subseteq Inputs /\ \A n \in Notes(found, d) : n.key # NoKey
  BY <1>3 DEF Notes
<1>5. ns \in Seq(Notes(found, d)) /\ \A e \in Notes(found, d) : \E i \in 1..Len(ns) : ns[i] = e
  BY <1>2, Lists
<1> HIDE DEF ns
<1>6. Len(ns) \in Nat /\ \A i \in 1..Len(ns) : ns[i] \in Notes(found, d)
  BY <1>5
<1>7. ns \in Seq(Inputs)
  BY <1>4, <1>5
<1>8. ASSUME NEW m \in found PROVE \E i \in 1..Len(ns) : ns[i].key = BridgeKey(m)
  <2>1. Note(m, d) \in Notes(found, d)
    BY DEF Notes
  <2> QED
    BY <2>1, <1>3, <1>5
<1> QED
  BY <1>4, <1>6, <1>7, <1>8 DEF ns

\* ackInputForEvent takes the next event of the batch, and prepares it.
LEMMA Looks ==
    ASSUME TypeOK, Phases, Offsets, AckInputForEvent
    PROVE  /\ Head(left) \in 1..Len(log) /\ Head(left) = pos - Len(left)
           /\ inputs' \in Seq(Inputs) /\ Len(inputs') >= Len(inputs)
           /\ \A i \in 1..Len(inputs) : inputs'[i] = inputs[i]
           /\ \A i \in Len(inputs) + 1..Len(inputs') : inputs'[i].key # NoKey
           /\ skipped \subseteq skipped' /\ skipped' \subseteq Nat \X Msgs
           /\ \A q \in Nat : q = pos - Len(left) => Prepared(q)'
           /\ notif' \in Notifications /\ notif'.acked = notif.acked /\ notif'.business = notif.business
           /\ faults' \in Nat
<1> DEFINE o == Head(left)
           e == log[o]
<1>t. /\ left \in Seq(Nat) /\ left # <<>> /\ pos \in Nat /\ log \in Seq(Entries) /\ inputs \in Seq(Inputs)
      /\ notif \in Notifications /\ skipped \subseteq Nat \X Msgs /\ faults \in Nat /\ marked \in Nat
      /\ batch \in Seq(Nat)
  BY DEF TypeOK, AckInputForEvent
<1>1. o = pos - Len(left) /\ o \in 1..Len(log)
  <2>1. Len(left) \in Nat \ {0} /\ Head(left) = left[1]
    BY <1>t
  <2>2. ready /\ at[Bridge] = "lookup"
    BY DEF AckInputForEvent, Phases
  <2>3. /\ marked \in Nat /\ pos \in Nat /\ Len(log) \in Nat /\ Len(left) \in Nat
        /\ pos <= Len(log) + 1 /\ Len(batch) = pos - 1 - marked /\ Len(left) <= Len(batch)
        /\ left[1] = pos - 1 - Len(left) + 1
    <3>1. \A i \in 1..Len(left) : left[i] = pos - 1 - Len(left) + i
      BY <2>2 DEF Offsets
    <3>2. 1 \in 1..Len(left)
      BY <2>1
    <3> QED
      BY <1>t, <2>2, <3>1, <3>2 DEF Offsets
  <2> QED
    BY <2>1, <2>3
<1>2. e \in Entries /\ IsFiniteSet(e.msgs)
  BY <1>1, <1>t DEF TypeOK
<1>3. e.msgs \subseteq Msgs /\ e.device \in Devices
  BY <1>2 DEF Entries
<1>4. PICK found \in {{m \in e.msgs : FindNotifyIDByMsgID(m)}, {}} :
          /\ UNCHANGED faults \/ Fault
          /\ skipped' = skipped \cup {<<o, m>> : m \in e.msgs \ found}
          /\ \/ found = {} /\ UNCHANGED <<notif, inputs>>
             \/ found # {} /\ e.status # "acked" /\ UNCHANGED inputs
                /\ UpdateNotificationStatus(IF e.status = "pushed" THEN "delivered" ELSE "delivering")
             \/ found # {} /\ e.status = "acked" /\ UNCHANGED notif
                /\ inputs' = inputs \o SetToSeq(Notes(found, e.device))
  BY DEF AckInputForEvent, Notes, Note
<1>f. found \in SUBSET Msgs /\ found \subseteq e.msgs /\ IsFiniteSet(found)
  BY <1>2, <1>3, FS_Subset
<1> DEFINE ns == SetToSeq(Notes(found, e.device))
<1>6. /\ ns \in Seq(Inputs)
      /\ \A i \in 1..Len(ns) : ns[i].key # NoKey
      /\ \A m \in found : \E i \in 1..Len(ns) : ns[i].key = BridgeKey(m)
  BY <1>f, <1>3, NotesListed
<1>u. UNCHANGED <<log, keys, pos>>
  BY DEF AckInputForEvent
<1> HIDE DEF o, e, ns
<1>7. skipped \subseteq skipped' /\ skipped' \subseteq Nat \X Msgs
  BY <1>1, <1>3, <1>4, <1>t
<1>8. notif' \in Notifications /\ notif'.acked = notif.acked /\ notif'.business = notif.business
  <2>1. ASSUME NEW v \in {"delivered", "delivering"}, UpdateNotificationStatus(v)
        PROVE  notif' \in Notifications /\ notif'.acked = notif.acked /\ notif'.business = notif.business
    BY <2>1, <1>t DEF UpdateNotificationStatus, Notifications
  <2> QED
    BY <2>1, <1>4, <1>t
<1>9. /\ inputs' \in Seq(Inputs) /\ Len(inputs') >= Len(inputs)
      /\ \A i \in 1..Len(inputs) : inputs'[i] = inputs[i]
      /\ \A i \in Len(inputs) + 1..Len(inputs') : inputs'[i].key # NoKey
      /\ e.status = "acked" => \A m \in found : \E i \in 1..Len(inputs') : inputs'[i].key = BridgeKey(m)
  <2>1. CASE UNCHANGED inputs /\ (found = {} \/ e.status # "acked")
    BY <2>1, <1>t
  <2>2. CASE inputs' = inputs \o ns
    <3>1. /\ inputs' \in Seq(Inputs) /\ Len(inputs) \in Nat /\ Len(ns) \in Nat
          /\ Len(inputs') = Len(inputs) + Len(ns)
      BY <2>2, <1>6, <1>t
    <3>2. \A i \in 1..Len(inputs) : inputs'[i] = inputs[i]
      BY <2>2, <1>6, <1>t
    <3>3. \A i \in 1..Len(ns) : inputs'[Len(inputs) + i] = ns[i] /\ Len(inputs) + i \in 1..Len(inputs')
      BY <2>2, <3>1, <1>6, <1>t
    <3>4. ASSUME NEW i \in Len(inputs) + 1..Len(inputs') PROVE inputs'[i].key # NoKey
      <4>1. i - Len(inputs) \in 1..Len(ns) /\ Len(inputs) + (i - Len(inputs)) = i
        BY <3>1, <3>4
      <4> QED
        BY <4>1, <3>3, <1>6
    <3>5. \A m \in found : \E i \in 1..Len(inputs') : inputs'[i].key = BridgeKey(m)
      BY <3>3, <1>6
    <3> QED
      BY <3>1, <3>2, <3>4, <3>5
  <2> QED
    BY <1>4, <2>1, <2>2 DEF ns
<1>10. ASSUME NEW q \in Nat, q = pos - Len(left) PROVE Prepared(q)'
  <2>1. log'[q] = e
    BY <1>1, <1>10, <1>u DEF e
  <2>2. ASSUME e.status = "acked", NEW m \in e.msgs PROVE <<q, m>> \in skipped' \/ Listed(m)'
    <3>1. CASE m \in found
      BY <2>2, <3>1, <1>9 DEF Listed
    <3>2. CASE m \notin found
      BY <3>2, <1>1, <1>4, <1>10
    <3> QED
      BY <3>1, <3>2
  <2> QED
    BY <2>1, <2>2 DEF Prepared
<1>11. faults' \in Nat
  BY <1>4, <1>t DEF Fault
<1> QED
  BY <1>1, <1>7, <1>8, <1>9, <1>10, <1>11 DEF o

\* Answers and skipped messages stay, and so do events.
Keeps ==
    /\ \A k \in Keys : keys[k] # "none" => keys'[k] # "none"
    /\ skipped \subseteq skipped' /\ Len(log') >= Len(log) /\ \A o \in 1..Len(log) : log'[o] = log[o]

LEMMA AnswersStay ==
    ASSUME TypeOK, Keeps, NEW o \in 1..Len(log)
    PROVE  /\ Answered(o) => Answered(o)'
           /\ Prepared(o) /\ (\A m \in Msgs : Listed(m) => Listed(m)' \/ keys'[BridgeKey(m)] # "none")
                => Prepared(o)'
<1>1. log[o] \in Entries /\ log'[o] = log[o]
  BY DEF TypeOK, Keeps
<1>2. \A m \in log[o].msgs : m \in Msgs /\ BridgeKey(m) \in Keys
  BY <1>1 DEF Entries, Keys
<1> QED
  BY <1>1, <1>2 DEF Keeps, Answered, Prepared

\* Steps of others, and of the bridge within RecordAckIdempotent.
LEMMA Framed ==
    ASSUME TypeOK, BridgeInv, Keeps,
           UNCHANGED <<ready, pos, committed, marked, batch, left, inputs, failed>>,
           \/ at'[Bridge] = at[Bridge]
           \/ /\ at[Bridge] \in Working /\ at'[Bridge] \in Working
              /\ at'[Bridge] \in {"conflict", "recorded", "unrecorded"} => keys'[Head(inputs).key] # "none"
    PROVE  BridgeInv'
<1>t. /\ inputs \in Seq(Inputs) /\ marked \in Nat /\ pos \in Nat /\ Len(log) \in Nat /\ Len(log') \in Int
      /\ committed \in Nat /\ left \in Seq(Nat) /\ batch \in Seq(Nat)
  BY DEF TypeOK, Keeps
<1>0. Phases /\ Offsets /\ Keyed /\ InWork /\ MarkedIsAnswered
  BY DEF BridgeInv
<1>w. {"idle", "lookup", "mark"} \cap Working = {} /\ {"conflict", "recorded", "unrecorded"} \subseteq Working
  BY DEF Working
<1>1. Phases'
  BY <1>0, <1>w DEF Phases
<1>2. Offsets'
  <2>1. at'[Bridge] = "lookup" => at[Bridge] = "lookup"
    BY <1>w
  <2> QED
    BY <1>0, <1>t, <2>1 DEF Offsets, Keeps
<1>3. Keyed'
  <2>1. inputs # <<>> => Head(inputs).key \in Keys
    <3>1. inputs # <<>> => Head(inputs) \in Inputs
      BY <1>t
    <3> QED
      BY <3>1 DEF Inputs
  <2>2. at[Bridge] \in Working => inputs # <<>>
    BY <1>0 DEF Phases
  <2> QED
    BY <1>0, <1>w, <2>1, <2>2 DEF Keyed, Keeps
<1>4. InWork'
  <2>1. at'[Bridge] # "idle" => at[Bridge] # "idle" /\ ready
    BY <1>0, <1>w DEF Phases
  <2>2. LookedUp' = LookedUp
    BY <1>w DEF LookedUp
  <2>3. at[Bridge] # "idle" => \A o \in marked + 1..LookedUp : o \in 1..Len(log)
    <3>1. at[Bridge] # "idle" => pos <= Len(log) + 1
      BY <1>0 DEF Phases, Offsets
    <3> QED
      BY <1>t, <3>1 DEF LookedUp
  <2>4. \A m \in Msgs : Listed(m)' = Listed(m)
    BY DEF Listed
  <2> QED
    BY <1>0, <2>1, <2>2, <2>3, <2>4, AnswersStay DEF InWork
<1>5. MarkedIsAnswered'
  <2>1. \A o \in 1..marked : Answered(o)
    BY <1>0 DEF MarkedIsAnswered, Answered
  <2>2. \A o \in 1..marked : o \in 1..Len(log)
    BY <1>0, <1>t DEF Offsets
  <2>3. \A o \in 1..marked' : Answered(o)'
    BY <2>1, <2>2, AnswersStay
  <2> QED
    BY <2>3 DEF MarkedIsAnswered, Answered
<1> QED
  BY <1>1, <1>2, <1>3, <1>4, <1>5 DEF BridgeInv

BridgeStep ==
    Setup \/ Receive \/ Flush \/ AckInputForEvent \/ NextInput \/ MarkBatch \/ Commit \/ SessionEnds

LEMMA BridgeTypes ==
    ASSUME TypeOK, Phases, Offsets, BridgeStep
    PROVE  /\ TypeOK' /\ UNCHANGED <<deployed, rows, keys, snap, batching, log>>
           /\ notif'.acked = notif.acked /\ notif'.business = notif.business
           /\ \A x \in Calls : at'[x] = at[x]
<1>0. AcksOK /\ CallsOK /\ BatcherOK /\ LogOK /\ BridgeOK /\ faults \in Nat
  BY TypeParts
<1>b. Bridge \in Callers /\ Bridge \notin Calls /\ Calls \subseteq Callers
  BY AcksAssumption DEF AcksAssumption, Callers
<1>1. UNCHANGED <<deployed, rows, keys, snap, batching, log>>
  BY DEF BridgeStep, Setup, Receive, Flush, AckInputForEvent, NextInput, MarkBatch, Commit, SessionEnds, acks, call
<1>2. UNCHANGED at \/ \E s \in Places : Goto(Bridge, s)
  BY DEF BridgeStep, Setup, Receive, Flush, AckInputForEvent, NextInput, MarkBatch, Commit, SessionEnds, call,
         Places, Working
<1>3. /\ at' \in [Callers -> Places]
      /\ \A x \in Calls : at'[x] = at[x]
  BY <1>0, <1>b, <1>2 DEF CallsOK, Goto
<1>4. UNCHANGED notif \/ AckInputForEvent
  BY DEF BridgeStep, Setup, Receive, Flush, NextInput, MarkBatch, Commit, SessionEnds, acks
<1>5. notif' \in Notifications /\ notif'.acked = notif.acked /\ notif'.business = notif.business
  BY <1>0, <1>4, Looks DEF AcksOK
<1>6. faults' \in Nat
  BY <1>0, Looks DEF BridgeStep, Setup, Receive, Flush, NextInput, MarkBatch, Commit, SessionEnds, Fault
<1>7. BridgeOK'
  <2>e. <<>> \in Seq(Nat) /\ <<>> \in Seq(Inputs)
    OBVIOUS
  <2>1. CASE Setup
    <3>1. pos' \in Nat \ {0} /\ marked' \in Nat
      BY <2>1, <1>0 DEF Setup, BridgeOK, LogOK
    <3>2. skipped' \subseteq Nat \X Msgs
      <4>1. \A o \in 1..Len(log) : o \in Nat /\ log[o].msgs \subseteq Msgs
        <5>1. \A o \in 1..Len(log) : o \in Nat /\ log[o] \in Entries
          BY <1>0 DEF LogOK
        <5> QED
          BY <5>1 DEF Entries
      <4> QED
        BY <2>1, <4>1, <1>0 DEF Setup, BridgeOK
    <3> QED
      BY <2>1, <3>1, <3>2, <1>0 DEF Setup, BridgeOK, bridge
  <2>2. CASE Receive
    <3>1. batch' \in Seq(Nat)
      BY <2>2, <1>0, Appended DEF Receive, BridgeOK
    <3> QED
      BY <2>2, <3>1, <1>0 DEF Receive, BridgeOK
  <2>3. CASE Flush
    BY <2>3, <2>e, <1>0 DEF Flush, BridgeOK
  <2>4. CASE AckInputForEvent
    <3>1. left' \in Seq(Nat)
      BY <2>4, <1>0 DEF AckInputForEvent, BridgeOK
    <3>2. inputs' \in Seq(Inputs) /\ skipped' \subseteq Nat \X Msgs
      BY <2>4, Looks
    <3> QED
      BY <2>4, <3>1, <3>2, <1>0 DEF AckInputForEvent, BridgeOK
  <2>5. CASE NextInput
    <3>1. inputs' \in Seq(Inputs)
      <4>1. at[Bridge] \in {"recorded", "unrecorded", "error"} => inputs # <<>>
        BY DEF Phases, Working
      <4>2. inputs # <<>> => Tail(inputs) \in Seq(Inputs)
        BY <1>0 DEF BridgeOK
      <4> QED
        BY <2>5, <4>1, <4>2, <1>0 DEF NextInput, BridgeOK
    <3>2. failed' \in BOOLEAN
      BY <2>5, <1>0 DEF NextInput, BridgeOK
    <3> QED
      BY <2>5, <3>1, <3>2, <1>0 DEF NextInput, BridgeOK
  <2>6. CASE MarkBatch
    <3>1. batch # <<>>
      BY <2>6 DEF MarkBatch, Phases
    <3>2. batch[Len(batch)] \in Nat
      BY <3>1, <1>0 DEF BridgeOK
    <3> QED
      BY <2>6, <3>2, <2>e, <1>0 DEF MarkBatch, BridgeOK
  <2>7. CASE Commit
    BY <2>7, <1>0 DEF Commit, BridgeOK, bridge
  <2>8. CASE SessionEnds
    BY <2>8, <2>e, <1>0 DEF SessionEnds, BridgeOK
  <2> QED
    BY <2>1, <2>2, <2>3, <2>4, <2>5, <2>6, <2>7, <2>8 DEF BridgeStep
<1>8. AcksOK' /\ CallsOK' /\ BatcherOK' /\ LogOK'
  BY <1>0, <1>1, <1>3, <1>5 DEF AcksOK, CallsOK, BatcherOK, LogOK, batching
<1>9. TypeOK'
  BY <1>6, <1>7, <1>8 DEF TypeOK, AcksOK, CallsOK, BatcherOK, LogOK, BridgeOK, Places, Working
<1> QED
  BY <1>1, <1>3, <1>5, <1>9

LEMMA BridgeSteps ==
    ASSUME TypeOK, BridgeInv, BridgeStep
    PROVE  BridgeInv'
<1>0. Phases /\ Offsets /\ Keyed /\ InWork /\ MarkedIsAnswered
  BY DEF BridgeInv
<1>t. /\ inputs \in Seq(Inputs) /\ marked \in Nat /\ pos \in Nat \ {0} /\ Len(log) \in Nat /\ committed \in Nat
      /\ left \in Seq(Nat) /\ batch \in Seq(Nat) /\ Len(left) \in Nat /\ Len(batch) \in Nat /\ Len(inputs) \in Nat
      /\ ready \in BOOLEAN /\ at \in [Callers -> Places] /\ Bridge \in Callers
  BY TypeParts DEF BridgeOK, LogOK, CallsOK, Callers
<1>n. /\ marked \in Nat /\ pos \in Nat \ {0} /\ Len(log) \in Nat /\ committed \in Nat
      /\ Len(left) \in Nat /\ Len(batch) \in Nat /\ Len(inputs) \in Nat
  BY <1>t
<1>r. ready => /\ pos <= Len(log) + 1 /\ Len(batch) = pos - 1 - marked
               /\ \A i \in 1..Len(batch) : batch[i] = marked + i
  BY <1>0 DEF Offsets
<1>c. committed <= marked /\ marked <= Len(log)
  BY <1>0 DEF Offsets
<1>k. UNCHANGED <<keys, log>> /\ skipped \subseteq skipped'
  <2>1. skipped \subseteq skipped'
    BY <1>0, Looks DEF BridgeStep, Setup, Receive, Flush, NextInput, MarkBatch, Commit, SessionEnds
  <2> QED
    BY <2>1, <1>0, BridgeTypes
<1>p. Keeps
  BY <1>k, <1>t DEF Keeps
<1>a. \A o \in 1..marked : o \in 1..Len(log) /\ Answered(o)'
  <2>1. \A o \in 1..marked : o \in 1..Len(log)
    BY <1>0, <1>t DEF Offsets
  <2>2. \A o \in 1..marked : Answered(o)
    BY <1>0 DEF MarkedIsAnswered, Answered
  <2> QED
    BY <2>1, <2>2, <1>p, AnswersStay
<1>m. (\A o \in 1..marked' : Answered(o)') => MarkedIsAnswered'
  BY DEF MarkedIsAnswered, Answered
<1>1. CASE Setup
  <2>1. /\ ~ready /\ ready' = TRUE /\ UNCHANGED <<at, committed, batch, left, inputs, failed>>
        /\ at[Bridge] = "idle" /\ batch = <<>>
    BY <1>1, <1>0 DEF Setup, call, bridge, Phases
  <2>2. \/ committed = 0 /\ pos' = Len(log) + 1 /\ marked' = Len(log)
           /\ skipped' = skipped \cup UNION {{<<o, m>> : m \in log[o].msgs} : o \in 1..Len(log)}
        \/ committed > 0 /\ pos' = committed + 1 /\ marked' = committed
    BY <1>1, <1>t DEF Setup
  <2>3. Phases' /\ Keyed' /\ InWork'
    BY <2>1, <1>0, <1>k DEF Phases, Keyed, InWork, Working
  <2>4. Offsets'
    BY <2>1, <2>2, <1>0, <1>t, <1>k DEF Offsets
  <2>5. CASE committed = 0
    <3>1. \A o \in 1..Len(log) : \A m \in log[o].msgs : <<o, m>> \in skipped'
      BY <2>2, <2>5, <1>t
    <3>2. \A o \in 1..marked' : Answered(o)'
      BY <2>2, <2>5, <3>1, <1>k, <1>t DEF Answered
    <3> QED
      BY <2>3, <2>4, <3>2, <1>m DEF BridgeInv
  <2>6. CASE committed > 0
    <3>1. marked' \in Nat /\ marked' <= marked
      BY <2>2, <2>6, <1>0, <1>t DEF Offsets
    <3>2. \A o \in 1..marked' : Answered(o)'
      BY <3>1, <1>a, <1>t
    <3> QED
      BY <2>3, <2>4, <3>2, <1>m DEF BridgeInv
  <2> QED
    BY <2>5, <2>6, <1>t
<1>2. CASE Receive
  <2>1. /\ ready /\ at[Bridge] = "idle" /\ pos <= Len(log) /\ batch' = Append(batch, pos) /\ pos' = pos + 1
        /\ UNCHANGED <<at, ready, committed, marked, left, inputs, failed>>
    BY <1>2 DEF Receive, call
  <2>2. /\ Len(batch') = Len(batch) + 1 /\ batch'[Len(batch) + 1] = pos
        /\ \A i \in 1..Len(batch) : batch'[i] = batch[i]
    BY <2>1, <1>t, Appended
  <2>3. Phases' /\ Keyed' /\ InWork'
    BY <2>1, <1>0, <1>k DEF Phases, Keyed, InWork, Working
  <2>4. Offsets'
    <3>1. ASSUME NEW i \in 1..Len(batch') PROVE batch'[i] = marked + i
      <4>1. CASE i \in 1..Len(batch)
        BY <2>1, <2>2, <4>1, <1>r
      <4>2. CASE i = Len(batch) + 1
        BY <2>1, <2>2, <4>2, <1>n, <1>r
      <4> QED
        BY <2>2, <3>1, <4>1, <4>2, <1>n
    <3> QED
      BY <2>1, <2>2, <3>1, <1>0, <1>t, <1>k DEF Offsets
  <2> QED
    BY <2>1, <2>3, <2>4, <1>a, <1>m DEF BridgeInv
<1>3. CASE Flush
  <2>1. /\ ready /\ batch # <<>> /\ left' = batch /\ inputs' = <<>> /\ at'[Bridge] = "lookup"
        /\ UNCHANGED <<ready, pos, committed, marked, batch>>
    BY <1>3, <1>t DEF Flush, Goto
  <2>2. Phases' /\ Keyed'
    BY <2>1 DEF Phases, Keyed, Working
  <2>3. Offsets'
    <3>1. \A i \in 1..Len(batch) : batch[i] = pos - 1 - Len(batch) + i
      <4>1. marked = pos - 1 - Len(batch)
        BY <2>1, <1>n, <1>r
      <4> QED
        BY <2>1, <4>1, <1>r
    <3>2. Len(left') <= Len(batch') /\ \A i \in 1..Len(left') : left'[i] = pos' - 1 - Len(left') + i
      BY <2>1, <3>1, <1>n
    <3> QED
      BY <2>1, <3>2, <1>r, <1>c, <1>k DEF Offsets
  <2>4. InWork'
    <3>1. LookedUp' = marked
      BY <2>1, <1>0, <1>t DEF LookedUp, Offsets
    <3> QED
      BY <2>1, <3>1, <1>t DEF InWork
  <2> QED
    BY <2>1, <2>2, <2>3, <2>4, <1>a, <1>m DEF BridgeInv
<1>4. CASE AckInputForEvent
  <2>1. /\ at[Bridge] = "lookup" /\ left # <<>> /\ left' = Tail(left)
        /\ UNCHANGED <<at, ready, pos, committed, marked, batch, failed>>
    BY <1>4 DEF AckInputForEvent, call
  <2>2. Len(left') = Len(left) - 1 /\ Len(left') \in Nat /\ \A i \in 1..Len(left') : left'[i] = left[i + 1]
    BY <2>1, <1>t
  <2>3. /\ Len(inputs') \in Nat /\ Len(inputs') >= Len(inputs)
        /\ \A i \in 1..Len(inputs) : inputs'[i] = inputs[i]
        /\ \A i \in Len(inputs) + 1..Len(inputs') : inputs'[i].key # NoKey
        /\ \A q \in Nat : q = pos - Len(left) => Prepared(q)'
        /\ pos - Len(left) \in 1..Len(log)
    <3>1. inputs' \in Seq(Inputs)
      BY <1>4, <1>0, Looks
    <3> QED
      BY <1>4, <1>0, <3>1, Looks
  <2>4. Phases'
    BY <2>1, <1>0 DEF Phases, Working
  <2>5. Offsets'
    BY <2>1, <2>2, <1>0, <1>t, <1>k DEF Offsets
  <2>6. Keyed'
    <3>1. \A i \in 1..Len(inputs') : inputs'[i].key # NoKey
      <4>1. \A i \in 1..Len(inputs) : inputs[i].key # NoKey
        BY <1>0 DEF Keyed
      <4>2. \A i \in 1..Len(inputs') : i \in 1..Len(inputs) \/ i \in Len(inputs) + 1..Len(inputs')
        BY <2>3, <1>n
      <4> QED
        BY <2>3, <4>1, <4>2
    <3> QED
      BY <2>1, <3>1 DEF Keyed
  <2>7. InWork'
    <3>1. LookedUp = pos - 1 - Len(left) /\ LookedUp' = LookedUp + 1 /\ LookedUp' = pos - Len(left)
      BY <2>1, <2>2, <1>t DEF LookedUp
    <3>2. ASSUME ~failed, NEW o \in marked + 1..LookedUp' PROVE Prepared(o)'
      <4>1. CASE o = LookedUp'
        BY <2>3, <3>1, <4>1, <1>t
      <4>2. CASE o \in marked + 1..LookedUp
        <5>1. Prepared(o)
          BY <2>1, <3>2, <4>2, <1>0 DEF InWork
        <5>2. o \in 1..Len(log)
          BY <2>3, <3>1, <4>2, <1>t
        <5>3. \A m \in Msgs : Listed(m) => Listed(m)'
          <6>1. \A i \in 1..Len(inputs) : i \in 1..Len(inputs') /\ inputs'[i] = inputs[i]
            BY <2>3, <1>n
          <6> QED
            BY <6>1 DEF Listed
        <5> QED
          BY <5>1, <5>2, <5>3, <1>p, AnswersStay
      <4>3. LookedUp \in Int /\ LookedUp' = LookedUp + 1
        BY <3>1, <1>n
      <4>4. o = LookedUp' \/ o \in marked + 1..LookedUp
        BY <3>2, <4>3, <1>n
      <4> QED
        BY <4>1, <4>2, <4>4
    <3> QED
      BY <2>1, <3>2 DEF InWork
  <2> QED
    BY <2>1, <2>4, <2>5, <2>6, <2>7, <1>a, <1>m DEF BridgeInv
<1>5. CASE NextInput
  <2>1. UNCHANGED <<ready, pos, committed, marked, batch, left, skipped>>
    BY <1>5 DEF NextInput
  <2>2. /\ at[Bridge] \in {"lookup", "recorded", "unrecorded", "error"} /\ left = <<>> /\ ready /\ batch # <<>>
        /\ at'[Bridge] \in {"mark", "new"} /\ at'[Bridge] = (IF inputs' = <<>> THEN "mark" ELSE "new")
    <3>1. CASE at[Bridge] = "lookup" /\ left = <<>> /\ UNCHANGED inputs
      BY <1>5, <3>1, <1>0, <1>t DEF NextInput, Goto, Phases
    <3>2. CASE at[Bridge] \in {"recorded", "unrecorded", "error"} /\ inputs' = Tail(inputs)
      <4>1. inputs # <<>> /\ left = <<>> /\ ready /\ batch # <<>>
        BY <3>2, <1>0 DEF Phases, Working
      <4>2. Len(inputs) = 1 <=> Tail(inputs) = <<>>
        <5>1. Tail(inputs) \in Seq(Inputs) /\ Len(Tail(inputs)) = Len(inputs) - 1
          BY <4>1, <1>t
        <5>2. Tail(inputs) = <<>> <=> Len(Tail(inputs)) = 0
          BY <5>1, IsEmpty
        <5> QED
          BY <5>1, <5>2, <1>n
      <4> QED
        BY <1>5, <3>2, <4>1, <4>2, <1>t DEF NextInput, Goto
    <3> QED
      BY <1>5, <3>1, <3>2 DEF NextInput
  <2>3. Phases'
    BY <2>1, <2>2 DEF Phases, Working
  <2>4. Offsets'
    BY <2>1, <2>2, <1>0, <1>k DEF Offsets
  <2>5. \/ UNCHANGED <<inputs, failed>>
        \/ /\ inputs # <<>> /\ inputs' = Tail(inputs) /\ at[Bridge] \in {"recorded", "unrecorded", "error"}
           /\ failed' = (failed \/ at[Bridge] = "error")
    BY <1>5, <1>0 DEF NextInput, Phases, Working
  <2>6. inputs # <<>> => /\ Len(Tail(inputs)) = Len(inputs) - 1
                         /\ \A i \in 1..Len(Tail(inputs)) : Tail(inputs)[i] = inputs[i + 1]
                         /\ Head(inputs) = inputs[1]
    BY <1>t
  <2>7. Keyed'
    <3>1. \A i \in 1..Len(inputs) : inputs[i].key # NoKey
      BY <1>0 DEF Keyed
    <3>2. \A i \in 1..Len(inputs') : inputs'[i].key # NoKey
      <4>1. CASE inputs' = inputs
        BY <3>1, <4>1
      <4>2. CASE inputs # <<>> /\ inputs' = Tail(inputs)
        <5>1. \A i \in 1..Len(inputs') : i + 1 \in 1..Len(inputs) /\ inputs'[i] = inputs[i + 1]
          BY <2>6, <4>2, <1>n
        <5> QED
          BY <3>1, <5>1
      <4> QED
        BY <2>5, <4>1, <4>2
    <3> QED
      BY <2>2, <3>2 DEF Keyed
  <2>8. InWork'
    <3>1. LookedUp' = pos - 1 /\ LookedUp = pos - 1
      BY <2>1, <2>2, <1>t DEF LookedUp
    <3>2. ASSUME ~failed' PROVE ~failed /\ \A m \in Msgs : Listed(m) => Listed(m)' \/ keys'[BridgeKey(m)] # "none"
      <4>1. CASE UNCHANGED <<inputs, failed>>
        BY <3>2, <4>1 DEF Listed
      <4>2. CASE inputs # <<>> /\ inputs' = Tail(inputs) /\ at[Bridge] \in {"recorded", "unrecorded"} /\ ~failed
        <5>1. keys[inputs[1].key] # "none"
          BY <2>6, <4>2, <1>0 DEF Keyed
        <5>2. ASSUME NEW i \in 1..Len(inputs), i # 1 PROVE i - 1 \in 1..Len(inputs') /\ inputs'[i - 1] = inputs[i]
          BY <2>6, <4>2, <5>2, <1>t
        <5> QED
          BY <4>2, <5>1, <5>2, <1>k DEF Listed
      <4> QED
        BY <2>5, <3>2, <4>1, <4>2
    <3>3. \A o \in marked + 1..pos - 1 : o \in 1..Len(log)
      BY <2>2, <1>0, <1>t DEF Offsets
    <3> QED
      BY <2>1, <2>2, <3>1, <3>2, <3>3, <1>0, <1>p, AnswersStay DEF InWork
  <2> QED
    BY <2>1, <2>3, <2>4, <2>7, <2>8, <1>a, <1>m DEF BridgeInv
<1>6. CASE MarkBatch
  <2>1. /\ at[Bridge] = "mark" /\ ~failed /\ marked' = batch[Len(batch)] /\ batch' = <<>> /\ at'[Bridge] = "idle"
        /\ UNCHANGED <<ready, pos, committed, left, inputs>>
    BY <1>6, <1>t DEF MarkBatch, Goto
  <2>2. batch # <<>> /\ inputs = <<>> /\ left = <<>> /\ ready
    BY <2>1, <1>0 DEF Phases
  <2>3. Len(batch) > 0
    BY <2>2, <1>t
  <2>4. marked' = pos - 1 /\ marked' >= marked /\ marked' <= Len(log)
    <3>1. batch[Len(batch)] = marked + Len(batch)
      BY <2>2, <2>3, <1>n, <1>r
    <3> QED
      BY <2>1, <2>2, <2>3, <3>1, <1>n, <1>r
  <2>5. Phases' /\ Keyed' /\ InWork'
    BY <2>1, <2>2, <1>0 DEF Phases, Keyed, InWork, Working
  <2>6. Offsets'
    BY <2>1, <2>2, <2>4, <1>0, <1>t, <1>k DEF Offsets
  <2>7. ASSUME NEW o \in marked + 1..pos - 1 PROVE Answered(o)'
    <3>1. LookedUp = pos - 1
      BY <2>1, <1>t DEF LookedUp
    <3>2. Prepared(o) /\ o \in 1..Len(log)
      BY <2>1, <2>4, <2>7, <3>1, <1>0, <1>t DEF InWork
    <3>3. \A m : ~Listed(m)
      BY <2>2 DEF Listed
    <3>4. Answered(o)
      BY <3>2, <3>3 DEF Prepared, Answered
    <3> QED
      BY <3>2, <3>4, <1>p, AnswersStay
  <2>8. \A o \in 1..marked' : Answered(o)'
    BY <2>4, <2>7, <1>a, <1>t
  <2> QED
    BY <2>5, <2>6, <2>8, <1>m DEF BridgeInv
<1>7. CASE Commit
  <2>1. UNCHANGED <<at, ready, pos, marked, batch, left, inputs, failed>> /\ committed' = marked
    BY <1>7 DEF Commit, call, bridge
  <2>2. Phases' /\ Keyed' /\ Offsets'
    BY <2>1, <1>0, <1>t, <1>k DEF Phases, Keyed, Offsets
  <2>3. InWork'
    BY <1>7, <2>1, <1>0, <1>k DEF InWork, LookedUp, Prepared, Listed, Commit
  <2> QED
    BY <2>1, <2>2, <2>3, <1>a, <1>m DEF BridgeInv
<1>8. CASE SessionEnds
  <2>1. /\ ready' = FALSE /\ batch' = <<>> /\ inputs' = <<>> /\ at'[Bridge] = "idle"
        /\ UNCHANGED <<committed, marked>>
    BY <1>8, <1>t DEF SessionEnds, Goto
  <2>2. Phases' /\ Keyed' /\ InWork' /\ Offsets'
    BY <2>1, <1>0, <1>k DEF Phases, Keyed, InWork, Offsets, Working
  <2> QED
    BY <2>1, <2>2, <1>a, <1>m DEF BridgeInv
<1> QED
  BY <1>1, <1>2, <1>3, <1>4, <1>5, <1>6, <1>7, <1>8 DEF BridgeStep

-----------------------------------------------------------------------------
(* RecordAckIdempotent *)

LEMMA BackedParts == Backed <=> CountBacked /\ (notif.business = "satisfied" => Supported)
BY DEF Backed, CountBacked, Supported

LEMMA DeployedType ==
    ASSUME TypeOK
    PROVE  /\ deployed.policy \in Policies /\ IsFiniteSet(deployed.targets)
           /\ Cardinality(deployed.targets) \in Nat /\ ExpectedAckCount \in Nat
<1>1. deployed.policy \in Policies /\ IsFiniteSet(deployed.targets)
  BY AcksAssumption DEF AcksAssumption, TypeOK
<1>2. Cardinality(deployed.targets) \in Nat
  BY <1>1, FS_CardinalityType
<1> QED
  BY <1>1, <1>2 DEF ExpectedAckCount

LEMMA CountType ==
    ASSUME TypeOK
    PROVE  IsFiniteSet(Counted) /\ Cardinality(Counted) \in Nat
<1>1. IsFiniteSet(rows) /\ Counted \subseteq rows
  BY DEF TypeOK, Counted
<1> QED
  BY <1>1, FS_Subset, FS_CardinalityType

\* A row that is inserted is a new one, so the count of the rows follows the counter.
LEMMA CountFollows ==
    ASSUME TypeOK, NEW x \in Callers, UNCHANGED deployed, ~NothingToRecord(x), rows' = rows \cup {In(x)}
    PROVE  Cardinality(Counted') = Cardinality(Counted) + IF CountsFor(In(x)) THEN 1 ELSE 0
<1> DEFINE i == In(x)
<1>1. i \notin rows
  BY DEF NothingToRecord
<1>3. Counted' = {a \in rows' : deployed.policy # "all_devices" \/ deployed.targets = {} \/ a.device \in deployed.targets}
  BY DEF Counted, CountsFor
<1>4. Counted = {a \in rows : deployed.policy # "all_devices" \/ deployed.targets = {} \/ a.device \in deployed.targets}
  BY DEF Counted, CountsFor
<1>5. CountsFor(i) <=> (deployed.policy # "all_devices" \/ deployed.targets = {} \/ i.device \in deployed.targets)
  BY DEF CountsFor
<1> HIDE DEF i
<1>r. rows' = rows \cup {i}
  BY DEF i
<1>6. CASE CountsFor(i)
  <2>1. Counted' = Counted \cup {i} /\ i \notin Counted
    BY <1>1, <1>3, <1>4, <1>5, <1>6, <1>r
  <2>2. Cardinality(Counted \cup {i}) = Cardinality(Counted) + 1
    BY <2>1, CountType, FS_AddElement
  <2> QED
    BY <1>6, <2>1, <2>2 DEF i
<1>7. CASE ~CountsFor(i)
  <2>1. Counted' = Counted
    BY <1>1, <1>3, <1>4, <1>5, <1>7, <1>r
  <2> QED
    BY <1>7, <2>1, CountType DEF i
<1> QED
  BY <1>6, <1>7

LEMMA CallBacked ==
    ASSUME TypeOK, Phases, SnapsBacked, Backed, NEW x \in Callers, Calling(x)
    PROVE  SnapsBacked' /\ Backed'
<1>0. CountBacked /\ (notif.business = "satisfied" => Supported)
  BY BackedParts
<1>d. UNCHANGED deployed /\ ExpectedAckCount' = ExpectedAckCount
  BY DEF Calling, ExpectedAckCount
<1>t. /\ snap \in [Callers -> Notifications] /\ Cardinality(Counted) \in Nat
      /\ \A y \in Callers : snap[y].acked \in Nat
      /\ notif.acked \in Nat
  BY CountType DEF TypeOK, Notifications
<1>s. \A y \in Callers : snap'[y] = snap[y] \/ snap'[y] = notif
  BY <1>t DEF Calling
<1>s2. \A y \in Callers : snap'[y].acked <= Cardinality(Counted) /\ snap'[y].acked \in Nat
  BY <1>0, <1>s, <1>t DEF SnapsBacked, CountBacked
<1>1. CASE UNCHANGED <<rows, notif>>
  <2>1. Counted' = Counted
    BY <1>1, <1>d DEF Counted, CountsFor
  <2>2. SnapsBacked'
    BY <2>1, <1>s2 DEF SnapsBacked
  <2>3. CountBacked' /\ (notif'.business = "satisfied" => Supported')
    BY <2>1, <1>0, <1>1, <1>d DEF CountBacked, Supported
  <2> QED
    BY <2>2, <2>3 DEF Backed, CountBacked, Supported
<1>2. CASE ~NothingToRecord(x) /\ InsertAck(x)
  <2> DEFINE more == IF CountsFor(In(x)) THEN 1 ELSE 0
             total == snap[x].acked + more
  <2>1. /\ rows' = rows \cup {In(x)} /\ notif'.acked = total
        /\ notif'.business = IF Satisfied(x) THEN "satisfied" ELSE "pending"
    BY <1>2, Inserted
  <2>2. Cardinality(Counted') = Cardinality(Counted) + more
    BY <1>2, <1>d, <2>1, CountFollows
  <2>3. Satisfied(x) <=> ackPolicySatisfied(In(x).device, total)
    BY DEF Satisfied
  <2>m. more \in Nat
    OBVIOUS
  <2>n. snap[x].acked \in Nat /\ snap[x].acked <= Cardinality(Counted)
    BY <1>t DEF SnapsBacked
  <2> HIDE DEF more
  <2>4. SnapsBacked'
    <3>1. Cardinality(Counted') \in Nat /\ Cardinality(Counted') >= Cardinality(Counted)
      BY <2>2, <2>m, <1>t
    <3>2. \A y \in Callers : snap'[y].acked <= Cardinality(Counted')
      BY <3>1, <1>s2, <1>t
    <3> QED
      BY <3>2 DEF SnapsBacked
  <2>5. total \in Nat /\ total <= Cardinality(Counted') /\ Cardinality(Counted') \in Nat
    BY <2>2, <2>m, <2>n, <1>t
  <2> HIDE DEF total
  <2>6. ASSUME Satisfied(x) PROVE Supported'
    <3>1. deployed.policy \in Policies /\ Cardinality(deployed.targets) \in Nat /\ ExpectedAckCount \in Nat
      BY DeployedType
    <3>2. CASE deployed.policy \in {"none", "best_effort"}
      BY <3>2, <1>d DEF Supported
    <3>3. CASE deployed.policy = "primary_device" /\ deployed.primary # NoDevice
      <4>1. In(x).device = deployed.primary
        BY <2>3, <2>6, <3>3 DEF ackPolicySatisfied
      <4> QED
        BY <2>1, <3>3, <4>1, <1>d DEF Supported
    <3>4. CASE deployed.policy = "primary_device" /\ deployed.primary = NoDevice
      <4>1. total > 0
        BY <2>3, <2>6, <3>4 DEF ackPolicySatisfied
      <4>2. Cardinality(Counted') >= 1
        BY <2>5, <4>1
      <4> QED
        BY <3>4, <4>2, <1>d DEF Supported
    <3>5. CASE deployed.policy = "any_device"
      <4>1. total > 0
        BY <2>3, <2>6, <3>5 DEF ackPolicySatisfied
      <4>2. Cardinality(Counted') >= 1
        BY <2>5, <4>1
      <4> QED
        BY <3>5, <4>2, <1>d DEF Supported
    <3>6. CASE deployed.policy = "all_devices"
      <4>1. total >= ExpectedAckCount
        BY <2>3, <2>6, <3>6 DEF ackPolicySatisfied, ExpectedAckCount
      <4>2. Cardinality(Counted') >= ExpectedAckCount'
        BY <2>5, <3>1, <4>1, <1>d
      <4> QED
        BY <3>6, <4>2, <1>d DEF Supported
    <3> QED
      BY <3>1, <3>2, <3>3, <3>4, <3>5, <3>6 DEF Policies
  <2>7. CountBacked' /\ (notif'.business = "satisfied" => Supported')
    BY <2>1, <2>5, <2>6 DEF CountBacked
  <2> QED
    BY <2>4, <2>7 DEF Backed, CountBacked, Supported
<1> QED
  BY <1>1, <1>2 DEF Calling

\* Nobody else touches the rows, the counter or what a call has read.
LEMMA BackedFrame ==
    ASSUME SnapsBacked, Backed, UNCHANGED <<deployed, rows, snap>>,
           notif'.acked = notif.acked, notif'.business = notif.business
    PROVE  SnapsBacked' /\ Backed'
<1>1. Counted' = Counted /\ ExpectedAckCount' = ExpectedAckCount
  BY DEF Counted, CountsFor, ExpectedAckCount
<1> QED
  BY <1>1 DEF SnapsBacked, Backed

LEMMA CallBridge ==
    ASSUME TypeOK, BridgeInv, Conflicts, NEW x \in Callers, Calling(x)
    PROVE  BridgeInv' /\ Conflicts'
<1>0. Phases /\ Keyed
  BY DEF BridgeInv
<1>i. In(x).key \in Keys
  BY <1>0, InType DEF Calling
<1>t. /\ keys \in [Keys -> {"none", "recorded", "unrecorded"}]
      /\ at \in [Callers -> Places] /\ Bridge \in Callers /\ Calls \subseteq Callers /\ Bridge \notin Calls
      /\ \A c \in Calls : Input[c].key \in Keys
  BY TypeParts, AcksAssumption DEF AcksOK, CallsOK, Callers, AcksAssumption, Inputs
<1>k. \A k \in Keys : keys[k] # "none" => keys'[k] # "none"
  <2>1. CASE UNCHANGED keys
    BY <2>1
  <2>2. CASE Saves(x)
    BY <2>2, <1>i, <1>t DEF Saves
  <2> QED
    BY <2>1, <2>2 DEF Calling
<1>u. UNCHANGED <<ready, pos, committed, marked, batch, left, inputs, failed, skipped, log>>
  BY DEF Calling, bridging, bridge
<1>p. Keeps
  BY <1>k, <1>u, TypeParts DEF Keeps, LogOK
<1>s. PICK s \in Working :
          /\ Goto(x, s)
          /\ s = "conflict" => keys[In(x).key] # "none"
          /\ s \in {"recorded", "unrecorded"} => Saves(x) \/ keys[In(x).key] # "none"
  BY DEF Calling
<1>a. at'[x] = s /\ \A y \in Callers : y # x => at'[y] = at[y]
  BY <1>s, <1>t DEF Goto
<1>1. BridgeInv'
  <2>1. CASE x # Bridge
    <3>1. at'[Bridge] = at[Bridge]
      BY <2>1, <1>a, <1>t
    <3> QED
      BY <3>1, <1>p, <1>u, Framed
  <2>2. CASE x = Bridge
    <3>1. at[Bridge] \in Working /\ at'[Bridge] \in Working
      BY <2>2, <1>a DEF Calling
    <3>2. In(x) = Head(inputs) /\ In(x).key # NoKey
      <4>1. inputs # <<>> /\ inputs \in Seq(Inputs)
        BY <3>1, <1>0 DEF Phases, TypeOK
      <4>2. 1 \in 1..Len(inputs) /\ Head(inputs) = inputs[1]
        BY <4>1
      <4> QED
        BY <2>2, <4>2, <1>0 DEF In, Keyed
    <3>3. Saves(x) => keys'[In(x).key] # "none"
      BY <3>2, <1>i, <1>t DEF Saves
    <3>4. at'[Bridge] \in {"conflict", "recorded", "unrecorded"} => keys'[Head(inputs).key] # "none"
      BY <2>2, <3>2, <3>3, <1>a, <1>s, <1>i, <1>k
    <3> QED
      BY <3>1, <3>4, <1>p, <1>u, Framed
  <2> QED
    BY <2>1, <2>2
<1>2. Conflicts'
  <2>1. ASSUME NEW c \in Calls, at'[c] = "conflict" PROVE keys'[Input[c].key] # "none"
    <3>1. CASE c = x
      BY <2>1, <3>1, <1>a, <1>s, <1>k, <1>t DEF In
    <3>2. CASE c # x
      BY <2>1, <3>2, <1>a, <1>k, <1>t DEF Conflicts
    <3> QED
      BY <3>1, <3>2
  <2> QED
    BY <2>1 DEF Conflicts
<1> QED
  BY <1>1, <1>2

-----------------------------------------------------------------------------
(* The invariant *)

LEMMA Initially == Init => IInv
<1> SUFFICES ASSUME Init PROVE IInv
  OBVIOUS
<1>e. <<>> \in Seq(Publishers) /\ <<>> \in Seq(Msgs) /\ <<>> \in Seq(Entries) /\ <<>> \in Seq(Nat)
      /\ <<>> \in Seq(Inputs) /\ Len(<<>>) = 0
  OBVIOUS
<1>b. Bridge \in Callers /\ Bridge \notin Calls \cup Publishers
  BY AcksAssumption DEF AcksAssumption, Callers
<1>a. PICK S \in SUBSET (Calls \cup Publishers) :
          /\ at = [x \in Callers |-> IF x \in S THEN "new" ELSE "idle"]
          /\ pub = [p \in Publishers |-> IF p \in S THEN "new" ELSE "idle"]
  BY DEF Init
<1>d. deployed \in Deployments /\ deployed.policy \in Policies
  BY AcksAssumption DEF AcksAssumption, Init
<1>n. notif \in Notifications /\ notif.acked = 0 /\ notif.business = InitialBusiness(deployed.policy)
  BY DEF Init, Notifications, InitialBusiness
<1>1. AcksOK /\ CallsOK
  BY <1>a, <1>d, <1>n, FS_EmptySet DEF Init, AcksOK, CallsOK, Places, Working
<1>2. BatcherOK /\ LogOK /\ BridgeOK /\ faults \in Nat
  <2>1. BatcherOK
    BY <1>e, <1>a DEF Init, BatcherOK
  <2>2. LogOK
    BY <1>e DEF Init, LogOK
  <2>3. /\ ready = TRUE /\ failed = FALSE /\ pos = 1 /\ committed = 0 /\ marked = 0 /\ faults = 0
        /\ batch = <<>> /\ left = <<>> /\ inputs = <<>> /\ skipped = {}
    BY DEF Init
  <2>4. BridgeOK /\ faults \in Nat
    <3>1. pos \in Nat \ {0} /\ committed \in Nat /\ marked \in Nat /\ faults \in Nat
      BY <2>3
    <3>2. batch \in Seq(Nat) /\ left \in Seq(Nat) /\ inputs \in Seq(Inputs)
      BY <2>3, <1>e, Zenon
    <3>3. ready \in BOOLEAN /\ failed \in BOOLEAN /\ skipped \subseteq Nat \X Msgs
      BY <2>3, Zenon
    <3> QED
      BY <3>1, <3>2, <3>3, Zenon DEF BridgeOK
  <2> QED
    BY <2>1, <2>2, <2>4
<1>3. TypeOK
  BY <1>1, <1>2, TypeParts
<1>4. Counted = {} /\ Cardinality(Counted) = 0
  BY FS_EmptySet DEF Init, Counted
<1>5. SnapsBacked
  BY <1>4, <1>n DEF Init, SnapsBacked
<1>6. Backed
  <2>1. CountBacked
    BY <1>4, <1>n DEF CountBacked
  <2>2. notif.business = "satisfied" => Supported
    BY <1>n DEF InitialBusiness, Supported
  <2> QED
    BY <2>1, <2>2, BackedParts
<1>7. Conflicts
  BY <1>a DEF Conflicts, Callers
<1>8. BridgeInv
  <2>1. /\ ready /\ pos = 1 /\ committed = 0 /\ marked = 0
        /\ batch = <<>> /\ left = <<>> /\ inputs = <<>> /\ log = <<>>
    BY DEF Init
  <2>2. at[Bridge] = "idle"
    BY <1>a, <1>b DEF Init
  <2> QED
    BY <2>1, <2>2, <1>e DEF BridgeInv, Phases, Offsets, Keyed, InWork, MarkedIsAnswered, Working
<1>9. FlushedAtClose
  BY DEF Init, FlushedAtClose
<1> QED
  BY <1>3, <1>5, <1>6, <1>7, <1>8, <1>9 DEF IInv

LEMMA NextParts == Next <=> (\E x \in Callers : CallStep(x)) \/ RouterStep \/ BridgeStep
BY DEF Next, CallStep, RouterStep, BridgeStep

LEMMA Inductive == IInv /\ [Next]_vars => IInv'
<1> SUFFICES ASSUME IInv, [Next]_vars PROVE IInv'
  OBVIOUS
<1>0. /\ TypeOK /\ SnapsBacked /\ Backed /\ Conflicts /\ BridgeInv /\ FlushedAtClose
      /\ Phases /\ Offsets /\ Keyed
  BY DEF IInv, BridgeInv
<1>1. ASSUME NEW x \in Callers, CallStep(x) PROVE IInv'
  <2>1. Calling(x)
    BY <1>0, <1>1, CallSteps
  <2>2. TypeOK' /\ SnapsBacked' /\ Backed' /\ BridgeInv' /\ Conflicts'
    BY <1>0, <2>1, CallTypes, CallBacked, CallBridge
  <2>3. FlushedAtClose'
    BY <1>0, <2>1 DEF Calling, FlushedAtClose, batching
  <2> QED
    BY <2>2, <2>3 DEF IInv
<1>2. CASE RouterStep
  <2>1. BatcherOK' /\ Grows /\ faults' \in Nat /\ FlushedAtClose' /\ UNCHANGED <<acks, call, bridging>>
    BY <1>0, <1>2, RouterSteps
  <2>2. AcksOK /\ CallsOK /\ LogOK /\ BridgeOK
    BY <1>0, TypeParts
  <2>3. LogOK' /\ Len(log') >= Len(log) /\ \A o \in 1..Len(log) : log'[o] = log[o]
    BY <2>1, <2>2, LogTypes
  <2>4. UNCHANGED <<deployed, notif, rows, keys, at, snap>>
    BY <2>1 DEF acks, call
  <2>5. UNCHANGED <<ready, pos, committed, marked, batch, left, inputs, failed, skipped>>
    BY <2>1 DEF bridging, bridge
  <2>6. AcksOK' /\ CallsOK' /\ BridgeOK'
    BY <2>2, <2>4, <2>5 DEF AcksOK, CallsOK, BridgeOK
  <2>7. TypeOK'
    BY <2>1, <2>3, <2>6 DEF TypeOK, AcksOK, CallsOK, BatcherOK, LogOK, BridgeOK, Places, Working
  <2>8. SnapsBacked' /\ Backed'
    BY <1>0, <2>4, BackedFrame
  <2>9. BridgeInv'
    <3>1. Keeps
      BY <2>3, <2>4, <2>5 DEF Keeps
    <3> QED
      BY <1>0, <2>4, <2>5, <3>1, Framed
  <2>10. Conflicts'
    BY <1>0, <2>4 DEF Conflicts
  <2> QED
    BY <2>1, <2>7, <2>8, <2>9, <2>10 DEF IInv
<1>3. CASE BridgeStep
  <2>1. /\ TypeOK' /\ UNCHANGED <<deployed, rows, keys, snap, batching, log>>
        /\ notif'.acked = notif.acked /\ notif'.business = notif.business
        /\ \A x \in Calls : at'[x] = at[x]
    BY <1>0, <1>3, BridgeTypes
  <2>2. SnapsBacked' /\ Backed'
    BY <1>0, <2>1, BackedFrame
  <2>3. BridgeInv'
    BY <1>0, <1>3, BridgeSteps
  <2>4. Conflicts'
    BY <1>0, <2>1 DEF Conflicts
  <2>5. FlushedAtClose'
    BY <1>0, <2>1 DEF FlushedAtClose, batching
  <2> QED
    BY <2>1, <2>2, <2>3, <2>4, <2>5 DEF IInv
<1>4. CASE UNCHANGED vars
  <2>1. /\ UNCHANGED <<deployed, notif, rows, keys, at, snap, log, faults>>
        /\ UNCHANGED <<pub, queue, pending, batcher, late>>
        /\ UNCHANGED <<ready, pos, committed, marked, batch, left, inputs, failed, skipped>>
    BY <1>4 DEF vars, acks, call, batching, bridging, bridge
  <2>2. TypeOK'
    BY <1>0, <2>1 DEF TypeOK
  <2>3. SnapsBacked' /\ Backed'
    BY <1>0, <2>1, BackedFrame
  <2>4. BridgeInv'
    <3>1. Keeps
      BY <1>0, <2>1 DEF Keeps, TypeOK
    <3> QED
      BY <1>0, <2>1, <3>1, Framed
  <2>5. Conflicts' /\ FlushedAtClose'
    BY <1>0, <2>1 DEF Conflicts, FlushedAtClose
  <2> QED
    BY <2>2, <2>3, <2>4, <2>5 DEF IInv
<1> QED
  BY <1>1, <1>2, <1>3, <1>4, NextParts

\* The invariant holds in every state the specification reaches.
THEOREM Invariance == Spec => []IInv
<1>1. Init => IInv
  BY Initially
<1>2. IInv /\ [Next]_vars => IInv'
  BY Inductive
<1> QED
  BY <1>1, <1>2, PTL DEF Spec

\* Every variable keeps its type; the sequences hold what the bridge and the
\* batcher may take from them.
THEOREM Typed == Spec => []TypeOK
<1>1. IInv => TypeOK
  BY DEF IInv
<1> QED
  BY <1>1, Invariance, PTL

\* A counter computed from a stale snapshot never says more than the rows, and
\* no policy counts as satisfied without the rows it asks for, with any number
\* of calls, devices and lost commits.
THEOREM CountersBacked == Spec => []Backed
<1>1. IInv => Backed
  BY DEF IInv
<1> QED
  BY <1>1, Invariance, PTL

\* The bridge marks no event whose acknowledgements are not answered, for any
\* batch, and whatever sessions and calls of the database fail.
THEOREM MarksAnswered == Spec => []MarkedIsAnswered
<1>1. IInv => MarkedIsAnswered
  BY DEF IInv, BridgeInv
<1> QED
  BY <1>1, Invariance, PTL

\* Close of the batcher leaves only what came to the queue after it, for any
\* queue and batch size and any number of publishers.
THEOREM CloseFlushes == Spec => []FlushedAtClose
<1>1. IInv => FlushedAtClose
  BY DEF IInv
<1> QED
  BY <1>1, Invariance, PTL

\* Without target and primary devices a row that is inserted satisfies every
\* policy, so that no later acknowledgement takes it back.
THEOREM SatisfactionStays == Spec => SatisfiedStays
<1> DEFINE A == deployed.targets = {} /\ deployed.primary = NoDevice /\ notif.business = "satisfied"
                   => notif'.business = "satisfied"
<1>1. IInv /\ [Next]_vars => [A]_vars
  <2> SUFFICES ASSUME IInv, Next, deployed.targets = {}, deployed.primary = NoDevice,
                      notif.business = "satisfied"
               PROVE  notif'.business = "satisfied"
    OBVIOUS
  <2>0. TypeOK /\ Phases /\ Offsets /\ Keyed /\ Conflicts /\ FlushedAtClose
    BY DEF IInv, BridgeInv
  <2>1. ASSUME NEW x \in Callers, CallStep(x) PROVE notif'.business = "satisfied"
    <3>1. UNCHANGED notif \/ InsertAck(x)
      BY <2>0, <2>1, CallSteps DEF Calling
    <3>2. CASE InsertAck(x)
      <4>1. CountsFor(In(x))
        BY DEF CountsFor
      <4>2. snap[x].acked \in Nat
        <5>1. snap[x] \in Notifications
          BY <2>0 DEF TypeOK
        <5> QED
          BY <5>1 DEF Notifications
      <4>3. ackPolicySatisfied(In(x).device, snap[x].acked + 1)
        <5>1. deployed.policy \in Policies
          BY <2>0, DeployedType
        <5> QED
          BY <4>2, <5>1 DEF ackPolicySatisfied, ExpectedAckCount, Policies
      <4>4. Satisfied(x)
        BY <4>1, <4>3 DEF Satisfied
      <4> QED
        BY <2>0, <3>2, <4>4, Inserted
    <3> QED
      BY <3>1, <3>2
  <2>2. CASE RouterStep
    BY <2>0, <2>2, RouterSteps DEF acks
  <2>3. CASE BridgeStep
    BY <2>0, <2>3, BridgeTypes
  <2> QED
    BY <2>1, <2>2, <2>3, NextParts
<1> QED
  BY <1>1, Invariance, PTL DEF Spec, SatisfiedStays

=============================================================================
