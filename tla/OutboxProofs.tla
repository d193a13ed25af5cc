---------------------------- MODULE OutboxProofs ----------------------------
(***************************************************************************)
(* Proofs about the outbox for any rows, relays, consumers, workers and    *)
(* retries, with or without Kafka: how often a row is delivered, what is   *)
(* behind its status, and when it is given up.                             *)
(***************************************************************************)
EXTENDS Outbox, FiniteSetTheorems, TLAPS

Busy(a, r) == ~At(a, r, "idle")

\* A right to deliver the row: everybody who may still push it, or give it
\* back for others to push, has one; and so has the row while it can be
\* claimed without a lock being lost.
Holders(r) == {a \in Consumers \cup Workers : job[a][r].at \in {"claimed", "failed", "rejected"}}
Open(r) ==
    \/ status[r] \in {"pending", "failed", "published"}
    \/ /\ status[r] \in {"processing", "delivering"}
       /\ Unlocked(r) \/ by[r] \in Relays \/ At(by[r], r, "idle")

\* Deliveries and rights to deliver are no more than one, and one for each slip.
Rights(r) == Cardinality(Holders(r)) + IF Open(r) THEN 1 ELSE 0
Budget(r) == pushed[r] + Rights(r) <= 1 + slips[r]

\* Who works on a row has its lock, unless something has slipped.
Held(r) ==
    \A a \in Actors : Busy(a, r) =>
        \/ slips[r] > 0
        \/ by[r] = a /\ ~lapsed[r] /\ status[r] \in {"processing", "delivering"}

\* Only relays publish.
Roles(r) == \A a \in Actors : At(a, r, "published") => a \in Relays

\* What is said to be delivered was.
Delivered(r) ==
    \/ status[r] = "sent"
    \/ notif[r] \in {"delivered", "acked"}
    \/ \E a \in Actors : At(a, r, "pushed")
    => pushed[r] > 0

\* Every count of retries, stale or not, is one of tries that failed.
Tried(j, n) ==
    j.at \in {"claimed", "failed"} =>
        j.retry <= MaxRetries /\ j.retry + (IF j.at = "failed" THEN 1 ELSE 0) <= n
Tries(r) ==
    /\ retry[r] <= MaxRetries /\ retry[r] <= fails[r]
    /\ \A a \in Actors : Tried(job[a][r], fails[r])

\* A row that waits for a consumer has a message in the log; it is still to
\* be read, in work, or was given up.
InLog(r) == \E i \in 1..Len(log) : log[i] = r
Awaited(r) == Unread(r) \/ r \in missed
Waits(r) ==
    /\ status[r] \in {"published", "delivering"} =>
          InLog(r) /\ (Awaited(r) \/ \E c \in Consumers : Busy(c, r))
    /\ \A a \in Relays : At(a, r, "published") => InLog(r) /\ (Fenced(a, r) => Awaited(r))

\* A worker is past the claim with one row at a time.
Past(w, r) == job[w][r].at \notin {"idle", "claimed"}
Single == \A w \in Workers : \A q, r \in Rows : Past(w, q) /\ Past(w, r) => q = r

RowInv(r) == Budget(r) /\ Held(r) /\ Roles(r) /\ Delivered(r) /\ Tries(r) /\ Waits(r)
IInv == TypeOK /\ Single /\ \A r \in Rows : RowInv(r)

-----------------------------------------------------------------------------
(* Every variable keeps its type *)

\* What the setup gives stays as it is.
LEMMA SetupStep ==
    ASSUME [Next]_vars
    PROVE  /\ setup' = setup
           /\ Rows' = Rows /\ Relays' = Relays /\ Consumers' = Consumers /\ Workers' = Workers
           /\ Actors' = Actors
<1>1. setup' = setup
  <2>1. ASSUME NEW a, RelayStep(a) PROVE setup' = setup
    BY <2>1 DEF RelayStep, ClaimOutbox, RelayExpire, Publish, RelayMark, HandlePublishFailure
  <2>2. ASSUME NEW c, ConsumerStep(c) \/ ReceiveFails(c) \/ Rebalance(c) PROVE setup' = setup
    BY <2>2 DEF ConsumerStep, Receive, ConsumerExpire, PushEnvelope, HandlePushSuccess, HandlePushFailure,
                ReceiveFails, Rebalance
  <2>3. ASSUME NEW w, WorkerStep(w) PROVE setup' = setup
    BY <2>3 DEF WorkerStep, ClaimOutbox, WorkerExpire, WorkerSkip, WorkerPush, WorkerMark, HandleOutboxFailure
  <2>4. ASSUME NEW a, Crash(a) \/ \E r \in Rows : StoreFails(a, r) PROVE setup' = setup
    BY <2>4 DEF Crash, StoreFails
  <2>5. ASSUME NEW r, Lapse(r) \/ Age(r) \/ Ack(r) \/ ReplayDLQ(r) \/ ResolveDLQ(r) PROVE setup' = setup
    BY <2>5 DEF Lapse, Age, Ack, ReplayDLQ, ResolveDLQ
  <2>6. CASE Campaign
    BY <2>6 DEF Campaign
  <2>7. CASE UNCHANGED vars
    BY <2>7 DEF vars
  <2> QED
    BY <2>1, <2>2, <2>3, <2>4, <2>5, <2>6, <2>7 DEF Next
<1> QED
  BY <1>1 DEF Rows, Relays, Consumers, Workers, Actors

LEMMA Parties ==
    ASSUME TypeOK
    PROVE  /\ NoOne \notin Actors
           /\ IsFiniteSet(Consumers \cup Workers)
           /\ Relays \cap Consumers = {} /\ Relays \cap Workers = {} /\ Consumers \cap Workers = {}
<1>1. setup \in Setups
  BY DEF TypeOK
<1>2. IsFiniteSet(Consumers) /\ IsFiniteSet(Workers)
  BY <1>1, OutboxAssumption DEF OutboxAssumption, Consumers, Workers
<1> QED
  BY <1>1, <1>2, FS_Union, OutboxAssumption DEF OutboxAssumption, Actors, Relays, Consumers, Workers

\* The types of the tables, of the jobs and of the counters.
Statuses == {"pending", "processing", "published", "delivering", "failed"} \cup Terminal
Notifs == {"pending", "queued", "retrying", "delivered", "acked", "expired", "dlq", "dropped"}
StatusOK == status \in [Rows -> Statuses]
LockOK == by \in [Rows -> Actors \cup {NoOne}] /\ lapsed \in [Rows -> BOOLEAN]
TablesOK ==
    /\ StatusOK /\ LockOK
    /\ retry \in [Rows -> Nat]
    /\ notif \in [Rows -> Notifs]
    /\ dlq \in [Rows -> {"none", "open", "closed"}]
CountsOK == pushed \in [Rows -> Nat] /\ slips \in [Rows -> Nat] /\ fails \in [Rows -> Nat] /\ faults \in Nat

\* Every transaction of the store keeps the tables typed.
LEMMA StoreTypes ==
    ASSUME TablesOK, setup' = setup, Rows' = Rows, Actors' = Actors, NEW r \in Rows
    PROVE  /\ UNCHANGED rowVars => TablesOK'
           /\ \A a \in Actors : ClaimPublishedOutbox(a, r) /\ UNCHANGED <<retry, notif, dlq>> => TablesOK'
           /\ MarkOutboxSent(r) => TablesOK'
           /\ \A a : MarkOutboxPublished(a, r) => TablesOK'
           /\ \A a : \A n \in Nat : MarkOutboxPublishRetry(a, r, n) => TablesOK'
           /\ MarkOutboxExpired(r) => TablesOK'
           /\ \A n \in Nat : MarkOutboxRetry(r, n) => TablesOK'
           /\ \A s \in {"dlq", "expired"} : MoveOutboxToDLQ(r, s) => TablesOK'
           /\ MarkOutboxDropped(r) => TablesOK'
<1> USE DEF TablesOK, StatusOK, LockOK, rowVars
<1>1. ASSUME NEW s \in Statuses, Release(r, s) PROVE StatusOK' /\ LockOK'
  BY <1>1 DEF Release
<1>2. ASSUME NEW s \in Notifs, NEW final, Notify(r, s, final) PROVE notif' \in [Rows -> Notifs]
  BY <1>2 DEF Notify
<1>3. UNCHANGED rowVars => TablesOK'
  OBVIOUS
<1>4. ASSUME NEW a \in Actors, ClaimPublishedOutbox(a, r), UNCHANGED <<retry, notif, dlq>> PROVE TablesOK'
  <2>1. StatusOK'
    BY <1>4 DEF ClaimPublishedOutbox, Lock, Statuses
  <2>2. LockOK'
    BY <1>4 DEF ClaimPublishedOutbox, Lock
  <2> QED
    BY <1>4, <2>1, <2>2
<1>m. /\ {"sent", "published", "failed", "expired", "dlq", "dropped"} \subseteq Statuses
      /\ {"delivered", "queued", "retrying", "expired", "dlq", "dropped"} \subseteq Notifs
  BY DEF Statuses, Notifs, Terminal
<1> HIDE DEF StatusOK, LockOK
<1>5. MarkOutboxSent(r) => TablesOK'
  BY <1>m, <1>1, <1>2 DEF MarkOutboxSent
<1>6. ASSUME NEW a, MarkOutboxPublished(a, r) PROVE TablesOK'
  BY <1>6, <1>m, <1>1, <1>2, <1>3 DEF MarkOutboxPublished
<1>7. ASSUME NEW a, NEW n \in Nat, MarkOutboxPublishRetry(a, r, n) PROVE TablesOK'
  BY <1>7, <1>m, <1>1, <1>2, <1>3 DEF MarkOutboxPublishRetry
<1>8. MarkOutboxExpired(r) => TablesOK'
  <2> SUFFICES ASSUME MarkOutboxExpired(r) PROVE TablesOK'
    OBVIOUS
  <2>1. StatusOK' /\ LockOK'
    <3>1. UNCHANGED <<status, by, lapsed>> => StatusOK' /\ LockOK'
      BY DEF StatusOK, LockOK
    <3> QED
      BY <3>1, <1>m, <1>1 DEF MarkOutboxExpired
  <2>2. notif' \in [Rows -> Notifs]
    BY <1>m, <1>2 DEF MarkOutboxExpired
  <2> QED
    BY <2>1, <2>2 DEF MarkOutboxExpired
<1>9. ASSUME NEW n \in Nat, MarkOutboxRetry(r, n) PROVE TablesOK'
  BY <1>9, <1>m, <1>1 DEF MarkOutboxRetry
<1>10. ASSUME NEW s \in {"dlq", "expired"}, MoveOutboxToDLQ(r, s) PROVE TablesOK'
  <2>1. dlq' \in [Rows -> {"none", "open", "closed"}]
    BY <1>10 DEF MoveOutboxToDLQ
  <2>2. StatusOK' /\ LockOK' /\ notif' \in [Rows -> Notifs]
    BY <1>10, <1>m, <1>1, <1>2 DEF MoveOutboxToDLQ
  <2> QED
    BY <1>10, <2>1, <2>2 DEF MoveOutboxToDLQ
<1>11. MarkOutboxDropped(r) => TablesOK'
  BY <1>m, <1>1, <1>2 DEF MarkOutboxDropped
<1> QED
  BY <1>3, <1>4, <1>5, <1>6, <1>7, <1>8, <1>9, <1>10, <1>11

\* A step of one job leaves the others alone.
Points == {"idle", "claimed", "published", "failed", "pushed", "rejected"}
Elsewhere(a, r) == \A b \in Actors, q \in Rows : b # a \/ q # r => job'[b][q] = job[b][q]
AllElse(a) == \A b \in Actors \ {a}, q \in Rows : job'[b][q] = job[b][q]
JobsOK == job \in [Actors -> [Rows -> Job]]

LEMMA GotoJob ==
    ASSUME JobsOK, Rows' = Rows, Actors' = Actors, NEW a \in Actors, NEW r \in Rows,
           NEW s \in Points, Goto(a, r, s)
    PROVE  /\ JobsOK'
           /\ Elsewhere(a, r)
           /\ job'[a][r].at = s /\ (s = "failed" => job'[a][r].retry = job[a][r].retry)
           /\ s # "failed" => job'[a][r].retry = 0
<1> DEFINE j == [at |-> s, retry |-> IF s = "failed" THEN job[a][r].retry ELSE 0]
<1>1. job \in [Actors -> [Rows -> Job]]
  BY DEF JobsOK
<1>2. job' = [job EXCEPT ![a][r] = j]
  BY <1>1 DEF Goto
<1>3. j \in Job /\ j.at = s /\ (s = "failed" => j.retry = job[a][r].retry) /\ (s # "failed" => j.retry = 0)
  BY <1>1 DEF Job, Points
<1> HIDE DEF j
<1>4. job'[a][r] = j /\ job' \in [Actors -> [Rows -> Job]]
  BY <1>1, <1>2, <1>3
<1>5. Elsewhere(a, r)
  BY <1>1, <1>2 DEF Elsewhere
<1> QED
  BY <1>3, <1>4, <1>5 DEF JobsOK

LEMMA FinishJob ==
    ASSUME JobsOK, Rows' = Rows, Actors' = Actors, NEW a \in Actors, NEW r \in Rows, Finish(a, r)
    PROVE  JobsOK' /\ Elsewhere(a, r) /\ job'[a][r].at = "idle"
<1>1. job \in [Actors -> [Rows -> Job]] /\ job' = [job EXCEPT ![a][r] = Idle]
  BY DEF JobsOK, Finish
<1>2. Idle \in Job /\ Idle.at = "idle"
  BY DEF Idle, Job
<1>3. job'[a][r] = Idle /\ job' \in [Actors -> [Rows -> Job]]
  BY <1>1, <1>2
<1>4. Elsewhere(a, r)
  BY <1>1 DEF Elsewhere
<1> QED
  BY <1>2, <1>3, <1>4 DEF JobsOK

LEMMA ResetJobs ==
    ASSUME JobsOK, Rows' = Rows, Actors' = Actors, NEW a \in Actors,
           job' = [job EXCEPT ![a] = [r \in Rows |-> Idle]]
    PROVE  JobsOK' /\ AllElse(a) /\ \A r \in Rows : job'[a][r].at = "idle"
<1>1. job \in [Actors -> [Rows -> Job]]
  BY DEF JobsOK
<1>2. Idle \in Job /\ Idle.at = "idle"
  BY DEF Idle, Job
<1>3. \A r \in Rows : job'[a][r] = Idle
  BY <1>1
<1>4. AllElse(a)
  BY <1>1 DEF AllElse
<1>5. job' \in [Actors -> [Rows -> Job]]
  BY <1>1, <1>2
<1> QED
  BY <1>2, <1>3, <1>4, <1>5 DEF JobsOK

LEMMA ClaimJobs ==
    ASSUME JobsOK, TablesOK, Rows' = Rows, Actors' = Actors, NEW a \in Actors, ClaimOutbox(a)
    PROVE  /\ JobsOK' /\ AllElse(a)
           /\ \A r \in Rows :
                 \/ Claimable(r) /\ job'[a][r].at = "claimed" /\ job'[a][r].retry = retry[r]
                 \/ ~Claimable(r) /\ job'[a][r].at = "idle"
<1>1. job \in [Actors -> [Rows -> Job]] /\ retry \in [Rows -> Nat]
  BY DEF JobsOK, TablesOK
<1> DEFINE claim(r) == [at |-> "claimed", retry |-> retry[r]]
           mine == [r \in Rows |-> IF Claimable(r) THEN claim(r) ELSE Idle]
<1>2. job' = [job EXCEPT ![a] = mine]
  BY DEF ClaimOutbox
<1>3. /\ Idle \in Job /\ Idle.at = "idle"
      /\ \A r \in Rows : claim(r) \in Job /\ claim(r).at = "claimed" /\ claim(r).retry = retry[r]
  BY <1>1 DEF Idle, Job
<1> HIDE DEF claim
<1>4. mine \in [Rows -> Job] /\ \A r \in Rows : mine[r] = IF Claimable(r) THEN claim(r) ELSE Idle
  BY <1>3
<1> HIDE DEF mine
<1>5. job' \in [Actors -> [Rows -> Job]] /\ job'[a] = mine /\ AllElse(a)
  BY <1>1, <1>2, <1>4 DEF AllElse
<1> QED
  BY <1>3, <1>4, <1>5 DEF JobsOK

MqOK ==
    /\ log \in Seq(Rows) /\ pos \in 1..Len(log) + 1
    /\ owner \in Consumers \cup {NoOne} /\ (owner = NoOne <=> Consumers = {})
RestOK == campaign \in {"active", "paused", "cancelled"} /\ old \subseteq Rows /\ missed \subseteq Rows

LEMMA TypeParts ==
    TypeOK <=> setup \in Setups /\ TablesOK /\ JobsOK /\ CountsOK /\ MqOK /\ RestOK
BY DEF TypeOK, TablesOK, StatusOK, LockOK, JobsOK, CountsOK, MqOK, RestOK, Statuses, Notifs

\* The counters after a step.
LEMMA CountTypes ==
    ASSUME CountsOK, Rows' = Rows, pushed' = pushed \/ \E r \in Rows : Pushed(r),
           slips' = slips \/ \E S : Slip(S), fails' = fails \/ \E r \in Rows : Fail(r),
           faults' = faults \/ Fault
    PROVE  CountsOK'
<1>1. pushed' \in [Rows -> Nat]
  BY DEF CountsOK, Pushed
<1>2. slips' \in [Rows -> Nat]
  BY DEF CountsOK, Slip
<1>3. fails' \in [Rows -> Nat]
  BY OutboxAssumption DEF OutboxAssumption, CountsOK, Fail
<1> QED
  BY <1>1, <1>2, <1>3 DEF CountsOK, Fault

LEMMA TypeStep == TypeOK /\ [Next]_vars => TypeOK'
<1> SUFFICES ASSUME TypeOK, [Next]_vars PROVE TypeOK'
  OBVIOUS
<1>0. setup \in Setups /\ TablesOK /\ JobsOK /\ CountsOK /\ MqOK /\ RestOK
  BY TypeParts
<1>s. setup' = setup /\ Rows' = Rows /\ Relays' = Relays /\ Consumers' = Consumers /\ Workers' = Workers
      /\ Actors' = Actors
  BY SetupStep
<1>q. ASSUME TablesOK', JobsOK', CountsOK', MqOK', RestOK' PROVE TypeOK'
  BY <1>0, <1>s, <1>q
     DEF TypeOK, TablesOK, StatusOK, LockOK, JobsOK, CountsOK, MqOK, RestOK, Statuses, Notifs
<1>u. /\ UNCHANGED rowVars => TablesOK'
      /\ UNCHANGED job => JobsOK'
      /\ UNCHANGED <<pushed, slips, fails, faults>> => CountsOK'
      /\ UNCHANGED mqVars => MqOK'
      /\ UNCHANGED <<campaign, old, missed>> => RestOK'
  BY <1>0, <1>s DEF TablesOK, StatusOK, LockOK, JobsOK, CountsOK, MqOK, RestOK, rowVars, mqVars
<1>a. Relays \subseteq Actors /\ Consumers \subseteq Actors /\ Workers \subseteq Actors
  BY DEF Actors
<1>j. ASSUME NEW a \in Actors, NEW r \in Rows, Finish(a, r) \/ \E s \in Points : Goto(a, r, s) PROVE JobsOK'
  BY <1>j, <1>0, <1>s, GotoJob, FinishJob
<1>p. \A a \in Actors, r \in Rows : job[a][r].retry + 1 \in Nat
  BY <1>0 DEF JobsOK, Job
<1>1. ASSUME NEW a \in Actors, ClaimOutbox(a) PROVE TypeOK'
  <2>1. JobsOK'
    BY <1>1, <1>0, <1>s, ClaimJobs
  <2>2. StatusOK' /\ LockOK'
    <3>1. Lock(a, {r \in Rows : Claimable(r)}, "processing")
      BY <1>1 DEF ClaimOutbox
    <3>2. StatusOK'
      BY <3>1, <1>0, <1>s DEF Lock, TablesOK, StatusOK, Statuses
    <3>3. LockOK'
      BY <3>1, <1>0, <1>s DEF Lock, TablesOK, LockOK
    <3> QED
      BY <3>2, <3>3
  <2>3. TablesOK'
    BY <1>1, <2>2, <1>0, <1>s DEF TablesOK, ClaimOutbox
  <2> QED
    BY <1>1, <2>1, <2>3, <1>q, <1>u DEF ClaimOutbox, history
<1>2. ASSUME NEW a \in Relays, NEW r \in Rows, RelayExpire(a, r) \/ RelayMark(a, r) \/ HandlePublishFailure(a, r)
      PROVE  TypeOK'
  <2>1. Finish(a, r) /\ UNCHANGED <<campaign, setup, old, mqVars, history, faults>>
    BY <1>2 DEF RelayExpire, RelayMark, HandlePublishFailure
  <2>2. \/ MarkOutboxExpired(r) \/ MarkOutboxPublished(a, r) \/ MoveOutboxToDLQ(r, "dlq")
        \/ \E n \in Nat : MarkOutboxPublishRetry(a, r, n)
    BY <1>2, <1>a, <1>p DEF RelayExpire, RelayMark, HandlePublishFailure
  <2> QED
    BY <2>1, <2>2, <1>0, <1>a, <1>s, <1>j, <1>q, <1>u, StoreTypes DEF history
<1>3. ASSUME NEW a \in Relays, NEW r \in Rows, Publish(a, r) PROVE TypeOK'
  <2>1. MqOK'
    <3>1. log' \in {log, Append(log, r)} /\ pos' = pos /\ owner' = owner
      BY <1>3 DEF Publish
    <3> QED
      BY <3>1, <1>0, <1>s DEF MqOK
  <2>2. \E s \in Points : Goto(a, r, s)
    BY <1>3 DEF Publish, Points
  <2>3. CountsOK'
    BY <1>3, <1>0, <1>s, CountTypes DEF Publish
  <2>4. UNCHANGED rowVars /\ UNCHANGED <<campaign, old, missed>>
    BY <1>3 DEF Publish
  <2> QED
    BY <2>1, <2>2, <2>3, <2>4, <1>a, <1>j, <1>q, <1>u
<1>4. ASSUME NEW c \in Consumers, Receive(c) PROVE TypeOK'
  <2> DEFINE r == log[pos]
  <2>1. r \in Rows /\ MqOK'
    <3>1. pos <= Len(log) /\ pos' = pos + 1 /\ log' = log /\ owner' = owner
      BY <1>4 DEF Receive
    <3> QED
      BY <3>1, <1>0, <1>s DEF MqOK
  <2>2. UNCHANGED <<retry, notif, dlq, campaign, old, pushed, slips, fails, faults>>
    BY <1>4 DEF Receive
  <2>3. /\ missed' \in {missed, missed \cup {r}}
        /\ \/ UNCHANGED <<status, by, lapsed, job>>
           \/ ClaimPublishedOutbox(c, r) /\ Goto(c, r, "claimed")
    BY <1>4 DEF Receive
  <2>4. "claimed" \in Points
    BY DEF Points
  <2> HIDE DEF r
  <2>5. TablesOK'
    BY <2>1, <2>2, <2>3, <1>0, <1>a, <1>s, <1>u, StoreTypes DEF rowVars
  <2>6. JobsOK' /\ CountsOK' /\ RestOK'
    BY <2>1, <2>2, <2>3, <2>4, <1>0, <1>a, <1>s, <1>j, <1>u DEF RestOK
  <2> QED
    BY <2>1, <2>5, <2>6, <1>q
<1>5. ASSUME NEW c \in Consumers, NEW r \in Rows,
             ConsumerExpire(c, r) \/ HandlePushSuccess(c, r) \/ HandlePushFailure(c, r)
      PROVE  TypeOK'
  <2>1. Finish(c, r) /\ UNCHANGED <<campaign, setup, old, mqVars, history, faults>>
    BY <1>5 DEF ConsumerExpire, HandlePushSuccess, HandlePushFailure
  <2>2. MarkOutboxExpired(r) \/ MarkOutboxSent(r) \/ MoveOutboxToDLQ(r, "dlq")
    BY <1>5 DEF ConsumerExpire, HandlePushSuccess, HandlePushFailure
  <2> QED
    BY <2>1, <2>2, <1>0, <1>a, <1>s, <1>j, <1>q, <1>u, StoreTypes DEF history
<1>6. ASSUME NEW c \in Consumers, NEW r \in Rows, PushEnvelope(c, r) PROVE TypeOK'
  <2>1. Finish(c, r) \/ \E s \in Points : Goto(c, r, s)
    BY <1>6 DEF PushEnvelope, Points
  <2>2. CountsOK'
    BY <1>6, <1>0, <1>s, CountTypes DEF PushEnvelope
  <2>3. UNCHANGED <<rowVars, campaign, old, mqVars>> /\ missed' \in {missed, missed \cup {r}}
    BY <1>6 DEF PushEnvelope
  <2>4. RestOK'
    BY <2>3, <1>0, <1>s DEF RestOK
  <2> QED
    BY <2>1, <2>2, <2>3, <2>4, <1>a, <1>j, <1>q, <1>u
<1>7. ASSUME NEW c \in Consumers, ReceiveFails(c) PROVE TypeOK'
  <2>1. MqOK' /\ RestOK'
    <3>1. /\ pos <= Len(log) /\ pos' = pos + 1 /\ UNCHANGED <<log, owner, campaign, old>>
          /\ missed' = missed \cup {log[pos]}
      BY <1>7 DEF ReceiveFails
    <3> QED
      BY <3>1, <1>0, <1>s DEF MqOK, RestOK
  <2>2. CountsOK'
    BY <1>7, <1>0, <1>s, CountTypes DEF ReceiveFails
  <2>3. UNCHANGED rowVars /\ UNCHANGED job
    BY <1>7 DEF ReceiveFails
  <2> QED
    BY <2>1, <2>2, <2>3, <1>q, <1>u
<1>8. ASSUME NEW c \in Consumers, Rebalance(c) PROVE TypeOK'
  <2>1. UNCHANGED rowVars /\ UNCHANGED <<campaign, old, log>> /\ owner' = c /\ pos' = Len(log) + 1
    BY <1>8 DEF Rebalance
  <2>2. MqOK'
    BY <2>1, <1>0, <1>s, Parties DEF MqOK, Actors
  <2>3. owner \in Actors
    BY <1>0, <1>a DEF MqOK
  <2>4. JobsOK'
    BY <1>8, <2>3, <1>0, <1>s, <1>u, ResetJobs DEF Rebalance
  <2>5. CountsOK'
    BY <1>8, <1>0, <1>s, CountTypes DEF Rebalance
  <2>6. missed' \subseteq Rows
    BY <1>8, <1>0 DEF Rebalance, RestOK
  <2> QED
    BY <2>1, <2>2, <2>4, <2>5, <2>6, <1>0, <1>q, <1>s, <1>u DEF RestOK
<1>9. ASSUME NEW w \in Workers, NEW r \in Rows,
             WorkerExpire(w, r) \/ WorkerSkip(w, r) \/ WorkerMark(w, r) \/ HandleOutboxFailure(w, r)
      PROVE  TypeOK'
  <2>1. Finish(w, r) /\ UNCHANGED <<campaign, setup, old, mqVars, history, faults>>
    BY <1>9 DEF WorkerExpire, WorkerSkip, WorkerMark, HandleOutboxFailure
  <2>2. \/ MoveOutboxToDLQ(r, "expired") \/ UNCHANGED rowVars \/ MarkOutboxSent(r)
        \/ MoveOutboxToDLQ(r, "dlq") \/ MarkOutboxDropped(r) \/ \E n \in Nat : MarkOutboxRetry(r, n)
    BY <1>9, <1>a, <1>p DEF WorkerExpire, WorkerSkip, WorkerMark, HandleOutboxFailure, ApplyCompensationStrategy
  <2> QED
    BY <2>1, <2>2, <1>0, <1>a, <1>s, <1>j, <1>q, <1>u, StoreTypes DEF history
<1>10. ASSUME NEW w \in Workers, NEW r \in Rows, WorkerPush(w, r) PROVE TypeOK'
  <2>1. \E s \in Points : Goto(w, r, s)
    BY <1>10 DEF WorkerPush, Points
  <2>2. CountsOK'
    <3>1. /\ pushed' = pushed \/ Pushed(r)
          /\ slips' = slips \/ Slip({r})
          /\ fails' = fails \/ Fail(r)
          /\ faults' = faults \/ Fault
      BY <1>10 DEF WorkerPush
    <3> QED
      BY <3>1, <1>0, <1>s, CountTypes
  <2>3. UNCHANGED <<rowVars, campaign, old, mqVars, missed>>
    BY <1>10 DEF WorkerPush
  <2> QED
    BY <2>1, <2>2, <2>3, <1>a, <1>j, <1>q, <1>u
<1>11. ASSUME NEW a \in Actors, Crash(a) PROVE TypeOK'
  <2>1. CountsOK'
    BY <1>11, <1>0, <1>s, CountTypes DEF Crash
  <2>2. JobsOK'
    BY <1>11, <1>0, <1>s, ResetJobs DEF Crash
  <2> QED
    BY <1>11, <2>1, <2>2, <1>q, <1>u DEF Crash
<1>12. ASSUME NEW a \in Actors, NEW r \in Rows, StoreFails(a, r) PROVE TypeOK'
  <2>1. CountsOK'
    BY <1>12, <1>0, <1>s, CountTypes DEF StoreFails
  <2>2. JobsOK'
    BY <1>12, <1>0, <1>j, <1>s, ResetJobs DEF StoreFails
  <2>3. UNCHANGED <<rowVars, campaign, old, mqVars>> /\ missed' \in {missed, missed \cup {r}}
    BY <1>12 DEF StoreFails
  <2>4. RestOK'
    BY <2>3, <1>0, <1>s DEF RestOK
  <2> QED
    BY <2>1, <2>2, <2>3, <2>4, <1>q, <1>u
<1>13. ASSUME NEW r \in Rows, Lapse(r) PROVE TypeOK'
  <2>1. CountsOK'
    BY <1>13, <1>0, <1>s, CountTypes DEF Lapse
  <2>2. TablesOK'
    BY <1>13, <1>0, <1>s DEF Lapse, TablesOK, StatusOK, LockOK
  <2> QED
    BY <1>13, <2>1, <2>2, <1>q, <1>u DEF Lapse
<1>14. ASSUME NEW r \in Rows, Age(r) PROVE TypeOK'
  <2>1. RestOK'
    BY <1>14, <1>0, <1>s DEF Age, RestOK, history
  <2> QED
    BY <1>14, <2>1, <1>q, <1>u DEF Age, history
<1>15. ASSUME NEW r \in Rows, Ack(r) \/ ResolveDLQ(r) PROVE TypeOK'
  <2>1. TablesOK'
    BY <1>15, <1>0, <1>s DEF Ack, ResolveDLQ, TablesOK, StatusOK, LockOK, Notifs
  <2> QED
    BY <1>15, <2>1, <1>q, <1>u DEF Ack, ResolveDLQ, history
<1>16. ASSUME NEW r \in Rows, ReplayDLQ(r) PROVE TypeOK'
  <2>1. CountsOK'
    BY <1>16, <1>0, <1>s, CountTypes DEF ReplayDLQ
  <2>2. TablesOK'
    <3>1. /\ Release(r, "pending") /\ dlq' = [dlq EXCEPT ![r] = "closed"] /\ UNCHANGED <<retry, notif>>
      BY <1>16 DEF ReplayDLQ
    <3>2. StatusOK' /\ LockOK'
      BY <3>1, <1>0, <1>s DEF TablesOK, StatusOK, LockOK, Release, Statuses
    <3> QED
      BY <3>1, <3>2, <1>0, <1>s DEF TablesOK
  <2> QED
    BY <1>16, <2>1, <2>2, <1>q, <1>u DEF ReplayDLQ
<1>17. CASE Campaign
  <2>1. StatusOK' /\ UNCHANGED <<by, lapsed, retry, notif, dlq>>
    BY <1>17, <1>0, <1>s DEF Campaign, TablesOK, StatusOK, Statuses, Terminal
  <2>2. TablesOK'
    BY <2>1, <1>0, <1>s DEF TablesOK, LockOK
  <2>3. RestOK'
    BY <1>17, <1>0, <1>s DEF Campaign, RestOK, history
  <2> QED
    BY <1>17, <2>2, <2>3, <1>q, <1>u DEF Campaign, history
<1>18. CASE UNCHANGED vars
  BY <1>18, <1>q, <1>u DEF vars, history
<1> QED
  BY <1>1, <1>2, <1>3, <1>4, <1>5, <1>6, <1>7, <1>8, <1>9, <1>10, <1>11, <1>12, <1>13, <1>14,
     <1>15, <1>16, <1>17, <1>18, <1>a DEF Next, RelayStep, ConsumerStep, WorkerStep

-----------------------------------------------------------------------------
(* What a step may do to a row *)

Others(a, r) == \A b \in Actors \ {a} : job'[b][r] = job[b][r]
Counts(r, p, s) == pushed'[r] = pushed[r] + p /\ slips'[r] = slips[r] + s
SameRow(r) ==
    /\ status'[r] = status[r] /\ by'[r] = by[r] /\ lapsed'[r] = lapsed[r]
    /\ retry'[r] = retry[r] /\ notif'[r] = notif[r] /\ dlq'[r] = dlq[r]
SameJobs(r) == \A b \in Actors : job'[b][r] = job[b][r]
Released(r, s) == status'[r] = s /\ by'[r] = NoOne /\ lapsed'[r] = FALSE

\* Nothing.
Rests(r) == SameRow(r) /\ SameJobs(r) /\ Counts(r, 0, 0) /\ fails'[r] = fails[r]

\* An idle actor takes a row that nobody has locked, or that is published.
Takes(a, r) ==
    /\ Unlocked(r) \/ status[r] = "published"
    /\ At(a, r, "idle") /\ Others(a, r)
    /\ by'[r] = a /\ ~lapsed'[r] /\ retry'[r] = retry[r] /\ notif'[r] = notif[r] /\ dlq'[r] = dlq[r]
    /\ job'[a][r].at = "claimed" /\ job'[a][r].retry \in {0, retry[r]}
    /\ \/ a \in Relays \cup Workers /\ status'[r] = "processing" /\ status[r] \in {"pending", "failed", "processing"}
       \/ a \in Consumers /\ status'[r] = "delivering" /\ status[r] \in {"published", "delivering"}
    /\ Counts(r, 0, 0) /\ fails'[r] = fails[r]

\* A job goes on, by a push or a publish, and the row stays.
Works(a, r) ==
    /\ SameRow(r) /\ Others(a, r) /\ At(a, r, "claimed")
    /\ a \in Workers => Turn(a, r) /\ \A q \in Rows \ {r} : job'[a][q] = job[a][q]
    /\ \/ /\ a \in Consumers \cup Workers /\ job'[a][r].at = "pushed"
          /\ Counts(r, 1, 0) /\ fails'[r] = fails[r]
       \/ /\ a \in Consumers \cup Workers /\ job'[a][r].at = "rejected"
          /\ Counts(r, 0, 0) /\ fails'[r] = fails[r]
       \/ /\ a \in Consumers \cup Workers /\ job'[a][r].at = "idle"
          /\ Counts(r, 0, 0) \/ Counts(r, 1, 1)
          /\ fails'[r] = fails[r]
       \/ /\ a \in Relays /\ job'[a][r].at = "published"
          /\ Counts(r, 0, 0) /\ fails'[r] = fails[r]
       \/ /\ job'[a][r].at = "failed" /\ job'[a][r].retry = job[a][r].retry
          /\ Counts(r, 0, 0) \/ Counts(r, 1, 1)
          /\ fails'[r] = IF fails[r] > MaxRetries THEN fails[r] ELSE fails[r] + 1

\* A job ends with a transaction that gives the row a status, held or not.
Unacked(r, s) == notif'[r] \in {notif[r], s} /\ (notif[r] = "acked" => notif'[r] = "acked")
Settles(a, r) ==
    /\ Others(a, r) /\ job'[a][r].at = "idle" /\ Busy(a, r)
    /\ Counts(r, 0, 0) /\ fails'[r] = fails[r]
    /\ \/ \* MarkOutboxSent
          /\ At(a, r, "pushed") /\ Released(r, "sent") /\ Unacked(r, "delivered")
          /\ retry'[r] = retry[r] /\ dlq'[r] = dlq[r]
       \/ \* MarkOutboxExpired
          /\ \/ Released(r, "expired")
             \/ status[r] \in Terminal /\ status'[r] = status[r] /\ by'[r] = by[r] /\ lapsed'[r] = lapsed[r]
          /\ Unacked(r, "expired") /\ retry'[r] = retry[r] /\ dlq'[r] = dlq[r]
       \/ \* MarkOutboxPublished
          /\ a \in Relays /\ Fenced(a, r) /\ At(a, r, "published") /\ Released(r, "published")
          /\ Unacked(r, "queued") /\ retry'[r] = retry[r] /\ dlq'[r] = dlq[r]
       \/ \* MarkOutboxPublishRetry, MarkOutboxRetry
          /\ (a \in Relays /\ Fenced(a, r)) \/ a \in Workers
          /\ At(a, r, "failed") /\ Released(r, "failed")
          /\ retry'[r] = job[a][r].retry + 1 /\ retry'[r] <= MaxRetries
          /\ Unacked(r, "retrying") /\ dlq'[r] = dlq[r]
       \/ \* a relay without the lock
          a \in Relays /\ ~Fenced(a, r) /\ SameRow(r)
       \/ \* MoveOutboxToDLQ, MarkOutboxDropped
          /\ \E s \in {"dlq", "expired", "dropped"} : Released(r, s) /\ notif'[r] = s
          /\ retry'[r] = retry[r]
          /\ a \in Relays => At(a, r, "failed")
          /\ a \in Consumers \cup Workers => a \in Holders(r)
          /\ dlq[r] = "none" /\ dlq'[r] = "open" =>
                \/ At(a, r, "rejected")
                \/ At(a, r, "failed") /\ job[a][r].retry + 1 > MaxRetries

\* A job is lost, and with it what it has not recorded.
Loses(a, r) ==
    /\ SameRow(r) /\ Others(a, r) /\ job'[a][r].at = "idle" /\ fails'[r] = fails[r]
    /\ Counts(r, 0, IF At(a, r, "pushed") THEN 1 ELSE 0)

\* The lock of a row lapses.
Lapses(r) ==
    /\ status'[r] = status[r] /\ by'[r] = by[r] /\ lapsed'[r] /\ by[r] # NoOne
    /\ retry'[r] = retry[r] /\ notif'[r] = notif[r] /\ dlq'[r] = dlq[r]
    /\ SameJobs(r) /\ fails'[r] = fails[r]
    /\ IF At(by[r], r, "idle") THEN Counts(r, 0, 0) ELSE Counts(r, 0, 1)

\* Operators and clients: a replay, a resolved letter, a cancelled campaign, an ACK.
Replays(r) ==
    /\ Released(r, "pending") /\ dlq[r] # "none" /\ dlq'[r] = "closed"
    /\ retry'[r] = retry[r] /\ notif'[r] = notif[r]
    /\ SameJobs(r) /\ Counts(r, 0, 1) /\ fails'[r] = fails[r]
Concludes(r) ==
    /\ by'[r] = by[r] /\ lapsed'[r] = lapsed[r] /\ retry'[r] = retry[r]
    /\ SameJobs(r) /\ Counts(r, 0, 0) /\ fails'[r] = fails[r]
    /\ \/ status'[r] = status[r] /\ notif'[r] = notif[r] /\ dlq'[r] = "closed"
       \/ status'[r] = status[r] /\ notif'[r] = "acked" /\ pushed[r] > 0 /\ dlq'[r] = dlq[r]
       \/ /\ status'[r] = "cancelled" /\ status[r] \in {"pending", "failed"}
          /\ notif'[r] = notif[r] /\ dlq'[r] = dlq[r]

Step(r) ==
    \/ Rests(r) \/ Lapses(r) \/ Replays(r) \/ Concludes(r)
    \/ \E a \in Actors : Takes(a, r) \/ Works(a, r) \/ Settles(a, r) \/ Loses(a, r)

\* The types of a row before and after a step.
RowType(r) ==
    /\ status[r] \in Statuses /\ by[r] \in Actors \cup {NoOne} /\ lapsed[r] \in BOOLEAN
    /\ retry[r] \in Nat /\ notif[r] \in Notifs /\ dlq[r] \in {"none", "open", "closed"}
    /\ pushed[r] \in Nat /\ slips[r] \in Nat /\ fails[r] \in Nat
    /\ \A a \in Actors : job[a][r] \in Job
Fixed == Rows' = Rows /\ Relays' = Relays /\ Consumers' = Consumers /\ Workers' = Workers /\ Actors' = Actors

LEMMA RowTypes == ASSUME TypeOK, NEW r \in Rows PROVE RowType(r)
BY TypeParts DEF RowType, TablesOK, StatusOK, LockOK, CountsOK, JobsOK

LEMMA HoldersStep ==
    ASSUME TypeOK, Fixed, NEW r \in Rows, NEW a \in Actors, Others(a, r)
    PROVE  /\ Cardinality(Holders(r)) \in Nat
           /\ a \in Holders(r) => Cardinality(Holders(r)) > 0
           /\ (a \in Holders(r) <=> a \in Holders(r)') => Cardinality(Holders(r)') = Cardinality(Holders(r))
           /\ a \in Holders(r) /\ a \notin Holders(r)' => Cardinality(Holders(r)') = Cardinality(Holders(r)) - 1
           /\ a \notin Holders(r) /\ a \in Holders(r)' => Cardinality(Holders(r)') = Cardinality(Holders(r)) + 1
<1>1. IsFiniteSet(Holders(r)) /\ Holders(r) \subseteq Actors
  BY Parties, FS_Subset DEF Holders, Actors
<1>2. Cardinality(Holders(r)) \in Nat
  BY <1>1, FS_CardinalityType
<1>3. ASSUME NEW b \in Actors \ {a} PROVE b \in Holders(r)' <=> b \in Holders(r)
  BY <1>3 DEF Holders, Others, Fixed
<1>4. Holders(r)' \subseteq Actors
  BY DEF Holders, Fixed, Actors
<1>5. (a \in Holders(r) <=> a \in Holders(r)') => Holders(r)' = Holders(r)
  BY <1>1, <1>3, <1>4
<1>6. a \in Holders(r) /\ a \notin Holders(r)' => Holders(r)' = Holders(r) \ {a}
  BY <1>1, <1>3, <1>4
<1>7. a \notin Holders(r) /\ a \in Holders(r)' => Holders(r)' = Holders(r) \cup {a}
  BY <1>1, <1>3, <1>4
<1>8. a \in Holders(r) => Cardinality(Holders(r)) > 0
  BY <1>1, <1>2, FS_EmptySet
<1> QED
  BY <1>1, <1>2, <1>5, <1>6, <1>7, <1>8, FS_RemoveElement, FS_AddElement

LEMMA HoldersSame ==
    ASSUME TypeOK, Fixed, NEW r \in Rows, SameJobs(r)
    PROVE  Cardinality(Holders(r)) \in Nat /\ Holders(r)' = Holders(r)
<1>1. IsFiniteSet(Holders(r))
  BY Parties, FS_Subset DEF Holders
<1> QED
  BY <1>1, FS_CardinalityType DEF Holders, SameJobs, Fixed, Actors

\* A right to deliver is used, passed on or given up, and made only by a slip.
LEMMA BudgetStep ==
    ASSUME TypeOK, Fixed, NEW r \in Rows, Budget(r), Roles(r), Step(r)
    PROVE  Budget(r)'
<1> DEFINE n == Cardinality(Holders(r))
           m == Cardinality(Holders(r)')
           more == IF Open(r) THEN 1 ELSE 0
           moreNext == IF Open(r)' THEN 1 ELSE 0
<1>0. /\ pushed[r] + (n + more) <= 1 + slips[r]
      /\ Budget(r)' <=> pushed'[r] + (m + moreNext) <= 1 + slips'[r]
  BY DEF Budget, Rights
<1>t. pushed[r] \in Nat /\ slips[r] \in Nat /\ by[r] \in Actors \cup {NoOne} /\ NoOne \notin Actors
  BY RowTypes, Parties DEF RowType
<1>r. Consumers \cup Workers \subseteq Actors /\ Relays \subseteq Actors /\ Relays \cap (Consumers \cup Workers) = {}
  BY Parties DEF Actors
<1> HIDE DEF n, m, more, moreNext
<1>s. ASSUME SameRow(r), NEW a \in Actors, Others(a, r),
             by[r] = a => (job'[a][r].at = "idle" <=> At(a, r, "idle"))
      PROVE  Open(r)' = Open(r)
  <2>1. by[r] \in Actors => (job'[by[r]][r].at = "idle" <=> job[by[r]][r].at = "idle")
    BY <1>s DEF Others, At
  <2>2. by[r] = NoOne \/ by[r] \in Actors
    BY <1>t
  <2>3. status'[r] = status[r] /\ by'[r] = by[r] /\ lapsed'[r] = lapsed[r] /\ Relays' = Relays
    BY <1>s DEF SameRow, Fixed
  <2> QED
    BY <2>1, <2>2, <2>3 DEF Open, Unlocked, At
<1>1. CASE Rests(r)
  <2>1. Open(r)' = Open(r)
    BY <1>1, <1>t DEF Rests, SameRow, SameJobs, Open, Unlocked, At, Fixed
  <2>2. m = n /\ n \in Nat /\ moreNext = more /\ more \in Nat
    BY <1>1, <2>1, HoldersSame DEF Rests, m, n, more, moreNext
  <2> QED
    BY <1>0, <1>1, <1>t, <2>2 DEF Rests, Counts
<1>2. CASE Lapses(r) \/ Replays(r) \/ Concludes(r)
  <2>1. m = n /\ n \in Nat /\ more \in {0, 1} /\ moreNext \in {0, 1}
    BY <1>2, HoldersSame DEF Lapses, Replays, Concludes, m, n, more, moreNext
  <2>2. Counts(r, 0, 1) \/ (Counts(r, 0, 0) /\ (Open(r)' => Open(r)))
    <3>1. CASE Lapses(r)
      BY <3>1, <1>t DEF Lapses, Open, Unlocked, SameJobs, At
    <3>2. CASE Replays(r)
      BY <3>2 DEF Replays
    <3>3. CASE Concludes(r)
      <4>1. by'[r] = by[r] /\ lapsed'[r] = lapsed[r] /\ Relays' = Relays /\ (status'[r] = status[r] \/ status'[r] = "cancelled")
        BY <3>3 DEF Concludes, Fixed
      <4>2. by[r] \in Actors => job'[by[r]][r] = job[by[r]][r]
        BY <3>3 DEF Concludes, SameJobs
      <4> QED
        BY <3>3, <4>1, <4>2, <1>t DEF Concludes, Open, Unlocked, At
    <3> QED
      BY <1>2, <3>1, <3>2, <3>3
  <2>3. Counts(r, 0, 0) => moreNext <= more
    BY <2>1, <2>2, <1>t DEF more, moreNext, Counts
  <2> QED
    BY <1>0, <1>t, <2>1, <2>2, <2>3 DEF Counts
<1>h. ASSUME NEW a \in Actors, Others(a, r)
      PROVE  /\ n \in Nat /\ (a \in Holders(r) => n > 0)
             /\ (a \in Holders(r) <=> a \in Holders(r)') => m = n
             /\ a \in Holders(r) /\ a \notin Holders(r)' => m = n - 1
             /\ a \notin Holders(r) /\ a \in Holders(r)' => m = n + 1
             /\ more \in {0, 1} /\ moreNext \in {0, 1}
             /\ a \in Holders(r) <=> a \in Consumers \cup Workers /\ job[a][r].at \in {"claimed", "failed", "rejected"}
             /\ a \in Holders(r)' <=> a \in Consumers \cup Workers /\ job'[a][r].at \in {"claimed", "failed", "rejected"}
  <2>1. /\ more \in {0, 1} /\ moreNext \in {0, 1}
        /\ a \in Holders(r) <=> a \in Consumers \cup Workers /\ job[a][r].at \in {"claimed", "failed", "rejected"}
        /\ a \in Holders(r)' <=> a \in Consumers \cup Workers /\ job'[a][r].at \in {"claimed", "failed", "rejected"}
    BY DEF more, moreNext, Holders, Fixed
  <2> QED
    BY <1>h, <2>1, HoldersStep DEF n, m
<1>o. (Open(r)' => Open(r)) => moreNext <= more
  BY DEF more, moreNext
<1>3. ASSUME NEW a \in Actors, Takes(a, r) PROVE Budget(r)'
  <2>1. Counts(r, 0, 0) /\ Others(a, r) /\ job'[a][r].at = "claimed" /\ job[a][r].at = "idle"
    BY <1>3 DEF Takes, At
  <2>2. Open(r)
    BY <1>3 DEF Takes, Open
  <2>3. a \in Consumers \cup Workers => ~Open(r)'
    <3>1. by'[r] = a /\ ~lapsed'[r] /\ status'[r] \in {"processing", "delivering"} /\ a # NoOne
      BY <1>3, <1>t DEF Takes
    <3> QED
      BY <2>1, <3>1, <1>r DEF Open, Unlocked, At, Fixed
  <2>4. more = 1 /\ (a \in Consumers \cup Workers => moreNext = 0)
    BY <2>2, <2>3 DEF more, moreNext
  <2> QED
    BY <1>0, <1>t, <1>h, <2>1, <2>4 DEF Counts
<1>4. ASSUME NEW a \in Actors, Works(a, r) PROVE Budget(r)'
  <2>1. SameRow(r) /\ Others(a, r) /\ job[a][r].at = "claimed"
    BY <1>4 DEF Works, At
  <2>2. CASE job'[a][r].at # "idle"
    <3>1. moreNext = more
      BY <2>1, <2>2, <1>s DEF At, more, moreNext
    <3> QED
      BY <1>0, <1>4, <1>t, <1>h, <1>r, <2>1, <2>2, <3>1 DEF Works, Counts
  <2>3. CASE job'[a][r].at = "idle"
    BY <1>0, <1>4, <1>t, <1>h, <1>r, <2>1, <2>3 DEF Works, Counts
  <2> QED
    BY <2>2, <2>3
<1>5. ASSUME NEW a \in Actors, Settles(a, r) PROVE Budget(r)'
  <2>1. Others(a, r) /\ job'[a][r].at = "idle" /\ job[a][r].at # "idle" /\ Counts(r, 0, 0)
    BY <1>5 DEF Settles, At, Busy
  <2>2. m <= n /\ n \in Nat /\ m \in Nat
    BY <1>h, <2>1
  <2>3. \/ Open(r)' => Open(r)
        \/ m = n - 1
    <3>1. ASSUME NEW s \in Terminal, Released(r, s) PROVE ~Open(r)'
      BY <3>1 DEF Released, Open, Terminal
    <3>2. status'[r] \in Terminal => ~Open(r)'
      BY DEF Open, Terminal
    <3>3. a \in Relays /\ Fenced(a, r) => Open(r)
      BY DEF Fenced, Open
    <3>4. a \in Relays /\ SameRow(r) => (Open(r)' => Open(r))
      <4>1. CASE by[r] = a /\ a \in Relays /\ SameRow(r)
        BY <4>1 DEF SameRow, Open, Fixed, Unlocked
      <4>2. CASE by[r] # a /\ SameRow(r)
        BY <4>2, <2>1, <1>s
      <4> QED
        BY <4>1, <4>2
    <3>5. a \in Workers /\ At(a, r, "failed") => m = n - 1
      BY <2>1, <1>h DEF At
    <3>6. {"sent", "expired", "dlq", "dropped"} \subseteq Terminal
      BY DEF Terminal
    <3> QED
      BY <1>5, <3>1, <3>2, <3>3, <3>4, <3>5, <3>6 DEF Settles
  <2> QED
    BY <1>0, <1>t, <1>h, <1>o, <2>1, <2>2, <2>3 DEF Counts
<1>6. ASSUME NEW a \in Actors, Loses(a, r) PROVE Budget(r)'
  <2>1. SameRow(r) /\ Others(a, r) /\ job'[a][r].at = "idle"
    BY <1>6 DEF Loses
  <2>2. CASE At(a, r, "pushed")
    BY <1>0, <1>6, <1>t, <1>h, <2>1, <2>2 DEF Loses, Counts, At
  <2>3. CASE a \in Holders(r)
    BY <1>0, <1>6, <1>t, <1>h, <2>1, <2>3 DEF Loses, Counts, At
  <2>4. CASE At(a, r, "idle")
    <3>1. moreNext = more
      BY <2>1, <2>4, <1>s DEF more, moreNext
    <3> QED
      BY <1>0, <1>6, <1>t, <1>h, <2>1, <2>4, <3>1 DEF Loses, Counts, At
  <2>5. CASE a \in Relays /\ ~At(a, r, "pushed")
    <3>1. Open(r)' => Open(r)
      <4>1. CASE by[r] = a
        BY <2>1, <2>5, <4>1 DEF SameRow, Open, Fixed, Unlocked
      <4>2. CASE by[r] # a
        BY <4>2, <2>1, <1>s
      <4> QED
        BY <4>1, <4>2
    <3> QED
      BY <1>0, <1>6, <1>r, <1>t, <1>h, <1>o, <2>1, <2>5, <3>1 DEF Loses, Counts, At
  <2>6. job[a][r].at \in Points
    BY RowTypes DEF RowType, Job, Points
  <2> QED
    BY <2>2, <2>3, <2>4, <2>5, <2>6, <1>h, <2>1 DEF Points, At, Roles, Actors
<1> QED
  BY <1>1, <1>2, <1>3, <1>4, <1>5, <1>6 DEF Step

LEMMA HeldStep ==
    ASSUME TypeOK, Fixed, NEW r \in Rows, Held(r), Roles(r), Step(r)
    PROVE  Held(r)' /\ Roles(r)'
<1>t. pushed[r] \in Nat /\ slips[r] \in Nat /\ by[r] \in Actors \cup {NoOne} /\ NoOne \notin Actors
  BY RowTypes, Parties DEF RowType
<1> SUFFICES ASSUME NEW b \in Actors
             PROVE  /\ job'[b][r].at # "idle" =>
                          \/ slips'[r] > 0
                          \/ by'[r] = b /\ ~lapsed'[r] /\ status'[r] \in {"processing", "delivering"}
                    /\ job'[b][r].at = "published" => b \in Relays
  BY DEF Held, Roles, Busy, At, Fixed
<1>b. /\ job[b][r].at # "idle" =>
            \/ slips[r] > 0
            \/ by[r] = b /\ ~lapsed[r] /\ status[r] \in {"processing", "delivering"}
      /\ job[b][r].at = "published" => b \in Relays
  BY DEF Held, Roles, Busy, At
<1>1. CASE Rests(r) \/ Lapses(r) \/ Replays(r) \/ Concludes(r)
  BY <1>1, <1>b, <1>t DEF Rests, Lapses, Replays, Concludes, SameRow, SameJobs, Counts, At
<1>2. ASSUME NEW a \in Actors, Takes(a, r)
      PROVE  /\ job'[b][r].at # "idle" =>
                   \/ slips'[r] > 0
                   \/ by'[r] = b /\ ~lapsed'[r] /\ status'[r] \in {"processing", "delivering"}
             /\ job'[b][r].at = "published" => b \in Relays
  BY <1>2, <1>b, <1>t DEF Takes, Others, Counts, Unlocked
<1>3. ASSUME NEW a \in Actors, Works(a, r) \/ Loses(a, r)
      PROVE  /\ job'[b][r].at # "idle" =>
                   \/ slips'[r] > 0
                   \/ by'[r] = b /\ ~lapsed'[r] /\ status'[r] \in {"processing", "delivering"}
             /\ job'[b][r].at = "published" => b \in Relays
  <2>1. SameRow(r) /\ Others(a, r) /\ slips'[r] >= slips[r]
    BY <1>3, <1>t DEF Works, Loses, Counts
  <2>2. job[a][r].at # "idle" \/ job'[a][r].at = "idle"
    BY <1>3 DEF Works, Loses, At
  <2>3. job'[a][r].at = "published" => a \in Relays
    BY <1>3 DEF Works, Loses
  <2>4. slips'[r] \in Int
    BY <1>3, <1>t DEF Works, Loses, Counts
  <2> QED
    BY <1>b, <1>t, <2>1, <2>2, <2>3, <2>4 DEF SameRow, Others
<1>4. ASSUME NEW a \in Actors, Settles(a, r)
      PROVE  /\ job'[b][r].at # "idle" =>
                   \/ slips'[r] > 0
                   \/ by'[r] = b /\ ~lapsed'[r] /\ status'[r] \in {"processing", "delivering"}
             /\ job'[b][r].at = "published" => b \in Relays
  <2>1. Others(a, r) /\ job'[a][r].at = "idle" /\ job[a][r].at # "idle" /\ slips'[r] = slips[r]
    BY <1>4, <1>t DEF Settles, Counts, Busy, At
  <2>2. slips[r] > 0 \/ by[r] = a
    BY <2>1 DEF Held, Busy, At
  <2> QED
    BY <1>b, <2>1, <2>2 DEF Others
<1> QED
  BY <1>1, <1>2, <1>3, <1>4 DEF Step

LEMMA DeliveredStep ==
    ASSUME TypeOK, Fixed, NEW r \in Rows, Delivered(r), Step(r)
    PROVE  Delivered(r)'
<1>t. pushed[r] \in Nat /\ slips[r] \in Nat
  BY RowTypes DEF RowType
<1>d. \/ status[r] = "sent" \/ notif[r] \in {"delivered", "acked"} \/ \E b \in Actors : job[b][r].at = "pushed"
      => pushed[r] > 0
  BY DEF Delivered, At
<1> SUFFICES ASSUME \/ status'[r] = "sent" \/ notif'[r] \in {"delivered", "acked"}
                    \/ \E b \in Actors : job'[b][r].at = "pushed"
             PROVE  pushed'[r] > 0
  BY DEF Delivered, At, Fixed
<1>1. CASE Rests(r) \/ Lapses(r) \/ Replays(r) \/ Concludes(r)
  BY <1>1, <1>d, <1>t DEF Rests, Lapses, Replays, Concludes, SameRow, SameJobs, Counts, Released
<1>2. ASSUME NEW a \in Actors, Takes(a, r) PROVE pushed'[r] > 0
  BY <1>2, <1>d, <1>t DEF Takes, Others, Counts
<1>3. ASSUME NEW a \in Actors, Works(a, r) \/ Loses(a, r) PROVE pushed'[r] > 0
  <2>1. SameRow(r) /\ Others(a, r) /\ pushed'[r] \in Nat /\ pushed'[r] >= pushed[r]
    BY <1>3, <1>t DEF Works, Loses, Counts
  <2>2. job'[a][r].at = "pushed" => pushed'[r] > 0
    BY <1>3, <1>t DEF Works, Loses, Counts
  <2> QED
    BY <1>d, <1>t, <2>1, <2>2 DEF SameRow, Others
<1>4. ASSUME NEW a \in Actors, Settles(a, r) PROVE pushed'[r] > 0
  <2>1. Others(a, r) /\ job'[a][r].at = "idle" /\ pushed'[r] = pushed[r]
    BY <1>4, <1>t DEF Settles, Counts
  <2>2. \/ pushed[r] > 0
        \/ status'[r] # "sent" /\ notif'[r] \notin {"delivered", "acked"}
    BY <1>4, <1>d DEF Settles, Released, Unacked, SameRow, At
  <2> QED
    BY <1>d, <2>1, <2>2 DEF Others
<1> QED
  BY <1>1, <1>2, <1>3, <1>4 DEF Step

LEMMA TriesStep ==
    ASSUME TypeOK, Fixed, NEW r \in Rows, Tries(r), Step(r)
    PROVE  Tries(r)'
<1>t. fails[r] \in Nat /\ retry[r] \in Nat /\ MaxRetries \in Nat /\ \A a \in Actors : job[a][r].retry \in Nat
  BY RowTypes, OutboxAssumption DEF OutboxAssumption, RowType, Job
<1>d. retry[r] <= MaxRetries /\ retry[r] <= fails[r] /\ \A b \in Actors : Tried(job[b][r], fails[r])
  BY DEF Tries
<1> SUFFICES /\ retry'[r] <= MaxRetries /\ retry'[r] <= fails'[r]
             /\ \A b \in Actors : Tried(job'[b][r], fails'[r])
  BY DEF Tries, Tried, Fixed
<1>1. CASE Rests(r) \/ Lapses(r) \/ Replays(r) \/ Concludes(r)
  <2>1. retry'[r] = retry[r] /\ fails'[r] = fails[r] /\ \A b \in Actors : job'[b][r] = job[b][r]
    BY <1>1 DEF Rests, Lapses, Replays, Concludes, SameRow, SameJobs
  <2> QED
    BY <1>d, <2>1
<1>o. ASSUME NEW a \in Actors, Others(a, r), fails'[r] \in Nat, fails'[r] >= fails[r], Tried(job'[a][r], fails'[r])
      PROVE  \A b \in Actors : Tried(job'[b][r], fails'[r])
  <2> SUFFICES ASSUME NEW b \in Actors, b # a PROVE Tried(job[b][r], fails'[r])
    BY <1>o DEF Others
  <2>1. Tried(job[b][r], fails[r]) /\ job[b][r].retry \in Nat
    BY <1>d, <1>t
  <2> QED
    BY <1>o, <2>1, <1>t DEF Tried
<1>2. ASSUME NEW a \in Actors, Takes(a, r) \/ Loses(a, r)
      PROVE  /\ retry'[r] <= MaxRetries /\ retry'[r] <= fails'[r]
             /\ \A b \in Actors : Tried(job'[b][r], fails'[r])
  <2>1. Others(a, r) /\ retry'[r] = retry[r] /\ fails'[r] = fails[r]
    BY <1>2 DEF Takes, Loses, SameRow
  <2>2. Tried(job'[a][r], fails'[r])
    BY <1>2, <1>d, <1>t, <2>1 DEF Takes, Loses, Tried
  <2> QED
    BY <1>d, <1>o, <1>t, <2>1, <2>2
<1>3. ASSUME NEW a \in Actors, Works(a, r)
      PROVE  /\ retry'[r] <= MaxRetries /\ retry'[r] <= fails'[r]
             /\ \A b \in Actors : Tried(job'[b][r], fails'[r])
  <2>1. Others(a, r) /\ retry'[r] = retry[r] /\ At(a, r, "claimed")
    BY <1>3 DEF Works, SameRow
  <2>2. \/ job'[a][r].at \notin {"claimed", "failed"} /\ fails'[r] = fails[r]
        \/ /\ job'[a][r].at = "failed" /\ job'[a][r].retry = job[a][r].retry
           /\ fails'[r] = IF fails[r] > MaxRetries THEN fails[r] ELSE fails[r] + 1
    BY <1>3 DEF Works
  <2>3. fails'[r] \in Nat /\ fails'[r] >= fails[r]
    BY <2>2, <1>t
  <2>4. job[a][r].retry <= MaxRetries /\ job[a][r].retry <= fails[r]
    BY <2>1, <1>d, <1>t DEF Tried, At
  <2>5. Tried(job'[a][r], fails'[r])
    BY <2>2, <2>4, <1>t DEF Tried
  <2> QED
    BY <1>d, <1>o, <1>t, <2>1, <2>3, <2>5
<1>4. ASSUME NEW a \in Actors, Settles(a, r)
      PROVE  /\ retry'[r] <= MaxRetries /\ retry'[r] <= fails'[r]
             /\ \A b \in Actors : Tried(job'[b][r], fails'[r])
  <2>1. Others(a, r) /\ fails'[r] = fails[r] /\ job'[a][r].at = "idle"
    BY <1>4 DEF Settles
  <2>2. retry'[r] = retry[r] \/ (At(a, r, "failed") /\ retry'[r] = job[a][r].retry + 1 /\ retry'[r] <= MaxRetries)
    BY <1>4 DEF Settles, SameRow
  <2>3. retry'[r] <= MaxRetries /\ retry'[r] <= fails'[r]
    BY <2>1, <2>2, <1>d, <1>t DEF Tried, At
  <2>4. Tried(job'[a][r], fails'[r])
    BY <2>1 DEF Tried
  <2> QED
    BY <1>o, <1>t, <2>1, <2>3, <2>4
<1> QED
  BY <1>1, <1>2, <1>3, <1>4 DEF Step

-----------------------------------------------------------------------------
(* Every action is one of these steps for every row *)

RowElse(r) == \A q \in Rows \ {r} : SameRow(q)

\* The transactions of the store, row by row.
LEMMA StoreSteps ==
    ASSUME TablesOK, NEW r \in Rows
    PROVE  /\ UNCHANGED rowVars => \A q \in Rows : SameRow(q)
           /\ MarkOutboxSent(r) => /\ RowElse(r) /\ Released(r, "sent") /\ Unacked(r, "delivered")
                                   /\ retry'[r] = retry[r] /\ dlq'[r] = dlq[r]
           /\ MarkOutboxExpired(r) =>
                 /\ RowElse(r)
                 /\ \/ Released(r, "expired")
                    \/ status[r] \in Terminal /\ status'[r] = status[r] /\ by'[r] = by[r] /\ lapsed'[r] = lapsed[r]
                 /\ Unacked(r, "expired") /\ retry'[r] = retry[r] /\ dlq'[r] = dlq[r]
           /\ \A a : MarkOutboxPublished(a, r) =>
                 /\ RowElse(r)
                 /\ \/ ~Fenced(a, r) /\ SameRow(r)
                    \/ /\ Fenced(a, r) /\ Released(r, "published") /\ Unacked(r, "queued")
                       /\ retry'[r] = retry[r] /\ dlq'[r] = dlq[r]
           /\ \A a, n : MarkOutboxPublishRetry(a, r, n) =>
                 /\ RowElse(r)
                 /\ \/ ~Fenced(a, r) /\ SameRow(r)
                    \/ /\ Fenced(a, r) /\ Released(r, "failed") /\ Unacked(r, "retrying")
                       /\ retry'[r] = n /\ dlq'[r] = dlq[r]
           /\ \A n : MarkOutboxRetry(r, n) =>
                 /\ RowElse(r) /\ Released(r, "failed") /\ Unacked(r, "retrying")
                 /\ retry'[r] = n /\ dlq'[r] = dlq[r]
           /\ \A s : MoveOutboxToDLQ(r, s) =>
                 /\ RowElse(r) /\ Released(r, s) /\ notif'[r] = s /\ retry'[r] = retry[r]
                 /\ s # "dlq" => dlq'[r] = dlq[r]
           /\ MarkOutboxDropped(r) => /\ RowElse(r) /\ Released(r, "dropped") /\ notif'[r] = "dropped"
                                      /\ retry'[r] = retry[r] /\ dlq'[r] = dlq[r]
<1>t. /\ DOMAIN status = Rows /\ DOMAIN by = Rows /\ DOMAIN lapsed = Rows /\ DOMAIN retry = Rows
      /\ DOMAIN notif = Rows /\ DOMAIN dlq = Rows
      /\ status \in [Rows -> Statuses] /\ by \in [Rows -> Actors \cup {NoOne}]
      /\ lapsed \in [Rows -> BOOLEAN] /\ retry \in [Rows -> Nat]
      /\ notif \in [Rows -> Notifs] /\ dlq \in [Rows -> {"none", "open", "closed"}]
  BY DEF TablesOK, StatusOK, LockOK
<1>r. ASSUME NEW s, Release(r, s)
      PROVE  /\ Released(r, s)
             /\ \A q \in Rows \ {r} : status'[q] = status[q] /\ by'[q] = by[q] /\ lapsed'[q] = lapsed[q]
  BY <1>r, <1>t DEF Release, Released
<1>n. ASSUME NEW s, NEW final, Notify(r, s, final)
      PROVE  /\ notif'[r] = IF notif[r] \in final THEN notif[r] ELSE s
             /\ \A q \in Rows \ {r} : notif'[q] = notif[q]
  BY <1>n, <1>t DEF Notify
<1>y. ASSUME NEW n, retry' = [retry EXCEPT ![r] = n]
      PROVE  retry'[r] = n /\ \A q \in Rows \ {r} : retry'[q] = retry[q]
  BY <1>y, <1>t
<1> USE DEF RowElse, SameRow, Unacked
<1>1. UNCHANGED rowVars => \A q \in Rows : SameRow(q)
  BY DEF rowVars
<1>2. ASSUME MarkOutboxSent(r)
      PROVE  /\ RowElse(r) /\ Released(r, "sent") /\ Unacked(r, "delivered")
             /\ retry'[r] = retry[r] /\ dlq'[r] = dlq[r]
  BY <1>2, <1>r, <1>n DEF MarkOutboxSent
<1>3. ASSUME MarkOutboxExpired(r)
      PROVE  /\ RowElse(r)
             /\ \/ Released(r, "expired")
                \/ status[r] \in Terminal /\ status'[r] = status[r] /\ by'[r] = by[r] /\ lapsed'[r] = lapsed[r]
             /\ Unacked(r, "expired") /\ retry'[r] = retry[r] /\ dlq'[r] = dlq[r]
  <2>1. status[r] \in {"sent", "dlq", "expired"} => status[r] \in Terminal
    BY DEF Terminal
  <2> QED
    BY <1>3, <2>1, <1>r, <1>n DEF MarkOutboxExpired
<1>4. ASSUME NEW a, MarkOutboxPublished(a, r)
      PROVE  /\ RowElse(r)
             /\ \/ ~Fenced(a, r) /\ SameRow(r)
                \/ /\ Fenced(a, r) /\ Released(r, "published") /\ Unacked(r, "queued")
                   /\ retry'[r] = retry[r] /\ dlq'[r] = dlq[r]
  BY <1>4, <1>1, <1>r, <1>n DEF MarkOutboxPublished
<1>5. ASSUME NEW a, NEW n, MarkOutboxPublishRetry(a, r, n)
      PROVE  /\ RowElse(r)
             /\ \/ ~Fenced(a, r) /\ SameRow(r)
                \/ /\ Fenced(a, r) /\ Released(r, "failed") /\ Unacked(r, "retrying")
                   /\ retry'[r] = n /\ dlq'[r] = dlq[r]
  BY <1>5, <1>1, <1>r, <1>n, <1>y DEF MarkOutboxPublishRetry
<1>6. ASSUME NEW n, MarkOutboxRetry(r, n)
      PROVE  /\ RowElse(r) /\ Released(r, "failed") /\ Unacked(r, "retrying")
             /\ retry'[r] = n /\ dlq'[r] = dlq[r]
  BY <1>6, <1>r, <1>y DEF MarkOutboxRetry
<1>7. ASSUME NEW s, MoveOutboxToDLQ(r, s)
      PROVE  /\ RowElse(r) /\ Released(r, s) /\ notif'[r] = s /\ retry'[r] = retry[r]
             /\ s # "dlq" => dlq'[r] = dlq[r]
  <2>1. \A q \in Rows \ {r} : dlq'[q] = dlq[q]
    BY <1>7, <1>t DEF MoveOutboxToDLQ
  <2> QED
    BY <1>7, <2>1, <1>r, <1>n DEF MoveOutboxToDLQ
<1>8. ASSUME MarkOutboxDropped(r)
      PROVE  /\ RowElse(r) /\ Released(r, "dropped") /\ notif'[r] = "dropped"
             /\ retry'[r] = retry[r] /\ dlq'[r] = dlq[r]
  BY <1>8, <1>r, <1>n DEF MarkOutboxDropped
<1> QED
  BY <1>1, <1>2, <1>3, <1>4, <1>5, <1>6, <1>7, <1>8

LEMMA Steps == TypeOK /\ Single /\ [Next]_vars => \A r \in Rows : Step(r)
<1> SUFFICES ASSUME TypeOK, Single, [Next]_vars PROVE \A r \in Rows : Step(r)
  OBVIOUS
<1>0. setup \in Setups /\ TablesOK /\ JobsOK /\ CountsOK /\ MqOK /\ RestOK
  BY TypeParts
<1>s. Rows' = Rows /\ Actors' = Actors
  BY SetupStep
<1>a. Relays \subseteq Actors /\ Consumers \subseteq Actors /\ Workers \subseteq Actors
  BY DEF Actors
<1>d. Relays \cap (Consumers \cup Workers) = {} /\ Consumers \cap Workers = {}
  BY Parties
<1>c. /\ pushed \in [Rows -> Nat] /\ slips \in [Rows -> Nat] /\ fails \in [Rows -> Nat]
      /\ UNCHANGED <<pushed, slips, fails>> => \A q \in Rows : Counts(q, 0, 0) /\ fails'[q] = fails[q]
  BY <1>0 DEF CountsOK, Counts
<1>p. ASSUME NEW r \in Rows, Pushed(r)
      PROVE  pushed'[r] = pushed[r] + 1 /\ \A q \in Rows \ {r} : pushed'[q] = pushed[q]
  BY <1>c, <1>p DEF Pushed
<1>l. ASSUME NEW S, Slip(S) PROVE \A q \in Rows : slips'[q] = IF q \in S THEN slips[q] + 1 ELSE slips[q]
  BY <1>l DEF Slip
<1>f. ASSUME NEW r \in Rows, Fail(r)
      PROVE  /\ fails'[r] = IF fails[r] > MaxRetries THEN fails[r] ELSE fails[r] + 1
             /\ \A q \in Rows \ {r} : fails'[q] = fails[q]
  BY <1>c, <1>f DEF Fail
<1>e. ASSUME NEW a \in Actors, NEW r \in Rows, Elsewhere(a, r)
      PROVE  Others(a, r) /\ \A q \in Rows \ {r} : SameJobs(q)
  BY <1>e DEF Elsewhere, Others, SameJobs
<1>j. ASSUME NEW a \in Actors, NEW r \in Rows, Finish(a, r)
      PROVE  Others(a, r) /\ job'[a][r].at = "idle" /\ \A q \in Rows \ {r} : SameJobs(q)
  BY <1>j, <1>0, <1>e, <1>s, FinishJob
<1>g. ASSUME NEW a \in Actors, NEW r \in Rows, NEW s \in Points, Goto(a, r, s)
      PROVE  /\ Others(a, r) /\ job'[a][r].at = s /\ \A q \in Rows \ {r} : SameJobs(q)
             /\ s = "failed" => job'[a][r].retry = job[a][r].retry
             /\ s # "failed" => job'[a][r].retry = 0
  BY <1>g, <1>0, <1>e, <1>s, GotoJob
<1>z. \A q \in Rows : pushed[q] + 0 = pushed[q] /\ slips[q] + 0 = slips[q]
  BY <1>c
<1>x. ASSUME NEW a \in Actors, NEW r \in Rows, RowElse(r), \A q \in Rows \ {r} : SameJobs(q),
             UNCHANGED <<pushed, slips, fails>>, Settles(a, r)
      PROVE  \A q \in Rows : Step(q)
  BY <1>x, <1>c DEF Step, Rests, RowElse
<1>1. ASSUME NEW a \in Relays \cup Workers, ClaimOutbox(a) PROVE \A q \in Rows : Step(q)
  <2> SUFFICES ASSUME NEW q \in Rows PROVE Step(q)
    OBVIOUS
  <2>1. /\ AllElse(a)
        /\ \/ Claimable(q) /\ job'[a][q].at = "claimed" /\ job'[a][q].retry = retry[q]
           \/ ~Claimable(q) /\ job'[a][q].at = "idle"
    BY <1>1, <1>0, <1>a, <1>s, ClaimJobs
  <2>2. Lock(a, {r \in Rows : Claimable(r)}, "processing") /\ UNCHANGED <<retry, notif, dlq, history>> /\ AllIdle(a)
    BY <1>1 DEF ClaimOutbox
  <2>3. Others(a, q) /\ At(a, q, "idle")
    BY <2>1, <2>2 DEF AllElse, Others, AllIdle
  <2>4. CASE Claimable(q)
    <3>1. status'[q] = "processing" /\ by'[q] = a /\ lapsed'[q] = FALSE
      BY <2>2, <2>4 DEF Lock
    <3>2. Takes(a, q)
      BY <2>1, <2>2, <2>3, <2>4, <3>1, <1>c DEF Takes, Claimable, history
    <3> QED
      BY <3>2, <1>a DEF Step
  <2>5. CASE ~Claimable(q)
    <3>1. SameRow(q)
      BY <2>2, <2>5 DEF Lock, SameRow
    <3>2. Counts(q, 0, IF At(a, q, "pushed") THEN 1 ELSE 0) /\ fails'[q] = fails[q]
      BY <2>2, <2>3, <1>c DEF history, At
    <3>3. Loses(a, q)
      BY <2>1, <2>3, <2>5, <3>1, <3>2 DEF Loses
    <3> QED
      BY <3>3, <1>a DEF Step
  <2> QED
    BY <2>4, <2>5
<1>2. ASSUME NEW a \in Relays, NEW r \in Rows, RelayExpire(a, r) \/ RelayMark(a, r) \/ HandlePublishFailure(a, r)
      PROVE  \A q \in Rows : Step(q)
  <2>1. Finish(a, r) /\ UNCHANGED <<pushed, slips, fails>>
    BY <1>2 DEF RelayExpire, RelayMark, HandlePublishFailure, history
  <2>2. /\ a \in Actors /\ Others(a, r) /\ job'[a][r].at = "idle" /\ \A q \in Rows \ {r} : SameJobs(q)
        /\ Counts(r, 0, 0) /\ fails'[r] = fails[r]
    BY <2>1, <1>a, <1>j, <1>c
  <2>3. CASE RelayExpire(a, r)
    <3>1. RowElse(r) /\ Settles(a, r)
      BY <2>2, <2>3, <1>0, StoreSteps DEF RelayExpire, Settles, Busy, At
    <3> QED
      BY <2>1, <2>2, <3>1, <1>x
  <2>4. CASE RelayMark(a, r)
    <3>1. RowElse(r) /\ Settles(a, r)
      BY <2>2, <2>4, <1>0, StoreSteps DEF RelayMark, Settles, Busy, At
    <3> QED
      BY <2>1, <2>2, <3>1, <1>x
  <2>5. CASE HandlePublishFailure(a, r)
    <3>1. At(a, r, "failed") /\ Busy(a, r) /\ a \notin Consumers \cup Workers
      BY <2>5, <1>d DEF HandlePublishFailure, Busy, At
    <3>2. CASE job[a][r].retry + 1 <= MaxRetries /\ MarkOutboxPublishRetry(a, r, job[a][r].retry + 1)
      <4>1. RowElse(r) /\ Settles(a, r)
        BY <2>2, <3>1, <3>2, <1>0, StoreSteps DEF Settles
      <4> QED
        BY <2>1, <2>2, <4>1, <1>x
    <3>3. CASE job[a][r].retry + 1 > MaxRetries /\ MoveOutboxToDLQ(r, "dlq")
      <4>1. RowElse(r) /\ Settles(a, r)
        BY <2>2, <3>1, <3>3, <1>0, StoreSteps DEF Settles
      <4> QED
        BY <2>1, <2>2, <4>1, <1>x
    <3> QED
      BY <2>5, <3>2, <3>3 DEF HandlePublishFailure
  <2> QED
    BY <1>2, <2>3, <2>4, <2>5
<1>w. ASSUME NEW a \in Actors, NEW r \in Rows, UNCHANGED rowVars, \A q \in Rows \ {r} : SameJobs(q),
             \A q \in Rows \ {r} : Counts(q, 0, 0) /\ fails'[q] = fails[q],
             Works(a, r) \/ Loses(a, r)
      PROVE  \A q \in Rows : Step(q)
  <2>1. \A q \in Rows : SameRow(q)
    BY <1>w, <1>0, StoreSteps
  <2> QED
    BY <1>w, <2>1 DEF Step, Rests
<1>3. ASSUME NEW a \in Relays, NEW r \in Rows, Publish(a, r) PROVE \A q \in Rows : Step(q)
  <2>1. /\ UNCHANGED rowVars /\ UNCHANGED <<pushed, slips>> /\ At(a, r, "claimed") /\ a \in Actors
        /\ \/ Goto(a, r, "published") /\ UNCHANGED fails
           \/ Goto(a, r, "failed") /\ Fail(r)
    BY <1>3, <1>a DEF Publish
  <2>2. /\ Others(a, r) /\ \A q \in Rows \ {r} : SameJobs(q)
        /\ \/ job'[a][r].at = "published" /\ UNCHANGED fails
           \/ job'[a][r].at = "failed" /\ job'[a][r].retry = job[a][r].retry /\ Fail(r)
    BY <2>1, <1>g DEF Points
  <2>3. \A q \in Rows \ {r} : Counts(q, 0, 0) /\ fails'[q] = fails[q]
    BY <2>1, <2>2, <1>f, <1>z DEF Counts
  <2>4. SameRow(r)
    BY <2>1, <1>0, StoreSteps
  <2>5. Works(a, r)
    BY <2>1, <2>2, <2>4, <1>d, <1>f, <1>z DEF Works, Counts
  <2> QED
    BY <2>1, <2>2, <2>3, <2>5, <1>w
<1>4. ASSUME NEW c \in Consumers, Receive(c) PROVE \A q \in Rows : Step(q)
  <2> DEFINE r == log[pos]
  <2>1. r \in Rows
    BY <1>4, <1>0 DEF Receive, MqOK
  <2>2. UNCHANGED <<retry, notif, dlq, pushed, slips, fails>> /\ AllIdle(c) /\ c \in Actors
    BY <1>4, <1>a DEF Receive
  <2>3. \/ UNCHANGED <<status, by, lapsed, job>>
        \/ ClaimPublishedOutbox(c, r) /\ Goto(c, r, "claimed")
    BY <1>4 DEF Receive
  <2> HIDE DEF r
  <2>4. CASE UNCHANGED <<status, by, lapsed, job>>
    BY <2>2, <2>4, <1>c DEF Step, Rests, SameRow, SameJobs
  <2>5. CASE ClaimPublishedOutbox(c, r) /\ Goto(c, r, "claimed")
    <3>1. Lock(c, {r}, "delivering") /\ Deliverable(r)
      BY <2>5 DEF ClaimPublishedOutbox
    <3>2. /\ Others(c, r) /\ job'[c][r].at = "claimed" /\ job'[c][r].retry = 0
          /\ \A q \in Rows \ {r} : SameJobs(q)
      BY <2>1, <2>2, <2>5, <1>g DEF Points
    <3>3. \A q \in Rows \ {r} : SameRow(q)
      BY <2>2, <3>1 DEF Lock, SameRow
    <3>4. status'[r] = "delivering" /\ by'[r] = c /\ lapsed'[r] = FALSE
      BY <2>1, <3>1 DEF Lock
    <3>5. Takes(c, r)
      BY <2>1, <2>2, <3>1, <3>2, <3>4, <1>c DEF Takes, Deliverable, AllIdle
    <3> QED
      BY <2>2, <3>2, <3>3, <3>5, <1>c DEF Step, Rests
  <2> QED
    BY <2>3, <2>4, <2>5
<1>5. ASSUME NEW c \in Consumers, NEW r \in Rows,
             ConsumerExpire(c, r) \/ HandlePushSuccess(c, r) \/ HandlePushFailure(c, r)
      PROVE  \A q \in Rows : Step(q)
  <2>1. Finish(c, r) /\ UNCHANGED <<pushed, slips, fails>>
    BY <1>5 DEF ConsumerExpire, HandlePushSuccess, HandlePushFailure, history
  <2>2. /\ c \in Actors /\ Others(c, r) /\ job'[c][r].at = "idle" /\ \A q \in Rows \ {r} : SameJobs(q)
        /\ Counts(r, 0, 0) /\ fails'[r] = fails[r]
    BY <2>1, <1>a, <1>j, <1>c
  <2>3. RowElse(r) /\ Settles(c, r)
    <3>1. CASE ConsumerExpire(c, r)
      BY <2>2, <3>1, <1>0, StoreSteps DEF ConsumerExpire, Settles, Busy, At
    <3>2. CASE HandlePushSuccess(c, r)
      BY <2>2, <3>2, <1>0, StoreSteps DEF HandlePushSuccess, Settles, Busy, At
    <3>3. CASE HandlePushFailure(c, r)
      BY <2>2, <3>3, <1>0, <1>d, StoreSteps DEF HandlePushFailure, Settles, Busy, At, Holders
    <3> QED
      BY <1>5, <3>1, <3>2, <3>3
  <2> QED
    BY <2>1, <2>2, <2>3, <1>x
<1>6. ASSUME NEW c \in Consumers, NEW r \in Rows, PushEnvelope(c, r) PROVE \A q \in Rows : Step(q)
  <2>1. /\ UNCHANGED rowVars /\ UNCHANGED fails /\ At(c, r, "claimed") /\ c \in Actors
        /\ \/ Goto(c, r, "pushed") /\ Pushed(r) /\ UNCHANGED slips
           \/ Goto(c, r, "rejected") /\ UNCHANGED <<pushed, slips>>
           \/ Finish(c, r) /\ UNCHANGED <<pushed, slips>>
           \/ Finish(c, r) /\ Pushed(r) /\ Slip({r})
    BY <1>6, <1>a DEF PushEnvelope
  <2>2. /\ Others(c, r) /\ \A q \in Rows \ {r} : SameJobs(q)
        /\ \/ job'[c][r].at = "pushed" /\ Pushed(r) /\ UNCHANGED slips
           \/ job'[c][r].at = "rejected" /\ UNCHANGED <<pushed, slips>>
           \/ job'[c][r].at = "idle" /\ UNCHANGED <<pushed, slips>>
           \/ job'[c][r].at = "idle" /\ Pushed(r) /\ Slip({r})
    BY <2>1, <1>g, <1>j DEF Points
  <2>3. \A q \in Rows \ {r} : Counts(q, 0, 0) /\ fails'[q] = fails[q]
    BY <2>1, <2>2, <1>p, <1>l, <1>z DEF Counts
  <2>4. SameRow(r)
    BY <2>1, <1>0, StoreSteps
  <2>5. Works(c, r)
    BY <2>1, <2>2, <2>4, <1>d, <1>p, <1>l, <1>z DEF Works, Counts
  <2> QED
    BY <2>1, <2>2, <2>3, <2>5, <1>w
<1>7. ASSUME UNCHANGED rowVars, UNCHANGED job, UNCHANGED <<pushed, slips, fails>> PROVE \A q \in Rows : Step(q)
  BY <1>7, <1>0, <1>c, StoreSteps DEF Step, Rests, SameJobs
<1>k. ASSUME NEW a \in Actors, UNCHANGED rowVars, job' = [job EXCEPT ![a] = [q \in Rows |-> Idle]],
             Slip(Unrecorded(a)), UNCHANGED <<pushed, fails>>
      PROVE  \A q \in Rows : Step(q)
  <2> SUFFICES ASSUME NEW q \in Rows PROVE Loses(a, q)
    BY DEF Step
  <2>1. SameRow(q) /\ AllElse(a) /\ job'[a][q].at = "idle"
    BY <1>k, <1>0, <1>s, ResetJobs, StoreSteps
  <2>2. slips'[q] = IF At(a, q, "pushed") THEN slips[q] + 1 ELSE slips[q]
    BY <1>k, <1>l DEF Unrecorded
  <2> QED
    BY <1>k, <2>1, <2>2, <1>z DEF Loses, Others, AllElse, Counts
<1>8. ASSUME NEW c \in Consumers, Rebalance(c) PROVE \A q \in Rows : Step(q)
  <2>1. UNCHANGED rowVars /\ UNCHANGED <<pushed, fails>> /\ owner \in Actors
    BY <1>8, <1>0, <1>a DEF Rebalance, MqOK
  <2>2. CASE UNCHANGED <<job, slips>>
    BY <2>1, <2>2, <1>7
  <2>3. CASE job' = [job EXCEPT ![owner] = [r \in Rows |-> Idle]] /\ Slip(Unrecorded(owner))
    BY <2>1, <2>3, <1>k
  <2> QED
    BY <1>8, <2>2, <2>3 DEF Rebalance
<1>9. ASSUME NEW w \in Workers, NEW r \in Rows,
             WorkerExpire(w, r) \/ WorkerMark(w, r) \/ HandleOutboxFailure(w, r)
      PROVE  \A q \in Rows : Step(q)
  <2>1. Finish(w, r) /\ UNCHANGED <<pushed, slips, fails>>
    BY <1>9 DEF WorkerExpire, WorkerMark, HandleOutboxFailure, history
  <2>2. /\ w \in Actors /\ Others(w, r) /\ job'[w][r].at = "idle" /\ \A q \in Rows \ {r} : SameJobs(q)
        /\ Counts(r, 0, 0) /\ fails'[r] = fails[r]
    BY <2>1, <1>a, <1>j, <1>c
  <2>r. w \notin Relays
    BY <1>d
  <2>3. RowElse(r) /\ Settles(w, r)
    <3>1. CASE WorkerExpire(w, r)
      <4>1. At(w, r, "claimed") /\ Busy(w, r) /\ w \in Holders(r) /\ MoveOutboxToDLQ(r, "expired")
        BY <3>1 DEF WorkerExpire, Turn, Busy, At, Holders
      <4> QED
        BY <2>2, <2>r, <4>1, <1>0, StoreSteps DEF Settles
    <3>2. CASE WorkerMark(w, r)
      BY <2>2, <3>2, <1>0, StoreSteps DEF WorkerMark, Settles, Busy, At
    <3>3. CASE HandleOutboxFailure(w, r)
      <4>1. job[w][r].at \in {"failed", "rejected"} /\ Busy(w, r) /\ w \in Holders(r)
        BY <3>3 DEF HandleOutboxFailure, At, Busy, Holders
      <4>2. CASE At(w, r, "failed") /\ job[w][r].retry + 1 <= MaxRetries /\ MarkOutboxRetry(r, job[w][r].retry + 1)
        BY <2>2, <4>1, <4>2, <1>0, StoreSteps DEF Settles
      <4>3. CASE /\ At(w, r, "rejected") \/ (At(w, r, "failed") /\ job[w][r].retry + 1 > MaxRetries)
                 /\ MarkOutboxDropped(r) \/ MoveOutboxToDLQ(r, "dlq")
        BY <2>2, <2>r, <4>1, <4>3, <1>0, StoreSteps DEF Settles
      <4> QED
        BY <3>3, <4>2, <4>3 DEF HandleOutboxFailure, ApplyCompensationStrategy
    <3> QED
      BY <1>9, <3>1, <3>2, <3>3
  <2> QED
    BY <2>1, <2>2, <2>3, <1>x
<1>10. ASSUME NEW w \in Workers, NEW r \in Rows, WorkerSkip(w, r) PROVE \A q \in Rows : Step(q)
  <2>1. /\ Finish(w, r) /\ UNCHANGED rowVars /\ UNCHANGED <<pushed, slips, fails>> /\ At(w, r, "claimed")
        /\ w \in Actors /\ Turn(w, r)
    BY <1>10, <1>a DEF WorkerSkip, Turn, history
  <2>2. /\ Others(w, r) /\ job'[w][r].at = "idle" /\ \A q \in Rows \ {r} : SameJobs(q)
        /\ \A q \in Rows : Counts(q, 0, 0) /\ fails'[q] = fails[q]
    BY <2>1, <1>j, <1>c
  <2>3. SameRow(r)
    BY <2>1, <1>0, StoreSteps
  <2>4. Works(w, r)
    BY <2>1, <2>2, <2>3 DEF Works, SameJobs
  <2> QED
    BY <2>1, <2>2, <2>4, <1>w
<1>11. ASSUME NEW w \in Workers, NEW r \in Rows, WorkerPush(w, r) PROVE \A q \in Rows : Step(q)
  <2>1. /\ UNCHANGED rowVars /\ At(w, r, "claimed") /\ w \in Actors /\ Turn(w, r)
        /\ \/ Goto(w, r, "pushed") /\ Pushed(r) /\ UNCHANGED <<slips, fails>>
           \/ Goto(w, r, "rejected") /\ UNCHANGED <<pushed, slips, fails>>
           \/ Goto(w, r, "failed") /\ Fail(r) /\ UNCHANGED <<pushed, slips>>
           \/ Goto(w, r, "failed") /\ Fail(r) /\ Pushed(r) /\ Slip({r})
    BY <1>11, <1>a DEF WorkerPush, Turn
  <2>2. /\ Others(w, r) /\ \A q \in Rows \ {r} : SameJobs(q)
        /\ \/ job'[w][r].at = "pushed" /\ Pushed(r) /\ UNCHANGED <<slips, fails>>
           \/ job'[w][r].at = "rejected" /\ UNCHANGED <<pushed, slips, fails>>
           \/ /\ job'[w][r].at = "failed" /\ job'[w][r].retry = job[w][r].retry /\ Fail(r)
              /\ UNCHANGED <<pushed, slips>> \/ (Pushed(r) /\ Slip({r}))
    BY <2>1, <1>g DEF Points
  <2>3. \A q \in Rows \ {r} : Counts(q, 0, 0) /\ fails'[q] = fails[q]
    BY <2>1, <2>2, <1>p, <1>l, <1>f, <1>z DEF Counts
  <2>4. SameRow(r)
    BY <2>1, <1>0, StoreSteps
  <2>5. Works(w, r)
    BY <2>1, <2>2, <2>4, <1>p, <1>l, <1>f, <1>z DEF Works, Counts, SameJobs
  <2> QED
    BY <2>1, <2>2, <2>3, <2>5, <1>w
<1>12. ASSUME NEW a \in Actors, Crash(a) PROVE \A q \in Rows : Step(q)
  BY <1>12, <1>k DEF Crash
<1>13. ASSUME NEW a \in Actors, NEW r \in Rows, StoreFails(a, r) PROVE \A q \in Rows : Step(q)
  <2>1. UNCHANGED rowVars /\ UNCHANGED <<pushed, fails>> /\ Slip(IF At(a, r, "pushed") THEN {r} ELSE {})
    BY <1>13 DEF StoreFails
  <2>2. CASE Finish(a, r)
    <3>1. Others(a, r) /\ job'[a][r].at = "idle" /\ \A q \in Rows \ {r} : SameJobs(q)
      BY <2>2, <1>j
    <3>2. /\ \A q \in Rows \ {r} : Counts(q, 0, 0) /\ fails'[q] = fails[q]
          /\ Counts(r, 0, IF At(a, r, "pushed") THEN 1 ELSE 0) /\ fails'[r] = fails[r]
      BY <2>1, <1>l, <1>z DEF Counts
    <3>3. SameRow(r)
      BY <2>1, <1>0, StoreSteps
    <3> QED
      BY <2>1, <3>1, <3>2, <3>3, <1>w DEF Loses
  <2>3. CASE a \in Workers /\ job' = [job EXCEPT ![a] = [q \in Rows |-> Idle]]
    <3>1. \A q \in Rows \ {r} : ~At(a, q, "pushed")
      <4>1. CASE Past(a, r)
        BY <2>3, <4>1 DEF Single, Past, At
      <4>2. CASE Turn(a, r)
        BY <4>2 DEF Turn, At
      <4> QED
        BY <1>13, <2>3, <4>1, <4>2 DEF StoreFails, Past
    <3>2. Slip(Unrecorded(a))
      BY <2>1, <3>1 DEF Unrecorded, Slip
    <3> QED
      BY <2>1, <2>3, <3>2, <1>k
  <2> QED
    BY <1>13, <2>2, <2>3 DEF StoreFails
<1>14. ASSUME NEW r \in Rows, Lapse(r) PROVE \A q \in Rows : Step(q)
  <2>1. /\ by[r] # NoOne /\ lapsed' = [lapsed EXCEPT ![r] = TRUE]
        /\ UNCHANGED <<status, by, retry, notif, dlq, job, pushed, fails>>
        /\ IF At(by[r], r, "idle") THEN UNCHANGED slips ELSE Slip({r})
    BY <1>14 DEF Lapse
  <2>2. lapsed'[r] /\ \A q \in Rows \ {r} : lapsed'[q] = lapsed[q]
    BY <2>1, <1>0 DEF TablesOK, LockOK
  <2>3. /\ IF At(by[r], r, "idle") THEN slips'[r] = slips[r] ELSE slips'[r] = slips[r] + 1
        /\ \A q \in Rows \ {r} : slips'[q] = slips[q]
    BY <2>1, <1>l
  <2>4. Lapses(r)
    BY <2>1, <2>2, <2>3, <1>z DEF Lapses, SameJobs, Counts
  <2>5. \A q \in Rows \ {r} : Rests(q)
    BY <2>1, <2>2, <2>3, <1>z DEF Rests, SameRow, SameJobs, Counts
  <2> QED
    BY <2>4, <2>5 DEF Step
<1>15. ASSUME NEW r \in Rows, Ack(r) \/ ResolveDLQ(r) PROVE \A q \in Rows : Step(q)
  <2>1. /\ UNCHANGED <<status, by, lapsed, retry, job, pushed, slips, fails>>
        /\ \/ pushed[r] > 0 /\ notif' = [notif EXCEPT ![r] = "acked"] /\ UNCHANGED dlq
           \/ dlq' = [dlq EXCEPT ![r] = "closed"] /\ UNCHANGED notif
    BY <1>15 DEF Ack, ResolveDLQ, history
  <2>2. Concludes(r)
    BY <2>1, <1>0, <1>c DEF Concludes, SameJobs, TablesOK
  <2>3. \A q \in Rows \ {r} : Rests(q)
    BY <2>1, <1>0, <1>c DEF Rests, SameRow, SameJobs, TablesOK
  <2> QED
    BY <2>2, <2>3 DEF Step
<1>16. ASSUME NEW r \in Rows, ReplayDLQ(r) PROVE \A q \in Rows : Step(q)
  <2>1. /\ UNCHANGED <<retry, notif, job, pushed, fails>> /\ Slip({r}) /\ Release(r, "pending")
        /\ dlq[r] # "none" /\ dlq' = [dlq EXCEPT ![r] = "closed"]
    BY <1>16 DEF ReplayDLQ
  <2>2. Released(r, "pending") /\ dlq'[r] = "closed"
    BY <2>1, <1>0 DEF Release, Released, TablesOK, StatusOK, LockOK
  <2>3. \A q \in Rows \ {r} : SameRow(q)
    BY <2>1, <1>0 DEF Release, SameRow, TablesOK, StatusOK, LockOK
  <2>4. slips'[r] = slips[r] + 1 /\ \A q \in Rows \ {r} : slips'[q] = slips[q]
    BY <2>1, <1>l
  <2>5. Replays(r)
    BY <2>1, <2>2, <2>4, <1>z DEF Replays, SameJobs, Counts
  <2>6. \A q \in Rows \ {r} : Rests(q)
    BY <2>1, <2>3, <2>4, <1>z DEF Rests, SameJobs, Counts
  <2> QED
    BY <2>5, <2>6 DEF Step
<1>17. CASE Campaign
  <2> SUFFICES ASSUME NEW q \in Rows PROVE Step(q)
    OBVIOUS
  <2>1. /\ UNCHANGED <<by, lapsed, retry, notif, dlq, job, pushed, slips, fails>>
        /\ \/ status'[q] = status[q]
           \/ status'[q] = "cancelled" /\ status[q] \in {"pending", "failed"}
    BY <1>17 DEF Campaign, history
  <2>2. Rests(q) \/ Concludes(q)
    BY <2>1, <1>c DEF Rests, Concludes, SameRow, SameJobs
  <2> QED
    BY <2>2 DEF Step
<1>18. ASSUME NEW r \in Rows, Age(r) PROVE \A q \in Rows : Step(q)
  BY <1>18, <1>7 DEF Age, history
<1>19. ASSUME NEW c \in Consumers, ReceiveFails(c) PROVE \A q \in Rows : Step(q)
  BY <1>19, <1>7 DEF ReceiveFails
<1>20. CASE UNCHANGED vars
  BY <1>20, <1>7 DEF vars, history
<1> QED
  BY <1>1, <1>2, <1>3, <1>4, <1>5, <1>6, <1>8, <1>9, <1>10, <1>11, <1>12, <1>13, <1>14,
     <1>15, <1>16, <1>17, <1>18, <1>19, <1>20 DEF Next, RelayStep, ConsumerStep, WorkerStep

LEMMA SingleStep ==
    ASSUME TypeOK, Fixed, Single, \A r \in Rows : Step(r)
    PROVE  Single'
<1> SUFFICES ASSUME NEW w \in Workers, NEW q \in Rows, NEW r \in Rows, q # r,
                    job'[w][q].at \notin {"idle", "claimed"}, job'[w][r].at \notin {"idle", "claimed"}
             PROVE  FALSE
  BY DEF Single, Past, Fixed
<1>w. w \in Actors
  BY DEF Actors
<1>1. ASSUME NEW x \in Rows, job'[w][x].at \notin {"idle", "claimed"}
      PROVE  job[w][x].at \notin {"idle", "claimed"} \/ Works(w, x)
  <2>1. CASE Rests(x) \/ Lapses(x) \/ Replays(x) \/ Concludes(x)
    BY <1>1, <1>w, <2>1 DEF Rests, Lapses, Replays, Concludes, SameJobs
  <2>2. ASSUME NEW a \in Actors, Takes(a, x) \/ Works(a, x) \/ Settles(a, x) \/ Loses(a, x)
        PROVE  job[w][x].at \notin {"idle", "claimed"} \/ Works(w, x)
    <3>1. Others(a, x)
      BY <2>2 DEF Takes, Works, Settles, Loses
    <3>2. CASE a # w
      BY <1>1, <1>w, <3>1, <3>2 DEF Others
    <3>3. CASE a = w
      BY <1>1, <2>2, <3>3 DEF Takes, Settles, Loses
    <3> QED
      BY <3>2, <3>3
  <2> QED
    BY <2>1, <2>2 DEF Step
<1>2. ASSUME NEW x \in Rows, NEW y \in Rows, x # y, Works(w, x), job'[w][y].at \notin {"idle", "claimed"}
      PROVE  FALSE
  <2>1. job[w][y].at \in {"idle", "claimed"} /\ job'[w][y] = job[w][y]
    BY <1>2 DEF Works, Turn
  <2> QED
    BY <1>2, <2>1
<1> QED
  BY <1>1, <1>2 DEF Single, Past

-----------------------------------------------------------------------------
(* Messages and rows that wait for one *)

\* A message in the log stays there; it is read by a consumer that takes the
\* row, finds it finished, or gives the message up. A job of a consumer ends
\* with a message given up, or with a row that waits no longer.
Reads(r) ==
    /\ r \in missed => r \in missed'
    /\ InLog(r) => InLog(r)'
    /\ Unread(r) => \/ Unread(r)' \/ r \in missed' \/ status'[r] \in Terminal
                    \/ status'[r] = "delivering" /\ \E c \in Consumers : Busy(c, r)'
    /\ \A c \in Consumers : Busy(c, r) =>
          Busy(c, r)' \/ r \in missed' \/ status'[r] \notin {"published", "delivering"}
    /\ \A c \in Consumers : ~Busy(c, r) /\ Busy(c, r)' => InLog(r)
    /\ \A a \in Relays : ~At(a, r, "published") /\ At(a, r, "published")' => InLog(r)' /\ Unread(r)'

LEMMA WaitsStep ==
    ASSUME TypeOK, Fixed, NEW r \in Rows, Waits(r), Step(r), Reads(r)
    PROVE  Waits(r)'
<1>1. ASSUME status'[r] \in {"published", "delivering"}
      PROVE  InLog(r)' /\ (Awaited(r)' \/ \E c \in Consumers : Busy(c, r)')
  <2>t. status'[r] \notin Terminal
    BY <1>1 DEF Terminal
  <2>1. CASE status[r] \in {"published", "delivering"}
    BY <1>1, <2>1, <2>t DEF Waits, Reads, Awaited
  <2>2. CASE status[r] \notin {"published", "delivering"}
    <3>1. PICK a \in Actors : \/ a \in Consumers /\ Takes(a, r)
                              \/ a \in Relays /\ Fenced(a, r) /\ At(a, r, "published")
      <4>1. PICK a \in Actors : Takes(a, r) \/ Settles(a, r)
        BY <1>1, <2>2 DEF Step, Rests, Lapses, Replays, Concludes, Works, Loses, SameRow, Released
      <4>2. CASE Takes(a, r)
        BY <1>1, <2>2, <4>2 DEF Takes
      <4>3. CASE Settles(a, r)
        BY <1>1, <2>2, <4>3 DEF Settles, Released, SameRow
      <4> QED
        BY <4>1, <4>2, <4>3
    <3>2. CASE a \in Consumers /\ Takes(a, r)
      BY <2>2, <3>2, Parties DEF Takes
    <3>3. CASE a \in Relays /\ Fenced(a, r) /\ At(a, r, "published")
      BY <2>t, <3>3 DEF Waits, Reads, Awaited
    <3> QED
      BY <3>1, <3>2, <3>3
  <2> QED
    BY <2>1, <2>2
<1>2. ASSUME NEW a \in Relays, At(a, r, "published")'
      PROVE  InLog(r)' /\ (Fenced(a, r)' => Awaited(r)')
  <2>1. CASE ~At(a, r, "published")
    BY <1>2, <2>1 DEF Reads, Awaited
  <2>2. CASE At(a, r, "published")
    <3>1. ASSUME Fenced(a, r)' PROVE Fenced(a, r) /\ status'[r] = "processing"
      <4>1. status'[r] = "processing" /\ by'[r] = a /\ a # NoOne
        BY <3>1, Parties DEF Fenced, Actors
      <4>2. ASSUME NEW b \in Actors, Takes(b, r) PROVE FALSE
        BY <2>2, <4>1, <4>2 DEF Takes, At
      <4>3. status[r] = status'[r] /\ by[r] = by'[r]
        BY <4>1, <4>2 DEF Step, Rests, Lapses, Replays, Concludes, Works, Loses, Settles, SameRow, Released
      <4> QED
        BY <4>1, <4>3 DEF Fenced
    <3>2. "processing" \notin Terminal \cup {"delivering"}
      BY DEF Terminal
    <3> QED
      BY <2>2, <3>1, <3>2 DEF Waits, Reads, Awaited
  <2> QED
    BY <2>1, <2>2
<1>3. Relays' = Relays /\ Consumers' = Consumers
  BY DEF Fixed
<1> QED
  BY <1>1, <1>2, <1>3 DEF Waits

LEMMA Reading == TypeOK /\ [Next]_vars => \A r \in Rows : Reads(r)
<1> SUFFICES ASSUME TypeOK, [Next]_vars PROVE \A r \in Rows : Reads(r)
  OBVIOUS
<1>0. setup \in Setups /\ TablesOK /\ JobsOK /\ CountsOK /\ MqOK /\ RestOK
  BY TypeParts
<1>s. Rows' = Rows /\ Actors' = Actors /\ Consumers' = Consumers
  BY SetupStep
<1>a. /\ Relays \subseteq Actors /\ Consumers \subseteq Actors /\ Workers \subseteq Actors
      /\ Relays \cap (Consumers \cup Workers) = {} /\ Consumers \cap Workers = {}
  BY Parties DEF Actors
<1>q. log \in Seq(Rows) /\ pos \in 1..Len(log) + 1 /\ Len(log) \in Nat
  BY <1>0 DEF MqOK
<1>j. ASSUME NEW a \in Actors, NEW r \in Rows, Finish(a, r)
      PROVE  Elsewhere(a, r) /\ job'[a][r].at = "idle"
  BY <1>j, <1>0, <1>s, FinishJob
<1>g. ASSUME NEW a \in Actors, NEW r \in Rows, NEW s \in Points, Goto(a, r, s)
      PROVE  Elsewhere(a, r) /\ job'[a][r].at = s
  BY <1>g, <1>0, <1>s, GotoJob
<1>m. ASSUME UNCHANGED mqVars, missed \subseteq missed', NEW r \in Rows,
             \A c \in Consumers :
                 \/ job'[c][r] = job[c][r]
                 \/ /\ job[c][r].at # "idle"
                    /\ \/ job'[c][r].at # "idle" \/ r \in missed'
                       \/ status'[r] \notin {"published", "delivering"},
             \A a \in Relays : job'[a][r] = job[a][r] \/ job'[a][r].at # "published"
      PROVE  Reads(r)
  <2>1. InLog(r)' = InLog(r) /\ Unread(r)' = Unread(r)
    BY <1>m DEF mqVars, InLog, Unread
  <2> QED
    BY <1>m, <2>1 DEF Reads, Busy, At
<1>u. ASSUME UNCHANGED <<mqVars, job, missed>> PROVE \A r \in Rows : Reads(r)
  BY <1>u, <1>m
<1>f. ASSUME UNCHANGED mqVars, UNCHANGED missed, NEW a \in Relays \cup Workers, NEW r \in Rows,
             Finish(a, r) \/ (a \in Workers /\ \E s \in Points : Goto(a, r, s))
      PROVE  \A q \in Rows : Reads(q)
  <2>1. Elsewhere(a, r) /\ (a \in Relays => job'[a][r].at = "idle")
    BY <1>f, <1>a, <1>j, <1>g
  <2> QED
    BY <2>1, <1>f, <1>a, <1>m DEF Elsewhere
<1>c. ASSUME UNCHANGED mqVars, UNCHANGED missed, NEW a \in Relays \cup Workers, AllElse(a),
             \A r \in Rows : job'[a][r].at # "published"
      PROVE  \A q \in Rows : Reads(q)
  BY <1>c, <1>a, <1>m DEF AllElse
<1>1. ASSUME NEW a \in Relays \cup Workers, ClaimOutbox(a) PROVE \A q \in Rows : Reads(q)
  <2>1. AllElse(a) /\ \A r \in Rows : job'[a][r].at # "published"
    BY <1>1, <1>0, <1>a, <1>s, ClaimJobs
  <2> QED
    BY <1>1, <2>1, <1>c DEF ClaimOutbox, history
<1>2. ASSUME NEW a \in Relays, NEW r \in Rows, RelayExpire(a, r) \/ RelayMark(a, r) \/ HandlePublishFailure(a, r)
      PROVE  \A q \in Rows : Reads(q)
  BY <1>2, <1>f DEF RelayExpire, RelayMark, HandlePublishFailure, history
<1>3. ASSUME NEW a \in Relays, NEW r \in Rows, Publish(a, r) PROVE \A q \in Rows : Reads(q)
  <2>1. /\ UNCHANGED pos /\ UNCHANGED missed /\ log' \in {log, Append(log, r)}
        /\ \/ log' = Append(log, r) /\ Goto(a, r, "published")
           \/ Goto(a, r, "failed")
    BY <1>3 DEF Publish
  <2>2. /\ Elsewhere(a, r) /\ (job'[a][r].at = "published" => log' = Append(log, r))
    BY <2>1, <1>a, <1>g DEF Points
  <2>3. /\ Len(Append(log, r)) = Len(log) + 1 /\ Append(log, r)[Len(log) + 1] = r
        /\ \A i \in 1..Len(log) : Append(log, r)[i] = log[i]
    BY <1>q
  <2>4. ASSUME NEW q \in Rows PROVE (InLog(q) => InLog(q)') /\ (Unread(q) => Unread(q)')
    <3>1. ASSUME NEW i \in 1..Len(log) PROVE i \in 1..Len(log)' /\ log'[i] = log[i]
      BY <2>1, <2>3, <1>q
    <3>2. ASSUME NEW i \in pos..Len(log) PROVE i \in 1..Len(log) /\ i \in pos'..Len(log)'
      BY <2>1, <2>3, <1>q
    <3> QED
      BY <3>1, <3>2 DEF InLog, Unread
  <2>5. log' = Append(log, r) => InLog(r)' /\ Unread(r)'
    <3>1. ASSUME log' = Append(log, r) PROVE InLog(r)' /\ Unread(r)'
      <4>1. Len(log)' = Len(log) + 1 /\ log'[Len(log) + 1] = r /\ pos' = pos
        BY <2>1, <2>3, <3>1
      <4>2. Len(log) + 1 \in 1..Len(log)' /\ Len(log) + 1 \in pos'..Len(log)'
        BY <4>1, <1>q
      <4> QED
        BY <4>1, <4>2 DEF InLog, Unread
    <3> QED
      BY <3>1
  <2>6. /\ \A c \in Consumers, q \in Rows : job'[c][q] = job[c][q]
        /\ \A b \in Relays, q \in Rows : b # a \/ q # r => job'[b][q] = job[b][q]
    BY <2>2, <1>a DEF Elsewhere
  <2> QED
    BY <2>1, <2>2, <2>4, <2>5, <2>6 DEF Reads, Busy, At
<1>r. ASSUME pos <= Len(log), pos' = pos + 1, UNCHANGED log, missed \subseteq missed'
      PROVE  /\ log[pos] \in Rows /\ InLog(log[pos])
             /\ \A q \in Rows : InLog(q) => InLog(q)'
             /\ \A q \in Rows : Unread(q) => Unread(q)' \/ q = log[pos]
  <2>1. pos \in 1..Len(log)
    BY <1>r, <1>q
  <2>2. log[pos] \in Rows /\ InLog(log[pos])
    BY <2>1, <1>q DEF InLog
  <2>3. ASSUME NEW i \in pos..Len(log) PROVE i \in pos'..Len(log)' \/ i = pos
    BY <1>r, <1>q
  <2> QED
    BY <1>r, <2>2, <2>3 DEF InLog, Unread
<1>4. ASSUME NEW c \in Consumers, Receive(c) PROVE \A q \in Rows : Reads(q)
  <2>1. pos <= Len(log) /\ pos' = pos + 1 /\ UNCHANGED log /\ AllIdle(c) /\ missed \subseteq missed'
    BY <1>4 DEF Receive
  <2>r. PICK r \in Rows : r = log[pos]
    BY <2>1, <1>r
  <2>2. /\ InLog(r)
        /\ \A q \in Rows : InLog(q) => InLog(q)'
        /\ \A q \in Rows : Unread(q) => Unread(q)' \/ q = r
    BY <2>1, <2>r, <1>r
  <2>3. \/ r \in missed' /\ UNCHANGED job
        \/ status'[r] \in Terminal /\ UNCHANGED job
        \/ ClaimPublishedOutbox(c, r) /\ Goto(c, r, "claimed")
    BY <1>4, <2>r DEF Receive
  <2>4. CASE UNCHANGED job /\ (r \in missed' \/ status'[r] \in Terminal)
    BY <2>1, <2>2, <2>4 DEF Reads, Busy, At
  <2>5. CASE ClaimPublishedOutbox(c, r) /\ Goto(c, r, "claimed")
    <3>1. Elsewhere(c, r) /\ job'[c][r].at = "claimed" /\ status'[r] = "delivering"
      BY <2>2, <2>5, <1>a, <1>g DEF ClaimPublishedOutbox, Lock, Points
    <3>2. /\ Busy(c, r)'
          /\ \A d \in Consumers, q \in Rows : d # c \/ q # r => job'[d][q] = job[d][q]
          /\ \A b \in Relays, q \in Rows : job'[b][q] = job[b][q]
      BY <3>1, <1>a DEF Elsewhere, Busy, At
    <3> QED
      BY <2>1, <2>2, <3>1, <3>2 DEF Reads, Busy, At
  <2> QED
    BY <2>3, <2>4, <2>5
<1>5. ASSUME NEW c \in Consumers, ReceiveFails(c) PROVE \A q \in Rows : Reads(q)
  <2>1. /\ pos <= Len(log) /\ pos' = pos + 1 /\ UNCHANGED <<log, job>>
        /\ missed \subseteq missed' /\ log[pos] \in missed'
    BY <1>5 DEF ReceiveFails
  <2> QED
    BY <2>1, <1>r DEF Reads, Busy, At
<1>6. ASSUME NEW c \in Consumers, NEW r \in Rows,
             ConsumerExpire(c, r) \/ HandlePushSuccess(c, r) \/ HandlePushFailure(c, r)
      PROVE  \A q \in Rows : Reads(q)
  <2>1. /\ UNCHANGED mqVars /\ UNCHANGED missed /\ Finish(c, r) /\ job[c][r].at # "idle"
        /\ MarkOutboxExpired(r) \/ MarkOutboxSent(r) \/ MoveOutboxToDLQ(r, "dlq")
    BY <1>6 DEF ConsumerExpire, HandlePushSuccess, HandlePushFailure, history, At
  <2>2. status'[r] \notin {"published", "delivering"}
    BY <2>1, <1>0 DEF MarkOutboxExpired, MarkOutboxSent, MoveOutboxToDLQ, Release, TablesOK, StatusOK
  <2>3. Elsewhere(c, r)
    BY <2>1, <1>a, <1>j
  <2> QED
    BY <2>1, <2>2, <2>3, <1>a, <1>m DEF Elsewhere
<1>7. ASSUME NEW c \in Consumers, NEW r \in Rows, PushEnvelope(c, r) PROVE \A q \in Rows : Reads(q)
  <2>1. /\ UNCHANGED mqVars /\ missed \subseteq missed' /\ job[c][r].at # "idle"
        /\ Goto(c, r, "pushed") \/ Goto(c, r, "rejected") \/ (Finish(c, r) /\ r \in missed')
    BY <1>7 DEF PushEnvelope, At
  <2>2. Elsewhere(c, r) /\ (job'[c][r].at # "idle" \/ r \in missed')
    BY <2>1, <1>a, <1>g, <1>j DEF Points
  <2> QED
    BY <2>1, <2>2, <1>a, <1>m DEF Elsewhere
<1>8. ASSUME NEW c \in Consumers, Rebalance(c) PROVE \A q \in Rows : Reads(q)
  <2>1. UNCHANGED log /\ missed \subseteq missed' /\ \A q \in Rows : Unread(q) => q \in missed'
    BY <1>8 DEF Rebalance
  <2>2. \A q \in Rows : InLog(q)' = InLog(q)
    BY <2>1 DEF InLog
  <2>3. /\ \A d \in Consumers, q \in Rows :
              job'[d][q] = job[d][q] \/ (job'[d][q].at = "idle" /\ (job[d][q].at = "idle" \/ q \in missed'))
        /\ \A b \in Relays, q \in Rows : job'[b][q] = job[b][q]
    <3>1. CASE UNCHANGED job
      BY <3>1
    <3>2. CASE /\ job' = [job EXCEPT ![owner] = [q \in Rows |-> Idle]]
               /\ missed' = missed \cup {q \in Rows : Unread(q) \/ ~At(owner, q, "idle")}
      <4>1. owner \in Consumers
        BY <1>8, <1>0 DEF MqOK
      <4>2. AllElse(owner) /\ \A q \in Rows : job'[owner][q].at = "idle"
        BY <3>2, <4>1, <1>0, <1>a, <1>s, ResetJobs
      <4> QED
        BY <3>2, <4>1, <4>2, <1>a DEF AllElse, At
    <3> QED
      BY <1>8, <3>1, <3>2 DEF Rebalance
  <2> QED
    BY <2>1, <2>2, <2>3 DEF Reads, Busy, At
<1>9. ASSUME NEW w \in Workers, NEW r \in Rows,
             \/ WorkerExpire(w, r) \/ WorkerSkip(w, r) \/ WorkerPush(w, r)
             \/ WorkerMark(w, r) \/ HandleOutboxFailure(w, r)
      PROVE  \A q \in Rows : Reads(q)
  <2>1. /\ UNCHANGED mqVars /\ UNCHANGED missed
        /\ Finish(w, r) \/ \E s \in Points : Goto(w, r, s)
    BY <1>9 DEF WorkerExpire, WorkerSkip, WorkerPush, WorkerMark, HandleOutboxFailure, history, Points
  <2> QED
    BY <2>1, <1>f
<1>10. ASSUME NEW a \in Actors, Crash(a) PROVE \A q \in Rows : Reads(q)
  <2>1. AllElse(a) /\ \A q \in Rows : job'[a][q].at = "idle"
    BY <1>10, <1>0, <1>s, ResetJobs DEF Crash
  <2> QED
    BY <1>10, <2>1, <1>c DEF Crash
<1>11. ASSUME NEW a \in Actors, NEW r \in Rows, StoreFails(a, r) PROVE \A q \in Rows : Reads(q)
  <2>1. UNCHANGED mqVars /\ missed' = IF a \in Consumers THEN missed \cup {r} ELSE missed
    BY <1>11 DEF StoreFails
  <2>2. CASE a \in Workers
    <3>1. AllElse(a) \/ Elsewhere(a, r)
      BY <1>11, <2>2, <1>0, <1>s, <1>j, ResetJobs DEF StoreFails
    <3> QED
      BY <2>1, <2>2, <3>1, <1>a, <1>m DEF AllElse, Elsewhere
  <2>3. CASE a \notin Workers
    <3>1. Elsewhere(a, r) /\ job'[a][r].at = "idle" /\ job[a][r].at # "idle"
      BY <1>11, <2>3, <1>j DEF StoreFails, At
    <3> QED
      BY <2>1, <2>3, <3>1, <1>a, <1>m DEF Elsewhere
  <2> QED
    BY <2>2, <2>3
<1>12. ASSUME NEW r \in Rows, Lapse(r) \/ Age(r) \/ Ack(r) \/ ReplayDLQ(r) \/ ResolveDLQ(r)
       PROVE  \A q \in Rows : Reads(q)
  BY <1>12, <1>u DEF Lapse, Age, Ack, ReplayDLQ, ResolveDLQ, history
<1>13. CASE Campaign \/ UNCHANGED vars
  BY <1>13, <1>u DEF Campaign, vars, history
<1> QED
  BY <1>1, <1>2, <1>3, <1>4, <1>5, <1>6, <1>7, <1>8, <1>9, <1>10, <1>11, <1>12, <1>13
     DEF Next, RelayStep, ConsumerStep, WorkerStep

-----------------------------------------------------------------------------
(* The inductive invariant and what follows from it *)

LEMMA Initially == Init => IInv
<1> SUFFICES ASSUME Init PROVE IInv
  OBVIOUS
<1>i. Idle \in Job /\ Idle.at = "idle"
  BY DEF Idle, Job
<1>j. job = [a \in Actors |-> [r \in Rows |-> Idle]]
  BY DEF Init
<1>1. TypeOK
  <2>1. TablesOK
    <3>1. StatusOK
      BY DEF Init, StatusOK, Statuses
    <3>2. LockOK
      BY DEF Init, LockOK
    <3> QED
      BY <3>1, <3>2 DEF Init, TablesOK, Notifs
  <2>2. JobsOK
    BY <1>i, <1>j DEF JobsOK
  <2>3. CountsOK
    BY DEF Init, CountsOK
  <2>4. MqOK
    BY DEF Init, MqOK
  <2> QED
    BY <2>1, <2>2, <2>3, <2>4, TypeParts DEF Init, RestOK
<1>2. \A a \in Actors, r \in Rows : job[a][r].at = "idle"
  BY <1>i, <1>j
<1>a. Relays \subseteq Actors /\ Consumers \subseteq Actors /\ Workers \subseteq Actors
  BY DEF Actors
<1>3. Single
  BY <1>2, <1>a DEF Single, Past
<1>4. ASSUME NEW r \in Rows PROVE RowInv(r)
  <2>1. /\ status[r] = "pending" /\ retry[r] = 0 /\ notif[r] = "pending"
        /\ pushed[r] = 0 /\ slips[r] = 0 /\ fails[r] = 0
    BY DEF Init
  <2>2. Budget(r)
    <3>1. Holders(r) = {}
      BY <1>2, <1>a DEF Holders
    <3>2. Cardinality(Holders(r)) = 0
      BY <3>1, FS_EmptySet
    <3> QED
      BY <2>1, <3>2 DEF Budget, Rights
  <2>3. Held(r) /\ Roles(r) /\ Delivered(r)
    BY <1>2, <2>1 DEF Held, Roles, Delivered, Busy, At
  <2>4. Tries(r)
    BY <1>2, <2>1, OutboxAssumption DEF OutboxAssumption, Tries, Tried
  <2>5. Waits(r)
    BY <1>2, <1>a, <2>1 DEF Waits, At
  <2> QED
    BY <2>2, <2>3, <2>4, <2>5 DEF RowInv
<1> QED
  BY <1>1, <1>3, <1>4 DEF IInv

LEMMA Inductive == IInv /\ [Next]_vars => IInv'
<1> SUFFICES ASSUME IInv, [Next]_vars PROVE IInv'
  OBVIOUS
<1>0. TypeOK /\ Single /\ \A r \in Rows : RowInv(r)
  BY DEF IInv
<1>1. Fixed
  BY SetupStep DEF Fixed
<1>2. \A r \in Rows : Step(r) /\ Reads(r)
  BY <1>0, Steps, Reading
<1>3. TypeOK'
  BY <1>0, TypeStep
<1>4. Single'
  BY <1>0, <1>1, <1>2, SingleStep
<1>5. ASSUME NEW r \in Rows PROVE RowInv(r)'
  <2>0. /\ Budget(r) /\ Held(r) /\ Roles(r) /\ Delivered(r) /\ Tries(r) /\ Waits(r)
        /\ Step(r) /\ Reads(r)
    BY <1>0, <1>2 DEF RowInv
  <2>1. Budget(r)'
    BY <2>0, <1>0, <1>1, BudgetStep
  <2>2. Held(r)' /\ Roles(r)'
    BY <2>0, <1>0, <1>1, HeldStep
  <2>3. Delivered(r)'
    BY <2>0, <1>0, <1>1, DeliveredStep
  <2>4. Tries(r)'
    BY <2>0, <1>0, <1>1, TriesStep
  <2>5. Waits(r)'
    BY <2>0, <1>0, <1>1, WaitsStep
  <2> QED
    BY <2>1, <2>2, <2>3, <2>4, <2>5 DEF RowInv
<1>6. Rows' = Rows
  BY <1>1 DEF Fixed
<1> QED
  BY <1>3, <1>4, <1>5, <1>6 DEF IInv

\* The inductive invariant holds in every reachable state.
THEOREM Invariance == Spec => []IInv
BY Initially, Inductive, PTL DEF Spec

\* Every variable of the outbox keeps its type.
THEOREM Typed == Spec => []TypeOK
<1>1. IInv => TypeOK
  BY DEF IInv
<1> QED
  BY <1>1, Invariance, PTL

\* A row is delivered at most once, and once more for each lock lost by a slow
\* holder, each replay and each delivery that went unrecorded; and what
\* notification_outbox or notifications call sent or delivered was.
THEOREM DeliveredOnce == Spec => []Once
<1>1. ASSUME IInv, NEW r \in Rows
      PROVE  /\ pushed[r] <= 1 + slips[r]
             /\ status[r] = "sent" \/ notif[r] \in {"delivered", "acked"} => pushed[r] > 0
  <2>0. TypeOK /\ Budget(r) /\ Delivered(r)
    BY <1>1 DEF IInv, RowInv
  <2>1. pushed[r] \in Nat /\ slips[r] \in Nat
    BY <2>0, RowTypes DEF RowType
  <2>2. Cardinality(Holders(r)) \in Nat
    <3>1. IsFiniteSet(Holders(r))
      BY <2>0, Parties, FS_Subset DEF Holders
    <3> QED
      BY <3>1, FS_CardinalityType
  <2>3. pushed[r] <= 1 + slips[r]
    BY <2>0, <2>1, <2>2 DEF Budget, Rights
  <2> QED
    BY <2>0, <2>3 DEF Delivered
<1>2. IInv => Once
  BY <1>1 DEF Once
<1> QED
  BY <1>2, Invariance, PTL

\* A published or delivering row was published, and is stranded only when the
\* consumer gave up a message of it.
THEOREM NoOtherStranding == Spec => []StrandedWasMissed
<1>1. ASSUME IInv, NEW r \in Rows
      PROVE  /\ status[r] \in {"published", "delivering"} => \E i \in 1..Len(log) : log[i] = r
             /\ Stranded(r) => r \in missed
  <2>1. Waits(r)
    BY <1>1 DEF IInv, RowInv
  <2> QED
    BY <2>1 DEF Waits, Awaited, InLog, Stranded, Busy
<1>2. IInv => StrandedWasMissed
  BY <1>1 DEF StrandedWasMissed
<1> QED
  BY <1>2, Invariance, PTL

\* A row becomes a dead letter after a rejection or after more than MaxRetries
\* failed tries, whatever stale retry counts its holders work with.
THEOREM DeadLetters == Spec => DeadAfterRetries
<1>1. ASSUME IInv, [Next]_vars, NEW r \in Rows, dlq[r] = "none", dlq'[r] = "open"
      PROVE  fails[r] > MaxRetries \/ \E a \in Actors : At(a, r, "rejected")
  <2>0. TypeOK /\ Tries(r) /\ Step(r)
    BY <1>1, Steps DEF IInv, RowInv
  <2>1. PICK a \in Actors :
            At(a, r, "rejected") \/ (At(a, r, "failed") /\ job[a][r].retry + 1 > MaxRetries)
    BY <2>0, <1>1 DEF Step, Rests, Lapses, Replays, Concludes, Takes, Works, Settles, Loses, SameRow
  <2>2. ASSUME At(a, r, "failed"), job[a][r].retry + 1 > MaxRetries PROVE fails[r] > MaxRetries
    <3>1. job[a][r].retry \in Nat /\ fails[r] \in Nat /\ MaxRetries \in Nat
      BY <2>0, RowTypes, OutboxAssumption DEF OutboxAssumption, RowType, Job
    <3>2. job[a][r].retry + 1 <= fails[r]
      BY <2>0, <2>2 DEF Tries, Tried, At
    <3> QED
      BY <2>2, <3>1, <3>2
  <2> QED
    BY <2>1, <2>2
<1>2. IInv /\ [Next]_vars =>
         [\A r \in Rows : dlq[r] = "none" /\ dlq'[r] = "open" =>
              fails[r] > MaxRetries \/ \E a \in Actors : At(a, r, "rejected")]_vars
  BY <1>1
<1> QED
  BY <1>2, Invariance, PTL DEF Spec, DeadAfterRetries

\* Nothing overwrites the status of an acknowledged notification unless a lock
\* was lost, a dead letter replayed or a delivery left unrecorded.
THEOREM AcksStay == Spec => AckedStays
<1>1. ASSUME IInv, [Next]_vars, NEW r \in Rows, notif[r] = "acked", notif'[r] # "acked"
      PROVE  slips[r] > 0
  <2>0. TypeOK /\ Budget(r) /\ Held(r) /\ Delivered(r) /\ Step(r)
    BY <1>1, Steps DEF IInv, RowInv
  <2>1. PICK a \in Actors :
            Busy(a, r) /\ (a \in Consumers \cup Workers => a \in Holders(r))
    BY <2>0, <1>1 DEF Step, Rests, Lapses, Replays, Concludes, Takes, Works, Settles, Loses, SameRow, Unacked
  <2>2. pushed[r] > 0 /\ pushed[r] \in Nat /\ slips[r] \in Nat
    BY <2>0, <1>1, RowTypes DEF Delivered, RowType
  <2>h. IsFiniteSet(Holders(r)) /\ Cardinality(Holders(r)) \in Nat
    BY <2>0, Parties, FS_Subset, FS_CardinalityType DEF Holders
  <2>3. CASE a \in Consumers \cup Workers
    <3>1. Cardinality(Holders(r)) > 0
      BY <2>1, <2>3, <2>h, FS_EmptySet
    <3> QED
      BY <2>0, <2>2, <2>h, <3>1 DEF Budget, Rights
  <2>4. CASE a \in Relays
    <3>1. slips[r] > 0 \/ Open(r)
      BY <2>0, <2>1, <2>4 DEF Held, Open
    <3> QED
      BY <2>0, <2>2, <2>h, <3>1 DEF Budget, Rights
  <2> QED
    BY <2>3, <2>4 DEF Actors
<1>2. IInv /\ [Next]_vars =>
         [\A r \in Rows : notif[r] = "acked" /\ notif'[r] # "acked" => slips[r] > 0]_vars
  BY <1>1
<1> QED
  BY <1>2, Invariance, PTL DEF Spec, AckedStays

=============================================================================
