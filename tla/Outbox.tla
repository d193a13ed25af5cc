------------------------------- MODULE Outbox -------------------------------
(* The outbox of notify: rows of notification_outbox with their             *)
(* notifications and dead letters (SQL), and who moves them on. With Kafka, *)
(* relays claim rows and publish them, and push consumers deliver what they *)
(* read; without it, workers claim rows and push them themselves. Every SQL *)
(* transaction is a step, every publish and push another one.               *)
EXTENDS Integers, Sequences, FiniteSets

CONSTANTS
    Setups,     \* the ways to run the service: a set of records
    Mortal,     \* the rows with a TTL
    Flash,      \* the rows of the flash-sale campaign
    Drops,      \* the rows whose compensation strategy is retry_then_drop
    MaxRetries, \* cfg.MaxRetries
    NoOne       \* locked_by = NULL

ASSUME OutboxAssumption ==
    /\ MaxRetries \in Nat
    /\ \A s \in Setups :
          /\ NoOne \notin s.relays \cup s.consumers \cup s.workers
          /\ IsFiniteSet(s.consumers) /\ IsFiniteSet(s.workers)
          /\ s.relays \cap s.consumers = {} /\ s.relays \cap s.workers = {}
          /\ s.consumers \cap s.workers = {}
          /\ s.faults \in Nat

VARIABLES
    setup,      \* with Kafka or without, chosen at the start
    status,     \* notification_outbox.status
    by,         \* notification_outbox.locked_by
    lapsed,     \* locked_until has passed
    retry,      \* notification_outbox.retry_count
    notif,      \* notifications.status
    dlq,        \* the row of notification_dlq: none, open, or closed (resolved_at is set)
    campaign,   \* campaigns.status
    old,        \* the rows whose TTL has passed
    log,        \* the Kafka partition: the rows that were published
    pos,        \* the next offset the session reads
    owner,      \* the consumer the partition is assigned to
    job,        \* what each actor does with each row
    pushed,     \* history: how often logic delivered the row
    slips,      \* history: lost locks, replays and unrecorded deliveries
    fails,      \* history: failed tries, up to MaxRetries + 1
    missed,     \* history: rows of messages that were given up
    faults      \* how many faults happened

Rows == setup.rows            \* outbox rows
Relays == setup.relays        \* OutboxRelay instances, by workerID
Consumers == setup.consumers  \* NotifyPushConsumer instances, members of one consumer group
Workers == setup.workers      \* OutboxWorker instances, by workerID
MaxFaults == setup.faults     \* bound: lost locks, failed transactions, crashes, new sessions, replays
Actors == Relays \cup Consumers \cup Workers

rowVars == <<status, by, lapsed, retry, notif, dlq>>
mqVars == <<log, pos, owner>>
history == <<pushed, slips, fails, missed>>
vars == <<setup, rowVars, campaign, old, mqVars, job, history, faults>>

Terminal == {"sent", "dlq", "expired", "dropped", "cancelled"}
Idle == [at |-> "idle", retry |-> 0]

Init ==
    /\ setup \in Setups
    /\ status = [r \in Rows |-> "pending"]
    /\ by = [r \in Rows |-> NoOne]
    /\ lapsed = [r \in Rows |-> FALSE]
    /\ retry = [r \in Rows |-> 0]
    /\ notif = [r \in Rows |-> "pending"]
    /\ dlq = [r \in Rows |-> "none"]
    /\ campaign = "active"
    /\ old = {}
    /\ log = <<>>
    /\ pos = 1
    /\ owner \in Consumers \cup {NoOne}
    /\ owner = NoOne <=> Consumers = {}
    /\ job = [a \in Actors |-> [r \in Rows |-> Idle]]
    /\ pushed = [r \in Rows |-> 0]
    /\ slips = [r \in Rows |-> 0]
    /\ fails = [r \in Rows |-> 0]
    /\ missed = {}
    /\ faults = 0

-----------------------------------------------------------------------------
(* The transactions of the store.                                           *)

Expired(r) == r \in old
Unlocked(r) == by[r] = NoOne \/ lapsed[r]

(* Set the row's status and give its lock back. *)
Release(r, s) ==
    /\ status' = [status EXCEPT ![r] = s]
    /\ by' = [by EXCEPT ![r] = NoOne]
    /\ lapsed' = [lapsed EXCEPT ![r] = FALSE]

(* Set the notification's status unless it is one of final. *)
Notify(r, s, final) ==
    notif' = IF notif[r] \in final THEN notif ELSE [notif EXCEPT ![r] = s]

Lock(a, S, s) ==
    /\ status' = [r \in Rows |-> IF r \in S THEN s ELSE status[r]]
    /\ by' = [r \in Rows |-> IF r \in S THEN a ELSE by[r]]
    /\ lapsed' = [r \in Rows |-> IF r \in S THEN FALSE ELSE lapsed[r]]

Claimable(r) == status[r] \in {"pending", "failed", "processing"} /\ Unlocked(r)

\* Deliverable without the check for rows that were sent.
DeliverableAgain(r) ==
    status[r] \in {"published", "sent"} \/ (status[r] = "delivering" /\ Unlocked(r))
Deliverable(r) == status[r] = "published" \/ (status[r] = "delivering" /\ Unlocked(r))

ClaimPublishedOutbox(c, r) == Deliverable(r) /\ Lock(c, {r}, "delivering")

\* MarkOutboxSent without the check for an ACK.
MarkOutboxSentBlindly(r) ==
    /\ Release(r, "sent")
    /\ Notify(r, "delivered", {})
    /\ UNCHANGED <<retry, dlq>>
MarkOutboxSent(r) ==
    /\ Release(r, "sent")
    /\ Notify(r, "delivered", {"acked"})
    /\ UNCHANGED <<retry, dlq>>

(* Only while a still holds the lock; otherwise ErrNotFound and a rollback. *)
Fenced(a, r) == status[r] = "processing" /\ by[r] = a

MarkOutboxPublished(a, r) ==
    \/ /\ Fenced(a, r)
       /\ Release(r, "published")
       /\ Notify(r, "queued", {"acked", "delivered"})
       /\ UNCHANGED <<retry, dlq>>
    \/ /\ ~Fenced(a, r)
       /\ UNCHANGED rowVars

MarkOutboxPublishRetry(a, r, n) ==
    \/ /\ Fenced(a, r)
       /\ Release(r, "failed")
       /\ retry' = [retry EXCEPT ![r] = n]
       /\ Notify(r, "retrying", {"acked"})
       /\ UNCHANGED dlq
    \/ /\ ~Fenced(a, r)
       /\ UNCHANGED rowVars

MarkOutboxExpired(r) ==
    /\ IF status[r] \in {"sent", "dlq", "expired"}
       THEN UNCHANGED <<status, by, lapsed>>
       ELSE Release(r, "expired")
    /\ Notify(r, "expired", {"acked"})
    /\ UNCHANGED <<retry, dlq>>

MarkOutboxRetry(r, n) ==
    /\ Release(r, "failed")
    /\ retry' = [retry EXCEPT ![r] = n]
    /\ UNCHANGED <<notif, dlq>>

(* notification_dlq has one row for each outbox row: INSERT IGNORE. *)
MoveOutboxToDLQ(r, s) ==
    /\ Release(r, s)
    /\ Notify(r, s, {})
    /\ dlq' = IF s = "dlq" /\ dlq[r] = "none" THEN [dlq EXCEPT ![r] = "open"] ELSE dlq
    /\ UNCHANGED retry

MarkOutboxDropped(r) ==
    /\ Release(r, "dropped")
    /\ Notify(r, "dropped", {})
    /\ UNCHANGED <<retry, dlq>>

-----------------------------------------------------------------------------
(* Common to relays, consumers and workers.                                 *)

At(a, r, s) == job[a][r].at = s
(* Only after a failure the retry count of the claim is used. *)
Goto(a, r, s) ==
    job' = [job EXCEPT ![a][r] = [at |-> s, retry |-> IF s = "failed" THEN @.retry ELSE 0]]
Finish(a, r) == job' = [job EXCEPT ![a][r] = Idle]
AllIdle(a) == \A r \in Rows : At(a, r, "idle")
Fault == faults < MaxFaults /\ faults' = faults + 1

Pushed(r) == pushed' = [pushed EXCEPT ![r] = @ + 1]
Slip(S) == slips' = [r \in Rows |-> IF r \in S THEN slips[r] + 1 ELSE slips[r]]
Fail(r) == fails' = [fails EXCEPT ![r] = IF @ > MaxRetries THEN @ ELSE @ + 1]

(* ClaimOutbox: a batch of all that is due. *)
ClaimOutbox(a) ==
    LET due == {r \in Rows : Claimable(r)} IN
    /\ a \in Relays \cup Workers
    /\ AllIdle(a)
    /\ due # {}
    /\ Lock(a, due, "processing")
    /\ job' = [job EXCEPT ![a] = [r \in Rows |->
                  IF r \in due THEN [at |-> "claimed", retry |-> retry[r]] ELSE Idle]]
    /\ UNCHANGED <<retry, notif, dlq, campaign, setup, old, mqVars, history, faults>>

-----------------------------------------------------------------------------
(* The relay: the rows of a batch are published side by side.               *)

RelayExpire(a, r) ==
    /\ a \in Relays
    /\ At(a, r, "claimed")
    /\ Expired(r)
    /\ MarkOutboxExpired(r)
    /\ Finish(a, r)
    /\ UNCHANGED <<campaign, setup, old, mqVars, history, faults>>


(* publishOutbox up to the answer of the producer, which may report an      *)
(* error for a message that is in the log.                                  *)
Publish(a, r) ==
    /\ a \in Relays
    /\ At(a, r, "claimed")
    /\ ~Expired(r)
    /\ \/ log' = Append(log, r) /\ Goto(a, r, "published") /\ UNCHANGED fails
       \/ log' \in {log, Append(log, r)} /\ Goto(a, r, "failed") /\ Fail(r)
    /\ UNCHANGED <<rowVars, campaign, setup, old, pos, owner, pushed, slips, missed, faults>>

RelayMark(a, r) ==
    /\ a \in Relays
    /\ At(a, r, "published")
    /\ MarkOutboxPublished(a, r)
    /\ Finish(a, r)
    /\ UNCHANGED <<campaign, setup, old, mqVars, history, faults>>


\* HandlePublishFailure with one retry too few.
HandlePublishFailureEarly(a, r) ==
    LET nextRetry == job[a][r].retry + 1 IN
    /\ a \in Relays
    /\ At(a, r, "failed")
    /\ \/ nextRetry < MaxRetries /\ MarkOutboxPublishRetry(a, r, nextRetry)
       \/ nextRetry >= MaxRetries /\ MoveOutboxToDLQ(r, "dlq")
    /\ Finish(a, r)
    /\ UNCHANGED <<campaign, setup, old, mqVars, history, faults>>

HandlePublishFailure(a, r) ==
    LET nextRetry == job[a][r].retry + 1 IN
    /\ a \in Relays
    /\ At(a, r, "failed")
    /\ \/ nextRetry <= MaxRetries /\ MarkOutboxPublishRetry(a, r, nextRetry)
       \/ nextRetry > MaxRetries /\ MoveOutboxToDLQ(r, "dlq")
    /\ Finish(a, r)
    /\ UNCHANGED <<campaign, setup, old, mqVars, history, faults>>

-----------------------------------------------------------------------------
(* The push consumer. ConsumeClaim hands one message after the other to the *)
(* handler. Offsets are marked but never committed (auto-commit is off), so *)
(* a message the handler fails on does not come back.                       *)

Unread(r) == \E i \in pos..Len(log) : log[i] = r

(* ConsumeClaim with checkTTLExpired (there is no dead-letter producer), or *)
(* ProcessMessage with claimEnvelope: an already finished row is skipped,   *)
(* one that cannot be claimed is an error.                                  *)
Receive(c) ==
    LET r == log[pos] IN
    /\ c = owner
    /\ AllIdle(c)
    /\ pos <= Len(log)
    /\ pos' = pos + 1
    /\ \/ /\ Expired(r) \/ (status[r] \notin Terminal /\ ~Deliverable(r))
          /\ missed' = missed \cup {r}
          /\ UNCHANGED <<status, by, lapsed, job>>
       \/ /\ ~Expired(r)
          /\ status[r] \in Terminal
          /\ UNCHANGED <<status, by, lapsed, job, missed>>
       \/ /\ ~Expired(r)
          /\ ClaimPublishedOutbox(c, r)
          /\ Goto(c, r, "claimed")
          /\ UNCHANGED missed
    /\ UNCHANGED <<retry, notif, dlq, campaign, setup, old, log, owner, pushed, slips, fails, faults>>

ConsumerExpire(c, r) ==
    /\ c \in Consumers
    /\ At(c, r, "claimed")
    /\ Expired(r)
    /\ MarkOutboxExpired(r)
    /\ Finish(c, r)
    /\ UNCHANGED <<campaign, setup, old, mqVars, history, faults>>


(* pushEnvelope: delivered, rejected, or an error that may hide a delivery. *)
(* The transient error ends the handler; the row stays delivering.          *)
PushEnvelope(c, r) ==
    /\ c \in Consumers
    /\ At(c, r, "claimed")
    /\ ~Expired(r)
    /\ \/ Pushed(r) /\ Goto(c, r, "pushed") /\ UNCHANGED <<slips, missed>>
       \/ Goto(c, r, "rejected") /\ UNCHANGED <<pushed, slips, missed>>
       \/ /\ Finish(c, r)
          /\ missed' = missed \cup {r}
          /\ \/ UNCHANGED <<pushed, slips>>
             \/ Pushed(r) /\ Slip({r})
    /\ UNCHANGED <<rowVars, campaign, setup, old, mqVars, fails, faults>>

HandlePushSuccess(c, r) ==
    /\ c \in Consumers
    /\ At(c, r, "pushed")
    /\ MarkOutboxSent(r)
    /\ Finish(c, r)
    /\ UNCHANGED <<campaign, setup, old, mqVars, history, faults>>

\* HandlePushFailure without the dead letter.
HandlePushFailureSilent(c, r) ==
    /\ c \in Consumers
    /\ At(c, r, "rejected")
    /\ Finish(c, r)
    /\ UNCHANGED <<rowVars, campaign, setup, old, mqVars, history, faults>>

HandlePushFailure(c, r) ==
    /\ c \in Consumers
    /\ At(c, r, "rejected")
    /\ MoveOutboxToDLQ(r, "dlq")
    /\ Finish(c, r)
    /\ UNCHANGED <<campaign, setup, old, mqVars, history, faults>>

(* The row could not be read or claimed: the handler returns the error. *)
ReceiveFails(c) ==
    /\ Fault
    /\ c = owner
    /\ AllIdle(c)
    /\ pos <= Len(log)
    /\ pos' = pos + 1
    /\ missed' = missed \cup {log[pos]}
    /\ UNCHANGED <<rowVars, campaign, setup, old, log, owner, job, pushed, slips, fails>>

Unrecorded(a) == {r \in Rows : At(a, r, "pushed")}

(* A new session of the group, with c as the partition's consumer: without  *)
(* a committed offset it starts at the end of the log. Handlers of the old  *)
(* session may still be running, or have died with their processes.         *)
Rebalance(c) ==
    /\ Fault
    /\ c \in Consumers
    /\ AllIdle(c)
    /\ owner' = c
    /\ pos' = Len(log) + 1
    /\ \/ /\ missed' = missed \cup {r \in Rows : Unread(r)}
          /\ UNCHANGED <<job, slips>>
       \/ /\ ~AllIdle(owner)
          /\ missed' = missed \cup {r \in Rows : Unread(r) \/ ~At(owner, r, "idle")}
          /\ job' = [job EXCEPT ![owner] = [r \in Rows |-> Idle]]
          /\ Slip(Unrecorded(owner))
    /\ UNCHANGED <<rowVars, campaign, setup, old, log, pushed, fails>>

-----------------------------------------------------------------------------
(* The worker without Kafka: one row of the batch after the other.          *)

Turn(w, r) ==
    /\ w \in Workers
    /\ At(w, r, "claimed")
    /\ \A q \in Rows : job[w][q].at \in {"idle", "claimed"}

WorkerExpire(w, r) ==
    /\ Turn(w, r)
    /\ Expired(r)
    /\ MoveOutboxToDLQ(r, "expired")
    /\ Finish(w, r)
    /\ UNCHANGED <<campaign, setup, old, mqVars, history, faults>>

(* The campaign is paused or cancelled, or has no token left: the row       *)
(* stays as it is until its lock lapses.                                    *)
WorkerSkip(w, r) ==
    /\ Turn(w, r)
    /\ ~Expired(r)
    /\ r \in Flash
    /\ Finish(w, r)
    /\ UNCHANGED <<rowVars, campaign, setup, old, mqVars, history, faults>>

(* processOutbox up to the answer of logic. A campaign that cannot be read  *)
(* is taken for an active one.                                              *)
WorkerPush(w, r) ==
    /\ Turn(w, r)
    /\ ~Expired(r)
    /\ \/ (r \in Flash => campaign = "active") /\ UNCHANGED faults
       \/ r \in Flash /\ campaign # "active" /\ Fault
    /\ \/ Pushed(r) /\ Goto(w, r, "pushed") /\ UNCHANGED <<slips, fails>>
       \/ Goto(w, r, "rejected") /\ UNCHANGED <<pushed, slips, fails>>
       \/ /\ Goto(w, r, "failed")
          /\ Fail(r)
          /\ \/ UNCHANGED <<pushed, slips>>
             \/ Pushed(r) /\ Slip({r})
    /\ UNCHANGED <<rowVars, campaign, setup, old, mqVars, missed>>

WorkerMark(w, r) ==
    /\ w \in Workers
    /\ At(w, r, "pushed")
    /\ MarkOutboxSent(r)
    /\ Finish(w, r)
    /\ UNCHANGED <<campaign, setup, old, mqVars, history, faults>>

ApplyCompensationStrategy(r) ==
    \/ r \in Drops /\ MarkOutboxDropped(r)
    \/ r \notin Drops /\ MoveOutboxToDLQ(r, "dlq")


HandleOutboxFailure(w, r) ==
    LET nextRetry == job[w][r].retry + 1 IN
    /\ w \in Workers
    /\ \/ At(w, r, "failed") /\ nextRetry <= MaxRetries /\ MarkOutboxRetry(r, nextRetry)
       \/ At(w, r, "failed") /\ nextRetry > MaxRetries /\ ApplyCompensationStrategy(r)
       \/ At(w, r, "rejected") /\ ApplyCompensationStrategy(r)
    /\ Finish(w, r)
    /\ UNCHANGED <<campaign, setup, old, mqVars, history, faults>>

-----------------------------------------------------------------------------
(* Time, failures, and the people around it.                                *)

(* locked_until passes. That is harmless unless the holder is still at it.  *)
Lapse(r) ==
    /\ by[r] # NoOne
    /\ ~lapsed[r]
    /\ lapsed' = [lapsed EXCEPT ![r] = TRUE]
    /\ \/ At(by[r], r, "idle") /\ UNCHANGED <<slips, faults>>
       \/ ~At(by[r], r, "idle") /\ Fault /\ Slip({r})
    /\ UNCHANGED <<status, by, retry, notif, dlq, campaign, setup, old, mqVars, job, pushed, fails, missed>>

Age(r) ==
    /\ r \in Mortal \ old
    /\ old' = old \cup {r}
    /\ UNCHANGED <<rowVars, campaign, setup, mqVars, job, history, faults>>

(* The transaction that would end the job fails. A worker gives up its     *)
(* batch, a consumer's handler returns the error.                           *)
StoreFails(a, r) ==
    /\ Fault
    /\ \/ job[a][r].at \in {"published", "failed", "pushed", "rejected"}
       \/ At(a, r, "claimed") /\ Expired(r) /\ (a \in Workers => Turn(a, r))
    /\ IF a \in Workers THEN job' = [job EXCEPT ![a] = [q \in Rows |-> Idle]] ELSE Finish(a, r)
    /\ Slip(IF At(a, r, "pushed") THEN {r} ELSE {})
    /\ missed' = IF a \in Consumers THEN missed \cup {r} ELSE missed
    /\ UNCHANGED <<rowVars, campaign, setup, old, mqVars, pushed, fails>>

(* A process with a relay or a worker dies and comes back. *)
Crash(a) ==
    /\ Fault
    /\ a \in Relays \cup Workers
    /\ ~AllIdle(a)
    /\ job' = [job EXCEPT ![a] = [r \in Rows |-> Idle]]
    /\ Slip(Unrecorded(a))
    /\ UNCHANGED <<rowVars, campaign, setup, old, mqVars, pushed, fails, missed>>

(* RecordAck of what reached a client. *)
Ack(r) ==
    /\ pushed[r] > 0
    /\ notif[r] # "acked"
    /\ notif' = [notif EXCEPT ![r] = "acked"]
    /\ UNCHANGED <<status, by, lapsed, retry, dlq, campaign, setup, old, mqVars, job, history, faults>>

ReplayDLQ(r) ==
    /\ Fault
    /\ dlq[r] # "none"
    /\ Release(r, "pending")
    /\ dlq' = [dlq EXCEPT ![r] = "closed"]
    /\ Slip({r})
    /\ UNCHANGED <<retry, notif, campaign, setup, old, mqVars, job, pushed, fails, missed>>

ResolveDLQ(r) ==
    /\ dlq[r] = "open"
    /\ dlq' = [dlq EXCEPT ![r] = "closed"]
    /\ UNCHANGED <<status, by, lapsed, retry, notif, campaign, setup, old, mqVars, job, history, faults>>

(* PauseCampaign, ResumeCampaign and CancelCampaign (nothing calls          *)
(* CompleteCampaign).                                                       *)
Campaign ==
    /\ Flash \cap Rows # {}
    /\ \/ campaign = "active" /\ campaign' = "paused" /\ UNCHANGED status
       \/ campaign = "paused" /\ campaign' = "active" /\ UNCHANGED status
       \/ /\ campaign \in {"active", "paused"}
          /\ campaign' = "cancelled"
          /\ status' = [r \in Rows |-> IF r \in Flash /\ status[r] \in {"pending", "failed"}
                                       THEN "cancelled" ELSE status[r]]
    /\ UNCHANGED <<by, lapsed, retry, notif, dlq, setup, old, mqVars, job, history, faults>>

-----------------------------------------------------------------------------

RelayStep(a) ==
    \/ ClaimOutbox(a)
    \/ \E r \in Rows :
        RelayExpire(a, r) \/ Publish(a, r) \/ RelayMark(a, r) \/ HandlePublishFailure(a, r)

ConsumerStep(c) ==
    \/ Receive(c)
    \/ \E r \in Rows :
        \/ ConsumerExpire(c, r)
        \/ PushEnvelope(c, r)
        \/ HandlePushSuccess(c, r)
        \/ HandlePushFailure(c, r)

WorkerStep(w) ==
    \/ ClaimOutbox(w)
    \/ \E r \in Rows :
        \/ WorkerExpire(w, r)
        \/ WorkerSkip(w, r)
        \/ WorkerPush(w, r)
        \/ WorkerMark(w, r)
        \/ HandleOutboxFailure(w, r)

Next ==
    \/ \E a \in Relays : RelayStep(a)
    \/ \E c \in Consumers : ConsumerStep(c) \/ ReceiveFails(c) \/ Rebalance(c)
    \/ \E w \in Workers : WorkerStep(w)
    \/ \E a \in Actors : Crash(a) \/ \E r \in Rows : StoreFails(a, r)
    \/ \E r \in Rows : Lapse(r) \/ Age(r) \/ Ack(r) \/ ReplayDLQ(r) \/ ResolveDLQ(r)
    \/ Campaign

Spec == Init /\ [][Next]_vars

-----------------------------------------------------------------------------
(* Properties.                                                              *)

Job == [at : {"idle", "claimed", "published", "failed", "pushed", "rejected"}, retry : Nat]
TypeOK ==
    /\ setup \in Setups
    /\ status \in [Rows -> {"pending", "processing", "published", "delivering", "failed"} \cup Terminal]
    /\ by \in [Rows -> Actors \cup {NoOne}] /\ lapsed \in [Rows -> BOOLEAN]
    /\ retry \in [Rows -> Nat]
    /\ notif \in [Rows -> {"pending", "queued", "retrying", "delivered", "acked", "expired", "dlq", "dropped"}]
    /\ dlq \in [Rows -> {"none", "open", "closed"}]
    /\ campaign \in {"active", "paused", "cancelled"}
    /\ old \subseteq Rows
    /\ log \in Seq(Rows) /\ pos \in 1..Len(log) + 1
    /\ owner \in Consumers \cup {NoOne} /\ (owner = NoOne <=> Consumers = {})
    /\ job \in [Actors -> [Rows -> Job]]
    /\ pushed \in [Rows -> Nat] /\ slips \in [Rows -> Nat] /\ fails \in [Rows -> Nat]
    /\ missed \subseteq Rows
    /\ faults \in Nat

(* The claims and fences of the store keep a row from being delivered more  *)
(* often than once for each lock lost by a slow holder, each replay, and    *)
(* each delivery whose answer or record was lost; and a row or notification *)
(* that says it was delivered was.                                          *)
Once ==
    \A r \in Rows :
        /\ pushed[r] <= 1 + slips[r]
        /\ status[r] = "sent" \/ notif[r] \in {"delivered", "acked"} => pushed[r] > 0

(* Nobody reads a message for the row any more, nobody works on it, and the *)
(* relays do not claim rows in this status.                                 *)
Stranded(r) ==
    /\ status[r] \in {"published", "delivering"}
    /\ ~Unread(r)
    /\ \A c \in Consumers : At(c, r, "idle")

(* A row that waits for a consumer was published, and waits in vain only if *)
(* a message of it was given up: read too early, too late, or with an       *)
(* error, or jumped over.                                                   *)
StrandedWasMissed ==
    \A r \in Rows :
        /\ status[r] \in {"published", "delivering"} => \E i \in 1..Len(log) : log[i] = r
        /\ Stranded(r) => r \in missed

(* A row becomes a dead letter when it was rejected, or tried once and then *)
(* MaxRetries times again, even when its holders work with stale counts.    *)
DeadAfterRetries ==
    [][\A r \in Rows :
          dlq[r] = "none" /\ dlq'[r] = "open" =>
              fails[r] > MaxRetries \/ \E a \in Actors : At(a, r, "rejected")]_vars

(* An acknowledged notification stays acknowledged, as long as no lock of   *)
(* its row was lost, nothing was replayed and every delivery recorded.      *)
AckedStays ==
    [][\A r \in Rows : notif[r] = "acked" /\ notif'[r] # "acked" => slips[r] > 0]_vars

=============================================================================
