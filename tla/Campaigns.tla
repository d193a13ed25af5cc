----------------------------- MODULE Campaigns ------------------------------
(* Campaigns of notify. An imported audience is split into batches; several *)
(* generator processes claim batches and write one notification with its    *)
(* outbox row for each target, while an operator pauses, resumes or cancels *)
(* the campaign and sends batches round again. Rows that cannot be          *)
(* delivered end in the dead-letter queue, from where an operator replays   *)
(* or resolves them, many of them only after an approval.                   *)
EXTENDS Integers, Sequences, FiniteSets

CONSTANTS
    Targets,            \* the users of the audience
    Batches,
    BatchOf,            \* [Targets -> Batches]
    Workers,            \* generator processes, each with an ID of its own
    Operators,          \* servers that carry out a bulk recovery
    TargetBatchSize,    \* targets one pass takes of a batch (500)
    Threshold,          \* a bulk recovery of more items needs an approval (100)
    MaxOps,             \* bound: commands of operators
    MaxFaults,          \* bound: failed statements, lost answers, crashes
    NoWorker, NoBatch

ASSUME CampaignsAssumption ==
    /\ IsFiniteSet(Targets) /\ Targets \cap {"idle", "claimed", "active", "working"} = {}
    /\ BatchOf \in [Targets -> Batches]
    /\ TargetBatchSize \in Nat \ {0}
    /\ Threshold \in Nat /\ MaxOps \in Nat /\ MaxFaults \in Nat
    /\ NoWorker \notin Workers /\ NoBatch \notin Batches

VARIABLES
    campaign,   \* campaigns.status, or none
    expired,    \* the campaign is older than its policy's TTL
    target,     \* campaign_audience_targets: status
    made,       \* history: notifications written for each target
    outbox,     \* notification_outbox: status of the target's row
    batch,      \* campaign_audience_batches: status, owner and counters
    at,         \* where a worker is
    work,       \* its batch, the targets it has listed, its counters
    dlq,        \* notification_dlq: open, replay, resolved
    request,    \* the status of the approval request
    bulk,       \* what an operator's bulk recovery does, and the items it listed
    effects,    \* history: items changed on behalf of the request
    ops, faults

audience == <<target, made, outbox, batch>>
generator == <<at, work>>
recovery == <<dlq, request, bulk, effects>>
vars == <<campaign, expired, audience, generator, recovery, ops, faults>>

Idle == [batch |-> NoBatch, list |-> {}, more |-> FALSE, ok |-> 0, bad |-> 0]
NoBulk == [step |-> "none", items |-> {}, approved |-> FALSE]
Of(b) == {t \in Targets : BatchOf[t] = b}

Init ==
    /\ campaign = "none"
    /\ expired = FALSE
    /\ target = [t \in Targets |-> "none"]
    /\ made = [t \in Targets |-> 0]
    /\ outbox = [t \in Targets |-> "none"]
    /\ batch = [b \in Batches |-> [status |-> "none", owner |-> NoWorker, ok |-> 0, bad |-> 0]]
    /\ at = [w \in Workers |-> "idle"]
    /\ work = [w \in Workers |-> Idle]
    /\ dlq = [t \in Targets |-> "none"]
    /\ request = "none"
    /\ bulk = [o \in Operators |-> NoBulk]
    /\ effects = {}
    /\ ops = 0 /\ faults = 0

Command == ops < MaxOps /\ ops' = ops + 1
Fault == faults < MaxFaults /\ faults' = faults + 1

-----------------------------------------------------------------------------
(* The campaign                                                             *)

(* persistCampaignSummary; the audience may have been imported before. *)
CreateFlashSale ==
    /\ campaign = "none"
    /\ campaign' = "active"
    /\ UNCHANGED <<expired, audience, generator, recovery, ops, faults>>

(* One batch and its targets, in one transaction. *)
ImportCampaignAudience(b) ==
    /\ batch[b].status = "none"
    /\ batch' = [batch EXCEPT ![b].status = "pending"]
    /\ target' = [t \in Targets |-> IF t \in Of(b) THEN "pending" ELSE target[t]]
    /\ UNCHANGED <<campaign, expired, made, outbox, generator, recovery, ops, faults>>

PauseCampaign ==
    /\ Command
    /\ campaign = "active"
    /\ campaign' = "paused"
    /\ UNCHANGED <<expired, audience, generator, recovery, faults>>

ResumeCampaign ==
    /\ Command
    /\ campaign = "paused"
    /\ campaign' = "active"
    /\ UNCHANGED <<expired, audience, generator, recovery, faults>>

CancelCampaign ==
    /\ Command
    /\ campaign \in {"active", "paused"}
    /\ campaign' = "cancelled"
    /\ outbox' = [t \in Targets |-> IF outbox[t] = "pending" THEN "cancelled" ELSE outbox[t]]
    /\ UNCHANGED <<expired, target, made, batch, generator, recovery, faults>>

Expire ==
    /\ campaign # "none" /\ ~expired
    /\ expired' = TRUE
    /\ UNCHANGED <<campaign, audience, generator, recovery, ops, faults>>

(* An operator sends a batch round again, whatever its state is. *)
RetryCampaignAudienceBatch(b) ==
    /\ Command
    /\ batch[b].status # "none"
    /\ target' = [t \in Targets |-> IF t \in Of(b) /\ target[t] = "failed" THEN "pending" ELSE target[t]]
    /\ batch' = [batch EXCEPT ![b] = [@ EXCEPT !.status = "retrying", !.owner = NoWorker, !.bad = 0]]
    /\ UNCHANGED <<campaign, expired, made, outbox, generator, recovery, faults>>

-----------------------------------------------------------------------------
(* The generators                                                           *)

Goto(w, s) == at' = [at EXCEPT ![w] = s]

(* A batch in status processing is never claimed, however old its lock is. *)
ClaimCampaignAudienceBatches(w) ==
    /\ at[w] = "idle"
    /\ \E b \in Batches :
          /\ batch[b].status \in {"pending", "retrying"}
          /\ batch' = [batch EXCEPT ![b].status = "processing", ![b].owner = w]
          /\ work' = [work EXCEPT ![w] = [Idle EXCEPT !.batch = b]]
    /\ Goto(w, "claimed")
    /\ UNCHANGED <<campaign, expired, target, made, outbox, recovery, ops, faults>>

\* The result is written without asking who owns the batch.
MarkCampaignAudienceBatchResultOfAll(w, status, ok, bad) ==
    batch' = [batch EXCEPT ![work[w].batch] =
                [status |-> status, owner |-> NoWorker, ok |-> @.ok + ok, bad |-> @.bad + bad]]
MarkCampaignAudienceBatchResult(w, status, ok, bad) ==
    batch' = IF batch[work[w].batch].status = "processing" /\ batch[work[w].batch].owner = w
             THEN [batch EXCEPT ![work[w].batch] =
                     [status |-> status, owner |-> NoWorker, ok |-> @.ok + ok, bad |-> @.bad + bad]]
             ELSE batch

Leave(w) == Goto(w, "idle") /\ work' = [work EXCEPT ![w] = Idle]

(* processBatch: the campaign is looked at once. *)
GetCampaign(w) ==
    /\ at[w] = "claimed"
    /\ \/ campaign = "active" /\ Goto(w, "active") /\ UNCHANGED <<batch, work>>
       \/ campaign = "none" /\ MarkCampaignAudienceBatchResult(w, "failed", 0, 0) /\ Leave(w)
       \/ campaign = "paused" /\ MarkCampaignAudienceBatchResult(w, "retrying", 0, 0) /\ Leave(w)
       \/ campaign = "cancelled" /\ MarkCampaignAudienceBatchResult(w, "cancelled", 0, 0) /\ Leave(w)
    /\ UNCHANGED <<campaign, expired, target, made, outbox, recovery, ops, faults>>

ListTargets(w) ==
    LET pending == {t \in Of(work[w].batch) : target[t] = "pending"} IN
    \E page \in SUBSET pending :
        /\ Cardinality(page) = IF Cardinality(pending) > TargetBatchSize THEN TargetBatchSize
                               ELSE Cardinality(pending)
        /\ work' = [work EXCEPT ![w].list = page, ![w].more = Cardinality(pending) > TargetBatchSize]

ListCampaignAudienceTargetsByBatch(w) ==
    /\ at[w] = "active"
    /\ ListTargets(w)
    /\ Goto(w, "working")
    /\ UNCHANGED <<campaign, expired, audience, recovery, ops, faults>>

Done(w, t) == [work EXCEPT ![w].list = @ \ {t}, ![w].ok = @ + 1]
\* A target that failed counts as done.
FailedCounted(w, t) == [work EXCEPT ![w].list = @ \ {t}, ![w].ok = @ + 1]
Failed(w, t) == [work EXCEPT ![w].list = @ \ {t}, ![w].bad = @ + 1]

MarkCampaignAudienceTargetExpired(w, t) ==
    /\ at[w] = "working" /\ t \in work[w].list
    /\ expired
    /\ target' = [target EXCEPT ![t] = IF @ = "created" THEN @ ELSE "expired"]
    /\ work' = [work EXCEPT ![w].list = @ \ {t}]
    /\ UNCHANGED <<campaign, expired, made, outbox, batch, at, recovery, ops, faults>>

\* The target's state is not looked at again.
FreshAlways(t) == TRUE
Fresh(t) == target[t] \in {"pending", "failed"}

WriteNotification(t) ==
    /\ target' = [target EXCEPT ![t] = "created"]
    /\ made' = [made EXCEPT ![t] = @ + 1]
    /\ outbox' = [outbox EXCEPT ![t] = "pending"]

(* CreateCampaignAudienceTargetNotification: done, refused because the      *)
(* target is no longer fresh, rolled back, or done with its answer lost.    *)
CreateTargetNotification(w, t) ==
    /\ at[w] = "working" /\ t \in work[w].list
    /\ ~expired
    /\ \/ Fresh(t) /\ WriteNotification(t) /\ work' = Done(w, t) /\ UNCHANGED <<at, faults>>
       \/ Fresh(t) /\ WriteNotification(t) /\ Fault /\ work' = Failed(w, t) /\ Goto(w, t)
       \/ ~Fresh(t) /\ work' = Failed(w, t) /\ Goto(w, t) /\ UNCHANGED <<target, made, outbox, faults>>
       \/ Fault /\ work' = Failed(w, t) /\ Goto(w, t) /\ UNCHANGED <<target, made, outbox>>
    /\ UNCHANGED <<campaign, expired, batch, recovery, ops>>

FailedStatus(t) == IF target[t] = "created" THEN "created" ELSE "failed"

MarkCampaignAudienceTargetFailed(w, t) ==
    /\ at[w] = t
    /\ target' = [target EXCEPT ![t] = FailedStatus(t)]
    /\ Goto(w, "working")
    /\ UNCHANGED <<campaign, expired, made, outbox, batch, work, recovery, ops, faults>>

FinishBatch(w) ==
    /\ at[w] = "working" /\ work[w].list = {}
    /\ MarkCampaignAudienceBatchResult(w,
          IF work[w].bad > 0 THEN "failed" ELSE IF work[w].more THEN "retrying" ELSE "completed",
          work[w].ok, work[w].bad)
    /\ Leave(w)
    /\ UNCHANGED <<campaign, expired, target, made, outbox, recovery, ops, faults>>

(* A generator dies, or cannot write the batch's result. *)
GeneratorCrash(w) ==
    /\ at[w] # "idle"
    /\ Fault
    /\ Leave(w)
    /\ UNCHANGED <<campaign, expired, audience, recovery, ops>>

-----------------------------------------------------------------------------
(* The outbox workers, seen from here: a row is delivered, or given up.     *)

Deliver(t) ==
    /\ outbox[t] = "pending"
    /\ \/ outbox' = [outbox EXCEPT ![t] = "sent"] /\ UNCHANGED dlq
       \/ outbox' = [outbox EXCEPT ![t] = "dlq"] /\ dlq' = [dlq EXCEPT ![t] = IF @ = "none" THEN "open" ELSE @]
    /\ UNCHANGED <<campaign, expired, target, made, batch, generator, request, bulk, effects, ops, faults>>

(* Recovery. An item is replayed or resolved whatever its state is. *)
ReplayDLQ(t) == dlq' = [dlq EXCEPT ![t] = "replay"] /\ outbox' = [outbox EXCEPT ![t] = "pending"]
ResolveDLQ(t) == dlq' = [dlq EXCEPT ![t] = "resolved"] /\ UNCHANGED outbox

ReplayDLQWithNote(t) ==
    /\ Command
    /\ dlq[t] # "none"
    /\ ReplayDLQ(t) \/ ResolveDLQ(t)
    /\ UNCHANGED <<campaign, expired, target, made, batch, generator, request, bulk, effects, faults>>

Open == {t \in Targets : dlq[t] = "open"}

CreateReplayApprovalRequest == request = "none" /\ request' = "pending"

(* A bulk operation on too many items waits for an approval. *)
MaybeCreateReplayApproval == Cardinality(Open) > Threshold /\ CreateReplayApprovalRequest
(* HandleBulkReplayDLQ and HandleBulkResolveDLQ: the items are counted, and *)
(* listed again by the bulk operation.                                      *)
Bulk(o) ==
    /\ Command
    /\ bulk[o].step = "none" /\ Open # {}
    /\ \/ /\ Cardinality(Open) <= Threshold
          /\ bulk' = [bulk EXCEPT ![o].step = "list"]
          /\ UNCHANGED request
       \/ MaybeCreateReplayApproval /\ UNCHANGED bulk
    /\ UNCHANGED <<campaign, expired, audience, generator, dlq, effects, faults>>

\* A decision replaces any other.
UpdateReplayApprovalStatusAnytime(s) == request # "none" /\ request' = s
UpdateReplayApprovalStatus(s) == request = "pending" /\ request' = s

Decide ==
    /\ Command
    /\ \E s \in {"approved", "rejected", "cancelled"} : UpdateReplayApprovalStatus(s)
    /\ UNCHANGED <<campaign, expired, audience, generator, dlq, bulk, effects, faults>>

ExecuteReplayApprovalRequest(o) ==
    /\ Command
    /\ bulk[o].step = "none"
    /\ request = "approved"
    /\ bulk' = [bulk EXCEPT ![o].step = "list", ![o].approved = TRUE]
    /\ UNCHANGED <<campaign, expired, audience, generator, dlq, request, effects, faults>>

ListDLQFiltered(o) ==
    /\ bulk[o].step = "list"
    /\ bulk' = [bulk EXCEPT ![o].step = "run", ![o].items = Open]
    /\ UNCHANGED <<campaign, expired, audience, generator, dlq, request, effects, ops, faults>>

BulkItem(o, t) ==
    /\ bulk[o].step = "run" /\ t \in bulk[o].items
    /\ bulk' = [bulk EXCEPT ![o].items = @ \ {t}]
    /\ effects' = IF bulk[o].approved THEN effects \cup {t} ELSE effects
    /\ ReplayDLQ(t) \/ ResolveDLQ(t)
    /\ UNCHANGED <<campaign, expired, target, made, batch, generator, request, ops, faults>>

(* The end of a bulk recovery; an operator's server may die before it. *)
BulkEnd(o) ==
    /\ bulk[o].step # "none"
    /\ \/ bulk[o].step = "run" /\ bulk[o].items = {} /\ UNCHANGED faults
          /\ request' = IF bulk[o].approved THEN "executed" ELSE request
       \/ Fault /\ UNCHANGED request
    /\ bulk' = [bulk EXCEPT ![o] = NoBulk]
    /\ UNCHANGED <<campaign, expired, audience, generator, dlq, effects, ops>>

-----------------------------------------------------------------------------

Next ==
    \/ CreateFlashSale \/ PauseCampaign \/ ResumeCampaign \/ CancelCampaign \/ Expire
    \/ \E b \in Batches : ImportCampaignAudience(b) \/ RetryCampaignAudienceBatch(b)
    \/ \E w \in Workers :
          \/ ClaimCampaignAudienceBatches(w) \/ GetCampaign(w) \/ ListCampaignAudienceTargetsByBatch(w)
          \/ FinishBatch(w) \/ GeneratorCrash(w)
          \/ \E t \in Targets : \/ MarkCampaignAudienceTargetExpired(w, t)
                                \/ CreateTargetNotification(w, t)
                                \/ MarkCampaignAudienceTargetFailed(w, t)
    \/ \E t \in Targets : Deliver(t) \/ ReplayDLQWithNote(t)
    \/ Decide
    \/ \E o \in Operators : \/ Bulk(o) \/ ExecuteReplayApprovalRequest(o) \/ ListDLQFiltered(o)
                            \/ BulkEnd(o) \/ \E t \in Targets : BulkItem(o, t)

Spec == Init /\ [][Next]_vars

-----------------------------------------------------------------------------
(* Properties.                                                              *)

BatchRow ==
    [status : {"none", "pending", "processing", "retrying", "completed", "failed", "cancelled"},
     owner : Workers \cup {NoWorker}, ok : Nat, bad : Nat]
Work == [batch : Batches \cup {NoBatch}, list : SUBSET Targets, more : BOOLEAN, ok : Nat, bad : Nat]
Recovery == [step : {"none", "list", "run"}, items : SUBSET Targets, approved : BOOLEAN]
TypeOK ==
    /\ campaign \in {"none", "active", "paused", "cancelled"} /\ expired \in BOOLEAN
    /\ target \in [Targets -> {"none", "pending", "created", "failed", "expired"}]
    /\ made \in [Targets -> Nat]
    /\ outbox \in [Targets -> {"none", "pending", "sent", "dlq", "cancelled"}]
    /\ batch \in [Batches -> BatchRow]
    /\ at \in [Workers -> {"idle", "claimed", "active", "working"} \cup Targets]
    /\ work \in [Workers -> Work]
    /\ dlq \in [Targets -> {"none", "open", "replay", "resolved"}]
    /\ request \in {"none", "pending", "approved", "rejected", "cancelled", "executed"}
    /\ bulk \in [Operators -> Recovery]
    /\ effects \subseteq Targets
    /\ ops \in Nat /\ faults \in Nat

(* However often batches are claimed, retried and left behind, a user gets  *)
(* one notification of a campaign, and has it when the target says so.      *)
OnePerTarget == \A t \in Targets : made[t] = IF target[t] = "created" THEN 1 ELSE 0

(* A batch that is completed has no target left that nobody has taken, also *)
(* when it was read page by page and handed from one generator to another.  *)
CompletedIsEmpty ==
    \A b \in Batches : batch[b].status = "completed" => \A t \in Of(b) : target[t] # "pending"

(* The counters: no more successes than notifications, over all passes. *)
CountedIsMade ==
    \A b \in Batches : batch[b].ok <= Cardinality({t \in Of(b) : target[t] = "created"})

(* What a request changes is changed under an approval that still stands.   *)
OnlyApproved == effects # {} => request \in {"approved", "executed"}

=============================================================================
