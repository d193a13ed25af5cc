-------------------------- MODULE CampaignsProofs ---------------------------
(***************************************************************************)
(* Proofs about campaigns for any audience, batches, generators and        *)
(* operators: what is written for a target and counted for a batch, and    *)
(* under which approval a bulk recovery runs.                              *)
(***************************************************************************)
EXTENDS Campaigns, FiniteSetTheorems, TLAPS

Pending(b) == {t \in Of(b) : target[t] = "pending"}
Created(b) == {t \in Of(b) : target[t] = "created"}

\* A generator owns a batch when the batch's row names it and it has not
\* left the batch; others may still be at work on what they once claimed.
Owns(w, b) == at[w] # "idle" /\ work[w].batch = b /\ batch[b].owner = w

\* A batch that was not imported has no targets and nobody works on it.
NotImported ==
    \A b \in Batches : batch[b].status = "none" => \A t \in Of(b) : target[t] = "none"

\* What a generator has in hand belongs to its batch, and a target whose
\* failure it is about to write is counted as failed.
InHand ==
    \A w \in Workers : at[w] # "idle" =>
        /\ work[w].batch \in Batches /\ batch[work[w].batch].status # "none"
        /\ work[w].list \subseteq Of(work[w].batch)
        /\ at[w] \in Targets => BatchOf[at[w]] = work[w].batch /\ work[w].bad > 0
        /\ at[w] \in {"claimed", "active"} => work[w].ok = 0

\* The owner that listed all and lost none has every pending target in hand.
OwnerHasAll ==
    \A w \in Workers, b \in Batches :
        /\ Owns(w, b) /\ at[w] \notin {"claimed", "active"}
        /\ ~work[w].more /\ work[w].bad = 0
        => Pending(b) \subseteq work[w].list

\* What the owner has counted and not yet added to the batch is made, too.
OwnerCounts ==
    \A w \in Workers, b \in Batches :
        Owns(w, b) => batch[b].ok + work[w].ok <= Cardinality(Created(b))

\* An approved recovery runs under an approval that stands.
RunsApproved == \A o \in Operators : bulk[o].approved => request \in {"approved", "executed"}

Generation == NotImported /\ InHand /\ OnePerTarget
Completion == OwnerHasAll /\ CompletedIsEmpty
Counting == OwnerCounts /\ CountedIsMade
Approval == RunsApproved /\ OnlyApproved
IInv == TypeOK /\ Generation /\ Completion /\ Counting /\ Approval

-----------------------------------------------------------------------------
(* Every variable keeps its type *)

LEMMA TypeStep == TypeOK /\ InHand /\ [Next]_vars => TypeOK'
<1> SUFFICES ASSUME TypeOK, InHand, [Next]_vars PROVE TypeOK'
  OBVIOUS
<1>t. batch \in [Batches -> BatchRow] /\ work \in [Workers -> Work] /\ bulk \in [Operators -> Recovery]
  BY DEF TypeOK
<1> USE DEF audience, generator, recovery, Command, Fault
<1>i. Idle \in Work
  BY DEF Idle, Work
<1>n. NoBulk \in Recovery
  BY DEF NoBulk, Recovery
<1>m. ASSUME NEW w \in Workers, at[w] # "idle",
             NEW s \in {"retrying", "completed", "failed", "cancelled"}, NEW ok \in Nat, NEW bad \in Nat,
             MarkCampaignAudienceBatchResult(w, s, ok, bad)
      PROVE  batch' \in [Batches -> BatchRow]
  BY <1>m DEF BatchRow, MarkCampaignAudienceBatchResult, InHand, TypeOK
<1>l. ASSUME NEW w \in Workers, Leave(w)
      PROVE  /\ at' \in [Workers -> {"idle", "claimed", "active", "working"} \cup Targets]
             /\ work' \in [Workers -> Work]
  BY <1>l, <1>i DEF Leave, Goto, TypeOK
<1>1. CASE CreateFlashSale \/ PauseCampaign \/ ResumeCampaign
  BY <1>1 DEF CreateFlashSale, PauseCampaign, ResumeCampaign, TypeOK
<1>2. CASE CancelCampaign
  BY <1>2 DEF CancelCampaign, TypeOK
<1>3. CASE Expire
  BY <1>3 DEF Expire, TypeOK
<1>4. ASSUME NEW b \in Batches, ImportCampaignAudience(b) PROVE TypeOK'
  <2>1. batch' \in [Batches -> BatchRow]
    <3>1. batch' = [batch EXCEPT ![b].status = "pending"]
      BY <1>4 DEF ImportCampaignAudience
    <3> QED
      BY <1>t, <3>1 DEF BatchRow
  <2> QED
    BY <1>4, <2>1 DEF ImportCampaignAudience, TypeOK
<1>5. ASSUME NEW b \in Batches, RetryCampaignAudienceBatch(b) PROVE TypeOK'
  <2>1. batch' \in [Batches -> BatchRow]
    <3>1. batch' = [batch EXCEPT ![b] = [@ EXCEPT !.status = "retrying", !.owner = NoWorker, !.bad = 0]]
      BY <1>5 DEF RetryCampaignAudienceBatch
    <3> QED
      BY <1>t, <3>1 DEF BatchRow
  <2> QED
    BY <1>5, <2>1 DEF RetryCampaignAudienceBatch, TypeOK
<1>6. ASSUME NEW w \in Workers, ClaimCampaignAudienceBatches(w) PROVE TypeOK'
  <2>0. PICK b \in Batches : /\ batch' = [batch EXCEPT ![b].status = "processing", ![b].owner = w]
                             /\ work' = [work EXCEPT ![w] = [Idle EXCEPT !.batch = b]]
    BY <1>6 DEF ClaimCampaignAudienceBatches
  <2>1. batch' \in [Batches -> BatchRow]
    BY <1>t, <2>0 DEF BatchRow
  <2>2. work' \in [Workers -> Work]
    BY <1>t, <2>0 DEF Work, Idle
  <2> QED
    BY <1>6, <2>1, <2>2 DEF ClaimCampaignAudienceBatches, Goto, TypeOK
<1>7. ASSUME NEW w \in Workers, GetCampaign(w) PROVE TypeOK'
  <2>1. CASE campaign = "active"
    BY <1>7, <2>1 DEF GetCampaign, Goto, TypeOK
  <2>2. CASE campaign # "active"
    BY <1>7, <2>2, <1>m, <1>l DEF GetCampaign, TypeOK
  <2> QED
    BY <2>1, <2>2
<1>8. ASSUME NEW w \in Workers, ListCampaignAudienceTargetsByBatch(w) PROVE TypeOK'
  <2> DEFINE page == {t \in Of(work[w].batch) : target[t] = "pending"}
  <2>1. work' \in [Workers -> Work]
    <3> DEFINE m == Cardinality(page) > TargetBatchSize
    <3>1. PICK p \in SUBSET page : work' = [work EXCEPT ![w].list = p, ![w].more = m]
      BY <1>8 DEF ListCampaignAudienceTargetsByBatch, ListTargets
    <3>2. p \in SUBSET Targets /\ m \in BOOLEAN
      BY DEF Of
    <3> HIDE DEF m, page
    <3> QED
      BY <1>t, <3>1, <3>2 DEF Work
  <2> QED
    BY <1>8, <2>1 DEF ListCampaignAudienceTargetsByBatch, ListTargets, Goto, Of, TypeOK
<1>9. ASSUME NEW w \in Workers, FinishBatch(w) PROVE TypeOK'
  BY <1>9, <1>m, <1>l DEF FinishBatch, Work, TypeOK
<1>10. ASSUME NEW w \in Workers, GeneratorCrash(w) PROVE TypeOK'
  BY <1>10, <1>l DEF GeneratorCrash, TypeOK
<1>11. ASSUME NEW w \in Workers, NEW t \in Targets, MarkCampaignAudienceTargetExpired(w, t) PROVE TypeOK'
  <2>1. work' \in [Workers -> Work]
    <3>1. work' = [work EXCEPT ![w].list = @ \ {t}]
      BY <1>11 DEF MarkCampaignAudienceTargetExpired
    <3> QED
      BY <1>t, <3>1 DEF Work
  <2> QED
    BY <1>11, <2>1 DEF MarkCampaignAudienceTargetExpired, TypeOK
<1>12. ASSUME NEW w \in Workers, NEW t \in Targets, CreateTargetNotification(w, t) PROVE TypeOK'
  <2>1. /\ target' \in [Targets -> {"none", "pending", "created", "failed", "expired"}]
        /\ made' \in [Targets -> Nat]
        /\ outbox' \in [Targets -> {"none", "pending", "sent", "dlq", "cancelled"}]
    <3>1. CASE WriteNotification(t)
      BY <3>1 DEF WriteNotification, TypeOK
    <3>2. CASE UNCHANGED <<target, made, outbox>>
      BY <3>2 DEF TypeOK
    <3> QED
      BY <1>12, <3>1, <3>2 DEF CreateTargetNotification
  <2>4. faults' \in Nat
    BY <1>12 DEF CreateTargetNotification, TypeOK
  <2>2. at' \in [Workers -> {"idle", "claimed", "active", "working"} \cup Targets]
    BY <1>12 DEF CreateTargetNotification, Goto, TypeOK
  <2>3. work' \in [Workers -> Work]
    <3>1. \/ work' = [work EXCEPT ![w].list = @ \ {t}, ![w].ok = @ + 1]
          \/ work' = [work EXCEPT ![w].list = @ \ {t}, ![w].bad = @ + 1]
      BY <1>12 DEF CreateTargetNotification, Done, Failed
    <3> QED
      BY <1>t, <3>1 DEF Work
  <2> QED
    BY <1>12, <2>1, <2>2, <2>3, <2>4 DEF CreateTargetNotification, TypeOK
<1>13. ASSUME NEW w \in Workers, NEW t \in Targets, MarkCampaignAudienceTargetFailed(w, t) PROVE TypeOK'
  BY <1>13 DEF MarkCampaignAudienceTargetFailed, FailedStatus, Goto, TypeOK
<1>14. ASSUME NEW t \in Targets, Deliver(t) PROVE TypeOK'
  BY <1>14 DEF Deliver, TypeOK
<1>15. ASSUME NEW t \in Targets, ReplayDLQWithNote(t) PROVE TypeOK'
  BY <1>15 DEF ReplayDLQWithNote, ReplayDLQ, ResolveDLQ, TypeOK
<1>16. CASE Decide
  BY <1>16 DEF Decide, UpdateReplayApprovalStatus, TypeOK
<1>17. ASSUME NEW o \in Operators, Bulk(o) PROVE TypeOK'
  <2>1. bulk' \in [Operators -> Recovery]
    <3>1. bulk' = bulk \/ bulk' = [bulk EXCEPT ![o].step = "list"]
      BY <1>17 DEF Bulk
    <3> QED
      BY <1>t, <3>1 DEF Recovery
  <2> QED
    BY <1>17, <2>1 DEF Bulk, MaybeCreateReplayApproval, CreateReplayApprovalRequest, TypeOK
<1>18. ASSUME NEW o \in Operators, ExecuteReplayApprovalRequest(o) PROVE TypeOK'
  <2>1. bulk' \in [Operators -> Recovery]
    <3>1. bulk' = [bulk EXCEPT ![o].step = "list", ![o].approved = TRUE]
      BY <1>18 DEF ExecuteReplayApprovalRequest
    <3> QED
      BY <1>t, <3>1 DEF Recovery
  <2> QED
    BY <1>18, <2>1 DEF ExecuteReplayApprovalRequest, TypeOK
<1>19. ASSUME NEW o \in Operators, ListDLQFiltered(o) PROVE TypeOK'
  <2>1. bulk' \in [Operators -> Recovery]
    <3>1. bulk' = [bulk EXCEPT ![o].step = "run", ![o].items = Open]
      BY <1>19 DEF ListDLQFiltered
    <3> QED
      BY <1>t, <3>1 DEF Recovery, Open
  <2> QED
    BY <1>19, <2>1 DEF ListDLQFiltered, Open, TypeOK
<1>20. ASSUME NEW o \in Operators, BulkEnd(o) PROVE TypeOK'
  BY <1>20, <1>n DEF BulkEnd, TypeOK
<1>21. ASSUME NEW o \in Operators, NEW t \in Targets, BulkItem(o, t) PROVE TypeOK'
  <2>1. bulk' \in [Operators -> Recovery]
    <3>1. bulk' = [bulk EXCEPT ![o].items = @ \ {t}]
      BY <1>21 DEF BulkItem
    <3> QED
      BY <1>t, <3>1 DEF Recovery
  <2> QED
    BY <1>21, <2>1 DEF BulkItem, ReplayDLQ, ResolveDLQ, TypeOK
<1>22. CASE UNCHANGED vars
  BY <1>22 DEF vars, TypeOK
<1> QED
  BY <1>1, <1>2, <1>3, <1>4, <1>5, <1>6, <1>7, <1>8, <1>9, <1>10, <1>11, <1>12, <1>13, <1>14,
     <1>15, <1>16, <1>17, <1>18, <1>19, <1>20, <1>21, <1>22 DEF Next

-----------------------------------------------------------------------------
(* What the steps do to targets, batches and generators *)

\* All steps of campaigns, outbox and recovery that are none of theirs.
Elsewhere == UNCHANGED <<target, made, batch, at, work>>

\* A generator leaves its batch, and the batch's row may say so.
Leaves(w) ==
    /\ at[w] # "idle"
    /\ at' = [at EXCEPT ![w] = "idle"]
    /\ work' = [work EXCEPT ![w] = Idle]
    /\ UNCHANGED <<target, made>>
    /\ \/ UNCHANGED batch
       \/ /\ batch[work[w].batch].owner = w
          /\ \A b \in Batches \ {work[w].batch} : batch'[b] = batch[b]
          /\ batch'[work[w].batch].status \in {"failed", "retrying", "cancelled", "completed"}
          /\ batch'[work[w].batch].status = "completed" =>
                at[w] = "working" /\ work[w].list = {} /\ work[w].bad = 0 /\ ~work[w].more
          /\ batch'[work[w].batch].owner = NoWorker
          /\ batch'[work[w].batch].ok = batch[work[w].batch].ok + work[w].ok

OthersStay(w) == \A v \in Workers \ {w} : at'[v] = at[v] /\ work'[v] = work[v]

Imports(b) ==
    /\ batch[b].status = "none"
    /\ \A c \in Batches \ {b} : batch'[c] = batch[c]
    /\ batch'[b].status = "pending" /\ batch'[b].owner = batch[b].owner /\ batch'[b].ok = batch[b].ok
    /\ \A t \in Targets : target'[t] = IF BatchOf[t] = b THEN "pending" ELSE target[t]
    /\ UNCHANGED <<made, at, work>>

Retries(b) ==
    /\ batch[b].status # "none"
    /\ \A c \in Batches \ {b} : batch'[c] = batch[c]
    /\ batch'[b].status = "retrying" /\ batch'[b].owner = NoWorker /\ batch'[b].ok = batch[b].ok
    /\ \A t \in Targets :
          target'[t] = IF BatchOf[t] = b /\ target[t] = "failed" THEN "pending" ELSE target[t]
    /\ UNCHANGED <<made, at, work>>

Claims(w, b) ==
    /\ at[w] = "idle" /\ batch[b].status \in {"pending", "retrying"}
    /\ \A c \in Batches \ {b} : batch'[c] = batch[c]
    /\ batch'[b].status = "processing" /\ batch'[b].owner = w /\ batch'[b].ok = batch[b].ok
    /\ at'[w] = "claimed" /\ work'[w].batch = b /\ work'[w].list = {} /\ work'[w].ok = 0
    /\ OthersStay(w)
    /\ UNCHANGED <<target, made>>

Looks(w) ==
    /\ at[w] = "claimed" /\ at'[w] = "active"
    /\ OthersStay(w)
    /\ UNCHANGED <<target, made, batch, work>>

Lists(w) ==
    /\ at[w] = "active" /\ at'[w] = "working"
    /\ work'[w].batch = work[w].batch /\ work'[w].ok = work[w].ok /\ work'[w].bad = work[w].bad
    /\ work'[w].list \subseteq Pending(work[w].batch)
    /\ ~work'[w].more => work'[w].list = Pending(work[w].batch)
    /\ OthersStay(w)
    /\ UNCHANGED <<target, made, batch>>

\* A target is taken from the list: it has expired, or its notification is
\* written and counted, or the attempt failed, with or without an effect.
Takes(w, t) ==
    /\ at[w] = "working" /\ t \in work[w].list
    /\ work'[w].batch = work[w].batch /\ work'[w].more = work[w].more
    /\ work'[w].list = work[w].list \ {t}
    /\ OthersStay(w)
    /\ UNCHANGED batch
    /\ \A u \in Targets \ {t} : target'[u] = target[u] /\ made'[u] = made[u]
    /\ \/ /\ at'[w] = at[w] /\ work'[w].ok = work[w].ok /\ work'[w].bad = work[w].bad
          /\ target'[t] = IF target[t] = "created" THEN "created" ELSE "expired"
          /\ made'[t] = made[t]
       \/ /\ at'[w] = at[w] /\ work'[w].ok = work[w].ok + 1 /\ work'[w].bad = work[w].bad
          /\ target[t] # "created" /\ target'[t] = "created" /\ made'[t] = made[t] + 1
       \/ /\ at'[w] = t /\ work'[w].ok = work[w].ok /\ work'[w].bad = work[w].bad + 1
          /\ \/ target[t] # "created" /\ target'[t] = "created" /\ made'[t] = made[t] + 1
             \/ target'[t] = target[t] /\ made'[t] = made[t]

Marks(w, t) ==
    /\ at[w] = t /\ at'[w] = "working"
    /\ OthersStay(w)
    /\ UNCHANGED <<made, batch, work>>
    /\ \A u \in Targets \ {t} : target'[u] = target[u]
    /\ target'[t] = IF target[t] = "created" THEN "created" ELSE "failed"

Does ==
    \/ Elsewhere
    \/ \E b \in Batches : Imports(b) \/ Retries(b)
    \/ \E w \in Workers : \/ Leaves(w) \/ Looks(w) \/ Lists(w)
                          \/ \E b \in Batches : Claims(w, b)
                          \/ \E t \in Targets : Takes(w, t) \/ Marks(w, t)

LEMMA LeavesBatch ==
    ASSUME TypeOK, InHand, NEW w \in Workers,
           \/ GetCampaign(w) /\ campaign # "active"
           \/ FinishBatch(w)
           \/ GeneratorCrash(w)
    PROVE  Leaves(w)
<1> USE DEF audience, generator, Leave, Goto
<1>w. /\ work[w].ok \in Nat /\ work[w].bad \in Nat
      /\ at[w] # "idle" => work[w].batch \in Batches /\ batch[work[w].batch].ok \in Nat
  BY DEF TypeOK, InHand, Work, BatchRow
<1>m. ASSUME NEW s, NEW ok, NEW bad, MarkCampaignAudienceBatchResult(w, s, ok, bad), at[w] # "idle"
      PROVE  \/ UNCHANGED batch
             \/ /\ batch[work[w].batch].owner = w
                /\ \A b \in Batches \ {work[w].batch} : batch'[b] = batch[b]
                /\ batch'[work[w].batch].status = s
                /\ batch'[work[w].batch].owner = NoWorker
                /\ batch'[work[w].batch].ok = batch[work[w].batch].ok + ok
  BY <1>m, <1>w DEF MarkCampaignAudienceBatchResult, TypeOK
<1>1. CASE GeneratorCrash(w)
  BY <1>1 DEF GeneratorCrash, Leaves
<1>2. CASE GetCampaign(w) /\ campaign # "active"
  <2>1. work[w].ok = 0 /\ at[w] = "claimed" /\ Leave(w) /\ UNCHANGED <<target, made>>
    BY <1>2 DEF GetCampaign, InHand
  <2>2. PICK s \in {"failed", "retrying", "cancelled"} : MarkCampaignAudienceBatchResult(w, s, 0, 0)
    BY <1>2 DEF GetCampaign
  <2> QED
    BY <1>m, <2>1, <2>2 DEF Leaves
<1>3. CASE FinishBatch(w)
  <2> DEFINE s == IF work[w].bad > 0 THEN "failed" ELSE IF work[w].more THEN "retrying" ELSE "completed"
  <2>1. /\ at[w] = "working" /\ work[w].list = {}
        /\ MarkCampaignAudienceBatchResult(w, s, work[w].ok, work[w].bad)
        /\ Leave(w) /\ UNCHANGED <<target, made>>
    BY <1>3 DEF FinishBatch
  <2>2. /\ s \in {"failed", "retrying", "completed"}
        /\ s = "completed" => work[w].bad = 0 /\ ~work[w].more
    BY <1>w
  <2> HIDE DEF s
  <2> QED
    BY <1>m, <2>1, <2>2 DEF Leaves
<1> QED
  BY <1>1, <1>2, <1>3

LEMMA OfFinite ==
    ASSUME NEW b, NEW S \in SUBSET Of(b)
    PROVE  IsFiniteSet(S) /\ Cardinality(S) \in Nat
<1>1. S \in SUBSET Targets
  BY DEF Of
<1> QED
  BY <1>1, CampaignsAssumption, FS_Subset, FS_CardinalityType DEF CampaignsAssumption

\* A list that is not cut off is all there is.
LEMMA ListsPage ==
    ASSUME TypeOK, NEW w \in Workers, ListCampaignAudienceTargetsByBatch(w)
    PROVE  Lists(w)
<1> DEFINE b == work[w].batch
           n == Cardinality(Pending(b))
           more == n > TargetBatchSize
<1>1. PICK page \in SUBSET Pending(b) :
         /\ Cardinality(page) = IF more THEN TargetBatchSize ELSE n
         /\ work' = [work EXCEPT ![w].list = page, ![w].more = more]
  BY DEF ListCampaignAudienceTargetsByBatch, ListTargets, Pending
<1>2. ~more => page = Pending(b)
  <2>1. IsFiniteSet(Pending(b))
    BY OfFinite DEF Pending
  <2> QED
    BY <1>1, <2>1, FS_Subset
<1>3. more \in BOOLEAN
  OBVIOUS
<1> HIDE DEF more
<1>4. /\ work'[w].batch = work[w].batch /\ work'[w].ok = work[w].ok /\ work'[w].bad = work[w].bad
      /\ work'[w].list = page /\ work'[w].more = more
      /\ \A v \in Workers \ {w} : work'[v] = work[v]
  BY <1>1 DEF TypeOK, Work
<1>5. /\ at[w] = "active" /\ at'[w] = "working" /\ UNCHANGED <<target, made, batch>>
      /\ \A v \in Workers \ {w} : at'[v] = at[v]
  BY DEF ListCampaignAudienceTargetsByBatch, Goto, audience, TypeOK
<1> QED
  BY <1>2, <1>4, <1>5 DEF Lists, OthersStay

LEMMA TakesTarget ==
    ASSUME TypeOK, NEW w \in Workers, NEW t \in Targets,
           MarkCampaignAudienceTargetExpired(w, t) \/ CreateTargetNotification(w, t)
    PROVE  Takes(w, t)
<1>1. CASE MarkCampaignAudienceTargetExpired(w, t)
  <2>1. /\ work'[w].batch = work[w].batch /\ work'[w].ok = work[w].ok /\ work'[w].bad = work[w].bad
        /\ work'[w].list = work[w].list \ {t} /\ work'[w].more = work[w].more
        /\ \A v \in Workers \ {w} : work'[v] = work[v]
    BY <1>1 DEF MarkCampaignAudienceTargetExpired, TypeOK, Work
  <2> QED
    BY <1>1, <2>1 DEF MarkCampaignAudienceTargetExpired, TypeOK, Takes, OthersStay
<1>2. CASE CreateTargetNotification(w, t)
  <2>1. ASSUME work' = Done(w, t) \/ work' = Failed(w, t)
        PROVE  /\ work'[w].batch = work[w].batch
               /\ work'[w].list = work[w].list \ {t} /\ work'[w].more = work[w].more
               /\ \A v \in Workers \ {w} : work'[v] = work[v]
    BY <2>1 DEF Done, Failed, TypeOK, Work
  <2>2. work' = Done(w, t) => work'[w].ok = work[w].ok + 1 /\ work'[w].bad = work[w].bad
    BY DEF Done, TypeOK, Work
  <2>3. work' = Failed(w, t) => work'[w].bad = work[w].bad + 1 /\ work'[w].ok = work[w].ok
    BY DEF Failed, TypeOK, Work
  <2>4. Fresh(t) /\ WriteNotification(t) =>
           /\ target[t] # "created" /\ target'[t] = "created" /\ made'[t] = made[t] + 1
           /\ \A u \in Targets \ {t} : target'[u] = target[u] /\ made'[u] = made[u]
    BY DEF Fresh, WriteNotification, TypeOK
  <2>5. Goto(w, t) => at'[w] = t /\ \A v \in Workers \ {w} : at'[v] = at[v]
    BY DEF Goto, TypeOK
  <2> QED
    BY <1>2, <2>1, <2>2, <2>3, <2>4, <2>5 DEF CreateTargetNotification, Takes, OthersStay
<1> QED
  BY <1>1, <1>2

LEMMA StepDoes == TypeOK /\ InHand /\ [Next]_vars => Does
<1> SUFFICES ASSUME TypeOK, InHand, [Next]_vars PROVE Does
  OBVIOUS
<1> USE DEF audience, generator, recovery
<1>1. CASE \/ CreateFlashSale \/ PauseCampaign \/ ResumeCampaign \/ CancelCampaign \/ Expire \/ Decide
           \/ UNCHANGED vars
  BY <1>1 DEF CreateFlashSale, PauseCampaign, ResumeCampaign, CancelCampaign, Expire, Decide, vars,
              Does, Elsewhere
<1>2. ASSUME NEW t \in Targets, Deliver(t) \/ ReplayDLQWithNote(t) PROVE Does
  BY <1>2 DEF Deliver, ReplayDLQWithNote, Does, Elsewhere
<1>3. ASSUME NEW o \in Operators,
             \/ Bulk(o) \/ ExecuteReplayApprovalRequest(o) \/ ListDLQFiltered(o) \/ BulkEnd(o)
             \/ \E t \in Targets : BulkItem(o, t)
      PROVE  Does
  BY <1>3 DEF Bulk, ExecuteReplayApprovalRequest, ListDLQFiltered, BulkEnd, BulkItem, Does, Elsewhere
<1>4. ASSUME NEW b \in Batches, ImportCampaignAudience(b) PROVE Does
  <2>1. Imports(b)
    BY <1>4 DEF ImportCampaignAudience, Imports, Of, TypeOK, BatchRow
  <2> QED
    BY <2>1 DEF Does
<1>5. ASSUME NEW b \in Batches, RetryCampaignAudienceBatch(b) PROVE Does
  <2>1. Retries(b)
    BY <1>5 DEF RetryCampaignAudienceBatch, Retries, Of, TypeOK, BatchRow
  <2> QED
    BY <2>1 DEF Does
<1>6. ASSUME NEW w \in Workers, ClaimCampaignAudienceBatches(w) PROVE Does
  <2>1. PICK b \in Batches : /\ batch[b].status \in {"pending", "retrying"}
                             /\ batch' = [batch EXCEPT ![b].status = "processing", ![b].owner = w]
                             /\ work' = [work EXCEPT ![w] = [Idle EXCEPT !.batch = b]]
    BY <1>6 DEF ClaimCampaignAudienceBatches
  <2>2. /\ \A c \in Batches \ {b} : batch'[c] = batch[c]
        /\ batch'[b].status = "processing" /\ batch'[b].owner = w /\ batch'[b].ok = batch[b].ok
    BY <2>1 DEF TypeOK, BatchRow
  <2>3. /\ work'[w].batch = b /\ work'[w].list = {} /\ work'[w].ok = 0
        /\ \A v \in Workers \ {w} : work'[v] = work[v]
    BY <2>1 DEF TypeOK, Idle
  <2>4. Claims(w, b)
    BY <1>6, <2>1, <2>2, <2>3 DEF ClaimCampaignAudienceBatches, Goto, Claims, OthersStay, TypeOK
  <2> QED
    BY <2>4 DEF Does
<1>7. ASSUME NEW w \in Workers, GetCampaign(w) PROVE Does
  <2>1. CASE campaign = "active"
    <3>1. Looks(w)
      BY <1>7, <2>1 DEF GetCampaign, Goto, Looks, OthersStay, TypeOK
    <3> QED
      BY <3>1 DEF Does
  <2> QED
    BY <1>7, <2>1, LeavesBatch DEF Does
<1>8. ASSUME NEW w \in Workers, FinishBatch(w) \/ GeneratorCrash(w) PROVE Does
  BY <1>8, LeavesBatch DEF Does
<1>9. ASSUME NEW w \in Workers, ListCampaignAudienceTargetsByBatch(w) PROVE Does
  BY <1>9, ListsPage DEF Does
<1>10. ASSUME NEW w \in Workers, NEW t \in Targets,
              MarkCampaignAudienceTargetExpired(w, t) \/ CreateTargetNotification(w, t)
       PROVE  Does
  BY <1>10, TakesTarget DEF Does
<1>11. ASSUME NEW w \in Workers, NEW t \in Targets, MarkCampaignAudienceTargetFailed(w, t) PROVE Does
  <2>1. Marks(w, t)
    BY <1>11 DEF MarkCampaignAudienceTargetFailed, FailedStatus, Goto, Marks, OthersStay, TypeOK
  <2> QED
    BY <2>1 DEF Does
<1> QED
  BY <1>1, <1>2, <1>3, <1>4, <1>5, <1>6, <1>7, <1>8, <1>9, <1>10, <1>11 DEF Next

-----------------------------------------------------------------------------
(* The invariants *)

\* Nothing is made twice, since a target is written only while it is pending
\* or failed, and nothing but its batch's import and retry puts it back.
LEMMA GenerationStep == TypeOK /\ Generation /\ Does => Generation'
<1> SUFFICES ASSUME TypeOK, NotImported, InHand, OnePerTarget, Does
             PROVE  NotImported' /\ InHand' /\ OnePerTarget'
  BY DEF Generation
<1> USE CampaignsAssumption DEF CampaignsAssumption, Of
<1>1. CASE Elsewhere
  BY <1>1 DEF Elsewhere, NotImported, InHand, OnePerTarget
<1>2. ASSUME NEW b \in Batches, Imports(b) PROVE NotImported' /\ InHand' /\ OnePerTarget'
  <2>1. NotImported'
    BY <1>2 DEF Imports, NotImported
  <2>2. InHand'
    BY <1>2 DEF Imports, InHand
  <2>3. OnePerTarget'
    BY <1>2 DEF Imports, NotImported, OnePerTarget
  <2> QED
    BY <2>1, <2>2, <2>3
<1>3. ASSUME NEW b \in Batches, Retries(b) PROVE NotImported' /\ InHand' /\ OnePerTarget'
  <2>1. NotImported'
    BY <1>3 DEF Retries, NotImported
  <2>2. InHand'
    BY <1>3 DEF Retries, InHand
  <2>3. OnePerTarget'
    BY <1>3 DEF Retries, OnePerTarget
  <2> QED
    BY <2>1, <2>2, <2>3
<1>4. ASSUME NEW w \in Workers, NEW b \in Batches, Claims(w, b)
      PROVE  NotImported' /\ InHand' /\ OnePerTarget'
  <2>1. NotImported' /\ OnePerTarget'
    BY <1>4 DEF Claims, NotImported, OnePerTarget
  <2>2. InHand'
    BY <1>4 DEF Claims, OthersStay, InHand
  <2> QED
    BY <2>1, <2>2
<1>5. ASSUME NEW w \in Workers, Leaves(w) PROVE NotImported' /\ InHand' /\ OnePerTarget'
  <2>1. at'[w] = "idle" /\ \A v \in Workers \ {w} : at'[v] = at[v] /\ work'[v] = work[v]
    BY <1>5 DEF Leaves, TypeOK
  <2>2. /\ UNCHANGED <<target, made>>
        /\ \A b \in Batches : batch'[b].status = "none" <=> batch[b].status = "none"
    BY <1>5 DEF Leaves, InHand
  <2> QED
    BY <2>1, <2>2 DEF NotImported, InHand, OnePerTarget
<1>6. ASSUME NEW w \in Workers, Looks(w) \/ Lists(w) PROVE NotImported' /\ InHand' /\ OnePerTarget'
  <2>1. NotImported' /\ OnePerTarget'
    BY <1>6 DEF Looks, Lists, NotImported, OnePerTarget
  <2>2. InHand'
    BY <1>6 DEF Looks, Lists, OthersStay, InHand, Pending
  <2> QED
    BY <2>1, <2>2
<1>7. ASSUME NEW w \in Workers, NEW t \in Targets, Takes(w, t)
      PROVE  NotImported' /\ InHand' /\ OnePerTarget'
  <2>0. BatchOf[t] = work[w].batch /\ batch[work[w].batch].status # "none" /\ work[w].bad \in Nat
    BY <1>7 DEF Takes, InHand, TypeOK, Work
  <2>1. NotImported'
    BY <1>7, <2>0 DEF Takes, NotImported
  <2>2. InHand'
    BY <1>7, <2>0 DEF Takes, OthersStay, InHand
  <2>3. OnePerTarget'
    BY <1>7 DEF Takes, OnePerTarget
  <2> QED
    BY <2>1, <2>2, <2>3
<1>8. ASSUME NEW w \in Workers, NEW t \in Targets, Marks(w, t)
      PROVE  NotImported' /\ InHand' /\ OnePerTarget'
  <2>0. BatchOf[t] = work[w].batch /\ batch[work[w].batch].status # "none" /\ at[w] # "idle"
    BY <1>8 DEF Marks, InHand
  <2>1. NotImported'
    BY <1>8, <2>0 DEF Marks, NotImported
  <2>2. InHand'
    BY <1>8, <2>0 DEF Marks, OthersStay, InHand
  <2>3. OnePerTarget'
    BY <1>8 DEF Marks, OnePerTarget
  <2> QED
    BY <2>1, <2>2, <2>3
<1> QED
  BY <1>1, <1>2, <1>3, <1>4, <1>5, <1>6, <1>7, <1>8 DEF Does

\* A batch is completed by its owner only, and only when the owner's list was
\* all there was and all of it is done.
LEMMA CompletionStep == TypeOK /\ InHand /\ Completion /\ Does => Completion'
<1> SUFFICES ASSUME TypeOK, InHand, OwnerHasAll, CompletedIsEmpty, Does
             PROVE  OwnerHasAll' /\ CompletedIsEmpty'
  BY DEF Completion
<1> USE CampaignsAssumption DEF CampaignsAssumption, Of, Pending, Owns
<1>1. CASE Elsewhere
  BY <1>1 DEF Elsewhere, OwnerHasAll, CompletedIsEmpty
<1>2. ASSUME NEW b \in Batches, Imports(b) PROVE OwnerHasAll' /\ CompletedIsEmpty'
  <2>1. \A w \in Workers : at[w] # "idle" => work[w].batch # b
    BY <1>2 DEF Imports, InHand
  <2>2. OwnerHasAll'
    BY <1>2, <2>1 DEF Imports, OwnerHasAll
  <2>3. CompletedIsEmpty'
    BY <1>2 DEF Imports, CompletedIsEmpty
  <2> QED
    BY <2>2, <2>3
<1>3. ASSUME NEW b \in Batches, Retries(b) PROVE OwnerHasAll' /\ CompletedIsEmpty'
  <2>1. OwnerHasAll'
    BY <1>3 DEF Retries, OwnerHasAll
  <2>2. CompletedIsEmpty'
    BY <1>3 DEF Retries, CompletedIsEmpty
  <2> QED
    BY <2>1, <2>2
<1>4. ASSUME NEW w \in Workers, NEW b \in Batches, Claims(w, b) PROVE OwnerHasAll' /\ CompletedIsEmpty'
  <2>1. OwnerHasAll'
    BY <1>4 DEF Claims, OthersStay, OwnerHasAll
  <2>2. CompletedIsEmpty'
    BY <1>4 DEF Claims, CompletedIsEmpty
  <2> QED
    BY <2>1, <2>2
<1>5. ASSUME NEW w \in Workers, Leaves(w) PROVE OwnerHasAll' /\ CompletedIsEmpty'
  <2>1. /\ at'[w] = "idle" /\ \A v \in Workers \ {w} : at'[v] = at[v] /\ work'[v] = work[v]
        /\ UNCHANGED target /\ at[w] # "idle" /\ work[w].batch \in Batches
    BY <1>5 DEF Leaves, TypeOK, InHand
  <2>2. OwnerHasAll'
    BY <1>5, <2>1 DEF Leaves, OwnerHasAll
  <2>3. CompletedIsEmpty'
    BY <1>5, <2>1 DEF Leaves, OwnerHasAll, CompletedIsEmpty
  <2> QED
    BY <2>2, <2>3
<1>6. ASSUME NEW w \in Workers, Looks(w) \/ Lists(w) PROVE OwnerHasAll' /\ CompletedIsEmpty'
  <2>1. OwnerHasAll'
    BY <1>6 DEF Looks, Lists, OthersStay, OwnerHasAll
  <2>2. CompletedIsEmpty'
    BY <1>6 DEF Looks, Lists, CompletedIsEmpty
  <2> QED
    BY <2>1, <2>2
<1>7. ASSUME NEW w \in Workers, NEW t \in Targets, Takes(w, t) PROVE OwnerHasAll' /\ CompletedIsEmpty'
  <2>0. /\ work[w].bad \in Nat /\ at'[w] # "idle" /\ at[w] = "working"
        /\ \A u \in Targets : target'[u] = "pending" => target[u] = "pending"
        /\ target'[t] = "pending" => work'[w].bad = work[w].bad + 1
    BY <1>7 DEF Takes, TypeOK, Work
  <2>1. OwnerHasAll'
    BY <1>7, <2>0 DEF Takes, OthersStay, OwnerHasAll
  <2>2. CompletedIsEmpty'
    BY <1>7, <2>0 DEF Takes, CompletedIsEmpty
  <2> QED
    BY <2>1, <2>2
<1>8. ASSUME NEW w \in Workers, NEW t \in Targets, Marks(w, t) PROVE OwnerHasAll' /\ CompletedIsEmpty'
  <2>0. /\ \A u \in Targets : target'[u] = "pending" => target[u] = "pending"
        /\ work[w].bad \in Nat /\ work[w].bad > 0 /\ UNCHANGED <<work, batch>>
        /\ \A v \in Workers \ {w} : at'[v] = at[v]
    BY <1>8 DEF Marks, OthersStay, InHand, TypeOK, Work
  <2>1. OwnerHasAll'
    BY <2>0 DEF OwnerHasAll
  <2>2. CompletedIsEmpty'
    BY <2>0 DEF CompletedIsEmpty
  <2> QED
    BY <2>1, <2>2
<1> QED
  BY <1>1, <1>2, <1>3, <1>4, <1>5, <1>6, <1>7, <1>8 DEF Does

LEMMA CreatedCard == ASSUME NEW b PROVE Cardinality(Created(b)) \in Nat /\ IsFiniteSet(Created(b))
BY OfFinite DEF Created

\* A notification that was created stays so.
LEMMA CreatedStays ==
    ASSUME TypeOK, NotImported, Does, NEW t \in Targets, target[t] = "created"
    PROVE  target'[t] = "created"
<1> USE CampaignsAssumption DEF CampaignsAssumption, Of
<1>1. CASE Elsewhere
  BY <1>1 DEF Elsewhere
<1>2. ASSUME NEW b \in Batches, Imports(b) \/ Retries(b) PROVE target'[t] = "created"
  BY <1>2 DEF Imports, Retries, NotImported
<1>3. ASSUME NEW w \in Workers, \/ Leaves(w) \/ Looks(w) \/ Lists(w) \/ \E b \in Batches : Claims(w, b)
      PROVE  target'[t] = "created"
  BY <1>3 DEF Leaves, Looks, Lists, Claims
<1>4. ASSUME NEW w \in Workers, NEW u \in Targets, Takes(w, u) \/ Marks(w, u)
      PROVE  target'[t] = "created"
  BY <1>4 DEF Takes, Marks
<1> QED
  BY <1>1, <1>2, <1>3, <1>4 DEF Does

LEMMA CreatedGrows ==
    ASSUME TypeOK, NotImported, Does, NEW b
    PROVE  /\ Cardinality(Created(b)) <= Cardinality(Created(b)')
           /\ Cardinality(Created(b)') \in Nat
<1> DEFINE new == {t \in Of(b) : target'[t] = "created"}
<1>1. new = Created(b)'
  BY DEF Created, Of
<1>2. Created(b) \subseteq new
  BY CreatedStays DEF Created, Of
<1>3. IsFiniteSet(new) /\ Cardinality(new) \in Nat
  BY OfFinite
<1> QED
  BY <1>1, <1>2, <1>3, FS_Subset

\* The owner adds to its batch what it has made itself and counted nowhere
\* else; what others make of the batch meanwhile is not counted.
LEMMA CountingStep == TypeOK /\ InHand /\ NotImported /\ Counting /\ Does => Counting'
<1> SUFFICES ASSUME TypeOK, InHand, NotImported, OwnerCounts, CountedIsMade, Does
             PROVE  OwnerCounts' /\ CountedIsMade'
  BY DEF Counting
<1> USE CampaignsAssumption DEF CampaignsAssumption
<1>a. \A b \in Batches : batch[b].ok \in Nat /\ batch[b].ok <= Cardinality(Created(b))
  BY DEF TypeOK, BatchRow, CountedIsMade, Created
<1>b. \A b \in Batches : /\ Cardinality(Created(b)) \in Nat /\ Cardinality(Created(b)') \in Nat
                         /\ Cardinality(Created(b)) <= Cardinality(Created(b)')
  BY CreatedCard, CreatedGrows
<1>c. \A w \in Workers : work[w].ok \in Nat
  BY DEF TypeOK, Work
<1>d. CountedIsMade' <=> \A b \in Batches : batch'[b].ok <= Cardinality(Created(b)')
  BY DEF CountedIsMade, Created, Of
<1> HIDE DEF Created
<1>1. CASE Elsewhere
  BY <1>1, <1>a, <1>b, <1>c, <1>d DEF Elsewhere, OwnerCounts, Owns
<1>2. ASSUME NEW b \in Batches, Imports(b) \/ Retries(b) PROVE OwnerCounts' /\ CountedIsMade'
  BY <1>2, <1>a, <1>b, <1>c, <1>d DEF Imports, Retries, OwnerCounts, Owns
<1>3. ASSUME NEW w \in Workers, NEW b \in Batches, Claims(w, b) PROVE OwnerCounts' /\ CountedIsMade'
  BY <1>3, <1>a, <1>b, <1>c, <1>d DEF Claims, OthersStay, OwnerCounts, Owns
<1>4. ASSUME NEW w \in Workers, Leaves(w) PROVE OwnerCounts' /\ CountedIsMade'
  <2>1. /\ at'[w] = "idle" /\ \A v \in Workers \ {w} : at'[v] = at[v] /\ work'[v] = work[v]
        /\ at[w] # "idle" /\ work[w].batch \in Batches
    BY <1>4 DEF Leaves, TypeOK, InHand
  <2>2. OwnerCounts'
    BY <1>4, <2>1, <1>b, <1>c, <1>a DEF Leaves, OwnerCounts, Owns
  <2>3. CountedIsMade'
    BY <1>4, <2>1, <1>b, <1>c, <1>a, <1>d DEF Leaves, OwnerCounts, Owns
  <2> QED
    BY <2>2, <2>3
<1>5. ASSUME NEW w \in Workers, Looks(w) \/ Lists(w) PROVE OwnerCounts' /\ CountedIsMade'
  BY <1>5, <1>a, <1>b, <1>c, <1>d DEF Looks, Lists, OthersStay, OwnerCounts, Owns
<1>6. ASSUME NEW w \in Workers, NEW t \in Targets, Takes(w, t) PROVE OwnerCounts' /\ CountedIsMade'
  <2>1. CountedIsMade'
    BY <1>6, <1>a, <1>b, <1>d DEF Takes
  <2>2. work[w].batch \in Batches /\ BatchOf[t] = work[w].batch
    BY <1>6 DEF Takes, InHand, Of
  <2>3. ASSUME work'[w].ok # work[w].ok
        PROVE  Cardinality(Created(work[w].batch)') = Cardinality(Created(work[w].batch)) + 1
    <3> DEFINE b == work[w].batch
    <3>1. target[t] # "created" /\ target'[t] = "created" /\ \A u \in Targets \ {t} : target'[u] = target[u]
      BY <1>6, <2>3 DEF Takes
    <3>2. {u \in Of(b) : target'[u] = "created"} = {u \in Of(b) : target[u] = "created"} \cup {t}
      BY <3>1, <2>2 DEF Of
    <3>3. {u \in Of(b) : target'[u] = "created"} = {u \in Of(b) : target[u] = "created"}'
      <4>1. UNCHANGED b
        BY <1>6 DEF Takes
      <4> QED
        BY <4>1 DEF Of
    <3>4. Created(b)' = Created(b) \cup {t} /\ t \notin Created(b)
      BY <3>1, <3>2, <3>3 DEF Created
    <3>5. IsFiniteSet(Created(b))
      BY CreatedCard
    <3> QED
      BY <3>4, <3>5, FS_AddElement
  <2>4. work'[w].ok \in {work[w].ok, work[w].ok + 1}
    BY <1>6 DEF Takes
  <2>5. OwnerCounts'
    BY <1>6, <2>2, <2>3, <2>4, <1>a, <1>b, <1>c DEF Takes, OthersStay, OwnerCounts, Owns
  <2> QED
    BY <2>1, <2>5
<1>7. ASSUME NEW w \in Workers, NEW t \in Targets, Marks(w, t) PROVE OwnerCounts' /\ CountedIsMade'
  BY <1>7, <1>a, <1>b, <1>c, <1>d DEF Marks, OthersStay, OwnerCounts, Owns
<1> QED
  BY <1>1, <1>2, <1>3, <1>4, <1>5, <1>6, <1>7 DEF Does

\* An approval is decided once, so one that stood when the recovery began
\* still stands, however long the recovery runs.
LEMMA ApprovalStep == TypeOK /\ Approval /\ [Next]_vars => Approval'
<1> SUFFICES ASSUME TypeOK, RunsApproved, OnlyApproved, [Next]_vars
             PROVE  RunsApproved' /\ OnlyApproved'
  BY DEF Approval
<1> USE DEF recovery, RunsApproved, OnlyApproved
<1>u. CASE UNCHANGED <<request, bulk, effects>>
  BY <1>u
<1>1. CASE \/ CreateFlashSale \/ PauseCampaign \/ ResumeCampaign \/ CancelCampaign \/ Expire
           \/ \E b \in Batches : ImportCampaignAudience(b) \/ RetryCampaignAudienceBatch(b)
           \/ \E t \in Targets : Deliver(t) \/ ReplayDLQWithNote(t)
           \/ UNCHANGED vars
  <2> HIDE DEF RunsApproved, OnlyApproved
  <2> QED
    BY <1>1, <1>u DEF CreateFlashSale, PauseCampaign, ResumeCampaign, CancelCampaign, Expire,
                      ImportCampaignAudience, RetryCampaignAudienceBatch, Deliver, ReplayDLQWithNote, vars
<1>2. CASE \E w \in Workers :
              \/ ClaimCampaignAudienceBatches(w) \/ GetCampaign(w) \/ ListCampaignAudienceTargetsByBatch(w)
              \/ FinishBatch(w) \/ GeneratorCrash(w)
              \/ \E t \in Targets : \/ MarkCampaignAudienceTargetExpired(w, t)
                                    \/ CreateTargetNotification(w, t)
                                    \/ MarkCampaignAudienceTargetFailed(w, t)
  <2> HIDE DEF RunsApproved, OnlyApproved
  <2> QED
    BY <1>2, <1>u DEF ClaimCampaignAudienceBatches, GetCampaign, ListCampaignAudienceTargetsByBatch,
                      FinishBatch, GeneratorCrash, MarkCampaignAudienceTargetExpired,
                      CreateTargetNotification, MarkCampaignAudienceTargetFailed
<1>3. CASE Decide
  BY <1>3 DEF Decide, UpdateReplayApprovalStatus
<1>4. ASSUME NEW o \in Operators, Bulk(o) PROVE RunsApproved' /\ OnlyApproved'
  <2>1. \A p \in Operators : bulk'[p].approved = bulk[p].approved
    BY <1>4 DEF Bulk, TypeOK, Recovery
  <2> QED
    BY <1>4, <2>1 DEF Bulk, MaybeCreateReplayApproval, CreateReplayApprovalRequest
<1>5. ASSUME NEW o \in Operators, ExecuteReplayApprovalRequest(o) PROVE RunsApproved' /\ OnlyApproved'
  BY <1>5 DEF ExecuteReplayApprovalRequest
<1>6. ASSUME NEW o \in Operators, ListDLQFiltered(o) PROVE RunsApproved' /\ OnlyApproved'
  <2>1. \A p \in Operators : bulk'[p].approved = bulk[p].approved
    BY <1>6 DEF ListDLQFiltered, TypeOK, Recovery
  <2> QED
    BY <1>6, <2>1 DEF ListDLQFiltered
<1>7. ASSUME NEW o \in Operators, NEW t \in Targets, BulkItem(o, t) PROVE RunsApproved' /\ OnlyApproved'
  <2>1. \A p \in Operators : bulk'[p].approved = bulk[p].approved
    BY <1>7 DEF BulkItem, TypeOK, Recovery
  <2> QED
    BY <1>7, <2>1 DEF BulkItem
<1>8. ASSUME NEW o \in Operators, BulkEnd(o) PROVE RunsApproved' /\ OnlyApproved'
  <2>1. \A p \in Operators : bulk'[p].approved => bulk[p].approved
    BY <1>8 DEF BulkEnd, TypeOK, NoBulk
  <2> QED
    BY <1>8, <2>1 DEF BulkEnd
<1> QED
  BY <1>1, <1>2, <1>3, <1>4, <1>5, <1>6, <1>7, <1>8 DEF Next

-----------------------------------------------------------------------------

LEMMA Initially == Init => IInv
<1> SUFFICES ASSUME Init PROVE IInv
  OBVIOUS
<1> USE DEF Init
<1>1. TypeOK
  BY DEF TypeOK, BatchRow, Work, Recovery, Idle, NoBulk
<1>2. Generation
  BY DEF Generation, NotImported, InHand, OnePerTarget, Of
<1>3. Completion
  BY DEF Completion, OwnerHasAll, CompletedIsEmpty, Owns
<1>4. Counting
  <2>1. \A b \in Batches : batch[b].ok = 0 /\ Cardinality({t \in Of(b) : target[t] = "created"}) \in Nat
    BY OfFinite
  <2> QED
    BY <2>1 DEF Counting, OwnerCounts, CountedIsMade, Owns
<1>5. Approval
  BY DEF Approval, RunsApproved, OnlyApproved, NoBulk
<1> QED
  BY <1>1, <1>2, <1>3, <1>4, <1>5 DEF IInv

LEMMA Inductive == IInv /\ [Next]_vars => IInv'
<1> SUFFICES ASSUME IInv, [Next]_vars PROVE IInv'
  OBVIOUS
<1>1. TypeOK /\ InHand /\ NotImported /\ Generation /\ Completion /\ Counting /\ Approval
  BY DEF IInv, Generation
<1>2. Does
  BY <1>1, StepDoes
<1> QED
  BY <1>1, <1>2, TypeStep, GenerationStep, CompletionStep, CountingStep, ApprovalStep DEF IInv

\* The inductive invariant holds in every reachable state.
THEOREM Invariance == Spec => []IInv
<1>1. Init => IInv
  BY Initially
<1>2. IInv /\ [Next]_vars => IInv'
  BY Inductive
<1> QED
  BY <1>1, <1>2, PTL DEF Spec

\* Every variable keeps its type.
THEOREM Typed == Spec => []TypeOK
<1>1. IInv => TypeOK
  BY DEF IInv
<1> QED
  BY <1>1, Invariance, PTL

\* A user of the audience gets one notification, however many generators
\* claim, retry and abandon the batch, wherever they crash, and whichever
\* answers of the database are lost.
THEOREM OneNotification == Spec => []OnePerTarget
<1>1. IInv => OnePerTarget
  BY DEF IInv, Generation
<1> QED
  BY <1>1, Invariance, PTL

\* A completed batch has no pending target, for any page size.
THEOREM CompletedBatches == Spec => []CompletedIsEmpty
<1>1. IInv => CompletedIsEmpty
  BY DEF IInv, Completion
<1> QED
  BY <1>1, Invariance, PTL

\* The success counter of a batch never exceeds the notifications written
\* for its targets, whoever was overtaken in between.
THEOREM Counters == Spec => []CountedIsMade
<1>1. IInv => CountedIsMade
  BY DEF IInv, Counting
<1> QED
  BY <1>1, Invariance, PTL

\* What an approval request changed was changed under a standing approval.
THEOREM Approvals == Spec => []OnlyApproved
<1>1. IInv => OnlyApproved
  BY DEF IInv, Approval
<1> QED
  BY <1>1, Invariance, PTL

=============================================================================
