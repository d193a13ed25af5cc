---------------------------- MODULE OrdersProofs ----------------------------
(***************************************************************************)
(* Proofs that the order operations keep their promises for any requests,  *)
(* keys and orders, whatever interleaves and fails; in the second part,    *)
(* that the chat does for any conversations, groups and users; and in the  *)
(* third, that the delivery worker, which takes to the gateways what both  *)
(* of them notify, does for any messages, gateways and faults.             *)
(***************************************************************************)
EXTENDS Orders, Chat, Job, FiniteSetTheorems, TLAPS

\* The stored key is the fence: the row of idempotency_keys names the request
\* whose notification was written, and nobody else with that key wrote one.
Fenced ==
    /\ \A r \in Requests : Key[r] # NoKey /\ r \in Written => keys[Slot(r)] = r
    /\ \A s \in Slots : keys[s] # NoRequest => keys[s] \in Written

\* Whoever has committed, or was answered, is backed by the tables.
AnswersBacked ==
    /\ \A r \in Requests : at[r] = "written" => r \in Written
    /\ \A r \in Requests : at[r] = "done" /\ Key[r] # NoKey =>
          answer[r] = keys[Slot(r)] /\ keys[Slot(r)] # NoRequest

\* What a status change decided on is a legal step, and an order that is
\* still to be created has no status and no events.
Decided == \A r \in Requests : at[r] = "read" => ValidTransition(seen[r], NewStatus[r])
Uncreated ==
    /\ \A r \in Requests : Creates(r) /\ at[r] \in {"new", "looked"} => status[r] = "none"
    /\ \A i \in 1..Len(events) : status[events[i].order] # "none"

IInv == TypeOK /\ Fenced /\ AnswersBacked /\ Decided /\ Uncreated /\ History

-----------------------------------------------------------------------------
(* Facts the steps share *)

LEMMA SlotType == ASSUME NEW r \in Requests PROVE Slot(r) \in Slots
BY OrdersAssumption DEF OrdersAssumption, Slot, Slots

LEMMA KeyType ==
    ASSUME TypeOK, NEW r \in Requests, Found(r)
    PROVE  keys[Slot(r)] \in Requests
BY SlotType DEF TypeOK, Found

LEMMA ElementType == ASSUME NEW S, NEW s \in Seq(S), NEW i \in 1..Len(s) PROVE s[i] \in S
OBVIOUS

LEMMA EventType == ASSUME TypeOK, NEW i \in 1..Len(events) PROVE events[i].order \in Orders
<1>1. events[i] \in [order : Orders, from : Statuses \cup {"none"}, to : Statuses, by : Requests]
  BY ElementType DEF TypeOK
<1> QED
  BY <1>1

\* Every variable keeps its type.
LEMMA TypeStep == TypeOK /\ [Next]_vars => TypeOK'
<1> USE OrdersAssumption DEF OrdersAssumption
<1> SUFFICES ASSUME TypeOK, [Next]_vars PROVE TypeOK'
  OBVIOUS
<1>s. ASSUME NEW r \in Requests PROVE Slot(r) \in Slots /\ Target[r] \in Orders
  BY SlotType
<1>c. ASSUME NEW r \in Requests, Creates(r) PROVE r \in Orders
  BY <1>c DEF Orders
<1>k. ASSUME NEW r \in Requests, SaveIdempotencyTx(r)
      PROVE  keys' \in [Slots -> Requests \cup {NoRequest}]
  BY <1>k, <1>s DEF SaveIdempotencyTx, TypeOK
<1>n. ASSUME NEW r \in Requests
      PROVE  CreateNotification(r) \cup BuildPurchaseNotification(r)
                \subseteq [request : Requests, user : {"user", "buyer", "merchant"}]
  BY DEF CreateNotification, BuildPurchaseNotification
<1>1. ASSUME NEW r \in Requests, LoadIdempotency(r) PROVE TypeOK'
  BY <1>1, KeyType DEF LoadIdempotency, Refuse, Reply, Goto, TypeOK, tables, local
<1>2. ASSUME NEW r \in Requests, Reject(r) PROVE TypeOK'
  BY <1>2 DEF Reject, Refuse, Goto, TypeOK, tables, local
<1>3. ASSUME NEW r \in Requests, GetOrder(r) PROVE TypeOK'
  BY <1>3, <1>s DEF GetOrder, Refuse, Goto, TypeOK, tables
<1>4. ASSUME NEW r \in Requests, CreateOrder(r) PROVE TypeOK'
  <2>1. /\ r \in Orders
        /\ status' = [status EXCEPT ![r] = "created"]
        /\ rows' = rows \cup CreateNotification(r)
        /\ UNCHANGED <<events, seen, tries, answer, counted>>
    BY <1>4, <1>c DEF CreateOrder, CreateOrderNotificationOutbox, InsertOrderTx,
                      InsertNotificationTx, local, Creates
  <2>2. at' = [at EXCEPT ![r] = "written"] \/ at' = [at EXCEPT ![r] = "error"]
    BY <1>4 DEF CreateOrder, Committed, Goto
  <2>3. keys' \in [Slots -> Requests \cup {NoRequest}]
    BY <1>4, <1>k DEF CreateOrder, CreateOrderNotificationOutbox
  <2> QED
    BY <2>1, <2>2, <2>3, <1>n DEF TypeOK, Statuses
<1>5. ASSUME NEW r \in Requests, CreatePurchaseOrder(r) PROVE TypeOK'
  <2>1. /\ r \in Orders
        /\ status' = [status EXCEPT ![r] = "created"]
        /\ events' = Append(events, [order |-> r, from |-> "none", to |-> "created", by |-> r])
        /\ rows' = rows \cup BuildPurchaseNotification(r)
        /\ UNCHANGED <<seen, tries, answer, counted>>
    BY <1>5, <1>c DEF CreatePurchaseOrder, CreatePurchaseOrderNotificationOutbox, InsertOrderTx,
                      InsertEventTx, InsertNotificationTx, local, Creates
  <2>2. at' = [at EXCEPT ![r] = "written"] \/ at' = [at EXCEPT ![r] = "error"]
    BY <1>5 DEF CreatePurchaseOrder, Committed, Goto
  <2>3. keys' \in [Slots -> Requests \cup {NoRequest}]
    BY <1>5, <1>k DEF CreatePurchaseOrder, CreatePurchaseOrderNotificationOutbox
  <2>4. [order |-> r, from |-> "none", to |-> "created", by |-> r]
           \in [order : Orders, from : Statuses \cup {"none"}, to : Statuses, by : Requests]
    BY <2>1 DEF Statuses
  <2>5. events' \in Seq([order : Orders, from : Statuses \cup {"none"}, to : Statuses, by : Requests])
    BY <2>1, <2>4 DEF TypeOK
  <2> QED
    BY <2>1, <2>2, <2>3, <2>5, <1>n DEF TypeOK, Statuses
<1>6. ASSUME NEW r \in Requests, ChangeOrderStatus(r) PROVE TypeOK'
  <2>1. /\ status' = [status EXCEPT ![Target[r]] = NewStatus[r]]
        /\ events' = Append(events, [order |-> Target[r], from |-> seen[r], to |-> NewStatus[r], by |-> r])
        /\ rows' = rows \cup CreateNotification(r)
        /\ UNCHANGED <<seen, tries, answer, counted>>
    BY <1>6 DEF ChangeOrderStatus, ChangeOrderNotificationOutbox, InsertEventTx,
                InsertNotificationTx, local
  <2>2. at' = [at EXCEPT ![r] = "written"] \/ at' = [at EXCEPT ![r] = "error"]
    BY <1>6 DEF ChangeOrderStatus, Committed, Goto
  <2>3. keys' \in [Slots -> Requests \cup {NoRequest}]
    BY <1>6, <1>k DEF ChangeOrderStatus, ChangeOrderNotificationOutbox
  <2>4. [order |-> Target[r], from |-> seen[r], to |-> NewStatus[r], by |-> r]
           \in [order : Orders, from : Statuses \cup {"none"}, to : Statuses, by : Requests]
    BY <1>s DEF TypeOK
  <2>5. events' \in Seq([order : Orders, from : Statuses \cup {"none"}, to : Statuses, by : Requests])
    BY <2>1, <2>4 DEF TypeOK
  <2> QED
    BY <2>1, <2>2, <2>3, <2>5, <1>n, <1>s DEF TypeOK
<1>7. ASSUME NEW r \in Requests, SendCustomNotification(r) PROVE TypeOK'
  <2>1. /\ rows' = rows \cup CreateNotification(r)
        /\ UNCHANGED <<status, events, seen, tries, answer, counted>>
    BY <1>7 DEF SendCustomNotification, CreateNotificationOutbox, InsertNotificationTx, local
  <2>2. at' = [at EXCEPT ![r] = "written"] \/ at' = [at EXCEPT ![r] = "error"]
    BY <1>7 DEF SendCustomNotification, Committed, Goto
  <2>3. keys' \in [Slots -> Requests \cup {NoRequest}]
    BY <1>7, <1>k DEF SendCustomNotification, CreateNotificationOutbox
  <2> QED
    BY <2>1, <2>2, <2>3, <1>n DEF TypeOK
<1>8. ASSUME NEW r \in Requests, Conflict(r) PROVE TypeOK'
  BY <1>8 DEF Conflict, Goto, TypeOK, tables, local
<1>9. ASSUME NEW r \in Requests, Reload(r) PROVE TypeOK'
  <2>1. CASE Found(r) /\ Reply(r, keys[Slot(r)]) /\ UNCHANGED tries
    BY <1>9, <2>1, KeyType DEF Reload, Reply, Goto, TypeOK, tables
  <2>2. CASE tries' = [tries EXCEPT ![r] = @ + 1] /\ UNCHANGED <<at, answer>>
    BY <1>9, <2>2 DEF Reload, TypeOK, tables
  <2>3. CASE Goto(r, "recheck") /\ UNCHANGED <<tries, answer>>
    BY <1>9, <2>3 DEF Reload, Goto, TypeOK, tables
  <2> QED
    BY <1>9, <2>1, <2>2, <2>3 DEF Reload
<1>10. ASSUME NEW r \in Requests, Recheck(r) PROVE TypeOK'
  BY <1>10 DEF Recheck, Refuse, Goto, TypeOK, tables, local
<1>11. ASSUME NEW r \in Requests, Count(r) PROVE TypeOK'
  BY <1>11 DEF Count, Reply, Goto, TypeOK, tables, local
<1>12. ASSUME NEW r \in Requests, Fail(r) PROVE TypeOK'
  BY <1>12 DEF Fail, Goto, TypeOK, tables, local
<1>13. CASE UNCHANGED vars
  BY <1>13 DEF vars, TypeOK
<1> QED
  BY <1>1, <1>2, <1>3, <1>4, <1>5, <1>6, <1>7, <1>8, <1>9, <1>10, <1>11, <1>12, <1>13 DEF Next

-----------------------------------------------------------------------------
(* Effects and answers *)

\* What every transaction of the store does to keys and notifications.
Writes(r) ==
    /\ at[r] \in {"looked", "read"}
    /\ SaveIdempotencyTx(r)
    /\ Written' = Written \cup {r}
    /\ Committed(r)
    /\ UNCHANGED answer

\* What a request does between its transactions: it may be answered with
\* what the key holds.
Reads(r) ==
    /\ UNCHANGED <<rows, keys>>
    /\ \A q \in Requests \ {r} : at'[q] = at[q] /\ answer'[q] = answer[q]
    /\ at'[r] = "written" => at[r] = "written"
    /\ at'[r] = "done" =>
          \/ at[r] = "done" /\ answer'[r] = answer[r]
          \/ Found(r) /\ answer'[r] = keys[Slot(r)]
          \/ at[r] = "written" /\ answer'[r] = r

LEMMA WrittenGrows ==
    ASSUME NEW r \in Requests, NEW N, N # {}, \A n \in N : n.request = r,
           rows' = rows \cup N
    PROVE  Written' = Written \cup {r}
BY DEF Written

\* The four operations that write are transactions, all others only read.
LEMMA WritesOrReads ==
    ASSUME TypeOK, NEW r \in Requests,
           \/ LoadIdempotency(r) \/ Reject(r) \/ GetOrder(r)
           \/ CreateOrder(r) \/ CreatePurchaseOrder(r) \/ ChangeOrderStatus(r)
           \/ SendCustomNotification(r)
           \/ Conflict(r) \/ Reload(r) \/ Recheck(r) \/ Count(r) \/ Fail(r)
    PROVE  Writes(r) \/ Reads(r)
<1>b. [request |-> r, user |-> "buyer"] \in BuildPurchaseNotification(r)
  BY DEF BuildPurchaseNotification
<1>c. CreateNotification(r) # {} /\ \A n \in CreateNotification(r) : n.request = r
  BY DEF CreateNotification
<1>d. \A n \in BuildPurchaseNotification(r) : n.request = r
  BY DEF BuildPurchaseNotification
<1>n. /\ CreateNotification(r) # {} /\ \A n \in CreateNotification(r) : n.request = r
      /\ BuildPurchaseNotification(r) # {} /\ \A n \in BuildPurchaseNotification(r) : n.request = r
  BY <1>b, <1>c, <1>d
<1>1. CASE LoadIdempotency(r)
  BY <1>1 DEF LoadIdempotency, Refuse, Reply, Goto, TypeOK, Reads, tables
<1>2. CASE Reject(r)
  BY <1>2 DEF Reject, Refuse, Goto, TypeOK, Reads, tables
<1>3. CASE GetOrder(r)
  BY <1>3 DEF GetOrder, Refuse, Goto, TypeOK, Reads, tables
<1>4. CASE CreateOrder(r)
  BY <1>4, <1>n, WrittenGrows DEF CreateOrder, CreateOrderNotificationOutbox, InsertNotificationTx, Writes
<1>5. CASE CreatePurchaseOrder(r)
  BY <1>5, <1>n, WrittenGrows DEF CreatePurchaseOrder, CreatePurchaseOrderNotificationOutbox,
                                  InsertNotificationTx, Writes
<1>6. CASE ChangeOrderStatus(r)
  BY <1>6, <1>n, WrittenGrows DEF ChangeOrderStatus, ChangeOrderNotificationOutbox,
                                  InsertNotificationTx, Writes
<1>7. CASE SendCustomNotification(r)
  BY <1>7, <1>n, WrittenGrows DEF SendCustomNotification, CreateNotificationOutbox,
                                  InsertNotificationTx, Writes
<1>8. CASE Conflict(r)
  BY <1>8 DEF Conflict, Goto, TypeOK, Reads, tables
<1>9. CASE Reload(r)
  BY <1>9 DEF Reload, Reply, Goto, TypeOK, Reads, tables
<1>10. CASE Recheck(r)
  BY <1>10 DEF Recheck, Refuse, Goto, TypeOK, Reads, tables
<1>11. CASE Count(r)
  BY <1>11 DEF Count, Reply, Goto, TypeOK, Reads, tables
<1>12. CASE Fail(r)
  BY <1>12 DEF Fail, Goto, TypeOK, Reads, tables
<1> QED
  BY <1>1, <1>2, <1>3, <1>4, <1>5, <1>6, <1>7, <1>8, <1>9, <1>10, <1>11, <1>12

\* The key of a request changes only from free to the request that writes,
\* in the transaction that writes its notification.
LEMMA FencedStep ==
    TypeOK /\ Fenced /\ AnswersBacked /\ [Next]_vars => Fenced' /\ AnswersBacked'
<1> USE OrdersAssumption DEF OrdersAssumption
<1> SUFFICES ASSUME TypeOK, Fenced, AnswersBacked, [Next]_vars PROVE Fenced' /\ AnswersBacked'
  OBVIOUS
<1>1. ASSUME NEW r \in Requests, Writes(r) PROVE Fenced' /\ AnswersBacked'
  <2>1. Slot(r) \in Slots /\ \A q \in Requests : Slot(q) \in Slots
    BY SlotType
  <2>2. \/ Key[r] = NoKey /\ keys' = keys
        \/ Key[r] # NoKey /\ keys[Slot(r)] = NoRequest /\ keys' = [keys EXCEPT ![Slot(r)] = r]
    BY <1>1 DEF Writes, SaveIdempotencyTx
  <2>3. Written' = Written \cup {r} /\ answer' = answer
    BY <1>1 DEF Writes
  <2>4. \A q \in Requests : Key[q] # NoKey /\ q \in Written /\ q # r => keys'[Slot(q)] = q
    BY <2>1, <2>2 DEF Fenced, TypeOK
  <2>5. Key[r] # NoKey => keys'[Slot(r)] = r
    BY <2>1, <2>2 DEF TypeOK
  <2>6. \A s \in Slots : keys'[s] = keys[s] \/ keys'[s] = r
    BY <2>1, <2>2 DEF TypeOK
  <2>7. Fenced'
    BY <2>3, <2>4, <2>5, <2>6 DEF Fenced, Slot
  <2>8. \A q \in Requests : /\ at'[q] = "done" => q # r /\ at[q] = "done"
                            /\ at'[q] = "written" => q = r \/ at[q] = "written"
    BY <1>1 DEF Writes, Committed, Goto, TypeOK
  <2>9. \A s \in Slots : keys[s] # NoRequest => keys'[s] = keys[s]
    BY <2>1, <2>2 DEF TypeOK
  <2> QED
    BY <2>1, <2>3, <2>7, <2>8, <2>9 DEF AnswersBacked, Slot
<1>2. ASSUME NEW r \in Requests, Reads(r) PROVE Fenced' /\ AnswersBacked'
  BY <1>2, SlotType DEF Reads, Fenced, AnswersBacked, Found, Written, Slot
<1>3. CASE UNCHANGED vars
  BY <1>3 DEF vars, Fenced, AnswersBacked, Written, Slot
<1> QED
  BY <1>1, <1>2, <1>3, WritesOrReads DEF Next

-----------------------------------------------------------------------------
(* The history of an order *)

\* What the steps of a request do to orders and their events: nothing, the
\* creation of its order with or without an event, or a change of status on
\* which it had decided.
Inserts(r) ==
    /\ status[r] = "none" /\ r \in Orders
    /\ status' = [status EXCEPT ![r] = "created"]
    /\ \/ UNCHANGED events
       \/ events' = Append(events, [order |-> r, from |-> "none", to |-> "created", by |-> r])
Changes(r) ==
    /\ status[Target[r]] = seen[r] /\ ValidTransition(seen[r], NewStatus[r])
    /\ status' = [status EXCEPT ![Target[r]] = NewStatus[r]]
    /\ events' = Append(events, [order |-> Target[r], from |-> seen[r], to |-> NewStatus[r], by |-> r])

LEMMA InsertsOrChanges ==
    ASSUME TypeOK, Decided, Uncreated, NEW r \in Requests,
           \/ LoadIdempotency(r) \/ Reject(r) \/ GetOrder(r)
           \/ CreateOrder(r) \/ CreatePurchaseOrder(r) \/ ChangeOrderStatus(r)
           \/ SendCustomNotification(r)
           \/ Conflict(r) \/ Reload(r) \/ Recheck(r) \/ Count(r) \/ Fail(r)
    PROVE  Inserts(r) \/ Changes(r) \/ UNCHANGED <<status, events>>
<1>1. CASE LoadIdempotency(r) \/ Reject(r) \/ GetOrder(r) \/ Conflict(r) \/ Reload(r)
           \/ Recheck(r) \/ Count(r) \/ Fail(r)
  BY <1>1 DEF LoadIdempotency, Reject, GetOrder, Conflict, Reload, Recheck, Count, Fail, tables
<1>2. CASE SendCustomNotification(r)
  BY <1>2 DEF SendCustomNotification, CreateNotificationOutbox
<1>3. CASE CreateOrder(r)
  BY <1>3 DEF CreateOrder, CreateOrderNotificationOutbox, InsertOrderTx, Creates, Orders,
              Uncreated, Inserts
<1>4. CASE CreatePurchaseOrder(r)
  BY <1>4 DEF CreatePurchaseOrder, CreatePurchaseOrderNotificationOutbox, InsertOrderTx,
              InsertEventTx, Creates, Orders, Uncreated, Inserts
<1>5. CASE ChangeOrderStatus(r)
  BY <1>5 DEF ChangeOrderStatus, ChangeOrderNotificationOutbox, InsertEventTx, Decided, Changes
<1> QED
  BY <1>1, <1>2, <1>3, <1>4, <1>5

\* An event that starts at its order's status and ends at the new one
\* continues the history of the order and leaves all others alone.
LEMMA HistoryGrows ==
    ASSUME TypeOK, History, NEW e \in [order : Orders, from : Statuses \cup {"none"}, to : Statuses, by : Requests],
           e.from = status[e.order],
           e.from = "none" \/ ValidTransition(e.from, e.to),
           events' = Append(events, e),
           status' = [status EXCEPT ![e.order] = e.to]
    PROVE  History'
<1> DEFINE n == Len(events)
<1>0. \A i \in 1..n : events[i].order \in Orders
  BY EventType
<1>a. ASSUME NEW S, NEW s \in Seq(S), NEW x \in S
      PROVE  /\ Len(s) \in Nat /\ Len(Append(s, x)) = Len(s) + 1 /\ Append(s, x)[Len(s) + 1] = x
             /\ \A i \in 1..Len(s) : Append(s, x)[i] = s[i]
  OBVIOUS
<1>1. /\ n \in Nat /\ Len(events') = n + 1 /\ events'[n + 1] = e
      /\ \A i \in 1..n : events'[i] = events[i] /\ events[i].order \in Orders
  BY <1>0, <1>a DEF TypeOK
<1>2. \A o \in Orders : status'[o] = IF o = e.order THEN e.to ELSE status[o]
  BY DEF TypeOK
<1>3. ASSUME NEW i \in 1..n + 1
      PROVE  events'[i].from = "none" \/ ValidTransition(events'[i].from, events'[i].to)
  BY <1>1, <1>3 DEF History, LegalSteps
<1>4. ASSUME NEW i \in 1..n + 1, NEW j \in 1..n + 1, i < j,
             events'[i].order = events'[j].order,
             \A k \in i + 1..j - 1 : events'[i].order # events'[k].order
      PROVE  events'[i].to = events'[j].from
  <2>1. CASE j <= n
    <3>1. \A k \in i + 1..j - 1 : ~SameOrder(i, k)
      BY <1>1, <1>4, <2>1 DEF SameOrder
    <3>2. i \in 1..n /\ j \in 1..n /\ SameOrder(i, j)
      BY <1>1, <1>4, <2>1 DEF SameOrder
    <3>3. events[i].to = events[j].from
      BY <1>4, <3>1, <3>2 DEF History, NoGaps
    <3> QED
      BY <1>1, <3>2, <3>3
  <2>2. CASE j = n + 1
    <3>1. i \in 1..n /\ \A k \in i + 1..n : ~SameOrder(i, k)
      BY <1>1, <1>4, <2>2 DEF SameOrder
    <3>2. events[i].to = status[events[i].order]
      BY <3>1 DEF History, LastIsCurrent
    <3> QED
      BY <1>1, <1>4, <2>2, <3>1, <3>2
  <2> QED
    BY <1>1, <2>1, <2>2
<1>5. ASSUME NEW i \in 1..n + 1,
             \A k \in i + 1..n + 1 : events'[i].order # events'[k].order
      PROVE  events'[i].to = status'[events'[i].order]
  <2>1. CASE i = n + 1
    BY <1>1, <1>2, <2>1
  <2>2. CASE i \in 1..n
    <3>1. \A k \in i + 1..n : ~SameOrder(i, k)
      BY <1>1, <1>5, <2>2 DEF SameOrder
    <3>2. events[i].order # e.order
      BY <1>1, <1>5, <2>2
    <3> QED
      BY <1>1, <1>2, <2>2, <3>1, <3>2 DEF History, LastIsCurrent
  <2> QED
    BY <1>1, <2>1, <2>2
<1>n. Len(events') = n + 1
  BY <1>1
<1> HIDE DEF n
<1>6. LegalSteps'
  BY <1>n, <1>3 DEF LegalSteps
<1>7. NoGaps'
  <2> SUFFICES ASSUME NEW i \in 1..n + 1, NEW j \in 1..n + 1, i < j, SameOrder(i, j)',
                      \A k \in i + 1..j - 1 : ~SameOrder(i, k)'
               PROVE  events'[i].to = events'[j].from
    BY <1>n DEF NoGaps
  <2>1. events'[i].order = events'[j].order
    BY DEF SameOrder
  <2>2. \A k \in i + 1..j - 1 : events'[i].order # events'[k].order
    BY DEF SameOrder
  <2> QED
    BY <2>1, <2>2, <1>4
<1>8. LastIsCurrent'
  BY <1>n, <1>5 DEF LastIsCurrent, SameOrder
<1> QED
  BY <1>6, <1>7, <1>8 DEF History

\* No step tears the history of an order.
LEMMA HistoryStep ==
    TypeOK /\ Decided /\ Uncreated /\ History /\ [Next]_vars => History'
<1> USE OrdersAssumption DEF OrdersAssumption
<1> SUFFICES ASSUME TypeOK, Decided, Uncreated, History, [Next]_vars PROVE History'
  OBVIOUS
<1>e. ASSUME NEW i \in 1..Len(events) PROVE events[i].order \in Orders
  BY EventType
<1>1. ASSUME NEW r \in Requests, Inserts(r) PROVE History'
  <2>1. CASE UNCHANGED events
    <3>1. \A i \in 1..Len(events) : status'[events[i].order] = status[events[i].order]
      BY <1>1, <1>e DEF Inserts, Uncreated, TypeOK
    <3>2. LegalSteps' /\ NoGaps'
      BY <2>1 DEF History, LegalSteps, NoGaps, SameOrder
    <3>3. LastIsCurrent'
      BY <2>1, <3>1 DEF History, LastIsCurrent, SameOrder
    <3> QED
      BY <3>2, <3>3 DEF History
  <2>2. CASE events' = Append(events, [order |-> r, from |-> "none", to |-> "created", by |-> r])
    BY <1>1, <2>2, HistoryGrows DEF Inserts, Statuses
  <2> QED
    BY <1>1, <2>1, <2>2 DEF Inserts
<1>2. ASSUME NEW r \in Requests, Changes(r) PROVE History'
  <2> DEFINE e == [order |-> Target[r], from |-> seen[r], to |-> NewStatus[r], by |-> r]
  <2>1. e \in [order : Orders, from : Statuses \cup {"none"}, to : Statuses, by : Requests]
    BY DEF TypeOK
  <2> QED
    BY <1>2, <2>1, HistoryGrows DEF Changes
<1>3. CASE UNCHANGED <<status, events>>
  BY <1>3 DEF History, LegalSteps, NoGaps, LastIsCurrent, SameOrder
<1> QED
  BY <1>1, <1>2, <1>3, InsertsOrChanges DEF Next, vars

\* A request decides on a legal step only, and creates its order once.
LEMMA DecidedStep ==
    TypeOK /\ Decided /\ Uncreated /\ [Next]_vars => Decided' /\ Uncreated'
<1> USE OrdersAssumption DEF OrdersAssumption
<1> SUFFICES ASSUME TypeOK, Decided, Uncreated, [Next]_vars PROVE Decided' /\ Uncreated'
  OBVIOUS
<1>e. ASSUME NEW i \in 1..Len(events) PROVE events[i].order \in Orders
  BY EventType
<1>u. ASSUME NEW r \in Requests, UNCHANGED <<status, events, seen>>,
             \A q \in Requests : /\ at'[q] = "read" => at[q] = "read"
                                 /\ at'[q] \in {"new", "looked"} => at[q] \in {"new", "looked"}
      PROVE  Decided' /\ Uncreated'
  BY <1>u DEF Decided, Uncreated
<1>1. ASSUME NEW r \in Requests, LoadIdempotency(r) PROVE Decided' /\ Uncreated'
  BY <1>1, <1>u DEF LoadIdempotency, Refuse, Reply, Goto, TypeOK, tables, local
<1>2. ASSUME NEW r \in Requests, Reject(r) PROVE Decided' /\ Uncreated'
  BY <1>2, <1>u DEF Reject, Refuse, Goto, TypeOK, tables, local
<1>3. ASSUME NEW r \in Requests, GetOrder(r) PROVE Decided' /\ Uncreated'
  <2>1. Uncreated'
    BY <1>3 DEF GetOrder, Refuse, Goto, TypeOK, tables, Uncreated
  <2>2. Decided'
    BY <1>3 DEF GetOrder, Refuse, Goto, TypeOK, tables, Decided
  <2> QED
    BY <2>1, <2>2
<1>4. ASSUME NEW r \in Requests, Inserts(r), UNCHANGED seen,
             Committed(r)
      PROVE  Decided' /\ Uncreated'
  <2>1. \A q \in Requests \ {r} : at'[q] = at[q]
    BY <1>4 DEF Committed, Goto, TypeOK
  <2>2. at'[r] \in {"written", "error"}
    BY <1>4 DEF Committed, Goto, TypeOK
  <2>3. \A o \in Orders : status'[o] = IF o = r THEN "created" ELSE status[o]
    BY <1>4 DEF Inserts, TypeOK
  <2>4. Decided'
    BY <1>4, <2>1, <2>2 DEF Decided
  <2>5. \A q \in Requests : Creates(q) => q \in Orders
    BY DEF Orders
  <2>6. \A i \in 1..Len(events') : status'[events'[i].order] # "none"
    <3>1. CASE UNCHANGED events
      BY <3>1, <2>3, <1>e DEF Uncreated
    <3>2. CASE events' = Append(events, [order |-> r, from |-> "none", to |-> "created", by |-> r])
      BY <1>4, <3>2, <2>3, <1>e DEF Uncreated, TypeOK, Inserts
    <3> QED
      BY <1>4, <3>1, <3>2 DEF Inserts
  <2> QED
    BY <2>1, <2>2, <2>3, <2>4, <2>5, <2>6 DEF Uncreated
<1>5. ASSUME NEW r \in Requests, CreateOrder(r) PROVE Decided' /\ Uncreated'
  <2>1. Inserts(r)
    BY <1>5 DEF CreateOrder, CreateOrderNotificationOutbox, InsertOrderTx, Creates, Orders,
                Uncreated, Inserts
  <2> QED
    BY <1>4, <1>5, <2>1 DEF CreateOrder, local
<1>6. ASSUME NEW r \in Requests, CreatePurchaseOrder(r) PROVE Decided' /\ Uncreated'
  <2>1. Inserts(r)
    BY <1>6 DEF CreatePurchaseOrder, CreatePurchaseOrderNotificationOutbox, InsertOrderTx,
                InsertEventTx, Creates, Orders, Uncreated, Inserts
  <2> QED
    BY <1>4, <1>6, <2>1 DEF CreatePurchaseOrder, local
<1>7. ASSUME NEW r \in Requests, ChangeOrderStatus(r) PROVE Decided' /\ Uncreated'
  <2>1. \A q \in Requests \ {r} : at'[q] = at[q]
    BY <1>7 DEF ChangeOrderStatus, Committed, Goto, TypeOK
  <2>2. at'[r] \in {"written", "error"} /\ seen' = seen
    BY <1>7 DEF ChangeOrderStatus, Committed, Goto, TypeOK, local
  <2>3. Changes(r)
    BY <1>7 DEF ChangeOrderStatus, ChangeOrderNotificationOutbox, InsertEventTx, Decided, Changes
  <2>4. seen[r] # "none" /\ NewStatus[r] # "none"
    BY <2>3 DEF Changes, ValidTransition, orderTransitions, Statuses
  <2>5. \A o \in Orders : status'[o] = IF o = Target[r] THEN NewStatus[r] ELSE status[o]
    BY <2>3 DEF Changes, TypeOK
  <2>6. \A q \in Requests : Creates(q) => q \in Orders
    BY DEF Orders
  <2>7. \A i \in 1..Len(events') : status'[events'[i].order] # "none"
    BY <2>3, <2>4, <2>5, <1>e DEF Changes, Uncreated, TypeOK
  <2> QED
    BY <2>1, <2>2, <2>3, <2>4, <2>5, <2>6, <2>7 DEF Decided, Uncreated, Changes
<1>8. ASSUME NEW r \in Requests, SendCustomNotification(r) PROVE Decided' /\ Uncreated'
  BY <1>8, <1>u DEF SendCustomNotification, CreateNotificationOutbox, Committed, Goto, TypeOK, local
<1>9. ASSUME NEW r \in Requests, Conflict(r) PROVE Decided' /\ Uncreated'
  BY <1>9, <1>u DEF Conflict, Goto, TypeOK, tables, local
<1>10. ASSUME NEW r \in Requests, Reload(r) PROVE Decided' /\ Uncreated'
  BY <1>10, <1>u DEF Reload, Reply, Goto, TypeOK, tables
<1>11. ASSUME NEW r \in Requests, Recheck(r) PROVE Decided' /\ Uncreated'
  BY <1>11, <1>u DEF Recheck, Refuse, Goto, TypeOK, tables, local
<1>12. ASSUME NEW r \in Requests, Count(r) PROVE Decided' /\ Uncreated'
  BY <1>12, <1>u DEF Count, Reply, Goto, TypeOK, tables, local
<1>13. ASSUME NEW r \in Requests, Fail(r) PROVE Decided' /\ Uncreated'
  BY <1>13, <1>u DEF Fail, Goto, TypeOK, tables, local
<1>14. CASE UNCHANGED vars
  BY <1>14 DEF vars, Decided, Uncreated
<1> QED
  BY <1>1, <1>2, <1>3, <1>5, <1>6, <1>7, <1>8, <1>9, <1>10, <1>11, <1>12, <1>13, <1>14 DEF Next

-----------------------------------------------------------------------------
(* Theorems *)

LEMMA Initially == Init => IInv
<1> SUFFICES ASSUME Init PROVE IInv
  OBVIOUS
<1>1. /\ \A r \in Requests : at[r] \in {"new", "absent"}
      /\ at \in [Requests -> {"new", "absent"}]
  BY DEF Init
<1>2. rows = {} /\ events = <<>> /\ Written = {}
  BY DEF Init, Written
<1>3. TypeOK
  BY <1>1, <1>2 DEF Init, TypeOK, Statuses
<1>4. Fenced /\ AnswersBacked /\ Decided /\ History
  BY <1>1, <1>2 DEF Init, Fenced, AnswersBacked, Decided, History, LegalSteps, NoGaps, LastIsCurrent
<1>5. Uncreated
  BY <1>1, <1>2, OrdersAssumption DEF OrdersAssumption, Init, Uncreated, Orders
<1> QED
  BY <1>3, <1>4, <1>5 DEF IInv

LEMMA Inductive == IInv /\ [Next]_vars => IInv'
BY TypeStep, FencedStep, HistoryStep, DecidedStep DEF IInv

\* The inductive invariant: stored keys are fences, answers are backed by the
\* tables, decisions are legal and histories whole.
THEOREM Invariance == Spec => []IInv
BY Initially, Inductive, PTL DEF Spec

\* The tables and the requests' state have their types at all times.
THEOREM Typed == Spec => []TypeOK
<1>1. IInv => TypeOK
  BY DEF IInv
<1> QED
  BY Invariance, <1>1, PTL

\* A request that is repeated with its idempotency key, on any servers and in
\* any order, takes effect once and has one answer.
THEOREM Idempotent == Spec => []OneEffect
<1>1. IInv => OneEffect
  BY SlotType DEF IInv, OneEffect, Fenced, AnswersBacked, SameKey, Slot
<1> QED
  BY Invariance, <1>1, PTL

\* The events of every order form one chain of legal transitions that ends at
\* its status.
THEOREM LegalHistory == Spec => []History
<1>1. IInv => History
  BY DEF IInv
<1> QED
  BY Invariance, <1>1, PTL

-----------------------------------------------------------------------------
(* Chat *)

\* A row is the conversation of a pair, or that of a group.
PrivateRow(v) == v.kind = "private" /\ v.customer # 0 /\ \E n \in 1..minted : v.id = <<"CHAT", n>>
RowOf(v, g) == v.id = g.id /\ v.room = g.room /\ v.order = <<"group", g.room>> /\ v.merchant = g.merchant
GroupRow(v) == v.kind = "group" /\ v.customer = 0 /\ \E g \in Groups : RowOf(v, g)

\* Rows are named by their ID and by their pair.
KeysUnique ==
    /\ \A v \in convs : PrivateRow(v) \/ GroupRow(v)
    /\ \A v, w \in convs : v.id = w.id \/ SamePair(v, w) => v = w

\* A request goes on with a conversation that is there, and a message that is.
Backs(q) ==
    /\ q.pc = "join" => \E v \in convs : v.id = q.group.id
    /\ q.pc = "insert" => \E v \in convs : v.id = q.conv /\ CanAccessConversation(v, q.user)
    /\ q.pc \in {"deliver", "status"} => q.msg \in 1..Len(msgs)
RequestsBacked == \A c \in Chatters : Backs(chats[c])

\* What was answered is a row of the pair that asked, or the group's.
AnsweredPair(a) ==
    \E v \in convs : /\ v.kind = "private" /\ SamePair(a.want, v) /\ a.conv = v.id
                     /\ a.users = {v.customer, v.merchant}
AnsweredGroup(a) ==
    \E v \in convs : /\ v.kind = "group" /\ a.conv = v.id /\ v.id = a.want.id
                     /\ \A u \in a.users : <<v.id, u>> \in members
AnswersNamed ==
    \A a \in answers : (a.want \in Pairs /\ AnsweredPair(a)) \/ (a.want \in Groups /\ AnsweredGroup(a))

\* A message is in a conversation that its sender may open; the last message
\* of a conversation is its own.
Owned(m) == \E v \in convs : v.id = msgs[m].conv /\ CanAccessConversation(v, msgs[m].sender)
MessagesOwned ==
    /\ \A m \in 1..Len(msgs) : Owned(m)
    /\ \A v \in convs : v.last # 0 => v.last \in 1..Len(msgs) /\ msgs[v.last].conv = v.id
ReadKept == \A m \in readMarks : msgs[m].deliveredAt /\ msgs[m].readAt

ChatInv ==
    ChatTypeOK /\ KeysUnique /\ RequestsBacked /\ AnswersNamed /\ MembersCounted /\ MessagesOwned /\ ReadKept

\* Conversations are added and get new messages; members are added.
Alike(v, w) ==
    /\ v.id = w.id /\ v.kind = w.kind /\ v.order = w.order /\ v.customer = w.customer
    /\ v.merchant = w.merchant /\ v.room = w.room
Grown == (\A v \in convs : \E w \in convs' : Alike(v, w)) /\ members \subseteq members'

LEMMA TheConversation == ASSUME KeysUnique, NEW v \in convs PROVE Conversation(v.id) = v
BY DEF KeysUnique, Conversation

LEMMA AccessStays ==
    ASSUME NEW v, NEW w, Alike(v, w), members \subseteq members', NEW u, CanAccessConversation(v, u)
    PROVE  CanAccessConversation(w, u)'
BY DEF Alike, CanAccessConversation, IsChatMember

LEMMA AnswersStay ==
    ASSUME Grown, AnswersNamed
    PROVE  \A a \in answers : (a.want \in Pairs /\ AnsweredPair(a)') \/ (a.want \in Groups /\ AnsweredGroup(a)')
<1> SUFFICES ASSUME NEW a \in answers
             PROVE  (a.want \in Pairs /\ AnsweredPair(a)') \/ (a.want \in Groups /\ AnsweredGroup(a)')
  OBVIOUS
<1>1. CASE a.want \in Pairs /\ AnsweredPair(a)
  <2>1. PICK v \in convs : /\ v.kind = "private" /\ SamePair(a.want, v) /\ a.conv = v.id
                           /\ a.users = {v.customer, v.merchant}
    BY <1>1 DEF AnsweredPair
  <2>2. PICK w \in convs' : Alike(v, w)
    BY DEF Grown
  <2>3. w.kind = "private" /\ SamePair(a.want, w) /\ a.conv = w.id /\ a.users = {w.customer, w.merchant}
    BY <2>1, <2>2 DEF Alike, SamePair
  <2> QED
    BY <1>1, <2>3 DEF AnsweredPair, SamePair
<1>2. CASE a.want \in Groups /\ AnsweredGroup(a)
  <2>1. PICK v \in convs : /\ v.kind = "group" /\ a.conv = v.id /\ v.id = a.want.id
                           /\ \A u \in a.users : <<v.id, u>> \in members
    BY <1>2 DEF AnsweredGroup
  <2>2. PICK w \in convs' : Alike(v, w)
    BY DEF Grown
  <2>3. w.kind = "group" /\ a.conv = w.id /\ w.id = a.want.id /\ \A u \in a.users : <<w.id, u>> \in members'
    BY <2>1, <2>2 DEF Alike, Grown
  <2> QED
    BY <1>2, <2>3 DEF AnsweredGroup
<1> QED
  BY <1>1, <1>2 DEF AnswersNamed

LEMMA OwnersStay ==
    ASSUME Grown, NEW m, Owned(m), msgs'[m].conv = msgs[m].conv, msgs'[m].sender = msgs[m].sender
    PROVE  Owned(m)'
<1>1. PICK v \in convs : v.id = msgs[m].conv /\ CanAccessConversation(v, msgs[m].sender)
  BY DEF Owned
<1>2. PICK w \in convs' : Alike(v, w)
  BY DEF Grown
<1>3. CanAccessConversation(w, msgs[m].sender)'
  <2>1. ASSUME NEW u, u = msgs[m].sender PROVE CanAccessConversation(w, u)'
    BY <2>1, <1>1, <1>2, AccessStays DEF Grown
  <2> QED
    BY <2>1 DEF CanAccessConversation, IsChatMember
<1>4. w.id = msgs'[m].conv
  BY <1>1, <1>2 DEF Alike
<1>5. w.id = msgs'[m].conv /\ CanAccessConversation(w, msgs[m].sender)' /\ msgs'[m].sender = msgs[m].sender
  BY <1>3, <1>4
<1> QED
  BY <1>5 DEF Owned, CanAccessConversation, IsChatMember

LEMMA RequestStays ==
    ASSUME Grown, Len(msgs) \in Nat, Len(msgs') \in Nat, Len(msgs') >= Len(msgs), NEW q, Backs(q)
    PROVE  Backs(q)'
<1>1. q.pc = "join" => \E w \in convs' : w.id = q.group.id
  BY DEF Grown, Backs, Alike
<1>2. q.pc = "insert" => \E w \in convs' : w.id = q.conv /\ CanAccessConversation(w, q.user)'
  <2> SUFFICES ASSUME q.pc = "insert" PROVE \E w \in convs' : w.id = q.conv /\ CanAccessConversation(w, q.user)'
    OBVIOUS
  <2>1. PICK v \in convs : v.id = q.conv /\ CanAccessConversation(v, q.user)
    BY DEF Backs
  <2>2. PICK w \in convs' : Alike(v, w)
    BY DEF Grown
  <2>3. CanAccessConversation(w, q.user)'
    BY <2>1, <2>2, AccessStays DEF Grown
  <2> QED
    BY <2>1, <2>2, <2>3 DEF Alike
<1>3. q.pc \in {"deliver", "status"} => q.msg \in 1..Len(msgs')
  BY DEF Backs
<1> QED
  BY <1>1, <1>2, <1>3 DEF Backs

LEMMA Served ==
    ASSUME chats \in [Chatters -> ChatStates], RequestsBacked, Grown, Len(msgs) \in Nat, Len(msgs') \in Nat,
           Len(msgs') >= Len(msgs), NEW c \in Chatters, NEW q \in ChatStates, Serve(c, q), Backs(q)'
    PROVE  chats' \in [Chatters -> ChatStates] /\ RequestsBacked'
<1>1. chats' = [chats EXCEPT ![c] = q]
  BY DEF Serve
<1>2. chats' \in [Chatters -> ChatStates] /\ chats'[c] = q /\ \A d \in Chatters : d # c => chats'[d] = chats[d]
  BY <1>1
<1>3. ASSUME NEW d \in Chatters PROVE Backs(chats[d])'
  <2>1. CASE d = c
    BY <1>2, <2>1 DEF Backs
  <2>2. CASE d # c
    <3>1. ASSUME NEW o, o = chats[d] PROVE Backs(o)'
      BY <3>1, RequestStays DEF RequestsBacked
    <3>2. PICK o : o = chats[d]
      OBVIOUS
    <3>3. Backs(o)' /\ chats'[d] = o
      BY <3>1, <3>2, <1>2, <2>2
    <3> QED
      BY <3>3 DEF Backs
  <2> QED
    BY <2>1, <2>2
<1> QED
  BY <1>2, <1>3 DEF RequestsBacked

\* An upsert adds a row, or finds the one that has its ID or its pair.
LEMMA Upserted ==
    ASSUME ChatTypeOK, KeysUnique, NEW v \in ConvRows, v.last = 0, UpsertChatConversation(v),
           minted' \in Nat, minted' >= minted, UNCHANGED members, (PrivateRow(v) \/ GroupRow(v))'
    PROVE  /\ convs' \subseteq ConvRows /\ KeysUnique' /\ Grown
           /\ \A w \in convs' : w \in convs \/ w.last = 0
           /\ \E w \in convs' : w.id = v.id \/ SamePair(v, w)
<1>1. minted \in Nat /\ convs \subseteq ConvRows
  BY ChatAssumption DEF ChatTypeOK, ChatAssumption
<1>2. \A w \in convs : (PrivateRow(w) \/ GroupRow(w))'
  <2>1. ASSUME NEW w, PrivateRow(w) PROVE PrivateRow(w)'
    BY <2>1, <1>1 DEF PrivateRow
  <2>2. ASSUME NEW w, GroupRow(w) PROVE GroupRow(w)'
    BY <2>2 DEF GroupRow
  <2> QED
    BY <2>1, <2>2 DEF KeysUnique
<1>a. \A w : Alike(w, w)
  BY DEF Alike
<1>3. CASE \E w \in convs : w.id = v.id \/ SamePair(v, w)
  <2>1. convs' = convs
    BY <1>3 DEF UpsertChatConversation
  <2>2. KeysUnique'
    BY <1>2, <2>1 DEF KeysUnique, SamePair
  <2> QED
    BY <1>1, <1>3, <1>a, <2>1, <2>2 DEF Grown, SamePair
<1>4. CASE ~ \E w \in convs : w.id = v.id \/ SamePair(v, w)
  <2>1. convs' = convs \cup {v}
    BY <1>4 DEF UpsertChatConversation
  <2>2. \A w \in convs' : (PrivateRow(w) \/ GroupRow(w))'
    BY <1>2, <2>1
  <2>3. \A w, x \in convs' : w.id = x.id \/ SamePair(w, x) => w = x
    BY <1>4, <2>1 DEF KeysUnique, SamePair
  <2>4. KeysUnique'
    BY <2>2, <2>3 DEF KeysUnique, SamePair
  <2> QED
    BY <1>1, <1>a, <2>1, <2>4 DEF Grown
<1> QED
  BY <1>3, <1>4

\* Messages and answers when only conversations are added.
LEMMA RestStays ==
    ASSUME Grown, AnswersNamed, MembersCounted, MessagesOwned, ReadKept,
           UNCHANGED <<members, counts, missed, msgs, answers, readMarks>>,
           \A w \in convs' : w \in convs \/ w.last = 0
    PROVE  AnswersNamed' /\ MembersCounted' /\ MessagesOwned' /\ ReadKept'
<1>1. AnswersNamed'
  BY AnswersStay DEF AnswersNamed
<1>2. MembersCounted' /\ ReadKept'
  BY DEF MembersCounted, ReadKept
<1>3. MessagesOwned'
  <2>1. \A m \in 1..Len(msgs) : Owned(m)'
    BY OwnersStay DEF MessagesOwned
  <2> QED
    BY <2>1 DEF MessagesOwned
<1> QED
  BY <1>1, <1>2, <1>3

LEMMA StateParts ==
    /\ Quiet \in ChatStates /\ Quiet.pc = "idle"
    /\ \A p \in Pairs : [pc |-> "byOrder", pair |-> p] \in ChatStates
    /\ \A g \in Groups, u \in ChatUsers : [pc |-> "join", group |-> g, user |-> u] \in ChatStates
    /\ \A i \in ConvIDs, u \in ChatUsers : [pc |-> "insert", conv |-> i, user |-> u] \in ChatStates
    /\ \A m \in Nat, k \in {"private", "group"} : [pc |-> "deliver", msg |-> m, kind |-> k] \in ChatStates
    /\ \A m \in Nat, o \in Outcomes : [pc |-> "status", msg |-> m, out |-> o] \in ChatStates
BY DEF ChatStates, Quiet

LEMMA StateTypes ==
    ASSUME NEW q \in ChatStates
    PROVE  /\ q.pc = "byOrder" => q.pair \in Pairs
           /\ q.pc = "join" => q.group \in Groups /\ q.user \in ChatUsers
           /\ q.pc = "insert" => q.conv \in ConvIDs /\ q.user \in ChatUsers
           /\ q.pc = "deliver" => q.msg \in Nat /\ q.kind \in {"private", "group"}
           /\ q.pc = "status" => q.msg \in Nat /\ q.out \in Outcomes
BY DEF ChatStates, Quiet

LEMMA ChatLengths == ASSUME ChatTypeOK PROVE Len(msgs) \in Nat /\ chats \in [Chatters -> ChatStates]
BY DEF ChatTypeOK

LEMMA CreateStep ==
    ASSUME ChatInv, NEW c \in Chatters, NEW p \in Pairs, CreateConversation(c, p)
    PROVE  ChatInv'
<1>0. /\ ChatTypeOK /\ KeysUnique /\ RequestsBacked /\ AnswersNamed /\ MembersCounted /\ MessagesOwned /\ ReadKept
      /\ MaxConversations \in Nat /\ minted \in 0..MaxConversations
  BY ChatAssumption DEF ChatInv, ChatAssumption, ChatTypeOK
<1> DEFINE i == <<"CHAT", minted + 1>>
           v == [id |-> i, kind |-> "private", order |-> p.order, customer |-> p.customer,
                 merchant |-> p.merchant, room |-> <<"order_chat", p.order>>, last |-> 0]
           q == [pc |-> "byOrder", pair |-> p]
<1>1. /\ minted < MaxConversations /\ minted' = minted + 1 /\ UpsertChatConversation(v) /\ Serve(c, q)
      /\ UNCHANGED <<members, counts, missed, msgs, answers, readMarks>>
  BY DEF CreateConversation
<1>2. v \in ConvRows
  <2>1. i \in ConvIDs
    BY <1>0, <1>1 DEF ConvIDs
  <2>2. p.customer \in Customers /\ p.merchant \in Merchants
    BY DEF Customers, Merchants
  <2> HIDE DEF i
  <2> QED
    BY <2>1, <2>2 DEF ConvRows
<1>3. v.id = i /\ v.kind = "private" /\ v.customer = p.customer /\ v.last = 0 /\ p.customer # 0
  BY ChatAssumption DEF ChatAssumption
<1>4. minted' \in Nat /\ minted' >= minted /\ minted' \in 0..MaxConversations /\ minted' \in 1..minted'
  BY <1>0, <1>1
<1>5. PICK w : w = v
  OBVIOUS
<1>6. PrivateRow(w)'
  <2>1. w.id = <<"CHAT", minted'>>
    BY <1>1, <1>3, <1>5
  <2> HIDE DEF v
  <2> QED
    BY <1>3, <1>4, <1>5, <2>1 DEF PrivateRow
<1> HIDE DEF v
<1>7. convs' \subseteq ConvRows /\ KeysUnique' /\ Grown /\ \A x \in convs' : x \in convs \/ x.last = 0
  BY <1>0, <1>1, <1>2, <1>3, <1>4, <1>5, <1>6, Upserted
<1>8. AnswersNamed' /\ MembersCounted' /\ MessagesOwned' /\ ReadKept'
  BY <1>0, <1>1, <1>7, RestStays
<1>9. chats' \in [Chatters -> ChatStates] /\ RequestsBacked'
  <2>1. PICK x : x = q
    OBVIOUS
  <2>2. x \in ChatStates /\ x.pc = "byOrder" /\ Serve(c, x)
    BY <1>1, <2>1, StateParts
  <2>3. Backs(x)'
    BY <2>2 DEF Backs
  <2> QED
    BY <1>0, <1>1, <1>7, <2>2, <2>3, ChatLengths, Served
<1>10. ChatTypeOK'
  BY <1>0, <1>1, <1>4, <1>7, <1>9 DEF ChatTypeOK
<1> QED
  BY <1>7, <1>8, <1>9, <1>10 DEF ChatInv

LEMMA JoinStep ==
    ASSUME ChatInv, NEW c \in Chatters, NEW g \in Groups, NEW u \in ChatUsers, JoinMerchantGroup(c, g, u)
    PROVE  ChatInv'
<1>0. /\ ChatTypeOK /\ KeysUnique /\ RequestsBacked /\ AnswersNamed /\ MembersCounted /\ MessagesOwned /\ ReadKept
      /\ MaxConversations \in Nat /\ minted \in 0..MaxConversations
  BY ChatAssumption DEF ChatInv, ChatAssumption, ChatTypeOK
<1> DEFINE o == <<"group", g.room>>
           v == [id |-> g.id, kind |-> "group", order |-> o, customer |-> 0,
                 merchant |-> g.merchant, room |-> g.room, last |-> 0]
           q == [pc |-> "join", group |-> g, user |-> u]
<1>1. /\ UpsertChatConversation(v) /\ Serve(c, q)
      /\ UNCHANGED <<minted, members, counts, missed, msgs, answers, readMarks>>
  BY DEF JoinMerchantGroup
<1>2. v \in ConvRows
  <2>1. g.id \in ConvIDs
    BY DEF ConvIDs
  <2>2. 0 \in Customers /\ g.merchant \in Merchants
    BY DEF Customers, Merchants
  <2> HIDE DEF o
  <2>3. o \in {<<"group", h.room>> : h \in Groups}
    BY DEF o
  <2> QED
    BY <2>1, <2>2, <2>3 DEF ConvRows
<1>3. /\ v.id = g.id /\ v.kind = "group" /\ v.customer = 0 /\ v.last = 0 /\ v.order = o /\ v.room = g.room
      /\ v.merchant = g.merchant
  OBVIOUS
<1>4. minted' \in Nat /\ minted' >= minted
  BY <1>0, <1>1
<1>5. PICK w : w = v
  OBVIOUS
<1> HIDE DEF v
<1>6. GroupRow(w)'
  BY <1>3, <1>5 DEF GroupRow, RowOf
<1>7. /\ convs' \subseteq ConvRows /\ KeysUnique' /\ Grown /\ \A x \in convs' : x \in convs \/ x.last = 0
      /\ \E x \in convs' : x.id = w.id \/ SamePair(w, x)
  BY <1>0, <1>1, <1>2, <1>3, <1>4, <1>5, <1>6, Upserted
<1>8. AnswersNamed' /\ MembersCounted' /\ MessagesOwned' /\ ReadKept'
  BY <1>0, <1>1, <1>7, RestStays
<1>e. \E x \in convs' : x.id = g.id
  <2>1. PICK x \in convs' : x.id = w.id \/ SamePair(w, x)
    BY <1>7
  <2>2. CASE x.id = w.id
    BY <1>3, <1>5, <2>2
  <2>3. CASE SamePair(w, x)
    <3>1. x.customer = 0 /\ x.order = <<"group", g.room>>
      BY <1>3, <1>5, <2>3 DEF SamePair
    <3>2. (PrivateRow(x) \/ GroupRow(x))'
      BY <1>7 DEF KeysUnique
    <3>3. PICK h \in Groups : RowOf(x, h)
      BY <3>1, <3>2 DEF PrivateRow, GroupRow
    <3>4. g.room = h.room
      BY <3>1, <3>3 DEF RowOf
    <3> QED
      BY <3>3, <3>4, ChatAssumption DEF RowOf, ChatAssumption
  <2> QED
    BY <2>1, <2>2, <2>3
<1>9. chats' \in [Chatters -> ChatStates] /\ RequestsBacked'
  <2>1. PICK x : x = q
    OBVIOUS
  <2>2. x \in ChatStates /\ x.pc = "join" /\ x.group = g /\ Serve(c, x)
    BY <1>1, <2>1, StateParts
  <2>3. Backs(x)'
    BY <2>2, <1>e DEF Backs
  <2> QED
    BY <1>0, <1>1, <1>7, <2>2, <2>3, ChatLengths, Served
<1>10. ChatTypeOK'
  BY <1>0, <1>1, <1>7, <1>9 DEF ChatTypeOK
<1> QED
  BY <1>7, <1>8, <1>9, <1>10 DEF ChatInv

\* Steps that only bring the request further.
LEMMA OnlyServes ==
    ASSUME ChatInv, NEW c \in Chatters, NEW q \in ChatStates, Backs(q), Serve(c, q),
           UNCHANGED <<convs, minted, members, counts, missed, msgs, answers, readMarks>>
    PROVE  ChatInv'
<1>0. /\ ChatTypeOK /\ KeysUnique /\ RequestsBacked /\ AnswersNamed /\ MembersCounted /\ MessagesOwned /\ ReadKept
  BY DEF ChatInv
<1>1. Grown
  BY DEF Grown, Alike
<1>2. KeysUnique'
  BY <1>0 DEF KeysUnique, PrivateRow, GroupRow, SamePair
<1>3. AnswersNamed' /\ MembersCounted' /\ MessagesOwned' /\ ReadKept'
  BY <1>0, <1>1, RestStays
<1>4. Len(msgs) \in Nat /\ Len(msgs') = Len(msgs)
  BY <1>0, ChatLengths
<1>5. Backs(q)'
  BY <1>1, <1>4, RequestStays
<1>6. chats' \in [Chatters -> ChatStates] /\ RequestsBacked'
  BY <1>0, <1>1, <1>4, <1>5, ChatLengths, Served
<1>7. ChatTypeOK'
  BY <1>0, <1>6 DEF ChatTypeOK
<1> QED
  BY <1>2, <1>3, <1>6, <1>7 DEF ChatInv

LEMMA QuietBacks == Backs(Quiet) /\ Backs(Quiet)'
<1>1. Quiet.pc = "idle"
  BY DEF Quiet
<1> QED
  BY <1>1 DEF Backs, Quiet

LEMMA ServeStep ==
    ASSUME ChatInv, NEW c \in Chatters,
           \/ \E v \in convs, u \in ChatUsers : SendMessage(c, v.id, u)
           \/ Push(c) \/ WriteChatError(c)
    PROVE  ChatInv'
<1>0. ChatTypeOK /\ RequestsBacked /\ chats[c] \in ChatStates
  BY ChatLengths DEF ChatInv
<1>1. ASSUME NEW x \in convs, NEW u \in ChatUsers, SendMessage(c, x.id, u) PROVE ChatInv'
  <2> DEFINE q == [pc |-> "insert", conv |-> x.id, user |-> u]
  <2>1. x.id \in ConvIDs
    BY <1>0 DEF ChatTypeOK, ConvRows
  <2>2. q \in ChatStates /\ q.pc = "insert" /\ q.conv = x.id /\ q.user = u
    BY <2>1, StateParts
  <2>3. Serve(c, q) /\ UNCHANGED <<convs, minted, members, counts, missed, msgs, answers, readMarks>>
    BY <1>1 DEF SendMessage
  <2>4. \E v \in convs : v.id = x.id /\ CanAccessConversation(v, u)
    BY <1>1 DEF SendMessage, GetChatConversation
  <2> HIDE DEF q
  <2>5. Backs(q)
    BY <2>2, <2>4 DEF Backs
  <2> QED
    BY <2>2, <2>3, <2>5, OnlyServes
<1>2. ASSUME Push(c) PROVE ChatInv'
  <2>1. /\ chats[c].pc = "deliver" /\ chats[c].msg \in Nat /\ chats[c].kind \in {"private", "group"}
        /\ chats[c].msg \in 1..Len(msgs)
    BY <1>0, <1>2, StateTypes DEF Push, RequestsBacked, Backs
  <2>2. PICK out \in Deliver(chats[c].kind) : Serve(c, [pc |-> "status", msg |-> chats[c].msg, out |-> out])
    BY <1>2 DEF Push
  <2>3. out \in Outcomes
    BY <2>1, <2>2 DEF Outcomes
  <2> DEFINE q == [pc |-> "status", msg |-> chats[c].msg, out |-> out]
  <2>4. q \in ChatStates /\ q.pc = "status" /\ q.msg = chats[c].msg /\ Serve(c, q)
    BY <2>1, <2>2, <2>3, StateParts
  <2>5. UNCHANGED <<convs, minted, members, counts, missed, msgs, answers, readMarks>>
    BY <1>2 DEF Push
  <2> HIDE DEF q
  <2>6. Backs(q)
    BY <2>1, <2>4 DEF Backs
  <2> QED
    BY <2>4, <2>5, <2>6, OnlyServes
<1>3. ASSUME WriteChatError(c) PROVE ChatInv'
  BY <1>3, QuietBacks, StateParts, OnlyServes DEF WriteChatError
<1> QED
  BY <1>1, <1>2, <1>3

LEMMA AnswerStep ==
    ASSUME ChatInv, NEW c \in Chatters, AnswerByOrder(c)
    PROVE  ChatInv'
<1>0. /\ ChatTypeOK /\ KeysUnique /\ RequestsBacked /\ AnswersNamed /\ MembersCounted /\ MessagesOwned /\ ReadKept
      /\ chats[c] \in ChatStates
  BY ChatLengths DEF ChatInv
<1>1. chats[c].pair \in Pairs
  BY <1>0, StateTypes DEF AnswerByOrder
<1>2. PICK v \in convs : /\ v.kind = "private" /\ SamePair(chats[c].pair, v)
                         /\ answers' = answers \cup {[want |-> chats[c].pair, conv |-> v.id,
                                                      users |-> {v.customer, v.merchant}]}
  BY DEF AnswerByOrder, GetChatConversationByOrder
<1>3. Serve(c, Quiet) /\ UNCHANGED <<convs, minted, members, counts, missed, msgs, readMarks>>
  BY DEF AnswerByOrder
<1> DEFINE a == [want |-> chats[c].pair, conv |-> v.id, users |-> {v.customer, v.merchant}]
           All == ChatUsers \cup Customers \cup Merchants
<1>4. a.want = chats[c].pair /\ a.conv = v.id /\ a.users = {v.customer, v.merchant}
  OBVIOUS
<1>t. a \in [want : Pairs \cup Groups, conv : ConvIDs, users : SUBSET All]
  <2>1. v.id \in ConvIDs /\ v.customer \in Customers /\ v.merchant \in Merchants
    BY <1>0 DEF ChatTypeOK, ConvRows
  <2>2. {v.customer, v.merchant} \in SUBSET All
    BY <2>1
  <2> HIDE DEF All
  <2> QED
    BY <1>1, <2>1, <2>2
<1>5. PICK b : b = a
  OBVIOUS
<1>6. answers' = answers \cup {b} /\ b.want = chats[c].pair /\ b.conv = v.id /\ b.users = {v.customer, v.merchant}
  BY <1>2, <1>4, <1>5
<1>7. Grown /\ \A w \in convs' : w \in convs \/ w.last = 0
  BY <1>3 DEF Grown, Alike
<1>8. AnswersNamed'
  <2>1. AnsweredPair(b)'
    BY <1>2, <1>3, <1>6 DEF AnsweredPair, SamePair
  <2>2. b.want \in Pairs
    BY <1>1, <1>6
  <2> QED
    BY <1>0, <1>6, <1>7, <2>1, <2>2, AnswersStay DEF AnswersNamed
<1>9. MembersCounted' /\ MessagesOwned' /\ ReadKept' /\ KeysUnique'
  BY <1>0, <1>3 DEF MembersCounted, MessagesOwned, Owned, CanAccessConversation, IsChatMember, ReadKept,
                    KeysUnique, PrivateRow, GroupRow, SamePair
<1>10. chats' \in [Chatters -> ChatStates] /\ RequestsBacked'
  <2>1. Len(msgs) \in Nat /\ Len(msgs') = Len(msgs)
    BY <1>0, <1>3, ChatLengths
  <2> QED
    BY <1>0, <1>3, <1>7, <2>1, QuietBacks, StateParts, ChatLengths, Served
<1>11. ChatTypeOK'
  <2>1. answers' \subseteq [want : Pairs \cup Groups, conv : ConvIDs, users : SUBSET All]
    BY <1>0, <1>5, <1>6, <1>t DEF ChatTypeOK
  <2> QED
    BY <1>0, <1>3, <1>10, <2>1 DEF ChatTypeOK
<1> QED
  BY <1>8, <1>9, <1>10, <1>11 DEF ChatInv

LEMMA AddStep ==
    ASSUME ChatInv, NEW c \in Chatters, NEW known \in BOOLEAN, AddChatMember(c, known)
    PROVE  ChatInv'
<1>0. /\ ChatTypeOK /\ KeysUnique /\ RequestsBacked /\ AnswersNamed /\ MembersCounted /\ MessagesOwned /\ ReadKept
      /\ chats[c] \in ChatStates /\ chats[c].pc = "join"
  BY ChatLengths DEF ChatInv, AddChatMember
<1>1. PICK g \in Groups : g = chats[c].group
  BY <1>0, StateTypes
<1>2. PICK u \in ChatUsers : u = chats[c].user
  BY <1>0, StateTypes
<1>3. PICK v \in convs : v.id = g.id
  BY <1>0, <1>1 DEF RequestsBacked, Backs
<1>4. v.kind = "group" /\ v.room = g.room /\ v.id \in ConvIDs
  <2>1. v.id \in ConvIDs
    BY <1>0 DEF ChatTypeOK, ConvRows
  <2>2. ~PrivateRow(v)
    <3>1. MaxConversations \in Nat /\ minted \in 0..MaxConversations
      BY <1>0, ChatAssumption DEF ChatTypeOK, ChatAssumption
    <3>2. \A n \in 1..minted : g.id # <<"CHAT", n>>
      BY <3>1, ChatAssumption DEF ChatAssumption
    <3> QED
      BY <1>3, <3>2 DEF PrivateRow
  <2>3. v.kind = "group"
    BY <1>0, <2>2 DEF KeysUnique, GroupRow
  <2>4. PICK h \in Groups : RowOf(v, h)
    BY <1>0, <2>2 DEF KeysUnique, GroupRow
  <2>5. h = g
    BY <1>3, <2>4, ChatAssumption DEF RowOf, ChatAssumption
  <2> QED
    BY <2>1, <2>3, <2>4, <2>5 DEF RowOf
<1>5. Conversation(chats[c].group.id) = v
  BY <1>0, <1>1, <1>3, TheConversation
<1>6. {h \in Groups : h.room = v.room} = {g}
  BY <1>4, ChatAssumption DEF ChatAssumption
<1> DEFINE r == <<g.id, u>>
           new == r \notin members
           a == [want |-> g, conv |-> g.id, users |-> {u}]
           All == ChatUsers \cup Customers \cup Merchants
<1>7. /\ members' = members \cup {r}
      /\ counts' = [h \in Groups |-> counts[h] + IF new /\ known /\ h = g THEN 1 ELSE 0]
      /\ missed' = [h \in Groups |-> missed[h] + IF new /\ ~known /\ h = g THEN 1 ELSE 0]
      /\ answers' = answers \cup {a}
      /\ Serve(c, Quiet) /\ UNCHANGED <<convs, minted, msgs, readMarks>>
  BY <1>1, <1>2, <1>3, <1>5, <1>6 DEF AddChatMember, IsChatMember
<1>t. a \in [want : Pairs \cup Groups, conv : ConvIDs, users : SUBSET All]
  <2>1. {u} \in SUBSET All
    OBVIOUS
  <2> HIDE DEF All
  <2> QED
    BY <1>3, <1>4, <2>1
<1>8. PICK b : b = a
  OBVIOUS
<1>9. answers' = answers \cup {b} /\ b.want = g /\ b.conv = g.id /\ b.users = {u}
  BY <1>7, <1>8
<1>10. Grown /\ \A w \in convs' : w \in convs \/ w.last = 0
  BY <1>7 DEF Grown, Alike
<1>11. AnswersNamed'
  <2>1. AnsweredGroup(b)'
    BY <1>3, <1>4, <1>7, <1>9 DEF AnsweredGroup
  <2> QED
    BY <1>0, <1>9, <1>10, <2>1, AnswersStay DEF AnswersNamed
<1>12. IsFiniteSet(members') /\ members' \subseteq ConvIDs \X ChatUsers
  <2>1. IsFiniteSet(members) /\ members \subseteq ConvIDs \X ChatUsers
    BY <1>0 DEF ChatTypeOK
  <2>2. r \in ConvIDs \X ChatUsers
    BY <1>3, <1>4
  <2> HIDE DEF r
  <2>3. IsFiniteSet(members \cup {r})
    BY <2>1, FS_AddElement
  <2> QED
    BY <1>7, <2>1, <2>2, <2>3
<1>13. MembersCounted'
  <2> SUFFICES ASSUME NEW h \in Groups
               PROVE  counts'[h] + missed'[h] = Cardinality({x \in members' : x[1] = h.id})
    BY DEF MembersCounted
  <2> DEFINE M == {x \in members : x[1] = h.id}
  <2>1. counts[h] + missed[h] = Cardinality(M) /\ counts[h] \in Nat /\ missed[h] \in Nat
    BY <1>0 DEF MembersCounted, ChatTypeOK
  <2>2. IsFiniteSet(M)
    BY <1>0, FS_Subset DEF ChatTypeOK
  <2>3. CASE h = g /\ new
    <3>1. {x \in members' : x[1] = h.id} = M \cup {r} /\ r \notin M
      BY <1>7, <2>3
    <3>2. Cardinality(M \cup {r}) = Cardinality(M) + 1
      BY <2>2, <3>1, FS_AddElement
    <3>3. counts'[h] + missed'[h] = counts[h] + missed[h] + 1
      BY <1>7, <2>1, <2>3
    <3> QED
      BY <2>1, <3>1, <3>2, <3>3
  <2>4. CASE ~(h = g /\ new)
    <3>1. {x \in members' : x[1] = h.id} = M
      <4>1. h # g => h.id # g.id
        BY ChatAssumption DEF ChatAssumption
      <4> QED
        BY <1>7, <2>4, <4>1
    <3>2. counts'[h] = counts[h] /\ missed'[h] = missed[h]
      BY <1>7, <2>1, <2>4
    <3> QED
      BY <2>1, <3>1, <3>2
  <2> QED
    BY <2>3, <2>4
<1>14. ReadKept' /\ KeysUnique'
  BY <1>0, <1>7 DEF ReadKept, KeysUnique, PrivateRow, GroupRow, SamePair
<1>15. MessagesOwned'
  <2>1. \A m \in 1..Len(msgs) : Owned(m)'
    BY <1>0, <1>7, <1>10, OwnersStay DEF MessagesOwned
  <2> QED
    BY <1>0, <1>7, <2>1 DEF MessagesOwned
<1>16. chats' \in [Chatters -> ChatStates] /\ RequestsBacked'
  <2>1. Len(msgs) \in Nat /\ Len(msgs') = Len(msgs)
    BY <1>0, <1>7, ChatLengths
  <2> QED
    BY <1>0, <1>7, <1>10, <2>1, QuietBacks, StateParts, ChatLengths, Served
<1>17. ChatTypeOK'
  <2>1. answers' \subseteq [want : Pairs \cup Groups, conv : ConvIDs, users : SUBSET All]
    BY <1>0, <1>8, <1>9, <1>t DEF ChatTypeOK
  <2>2. counts' \in [Groups -> Nat] /\ missed' \in [Groups -> Nat]
    BY <1>0, <1>7 DEF ChatTypeOK
  <2> QED
    BY <1>0, <1>7, <1>12, <1>16, <2>1, <2>2 DEF ChatTypeOK
<1> QED
  BY <1>11, <1>13, <1>14, <1>15, <1>16, <1>17 DEF ChatInv

LEMMA OutcomeType == \A o \in Outcomes : o[1] \in {"pending", "sent", "failed", "delivered"} /\ o[2] \in BOOLEAN
<1> DEFINE Pending == <<"pending", FALSE>>
           Failed == <<"failed", FALSE>>
           SentNow == <<"sent", TRUE>>
           Sent == <<"sent", FALSE>>
           Done == <<"delivered", TRUE>>
<1>1. /\ Pending[1] = "pending" /\ Pending[2] = FALSE /\ Failed[1] = "failed" /\ Failed[2] = FALSE
      /\ SentNow[1] = "sent" /\ SentNow[2] = TRUE /\ Sent[1] = "sent" /\ Sent[2] = FALSE
      /\ Done[1] = "delivered" /\ Done[2] = TRUE
  BY Zenon
<1>2. Outcomes = {Pending, Failed, SentNow, Sent, Done}
  BY Zenon DEF Outcomes, Deliver
<1> HIDE DEF Pending, Failed, SentNow, Sent, Done
<1> QED
  BY <1>1, <1>2, Zenon

LEMMA CardinalityTo == ASSUME NEW n \in Nat PROVE Cardinality(1..n) = n
BY FS_Interval

LEMMA InsertStep ==
    ASSUME ChatInv, NEW c \in Chatters, InsertChatMessage(c)
    PROVE  ChatInv'
<1>0. /\ ChatTypeOK /\ KeysUnique /\ RequestsBacked /\ AnswersNamed /\ MembersCounted /\ MessagesOwned /\ ReadKept
      /\ chats[c] \in ChatStates /\ chats[c].pc = "insert"
  BY ChatLengths DEF ChatInv, InsertChatMessage
<1>1. PICK u \in ChatUsers : u = chats[c].user
  BY <1>0, StateTypes
<1>2. PICK v \in convs : v.id = chats[c].conv /\ CanAccessConversation(v, u)
  BY <1>0, <1>1 DEF RequestsBacked, Backs
<1>3. Conversation(chats[c].conv) = v
  BY <1>0, <1>2, TheConversation
<1>4. v \in ConvRows /\ msgs \in Seq(MsgRows) /\ Len(msgs) \in Nat
  BY <1>0 DEF ChatTypeOK
<1>5. PICK m \in Nat : m = Len(msgs) + 1
  BY <1>4
<1>6. Cardinality(DOMAIN msgs) + 1 = m
  <2>1. DOMAIN msgs = 1..Len(msgs)
    BY <1>4
  <2>2. PICK n \in Nat : n = Len(msgs)
    BY <1>4
  <2>3. Cardinality(1..n) = n
    BY CardinalityTo
  <2> QED
    BY <1>5, <2>1, <2>2, <2>3
<1> DEFINE receiver == IF v.kind = "group" THEN 0 ELSE IF u = v.customer THEN v.merchant ELSE v.customer
           e == [conv |-> v.id, sender |-> u, receiver |-> receiver,
                 status |-> "pending", deliveredAt |-> FALSE, readAt |-> FALSE]
           q == [pc |-> "deliver", msg |-> m, kind |-> v.kind]
<1>7. /\ msgs' = [k \in 1..m |-> IF k < m THEN msgs[k] ELSE e]
      /\ convs' = (convs \ {v}) \cup {[v EXCEPT !.last = m]}
      /\ Serve(c, q)
      /\ UNCHANGED <<minted, members, counts, missed, answers, readMarks>>
  BY <1>1, <1>3, <1>6 DEF InsertChatMessage
<1>8. /\ v.id \in ConvIDs /\ v.kind \in {"private", "group"} /\ v.customer \in Customers
      /\ v.merchant \in Merchants
  BY <1>4 DEF ConvRows
<1>9. e \in MsgRows /\ e.conv = v.id /\ e.sender = u
  <2>1. receiver \in Customers \cup Merchants
    BY <1>8 DEF Customers
  <2> HIDE DEF receiver
  <2> QED
    BY <1>8, <2>1 DEF MsgRows
<1>10. PICK w : w = [v EXCEPT !.last = m]
  OBVIOUS
<1>11. w \in ConvRows /\ Alike(v, w) /\ w.last = m
  BY <1>4, <1>10 DEF ConvRows, Alike
<1>12. convs' = (convs \ {v}) \cup {w}
  BY <1>7, <1>10
<1> HIDE DEF e
<1>13. /\ msgs' \in Seq(MsgRows) /\ Len(msgs') = m /\ msgs'[m] = e
       /\ \A k \in 1..Len(msgs) : msgs'[k] = msgs[k] /\ k \in 1..m
  <2>1. \A k \in 1..m : (IF k < m THEN msgs[k] ELSE e) \in MsgRows
    BY <1>4, <1>5, <1>9
  <2> QED
    BY <1>4, <1>5, <1>7, <2>1
<1>14. Grown
  <2>1. \A x : Alike(x, x)
    BY DEF Alike
  <2> QED
    BY <1>7, <1>11, <1>12, <2>1 DEF Grown
<1>15. KeysUnique'
  <2>1. \A x \in convs : PrivateRow(x) \/ GroupRow(x)
    BY <1>0 DEF KeysUnique
  <2>2. PrivateRow(w) \/ GroupRow(w)
    BY <1>11, <2>1 DEF PrivateRow, GroupRow, RowOf, Alike
  <2>3. \A x, y \in convs : x.id = y.id \/ SamePair(x, y) => x = y
    BY <1>0 DEF KeysUnique
  <2>4. \A x, y \in convs' : x.id = y.id \/ SamePair(x, y) => x = y
    BY <1>11, <1>12, <2>3 DEF SamePair, Alike
  <2>5. \A x \in convs' : PrivateRow(x) \/ GroupRow(x)
    BY <1>12, <2>1, <2>2
  <2> QED
    BY <1>7, <2>4, <2>5 DEF KeysUnique, PrivateRow, GroupRow, SamePair
<1>16. AnswersNamed'
  BY <1>0, <1>7, <1>14, AnswersStay DEF AnswersNamed
<1>17. MembersCounted'
  BY <1>0, <1>7 DEF MembersCounted
<1>18. MessagesOwned'
  <2>1. \A k \in 1..Len(msgs) : Owned(k)'
    BY <1>0, <1>13, <1>14, OwnersStay DEF MessagesOwned
  <2>2. Owned(m)'
    <3>1. CanAccessConversation(w, u)'
      BY <1>2, <1>7, <1>11, AccessStays
    <3>2. w \in convs' /\ w.id = msgs'[m].conv /\ msgs'[m].sender = u
      BY <1>9, <1>11, <1>12, <1>13 DEF Alike
    <3> QED
      BY <3>1, <3>2 DEF Owned, CanAccessConversation, IsChatMember
  <2>3. \A k \in 1..m : k \in 1..Len(msgs) \/ k = m
    BY <1>4, <1>5
  <2>4. \A x \in convs' : x.last # 0 => x.last \in 1..m /\ msgs'[x.last].conv = x.id
    <3>1. \A x \in convs : x.last # 0 => x.last \in 1..Len(msgs) /\ msgs[x.last].conv = x.id
      BY <1>0 DEF MessagesOwned
    <3>2. m \in 1..m
      BY <1>4, <1>5
    <3>3. msgs'[w.last].conv = w.id
      BY <1>9, <1>11, <1>13 DEF Alike
    <3> QED
      BY <1>11, <1>12, <1>13, <3>1, <3>2, <3>3
  <2> QED
    BY <1>13, <2>1, <2>2, <2>3, <2>4 DEF MessagesOwned
<1>19. ReadKept' /\ readMarks' \subseteq 1..Len(msgs')
  <2>1. readMarks \subseteq 1..Len(msgs)
    BY <1>0 DEF ChatTypeOK
  <2> QED
    BY <1>0, <1>7, <1>13, <2>1 DEF ReadKept
<1>20. chats' \in [Chatters -> ChatStates] /\ RequestsBacked'
  <2>1. q \in ChatStates /\ q.pc = "deliver" /\ q.msg = m
    BY <1>8, StateParts
  <2> HIDE DEF q
  <2>2. PICK x : x = q
    OBVIOUS
  <2>3. Len(msgs') \in Nat /\ Len(msgs') >= Len(msgs) /\ m \in 1..Len(msgs')
    BY <1>4, <1>5, <1>13
  <2>4. Backs(x)'
    BY <2>1, <2>2, <2>3 DEF Backs
  <2> QED
    BY <1>0, <1>4, <1>7, <1>14, <2>1, <2>2, <2>3, <2>4, ChatLengths, Served
<1>21. ChatTypeOK'
  BY <1>0, <1>7, <1>11, <1>12, <1>13, <1>19, <1>20 DEF ChatTypeOK
<1> QED
  BY <1>15, <1>16, <1>17, <1>18, <1>19, <1>20, <1>21 DEF ChatInv

\* UpdateChatMessageStatus keeps the message and the times it has.
LEMMA StatusUpdated ==
    ASSUME msgs \in Seq(MsgRows), NEW m \in 1..Len(msgs), NEW d \in BOOLEAN, NEW f \in BOOLEAN,
           NEW st \in {"pending", "sent", "failed", "delivered", "read"},
           UpdateChatMessageStatus(m, st, d, f)
    PROVE  /\ msgs' \in Seq(MsgRows) /\ Len(msgs') = Len(msgs)
           /\ \A k \in 1..Len(msgs) : /\ msgs'[k].conv = msgs[k].conv /\ msgs'[k].sender = msgs[k].sender
                                      /\ msgs[k].deliveredAt => msgs'[k].deliveredAt
                                      /\ msgs[k].readAt => msgs'[k].readAt
           /\ (d => msgs'[m].deliveredAt) /\ (f => msgs'[m].readAt)
<1>1. msgs[m] \in MsgRows
  OBVIOUS
<1> DEFINE e == [msgs[m] EXCEPT !.status = st, !.deliveredAt = @ \/ d, !.readAt = @ \/ f]
<1>2. msgs' = [msgs EXCEPT ![m] = e]
  BY DEF UpdateChatMessageStatus
<1>3. msgs[m].deliveredAt \in BOOLEAN /\ msgs[m].readAt \in BOOLEAN
  BY <1>1 DEF MsgRows
<1>4. /\ e \in MsgRows /\ e.conv = msgs[m].conv /\ e.sender = msgs[m].sender
      /\ e.deliveredAt = (msgs[m].deliveredAt \/ d) /\ e.readAt = (msgs[m].readAt \/ f)
  BY <1>1, <1>3 DEF MsgRows
<1> HIDE DEF e
<1>5. /\ msgs' \in Seq(MsgRows) /\ Len(msgs') = Len(msgs) /\ msgs'[m] = e
      /\ \A k \in 1..Len(msgs) : k # m => msgs'[k] = msgs[k]
  BY <1>2, <1>4
<1> QED
  BY <1>4, <1>5

\* A step that only writes the st and the times of messages.
LEMMA Rewritten ==
    ASSUME ChatInv, msgs' \in Seq(MsgRows), Len(msgs') = Len(msgs),
           \A k \in 1..Len(msgs) : /\ msgs'[k].conv = msgs[k].conv /\ msgs'[k].sender = msgs[k].sender
                                   /\ msgs[k].deliveredAt => msgs'[k].deliveredAt
                                   /\ msgs[k].readAt => msgs'[k].readAt,
           UNCHANGED <<convs, minted, members, counts, missed, answers>>
    PROVE  /\ Grown /\ KeysUnique' /\ AnswersNamed' /\ MembersCounted' /\ MessagesOwned'
           /\ \A k \in readMarks : msgs'[k].deliveredAt /\ msgs'[k].readAt
<1>0. ChatTypeOK /\ KeysUnique /\ AnswersNamed /\ MembersCounted /\ MessagesOwned /\ ReadKept
  BY DEF ChatInv
<1>1. Grown
  BY DEF Grown, Alike
<1>2. KeysUnique'
  BY <1>0 DEF KeysUnique, PrivateRow, GroupRow, SamePair
<1>3. AnswersNamed'
  BY <1>0, <1>1, AnswersStay DEF AnswersNamed
<1>4. MembersCounted'
  BY <1>0 DEF MembersCounted
<1>5. MessagesOwned'
  <2>1. \A k \in 1..Len(msgs) : Owned(k)'
    BY <1>0, <1>1, OwnersStay DEF MessagesOwned
  <2>2. \A v \in convs : v.last # 0 => v.last \in 1..Len(msgs) /\ msgs'[v.last].conv = v.id
    BY <1>0 DEF MessagesOwned
  <2> QED
    BY <2>1, <2>2 DEF MessagesOwned
<1>6. \A k \in readMarks : msgs'[k].deliveredAt /\ msgs'[k].readAt
  BY <1>0 DEF ReadKept, ChatTypeOK
<1> QED
  BY <1>1, <1>2, <1>3, <1>4, <1>5, <1>6

LEMMA StatusStep ==
    ASSUME ChatInv, NEW c \in Chatters, RecordStatus(c)
    PROVE  ChatInv'
<1>0. ChatTypeOK /\ RequestsBacked /\ chats[c] \in ChatStates /\ chats[c].pc = "status"
  BY ChatLengths DEF ChatInv, RecordStatus
<1>1. Serve(c, Quiet) /\ UNCHANGED <<convs, minted, members, counts, missed, answers, readMarks>>
  BY DEF RecordStatus
<1>2. CASE UNCHANGED msgs
  BY <1>1, <1>2, QuietBacks, StateParts, OnlyServes
<1>3. CASE UpdateChatMessageStatus(chats[c].msg, chats[c].out[1], chats[c].out[2], FALSE)
  <2>1. PICK m \in 1..Len(msgs) : m = chats[c].msg
    BY <1>0 DEF RequestsBacked, Backs
  <2>2. PICK st \in {"pending", "sent", "failed", "delivered"} : st = chats[c].out[1]
    BY <1>0, StateTypes, OutcomeType
  <2>3. PICK d \in BOOLEAN : d = chats[c].out[2]
    BY <1>0, StateTypes, OutcomeType
  <2>4. msgs \in Seq(MsgRows) /\ Len(msgs) \in Nat
    BY <1>0 DEF ChatTypeOK
  <2>5. UpdateChatMessageStatus(m, st, d, FALSE)
    BY <1>3, <2>1, <2>2, <2>3
  <2>6. /\ msgs' \in Seq(MsgRows) /\ Len(msgs') = Len(msgs)
        /\ \A k \in 1..Len(msgs) : /\ msgs'[k].conv = msgs[k].conv /\ msgs'[k].sender = msgs[k].sender
                                   /\ msgs[k].deliveredAt => msgs'[k].deliveredAt
                                   /\ msgs[k].readAt => msgs'[k].readAt
    BY <2>4, <2>5, StatusUpdated
  <2>7. /\ Grown /\ KeysUnique' /\ AnswersNamed' /\ MembersCounted' /\ MessagesOwned'
        /\ \A k \in readMarks : msgs'[k].deliveredAt /\ msgs'[k].readAt
    BY <1>1, <2>6, Rewritten
  <2>8. ReadKept'
    BY <1>1, <2>7 DEF ReadKept
  <2>9. chats' \in [Chatters -> ChatStates] /\ RequestsBacked'
    BY <1>0, <1>1, <2>4, <2>6, <2>7, QuietBacks, StateParts, ChatLengths, Served
  <2>10. ChatTypeOK'
    BY <1>0, <1>1, <2>6, <2>9 DEF ChatTypeOK
  <2> QED
    BY <2>7, <2>8, <2>9, <2>10 DEF ChatInv
<1> QED
  BY <1>2, <1>3 DEF RecordStatus

LEMMA MarkStep ==
    ASSUME ChatInv, NEW m \in DOMAIN msgs, NEW st \in {"pending", "sent", "failed", "delivered", "read"},
           MarkMessageStatus(m, st)
    PROVE  ChatInv'
<1>0. ChatTypeOK /\ RequestsBacked /\ msgs \in Seq(MsgRows) /\ Len(msgs) \in Nat /\ m \in 1..Len(msgs)
  BY DEF ChatInv, ChatTypeOK
<1>1. PICK d \in BOOLEAN : d = (st \in {"delivered", "read"})
  <2>1. CASE st \in {"delivered", "read"}
    <3>1. TRUE = (st \in {"delivered", "read"})
      BY <2>1, Zenon
    <3> QED
      BY <3>1, Zenon
  <2>2. CASE st \notin {"delivered", "read"}
    <3>1. FALSE = (st \in {"delivered", "read"})
      BY <2>2, SMT
    <3> QED
      BY <3>1, Zenon
  <2> QED
    BY <2>1, <2>2, Zenon
<1>2. PICK f \in BOOLEAN : f = (st = "read")
  BY Zenon
<1>3. /\ UpdateChatMessageStatus(m, st, d, f)
      /\ readMarks' = IF st = "read" THEN readMarks \cup {m} ELSE readMarks
      /\ UNCHANGED <<convs, minted, members, counts, missed, chats, answers>>
  BY <1>1, <1>2, Zenon DEF MarkMessageStatus
<1>4. /\ msgs' \in Seq(MsgRows) /\ Len(msgs') = Len(msgs)
      /\ \A k \in 1..Len(msgs) : /\ msgs'[k].conv = msgs[k].conv /\ msgs'[k].sender = msgs[k].sender
                                 /\ msgs[k].deliveredAt => msgs'[k].deliveredAt
                                 /\ msgs[k].readAt => msgs'[k].readAt
      /\ (d => msgs'[m].deliveredAt) /\ (f => msgs'[m].readAt)
  BY <1>0, <1>3, StatusUpdated
<1>5. /\ Grown /\ KeysUnique' /\ AnswersNamed' /\ MembersCounted' /\ MessagesOwned'
      /\ \A k \in readMarks : msgs'[k].deliveredAt /\ msgs'[k].readAt
  BY <1>3, <1>4, Rewritten
<1>6. st = "read" => msgs'[m].deliveredAt /\ msgs'[m].readAt
  BY <1>1, <1>2, <1>4
<1>7. ReadKept' /\ readMarks' \subseteq 1..Len(msgs')
  <2>1. readMarks \subseteq 1..Len(msgs)
    BY <1>0 DEF ChatTypeOK
  <2> QED
    BY <1>0, <1>3, <1>4, <1>5, <1>6, <2>1 DEF ReadKept
<1>8. RequestsBacked'
  <2>1. ASSUME NEW o, Backs(o) PROVE Backs(o)'
    BY <1>0, <1>4, <1>5, <2>1, RequestStays
  <2>2. ASSUME NEW c \in Chatters PROVE Backs(chats[c])'
    <3>1. PICK o : o = chats[c]
      OBVIOUS
    <3>2. Backs(o)
      BY <1>0, <3>1 DEF RequestsBacked
    <3>3. Backs(o)' /\ chats'[c] = o
      BY <1>3, <2>1, <3>1, <3>2
    <3> QED
      BY <3>3 DEF Backs
  <2> QED
    BY <1>3, <2>2 DEF RequestsBacked
<1>9. ChatTypeOK'
  BY <1>0, <1>3, <1>4, <1>7 DEF ChatTypeOK
<1> QED
  BY <1>5, <1>7, <1>8, <1>9 DEF ChatInv

LEMMA ChatInitially == ChatInit => ChatInv
<1> SUFFICES ASSUME ChatInit PROVE ChatInv
  OBVIOUS
<1>1. Quiet \in ChatStates /\ \A c \in Chatters : Backs(Quiet)
  BY QuietBacks, StateParts
<1>2. IsFiniteSet(members) /\ \A g \in Groups : Cardinality({r \in members : r[1] = g.id}) = 0
  <2>1. \A g \in Groups : {r \in members : r[1] = g.id} = {}
    BY DEF ChatInit
  <2> QED
    BY <2>1, FS_EmptySet DEF ChatInit
<1>3. msgs \in Seq(MsgRows) /\ Len(msgs) = 0
  BY DEF ChatInit
<1>4. ChatTypeOK
  BY <1>1, <1>2, <1>3, ChatAssumption DEF ChatInit, ChatTypeOK, ChatAssumption
<1>5. RequestsBacked
  BY <1>1 DEF ChatInit, RequestsBacked
<1>6. KeysUnique /\ AnswersNamed /\ ReadKept
  BY DEF ChatInit, KeysUnique, AnswersNamed, ReadKept
<1>7. MembersCounted
  BY <1>2 DEF ChatInit, MembersCounted
<1>8. MessagesOwned
  BY <1>3 DEF ChatInit, MessagesOwned
<1> QED
  BY <1>4, <1>5, <1>6, <1>7, <1>8 DEF ChatInv

LEMMA ChatInductive == ChatInv /\ [ChatNext]_chatVars => ChatInv'
<1> SUFFICES ASSUME ChatInv, [ChatNext]_chatVars PROVE ChatInv'
  OBVIOUS
<1>1. ASSUME NEW c \in Chatters, NEW p \in Pairs, CreateConversation(c, p) PROVE ChatInv'
  BY <1>1, CreateStep
<1>2. ASSUME NEW c \in Chatters, NEW g \in Groups, NEW u \in ChatUsers, JoinMerchantGroup(c, g, u) PROVE ChatInv'
  BY <1>2, JoinStep
<1>3. ASSUME NEW c \in Chatters, \/ \E v \in convs, u \in ChatUsers : SendMessage(c, v.id, u)
                                 \/ Push(c) \/ WriteChatError(c)
      PROVE  ChatInv'
  BY <1>3, ServeStep
<1>4. ASSUME NEW c \in Chatters, AnswerByOrder(c) PROVE ChatInv'
  BY <1>4, AnswerStep
<1>5. ASSUME NEW c \in Chatters, InsertChatMessage(c) PROVE ChatInv'
  BY <1>5, InsertStep
<1>6. ASSUME NEW c \in Chatters, RecordStatus(c) PROVE ChatInv'
  BY <1>6, StatusStep
<1>7. ASSUME NEW c \in Chatters, NEW known \in BOOLEAN, AddChatMember(c, known) PROVE ChatInv'
  BY <1>7, AddStep
<1>8. ASSUME NEW m \in DOMAIN msgs, NEW st \in {"pending", "sent", "failed", "delivered", "read"},
             MarkMessageStatus(m, st)
      PROVE  ChatInv'
  BY <1>8, MarkStep
<1>9. CASE UNCHANGED chatVars
  <2>0. /\ ChatTypeOK /\ KeysUnique /\ RequestsBacked /\ AnswersNamed /\ MembersCounted /\ MessagesOwned
        /\ ReadKept /\ UNCHANGED <<convs, minted, members, counts, missed, msgs, chats, answers, readMarks>>
    BY <1>9 DEF ChatInv, chatVars
  <2>1. Grown /\ \A w \in convs' : w \in convs \/ w.last = 0
    BY <2>0 DEF Grown, Alike
  <2>2. AnswersNamed' /\ MembersCounted' /\ MessagesOwned' /\ ReadKept'
    BY <2>0, <2>1, RestStays
  <2>3. KeysUnique'
    BY <2>0 DEF KeysUnique, PrivateRow, GroupRow, SamePair
  <2>4. ChatTypeOK'
    BY <2>0 DEF ChatTypeOK
  <2>5. RequestsBacked'
    BY <2>0 DEF RequestsBacked, Backs, CanAccessConversation, IsChatMember
  <2> QED
    BY <2>2, <2>3, <2>4, <2>5 DEF ChatInv
<1> QED
  BY <1>1, <1>2, <1>3, <1>4, <1>5, <1>6, <1>7, <1>8, <1>9 DEF ChatNext

\* The inductive invariant of the chat holds whatever the requests
\* (service/chat.go) interleave to.
THEOREM ChatInvariance == ChatSpec => []ChatInv
BY ChatInitially, ChatInductive, PTL DEF ChatSpec

\* Conversations, members, messages and requests of the chat keep their types.
THEOREM ChatTyped == ChatSpec => []ChatTypeOK
<1>1. ChatInv => ChatTypeOK
  BY DEF ChatInv
<1> QED
  BY ChatInvariance, <1>1, PTL

LEMMA NamedOnce == ChatInv => OneConversation
<1> SUFFICES ASSUME ChatInv, NEW a \in answers
             PROVE  /\ \A b \in answers : a.want = b.want => a.conv = b.conv
                    /\ \E v \in GetChatConversation(a.conv) :
                           \A u \in a.users : v \in ListChatConversations(u) /\ CanAccessConversation(v, u)
  BY DEF OneConversation
<1>0. KeysUnique /\ AnswersNamed
  BY DEF ChatInv
<1>1. \A x : ~(x \in Pairs /\ x \in Groups)
  BY ChatAssumption DEF ChatAssumption
<1>2. ASSUME NEW b \in answers, a.want = b.want PROVE a.conv = b.conv
  <2>1. CASE AnsweredPair(a) /\ AnsweredPair(b)
    BY <1>0, <1>2, <2>1 DEF KeysUnique, AnsweredPair, SamePair
  <2>2. CASE AnsweredGroup(a) /\ AnsweredGroup(b)
    BY <1>2, <2>2 DEF AnsweredGroup
  <2> QED
    BY <1>0, <1>1, <1>2, <2>1, <2>2 DEF AnswersNamed
<1>3. CASE AnsweredPair(a)
  <2>1. PICK v \in convs : v.kind = "private" /\ a.conv = v.id /\ a.users = {v.customer, v.merchant}
    BY <1>3 DEF AnsweredPair
  <2>2. \A u \in a.users : v \in ListChatConversations(u) /\ CanAccessConversation(v, u)
    BY <2>1 DEF ListChatConversations, CanAccessConversation
  <2> QED
    BY <1>2, <2>1, <2>2 DEF GetChatConversation
<1>4. CASE AnsweredGroup(a)
  <2>1. PICK v \in convs : v.kind = "group" /\ a.conv = v.id /\ \A u \in a.users : <<v.id, u>> \in members
    BY <1>4 DEF AnsweredGroup
  <2>2. \A u \in a.users : v \in ListChatConversations(u) /\ CanAccessConversation(v, u)
    BY <2>1 DEF ListChatConversations, CanAccessConversation, IsChatMember
  <2> QED
    BY <1>2, <2>1, <2>2 DEF GetChatConversation
<1> QED
  BY <1>0, <1>3, <1>4 DEF AnswersNamed

LEMMA KeptMessages == ChatInv => MessagesKept
<1> SUFFICES ASSUME ChatInv PROVE MessagesKept
  OBVIOUS
<1>0. KeysUnique /\ MessagesOwned /\ ReadKept /\ DOMAIN msgs = 1..Len(msgs)
  BY DEF ChatInv, ChatTypeOK
<1>1. ASSUME NEW m \in DOMAIN msgs PROVE CanAccessConversation(Conversation(msgs[m].conv), msgs[m].sender)
  <2>1. PICK v \in convs : v.id = msgs[m].conv /\ CanAccessConversation(v, msgs[m].sender)
    BY <1>0 DEF MessagesOwned, Owned
  <2>2. Conversation(msgs[m].conv) = v
    BY <1>0, <2>1, TheConversation
  <2> QED
    BY <2>1, <2>2
<1> QED
  BY <1>0, <1>1 DEF MessagesKept, MessagesOwned, ReadKept

\* Whatever concurrent chat requests and marks interleave to, one request is
\* answered with one conversation that the asker can open, a group's count
\* is its members but for the updates that failed, and messages keep their
\* times and belong to a conversation of their sender.
THEOREM ChatConsistent == ChatSpec => []ChatAgrees
<1>1. ChatInv => ChatAgrees
  BY NamedOnce, KeptMessages DEF ChatInv, ChatAgrees
<1> QED
  BY ChatInvariance, <1>1, PTL

-----------------------------------------------------------------------------
(* The delivery worker *)

Broadcasts == {m \in Msgs : Kind[m] = "all"}
QueueSets ==
    [push : [Routines -> Seq(Msgs)], room : [Routines -> Seq(Seq(Msgs))], all : Seq(Broadcasts)]
Turns == [push : Routines, room : Routines]
Rooms ==
    [state : {"none", "running", "exited"}, ch : Seq(Msgs \cup {Ready}), buf : Seq(Msgs), armed : BOOLEAN]

ConsumersTypeOK ==
    /\ feed \in [Topics -> Seq(Msgs)] /\ log \in [Topics -> Seq(Msgs)]
    /\ next \in [Topics -> Nat] /\ \A t \in Topics : next[t] <= Len(log[t])
    /\ timers \subseteq Topics \X Msgs /\ marked \subseteq Topics \X Msgs
    /\ retries \in [Topics -> [Msgs -> Nat]] /\ dlq \in Seq(Msgs)

ClientsTypeOK ==
    /\ pool \subseteq Servers /\ turn \in [Servers -> Turns] /\ queue \in [Servers -> QueueSets]
    /\ sent \in [Servers -> SUBSET (Msgs \cup Seq(Msgs))]

RoomsTypeOK ==
    /\ room \in Rooms /\ accepted \in Seq(Msgs) /\ flushed \in Seq(Msgs)
    /\ room.state = "none" => room.ch = <<>> /\ room.buf = <<>>

JobTypeOK == ConsumersTypeOK /\ ClientsTypeOK /\ RoomsTypeOK /\ faults \in 0 .. MaxFaults

(* The places of a push on its way: where it is produced, unread in a topic, *)
(* put off, in a queue of its gateway's client, sent.                        *)
Spots == {"feed", "log", "timer", "queue", "sent"} \X (Topics \cup Routines) \X Nat
InFeed(m, t, k) == t \in Topics /\ k \in DOMAIN feed[t] /\ feed[t][k] = m
InLog(m, t, k) == t \in Topics /\ k \in DOMAIN log[t] /\ k > next[t] /\ log[t][k] = m
InTimer(m, t, k) == t \in Topics /\ k = 0 /\ <<t, m>> \in timers
InQueue(m, i, k) ==
    i \in Routines /\ k \in DOMAIN queue[ServerOf[m]].push[i] /\ queue[ServerOf[m]].push[i][k] = m
InSent(m, i, k) == i = 0 /\ k = 0 /\ m \in sent[ServerOf[m]]
At(m, p) ==
    \/ p[1] = "feed" /\ InFeed(m, p[2], p[3])
    \/ p[1] = "log" /\ InLog(m, p[2], p[3])
    \/ p[1] = "timer" /\ InTimer(m, p[2], p[3])
    \/ p[1] = "queue" /\ InQueue(m, p[2], p[3])
    \/ p[1] = "sent" /\ InSent(m, p[2], p[3])

Pushes == {m \in Msgs : Kind[m] = "push"}

\* A push is at one of these places at most.
OnePlace == \A m \in Pushes : \A p, q \in Spots : At(m, p) /\ At(m, q) => p = q

\* The places of a push come from different places it was at before.
LEMMA Moved ==
    ASSUME NEW m \in Pushes, \A p, q \in Spots : At(m, p) /\ At(m, q) => p = q, NEW g \in [Spots -> Spots],
           \A p \in Spots : At(m, p)' => At(m, g[p]),
           \A p, q \in Spots : At(m, p)' /\ At(m, q)' /\ g[p] = g[q] => p = q
    PROVE  \A p, q \in Spots : At(m, p)' /\ At(m, q)' => p = q
<1> SUFFICES ASSUME NEW p \in Spots, NEW q \in Spots, At(m, p)', At(m, q)' PROVE p = q
  OBVIOUS
<1>1. At(m, g[p]) /\ At(m, g[q]) /\ g[p] \in Spots /\ g[q] \in Spots
  OBVIOUS
<1> QED
  BY <1>1

LEMMA OnePlaceMeansOnce == ASSUME JobTypeOK, OnePlace PROVE PushedOnce
<1> SUFFICES ASSUME NEW m \in Msgs, Kind[m] = "push"
    PROVE  LET s == ServerOf[m]
               copies == {i \in Routines : m \in Range(queue[s].push[i])} IN
           /\ Cardinality(copies) + (IF m \in sent[s] THEN 1 ELSE 0) <= 1
           /\ \A i \in copies : Cardinality({j \in DOMAIN queue[s].push[i] : queue[s].push[i][j] = m}) = 1
  BY DEF PushedOnce
<1> DEFINE s == ServerOf[m]
           copies == {i \in Routines : m \in Range(queue[s].push[i])}
<1>1. m \in Pushes /\ s \in Servers /\ 0 \in Routines
  BY JobAssumption, FS_CardinalityType DEF Pushes
<1>2. \A i \in Routines : queue[s].push[i] \in Seq(Msgs)
  BY <1>1 DEF JobTypeOK, ClientsTypeOK, QueueSets
<1>3. \A i \in Routines : \A j \in DOMAIN queue[s].push[i] :
          queue[s].push[i][j] = m => <<"queue", i, j>> \in Spots /\ At(m, <<"queue", i, j>>)
  BY <1>2 DEF Spots, At, InQueue
<1>4. m \in sent[s] => <<"sent", 0, 0>> \in Spots /\ At(m, <<"sent", 0, 0>>)
  BY <1>1 DEF Spots, At, InSent
<1>5. \A i \in copies : \E j \in DOMAIN queue[s].push[i] : queue[s].push[i][j] = m
  BY DEF Range
<1>6. \A i, k \in copies : i = k
  BY <1>1, <1>3, <1>5 DEF OnePlace
<1>7. copies # {} => m \notin sent[s]
  BY <1>1, <1>3, <1>4, <1>5 DEF OnePlace
<1>8. \A i \in copies : Cardinality({j \in DOMAIN queue[s].push[i] : queue[s].push[i][j] = m}) = 1
  <2> SUFFICES ASSUME NEW i \in copies
      PROVE  Cardinality({j \in DOMAIN queue[s].push[i] : queue[s].push[i][j] = m}) = 1
    OBVIOUS
  <2>1. PICK j \in DOMAIN queue[s].push[i] : queue[s].push[i][j] = m
    BY <1>5
  <2> DEFINE J == {k \in DOMAIN queue[s].push[i] : queue[s].push[i][k] = m}
  <2>2. J = {j}
    <3>1. \A k \in DOMAIN queue[s].push[i] : queue[s].push[i][k] = m => k = j
      BY <1>1, <1>3, <2>1 DEF OnePlace
    <3> QED
      BY <2>1, <3>1
  <2> HIDE DEF J
  <2>3. Cardinality(J) = 1
    BY <2>2, FS_Singleton
  <2> QED
    BY <2>3 DEF J
<1>9. Cardinality(copies) + (IF m \in sent[s] THEN 1 ELSE 0) <= 1
  <2>1. CASE copies = {}
    <3> HIDE DEF copies
    <3> QED
      BY <2>1, FS_EmptySet
  <2>2. CASE copies # {}
    <3>1. PICK i \in copies : copies = {i}
      BY <1>6, <2>2
    <3> HIDE DEF copies
    <3>2. Cardinality(copies) = 1
      BY <3>1, FS_Singleton
    <3> QED
      BY <1>7, <2>2, <3>2
  <2> QED
    BY <2>1, <2>2
<1> QED
  BY <1>8, <1>9

\* One queue of a gateway's client is exchanged.
LEMMA QueueParts ==
    ASSUME NEW q \in QueueSets
    PROVE  /\ q.push \in [Routines -> Seq(Msgs)] /\ q.room \in [Routines -> Seq(Seq(Msgs))]
           /\ q.all \in Seq(Broadcasts)
           /\ \A i \in Routines, x \in Seq(Msgs) :
                 /\ [q EXCEPT !.push[i] = x] \in QueueSets
                 /\ [q EXCEPT !.push[i] = x].push = [q.push EXCEPT ![i] = x]
           /\ \A i \in Routines, x \in Seq(Seq(Msgs)) :
                 /\ [q EXCEPT !.room[i] = x] \in QueueSets
                 /\ [q EXCEPT !.room[i] = x].push = q.push
           /\ \A x \in Seq(Broadcasts) :
                 /\ [q EXCEPT !.all = x] \in QueueSets
                 /\ [q EXCEPT !.all = x].push = q.push
BY DEF QueueSets

LEMMA EmptyQueues == NoQueues \in QueueSets /\ \A i \in Routines : NoQueues.push[i] = <<>>
BY DEF NoQueues, QueueSets

LEMMA TurnTypes ==
    ASSUME ClientsTypeOK, NEW s \in Servers
    PROVE  /\ NextOf(s, "push") \in Routines /\ NextOf(s, "room") \in Routines
           /\ [turn[s] EXCEPT !.room = NextOf(s, "room")] \in Turns
           /\ Turned(s, "push") \in [Servers -> Turns]
           /\ [push |-> 0, room |-> 0] \in Turns
<1>1. turn[s] \in Turns
  BY DEF ClientsTypeOK
<1>2. Size \in Nat /\ Size # 0 /\ Routines = 0 .. Size - 1
  BY JobAssumption, FS_CardinalityType, FS_EmptySet DEF Size
<1>3. turn[s].push \in Nat /\ turn[s].room \in Nat
  BY <1>1, <1>2 DEF Turns
<1>4. turn[s]["push"] = turn[s].push /\ turn[s]["room"] = turn[s].room
  OBVIOUS
<1>5. NextOf(s, "push") \in Routines /\ NextOf(s, "room") \in Routines
  <2>1. \A k, n \in Nat : n # 0 => (k + 1) % n \in 0 .. n - 1
    OBVIOUS
  <2>2. (turn[s].push + 1) % Size \in 0 .. Size - 1 /\ (turn[s].room + 1) % Size \in 0 .. Size - 1
    BY <1>2, <1>3, <2>1
  <2> QED
    BY <1>2, <1>4, <2>2 DEF NextOf
<1>6. 0 \in Routines
  BY <1>2
<1>7. [turn[s] EXCEPT !["push"] = NextOf(s, "push")] \in Turns
  BY <1>1, <1>5 DEF Turns
<1>8. Turned(s, "push") \in [Servers -> Turns]
  <2> DEFINE r == [turn[s] EXCEPT !["push"] = NextOf(s, "push")]
  <2>1. Turned(s, "push") = [turn EXCEPT ![s] = r]
    BY DEF Turned
  <2> HIDE DEF r
  <2> QED
    BY <1>7, <2>1 DEF ClientsTypeOK, r
<1> QED
  BY <1>1, <1>5, <1>6, <1>8 DEF Turns

\* What broadcasts do to the queues.
PushQueuesKept == \A s \in Servers : queue'[s].push = queue[s].push

LEMMA BroadcastRoomEffect ==
    ASSUME ClientsTypeOK, NEW buf \in Seq(Msgs), BroadcastRoom(buf)
    PROVE  queue' \in [Servers -> QueueSets] /\ turn' \in [Servers -> Turns] /\ PushQueuesKept
<1>1. ASSUME NEW s \in Servers
      PROVE  queue'[s] \in QueueSets /\ queue'[s].push = queue[s].push /\ turn'[s] \in Turns
  <2>1. queue[s] \in QueueSets /\ turn[s] \in Turns
    BY DEF ClientsTypeOK
  <2>2. NextOf(s, "room") \in Routines /\ [turn[s] EXCEPT !.room = NextOf(s, "room")] \in Turns
    BY TurnTypes
  <2> DEFINE n == NextOf(s, "room")
             x == Append(queue[s].room[n], buf)
  <2>3. queue'[s] = IF s \in pool /\ Fits(s, "room") THEN [queue[s] EXCEPT !.room[n] = x] ELSE queue[s]
    BY DEF BroadcastRoom
  <2>4. x \in Seq(Seq(Msgs))
    BY <2>1, <2>2, QueueParts
  <2>5. turn'[s] = IF s \in pool THEN [turn[s] EXCEPT !.room = n] ELSE turn[s]
    BY DEF BroadcastRoom
  <2> HIDE DEF n, x
  <2>6. [queue[s] EXCEPT !.room[n] = x] \in QueueSets /\ [queue[s] EXCEPT !.room[n] = x].push = queue[s].push
    BY <2>1, <2>2, <2>4, QueueParts DEF n
  <2> QED
    BY <2>1, <2>2, <2>3, <2>5, <2>6 DEF n
<1>2. queue' = [s \in Servers |-> queue'[s]] /\ turn' = [s \in Servers |-> turn'[s]]
  BY DEF BroadcastRoom
<1> QED
  BY <1>1, <1>2 DEF PushQueuesKept

LEMMA BroadcastEffect ==
    ASSUME ClientsTypeOK, NEW m \in Broadcasts, Broadcast(m)
    PROVE  queue' \in [Servers -> QueueSets] /\ PushQueuesKept
<1>1. ASSUME NEW s \in Servers
      PROVE  queue'[s] \in QueueSets /\ queue'[s].push = queue[s].push
  <2>1. queue[s] \in QueueSets
    BY DEF ClientsTypeOK
  <2> DEFINE x == Append(queue[s].all, m)
  <2>2. queue'[s] = IF s \in pool /\ Len(queue[s].all) < Size THEN [queue[s] EXCEPT !.all = x] ELSE queue[s]
    BY DEF Broadcast
  <2>3. x \in Seq(Broadcasts)
    BY <2>1, QueueParts
  <2> HIDE DEF x
  <2> QED
    BY <2>1, <2>2, <2>3, QueueParts
<1>2. queue' = [s \in Servers |-> queue'[s]]
  BY DEF Broadcast
<1> QED
  BY <1>1, <1>2 DEF PushQueuesKept

-----------------------------------------------------------------------------
(* What becomes of a message that is handled *)

HandledAs(t, m) ==
    \/ m \in Transient \cup Mortal \/ faults' > 0
    \/ t = "online" /\ m \in Range(log'["offline"])
    \/ m \in Range(dlq')

Moves(t, m) == t = "online" /\ log' = [log EXCEPT !["offline"] = Append(@, m)]

\* What handling a message does to the topics and to its own record.
Effect(t, m) ==
    /\ log' = log \/ Moves(t, m)
    /\ dlq' = dlq \/ dlq' = Append(dlq, m)
    /\ retries' \in [Topics -> [Msgs -> Nat]]
    /\ faults' = faults \/ Fault
    /\ marked' = marked \/ marked' = marked \cup {<<t, m>>}

LEMMA InAppended ==
    ASSUME NEW S, NEW q \in Seq(S), NEW x \in S
    PROVE  x \in Range(Append(q, x)) /\ Range(q) \subseteq Range(Append(q, x))
<1>1. /\ Append(q, x)[Len(q) + 1] = x /\ Len(q) + 1 \in DOMAIN Append(q, x)
      /\ \A i \in DOMAIN q : i \in DOMAIN Append(q, x) /\ Append(q, x)[i] = q[i]
  OBVIOUS
<1> QED
  BY <1>1 DEF Range

LEMMA DeadLetterEffect ==
    ASSUME JobTypeOK, NEW t \in Topics, NEW m \in Msgs, DeadLetter(t, m), log' = log,
           retries' \in [Topics -> [Msgs -> Nat]]
    PROVE  Effect(t, m) /\ (t = "offline" /\ marked' # marked => HandledAs(t, m))
<1>1. dlq \in Seq(Msgs) /\ faults \in Nat /\ retries \in [Topics -> [Msgs -> Nat]]
  BY JobAssumption DEF JobTypeOK, ConsumersTypeOK
<1>2. m \in Range(Append(dlq, m))
  BY <1>1, InAppended
<1> QED
  BY <1>1, <1>2 DEF DeadLetter, Effect, HandledAs, Mark, Fault

LEMMA MoveEffect ==
    ASSUME JobTypeOK, NEW t \in Topics, NEW m \in Msgs, t = "online", MoveToOffline(t, m), UNCHANGED dlq,
           retries' \in [Topics -> [Msgs -> Nat]]
    PROVE  Effect(t, m) /\ (marked' # marked => HandledAs(t, m))
<1>1. log \in [Topics -> Seq(Msgs)] /\ "offline" \in Topics /\ faults \in Nat
  BY JobAssumption DEF JobTypeOK, ConsumersTypeOK, Topics
<1>2. m \in Range(Append(log["offline"], m))
  BY <1>1, InAppended
<1>3. Moves(t, m) => m \in Range(log'["offline"])
  BY <1>1, <1>2 DEF Moves
<1> QED
  BY <1>1, <1>3 DEF MoveToOffline, Effect, HandledAs, Mark, Fault, Moves

LEMMA RetryEffect ==
    ASSUME JobTypeOK, NEW t \in Topics, NEW m \in Msgs, NEW ok \in BOOLEAN, handlePushResult(t, m, ok)
    PROVE  /\ Effect(t, m)
           /\ ok => log' = log
           /\ ~ok /\ marked' # marked => HandledAs(t, m)
<1> DEFINE n == retries[t][m] + 1
           oneMore == [retries EXCEPT ![t][m] = n]
<1>1. retries \in [Topics -> [Msgs -> Nat]] /\ faults \in Nat
  BY JobAssumption DEF JobTypeOK, ConsumersTypeOK
<1>2. oneMore \in [Topics -> [Msgs -> Nat]]
  BY <1>1
<1> HIDE DEF oneMore
<1>3. CASE /\ UNCHANGED <<log, retries, dlq>> /\ (UNCHANGED faults \/ Fault)
           /\ UNCHANGED marked \/ Mark(t, m)
           /\ ok \/ m \in Transient \/ UNCHANGED marked
  BY <1>1, <1>3 DEF Effect, HandledAs, Mark, Fault
<1>4. CASE ~ok /\ retries' = oneMore /\ UNCHANGED <<log, marked, dlq, faults>>
  BY <1>2, <1>4 DEF Effect
<1>5. CASE ~ok /\ retries' = oneMore /\ t = "online" /\ MoveToOffline(t, m) /\ UNCHANGED dlq
  BY <1>2, <1>5, MoveEffect
<1>6. CASE ~ok /\ retries' = oneMore /\ t = "offline" /\ DeadLetter(t, m) /\ UNCHANGED log
  BY <1>2, <1>6, DeadLetterEffect
<1> QED
  BY <1>3, <1>4, <1>5, <1>6 DEF handlePushResult, checkRetry, oneMore

Enqueued(m) == \E i \in Routines : queue' = [queue EXCEPT ![ServerOf[m]].push[i] = Append(@, m)]

LEMMA EnqueuedKeeps ==
    ASSUME ClientsTypeOK, NEW m \in Msgs, Enqueued(m)
    PROVE  /\ Queued(ServerOf[m], m)'
           /\ \A s \in Servers, x \in Msgs : Queued(s, x) => Queued(s, x)'
<1>1. PICK i \in Routines : queue' = [queue EXCEPT ![ServerOf[m]].push[i] = Append(@, m)]
  BY DEF Enqueued
<1> DEFINE c == ServerOf[m]
           l == queue[c].push[i]
<1>2. c \in Servers /\ queue \in [Servers -> QueueSets] /\ queue[c] \in QueueSets /\ l \in Seq(Msgs)
  BY JobAssumption, QueueParts DEF ClientsTypeOK
<1>3. queue'[c].push = [queue[c].push EXCEPT ![i] = Append(l, m)] /\ \A v \in Servers : v # c => queue'[v] = queue[v]
  BY <1>1, <1>2 DEF QueueSets
<1>4. queue'[c].push[i] = Append(l, m) /\ \A j \in Routines : j # i => queue'[c].push[j] = queue[c].push[j]
  BY <1>2, <1>3, QueueParts
<1>5. m \in Range(Append(l, m)) /\ Range(l) \subseteq Range(Append(l, m))
  BY <1>2, InAppended
<1> HIDE DEF c
<1>6. Queued(c, m)'
  BY <1>4, <1>5 DEF Queued
<1>7. ASSUME NEW s \in Servers, NEW x \in Msgs, Queued(s, x) PROVE Queued(s, x)'
  <2>1. PICK j \in Routines : x \in Range(queue[s].push[j])
    BY <1>7 DEF Queued
  <2>2. x \in Range(queue'[s].push[j])
    BY <1>3, <1>4, <1>5, <2>1
  <2> QED
    BY <2>2 DEF Queued
<1> QED
  BY <1>6, <1>7 DEF c

LEMMA PushKeysEffect ==
    ASSUME JobTypeOK, NEW t \in Topics, NEW m \in Msgs, pushKeys(t, m)
    PROVE  /\ Effect(t, m) /\ UNCHANGED rooms /\ ClientsTypeOK' /\ sent' = sent
           /\ \/ PushQueuesKept /\ (marked' # marked => HandledAs(t, m))
              \/ log' = log /\ Enqueued(m)
<1> DEFINE s == ServerOf[m]
           n == NextOf(s, "push")
           x == Append(queue[s].push[n], m)
<1>1. s \in Servers /\ ClientsTypeOK /\ queue[s] \in QueueSets
  BY JobAssumption DEF JobTypeOK, ClientsTypeOK
<1>2. n \in Routines /\ Turned(s, "push") \in [Servers -> Turns]
  BY <1>1, TurnTypes
<1>3. x \in Seq(Msgs)
  BY <1>1, <1>2, QueueParts
<1>4. UNCHANGED <<pool, sent, rooms>>
  BY DEF pushKeys
<1>5. CASE queue' = queue /\ turn' \in {turn, Turned(s, "push")} /\ handlePushResult(t, m, FALSE)
  <2>1. Effect(t, m) /\ (marked' # marked => HandledAs(t, m))
    BY <1>5, RetryEffect
  <2>2. ClientsTypeOK'
    BY <1>1, <1>2, <1>4, <1>5 DEF ClientsTypeOK
  <2> QED
    BY <1>4, <1>5, <2>1, <2>2 DEF PushQueuesKept
<1>6. CASE /\ queue' = [queue EXCEPT ![s].push[n] = Append(@, m)]
           /\ turn' = Turned(s, "push") /\ handlePushResult(t, m, TRUE)
  <2>1. Effect(t, m) /\ log' = log
    BY <1>6, RetryEffect
  <2>2. queue' = [queue EXCEPT ![s] = [queue[s] EXCEPT !.push[n] = x]]
    BY <1>1, <1>6 DEF ClientsTypeOK
  <2>3. [queue[s] EXCEPT !.push[n] = x] \in QueueSets
    <3> HIDE DEF n, x
    <3> QED
      BY <1>1, <1>2, <1>3, QueueParts
  <2>4. queue' \in [Servers -> QueueSets]
    <3> DEFINE y == [queue[s] EXCEPT !.push[n] = x]
    <3> HIDE DEF y
    <3> QED
      BY <1>1, <2>2, <2>3 DEF ClientsTypeOK, y
  <2>5. Enqueued(m)
    BY <1>2, <1>6 DEF Enqueued
  <2>6. ClientsTypeOK'
    BY <1>1, <1>2, <1>4, <1>6, <2>4 DEF ClientsTypeOK
  <2> QED
    BY <1>4, <2>1, <2>5, <2>6
<1> QED
  BY <1>5, <1>6 DEF pushKeys

-----------------------------------------------------------------------------
(* The aggregator of a room *)

LEMMA MessagesType ==
    ASSUME NEW q, NEW n \in Nat
    PROVE  /\ Messages(q, n) \in Nat
           /\ \A k \in 0 .. n : Messages(q, k) <= Messages(q, n)
           /\ \A k \in 1 .. n : q[k] # Ready => Messages(q, k) # 0
           /\ Messages(q, 0) = 0
<1> DEFINE F(k) == {i \in 1 .. k : q[i] # Ready}
<1>1. \A k \in Nat : IsFiniteSet(1 .. k)
  BY FS_Interval
<1>2. \A k \in Nat : IsFiniteSet(F(k)) /\ Cardinality(F(k)) \in Nat
  BY <1>1, FS_Subset, FS_CardinalityType
<1>3. \A k \in 0 .. n : F(k) \subseteq F(n)
  OBVIOUS
<1>4. \A k \in 1 .. n : q[k] # Ready => k \in F(k)
  OBVIOUS
<1>5. F(0) = {}
  OBVIOUS
<1>6. \A k : Messages(q, k) = Cardinality(F(k))
  BY DEF Messages
<1> HIDE DEF F
<1>7. \A k \in 0 .. n : Cardinality(F(k)) <= Cardinality(F(n))
  BY <1>2, <1>3, FS_Subset
<1>8. \A k \in 1 .. n : q[k] # Ready => Cardinality(F(k)) # 0
  BY <1>2, <1>4, FS_EmptySet
<1> QED
  BY <1>2, <1>5, <1>6, <1>7, <1>8, FS_EmptySet

LEMMA MessagesAppend ==
    ASSUME NEW S, NEW q \in Seq(S), NEW x \in S
    PROVE  /\ \A k \in 0 .. Len(q) : Messages(Append(q, x), k) = Messages(q, k)
           /\ Messages(Append(q, x), Len(q) + 1) = Messages(q, Len(q)) + (IF x = Ready THEN 0 ELSE 1)
<1> DEFINE F(p, k) == {i \in 1 .. k : p[i] # Ready}
           a == Append(q, x)
           n == Len(q)
<1>1. n \in Nat /\ a[n + 1] = x /\ \A i \in 1 .. n : a[i] = q[i]
  OBVIOUS
<1> HIDE DEF a, n
<1>2. \A k \in 0 .. n : F(a, k) = F(q, k)
  BY <1>1
<1>3. F(a, n + 1) = IF x = Ready THEN F(q, n) ELSE F(q, n) \cup {n + 1}
  <2>1. \A i \in 1 .. n + 1 : i = n + 1 \/ i \in 1 .. n
    BY <1>1
  <2> QED
    BY <1>1, <2>1
<1>4. n + 1 \notin F(q, n)
  BY <1>1
<1>5. IsFiniteSet(F(q, n)) /\ Cardinality(F(q, n)) \in Nat
  <2>1. IsFiniteSet(1 .. n) /\ F(q, n) \in SUBSET (1 .. n)
    BY <1>1, FS_Interval
  <2> HIDE DEF F
  <2> QED
    BY <2>1, FS_Subset, FS_CardinalityType
<1>6. \A p, k : Messages(p, k) = Cardinality(F(p, k))
  BY DEF Messages
<1> HIDE DEF F
<1>7. Cardinality(F(q, n) \cup {n + 1}) = Cardinality(F(q, n)) + 1
  BY <1>4, <1>5, FS_AddElement
<1> QED
  BY <1>2, <1>3, <1>5, <1>6, <1>7 DEF a, n

LEMMA MessagesTail ==
    ASSUME NEW S, NEW q \in Seq(S), q # <<>>, NEW k \in 0 .. Len(q) - 1
    PROVE  Messages(q, k + 1) = Messages(Tail(q), k) + (IF q[1] = Ready THEN 0 ELSE 1)
<1> DEFINE t == Tail(q)
           A == {i \in 1 .. k : t[i] # Ready}
           B == {i \in 2 .. k + 1 : q[i] # Ready}
           C == {i \in 1 .. k + 1 : q[i] # Ready}
           f == [i \in A |-> i + 1]
<1>1. Len(q) \in Nat /\ k \in Nat /\ k + 1 <= Len(q) /\ \A i \in 1 .. k : t[i] = q[i + 1]
  OBVIOUS
<1> HIDE DEF t
<1>2. f \in Bijection(A, B)
  <2>1. f \in [A -> B]
    BY <1>1
  <2>2. \A i, j \in A : f[i] = f[j] => i = j
    BY <1>1
  <2>3. ASSUME NEW b \in B PROVE \E i \in A : f[i] = b
    <3>1. b - 1 \in 1 .. k /\ (b - 1) + 1 = b
      BY <1>1
    <3>2. b - 1 \in A
      BY <1>1, <3>1
    <3> QED
      BY <3>1, <3>2
  <2> HIDE DEF f, A, B
  <2> QED
    BY <2>1, <2>2, <2>3 DEF Bijection, Injection, Surjection, IsInjective
<1>3. C = IF q[1] = Ready THEN B ELSE B \cup {1}
  <2>1. \A i \in 1 .. k + 1 : i = 1 \/ i \in 2 .. k + 1
    BY <1>1
  <2>2. 1 \in 1 .. k + 1 /\ 2 .. k + 1 \subseteq 1 .. k + 1
    BY <1>1
  <2> QED
    BY <2>1, <2>2
<1>4. 1 \notin B
  BY <1>1
<1>5. IsFiniteSet(A) /\ Cardinality(A) \in Nat
  <2>1. A \in SUBSET (1 .. k)
    OBVIOUS
  <2> HIDE DEF A, f
  <2>2. IsFiniteSet(1 .. k)
    BY <1>1, FS_Interval
  <2> QED
    BY <2>1, <2>2, FS_Subset, FS_CardinalityType
<1>6. Messages(q, k + 1) = Cardinality(C) /\ Messages(t, k) = Cardinality(A)
  BY DEF Messages
<1> HIDE DEF A, B, C, f
<1>7. IsFiniteSet(B) /\ Cardinality(B) = Cardinality(A)
  BY <1>2, <1>5, FS_Bijection DEF ExistsBijection
<1>8. Cardinality(B \cup {1}) = Cardinality(B) + 1
  BY <1>4, <1>7, FS_AddElement
<1> QED
  BY <1>3, <1>5, <1>6, <1>7, <1>8 DEF t

\* The messages that were taken, and then those of a queue, are the accepted ones.
Ordered(acc, taken, q) ==
    /\ Len(acc) = Len(taken) + Messages(q, Len(q))
    /\ \A k \in DOMAIN taken : acc[k] = taken[k]
    /\ \A k \in DOMAIN q : q[k] # Ready => acc[Len(taken) + Messages(q, k)] = q[k]

LEMMA OrderedAppend ==
    ASSUME NEW acc \in Seq(Msgs), NEW taken \in Seq(Msgs), NEW q \in Seq(Msgs \cup {Ready}),
           Ordered(acc, taken, q), NEW x \in Msgs \cup {Ready}
    PROVE  Ordered(IF x = Ready THEN acc ELSE Append(acc, x), taken, Append(q, x))
<1> DEFINE a == Append(q, x)
           n == Len(q)
           l == Len(taken)
           new == IF x = Ready THEN acc ELSE Append(acc, x)
<1>1. /\ \A k \in 0 .. n : Messages(a, k) = Messages(q, k)
      /\ Messages(a, n + 1) = Messages(q, n) + (IF x = Ready THEN 0 ELSE 1)
  BY MessagesAppend
<1>2. /\ n \in Nat /\ Len(a) = n + 1 /\ a[n + 1] = x /\ \A k \in 1 .. n : a[k] = q[k]
      /\ DOMAIN a = 1 .. n + 1 /\ DOMAIN taken = 1 .. l /\ l \in Nat /\ Len(acc) \in Nat
  OBVIOUS
<1>3. /\ Messages(q, n) \in Nat
      /\ \A k \in 1 .. n : /\ Messages(q, k) \in Nat /\ Messages(q, k) <= Messages(q, n)
                           /\ q[k] # Ready => Messages(q, k) # 0
  BY <1>2, MessagesType
<1>4. /\ Len(acc) = l + Messages(q, n) /\ \A k \in 1 .. l : acc[k] = taken[k]
      /\ \A k \in 1 .. n : q[k] # Ready => acc[l + Messages(q, k)] = q[k]
  BY DEF Ordered
<1>5. /\ Len(new) = Len(acc) + (IF x = Ready THEN 0 ELSE 1) /\ \A k \in 1 .. Len(acc) : new[k] = acc[k]
      /\ x # Ready => new[Len(acc) + 1] = x
  OBVIOUS
<1> HIDE DEF a, n, l, new
<1>6. Len(new) = l + Messages(a, n + 1)
  BY <1>1, <1>2, <1>3, <1>4, <1>5
<1>7. \A k \in 1 .. l : new[k] = taken[k]
  BY <1>2, <1>3, <1>4, <1>5
<1>8. \A k \in 1 .. n + 1 : a[k] # Ready => new[l + Messages(a, k)] = a[k]
  <2> SUFFICES ASSUME NEW k \in 1 .. n + 1, a[k] # Ready PROVE new[l + Messages(a, k)] = a[k]
    OBVIOUS
  <2>1. CASE k = n + 1
    BY <1>1, <1>2, <1>3, <1>4, <1>5, <2>1
  <2>2. CASE k \in 1 .. n
    <3>1. Messages(a, k) = Messages(q, k) /\ a[k] = q[k] /\ q[k] # Ready
      BY <1>1, <1>2, <2>2
    <3>2. l + Messages(q, k) \in 1 .. Len(acc)
      BY <1>2, <1>3, <1>4, <2>2, <3>1
    <3> QED
      BY <1>4, <1>5, <2>2, <3>1, <3>2
  <2> QED
    BY <1>2, <2>1, <2>2
<1> QED
  BY <1>2, <1>6, <1>7, <1>8 DEF Ordered, a, l, new

LEMMA OrderedTail ==
    ASSUME NEW acc \in Seq(Msgs), NEW taken \in Seq(Msgs), NEW q \in Seq(Msgs \cup {Ready}), q # <<>>,
           Ordered(acc, taken, q)
    PROVE  Ordered(acc, IF q[1] = Ready THEN taken ELSE Append(taken, q[1]), Tail(q))
<1> DEFINE t == Tail(q)
           n == Len(q)
           l == Len(taken)
           new == IF q[1] = Ready THEN taken ELSE Append(taken, q[1])
           one == IF q[1] = Ready THEN 0 ELSE 1
<1>1. \A k \in 0 .. n - 1 : Messages(q, k + 1) = Messages(t, k) + one
  BY MessagesTail
<1>2. /\ n \in Nat \ {0} /\ Len(t) = n - 1 /\ \A k \in 1 .. n - 1 : t[k] = q[k + 1]
      /\ DOMAIN t = 1 .. n - 1 /\ DOMAIN taken = 1 .. l /\ l \in Nat /\ DOMAIN q = 1 .. n
  OBVIOUS
<1>3. /\ Len(new) = l + one /\ DOMAIN new = 1 .. l + one /\ \A k \in 1 .. l : new[k] = taken[k]
      /\ q[1] # Ready => new[l + 1] = q[1]
  OBVIOUS
<1>4. /\ Len(acc) = l + Messages(q, n) /\ \A k \in 1 .. l : acc[k] = taken[k]
      /\ \A k \in 1 .. n : q[k] # Ready => acc[l + Messages(q, k)] = q[k]
  BY DEF Ordered
<1>5. \A k \in 0 .. n : Messages(q, k) \in Nat /\ Messages(t, k) \in Nat
  BY MessagesType
<1>6. Messages(t, 0) = 0
  BY MessagesType
<1>7. one \in {0, 1} /\ (one = 0 <=> q[1] = Ready)
  OBVIOUS
<1> HIDE DEF t, n, l, new, one
<1>8. Messages(q, 1) = one
  BY <1>1, <1>2, <1>6, <1>7
<1>9. Len(acc) = Len(new) + Messages(t, n - 1)
  <2>1. n - 1 \in 0 .. n - 1 /\ n - 1 \in 0 .. n /\ (n - 1) + 1 = n
    BY <1>2
  <2>2. Messages(q, n) = Messages(t, n - 1) + one /\ Messages(t, n - 1) \in Nat
    BY <1>1, <1>5, <2>1
  <2> QED
    BY <1>2, <1>3, <1>4, <1>7, <2>2
<1>10. \A k \in 1 .. l + one : acc[k] = new[k]
  <2> SUFFICES ASSUME NEW k \in 1 .. l + one PROVE acc[k] = new[k]
    OBVIOUS
  <2>1. CASE k \in 1 .. l
    BY <1>3, <1>4, <2>1
  <2>2. CASE k = l + 1 /\ one = 1
    <3>1. 1 \in 1 .. n
      BY <1>2
    <3> QED
      BY <1>3, <1>4, <1>7, <1>8, <2>2, <3>1
  <2> QED
    BY <1>2, <1>7, <2>1, <2>2
<1>11. \A k \in 1 .. n - 1 : t[k] # Ready => acc[Len(new) + Messages(t, k)] = t[k]
  <2> SUFFICES ASSUME NEW k \in 1 .. n - 1, t[k] # Ready PROVE acc[Len(new) + Messages(t, k)] = t[k]
    OBVIOUS
  <2>1. k \in 0 .. n - 1 /\ k \in 0 .. n /\ k + 1 \in 1 .. n
    BY <1>2
  <2>2. Messages(q, k + 1) = Messages(t, k) + one /\ Messages(t, k) \in Nat /\ t[k] = q[k + 1]
    BY <1>1, <1>2, <1>5, <2>1
  <2>3. acc[l + Messages(q, k + 1)] = q[k + 1]
    BY <1>4, <2>1, <2>2
  <2>4. l + Messages(q, k + 1) = Len(new) + Messages(t, k)
    BY <1>2, <1>3, <1>7, <2>2
  <2> QED
    BY <2>2, <2>3, <2>4
<1> QED
  BY <1>2, <1>3, <1>9, <1>10, <1>11 DEF Ordered, t, new

Aggregator == RoomsTypeOK /\ RoomInOrder

LEMMA OrderedIs == RoomInOrder <=> Ordered(accepted, flushed \o room.buf, room.ch)
BY DEF RoomInOrder, Ordered

LEMMA RoomFacts ==
    ASSUME RoomsTypeOK
    PROVE  /\ room.ch \in Seq(Msgs \cup {Ready}) /\ room.buf \in Seq(Msgs) /\ flushed \o room.buf \in Seq(Msgs)
           /\ accepted \in Seq(Msgs) /\ flushed \in Seq(Msgs)
BY DEF RoomsTypeOK, Rooms

\* A message joins the queue of the aggregator, or finds it full.
LEMMA RoomTakes ==
    ASSUME Aggregator, NEW m \in Msgs, NEW r \in Rooms, r.ch = room.ch, r.buf = room.buf, r.state # "none",
           UNCHANGED flushed,
           \/ room' = [r EXCEPT !.ch = Append(@, m)] /\ accepted' = Append(accepted, m)
           \/ room' = r /\ accepted' = accepted
    PROVE  Aggregator'
<1>1. RoomsTypeOK /\ Ordered(accepted, flushed \o room.buf, room.ch)
  BY OrderedIs DEF Aggregator
<1>2. CASE room' = r /\ accepted' = accepted
  <2>1. RoomsTypeOK'
    BY <1>1, <1>2 DEF RoomsTypeOK
  <2>2. RoomInOrder'
    BY <1>1, <1>2 DEF RoomInOrder, Ordered
  <2> QED
    BY <2>1, <2>2 DEF Aggregator
<1>3. CASE room' = [r EXCEPT !.ch = Append(@, m)] /\ accepted' = Append(accepted, m)
  <2> DEFINE a == Append(room.ch, m)
  <2>1. a \in Seq(Msgs \cup {Ready}) /\ m \in Msgs \cup {Ready} /\ m # Ready /\ accepted' \in Seq(Msgs)
    BY <1>1, <1>3, RoomFacts, JobAssumption
  <2>2. Ordered(accepted', flushed \o room.buf, a)
    BY <1>1, <1>3, <2>1, RoomFacts, OrderedAppend
  <2> HIDE DEF a
  <2>3. room' \in Rooms /\ room'.ch = a /\ room'.buf = room.buf /\ room'.state # "none"
    BY <1>3, <2>1 DEF Rooms, a
  <2>4. RoomsTypeOK'
    BY <1>1, <2>1, <2>3 DEF RoomsTypeOK
  <2>5. RoomInOrder'
    BY <2>2, <2>3 DEF RoomInOrder, Ordered
  <2> QED
    BY <2>4, <2>5 DEF Aggregator
<1> QED
  BY <1>2, <1>3

LEMMA SignalFiresStep == ASSUME Aggregator, SignalFires PROVE Aggregator'
<1> DEFINE a == Append(room.ch, Ready)
<1>1. /\ RoomsTypeOK /\ Ordered(accepted, flushed \o room.buf, room.ch)
      /\ room.state = "running" /\ UNCHANGED <<accepted, flushed>>
  BY OrderedIs DEF Aggregator, SignalFires
<1>2. a \in Seq(Msgs \cup {Ready}) /\ Ordered(accepted, flushed \o room.buf, a)
  <2> DEFINE x == Ready
             c == flushed \o room.buf
             q == room.ch
  <2>1. x \in Msgs \cup {Ready}
    OBVIOUS
  <2>2. q \in Seq(Msgs \cup {Ready}) /\ accepted \in Seq(Msgs) /\ c \in Seq(Msgs) /\ Ordered(accepted, c, q)
    BY <1>1, RoomFacts
  <2> HIDE DEF x, c, q
  <2>3. Ordered(IF x = Ready THEN accepted ELSE Append(accepted, x), c, Append(q, x))
    BY <2>1, <2>2, OrderedAppend
  <2>4. Append(q, x) \in Seq(Msgs \cup {Ready})
    BY <2>1, <2>2
  <2> QED
    BY <2>3, <2>4 DEF x, c, q
<1>3. room.ch \in Seq(Msgs \cup {Ready}) /\ room \in Rooms
  BY <1>1 DEF RoomsTypeOK, Rooms
<1> HIDE DEF a
<1>4. PICK q \in {room.ch, a} : room' = [room EXCEPT !.armed = FALSE, !.ch = q]
  BY DEF SignalFires, a
<1>5. room' \in Rooms /\ room'.ch = q /\ room'.buf = room.buf /\ room'.state = "running"
  <2>1. q \in Seq(Msgs \cup {Ready})
    BY <1>2, <1>3
  <2> QED
    BY <1>1, <1>3, <1>4, <2>1 DEF Rooms
<1>6. RoomsTypeOK'
  BY <1>1, <1>5 DEF RoomsTypeOK
<1>7. RoomInOrder'
  BY <1>1, <1>2, <1>5 DEF RoomInOrder, Ordered
<1> QED
  BY <1>6, <1>7 DEF Aggregator

LEMMA PushprocTakeStep ==
    ASSUME Aggregator, PushprocTake
    PROVE  Aggregator' /\ (UNCHANGED <<queue, turn>> \/ \E buf \in Seq(Msgs) : BroadcastRoom(buf))
<1> DEFINE p == Head(room.ch)
           buf == IF p = Ready THEN room.buf ELSE Append(room.buf, p)
           t == Tail(room.ch)
           taken == flushed \o room.buf
<1>1. /\ RoomsTypeOK /\ Ordered(accepted, taken, room.ch) /\ room \in Rooms
      /\ room.state = "running" /\ room.ch # <<>> /\ UNCHANGED accepted
  BY OrderedIs DEF Aggregator, PushprocTake, RoomsTypeOK
<1>2. /\ room.ch \in Seq(Msgs \cup {Ready}) /\ room.buf \in Seq(Msgs) /\ flushed \in Seq(Msgs)
      /\ accepted \in Seq(Msgs) /\ taken \in Seq(Msgs)
  BY <1>1, RoomFacts
<1>3. p = room.ch[1] /\ p \in Msgs \cup {Ready} /\ t \in Seq(Msgs \cup {Ready})
  BY <1>1, <1>2
<1>4. Ordered(accepted, IF p = Ready THEN taken ELSE Append(taken, p), t)
  BY <1>1, <1>2, <1>3, OrderedTail
<1>5. buf \in Seq(Msgs)
  BY <1>2, <1>3
<1>6. flushed \o buf = IF p = Ready THEN taken ELSE Append(taken, p)
  <2>1. CASE p = Ready
    BY <2>1
  <2>2. CASE p # Ready
    <3>1. p \in Msgs
      BY <1>3, <2>2
    <3> DEFINE f == flushed
               b == room.buf
    <3>2. f \in Seq(Msgs) /\ b \in Seq(Msgs)
      BY <1>2
    <3> HIDE DEF f, b, p
    <3>3. f \o Append(b, p) = Append(f \o b, p)
      BY <3>1, <3>2
    <3> QED
      BY <2>2, <3>3 DEF f, b
  <2> QED
    BY <2>1, <2>2
<1>7. Ordered(accepted, flushed \o buf, t)
  BY <1>4, <1>6
<1>8. \/ /\ p = Ready /\ room.buf = <<>> /\ UNCHANGED <<queue, turn, flushed>>
         /\ room' = [room EXCEPT !.state = "exited", !.ch = t, !.armed = FALSE]
      \/ /\ room' = [room EXCEPT !.ch = t, !.buf = buf, !.armed = @ \/ Len(buf) = 1]
         /\ UNCHANGED <<queue, turn, flushed>>
      \/ /\ BroadcastRoom(buf) /\ flushed' = flushed \o buf
         /\ room' = [room EXCEPT !.ch = t, !.buf = <<>>, !.armed = TRUE]
  BY DEF PushprocTake, AfterFlush
<1> HIDE DEF p, buf, t, taken
<1>9. ASSUME NEW b \in Seq(Msgs), NEW f \in Seq(Msgs), flushed' = f, f \o b = flushed \o buf,
             room'.ch = t, room'.buf = b, room' \in Rooms, room'.state # "none"
      PROVE  Aggregator'
  <2>1. RoomsTypeOK'
    BY <1>1, <1>2, <1>9 DEF RoomsTypeOK
  <2>2. RoomInOrder'
    BY <1>1, <1>7, <1>9 DEF RoomInOrder, Ordered
  <2> QED
    BY <2>1, <2>2 DEF Aggregator
<1>10. CASE /\ p = Ready /\ room.buf = <<>> /\ UNCHANGED <<queue, turn, flushed>>
            /\ room' = [room EXCEPT !.state = "exited", !.ch = t, !.armed = FALSE]
  <2>1. room'.ch = t /\ room'.buf = room.buf /\ room' \in Rooms /\ room'.state # "none" /\ buf = room.buf
    BY <1>1, <1>3, <1>10 DEF Rooms, buf
  <2> QED
    BY <1>2, <1>9, <1>10, <2>1
<1>11. CASE /\ room' = [room EXCEPT !.ch = t, !.buf = buf, !.armed = @ \/ Len(buf) = 1]
            /\ UNCHANGED <<queue, turn, flushed>>
  <2>1. room'.ch = t /\ room'.buf = buf /\ room'.state # "none"
    BY <1>1, <1>11 DEF Rooms
  <2>2. room' \in Rooms
    <3> DEFINE a == room.armed \/ Len(buf) = 1
    <3>1. a \in BOOLEAN /\ room' = [room EXCEPT !.ch = t, !.buf = buf, !.armed = a]
      BY <1>11
    <3> HIDE DEF a
    <3> QED
      BY <1>1, <1>3, <1>5, <3>1 DEF Rooms
  <2> QED
    BY <1>2, <1>5, <1>9, <1>11, <2>1, <2>2
<1>12. CASE /\ BroadcastRoom(buf) /\ flushed' = flushed \o buf
            /\ room' = [room EXCEPT !.ch = t, !.buf = <<>>, !.armed = TRUE]
  <2> DEFINE none == <<>>
             f == flushed \o buf
  <2>1. room' = [room EXCEPT !.ch = t, !.buf = none, !.armed = TRUE]
    BY <1>12
  <2>2. f \in Seq(Msgs) /\ none \in Seq(Msgs) /\ f \o none = f
    BY <1>2, <1>5
  <2>3. f \o none = flushed \o buf /\ flushed' = f
    BY <1>12, <2>2
  <2> HIDE DEF none, f
  <2>4. room'.ch = t /\ room'.buf = none /\ room' \in Rooms /\ room'.state # "none"
    BY <1>1, <1>3, <2>1, <2>2 DEF Rooms
  <2>5. Aggregator'
    BY <1>9, <2>2, <2>3, <2>4
  <2> QED
    BY <1>5, <1>12, <2>5
<1> QED
  BY <1>8, <1>10, <1>11, <1>12

LEMMA PushRoomEffect ==
    ASSUME JobTypeOK, Aggregator, NEW t \in Topics, NEW m \in Msgs, PushRoom(t, m)
    PROVE  Effect(t, m) /\ UNCHANGED clients /\ Aggregator'
<1> DEFINE r == IF room.state = "none" THEN [NoRoom EXCEPT !.state = "running", !.armed = TRUE] ELSE room
           fits == Len(r.ch) < 2 * Batch
<1>1. room \in Rooms /\ (room.state = "none" => room.ch = <<>> /\ room.buf = <<>>)
  BY DEF Aggregator, RoomsTypeOK
<1>2. r \in Rooms /\ r.ch = room.ch /\ r.buf = room.buf /\ r.state # "none"
  <2>1. CASE room.state = "none"
    <3>1. r = [state |-> "running", ch |-> <<>>, buf |-> <<>>, armed |-> TRUE]
      BY <2>1 DEF NoRoom
    <3> QED
      BY <1>1, <2>1, <3>1 DEF Rooms
  <2>2. CASE room.state # "none"
    BY <1>1, <2>2
  <2> QED
    BY <2>1, <2>2
<1>3. /\ room' = IF fits THEN [r EXCEPT !.ch = Append(@, m)] ELSE r
      /\ accepted' = IF fits THEN Append(accepted, m) ELSE accepted
      /\ handlePushResult(t, m, fits) /\ UNCHANGED <<clients, flushed>>
  BY DEF PushRoom
<1>4. fits \in BOOLEAN
  OBVIOUS
<1> HIDE DEF fits, r
<1>5. Effect(t, m)
  BY <1>3, <1>4, RetryEffect
<1>6. Aggregator'
  BY <1>2, <1>3, RoomTakes
<1> QED
  BY <1>3, <1>5, <1>6

DueEffect(t, m) ==
    /\ Effect(t, m) /\ ClientsTypeOK' /\ sent' = sent /\ Aggregator'
    /\ \/ PushQueuesKept /\ (m \in Pushes /\ marked' # marked => HandledAs(t, m))
       \/ m \in Pushes /\ log' = log /\ Enqueued(m)

LEMMA AggregatorStays == ASSUME Aggregator, UNCHANGED rooms PROVE Aggregator'
BY DEF Aggregator, RoomsTypeOK, RoomInOrder, rooms

LEMMA DueHas ==
    ASSUME JobTypeOK, Aggregator, NEW t \in Topics, NEW m \in Msgs, Due(t, m)
    PROVE  DueEffect(t, m)
<1>0. ClientsTypeOK
  BY DEF JobTypeOK
<1>1. ASSUME UNCHANGED clients PROVE ClientsTypeOK' /\ sent' = sent /\ PushQueuesKept
  BY <1>0, <1>1 DEF ClientsTypeOK, clients, PushQueuesKept
<1>2. CASE Kind[m] = "push" /\ pushKeys(t, m)
  BY <1>2, PushKeysEffect, AggregatorStays DEF Pushes, DueEffect
<1>3. CASE Kind[m] = "room" /\ PushRoom(t, m)
  BY <1>1, <1>3, PushRoomEffect DEF Pushes, DueEffect
<1>4. CASE Kind[m] = "all" /\ Broadcast(m) /\ handlePushResult(t, m, TRUE) /\ UNCHANGED <<pool, turn, sent, rooms>>
  <2>1. Effect(t, m)
    BY <1>4, RetryEffect
  <2>2. queue' \in [Servers -> QueueSets] /\ PushQueuesKept
    BY <1>0, <1>4, BroadcastEffect DEF Broadcasts
  <2>3. ClientsTypeOK'
    BY <1>0, <1>4, <2>2 DEF ClientsTypeOK
  <2> QED
    BY <1>4, <2>1, <2>2, <2>3, AggregatorStays DEF Pushes, DueEffect
<1>5. CASE Kind[m] = "bad" /\ Mark(t, m) /\ UNCHANGED <<log, retries, dlq, faults, clients, rooms>>
  <2>1. Effect(t, m)
    BY <1>5 DEF Effect, Mark, JobTypeOK, ConsumersTypeOK
  <2> QED
    BY <1>1, <1>5, <2>1, AggregatorStays DEF Pushes, DueEffect
<1>6. CASE m \in Mortal /\ DeadLetter(t, m) /\ UNCHANGED <<log, retries, clients, rooms>>
  <2>1. Effect(t, m)
    <3>1. retries' \in [Topics -> [Msgs -> Nat]]
      BY <1>6 DEF JobTypeOK, ConsumersTypeOK
    <3> QED
      BY <1>6, <3>1, DeadLetterEffect
  <2>2. HandledAs(t, m)
    BY <1>6 DEF HandledAs
  <2> QED
    BY <1>1, <1>6, <2>1, <2>2, AggregatorStays DEF DueEffect
<1> QED
  BY <1>2, <1>3, <1>4, <1>5, <1>6 DEF Due, processMessage

-----------------------------------------------------------------------------
(* A push moves from one place to another *)

Others(m) == \A x \in Pushes \ {m} : \A p \in Spots : At(x, p)' => At(x, p)

LEMMA Transferred ==
    ASSUME OnePlace, NEW m \in Msgs, Others(m), NEW o \in Spots, NEW n \in Spots,
           m \in Pushes => /\ At(m, o) /\ ~At(m, o)'
                           /\ \A p \in Spots : At(m, p)' => p = n \/ At(m, p)
    PROVE  OnePlace'
<1> SUFFICES ASSUME NEW x \in Pushes, NEW p \in Spots, NEW q \in Spots, At(x, p)', At(x, q)' PROVE p = q
  BY DEF OnePlace, Pushes
<1>1. CASE x # m
  BY <1>1 DEF Others, OnePlace
<1>2. CASE x = m
  BY <1>2 DEF OnePlace
<1> QED
  BY <1>1, <1>2

LEMMA NothingNew == ASSUME OnePlace, \A x \in Pushes : \A p \in Spots : At(x, p)' => At(x, p) PROVE OnePlace'
BY DEF OnePlace, Pushes

LEMMA QueueKeptPlaces ==
    ASSUME PushQueuesKept, NEW x \in Msgs, NEW i, NEW k
    PROVE  InQueue(x, i, k)' <=> InQueue(x, i, k)
BY JobAssumption DEF PushQueuesKept, InQueue

LEMMA DuePlaces ==
    ASSUME JobTypeOK, NEW t \in Topics, NEW m \in Msgs, DueEffect(t, m), UNCHANGED feed,
           next' \in [Topics -> Nat], \A u \in Topics : next'[u] >= next[u], timers' \subseteq timers
    PROVE  Others(m) /\ \E n \in Spots : \A p \in Spots : At(m, p)' => p = n \/ At(m, p)
<1>1. log \in [Topics -> Seq(Msgs)] /\ next \in [Topics -> Nat] /\ sent' = sent
  BY DEF JobTypeOK, ConsumersTypeOK, DueEffect
<1>2. \A x \in Msgs : \A u, k :
          /\ InFeed(x, u, k)' => InFeed(x, u, k)
          /\ InTimer(x, u, k)' => InTimer(x, u, k)
          /\ InSent(x, u, k)' => InSent(x, u, k)
  BY <1>1 DEF InFeed, InTimer, InSent
<1>3. ASSUME NEW x \in Msgs, NEW u, NEW k \in Nat, InLog(x, u, k)', log'[u] = log[u] PROVE InLog(x, u, k)
  <2>1. u \in Topics /\ k > next'[u] /\ next'[u] >= next[u] /\ next[u] \in Nat /\ next'[u] \in Nat
    BY <1>1, <1>3 DEF InLog
  <2> QED
    BY <1>3, <2>1 DEF InLog
<1>4. PushQueuesKept \/ (log' = log /\ Enqueued(m))
  BY DEF DueEffect
<1>5. log' = log \/ Moves(t, m)
  BY DEF DueEffect, Effect
<1>6. "online" \in Topics /\ "offline" \in Topics /\ 0 \in Nat /\ ServerOf[m] \in Servers
  BY JobAssumption DEF Topics
<1>7. CASE log' = log /\ PushQueuesKept
  <2>1. \A x \in Msgs : \A p \in Spots : At(x, p)' => At(x, p)
    <3> SUFFICES ASSUME NEW x \in Msgs, NEW p \in Spots, At(x, p)' PROVE At(x, p)
      OBVIOUS
    <3>1. p[3] \in Nat
      BY DEF Spots
    <3> QED
      BY <1>2, <1>3, <1>7, <3>1, QueueKeptPlaces DEF At
  <2>2. <<"log", "online", 0>> \in Spots
    BY <1>6 DEF Spots
  <2> QED
    BY <2>1, <2>2 DEF Others, Pushes
<1>8. CASE Moves(t, m) /\ PushQueuesKept
  <2> DEFINE l == log["offline"]
             n == <<"log", "offline", Len(l) + 1>>
  <2>1. l \in Seq(Msgs) /\ Len(l) \in Nat
    BY <1>1, <1>6
  <2>2. log' = [log EXCEPT !["offline"] = Append(l, m)]
    BY <1>8 DEF Moves
  <2>3. log'["offline"] = Append(l, m) /\ \A u \in Topics : u # "offline" => log'[u] = log[u]
    BY <1>1, <1>6, <2>2
  <2> HIDE DEF l
  <2>4. ASSUME NEW x \in Msgs, NEW u, NEW k \in Nat, InLog(x, u, k)'
        PROVE  InLog(x, u, k) \/ (x = m /\ u = "offline" /\ k = Len(l) + 1)
    <3>1. CASE u # "offline"
      BY <1>3, <2>3, <2>4, <3>1 DEF InLog
    <3>2. CASE u = "offline"
      <4>1. /\ k \in 1 .. Len(l) + 1 /\ k > next'[u] /\ next'[u] >= next[u] /\ next[u] \in Nat /\ next'[u] \in Nat
            /\ Append(l, m)[k] = x
        <5>1. k \in DOMAIN log'["offline"] /\ k > next'[u] /\ u \in Topics /\ log'["offline"][k] = x
          BY <2>4, <3>2 DEF InLog
        <5>2. DOMAIN Append(l, m) = 1 .. Len(l) + 1
          BY <2>1
        <5> QED
          BY <1>1, <2>3, <5>1, <5>2
      <4>2. CASE k = Len(l) + 1
        BY <2>1, <3>2, <4>1, <4>2
      <4>3. CASE k \in 1 .. Len(l)
        BY <1>6, <2>1, <3>2, <4>1, <4>3 DEF InLog, l
      <4> QED
        BY <2>1, <4>1, <4>2, <4>3
    <3> QED
      BY <3>1, <3>2
  <2>5. \A x \in Msgs : \A p \in Spots : At(x, p)' => At(x, p) \/ (x = m /\ p = n)
    <3> SUFFICES ASSUME NEW x \in Msgs, NEW p \in Spots, At(x, p)' PROVE At(x, p) \/ (x = m /\ p = n)
      OBVIOUS
    <3>1. p[3] \in Nat /\ p = <<p[1], p[2], p[3]>>
      BY DEF Spots
    <3> QED
      BY <1>2, <1>8, <2>4, <3>1, QueueKeptPlaces DEF At
  <2>6. n \in Spots
    BY <1>6, <2>1 DEF Spots
  <2> QED
    BY <2>5, <2>6 DEF Others, Pushes
<1>9. CASE log' = log /\ Enqueued(m)
  <2>1. PICK i \in Routines : queue' = [queue EXCEPT ![ServerOf[m]].push[i] = Append(@, m)]
    BY <1>9 DEF Enqueued
  <2> DEFINE s == ServerOf[m]
             l == queue[s].push[i]
             n == <<"queue", i, Len(l) + 1>>
  <2>2. queue \in [Servers -> QueueSets]
    BY DEF JobTypeOK, ClientsTypeOK
  <2>3. l \in Seq(Msgs) /\ Len(l) \in Nat /\ queue[s] \in QueueSets /\ s \in Servers
    BY <1>6, <2>2, QueueParts
  <2>4. queue'[s].push = [queue[s].push EXCEPT ![i] = Append(l, m)] /\ \A v \in Servers : v # s => queue'[v] = queue[v]
    <3> DEFINE y == Append(l, m)
               c == [queue[s] EXCEPT !.push[i] = y]
    <3>1. y \in Seq(Msgs)
      BY <2>3
    <3>2. queue' = [queue EXCEPT ![s] = c]
      BY <2>1, <2>2, <2>3
    <3> HIDE DEF y
    <3>3. c.push = [queue[s].push EXCEPT ![i] = y]
      BY <2>3, <3>1, QueueParts
    <3> HIDE DEF c
    <3> QED
      BY <2>2, <2>3, <3>2, <3>3 DEF y
  <2>5. queue'[s].push[i] = Append(l, m) /\ \A j \in Routines : j # i => queue'[s].push[j] = queue[s].push[j]
    BY <2>3, <2>4, QueueParts
  <2> HIDE DEF l
  <2>6. ASSUME NEW x \in Msgs, NEW j, NEW k \in Nat, InQueue(x, j, k)'
        PROVE  InQueue(x, j, k) \/ (x = m /\ j = i /\ k = Len(l) + 1)
    <3>1. ServerOf[x] \in Servers
      BY JobAssumption
    <3>2. CASE ServerOf[x] # s \/ j # i
      BY <2>4, <2>5, <2>6, <3>1, <3>2 DEF InQueue
    <3>3. CASE ServerOf[x] = s /\ j = i
      <4>1. k \in 1 .. Len(l) + 1 /\ Append(l, m)[k] = x
        BY <2>3, <2>5, <2>6, <3>3 DEF InQueue
      <4>2. CASE k = Len(l) + 1
        BY <2>3, <3>3, <4>1, <4>2
      <4>3. CASE k \in 1 .. Len(l)
        BY <2>3, <3>3, <4>1, <4>3 DEF InQueue, l
      <4> QED
        BY <2>3, <4>1, <4>2, <4>3
    <3> QED
      BY <3>2, <3>3
  <2>7. \A x \in Msgs : \A p \in Spots : At(x, p)' => At(x, p) \/ (x = m /\ p = n)
    <3> SUFFICES ASSUME NEW x \in Msgs, NEW p \in Spots, At(x, p)' PROVE At(x, p) \/ (x = m /\ p = n)
      OBVIOUS
    <3>1. p[3] \in Nat /\ p = <<p[1], p[2], p[3]>>
      BY DEF Spots
    <3> QED
      BY <1>2, <1>3, <1>9, <2>6, <3>1 DEF At
  <2>8. n \in Spots
    BY <2>3 DEF Spots
  <2> QED
    BY <2>7, <2>8 DEF Others, Pushes
<1> QED
  BY <1>4, <1>5, <1>7, <1>8, <1>9

-----------------------------------------------------------------------------
(* The steps of the worker *)

WorkerInv == JobTypeOK /\ Aggregator /\ OnePlace /\ MarkedIsHandled

\* What is handled stays so, and what is marked now is handled.
LEMMA HandledStays ==
    ASSUME JobTypeOK, MarkedIsHandled,
           \A m \in Pushes :
              Queued(ServerOf[m], m) => Queued(ServerOf[m], m)' \/ m \in sent'[ServerOf[m]] \/ faults' > 0,
           \A s \in Servers : sent[s] \subseteq sent'[s],
           Range(log["offline"]) \subseteq Range(log'["offline"]), Range(dlq) \subseteq Range(dlq'),
           faults > 0 => faults' > 0,
           \A m \in Pushes, t \in Topics :
              <<t, m>> \in marked' /\ <<t, m>> \notin marked => HandledAs(t, m) \/ Queued(ServerOf[m], m)'
    PROVE  MarkedIsHandled'
<1> SUFFICES ASSUME NEW m \in Msgs, NEW t \in Topics, Kind[m] = "push", <<t, m>> \in marked',
                    m \notin Transient \cup Mortal
    PROVE  \/ Queued(ServerOf[m], m)' \/ m \in sent'[ServerOf[m]]
           \/ t = "online" /\ m \in Range(log'["offline"])
           \/ m \in Range(dlq')
           \/ faults' > 0
  BY Zenon DEF MarkedIsHandled
<1>1. m \in Pushes /\ ServerOf[m] \in Servers
  BY JobAssumption DEF Pushes
<1>2. CASE <<t, m>> \notin marked
  BY <1>1, <1>2 DEF HandledAs
<1>3. CASE <<t, m>> \in marked
  <2>1. \/ Queued(ServerOf[m], m) \/ m \in sent[ServerOf[m]]
        \/ t = "online" /\ m \in Range(log["offline"])
        \/ m \in Range(dlq)
        \/ faults > 0
    BY <1>3 DEF MarkedIsHandled
  <2> QED
    BY <1>1, <2>1
<1> QED
  BY <1>2, <1>3

\* A message that is taken from its place and handled.
LEMMA DueStep ==
    ASSUME WorkerInv, NEW t \in Topics, NEW m \in Msgs, DueEffect(t, m), UNCHANGED feed,
           next' \in [Topics -> Nat], \A u \in Topics : next'[u] >= next[u] /\ next'[u] <= Len(log[u]),
           timers' \subseteq timers, NEW o \in Spots, At(m, o), ~At(m, o)'
    PROVE  WorkerInv'
<1>1. JobTypeOK /\ ConsumersTypeOK /\ ClientsTypeOK /\ faults \in 0 .. MaxFaults /\ MaxFaults \in Nat
  BY JobAssumption DEF WorkerInv, JobTypeOK
<1>2. /\ log \in [Topics -> Seq(Msgs)] /\ dlq \in Seq(Msgs) /\ "offline" \in Topics
      /\ ServerOf[m] \in Servers
  BY <1>1, JobAssumption DEF ConsumersTypeOK, Topics
<1>3. /\ Effect(t, m) /\ ClientsTypeOK' /\ Aggregator' /\ sent' = sent
  BY DEF DueEffect
<1>4. /\ log' \in [Topics -> Seq(Msgs)] /\ \A u \in Topics : Len(log'[u]) >= Len(log[u])
      /\ Range(log["offline"]) \subseteq Range(log'["offline"])
  <2>1. CASE log' = log
    BY <1>2, <2>1
  <2>2. CASE Moves(t, m)
    <3> DEFINE l == log["offline"]
               a == Append(l, m)
    <3>1. l \in Seq(Msgs) /\ a \in Seq(Msgs) /\ Len(a) >= Len(l) /\ Range(l) \subseteq Range(a)
      BY <1>2, InAppended
    <3>2. log' = [log EXCEPT !["offline"] = a]
      BY <2>2 DEF Moves
    <3>3. \A u \in Topics : Len(log[u]) >= Len(log[u])
      BY <1>2
    <3> HIDE DEF a
    <3> QED
      BY <1>2, <3>1, <3>2, <3>3
  <2> QED
    BY <1>3, <2>1, <2>2 DEF Effect
<1>5. dlq' \in Seq(Msgs) /\ Range(dlq) \subseteq Range(dlq')
  <2>1. CASE dlq' = dlq
    BY <1>2, <2>1
  <2>2. CASE dlq' = Append(dlq, m)
    BY <1>2, <2>2, InAppended
  <2> QED
    BY <1>3, <2>1, <2>2 DEF Effect
<1>6. ConsumersTypeOK'
  <2>1. \A u \in Topics : next'[u] <= Len(log'[u])
    BY <1>2, <1>4
  <2>2. marked' \subseteq Topics \X Msgs /\ timers' \subseteq Topics \X Msgs
    BY <1>1, <1>3 DEF ConsumersTypeOK, Effect
  <2>3. feed' \in [Topics -> Seq(Msgs)] /\ retries' \in [Topics -> [Msgs -> Nat]]
    BY <1>1, <1>3 DEF ConsumersTypeOK, Effect
  <2> QED
    BY <1>4, <1>5, <2>1, <2>2, <2>3 DEF ConsumersTypeOK
<1>7. faults' \in 0 .. MaxFaults /\ (faults > 0 => faults' > 0)
  BY <1>1, <1>3 DEF Effect, Fault
<1>8. JobTypeOK'
  BY <1>3, <1>6, <1>7 DEF JobTypeOK, Aggregator
<1>9. OnePlace'
  <2>1. Others(m) /\ \E n \in Spots : \A p \in Spots : At(m, p)' => p = n \/ At(m, p)
    BY <1>1, DuePlaces
  <2> QED
    BY <2>1, Transferred DEF WorkerInv
<1>10. \A x \in Pushes : Queued(ServerOf[x], x) => Queued(ServerOf[x], x)'
  <2> SUFFICES ASSUME NEW x \in Pushes, Queued(ServerOf[x], x) PROVE Queued(ServerOf[x], x)'
    OBVIOUS
  <2>1. ServerOf[x] \in Servers
    BY JobAssumption DEF Pushes
  <2>2. CASE PushQueuesKept
    BY <2>1, <2>2 DEF Queued, PushQueuesKept
  <2>3. CASE Enqueued(m)
    BY <1>1, <2>1, <2>3, EnqueuedKeeps DEF Pushes
  <2> QED
    BY <2>2, <2>3 DEF DueEffect
<1>11. ASSUME NEW x \in Pushes, NEW u \in Topics, <<u, x>> \in marked', <<u, x>> \notin marked
       PROVE  HandledAs(u, x) \/ Queued(ServerOf[x], x)'
  <2>1. u = t /\ x = m /\ marked' # marked
    BY <1>3, <1>11 DEF Effect
  <2>2. CASE Enqueued(m)
    BY <1>1, <2>1, <2>2, EnqueuedKeeps
  <2> QED
    BY <1>11, <2>1, <2>2 DEF DueEffect
<1>12. MarkedIsHandled'
  BY <1>1, <1>3, <1>4, <1>5, <1>7, <1>10, <1>11, HandledStays DEF WorkerInv
<1> QED
  BY <1>3, <1>8, <1>9, <1>12 DEF WorkerInv

LEMMA ConsumeClaimStep == ASSUME WorkerInv, NEW t \in Topics, ConsumeClaim(t) PROVE WorkerInv'
<1>1. JobTypeOK /\ ConsumersTypeOK /\ Aggregator
  BY DEF WorkerInv, JobTypeOK
<1>2. /\ log[t] \in Seq(Msgs) /\ next[t] \in Nat /\ next[t] < Len(log[t]) /\ next \in [Topics -> Nat]
      /\ next' = [next EXCEPT ![t] = next[t] + 1] /\ UNCHANGED feed
  BY <1>1 DEF ConsumeClaim, ConsumersTypeOK
<1>3. PICK k \in Nat : k = next[t] + 1
  BY <1>2
<1>4. log[t][k] \in Msgs /\ k \in DOMAIN log[t]
  BY <1>2, <1>3
<1>5. PICK m \in Msgs : m = log[t][k]
  BY <1>4
<1> DEFINE o == <<"log", t, k>>
<1>6. o \in Spots /\ o[1] = "log" /\ o[2] = t /\ o[3] = k
  BY DEF Spots
<1>7. /\ next' \in [Topics -> Nat]
      /\ \A u \in Topics : next'[u] >= next[u] /\ next'[u] <= Len(log[u])
  <2>1. \A u \in Topics : next[u] \in Nat /\ next[u] <= Len(log[u])
    BY <1>1 DEF ConsumersTypeOK
  <2>2. next[t] + 1 <= Len(log[t])
    BY <1>2, <1>3, <1>4
  <2> QED
    BY <1>2, <2>1, <2>2
<1>8. \/ Due(t, m) /\ UNCHANGED timers
      \/ timers' = timers \cup {<<t, m>>} /\ UNCHANGED <<log, marked, retries, dlq, clients, rooms, faults>>
  BY <1>3, <1>5 DEF ConsumeClaim
<1>9. At(m, o) /\ ~At(m, o)'
  <2>1. InLog(m, t, k)
    BY <1>2, <1>3, <1>4, <1>5 DEF InLog
  <2>2. ~InLog(m, t, k)'
    <3>1. next'[t] = k
      BY <1>2, <1>3
    <3> QED
      BY <3>1 DEF InLog
  <2>3. At(m, o)
    BY <1>6, <2>1 DEF At
  <2>4. ~At(m, o)'
    BY <1>6, <2>2 DEF At
  <2> QED
    BY <2>3, <2>4
<1>10. CASE Due(t, m) /\ UNCHANGED timers
  <2>1. DueEffect(t, m)
    BY <1>1, <1>10, DueHas
  <2> HIDE DEF o
  <2> QED
    BY <1>2, <1>6, <1>7, <1>9, <1>10, <2>1, DueStep
<1>11. CASE timers' = timers \cup {<<t, m>>} /\ UNCHANGED <<log, marked, retries, dlq, clients, rooms, faults>>
  <2>1. JobTypeOK'
    <3>1. ConsumersTypeOK'
      <4>1. timers' \subseteq Topics \X Msgs
        BY <1>1, <1>11 DEF ConsumersTypeOK
      <4>2. \A u \in Topics : next'[u] <= Len(log'[u])
        BY <1>7, <1>11
      <4> QED
        BY <1>1, <1>2, <1>7, <1>11, <4>1, <4>2 DEF ConsumersTypeOK
    <3> QED
      BY <1>1, <1>11, <3>1 DEF JobTypeOK, ClientsTypeOK, RoomsTypeOK, clients, rooms
  <2>2. Aggregator'
    BY <1>1, <1>11, AggregatorStays
  <2>3. MarkedIsHandled'
    BY <1>11 DEF WorkerInv, MarkedIsHandled, Queued, clients
  <2> DEFINE n == <<"timer", t, 0>>
  <2>4. n \in Spots
    BY DEF Spots
  <2>5. \A x \in Msgs : \A u, i :
            /\ InFeed(x, u, i)' => InFeed(x, u, i)
            /\ InTimer(x, u, i)' => InTimer(x, u, i) \/ (x = m /\ u = t /\ i = 0)
            /\ InQueue(x, u, i)' => InQueue(x, u, i)
            /\ InSent(x, u, i)' => InSent(x, u, i)
    BY <1>2, <1>11 DEF InFeed, InTimer, InQueue, InSent, clients
  <2>6. \A x \in Msgs : \A u : \A i \in Nat : InLog(x, u, i)' => InLog(x, u, i)
    BY <1>2, <1>7, <1>11 DEF InLog
  <2>7. \A x \in Msgs : \A p \in Spots : At(x, p)' => At(x, p) \/ (x = m /\ p = n)
    <3> SUFFICES ASSUME NEW x \in Msgs, NEW p \in Spots, At(x, p)' PROVE At(x, p) \/ (x = m /\ p = n)
      OBVIOUS
    <3>1. p[3] \in Nat /\ p = <<p[1], p[2], p[3]>>
      BY DEF Spots
    <3> QED
      BY <2>5, <2>6, <3>1 DEF At
  <2> HIDE DEF n, o
  <2>8. Others(m) /\ \A p \in Spots : At(m, p)' => p = n \/ At(m, p)
    BY <2>7 DEF Others, Pushes
  <2>9. OnePlace'
    BY <1>6, <1>9, <2>4, <2>8, Transferred DEF WorkerInv
  <2> QED
    BY <2>1, <2>2, <2>3, <2>9 DEF WorkerInv
<1> QED
  BY <1>8, <1>10, <1>11

LEMMA ProcessDueStep ==
    ASSUME WorkerInv, NEW t \in Topics, NEW m \in Msgs, processDueMessage(t, m)
    PROVE  WorkerInv'
<1> DEFINE o == <<"timer", t, 0>>
<1>1. JobTypeOK /\ ConsumersTypeOK /\ Aggregator
  BY DEF WorkerInv, JobTypeOK
<1>2. <<t, m>> \in timers /\ timers' = timers \ {<<t, m>>} /\ Due(t, m) /\ UNCHANGED <<feed, next>>
  BY DEF processDueMessage
<1>3. o \in Spots /\ o[1] = "timer" /\ o[2] = t /\ o[3] = 0
  BY DEF Spots
<1>4. InTimer(m, t, 0) /\ ~InTimer(m, t, 0)'
  BY <1>2 DEF InTimer
<1>5. At(m, o)
  BY <1>3, <1>4 DEF At
<1>6. ~At(m, o)'
  BY <1>3, <1>4 DEF At, o
<1>7. /\ next' \in [Topics -> Nat]
      /\ \A u \in Topics : next'[u] >= next[u] /\ next'[u] <= Len(log[u])
  BY <1>1, <1>2 DEF ConsumersTypeOK
<1>8. DueEffect(t, m)
  BY <1>1, <1>2, DueHas
<1> HIDE DEF o
<1> QED
  BY <1>2, <1>3, <1>5, <1>6, <1>7, <1>8, DueStep

\* A push that is produced moves from the producer to the topic, and those
\* behind it are one place nearer.
LEMMA ProduceStep == ASSUME WorkerInv, NEW t \in Topics, Produce(t) PROVE WorkerInv'
<1>1. JobTypeOK /\ ConsumersTypeOK /\ Aggregator
  BY DEF WorkerInv, JobTypeOK
<1>2. /\ feed \in [Topics -> Seq(Msgs)] /\ log \in [Topics -> Seq(Msgs)] /\ next \in [Topics -> Nat]
      /\ feed[t] \in Seq(Msgs) /\ log[t] \in Seq(Msgs) /\ feed[t] # <<>> /\ next[t] <= Len(log[t]) /\ next[t] \in Nat
  BY <1>1 DEF Produce, ConsumersTypeOK
<1>3. PICK m \in Msgs : m = Head(feed[t])
  BY <1>2
<1>4. PICK l \in Nat : l = Len(log[t]) + 1
  BY <1>2
<1>5. /\ log' = [log EXCEPT ![t] = Append(log[t], m)] /\ feed' = [feed EXCEPT ![t] = Tail(feed[t])]
      /\ UNCHANGED <<next, timers, marked, retries, dlq, clients, rooms, faults>>
  BY <1>3 DEF Produce
<1>6. /\ feed' \in [Topics -> Seq(Msgs)] /\ log' \in [Topics -> Seq(Msgs)]
      /\ feed'[t] = Tail(feed[t]) /\ log'[t] = Append(log[t], m)
      /\ \A u \in Topics \ {t} : feed'[u] = feed[u] /\ log'[u] = log[u]
  BY <1>2, <1>5
<1>7. /\ DOMAIN feed'[t] = 1 .. Len(feed[t]) - 1 /\ \A k \in 1 .. Len(feed[t]) - 1 : feed'[t][k] = feed[t][k + 1]
      /\ DOMAIN feed[t] = 1 .. Len(feed[t]) /\ feed[t][1] = m /\ Len(feed[t]) \in Nat \ {0}
      /\ DOMAIN log'[t] = 1 .. l /\ \A k \in 1 .. l - 1 : log'[t][k] = log[t][k] /\ log'[t][l] = m
      /\ DOMAIN log[t] = 1 .. l - 1 /\ Len(log[t]) = l - 1 /\ Len(log'[t]) = l
  BY <1>2, <1>3, <1>4, <1>6
<1>8. JobTypeOK'
  <2>1. \A u \in Topics : next'[u] <= Len(log'[u])
    BY <1>1, <1>2, <1>4, <1>5, <1>6, <1>7 DEF ConsumersTypeOK
  <2>2. ConsumersTypeOK'
    BY <1>1, <1>5, <1>6, <2>1 DEF ConsumersTypeOK
  <2> QED
    BY <1>1, <1>5, <2>2 DEF JobTypeOK, ClientsTypeOK, RoomsTypeOK, clients, rooms
<1>9. Aggregator'
  BY <1>1, <1>5, AggregatorStays
<1>10. MarkedIsHandled'
  <2>1. Range(log["offline"]) \subseteq Range(log'["offline"])
    BY <1>2, <1>3, <1>6, InAppended DEF Topics
  <2> QED
    BY <1>1, <1>5, <2>1, HandledStays DEF WorkerInv, Queued, clients
<1>11. OnePlace'
  <2> DEFINE g == [p \in Spots |-> IF p[1] = "log" /\ p[2] = t /\ p[3] = l THEN <<"feed", t, 1>>
                                  ELSE IF p[1] = "feed" /\ p[2] = t THEN <<"feed", t, p[3] + 1>>
                                  ELSE p]
  <2>1. g \in [Spots -> Spots]
    BY DEF Spots
  <2>2. ASSUME NEW x \in Msgs, NEW u, NEW k \in Nat, InFeed(x, u, k)'
        PROVE  /\ u # t => InFeed(x, u, k)
               /\ u = t => InFeed(x, u, k + 1) /\ k # 0
    <3>1. u # t => InFeed(x, u, k)
      BY <1>6, <2>2 DEF InFeed
    <3>2. ASSUME u = t PROVE k \in 1 .. Len(feed[t]) - 1 /\ feed[t][k + 1] = x
      BY <1>7, <2>2, <3>2 DEF InFeed
    <3>3. ASSUME u = t PROVE k + 1 \in 1 .. Len(feed[t]) /\ k # 0
      BY <1>7, <3>2, <3>3
    <3> QED
      BY <1>7, <3>1, <3>2, <3>3 DEF InFeed
  <2>3. ASSUME NEW x \in Msgs, NEW u, NEW k \in Nat, InLog(x, u, k)'
        PROVE  IF u = t /\ k = l THEN InFeed(x, t, 1) ELSE InLog(x, u, k)
    BY <1>5, <1>6, <1>7, <2>3 DEF InFeed, InLog
  <2>4. \A x \in Msgs : \A u, k :
            /\ InTimer(x, u, k)' => InTimer(x, u, k)
            /\ InQueue(x, u, k)' => InQueue(x, u, k)
            /\ InSent(x, u, k)' => InSent(x, u, k)
    BY <1>5 DEF InTimer, InQueue, InSent, clients
  <2>5. ASSUME NEW x \in Pushes, NEW p \in Spots, At(x, p)'
        PROVE  At(x, g[p]) /\ (p[1] = "feed" => p[3] # 0)
    <3>1. p[3] \in Nat /\ p = <<p[1], p[2], p[3]>> /\ x \in Msgs
      BY DEF Spots, Pushes
    <3>2. CASE p[1] = "feed" /\ p[2] = t
      <4>1. InFeed(x, t, p[3] + 1) /\ p[3] # 0
        BY <2>2, <2>5, <3>1, <3>2 DEF At
      <4>2. g[p] = <<"feed", t, p[3] + 1>>
        BY <3>2
      <4> QED
        BY <3>2, <4>1, <4>2 DEF At
    <3>3. CASE p[1] = "log" /\ p[2] = t /\ p[3] = l
      <4>1. InFeed(x, t, 1)
        BY <2>3, <2>5, <3>1, <3>3 DEF At
      <4>2. g[p] = <<"feed", t, 1>>
        BY <3>3
      <4> QED
        BY <3>3, <4>1, <4>2 DEF At
    <3>4. CASE ~(p[1] = "feed" /\ p[2] = t) /\ ~(p[1] = "log" /\ p[2] = t /\ p[3] = l)
      <4>1. g[p] = p
        BY <3>4
      <4>2. At(x, p) /\ (p[1] = "feed" => p[3] # 0)
        <5>1. p[1] = "feed" => InFeed(x, p[2], p[3]) /\ p[3] # 0
          <6>1. p[1] = "feed" => InFeed(x, p[2], p[3])
            BY <2>2, <2>5, <3>1, <3>4 DEF At
          <6>2. \A u \in Topics : 0 \notin DOMAIN feed[u]
            BY <1>2
          <6> QED
            BY <6>1, <6>2 DEF InFeed
        <5> QED
          BY <2>3, <2>4, <2>5, <3>1, <3>4, <5>1 DEF At
      <4> QED
        BY <4>1, <4>2
    <3> QED
      BY <3>2, <3>3, <3>4
  <2>6. ASSUME NEW x \in Pushes, NEW p \in Spots, NEW q \in Spots, At(x, p)', At(x, q)', g[p] = g[q]
        PROVE  p = q
    <3>1. (p[1] = "feed" => p[3] # 0) /\ (q[1] = "feed" => q[3] # 0)
      BY <2>5, <2>6
    <3>2. p[3] \in Nat /\ p = <<p[1], p[2], p[3]>> /\ q[3] \in Nat /\ q = <<q[1], q[2], q[3]>>
      BY DEF Spots
    <3>3. /\ g[p] = IF p[1] = "log" /\ p[2] = t /\ p[3] = l THEN <<"feed", t, 1>>
                    ELSE IF p[1] = "feed" /\ p[2] = t THEN <<"feed", t, p[3] + 1>> ELSE p
          /\ g[q] = IF q[1] = "log" /\ q[2] = t /\ q[3] = l THEN <<"feed", t, 1>>
                    ELSE IF q[1] = "feed" /\ q[2] = t THEN <<"feed", t, q[3] + 1>> ELSE q
      OBVIOUS
    <3> HIDE DEF g
    <3> DEFINE a == p[1]
               b == p[2]
               c == p[3]
               d == q[1]
               e == q[2]
               f == q[3]
    <3>4. /\ p = <<a, b, c>> /\ q = <<d, e, f>> /\ c \in Nat /\ f \in Nat
          /\ (a = "feed" => c # 0) /\ (d = "feed" => f # 0)
          /\ (IF a = "log" /\ b = t /\ c = l THEN <<"feed", t, 1>>
              ELSE IF a = "feed" /\ b = t THEN <<"feed", t, c + 1>> ELSE p)
             = (IF d = "log" /\ e = t /\ f = l THEN <<"feed", t, 1>>
                ELSE IF d = "feed" /\ e = t THEN <<"feed", t, f + 1>> ELSE q)
      BY <2>6, <3>1, <3>2, <3>3
    <3> HIDE DEF a, b, c, d, e, f
    <3>5. CASE a = "log" /\ b = t /\ c = l
      BY <3>4, <3>5
    <3>6. CASE a = "feed" /\ b = t
      BY <3>4, <3>6
    <3>7. CASE ~(a = "log" /\ b = t /\ c = l) /\ ~(a = "feed" /\ b = t)
      BY <3>4, <3>7
    <3> QED
      BY <3>5, <3>6, <3>7
  <2> HIDE DEF g
  <2>7. ASSUME NEW x \in Pushes PROVE \A p, q \in Spots : At(x, p)' /\ At(x, q)' => p = q
    <3>1. \A p, q \in Spots : At(x, p) /\ At(x, q) => p = q
      BY DEF WorkerInv, OnePlace
    <3> QED
      BY <2>1, <2>5, <2>6, <3>1, Moved
  <2> QED
    BY <2>7 DEF OnePlace, Pushes
<1> QED
  BY <1>8, <1>9, <1>10, <1>11 DEF WorkerInv

\* A queue of rooms or of broadcasts is one item shorter.
LEMMA SendOther ==
    ASSUME WorkerInv, NEW s \in Servers, NEW h \in Seq(Msgs) \cup Broadcasts, NEW c \in QueueSets,
           c.push = queue[s].push, queue' = [queue EXCEPT ![s] = c],
           \/ sent' = [sent EXCEPT ![s] = @ \cup {h}] /\ UNCHANGED faults
           \/ Fault /\ UNCHANGED sent,
           UNCHANGED <<consumers, pool, turn, rooms>>
    PROVE  WorkerInv'
<1>1. JobTypeOK /\ ConsumersTypeOK /\ ClientsTypeOK /\ Aggregator /\ faults \in 0 .. MaxFaults /\ MaxFaults \in Nat
  BY JobAssumption DEF WorkerInv, JobTypeOK
<1>2. \A v \in Servers : queue'[v] \in QueueSets /\ queue'[v].push = queue[v].push
  BY <1>1 DEF ClientsTypeOK
<1>3. PushQueuesKept
  BY <1>2 DEF PushQueuesKept
<1>4. /\ sent' \in [Servers -> SUBSET (Msgs \cup Seq(Msgs))]
      /\ \A v \in Servers : sent[v] \subseteq sent'[v] /\ sent'[v] \subseteq sent[v] \cup {h}
  <2>1. h \in Msgs \cup Seq(Msgs)
    BY DEF Broadcasts
  <2>2. CASE sent' = [sent EXCEPT ![s] = sent[s] \cup {h}]
    BY <1>1, <2>1, <2>2 DEF ClientsTypeOK
  <2>3. CASE sent' = sent
    BY <1>1, <2>3 DEF ClientsTypeOK
  <2> QED
    BY <1>1, <2>2, <2>3 DEF ClientsTypeOK
<1>5. JobTypeOK'
  <2>1. ClientsTypeOK'
    BY <1>1, <1>2, <1>4 DEF ClientsTypeOK
  <2>2. faults' \in 0 .. MaxFaults
    BY <1>1 DEF Fault
  <2> QED
    BY <1>1, <2>1, <2>2 DEF JobTypeOK, ConsumersTypeOK, RoomsTypeOK, consumers, rooms
<1>6. Aggregator'
  BY <1>1, AggregatorStays
<1>7. OnePlace'
  <2>1. \A x \in Pushes : x # h /\ x \in Msgs
    BY JobAssumption DEF Pushes, Broadcasts
  <2>2. ASSUME NEW x \in Pushes, NEW u, NEW k
        PROVE  /\ InFeed(x, u, k)' => InFeed(x, u, k)
               /\ InLog(x, u, k)' => InLog(x, u, k)
               /\ InTimer(x, u, k)' => InTimer(x, u, k)
    BY DEF InFeed, InLog, InTimer, consumers
  <2>3. ASSUME NEW x \in Pushes, NEW u, NEW k
        PROVE  /\ InQueue(x, u, k)' => InQueue(x, u, k)
               /\ InSent(x, u, k)' => InSent(x, u, k)
    BY <1>3, <1>4, <2>1, JobAssumption, QueueKeptPlaces DEF InSent
  <2> QED
    BY <2>2, <2>3, NothingNew, WorkerInv DEF At, WorkerInv
<1>8. MarkedIsHandled'
  <2>1. \A m \in Pushes : Queued(ServerOf[m], m) => Queued(ServerOf[m], m)'
    BY <1>3, JobAssumption DEF Queued, PushQueuesKept, Pushes
  <2> QED
    BY <1>1, <1>4, <2>1, HandledStays DEF WorkerInv, Fault, consumers
<1> QED
  BY <1>5, <1>6, <1>7, <1>8 DEF WorkerInv

\* The head of a routine's queue is sent, and those behind it are one place
\* nearer; or the call failed.
LEMMA SendPush ==
    ASSUME WorkerInv, NEW s \in Servers, NEW i \in Routines, queue[s].push[i] # <<>>,
           queue' = [queue EXCEPT ![s] = [queue[s] EXCEPT !.push[i] = Tail(queue[s].push[i])]],
           \/ sent' = [sent EXCEPT ![s] = @ \cup {Head(queue[s].push[i])}] /\ UNCHANGED faults
           \/ Fault /\ UNCHANGED sent,
           UNCHANGED <<consumers, pool, turn, rooms>>
    PROVE  WorkerInv'
<1>1. JobTypeOK /\ ConsumersTypeOK /\ ClientsTypeOK /\ Aggregator /\ faults \in 0 .. MaxFaults /\ MaxFaults \in Nat
  BY JobAssumption DEF WorkerInv, JobTypeOK
<1> DEFINE l == queue[s].push[i]
<1>2. l \in Seq(Msgs) /\ queue[s] \in QueueSets /\ l # <<>> /\ Tail(l) \in Seq(Msgs)
  BY <1>1, QueueParts DEF ClientsTypeOK
<1>3. PICK h \in Msgs : h = Head(l)
  BY <1>2
<1>4. /\ DOMAIN l = 1 .. Len(l) /\ Len(l) \in Nat \ {0} /\ l[1] = h /\ DOMAIN Tail(l) = 1 .. Len(l) - 1
      /\ \A k \in 1 .. Len(l) - 1 : Tail(l)[k] = l[k + 1]
  BY <1>2, <1>3
<1>5. /\ queue' \in [Servers -> QueueSets] /\ queue'[s].push[i] = Tail(l)
      /\ \A j \in Routines \ {i} : queue'[s].push[j] = queue[s].push[j]
      /\ \A v \in Servers \ {s} : queue'[v] = queue[v]
  <2> DEFINE r == Tail(l)
             c == [queue[s] EXCEPT !.push[i] = r]
  <2>1. c \in QueueSets /\ c.push = [queue[s].push EXCEPT ![i] = r]
    <3>1. r \in Seq(Msgs)
      BY <1>2
    <3> HIDE DEF r
    <3> QED
      BY <1>2, <3>1, QueueParts
  <2>2. queue' = [queue EXCEPT ![s] = c] /\ queue \in [Servers -> QueueSets]
    BY <1>1 DEF ClientsTypeOK
  <2>3. queue[s].push \in [Routines -> Seq(Msgs)]
    BY <1>2, QueueParts
  <2> HIDE DEF c
  <2> QED
    BY <2>1, <2>2, <2>3
<1>6. /\ sent' \in [Servers -> SUBSET (Msgs \cup Seq(Msgs))]
      /\ \A v \in Servers : sent[v] \subseteq sent'[v] /\ (v # s => sent'[v] = sent[v])
      /\ sent'[s] \subseteq sent[s] \cup {h}
      /\ h \in sent'[s] \/ faults' > 0
  <2>1. CASE sent' = [sent EXCEPT ![s] = sent[s] \cup {h}]
    BY <1>1, <2>1 DEF ClientsTypeOK
  <2>2. CASE sent' = sent /\ Fault
    BY <1>1, <2>2 DEF ClientsTypeOK, Fault
  <2> QED
    BY <1>1, <1>3, <2>1, <2>2 DEF ClientsTypeOK
<1> HIDE DEF l
<1>7. JobTypeOK'
  <2>1. ClientsTypeOK'
    BY <1>1, <1>5, <1>6 DEF ClientsTypeOK
  <2>2. faults' \in 0 .. MaxFaults
    BY <1>1 DEF Fault
  <2> QED
    BY <1>1, <2>1, <2>2 DEF JobTypeOK, ConsumersTypeOK, RoomsTypeOK, consumers, rooms
<1>8. Aggregator'
  BY <1>1, AggregatorStays
<1>9. MarkedIsHandled'
  <2>1. ASSUME NEW x \in Pushes, Queued(ServerOf[x], x)
        PROVE  Queued(ServerOf[x], x)' \/ x \in sent'[ServerOf[x]] \/ faults' > 0
    <3>1. PICK j \in Routines : x \in Range(queue[ServerOf[x]].push[j])
      BY <2>1 DEF Queued
    <3>2. ServerOf[x] \in Servers
      BY JobAssumption DEF Pushes
    <3>3. CASE ServerOf[x] # s \/ j # i
      BY <1>5, <3>1, <3>2, <3>3 DEF Queued
    <3>4. CASE ServerOf[x] = s /\ j = i
      <4>1. PICK k \in 1 .. Len(l) : l[k] = x
        BY <1>4, <3>1, <3>4 DEF Range, l
      <4>2. CASE k = 1
        BY <1>4, <1>6, <3>4, <4>1, <4>2
      <4>3. CASE k # 1
        <5>1. k - 1 \in 1 .. Len(l) - 1 /\ (k - 1) + 1 = k
          BY <1>4, <4>3
        <5>2. x \in Range(queue'[s].push[i])
          BY <1>4, <1>5, <4>1, <5>1 DEF Range
        <5> QED
          BY <3>4, <5>2 DEF Queued
      <4> QED
        BY <4>2, <4>3
    <3> QED
      BY <3>3, <3>4
  <2>2. faults > 0 => faults' > 0
    BY <1>1 DEF Fault
  <2>3. UNCHANGED <<log, dlq, marked>>
    BY DEF consumers
  <2> QED
    BY <1>1, <1>6, <2>1, <2>2, <2>3, HandledStays DEF WorkerInv
<1>10. ASSUME NEW x \in Pushes PROVE \A p, q \in Spots : At(x, p)' /\ At(x, q)' => p = q
  <2>1. x \in Msgs /\ ServerOf[x] \in Servers
    BY JobAssumption DEF Pushes
  <2>2. ASSUME NEW u, NEW k
        PROVE  /\ InFeed(x, u, k)' => InFeed(x, u, k)
               /\ InLog(x, u, k)' => InLog(x, u, k)
               /\ InTimer(x, u, k)' => InTimer(x, u, k)
    BY DEF InFeed, InLog, InTimer, consumers
  <2>3. \A p, q \in Spots : At(x, p) /\ At(x, q) => p = q
    BY DEF WorkerInv, OnePlace
  <2>4. CASE ServerOf[x] # s
    <3>1. \A u, k : (InQueue(x, u, k)' => InQueue(x, u, k)) /\ (InSent(x, u, k)' => InSent(x, u, k))
      BY <1>5, <1>6, <2>1, <2>4 DEF InQueue, InSent
    <3>2. \A p \in Spots : At(x, p)' => At(x, p)
      BY <2>2, <3>1 DEF At
    <3> QED
      BY <2>3, <3>2
  <2>5. CASE ServerOf[x] = s
    <3> DEFINE moves(p) == p[1] = "sent" /\ ~InSent(x, p[2], p[3])
               g == [p \in Spots |-> IF moves(p) THEN <<"queue", i, 1>>
                                     ELSE IF p[1] = "queue" /\ p[2] = i THEN <<"queue", i, p[3] + 1>>
                                     ELSE p]
    <3>1. g \in [Spots -> Spots]
      BY DEF Spots
    <3>2. ASSUME NEW u, NEW k \in Nat, InQueue(x, u, k)'
          PROVE  /\ u # i => InQueue(x, u, k)
                 /\ u = i => InQueue(x, u, k + 1) /\ k # 0
      <4>1. u # i => InQueue(x, u, k)
        BY <1>5, <2>5, <3>2 DEF InQueue
      <4>2. ASSUME u = i PROVE k \in 1 .. Len(l) - 1 /\ l[k + 1] = x
        BY <1>4, <1>5, <2>5, <3>2, <4>2 DEF InQueue
      <4>3. ASSUME u = i PROVE k + 1 \in 1 .. Len(l) /\ k # 0
        BY <1>4, <4>2, <4>3
      <4> QED
        BY <1>4, <2>5, <4>1, <4>2, <4>3 DEF InQueue, l
    <3>3. ASSUME NEW u, NEW k, InSent(x, u, k)', ~InSent(x, u, k)
          PROVE  InQueue(x, i, 1) /\ u = 0 /\ k = 0
      <4>1. x = h /\ u = 0 /\ k = 0
        BY <1>6, <2>5, <3>3 DEF InSent
      <4>2. 1 \in DOMAIN l /\ l[1] = x
        BY <1>4, <4>1
      <4> QED
        BY <2>5, <4>1, <4>2 DEF InQueue, l
    <3>4. \A u : ~InQueue(x, u, 0)
      <4>1. \A u \in Routines : 0 \notin DOMAIN queue[s].push[u]
        <5>1. \A u \in Routines : queue[s].push[u] \in Seq(Msgs)
          BY <1>2, QueueParts
        <5> QED
          BY <5>1
      <4> QED
        BY <2>5, <4>1 DEF InQueue
    <3>5. ASSUME NEW p \in Spots, At(x, p)'
          PROVE  /\ At(x, g[p]) /\ (p[1] = "queue" => p[3] # 0)
                 /\ moves(p) => p = <<"sent", 0, 0>>
      <4>1. p[3] \in Nat /\ p = <<p[1], p[2], p[3]>>
        BY DEF Spots
      <4>2. CASE p[1] = "queue" /\ p[2] = i
        <5>1. InQueue(x, i, p[3] + 1) /\ p[3] # 0
          BY <3>2, <3>5, <4>1, <4>2 DEF At
        <5>2. g[p] = <<"queue", i, p[3] + 1>> /\ ~moves(p)
          BY <4>2
        <5> HIDE DEF g, moves
        <5> QED
          BY <4>2, <5>1, <5>2 DEF At
      <4>3. CASE moves(p)
        <5>1. InQueue(x, i, 1) /\ p[2] = 0 /\ p[3] = 0 /\ p[1] = "sent"
          BY <3>3, <3>5, <4>3 DEF At
        <5>2. g[p] = <<"queue", i, 1>>
          BY <4>3
        <5> HIDE DEF g, moves
        <5> QED
          BY <4>1, <5>1, <5>2 DEF At
      <4>4. CASE ~(p[1] = "queue" /\ p[2] = i) /\ ~moves(p)
        <5>1. g[p] = p
          BY <4>4
        <5>2. At(x, p)
          BY <2>2, <3>2, <3>5, <4>1, <4>4 DEF At
        <5>3. p[1] = "queue" => p[3] # 0
          BY <3>4, <5>2 DEF At
        <5> HIDE DEF g, moves
        <5> QED
          BY <4>4, <5>1, <5>2, <5>3
      <4> QED
        BY <4>2, <4>3, <4>4
    <3>6. ASSUME NEW p \in Spots, NEW q \in Spots, At(x, p)', At(x, q)', g[p] = g[q]
          PROVE  p = q
      <4>1. /\ (p[1] = "queue" => p[3] # 0) /\ (q[1] = "queue" => q[3] # 0)
            /\ (moves(p) => p = <<"sent", 0, 0>>) /\ (moves(q) => q = <<"sent", 0, 0>>)
        <5> HIDE DEF g, moves
        <5> QED
          BY <3>5, <3>6
      <4>2. p[3] \in Nat /\ p = <<p[1], p[2], p[3]>> /\ q[3] \in Nat /\ q = <<q[1], q[2], q[3]>>
        BY DEF Spots
      <4>3. /\ g[p] = IF moves(p) THEN <<"queue", i, 1>>
                      ELSE IF p[1] = "queue" /\ p[2] = i THEN <<"queue", i, p[3] + 1>> ELSE p
            /\ g[q] = IF moves(q) THEN <<"queue", i, 1>>
                      ELSE IF q[1] = "queue" /\ q[2] = i THEN <<"queue", i, q[3] + 1>> ELSE q
        OBVIOUS
      <4> HIDE DEF g, moves
      <4> DEFINE a == p[1]
                 b == p[2]
                 c == p[3]
                 d == q[1]
                 e == q[2]
                 f == q[3]
      <4>4. /\ p = <<a, b, c>> /\ q = <<d, e, f>> /\ c \in Nat /\ f \in Nat
            /\ (a = "queue" => c # 0) /\ (d = "queue" => f # 0)
            /\ (moves(p) => p = <<"sent", 0, 0>>) /\ (moves(q) => q = <<"sent", 0, 0>>)
            /\ (IF moves(p) THEN <<"queue", i, 1>>
                ELSE IF a = "queue" /\ b = i THEN <<"queue", i, c + 1>> ELSE p)
               = (IF moves(q) THEN <<"queue", i, 1>>
                  ELSE IF d = "queue" /\ e = i THEN <<"queue", i, f + 1>> ELSE q)
        BY <3>6, <4>1, <4>2, <4>3
      <4> HIDE DEF a, b, c, d, e, f
      <4>5. CASE moves(p)
        BY <4>4, <4>5
      <4>6. CASE ~moves(p) /\ a = "queue" /\ b = i
        BY <4>4, <4>6
      <4>7. CASE ~moves(p) /\ ~(a = "queue" /\ b = i)
        BY <4>4, <4>7
      <4> QED
        BY <4>5, <4>6, <4>7
    <3> HIDE DEF g
    <3> QED
      BY <2>3, <3>1, <3>5, <3>6, Moved
  <2> QED
    BY <2>4, <2>5
<1>11. OnePlace'
  BY <1>10 DEF OnePlace, Pushes
<1> QED
  BY <1>7, <1>8, <1>9, <1>11 DEF WorkerInv

\* A step that only loses pushes, or puts none anywhere.
LEMMA KeepsStep ==
    ASSUME WorkerInv, JobTypeOK', Aggregator', UNCHANGED <<feed, log, marked, dlq, sent>>,
           \A u \in Topics : next'[u] >= next[u], timers' \subseteq timers,
           \/ PushQueuesKept
           \/ faults' > 0 /\ \A s \in Servers : queue'[s] \in {queue[s], NoQueues},
           faults > 0 => faults' > 0
    PROVE  WorkerInv'
<1>1. JobTypeOK /\ ConsumersTypeOK
  BY DEF WorkerInv, JobTypeOK
<1>2. \A x \in Pushes : x \in Msgs /\ ServerOf[x] \in Servers
  BY JobAssumption DEF Pushes
<1>3. ASSUME NEW x \in Pushes, NEW u, NEW k
      PROVE  /\ InFeed(x, u, k)' => InFeed(x, u, k)
             /\ InTimer(x, u, k)' => InTimer(x, u, k)
             /\ InSent(x, u, k)' => InSent(x, u, k)
  BY DEF InFeed, InTimer, InSent
<1>4. ASSUME NEW x \in Pushes, NEW u, NEW k \in Nat, InLog(x, u, k)' PROVE InLog(x, u, k)
  <2>1. /\ u \in Topics /\ k \in DOMAIN log[u] /\ k > next'[u] /\ log[u][k] = x
        /\ next'[u] >= next[u] /\ next[u] \in Nat
    BY <1>1, <1>4 DEF InLog, ConsumersTypeOK
  <2>2. next'[u] \in Nat
    BY <2>1 DEF JobTypeOK, ConsumersTypeOK
  <2> QED
    BY <2>1, <2>2 DEF InLog
<1>5. ASSUME NEW x \in Pushes, NEW u, NEW k, InQueue(x, u, k)' PROVE InQueue(x, u, k)
  <2>1. CASE PushQueuesKept
    BY <1>2, <1>5, <2>1, QueueKeptPlaces
  <2>2. CASE queue'[ServerOf[x]] \in {queue[ServerOf[x]], NoQueues}
    <3>1. NoQueues.push[u] = <<>> \/ u \notin Routines
      BY EmptyQueues
    <3> QED
      BY <1>5, <2>2, <3>1 DEF InQueue
  <2> QED
    BY <1>2, <2>1, <2>2
<1>6. \A x \in Pushes : \A p \in Spots : At(x, p)' => At(x, p)
  <2> SUFFICES ASSUME NEW x \in Pushes, NEW p \in Spots, At(x, p)' PROVE At(x, p)
    OBVIOUS
  <2>1. p[3] \in Nat
    BY DEF Spots
  <2> QED
    BY <1>3, <1>4, <1>5, <2>1 DEF At
<1>7. OnePlace'
  BY <1>6, NothingNew DEF WorkerInv
<1>8. \A x \in Pushes : Queued(ServerOf[x], x) => Queued(ServerOf[x], x)' \/ faults' > 0
  BY <1>2 DEF Queued, PushQueuesKept
<1>9. MarkedIsHandled'
  BY <1>1, <1>8, HandledStays DEF WorkerInv
<1> QED
  BY <1>7, <1>9 DEF WorkerInv

LEMMA SendStep == ASSUME WorkerInv, NEW s \in Servers, NEW i \in Routines, Send(s, i) PROVE WorkerInv'
<1>1. ClientsTypeOK /\ queue[s] \in QueueSets
  BY DEF WorkerInv, JobTypeOK, ClientsTypeOK
<1>2. /\ queue[s].push[i] \in Seq(Msgs) /\ queue[s].room[i] \in Seq(Seq(Msgs))
      /\ queue[s].all \in Seq(Broadcasts)
  BY <1>1, QueueParts
<1>3. PICK kind \in {"push", "room", "all"} :
          LET q == IF kind = "all" THEN queue[s].all ELSE queue[s][kind][i] IN
          /\ q # <<>>
          /\ queue' = [queue EXCEPT ![s] =
                IF kind = "all" THEN [@ EXCEPT !.all = Tail(q)] ELSE [@ EXCEPT ![kind][i] = Tail(q)]]
          /\ \/ sent' = [sent EXCEPT ![s] = @ \cup {Head(q)}] /\ UNCHANGED faults
             \/ Fault /\ UNCHANGED sent
  BY DEF Send
<1>4. UNCHANGED <<consumers, pool, turn, rooms>>
  BY DEF Send
<1>5. CASE kind = "push"
  <2> DEFINE q == queue[s].push[i]
  <2>1. /\ q # <<>> /\ queue' = [queue EXCEPT ![s] = [queue[s] EXCEPT !.push[i] = Tail(q)]]
        /\ \/ sent' = [sent EXCEPT ![s] = @ \cup {Head(q)}] /\ UNCHANGED faults
           \/ Fault /\ UNCHANGED sent
    BY <1>1, <1>3, <1>5 DEF ClientsTypeOK
  <2> QED
    BY <1>4, <2>1, SendPush
<1>6. CASE kind = "room"
  <2> DEFINE q == queue[s].room[i]
             r == Tail(q)
             c == [queue[s] EXCEPT !.room[i] = r]
  <2>1. /\ q # <<>> /\ queue' = [queue EXCEPT ![s] = c]
        /\ \/ sent' = [sent EXCEPT ![s] = @ \cup {Head(q)}] /\ UNCHANGED faults
           \/ Fault /\ UNCHANGED sent
    BY <1>1, <1>3, <1>6 DEF ClientsTypeOK
  <2>2. Head(q) \in Seq(Msgs) /\ r \in Seq(Seq(Msgs))
    BY <1>2, <2>1
  <2> HIDE DEF q, r
  <2>3. c \in QueueSets /\ c.push = queue[s].push
    BY <1>1, <2>2, QueueParts
  <2> HIDE DEF c
  <2> QED
    BY <1>4, <2>1, <2>2, <2>3, SendOther
<1>7. CASE kind = "all"
  <2> DEFINE q == queue[s].all
             r == Tail(q)
             c == [queue[s] EXCEPT !.all = r]
  <2>1. /\ q # <<>> /\ queue' = [queue EXCEPT ![s] = c]
        /\ \/ sent' = [sent EXCEPT ![s] = @ \cup {Head(q)}] /\ UNCHANGED faults
           \/ Fault /\ UNCHANGED sent
    BY <1>1, <1>3, <1>7 DEF ClientsTypeOK
  <2>2. Head(q) \in Broadcasts /\ r \in Seq(Broadcasts)
    BY <1>2, <2>1
  <2> HIDE DEF q, r
  <2>3. c \in QueueSets /\ c.push = queue[s].push
    BY <1>1, <2>2, QueueParts
  <2> HIDE DEF c
  <2> QED
    BY <1>4, <2>1, <2>2, <2>3, SendOther
<1> QED
  BY <1>5, <1>6, <1>7

LEMMA UpdateCometsStep == ASSUME WorkerInv, NEW s \in Servers, UpdateComets(s) PROVE WorkerInv'
<1>1. JobTypeOK /\ ConsumersTypeOK /\ ClientsTypeOK /\ Aggregator /\ faults \in 0 .. MaxFaults /\ MaxFaults \in Nat
  BY JobAssumption DEF WorkerInv, JobTypeOK
<1>2. /\ \/ Fault /\ queue' = [queue EXCEPT ![s] = NoQueues]
         \/ UNCHANGED <<queue, faults>>
      /\ turn' = [turn EXCEPT ![s] = [push |-> 0, room |-> 0]]
      /\ pool' \subseteq pool \cup {s}
      /\ UNCHANGED <<consumers, sent, rooms>>
  BY DEF UpdateComets
<1>3. ClientsTypeOK'
  <2>1. [push |-> 0, room |-> 0] \in Turns
    BY <1>1, TurnTypes
  <2>2. queue' \in [Servers -> QueueSets]
    BY <1>1, <1>2, EmptyQueues DEF ClientsTypeOK
  <2> DEFINE none == [push |-> 0, room |-> 0]
  <2>3. turn' = [turn EXCEPT ![s] = none] /\ none \in Turns
    BY <1>2, <2>1
  <2> HIDE DEF none
  <2>4. turn' \in [Servers -> Turns]
    BY <1>1, <2>3 DEF ClientsTypeOK
  <2> QED
    BY <1>1, <1>2, <2>2, <2>4 DEF ClientsTypeOK
<1>4. faults' \in 0 .. MaxFaults /\ (faults > 0 => faults' > 0) /\ (Fault => faults' > 0)
  BY <1>1, <1>2 DEF Fault
<1>5. JobTypeOK'
  BY <1>1, <1>2, <1>3, <1>4 DEF JobTypeOK, ConsumersTypeOK, RoomsTypeOK, consumers, rooms
<1>6. \/ PushQueuesKept
      \/ faults' > 0 /\ \A v \in Servers : queue'[v] \in {queue[v], NoQueues}
  BY <1>1, <1>2, <1>4 DEF PushQueuesKept, ClientsTypeOK
<1>7. \A u \in Topics : next'[u] >= next[u]
  BY <1>1, <1>2 DEF consumers, ConsumersTypeOK
<1>8. Aggregator'
  BY <1>1, <1>2, AggregatorStays
<1> QED
  BY <1>2, <1>4, <1>5, <1>6, <1>7, <1>8, KeepsStep DEF consumers

LEMMA RebalanceStep == ASSUME WorkerInv, NEW t \in Topics, Rebalance(t) PROVE WorkerInv'
<1>1. JobTypeOK /\ ConsumersTypeOK /\ Aggregator /\ faults \in 0 .. MaxFaults /\ MaxFaults \in Nat
  BY JobAssumption DEF WorkerInv, JobTypeOK
<1>2. /\ Fault /\ next' = [next EXCEPT ![t] = Len(log[t])] /\ timers' \subseteq timers
      /\ UNCHANGED <<feed, log, marked, retries, dlq, clients, rooms>>
  BY DEF Rebalance
<1>3. \A u \in Topics : next[u] \in Nat /\ next[u] <= Len(log[u]) /\ Len(log[u]) \in Nat
  BY <1>1 DEF ConsumersTypeOK
<1>4. /\ next' \in [Topics -> Nat]
      /\ \A u \in Topics : next'[u] <= Len(log[u]) /\ next'[u] >= next[u]
  BY <1>1, <1>2, <1>3 DEF ConsumersTypeOK
<1>5. faults' \in 0 .. MaxFaults /\ faults' > 0
  BY <1>1, <1>2 DEF Fault
<1>6. ConsumersTypeOK'
  BY <1>1, <1>2, <1>4 DEF ConsumersTypeOK
<1>7. JobTypeOK'
  BY <1>1, <1>2, <1>5, <1>6 DEF JobTypeOK, ClientsTypeOK, RoomsTypeOK, clients, rooms
<1>8. Aggregator'
  BY <1>1, <1>2, AggregatorStays
<1>9. PushQueuesKept
  BY <1>2 DEF clients, PushQueuesKept
<1> QED
  BY <1>2, <1>4, <1>5, <1>7, <1>8, <1>9, KeepsStep DEF clients

LEMMA NewAggregator == ASSUME room' = NoRoom, accepted' = <<>>, flushed' = <<>> PROVE Aggregator'
<1>1. RoomsTypeOK'
  BY DEF RoomsTypeOK, NoRoom, Rooms
<1>2. Messages(<<>>, 0) = 0
  BY MessagesType
<1>3. RoomInOrder'
  <2>1. room'.ch = <<>> /\ room'.buf = <<>>
    BY DEF NoRoom
  <2> QED
    BY <1>2, <2>1 DEF RoomInOrder
<1> QED
  BY <1>1, <1>3 DEF Aggregator

LEMMA RestartStep == ASSUME WorkerInv, Restart PROVE WorkerInv'
<1>1. JobTypeOK /\ ConsumersTypeOK /\ ClientsTypeOK /\ faults \in 0 .. MaxFaults /\ MaxFaults \in Nat
  BY JobAssumption DEF WorkerInv, JobTypeOK
<1>2. /\ Fault /\ next' = [u \in Topics |-> Len(log[u])] /\ timers' = {}
      /\ queue' = [s \in Servers |-> NoQueues]
      /\ turn' = [s \in Servers |-> [push |-> 0, room |-> 0]]
      /\ room' = NoRoom /\ accepted' = <<>> /\ flushed' = <<>>
      /\ UNCHANGED <<feed, log, marked, retries, dlq, pool, sent>>
  BY DEF Restart
<1>3. \A u \in Topics : next[u] \in Nat /\ next[u] <= Len(log[u]) /\ Len(log[u]) \in Nat
  BY <1>1 DEF ConsumersTypeOK
<1>4. /\ next' \in [Topics -> Nat]
      /\ \A u \in Topics : next'[u] <= Len(log[u]) /\ next'[u] >= next[u]
  BY <1>2, <1>3
<1>5. faults' \in 0 .. MaxFaults /\ faults' > 0
  BY <1>1, <1>2 DEF Fault
<1>6. ConsumersTypeOK'
  BY <1>1, <1>2, <1>4 DEF ConsumersTypeOK
<1>7. ClientsTypeOK'
  <2>1. 0 \in Routines
    BY JobAssumption, FS_CardinalityType
  <2>2. [push |-> 0, room |-> 0] \in Turns
    BY <2>1 DEF Turns
  <2> QED
    BY <1>1, <1>2, <2>2, EmptyQueues DEF ClientsTypeOK
<1>8. Aggregator'
  BY <1>2, NewAggregator
<1>9. JobTypeOK'
  BY <1>5, <1>6, <1>7, <1>8 DEF JobTypeOK, Aggregator
<1>10. \A s \in Servers : queue'[s] \in {queue[s], NoQueues}
  BY <1>2
<1> QED
  BY <1>2, <1>4, <1>5, <1>8, <1>9, <1>10, KeepsStep

LEMMA RoomStep == ASSUME WorkerInv, SignalFires \/ PushprocTake PROVE WorkerInv'
<1>1. JobTypeOK /\ ConsumersTypeOK /\ ClientsTypeOK /\ Aggregator /\ faults \in 0 .. MaxFaults /\ MaxFaults \in Nat
  BY JobAssumption DEF WorkerInv, JobTypeOK
<1>2. UNCHANGED <<consumers, pool, sent, faults>>
  BY DEF SignalFires, PushprocTake, clients
<1>3. Aggregator'
  BY <1>1, SignalFiresStep, PushprocTakeStep
<1>4. queue' \in [Servers -> QueueSets] /\ turn' \in [Servers -> Turns] /\ PushQueuesKept
  <2>1. CASE UNCHANGED <<queue, turn>>
    BY <1>1, <2>1 DEF ClientsTypeOK, PushQueuesKept
  <2>2. CASE \E buf \in Seq(Msgs) : BroadcastRoom(buf)
    BY <1>1, <2>2, BroadcastRoomEffect
  <2> QED
    BY <1>1, <2>1, <2>2, PushprocTakeStep DEF SignalFires, clients
<1>5. JobTypeOK'
  <2>1. ClientsTypeOK'
    BY <1>1, <1>2, <1>4 DEF ClientsTypeOK
  <2> QED
    BY <1>1, <1>2, <1>3, <2>1 DEF JobTypeOK, ConsumersTypeOK, Aggregator, consumers
<1>6. \A u \in Topics : next'[u] >= next[u]
  BY <1>1, <1>2 DEF consumers, ConsumersTypeOK
<1>7. UNCHANGED <<feed, log, marked, dlq, sent>> /\ timers' \subseteq timers /\ (faults > 0 => faults' > 0)
  BY <1>2 DEF consumers
<1> QED
  BY <1>3, <1>4, <1>5, <1>6, <1>7, KeepsStep

LEMMA JobInitInv == ASSUME JobInit PROVE WorkerInv
<1>2. feed \in Feeds /\ DOMAIN feed = Topics /\ feed \in [Topics -> Seq(Msgs)]
  BY JobAssumption DEF JobInit
<1>3. 0 \in Routines /\ 0 \in 0 .. MaxFaults
  BY JobAssumption, FS_CardinalityType
<1>4. ConsumersTypeOK
  <2>1. {0, MaxRetries - 1} \subseteq Nat
    BY JobAssumption
  <2>2. retries \in [Topics -> [Msgs -> Nat]]
    BY <2>1 DEF JobInit
  <2> QED
    BY <1>2, <2>2 DEF JobInit, ConsumersTypeOK
<1>5. ClientsTypeOK
  BY <1>3, EmptyQueues DEF JobInit, ClientsTypeOK, Turns
<1>6. Aggregator
  <2>1. RoomsTypeOK
    BY DEF JobInit, RoomsTypeOK, NoRoom, Rooms
  <2>2. Ordered(<<>>, <<>>, <<>>)
    BY MessagesType DEF Ordered
  <2>3. flushed \o room.buf = <<>> /\ accepted = <<>> /\ room.ch = <<>>
    BY DEF JobInit, NoRoom
  <2> QED
    BY <2>1, <2>2, <2>3, OrderedIs DEF Aggregator
<1>7. JobTypeOK
  BY <1>3, <1>4, <1>5, <1>6 DEF JobTypeOK, Aggregator, JobInit
<1>8. ASSUME NEW m \in Pushes, NEW p \in Spots, At(m, p)
      PROVE  p[1] = "feed" /\ InFeed(m, p[2], p[3])
  <2>1. ServerOf[m] \in Servers
    BY JobAssumption DEF Pushes
  <2>2. ~InLog(m, p[2], p[3]) /\ ~InTimer(m, p[2], p[3])
    BY DEF JobInit, InLog, InTimer
  <2>3. ~InQueue(m, p[2], p[3]) /\ ~InSent(m, p[2], p[3])
    BY <2>1, EmptyQueues DEF JobInit, InQueue, InSent
  <2> QED
    BY <1>8, <2>2, <2>3 DEF At
<1>9. OnePlace
  <2> SUFFICES ASSUME NEW m \in Pushes, NEW p \in Spots, NEW q \in Spots, At(m, p), At(m, q) PROVE p = q
    BY DEF OnePlace
  <2>1. /\ p[1] = "feed" /\ InFeed(m, p[2], p[3]) /\ q[1] = "feed" /\ InFeed(m, q[2], q[3])
        /\ p = <<p[1], p[2], p[3]>> /\ q = <<q[1], q[2], q[3]>>
    BY <1>8 DEF Spots
  <2>2. p[2] = q[2] /\ p[3] = q[3]
    BY <1>2, <2>1, JobAssumption DEF InFeed
  <2> QED
    BY <2>1, <2>2
<1>10. MarkedIsHandled
  BY DEF JobInit, MarkedIsHandled
<1> QED
  BY <1>6, <1>7, <1>9, <1>10 DEF WorkerInv

LEMMA WorkerAlways == JobSpec => []WorkerInv
<1>1. WorkerInv /\ UNCHANGED jobVars => WorkerInv'
  <2> SUFFICES ASSUME WorkerInv, UNCHANGED jobVars PROVE WorkerInv'
    OBVIOUS
  <2>1. JobTypeOK /\ ConsumersTypeOK /\ Aggregator
    BY DEF WorkerInv, JobTypeOK
  <2>2. UNCHANGED <<consumers, clients, rooms, faults>>
    BY DEF jobVars
  <2>3. JobTypeOK'
    BY <2>1, <2>2 DEF JobTypeOK, ConsumersTypeOK, ClientsTypeOK, RoomsTypeOK, consumers, clients, rooms
  <2>4. Aggregator'
    BY <2>1, <2>2, AggregatorStays
  <2>5. PushQueuesKept /\ \A u \in Topics : next'[u] >= next[u]
    BY <2>1, <2>2 DEF clients, consumers, PushQueuesKept, ConsumersTypeOK
  <2> QED
    BY <2>2, <2>3, <2>4, <2>5, KeepsStep DEF clients, consumers
<1>2. WorkerInv /\ JobNext => WorkerInv'
  <2> SUFFICES ASSUME WorkerInv, JobNext PROVE WorkerInv'
    OBVIOUS
  <2>1. CASE \E t \in Topics : Produce(t)
    BY <2>1, ProduceStep
  <2>2. CASE \E t \in Topics : ConsumeClaim(t)
    BY <2>2, ConsumeClaimStep
  <2>3. CASE \E t \in Topics : Rebalance(t)
    BY <2>3, RebalanceStep
  <2>4. CASE \E t \in Topics : \E m \in Msgs : processDueMessage(t, m)
    BY <2>4, ProcessDueStep
  <2>5. CASE \E s \in Servers : UpdateComets(s)
    BY <2>5, UpdateCometsStep
  <2>6. CASE \E s \in Servers : \E i \in Routines : Send(s, i)
    BY <2>6, SendStep
  <2>7. CASE SignalFires \/ PushprocTake
    BY <2>7, RoomStep
  <2>8. CASE Restart
    BY <2>8, RestartStep
  <2> QED
    BY <2>1, <2>2, <2>3, <2>4, <2>5, <2>6, <2>7, <2>8 DEF JobNext
<1>3. WorkerInv /\ [JobNext]_jobVars => WorkerInv'
  BY <1>1, <1>2
<1> QED
  BY <1>3, JobInitInv, PTL DEF JobSpec

\* The aggregator broadcasts what it took once and in the order of the topic
\* (getRoom, Room.Push, pushproc), also when a signal cuts a batch short, and
\* keeps what is left when its routine ends.
THEOREM RoomsInOrder == JobSpec => []RoomInOrder
<1>1. WorkerInv => RoomInOrder
  BY DEF WorkerInv, Aggregator
<1> QED
  BY <1>1, WorkerAlways, PTL

\* A push is handed to its gateway once at most, whichever way it takes:
\* put off by ConsumeClaim, moved to the offline topic by checkRetry with or
\* without an answer, read again by the next session.
THEOREM PushesOnce == JobSpec => []PushedOnce
<1>1. WorkerInv => PushedOnce
  BY OnePlaceMeansOnce DEF WorkerInv
<1> QED
  BY <1>1, WorkerAlways, PTL

\* handlePushResult and processDueMessage mark no push before it has been
\* handed to its gateway's client, moved or dead-lettered, but for what a
\* fault explains.
THEOREM MarksHandled == JobSpec => []MarkedIsHandled
<1>1. WorkerInv => MarkedIsHandled
  BY DEF WorkerInv
<1> QED
  BY <1>1, WorkerAlways, PTL

=============================================================================
