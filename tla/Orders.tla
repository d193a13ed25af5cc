------------------------------- MODULE Orders -------------------------------
(* The order operations of notify: requests that create an order, change    *)
(* its status or announce a logistics update. Each one writes a             *)
(* notification and an outbox row, and may carry an idempotency key with    *)
(* which a client repeats it. A transaction is one step; the reads before   *)
(* it and after a conflict are steps of their own, so that requests on      *)
(* several servers interleave between them.                                 *)
EXTENDS Integers, Sequences, FiniteSets

CONSTANTS
    Requests,       \* calls of the service
    Op,             \* [Requests -> Ops], which is also the scope of the key
    Key,            \* [Requests -> keys and NoKey]
    Target,         \* [Requests -> the order a request is about]
    NewStatus,      \* [Requests -> Statuses], for status changes
    Valid,          \* requests whose input passes the checks
    Existing,       \* orders from before, in status created
    MaxReloads,     \* how often a conflict looks for the key again (5)
    MaxActive,      \* bound: requests that are made at all
    NoKey, NoRequest

Ops == {"order_create", "purchase_order_create", "order_status_change", "logistics_update"}
Statuses == {"created", "paid", "confirmed", "shipped", "delivered", "cancelled",
             "delivery_failed"}
Creates(r) == Op[r] \in {"order_create", "purchase_order_create"}
Orders == Existing \cup {r \in Requests : Creates(r)}
Slots == Ops \X {Key[r] : r \in Requests}

ASSUME OrdersAssumption ==
    /\ Op \in [Requests -> Ops]
    /\ DOMAIN Key = Requests
    /\ NewStatus \in [Requests -> Statuses]
    /\ \A r \in Requests : Target[r] \in Orders /\ (Creates(r) => Target[r] = r)
    /\ Valid \subseteq Requests
    /\ Existing \cap Requests = {}
    /\ MaxReloads \in Nat
    /\ NoRequest \notin Requests

VARIABLES
    status,     \* orders.status, or none
    events,     \* order_status_events, in the order of their transactions
    rows,       \* notifications, each with its outbox row
    keys,       \* idempotency_keys: the request whose answer is stored
    at,         \* where each request is
    seen,       \* the order's status as the request read it
    tries,      \* how often it looked for the key after a conflict
    answer,     \* the request whose resources it was answered with
    counted     \* requests the scenario run has counted

vars == <<status, events, rows, keys, at, seen, tries, answer, counted>>
tables == <<status, events, rows, keys>>
local == <<seen, tries>>

Init ==
    /\ status = [o \in Orders |-> IF o \in Existing THEN "created" ELSE "none"]
    /\ events = <<>>
    /\ rows = {}
    /\ keys = [s \in Slots |-> NoRequest]
    /\ \E S \in {S \in SUBSET Requests : Cardinality(S) <= MaxActive} :
          at = [r \in Requests |-> IF r \in S THEN "new" ELSE "absent"]
    /\ seen = [r \in Requests |-> "none"]
    /\ tries = [r \in Requests |-> 0]
    /\ answer = [r \in Requests |-> NoRequest]
    /\ counted = {}

-----------------------------------------------------------------------------

orderTransitions ==
    {<<"created", "confirmed">>, <<"created", "cancelled">>, <<"paid", "confirmed">>,
     <<"paid", "cancelled">>, <<"confirmed", "shipped">>, <<"confirmed", "cancelled">>,
     <<"shipped", "delivered">>, <<"shipped", "delivery_failed">>}
ValidTransition(from, to) == <<from, to>> \in orderTransitions

Slot(r) == <<Op[r], Key[r]>>
Goto(r, s) == at' = [at EXCEPT ![r] = s]
Reply(r, q) == Goto(r, "done") /\ answer' = [answer EXCEPT ![r] = q]
Refuse(r) == Goto(r, "refused") /\ UNCHANGED answer

(* GetIdempotency finds the stored answer of a request with the same key. *)
Found(r) == Key[r] # NoKey /\ keys[Slot(r)] # NoRequest

(* The handler's checks and loadIdempotency. A logistics update looks for   *)
(* its order first.                                                         *)
LoadIdempotency(r) ==
    /\ at[r] = "new"
    /\ \/ Op[r] = "logistics_update" /\ status[Target[r]] = "none" /\ Refuse(r)
       \/ /\ Op[r] = "logistics_update" => status[Target[r]] # "none"
          /\ \/ Found(r) /\ Reply(r, keys[Slot(r)])
             \/ ~Found(r) /\ Goto(r, "looked") /\ UNCHANGED answer
    /\ UNCHANGED <<tables, local, counted>>

(* Missing fields, an unknown merchant, a product of somebody else. *)
Reject(r) ==
    /\ at[r] = "looked"
    /\ r \notin Valid
    /\ Refuse(r)
    /\ UNCHANGED <<tables, local, counted>>

GetOrder(r) ==
    LET now == status[Target[r]] IN
    /\ at[r] = "looked"
    /\ r \in Valid
    /\ Op[r] = "order_status_change"
    /\ \/ /\ ValidTransition(now, NewStatus[r])
          /\ seen' = [seen EXCEPT ![r] = now]
          /\ Goto(r, "read")
          /\ UNCHANGED answer
       \/ ~ValidTransition(now, NewStatus[r]) /\ Refuse(r) /\ UNCHANGED seen
    /\ UNCHANGED <<tables, tries, counted>>

\* The key is written without the uniqueness of (scope, key).
SaveIdempotencyTxReplacing(r) ==
    keys' = IF Key[r] = NoKey THEN keys ELSE [keys EXCEPT ![Slot(r)] = r]
SaveIdempotencyTx(r) ==
    \/ Key[r] = NoKey /\ UNCHANGED keys
    \/ Key[r] # NoKey /\ keys[Slot(r)] = NoRequest /\ keys' = [keys EXCEPT ![Slot(r)] = r]

InsertOrderTx(r) == status' = [status EXCEPT ![r] = "created"]
InsertEventTx(r, o, from, to) ==
    events' = Append(events, [order |-> o, from |-> from, to |-> to, by |-> r])

(* What a request tells: its user, or the buyer and the merchant. Each      *)
(* notification is written with its outbox row.                             *)
CreateNotification(r) == {[request |-> r, user |-> "user"]}
BuildPurchaseNotification(r) == {[request |-> r, user |-> u] : u \in {"buyer", "merchant"}}
InsertNotificationTx(N) == rows' = rows \cup N

(* Commit reports success, or its answer is lost: an error for the caller. *)
Committed(r) == Goto(r, "written") \/ Goto(r, "error")

CreateOrderNotificationOutbox(r) ==
    /\ InsertOrderTx(r)
    /\ InsertNotificationTx(CreateNotification(r))
    /\ SaveIdempotencyTx(r)
    /\ UNCHANGED events

CreatePurchaseOrderNotificationOutbox(r) ==
    /\ InsertOrderTx(r)
    /\ InsertEventTx(r, r, "none", "created")
    /\ InsertNotificationTx(BuildPurchaseNotification(r))
    /\ SaveIdempotencyTx(r)

\* The update without the status that was read.
ChangeOrderNotificationOutboxBlindly(r) ==
    /\ status' = [status EXCEPT ![Target[r]] = NewStatus[r]]
    /\ InsertEventTx(r, Target[r], seen[r], NewStatus[r])
    /\ InsertNotificationTx(CreateNotification(r))
    /\ SaveIdempotencyTx(r)
ChangeOrderNotificationOutbox(r) ==
    /\ status[Target[r]] = seen[r]
    /\ status' = [status EXCEPT ![Target[r]] = NewStatus[r]]
    /\ InsertEventTx(r, Target[r], seen[r], NewStatus[r])
    /\ InsertNotificationTx(CreateNotification(r))
    /\ SaveIdempotencyTx(r)

CreateNotificationOutbox(r) ==
    /\ InsertNotificationTx(CreateNotification(r))
    /\ SaveIdempotencyTx(r)
    /\ UNCHANGED <<status, events>>

CreateOrder(r) ==
    /\ at[r] = "looked"
    /\ r \in Valid
    /\ Op[r] = "order_create"
    /\ CreateOrderNotificationOutbox(r)
    /\ Committed(r)
    /\ UNCHANGED <<local, answer, counted>>

CreatePurchaseOrder(r) ==
    /\ at[r] = "looked"
    /\ r \in Valid
    /\ Op[r] = "purchase_order_create"
    /\ CreatePurchaseOrderNotificationOutbox(r)
    /\ Committed(r)
    /\ UNCHANGED <<local, answer, counted>>

ChangeOrderStatus(r) ==
    /\ at[r] = "read"
    /\ ChangeOrderNotificationOutbox(r)
    /\ Committed(r)
    /\ UNCHANGED <<local, answer, counted>>

SendCustomNotification(r) ==
    /\ at[r] = "looked"
    /\ r \in Valid
    /\ Op[r] = "logistics_update"
    /\ CreateNotificationOutbox(r)
    /\ Committed(r)
    /\ UNCHANGED <<local, answer, counted>>

(* The rollback: the key is taken, or ErrOrderStateChanged. *)
Conflict(r) ==
    /\ \/ at[r] = "looked" /\ r \in Valid /\ Op[r] # "order_status_change" /\ Found(r)
       \/ at[r] = "read" /\ (Found(r) \/ status[Target[r]] # seen[r])
    /\ Goto(r, "conflict")
    /\ UNCHANGED <<tables, local, answer, counted>>

(* loadIdempotencyAfterWriteConflict *)
Reload(r) ==
    /\ at[r] = "conflict"
    /\ \/ Found(r) /\ Reply(r, keys[Slot(r)]) /\ UNCHANGED tries
       \/ /\ ~Found(r)
          /\ Key[r] # NoKey /\ tries[r] + 1 < MaxReloads
          /\ tries' = [tries EXCEPT ![r] = @ + 1]
          /\ UNCHANGED <<at, answer>>
       \/ /\ ~Found(r)
          /\ Key[r] = NoKey \/ tries[r] + 1 >= MaxReloads
          /\ Goto(r, "recheck")
          /\ UNCHANGED <<tries, answer>>
    /\ UNCHANGED <<tables, seen, counted>>

(* After ErrOrderStateChanged: an invalid transition by now, or the error. *)
Recheck(r) ==
    /\ at[r] = "recheck"
    /\ \/ ~ValidTransition(status[Target[r]], NewStatus[r]) /\ Refuse(r)
       \/ ValidTransition(status[Target[r]], NewStatus[r]) /\ Goto(r, "error") /\ UNCHANGED answer
    /\ UNCHANGED <<tables, local, counted>>

(* incrementScenarioRun, and the answer. *)
Count(r) ==
    /\ at[r] = "written"
    /\ counted' = counted \cup {r}
    /\ Reply(r, r)
    /\ UNCHANGED <<tables, local>>

(* A query fails, or the server dies: the client gets an error or nothing. *)
Fail(r) ==
    /\ at[r] \in {"new", "looked", "read", "conflict", "recheck", "written"}
    /\ Goto(r, "error")
    /\ UNCHANGED <<tables, local, answer, counted>>

Next == \E r \in Requests :
    \/ LoadIdempotency(r) \/ Reject(r) \/ GetOrder(r)
    \/ CreateOrder(r) \/ CreatePurchaseOrder(r) \/ ChangeOrderStatus(r) \/ SendCustomNotification(r)
    \/ Conflict(r) \/ Reload(r) \/ Recheck(r) \/ Count(r) \/ Fail(r)

Spec == Init /\ [][Next]_vars

-----------------------------------------------------------------------------
(* Properties.                                                              *)

TypeOK ==
    /\ status \in [Orders -> Statuses \cup {"none"}]
    /\ events \in Seq([order : Orders, from : Statuses \cup {"none"}, to : Statuses, by : Requests])
    /\ rows \subseteq [request : Requests, user : {"user", "buyer", "merchant"}]
    /\ keys \in [Slots -> Requests \cup {NoRequest}]
    /\ at \in [Requests -> {"absent", "new", "looked", "read", "conflict", "recheck", "written",
                            "done", "refused", "error"}]
    /\ seen \in [Requests -> Statuses \cup {"none"}]
    /\ tries \in [Requests -> Nat]
    /\ answer \in [Requests -> Requests \cup {NoRequest}]
    /\ counted \subseteq Requests

Written == {n.request : n \in rows}
SameKey(r, q) == Key[r] # NoKey /\ Slot(r) = Slot(q)

(* However often and wherever a request is repeated with its key, it takes  *)
(* effect once, and everybody who gets an answer gets the same one.         *)
OneEffect ==
    \A r, q \in Requests : SameKey(r, q) =>
        /\ r \in Written /\ q \in Written => r = q
        /\ at[r] = "done" /\ at[q] = "done" => answer[r] = answer[q] /\ answer[r] \in Written

(* The events of an order: each starts where the one before it ended, by a  *)
(* legal transition, and the last one ends at the order's status, although  *)
(* requests decide on a status they read before.                            *)
SameOrder(i, j) == events[i].order = events[j].order
LegalSteps ==
    \A i \in 1..Len(events) :
        events[i].from = "none" \/ ValidTransition(events[i].from, events[i].to)
NoGaps ==
    \A i, j \in 1..Len(events) :
        i < j /\ SameOrder(i, j) /\ (\A k \in i + 1..j - 1 : ~SameOrder(i, k))
           => events[i].to = events[j].from
LastIsCurrent ==
    \A i \in 1..Len(events) :
        (\A k \in i + 1..Len(events) : ~SameOrder(i, k))
           => events[i].to = status[events[i].order]
History == LegalSteps /\ NoGaps /\ LastIsCurrent

=============================================================================
