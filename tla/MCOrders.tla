------------------------------ MODULE MCOrders ------------------------------
(* Small instances of Orders and, beside it, of Chat: each behaviour        *)
(* exercises one of the two. An order is created twice with one key,        *)
(* confirmed twice with another one, cancelled and shipped meanwhile.       *)
EXTENDS Orders, Chat

VARIABLE part

CONSTANTS o1, buy1, buy2, new1, ok1, ok2, cancel, ship, way1, way2, bad, k1, k2, k3

MCRequests == {buy1, buy2, new1, ok1, ok2, cancel, ship, way1, way2, bad}
MCOp ==
    [r \in MCRequests |->
        CASE r \in {buy1, buy2} -> "purchase_order_create"
          [] r \in {new1, bad} -> "order_create"
          [] r \in {ok1, ok2, cancel, ship} -> "order_status_change"
          [] OTHER -> "logistics_update"]
MCKey ==
    [r \in MCRequests |->
        CASE r \in {buy1, buy2} -> k1
          [] r \in {ok1, ok2} -> k2
          [] r \in {way1, way2, ship} -> k3
          [] OTHER -> NoKey]
MCTarget == [r \in MCRequests |->
                CASE r \in {buy1, buy2, new1, bad} -> r
                  [] r = way2 -> buy1
                  [] OTHER -> o1]
MCNewStatus == [r \in MCRequests |->
                    CASE r \in {ok1, ok2} -> "confirmed"
                      [] r = cancel -> "cancelled"
                      [] OTHER -> "shipped"]

\* One order's pair and one merchant group of the same merchant.
MCPairs == {[order |-> <<"order", 1>>, customer |-> 1, merchant |-> 9]}
MCGroups == {[id |-> <<"grp", 1>>, room |-> <<"merchant", 1>>, merchant |-> 9]}

MCInit ==
    /\ part \in {"orders", "chat"}
    /\ Init /\ ChatInit
    /\ part = "chat" => at = [r \in Requests |-> "absent"]
MCNext ==
    \/ part = "orders" /\ Next /\ UNCHANGED <<chatVars, part>>
    \/ part = "chat" /\ ChatNext /\ UNCHANGED <<vars, part>>
MCSpec == MCInit /\ [][MCNext]_<<vars, chatVars, part>>
=============================================================================
