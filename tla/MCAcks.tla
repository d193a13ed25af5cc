------------------------------- MODULE MCAcks -------------------------------
(* Two clients with two devices. c1 and c2 are the same call made twice.    *)
EXTENDS Acks

CONSTANTS c1, c2, c3, p1, p2, p3, d1, d2, m1, m2, k1

MCInput == [c \in {c1, c2, c3} |->
    IF c = c3 THEN [msg |-> m2, device |-> d2, key |-> NoKey]
    ELSE [msg |-> m1, device |-> d1, key |-> k1]]
MCEvent ==
    (p1 :> [status |-> "acked", msg |-> m1, device |-> d1]) @@
    (p2 :> [status |-> "acked", msg |-> m2, device |-> d1]) @@
    (p3 :> [status |-> "pushed", msg |-> m1, device |-> NoDevice])

(* Without a device resolver, and with one that knows two devices. *)
MCDeployments ==
    [policy : {"best_effort", "any_device", "all_devices"}, targets : {{}}, primary : {NoDevice}]
        \cup [policy : {"primary_device", "all_devices"}, targets : {{d1, d2}}, primary : {d1}]
=============================================================================
