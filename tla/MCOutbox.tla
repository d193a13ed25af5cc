------------------------------ MODULE MCOutbox ------------------------------
(* Small instances of Outbox. Relays, consumers and workers are             *)
(* interchangeable.                                                         *)
EXTENDS Outbox, TLC

CONSTANTS r1, r2, r3, a1, a2, k1, k2, w1, w2

\* Two relays and two consumers with one row; or two workers without Kafka and
\* two rows, of which one belongs to a campaign and the other one does not.
MCSetups ==
    {[rows |-> {r1}, relays |-> {a1, a2}, consumers |-> {k1, k2}, workers |-> {}, faults |-> 3],
     [rows |-> {r2, r3}, relays |-> {}, consumers |-> {}, workers |-> {w1, w2}, faults |-> 1]}

ActorSymmetry ==
    Permutations({a1, a2}) \cup Permutations({k1, k2}) \cup Permutations({w1, w2})

=============================================================================
