---------------------------- MODULE MCConnection ----------------------------
(* A small instance of Connection: a ring of two slots whose counters wrap   *)
(* at four, and two pushers.                                                 *)
EXTENDS Connection, TLC

CONSTANTS p1, p2

\* One connection that nobody but its reader closes, with a broadcaster and a
\* rate limiter. Or two connections one after the other, with a broadcaster
\* and somebody who takes the key over, both under the lock of the bucket.
MCSetups ==
    {[task |-> (p1 :> "cast") @@ (p2 :> "none"), limit |-> TRUE, frames |-> 4, conns |-> 1],
     [task |-> (p1 :> "cast") @@ (p2 :> "take"), limit |-> FALSE, frames |-> 1, conns |-> 2]}

=============================================================================
