------------------------------ MODULE MCBucket ------------------------------
(* A small instance of Bucket. Channel objects and keys are interchangeable. *)
EXTENDS Bucket, TLC

CONSTANTS c1, c2, c3, k1, k2, k3, i1

\* Rooms always keep a member; keys are taken over and members move between
\* rooms. Or rooms are emptied and created again, and nobody moves.
MCClients ==
    {[keys |-> {k1, k2}, names |-> {"x", "y"}, rooms |-> 2, targets |-> {"x", "y", None},
      sharedKeys |-> TRUE, lastLeaves |-> FALSE],
     [keys |-> {k1, k2, k3}, names |-> {"x"}, rooms |-> 3, targets |-> {None},
      sharedKeys |-> FALSE, lastLeaves |-> TRUE]}

PoolSymmetry == Permutations({c1, c2, c3}) \cup Permutations({k1, k2, k3})

=============================================================================
