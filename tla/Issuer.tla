------------------------------- MODULE Issuer -------------------------------
(* What the sequence allocators of one user promise together, without their *)
(* blocks, locks and prefetching: each hands out numbers that nobody handed *)
(* out before, in growing order, none of them beyond a shared counter that  *)
(* only grows.                                                              *)
EXTENDS Naturals, Sequences

CONSTANT Issuers

VARIABLES counter, issued

Init == counter = 0 /\ issued = <<>>

\* Numbers are set aside.
Reserve == counter' \in Nat /\ counter' > counter /\ UNCHANGED issued

Fresh(n) == \A i \in 1..Len(issued) : issued[i].seq # n
Last(a, n) == \A i \in 1..Len(issued) : issued[i].by = a => issued[i].seq < n

Issue(a) ==
    \E n \in 1..counter :
        /\ Fresh(n) /\ Last(a, n)
        /\ issued' = Append(issued, [by |-> a, seq |-> n])
        /\ UNCHANGED counter

Next == Reserve \/ \E a \in Issuers : Issue(a)

Spec == Init /\ [][Next]_<<counter, issued>>

=============================================================================
