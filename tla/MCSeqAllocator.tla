--------------------------- MODULE MCSeqAllocator ---------------------------
(* Small instances of SeqAllocator: two processes, two goroutines in the   *)
(* first one and one in the second.                                        *)
EXTENDS SeqAllocator, TLC

CONSTANTS a1, a2, c1, c2, c3

MCHome == (c1 :> a1) @@ (c2 :> a1) @@ (c3 :> a2)

\* Enough calls in the first process to use up a current and a prefetched block.
MCCalls == (c1 :> 3) @@ (c2 :> 2) @@ (c3 :> 1)

=============================================================================
