------------------------------- MODULE MCJob --------------------------------
EXTENDS Job, TLC

CONSTANTS m1, m2, m3, r1, r2, r3, r4, r5, b1, x1, s1

Feed(online, offline) == [t \in Topics |-> IF t = "online" THEN online ELSE offline]

\* Pushes that overtake each other, and a room with a broadcast.
MCFeeds == {Feed(<<m1, m2, m3>>, <<x1>>), Feed(<<b1>>, <<r1, r2, r3, r4, r5>>)}
MCKind == (m1 :> "push") @@ (m2 :> "push") @@ (m3 :> "push") @@ (r1 :> "room") @@ (r2 :> "room")
          @@ (r3 :> "room") @@ (r4 :> "room") @@ (r5 :> "room") @@ (b1 :> "all") @@ (x1 :> "bad")
MCServerOf == [m \in {m1, m2, m3, r1, r2, r3, r4, r5, b1, x1} |-> s1]
=============================================================================
