----------------------------- MODULE MCDispatch -----------------------------
(* Small instances of Dispatch: the caller's two attempts go to different  *)
(* routers.                                                                *)
EXTENDS Dispatch, FiniteSets, TLC

CONSTANTS r1, r2, t1, t2, d1, d2

MCHome == (t1 :> r1) @@ (t2 :> r2)

\* The devices are interchangeable, and so are the attempts if each one keeps
\* its router.
Same == (t1 :> t1) @@ (t2 :> t2) @@ (r1 :> r1) @@ (r2 :> r2)
Swap == (t1 :> t2) @@ (t2 :> t1) @@ (r1 :> r2) @@ (r2 :> r1)

\* The devices that the message has been sent to, or is to be sent to.
Targets ==
    UNION kafka \cup UNION UNION {spool[r] : r \in Routers}
        \cup UNION {todo[t] \cup failed[t] : t \in Attempts} \cup reached

\* Two devices with one fault, or one device with two.
Small == faults < MaxFaults \/ Cardinality(Targets) < 2

MCSymmetry == {d @@ s : d \in Permutations({d1, d2}), s \in {Same, Swap}}

=============================================================================
