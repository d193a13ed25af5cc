------------------------------- MODULE MCLogic -------------------------------
(* Sessions and offline sync of the logic service, checked side by side:    *)
(* each behaviour exercises one of the two.                                 *)
EXTENDS MCSessions, Sync

VARIABLE part

MCInit ==
    /\ part \in {"sessions", "sync"}
    /\ Init /\ SyncInit
    /\ part = "sync" => \A k \in {c1, r1} : call[k].p = CHOOSE p \in Logics : TRUE
MCNext ==
    \/ part = "sessions" /\ Next /\ UNCHANGED <<syncVars, part>>
    \/ part = "sync" /\ SyncNext /\ UNCHANGED <<vars, part>>
MCSpec == MCInit /\ [][MCNext]_<<vars, syncVars, part>>
=============================================================================
