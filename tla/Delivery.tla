------------------------------ MODULE Delivery ------------------------------
(* What the routers promise together about one message, without the lock,   *)
(* the queues, the retries and the order of their calls: what a device has  *)
(* and what is in Kafka stays there; a status is true and never goes back   *)
(* to unfinished; each caller gets one answer, and it is backed.  Guards    *)
(* that hold only while nothing went wrong name the trouble that lifts them.*)

CONSTANTS Senders, Devices, Routers

VARIABLES
    state,    \* the status of the message
    known,    \* the routers that take it for finished without asking
    has,      \* the devices that have it
    handed,   \* the records in Kafka, each a set of devices
    sent,     \* the senders that had it accepted directly
    begun,    \* the senders that have called
    told,     \* told[t]: the answer t got
    trouble   \* the kinds of fault there have been

message == <<state, known>>
taken == <<has, handed, sent>>
calls == <<begun, told>>

Finished == {"delivered", "acked"}

Init ==
    /\ state = "none" /\ known = {}
    /\ has = {} /\ handed = {} /\ sent = {}
    /\ begun = {} /\ told = [t \in Senders |-> "none"]
    /\ trouble = {}

AtWork(t) == t \in begun /\ told[t] = "none"
Tell(t, answer) == told' = [told EXCEPT ![t] = answer]

-----------------------------------------------------------------------------

Begin(t) ==
    /\ t \notin begun /\ begun' = begun \cup {t}
    /\ UNCHANGED <<message, taken, told>>

\* Another call is under way: it gives, or gave, an answer of its own.
Defer(t) ==
    /\ t \notin begun /\ begun' = begun \cup {t}
    /\ \E u \in begun : told[u] # "in_progress"
    /\ Tell(t, "in_progress")
    /\ UNCHANGED <<message, taken>>

Refuse(t) ==
    /\ "redis" \in trouble'
    /\ t \notin begun /\ begun' = begun \cup {t}
    /\ Tell(t, "error")
    /\ UNCHANGED <<message, taken>>

Track == state = "none" /\ state' = "pending" /\ UNCHANGED <<known, taken, calls>>

\* A comet accepts the message directly.
Send(t, d) ==
    /\ AtWork(t)
    /\ trouble' \cap {"redis", "crash", "lapse"} # {} \/ sent \subseteq {t}
    /\ sent' = sent \cup {t}
    /\ has' = has \cup {d}
    /\ UNCHANGED <<message, handed, calls>>

\* A device gets it otherwise: from a push nobody knows of, from Kafka, or by
\* asking for what it missed.
Reach(d) ==
    /\ \/ "push" \in trouble' /\ \E t \in Senders : AtWork(t)
       \/ \E rec \in handed : d \in rec
       \/ state \in {"pending", "delivered"}
    /\ has' = has \cup {d}
    /\ UNCHANGED <<message, handed, sent, calls>>

\* The status says, again perhaps, that a device has it, and a router that
\* knows remembers.
Finish ==
    /\ has # {}
    /\ state' \in Finished
    /\ known' = known \/ \E r \in Routers : known' = known \cup {r}
    /\ UNCHANGED <<taken, calls>>

Forget(r) == known' = known \ {r} /\ UNCHANGED <<state, taken, calls>>

\* A record for Kafka, written by a call or from the spool of an earlier one.
Hand(rec) ==
    /\ begun # {}
    /\ handed' = handed \cup {rec}
    /\ UNCHANGED <<message, has, sent, calls>>

\* The answer is backed, but if Redis failed it may be told "direct" of a
\* message that no device has.
Answer(t, answer) ==
    /\ AtWork(t)
    /\ answer \in {"direct", "queued", "error"}
    /\ answer = "direct" => has # {} \/ "redis" \in trouble'
    /\ answer = "queued" => handed # {}
    /\ Tell(t, answer)
    /\ UNCHANGED <<message, taken, begun>>

\* Kafka takes the record, and the caller is told at once.
HandAnd(t, rec) ==
    /\ AtWork(t)
    /\ handed' = handed \cup {rec}
    /\ Tell(t, "queued")
    /\ UNCHANGED <<message, has, sent, begun>>

\* A router dies; its callers get errors.
Die(r, S) ==
    /\ "crash" \in trouble'
    /\ \A t \in S : AtWork(t)
    /\ told' = [t \in Senders |-> IF t \in S THEN "error" ELSE told[t]]
    /\ known' = known \ {r}
    /\ UNCHANGED <<state, taken, begun>>

Next ==
    /\ trouble \subseteq trouble'
    /\ \/ \E t \in Senders : Begin(t) \/ Defer(t) \/ Refuse(t)
       \/ Track \/ Finish
       \/ \E t \in Senders, d \in Devices : Send(t, d)
       \/ \E d \in Devices : Reach(d)
       \/ \E r \in Routers : Forget(r)
       \/ \E rec \in SUBSET Devices : Hand(rec)
       \/ \E t \in Senders : \E answer \in {"direct", "queued", "error"} : Answer(t, answer)
       \/ \E t \in Senders, rec \in SUBSET Devices : HandAnd(t, rec)
       \/ \E r \in Routers, S \in SUBSET Senders : Die(r, S)
       \/ UNCHANGED <<message, taken, calls>>

Spec == Init /\ [][Next]_<<message, taken, calls, trouble>>

=============================================================================
