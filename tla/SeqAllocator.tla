---------------------------- MODULE SeqAllocator ----------------------------
(***************************************************************************)
(* The per-user sequence allocator (internal/logic/service/seq.go).        *)
(*                                                                         *)
(* Every router process owns one allocator. An allocator reserves blocks   *)
(* of BlockSize numbers from the Redis counter user_seq:{uid} and serves   *)
(* them from memory: from `current`, then from `next`, which a background  *)
(* goroutine prefetches when current runs low. The mutex st.mu makes each  *)
(* critical section one step; Redis is called outside the mutex, so the    *)
(* callers, the prefetcher and other processes interleave around it.       *)
(*                                                                         *)
(* One user is modelled: the state of every uid is separate in the code    *)
(* (SeqAllocator.states) and in Redis (one counter per uid).               *)
(***************************************************************************)
EXTENDS Naturals, Sequences

CONSTANTS Allocators,        \* the processes that allocate for this user
          Callers,           \* the goroutines that call Allocate
          Home,              \* Home[c] is the allocator that c calls
          BlockSize,         \* blockSize
          PrefetchRemaining, \* prefetchRemaining
          PrefetchPercent,   \* prefetchPercent
          MaxCalls,          \* bound: MaxCalls[c] is how often c calls Allocate
          MaxFaults          \* bound: Redis failures and process restarts

ASSUME AllocatorAssumption ==
    /\ Home \in [Callers -> Allocators]
    /\ BlockSize \in Nat \ {0}
    /\ PrefetchRemaining \in Nat
    /\ PrefetchPercent \in Nat
    /\ MaxCalls \in [Callers -> Nat]
    /\ MaxFaults \in Nat

VARIABLES
    redis,     \* the Redis counter user_seq:{uid}
    current,   \* current[a]: the range being served
    next,      \* next[a]: the prefetched range
    reserving, \* reserving[a]: some goroutine of a is reserving
    fetched,   \* fetched[a]: local r of that goroutine after its Redis call
    prefetch,  \* prefetch[a]: where a's prefetch goroutine is
    pc,        \* pc[c]: where c is in Allocate
    calls,     \* calls[c]: how many calls c has made
    faults,    \* how many faults there have been
    log        \* history: the numbers handed out, in the order they were

vars == <<redis, current, next, reserving, fetched, prefetch, pc, calls, faults, log>>

seqRange == [start : Nat, next : Nat, max : Nat]

\* A nil *seqRange; remaining() treats it like an exhausted one.
NoRange == [start |-> 1, next |-> 1, max |-> 0]

Exhausted(r) == r.next > r.max

remaining(r) == IF Exhausted(r) THEN 0 ELSE r.max - r.next + 1

shouldPrefetch(r) ==
    \/ remaining(r) <= PrefetchRemaining
    \/ (r.next - r.start) * 100 >= BlockSize * PrefetchPercent

ReservedRange(end) ==
    [start |-> end - BlockSize + 1, next |-> end - BlockSize + 1, max |-> end]

Init ==
    /\ redis = 0
    /\ current = [a \in Allocators |-> NoRange]
    /\ next = [a \in Allocators |-> NoRange]
    /\ reserving = [a \in Allocators |-> FALSE]
    /\ fetched = [a \in Allocators |-> NoRange]
    /\ prefetch = [a \in Allocators |-> "none"]
    /\ pc = [c \in Callers |-> "idle"]
    /\ calls = [c \in Callers |-> 0]
    /\ faults = 0
    /\ log = << >>

-----------------------------------------------------------------------------

\* Goroutine c enters Allocate.
Call(c) ==
    /\ pc[c] = "idle"
    /\ calls[c] < MaxCalls[c]
    /\ pc' = [pc EXCEPT ![c] = "lock"]
    /\ calls' = [calls EXCEPT ![c] = @ + 1]
    /\ UNCHANGED <<redis, current, next, reserving, fetched, prefetch, faults, log>>

\* allocateLocked fails: nothing left in current and nothing prefetched.
Miss(a) == Exhausted(current[a]) /\ next[a] = NoRange

\* allocateLocked succeeds: switch to the prefetched range if need be, take
\* its next number, and start a prefetch when that range runs low.
AllocateKeepNext(c) ==
    LET a == Home[c]
        r == IF Exhausted(current[a]) THEN next[a] ELSE current[a]
    IN  /\ pc[c] = "lock"
        /\ ~ Miss(a)
        /\ current' = [current EXCEPT ![a] = [r EXCEPT !.next = @ + 1]]
        /\ log' = Append(log, [by |-> a, seq |-> r.next])
        /\ IF next[a] = NoRange /\ ~ reserving[a] /\ shouldPrefetch(current'[a])
             THEN /\ reserving' = [reserving EXCEPT ![a] = TRUE]
                  /\ prefetch' = [prefetch EXCEPT ![a] = "reserve"]
             ELSE UNCHANGED <<reserving, prefetch>>
        /\ pc' = [pc EXCEPT ![c] = "idle"]
        /\ UNCHANGED <<redis, next, fetched, calls, faults>>
AllocateHit(c) ==
    LET a == Home[c]
        r == IF Exhausted(current[a]) THEN next[a] ELSE current[a]
    IN  /\ pc[c] = "lock"
        /\ ~ Miss(a)
        /\ current' = [current EXCEPT ![a] = [r EXCEPT !.next = @ + 1]]
        /\ next' = IF Exhausted(current[a]) THEN [next EXCEPT ![a] = NoRange] ELSE next
        /\ log' = Append(log, [by |-> a, seq |-> r.next])
        /\ IF next'[a] = NoRange /\ ~ reserving[a] /\ shouldPrefetch(current'[a])
             THEN /\ reserving' = [reserving EXCEPT ![a] = TRUE]
                  /\ prefetch' = [prefetch EXCEPT ![a] = "reserve"]
             ELSE UNCHANGED <<reserving, prefetch>>
        /\ pc' = [pc EXCEPT ![c] = "idle"]
        /\ UNCHANGED <<redis, fetched, calls, faults>>

\* allocateLocked failed and a reservation is under way: wait for it.
AllocateWait(c) ==
    /\ pc[c] = "lock"
    /\ Miss(Home[c])
    /\ reserving[Home[c]]
    /\ pc' = [pc EXCEPT ![c] = "wait"]
    /\ UNCHANGED <<redis, current, next, reserving, fetched, prefetch, calls, faults, log>>

\* allocateLocked failed and nobody reserves: reserve in the foreground.
AllocateReserveUnguarded(c) ==
    /\ pc[c] = "lock"
    /\ Miss(Home[c])
    /\ reserving' = [reserving EXCEPT ![Home[c]] = TRUE]
    /\ pc' = [pc EXCEPT ![c] = "reserve"]
    /\ UNCHANGED <<redis, current, next, fetched, prefetch, calls, faults, log>>
AllocateReserve(c) ==
    /\ pc[c] = "lock"
    /\ Miss(Home[c])
    /\ ~ reserving[Home[c]]
    /\ reserving' = [reserving EXCEPT ![Home[c]] = TRUE]
    /\ pc' = [pc EXCEPT ![c] = "reserve"]
    /\ UNCHANGED <<redis, current, next, fetched, prefetch, calls, faults, log>>

\* reserveRange: INCRBY on the counter. It may succeed, fail, or be applied
\* by Redis with the reply lost, which the caller sees as a failure too.
reserveRange(a) ==
    \/ /\ redis' = redis + BlockSize
       /\ fetched' = [fetched EXCEPT ![a] = ReservedRange(redis + BlockSize)]
       /\ UNCHANGED faults
    \/ /\ faults < MaxFaults
       /\ redis' \in {redis, redis + BlockSize}
       /\ fetched' = [fetched EXCEPT ![a] = NoRange]
       /\ faults' = faults + 1

ForegroundReserve(c) ==
    /\ pc[c] = "reserve"
    /\ reserveRange(Home[c])
    /\ pc' = [pc EXCEPT ![c] = "install"]
    /\ UNCHANGED <<current, next, reserving, prefetch, calls, log>>

\* close(done): everyone waiting for the reservation can go on.
WakeNobody(a, self, to) == [pc EXCEPT ![self] = to]
Wake(a, self, to) ==
    [d \in Callers |-> CASE d = self -> to
                         [] Home[d] = a /\ pc[d] = "wait" -> "woken"
                         [] OTHER -> pc[d]]

\* The foreground reservation ends: on success its range becomes current and
\* the caller tries again, on failure Allocate returns the error.
ForegroundInstall(c) ==
    LET a == Home[c] IN
    /\ pc[c] = "install"
    /\ current' = IF fetched[a] = NoRange THEN current
                                          ELSE [current EXCEPT ![a] = fetched[a]]
    /\ reserving' = [reserving EXCEPT ![a] = FALSE]
    /\ fetched' = [fetched EXCEPT ![a] = NoRange]
    /\ pc' = Wake(a, c, IF fetched[a] = NoRange THEN "idle" ELSE "lock")
    /\ UNCHANGED <<redis, next, prefetch, calls, faults, log>>

\* The select of a waiting caller: the reservation has ended, or its own
\* context has; with both ready Go takes either.
WaitOver(c) ==
    /\ pc[c] = "woken"
    /\ pc' = [pc EXCEPT ![c] = "lock"]
    /\ UNCHANGED <<redis, current, next, reserving, fetched, prefetch, calls, faults, log>>

Cancel(c) ==
    /\ pc[c] \in {"wait", "woken"}
    /\ pc' = [pc EXCEPT ![c] = "idle"]
    /\ UNCHANGED <<redis, current, next, reserving, fetched, prefetch, calls, faults, log>>

PrefetchReserve(a) ==
    /\ prefetch[a] = "reserve"
    /\ reserveRange(a)
    /\ prefetch' = [prefetch EXCEPT ![a] = "install"]
    /\ UNCHANGED <<current, next, reserving, pc, calls, log>>

\* The prefetch ends: its range becomes next unless there is one already.
PrefetchInstall(a) ==
    /\ prefetch[a] = "install"
    /\ next' = IF fetched[a] # NoRange /\ next[a] = NoRange
                 THEN [next EXCEPT ![a] = fetched[a]] ELSE next
    /\ reserving' = [reserving EXCEPT ![a] = FALSE]
    /\ fetched' = [fetched EXCEPT ![a] = NoRange]
    /\ prefetch' = [prefetch EXCEPT ![a] = "none"]
    /\ pc' = [d \in Callers |-> IF Home[d] = a /\ pc[d] = "wait" THEN "woken" ELSE pc[d]]
    /\ UNCHANGED <<redis, current, calls, faults, log>>

\* The process of a dies and comes back: its memory is gone, Redis is not.
Restart(a) ==
    /\ faults < MaxFaults
    /\ faults' = faults + 1
    /\ current' = [current EXCEPT ![a] = NoRange]
    /\ next' = [next EXCEPT ![a] = NoRange]
    /\ reserving' = [reserving EXCEPT ![a] = FALSE]
    /\ fetched' = [fetched EXCEPT ![a] = NoRange]
    /\ prefetch' = [prefetch EXCEPT ![a] = "none"]
    /\ pc' = [d \in Callers |-> IF Home[d] = a THEN "idle" ELSE pc[d]]
    /\ UNCHANGED <<redis, calls, log>>

-----------------------------------------------------------------------------

\* The steps of goroutine c once it is inside Allocate.
Step(c) ==
    \/ AllocateHit(c)
    \/ AllocateWait(c)
    \/ AllocateReserve(c)
    \/ ForegroundReserve(c)
    \/ ForegroundInstall(c)
    \/ WaitOver(c)

PrefetchStep(a) == PrefetchReserve(a) \/ PrefetchInstall(a)

Next ==
    \/ \E c \in Callers : Call(c) \/ Step(c) \/ Cancel(c)
    \/ \E a \in Allocators : PrefetchStep(a) \/ Restart(a)

Spec == Init /\ [][Next]_vars

\* Goroutines are scheduled fairly and Redis calls return.
Fairness ==
    /\ \A c \in Callers : WF_vars(Step(c))
    /\ \A a \in Allocators : WF_vars(PrefetchStep(a))

FairSpec == Spec /\ Fairness

-----------------------------------------------------------------------------
(* Properties *)

TypeOK ==
    /\ redis \in Nat
    /\ current \in [Allocators -> seqRange]
    /\ next \in [Allocators -> seqRange]
    /\ fetched \in [Allocators -> seqRange]
    /\ reserving \in [Allocators -> BOOLEAN]
    /\ prefetch \in [Allocators -> {"none", "reserve", "install"}]
    /\ pc \in [Callers -> {"idle", "lock", "wait", "woken", "reserve", "install"}]
    /\ calls \in [Callers -> Nat]
    /\ faults \in Nat
    /\ log \in Seq([by : Allocators, seq : Nat])

\* Allocate never hands out a number twice, whatever processes share the
\* counter, however their Redis calls fail and whenever they restart.
Unique ==
    \A i, j \in 1 .. Len(log) : log[i].seq = log[j].seq => i = j

\* The numbers one allocator hands out only grow, across the switches from a
\* current range to a prefetched or a newly reserved one.
PerAllocatorOrder ==
    \A i, j \in 1 .. Len(log) :
        i < j /\ log[i].by = log[j].by => log[i].seq < log[j].seq

\* GetUserMaxSeq, which the sync path reports as the user's newest number,
\* reads the counter: no number handed out is ever beyond it.
WithinCounter == \A i \in 1 .. Len(log) : log[i].seq \in 1 .. redis

\* A caller that waits on reserveDone always has somebody who will close it.
WaiterHasOwner ==
    \A c \in Callers : pc[c] = "wait" =>
        \/ prefetch[Home[c]] # "none"
        \/ \E d \in Callers : Home[d] = Home[c] /\ pc[d] \in {"reserve", "install"}

\* Every call of Allocate returns, with a number or an error.
CallsReturn == \A c \in Callers : pc[c] # "idle" ~> pc[c] = "idle"

\* Allocate implements the plain issuer of numbers: through prefetching, lost
\* replies, cancelled callers and restarts no step of any process hands out a
\* number that was used, is out of order for its process, or is not reserved.
Promise == INSTANCE Issuer WITH Issuers <- Allocators, counter <- redis, issued <- log
IsIssuer == Promise!Spec

=============================================================================
