------------------------------- MODULE Timer -------------------------------
(***************************************************************************)
(* pkg/time/timer.go: the timer every comet connection arms for its        *)
(* handshake and heartbeat.  A mutex guards a binary min-heap of timer     *)
(* entries, a free list of entries and one runtime timer (signal); a       *)
(* goroutine (start) waits for the signal, takes the expired entries off   *)
(* the heap and runs their functions with the mutex released, so that      *)
(* Add, Set and Del of other goroutines come in between.                   *)
(* Positions in the heap are counted from 0, as in the code.               *)
(***************************************************************************)
EXTENDS Integers, Sequences, FiniteSets, SequencesExt

CONSTANTS
    Num,            \* entries allocated by one grow
    MaxEntries,     \* bound: entries ever allocated
    MaxClock,       \* bound: ticks of the clock
    Delays          \* the durations asked for

ASSUME TimerAssumption ==
    /\ Num \in Nat \ {0} /\ MaxEntries \in Nat /\ Num <= MaxEntries /\ MaxClock \in Nat
    /\ Delays \subseteq Nat \ {0}

Never == MaxClock + 100     \* infiniteDuration

VARIABLES
    heap,       \* [q, ix, ex]: t.timers, and index and expire of every entry
    free,       \* the free list
    grown,      \* entries allocated so far
    held,       \* entries a connection holds (Add returned them, no Del yet)
    clock,      \* time.Now
    deadline,   \* when the signal fires
    tick,       \* a value waits in signal.C
    tpc         \* the goroutine: "expire", "fn" (mutex released) or "wait"

timerVars == <<heap, free, grown, held, clock, deadline, tick, tpc>>

Entries == 1..MaxEntries

-----------------------------------------------------------------------------
\* The heap.

Less(h, i, j) == h.ex[h.q[i + 1]] < h.ex[h.q[j + 1]]

Swap(h, i, j) ==
    LET a == h.q[i + 1]
        b == h.q[j + 1]
    IN  [q |-> [h.q EXCEPT ![i + 1] = b, ![j + 1] = a], ix |-> [h.ix EXCEPT ![b] = i, ![a] = j], ex |-> h.ex]

\* The positions a loop from p visits when it goes from k to hop[k], and
\* breaks where that is k: the least set that holds p and is closed.
Path(p, hop) ==
    {k \in DOMAIN hop :
        \A S \in SUBSET DOMAIN hop : p \in S /\ (\A m \in S : hop[m] \in S) => k \in S}

\* What the swaps of that loop add up to: the entry at p ends where the
\* loop breaks, every other entry on the path one place back.  The loop
\* compares the moving entry with entries it has not moved yet.
Sift(h, p, hop) ==
    LET path  == Path(p, hop)
        at(k) == h.q[1 + (IF k \notin path THEN k ELSE IF hop[k] = k THEN p ELSE hop[k])]
    IN  [q  |-> [n \in DOMAIN h.q |-> at(n - 1)],
         ix |-> [td \in Entries |->
                    IF \E k \in path : at(k) = td THEN CHOOSE k \in path : at(k) = td ELSE h.ix[td]],
         ex |-> h.ex]

Parent(k) == (k - 1) \div 2
Child(h, k, n) ==
    IF 2 * k + 2 < n /\ ~Less(h, 2 * k + 1, 2 * k + 2) THEN 2 * k + 2 ELSE 2 * k + 1

Up(h, j) ==
    Sift(h, j, [k \in 0 .. j |-> IF k > 0 /\ Less(h, j, Parent(k)) THEN Parent(k) ELSE k])

Down(h, i, n) ==
    Sift(h, i, [k \in 0 .. n - 1 |->
                   IF 2 * k + 1 < n /\ Less(h, Child(h, k, n), i) THEN Child(h, k, n) ELSE k])

\* t.del: nothing for an entry that is already off the heap.
HeapDel(h, td) ==
    LET i    == h.ix[td]
        last == Len(h.q) - 1
    IN  IF i < 0 \/ i > last THEN h
        ELSE IF h.q[i + 1] # td THEN h
        ELSE LET m == IF i # last THEN Up(Down(Swap(h, i, last), i, last), i) ELSE h
             IN  [q |-> SubSeq(m.q, 1, last), ix |-> [m.ix EXCEPT ![m.q[last + 1]] = -1], ex |-> m.ex]

\* t.add, without its signal.
HeapAdd(h, td, at) ==
    Up([q |-> Append(h.q, td), ix |-> [h.ix EXCEPT ![td] = Len(h.q)], ex |-> [h.ex EXCEPT ![td] = at]],
       Len(h.q))

\* signal.Reset, which also drops a value not yet received (Go 1.23 on).
Reset(at) == deadline' = at /\ tick' = FALSE

\* The entry became the first to expire: the goroutine must wake earlier.
AddSignal(h, td) ==
    IF h.ix[td] = 0 THEN Reset(h.ex[td]) ELSE UNCHANGED <<deadline, tick>>

-----------------------------------------------------------------------------
TimerInit ==
    /\ heap = [q |-> <<>>, ix |-> [td \in Entries |-> 0], ex |-> [td \in Entries |-> 0]]
    /\ grown = Num
    /\ free = [i \in 1..Num |-> i]
    /\ held = {}
    /\ clock = 0
    /\ deadline = Never
    /\ tick = FALSE
    /\ tpc = "expire"

\* get: from the free list, growing it first when it is empty.
Grown == IF free = <<>> THEN [i \in 1..Num |-> grown + i] ELSE free

TimerAdd ==
    /\ free # <<>> \/ grown + Num <= MaxEntries
    /\ \E d \in Delays :
         LET td == Head(Grown)
             h  == HeapAdd(heap, td, clock + d)
         IN  /\ heap' = h
             /\ held' = held \cup {td}
             /\ AddSignal(h, td)
    /\ free' = Tail(Grown)
    /\ grown' = IF free = <<>> THEN grown + Num ELSE grown
    /\ UNCHANGED <<clock, tpc>>

TimerSetQuiet(td, d) ==
    /\ td \in held
    /\ heap' = HeapAdd(HeapDel(heap, td), td, clock + d)
    /\ UNCHANGED <<free, grown, held, clock, tpc, deadline, tick>>

TimerSet(td, d) ==
    /\ td \in held
    /\ LET h == HeapAdd(HeapDel(heap, td), td, clock + d)
       IN  heap' = h /\ AddSignal(h, td)
    /\ UNCHANGED <<free, grown, held, clock, tpc>>

\* Del, and put.
TimerDel(td) ==
    /\ td \in held
    /\ heap' = HeapDel(heap, td)
    /\ free' = <<td>> \o free
    /\ held' = held \ {td}
    /\ UNCHANGED <<grown, clock, deadline, tick, tpc>>

\* Delay of the first entry is not positive.
Due == IF heap.q = <<>> THEN FALSE ELSE heap.ex[Head(heap.q)] <= clock

\* One turn of the loop of expire: the first entry is due, take it off and
\* release the mutex for its function.
ExpireFirst ==
    /\ tpc = "expire"
    /\ Due
    /\ heap' = HeapDel(heap, Head(heap.q))
    /\ tpc' = "fn"
    /\ UNCHANGED <<free, grown, held, clock, deadline, tick>>

\* The function returned and the mutex is taken again.
RunFn ==
    /\ tpc = "fn"
    /\ tpc' = "expire"
    /\ UNCHANGED <<heap, free, grown, held, clock, deadline, tick>>

\* Nothing is due: set the signal for the first entry and wait.
ExpireDone ==
    /\ tpc = "expire"
    /\ ~Due
    /\ Reset(IF heap.q = <<>> THEN Never ELSE heap.ex[Head(heap.q)])
    /\ tpc' = "wait"
    /\ UNCHANGED <<heap, free, grown, held, clock>>

Wake ==
    /\ tpc = "wait" /\ tick
    /\ tick' = FALSE
    /\ tpc' = "expire"
    /\ UNCHANGED <<heap, free, grown, held, clock, deadline>>

\* The runtime timer (external).
SignalFires ==
    /\ deadline <= clock
    /\ tick' = TRUE
    /\ deadline' = Never
    /\ UNCHANGED <<heap, free, grown, held, clock, tpc>>

ClockTicks ==
    /\ clock < MaxClock
    /\ clock' = clock + 1
    /\ UNCHANGED <<heap, free, grown, held, deadline, tick, tpc>>

TimerNext ==
    \/ TimerAdd
    \/ \E td \in Entries, d \in Delays : TimerSet(td, d)
    \/ \E td \in Entries : TimerDel(td)
    \/ ExpireFirst \/ RunFn \/ ExpireDone \/ Wake
    \/ SignalFires \/ ClockTicks

TimerSpec == TimerInit /\ [][TimerNext]_timerVars

-----------------------------------------------------------------------------
\* No connection's timeout is slept through: whenever the goroutine waits
\* with no signal pending, the signal fires no later than the first expiry
\* of any armed entry, whatever Add, Set and Del did while the functions
\* ran.  With it, what that rests on: the heap is ordered, every armed
\* entry knows its place, and no entry is both armed and free.
InTime ==
    /\ tpc = "wait" /\ ~tick => \A i \in DOMAIN heap.q : deadline <= heap.ex[heap.q[i]]
    /\ \A j \in 1..(Len(heap.q) - 1) : ~Less(heap, j, (j - 1) \div 2)
    /\ \A i \in DOMAIN heap.q : heap.ix[heap.q[i]] = i - 1
    /\ ToSet(heap.q) \subseteq held
    /\ ToSet(free) \cap held = {} /\ Len(free) = grown - Cardinality(held)

=============================================================================
