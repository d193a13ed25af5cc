-------------------------- MODULE FoundationProofs --------------------------
(***************************************************************************)
(* Proofs about what the services stand on: the numbers that SeqAllocator  *)
(* hands out, for any number of processes, goroutines and faults and any   *)
(* block size, and the wire format of Framing, for any packets, buffers    *)
(* and points at which the stream is cut.                                  *)
(***************************************************************************)
EXTENDS SeqAllocator, Framing, SequenceTheorems, WellFoundedInduction, TLAPS

Owns(c) == pc[c] \in {"reserve", "install"}

\* The flag st.reserving is a lock: whoever set it is alone in its process,
\* found nothing left to serve (foreground) or nothing prefetched
\* (background), and is still there to clear the flag.
OneReserver ==
    /\ \A c \in Callers : Owns(c) =>
          reserving[Home[c]] /\ prefetch[Home[c]] = "none" /\ Miss(Home[c])
    /\ \A c, d \in Callers : Owns(c) /\ Owns(d) /\ Home[c] = Home[d] => c = d
    /\ \A a \in Allocators : prefetch[a] # "none" => reserving[a] /\ next[a] = NoRange
    /\ \A a \in Allocators : reserving[a] =>
          prefetch[a] # "none" \/ \E d \in Callers : Home[d] = a /\ Owns(d)
    /\ \A c \in Callers : pc[c] = "wait" => reserving[Home[c]]

\* The numbers that a process may still hand out.
Rem(r) == r.next .. r.max
Live(a) == Rem(current[a]) \cup Rem(next[a]) \cup Rem(fetched[a])

\* A reserved range is not empty until it is being served.
Filled ==
    \A a \in Allocators :
        /\ next[a] # NoRange => next[a].next <= next[a].max
        /\ fetched[a] # NoRange => fetched[a].next <= fetched[a].max /\ next[a] = NoRange

\* No number is available in two processes, or beyond the counter, or both
\* available and already handed out.
Apart == \A a, b \in Allocators : a # b => \A n \in Live(a) : n \notin Live(b)
Bounded == \A a \in Allocators : \A n \in Live(a) : n \in 1 .. redis
Spent == \A i \in 1 .. Len(log) : \A a \in Allocators : log[i].seq \notin Live(a)

\* A process serves its ranges in the order it reserved them.
InOrder ==
    \A a \in Allocators : \A m \in Rem(current[a]) :
        \A n \in Rem(next[a]) \cup Rem(fetched[a]) : m < n
LogBelow == \A i \in 1 .. Len(log) : \A n \in Live(log[i].by) : log[i].seq < n

Stock == Apart /\ Bounded /\ Spent /\ LogBelow /\ Unique /\ PerAllocatorOrder /\ WithinCounter

IInv ==
    /\ TypeOK
    /\ OneReserver
    /\ Filled
    /\ InOrder
    /\ Stock

-----------------------------------------------------------------------------
(* Type correctness *)

\* Every variable keeps its type.
LEMMA TypeStep == TypeOK /\ [Next]_vars => TypeOK'
<1> USE AllocatorAssumption DEF AllocatorAssumption
<1> SUFFICES ASSUME TypeOK, [Next]_vars PROVE TypeOK'
  OBVIOUS
<1>r. NoRange \in seqRange
  BY DEF NoRange, seqRange
<1>s. redis + BlockSize \in Nat /\ ReservedRange(redis + BlockSize) \in seqRange
  BY DEF ReservedRange, seqRange, TypeOK
<1>f. ASSUME NEW a \in Allocators, reserveRange(a)
      PROVE redis' \in Nat /\ fetched' \in [Allocators -> seqRange] /\ faults' \in Nat
  <2>1. redis' \in {redis, redis + BlockSize} /\ faults' \in {faults, faults + 1}
    BY <1>f DEF reserveRange
  <2>2. \E x \in {NoRange, ReservedRange(redis + BlockSize)} :
           fetched' = [fetched EXCEPT ![a] = x]
    BY <1>f DEF reserveRange
  <2> QED
    BY <2>1, <2>2, <1>r, <1>s DEF TypeOK
<1>1. ASSUME NEW c \in Callers, Call(c) PROVE TypeOK'
  BY <1>1 DEF Call, TypeOK
<1>2. ASSUME NEW c \in Callers, AllocateHit(c) PROVE TypeOK'
  <2> DEFINE a == Home[c]
             r == IF Exhausted(current[a]) THEN next[a] ELSE current[a]
  <2>1. r \in seqRange /\ r.next \in Nat /\ a \in Allocators
    BY DEF TypeOK, seqRange
  <2>2. [r EXCEPT !.next = @ + 1] \in seqRange
    BY <2>1 DEF seqRange
  <2>3. [by |-> a, seq |-> r.next] \in [by : Allocators, seq : Nat]
    BY <2>1
  <2>4. log' \in Seq([by : Allocators, seq : Nat])
    BY <1>2, <2>3 DEF AllocateHit, TypeOK
  <2> QED
    BY <1>2, <1>r, <2>1, <2>2, <2>4 DEF AllocateHit, TypeOK
<1>3. ASSUME NEW c \in Callers, AllocateWait(c) PROVE TypeOK'
  BY <1>3 DEF AllocateWait, TypeOK
<1>4. ASSUME NEW c \in Callers, AllocateReserve(c) PROVE TypeOK'
  BY <1>4 DEF AllocateReserve, TypeOK
<1>5. ASSUME NEW c \in Callers, ForegroundReserve(c) PROVE TypeOK'
  BY <1>5, <1>f DEF ForegroundReserve, TypeOK
<1>6. ASSUME NEW c \in Callers, ForegroundInstall(c) PROVE TypeOK'
  BY <1>6, <1>r DEF ForegroundInstall, Wake, TypeOK
<1>7. ASSUME NEW c \in Callers, WaitOver(c) PROVE TypeOK'
  BY <1>7 DEF WaitOver, TypeOK
<1>8. ASSUME NEW c \in Callers, Cancel(c) PROVE TypeOK'
  BY <1>8 DEF Cancel, TypeOK
<1>9. ASSUME NEW a \in Allocators, PrefetchReserve(a) PROVE TypeOK'
  BY <1>9, <1>f DEF PrefetchReserve, TypeOK
<1>10. ASSUME NEW a \in Allocators, PrefetchInstall(a) PROVE TypeOK'
  BY <1>10, <1>r DEF PrefetchInstall, TypeOK
<1>11. ASSUME NEW a \in Allocators, Restart(a) PROVE TypeOK'
  BY <1>11, <1>r DEF Restart, TypeOK
<1>12. CASE UNCHANGED vars
  BY <1>12 DEF vars, TypeOK
<1> QED
  BY <1>1, <1>2, <1>3, <1>4, <1>5, <1>6, <1>7, <1>8, <1>9, <1>10, <1>11, <1>12
     DEF Next, Step, PrefetchStep

-----------------------------------------------------------------------------
(* One reservation at a time *)

\* No step lets two goroutines of a process reserve at once, or leaves a
\* waiter without the goroutine that will wake it.
LEMMA OneReserverStep == TypeOK /\ OneReserver /\ [Next]_vars => OneReserver'
<1> USE AllocatorAssumption DEF AllocatorAssumption
<1> SUFFICES ASSUME TypeOK, OneReserver, [Next]_vars PROVE OneReserver'
  OBVIOUS
<1>0. ASSUME UNCHANGED <<current, next, reserving, prefetch>>,
             \A d \in Callers : Owns(d)' <=> Owns(d),
             \A d \in Callers : pc'[d] = "wait" => pc[d] = "wait" \/ reserving[Home[d]]
      PROVE  OneReserver'
  BY <1>0 DEF OneReserver, Miss
<1>1. ASSUME NEW c \in Callers, Call(c) PROVE OneReserver'
  BY <1>0, <1>1 DEF Call, TypeOK, Owns
<1>2. ASSUME NEW c \in Callers, AllocateHit(c) PROVE OneReserver'
  <2> DEFINE a == Home[c]
  <2>1. a \in Allocators
    OBVIOUS
  <2>2. \A d \in Callers : Owns(d)' <=> Owns(d)
    BY <1>2 DEF AllocateHit, TypeOK, Owns
  <2>3. \A d \in Callers : Owns(d) => Home[d] # a
    BY <1>2 DEF AllocateHit, OneReserver
  <2>4. \A b \in Allocators \ {a} : /\ current'[b] = current[b]
                                   /\ next'[b] = next[b]
                                   /\ reserving'[b] = reserving[b]
                                   /\ prefetch'[b] = prefetch[b]
    BY <1>2 DEF AllocateHit, TypeOK
  <2>5. /\ prefetch'[a] # "none" => reserving'[a] /\ next'[a] = NoRange
        /\ reserving'[a] => prefetch'[a] # "none"
        /\ reserving[a] => reserving'[a]
    BY <1>2, <2>1, <2>3 DEF AllocateHit, TypeOK, OneReserver
  <2>6. \A d \in Callers : pc'[d] = "wait" => pc[d] = "wait"
    BY <1>2 DEF AllocateHit, TypeOK
  <2> QED
    BY <2>1, <2>2, <2>3, <2>4, <2>5, <2>6 DEF OneReserver, Miss
<1>3. ASSUME NEW c \in Callers, AllocateWait(c) PROVE OneReserver'
  BY <1>0, <1>3 DEF AllocateWait, TypeOK, Owns
<1>4. ASSUME NEW c \in Callers, AllocateReserve(c) PROVE OneReserver'
  BY <1>4 DEF AllocateReserve, TypeOK, OneReserver, Owns, Miss
<1>5. ASSUME NEW c \in Callers, ForegroundReserve(c) PROVE OneReserver'
  BY <1>5 DEF ForegroundReserve, TypeOK, OneReserver, Owns, Miss
<1>6. ASSUME NEW c \in Callers, ForegroundInstall(c) PROVE OneReserver'
  BY <1>6 DEF ForegroundInstall, Wake, TypeOK, OneReserver, Owns, Miss
<1>7. ASSUME NEW c \in Callers, WaitOver(c) PROVE OneReserver'
  BY <1>0, <1>7 DEF WaitOver, TypeOK, Owns
<1>8. ASSUME NEW c \in Callers, Cancel(c) PROVE OneReserver'
  BY <1>0, <1>8 DEF Cancel, TypeOK, Owns
<1>9. ASSUME NEW a \in Allocators, PrefetchReserve(a) PROVE OneReserver'
  BY <1>9 DEF PrefetchReserve, TypeOK, OneReserver, Owns, Miss
<1>10. ASSUME NEW a \in Allocators, PrefetchInstall(a) PROVE OneReserver'
  BY <1>10 DEF PrefetchInstall, TypeOK, OneReserver, Owns, Miss
<1>11. ASSUME NEW a \in Allocators, Restart(a) PROVE OneReserver'
  BY <1>11 DEF Restart, TypeOK, OneReserver, Owns, Miss
<1>12. CASE UNCHANGED vars
  BY <1>12 DEF vars, OneReserver, Owns, Miss
<1> QED
  BY <1>1, <1>2, <1>3, <1>4, <1>5, <1>6, <1>7, <1>8, <1>9, <1>10, <1>11, <1>12
     DEF Next, Step, PrefetchStep

-----------------------------------------------------------------------------
(* The numbers in stock *)

\* Every number in the log was handed out by some process.
LEMMA LogEntry ==
    ASSUME TypeOK, NEW i \in 1 .. Len(log)
    PROVE  log[i] \in [by : Allocators, seq : Nat]
<1>1. log \in Seq([by : Allocators, seq : Nat])
  BY DEF TypeOK
<1> QED
  BY <1>1, ElementOfSeq

\* A step that hands out nothing and adds nothing to what a process holds
\* keeps everything that relates the stock to the log and the counter.
LEMMA StockShrinks ==
    ASSUME TypeOK, TypeOK', Stock,
           \A a \in Allocators : Live(a)' \subseteq Live(a),
           UNCHANGED log, redis' >= redis
    PROVE  Stock'
<1> USE AllocatorAssumption DEF AllocatorAssumption
<1>0. redis \in Nat /\ redis' \in Nat
  BY DEF TypeOK
<1>1. Apart'
  BY DEF Stock, Apart
<1>2. Bounded'
  <2> SUFFICES ASSUME NEW a \in Allocators, NEW n \in Live(a)' PROVE n \in 1 .. redis'
    BY DEF Bounded
  <2>1. n \in 1 .. redis
    BY DEF Stock, Bounded
  <2> QED
    BY <1>0, <2>1
<1>3. Spent'
  BY DEF Stock, Spent
<1>4. \A i \in 1 .. Len(log) : log[i].by \in Allocators /\ log[i].seq \in Nat
  BY LogEntry
<1>5. LogBelow'
  BY <1>4 DEF Stock, LogBelow
<1>6. WithinCounter'
  BY <1>0, <1>4 DEF Stock, WithinCounter
<1> QED
  BY <1>1, <1>2, <1>3, <1>5, <1>6 DEF Stock, Unique, PerAllocatorOrder

\* A reservation adds only numbers beyond the old value of the counter.
LEMMA StockGrows ==
    ASSUME TypeOK, TypeOK', Stock, Filled, InOrder,
           NEW a \in Allocators, reserveRange(a), next[a] = NoRange,
           UNCHANGED <<current, next, log>>
    PROVE  Stock' /\ Filled' /\ InOrder'
<1> USE AllocatorAssumption DEF AllocatorAssumption
<1>0. redis \in Nat /\ redis' \in Nat
  BY DEF TypeOK
<1>1. redis' >= redis
  BY DEF reserveRange, TypeOK
<1>2. \A b \in Allocators : b # a => Live(b)' = Live(b) /\ fetched'[b] = fetched[b]
  BY DEF reserveRange, TypeOK, Live, Rem
<1>3. \A n \in Rem(fetched'[a]) : n \in redis + 1 .. redis'
  BY DEF reserveRange, TypeOK, Rem, ReservedRange, NoRange
<1>4. \A n \in Live(a)' : n \in Live(a) \/ n \in redis + 1 .. redis'
  BY <1>3 DEF Live, Rem
<1>5. fetched'[a] # NoRange => fetched'[a].next <= fetched'[a].max
  BY DEF reserveRange, TypeOK, ReservedRange, NoRange
<1>6. Filled'
  BY <1>2, <1>5 DEF Filled
<1>7. InOrder'
  <2>1. ASSUME NEW m \in Rem(current[a]) PROVE m \in Live(a) /\ m \in Nat /\ m <= redis
    BY DEF Live, Stock, Bounded, TypeOK
  <2>2. \A m \in Rem(current[a]) : \A n \in Rem(next[a]) \cup Rem(fetched'[a]) : m < n
    BY <1>3, <2>1 DEF InOrder, TypeOK
  <2> QED
    BY <1>2, <2>2 DEF InOrder
<1>8. Bounded'
  <2> SUFFICES ASSUME NEW b \in Allocators, NEW n \in Live(b)' PROVE n \in 1 .. redis'
    BY DEF Bounded
  <2>1. n \in 1 .. redis \/ n \in redis + 1 .. redis'
    BY <1>2, <1>4 DEF Stock, Bounded
  <2> QED
    BY <1>0, <1>1, <2>1
<1>9. Apart'
  BY <1>0, <1>2, <1>4 DEF Stock, Apart, Bounded
<1>10. \A i \in 1 .. Len(log) : /\ log[i].by \in Allocators
                               /\ log[i].seq \in Nat
                               /\ log[i].seq \in 1 .. redis
  BY LogEntry DEF Stock, WithinCounter
<1>11. Spent'
  BY <1>0, <1>2, <1>4, <1>10 DEF Stock, Spent
<1>12. LogBelow'
  BY <1>0, <1>2, <1>4, <1>10 DEF Stock, LogBelow
<1>13. WithinCounter'
  BY <1>0, <1>1, <1>10 DEF WithinCounter
<1> QED
  BY <1>6, <1>7, <1>8, <1>9, <1>11, <1>12, <1>13 DEF Stock, Unique, PerAllocatorOrder

\* Allocate hands out the smallest number its process holds: it leaves the
\* stock for the log, and everything still in stock is larger.
LEMMA StockServed ==
    ASSUME TypeOK, TypeOK', OneReserver, Filled, InOrder, Stock,
           NEW c \in Callers, AllocateHit(c)
    PROVE  Stock' /\ Filled' /\ InOrder'
<1> USE AllocatorAssumption DEF AllocatorAssumption
<1> DEFINE a == Home[c]
           r == IF Exhausted(current[a]) THEN next[a] ELSE current[a]
           seq == r.next
           e == [by |-> a, seq |-> seq]
<1>1. a \in Allocators /\ r \in seqRange /\ r.next \in Nat /\ r.max \in Nat
  BY DEF TypeOK, seqRange
<1>2. r.next <= r.max
  <2>1. CASE Exhausted(current[a])
    BY <1>1, <2>1 DEF AllocateHit, Miss, Filled
  <2>2. CASE ~ Exhausted(current[a])
    BY <1>1, <2>2 DEF Exhausted
  <2> QED
    BY <2>1, <2>2
<1>3. seq \in Live(a)
  BY <1>1, <1>2 DEF Live, Rem
<1>4. /\ current' = [current EXCEPT ![a] = [r EXCEPT !.next = @ + 1]]
      /\ fetched' = fetched
      /\ redis' = redis
      /\ log' = Append(log, e)
  BY DEF AllocateHit
<1>5. current'[a].next = seq + 1 /\ current'[a].max = r.max
  BY <1>1, <1>4 DEF TypeOK, seqRange
<1>6. \A n \in Rem(current'[a]) : n \in Rem(r) /\ n > seq /\ n \in Nat
  BY <1>1, <1>5 DEF Rem
<1>7. \A b \in Allocators : b # a =>
        current'[b] = current[b] /\ next'[b] = next[b] /\ Live(b)' = Live(b)
  BY <1>1, <1>4 DEF AllocateHit, TypeOK, Live, Rem
<1>8. InOrder' /\ Filled' /\ \A n \in Live(a)' : n \in Live(a) /\ seq < n
  <2>1. CASE ~ Exhausted(current[a])
    <3>1. r = current[a] /\ next' = next
      BY <2>1 DEF AllocateHit
    <3>2. \A n \in Rem(next[a]) \cup Rem(fetched[a]) : seq < n
      BY <1>1, <1>2, <3>1 DEF InOrder, Rem
    <3>3. \A n \in Live(a)' : n \in Live(a) /\ seq < n
      BY <1>4, <1>6, <3>1, <3>2 DEF Live
    <3>4. InOrder'
      BY <1>4, <1>6, <1>7, <3>1 DEF InOrder
    <3>5. Filled'
      BY <1>4, <3>1 DEF Filled
    <3> QED
      BY <3>3, <3>4, <3>5
  <2>2. CASE Exhausted(current[a])
    <3>1. r = next[a] /\ next'[a] = NoRange /\ next[a] # NoRange
      BY <1>1, <2>2 DEF AllocateHit, TypeOK, Miss
    <3>2. fetched[a] = NoRange
      BY <1>1, <3>1 DEF Filled
    <3>3. Rem(NoRange) = {}
      BY DEF Rem, NoRange
    <3>4. \A n \in Live(a)' : n \in Live(a) /\ seq < n
      BY <1>4, <1>6, <3>1, <3>2, <3>3 DEF Live
    <3>5. InOrder'
      BY <1>4, <1>7, <3>1, <3>2, <3>3 DEF InOrder
    <3>6. Filled'
      BY <1>4, <1>7, <3>1, <3>2 DEF Filled
    <3> QED
      BY <3>4, <3>5, <3>6
  <2> QED
    BY <2>1, <2>2
<1>9. Apart'
  BY <1>7, <1>8 DEF Stock, Apart
<1>10. Bounded'
  BY <1>4, <1>7, <1>8 DEF Stock, Bounded
<1>11. /\ log \in Seq([by : Allocators, seq : Nat])
       /\ Len(log) \in Nat
       /\ Len(log') = Len(log) + 1
       /\ log'[Len(log) + 1] = e
       /\ \A i \in 1 .. Len(log) : log'[i] = log[i]
  <2>1. log \in Seq([by : Allocators, seq : Nat]) /\ e \in [by : Allocators, seq : Nat]
    BY <1>1 DEF TypeOK
  <2> QED
    BY <1>4, <2>1, AppendProperties
<1>12. \A i \in 1 .. Len(log) : /\ log[i].by \in Allocators
                               /\ log[i].seq \in Nat
                               /\ log[i].seq \in 1 .. redis
                               /\ \A b \in Allocators : log[i].seq \notin Live(b)
                               /\ \A n \in Live(log[i].by) : log[i].seq < n
  BY LogEntry DEF Stock, WithinCounter, Spent, LogBelow
<1>13. seq \in 1 .. redis
  BY <1>1, <1>3 DEF Stock, Bounded
<1>14. \A b \in Allocators : seq \notin Live(b)'
  BY <1>1, <1>3, <1>7, <1>8 DEF Stock, Apart
<1>15. \A i \in 1 .. Len(log') : i \in 1 .. Len(log) \/ i = Len(log) + 1
  BY <1>11
<1>16. Spent'
  BY <1>7, <1>8, <1>11, <1>12, <1>14, <1>15 DEF Spent
<1>17. LogBelow'
  <2> SUFFICES ASSUME NEW i \in 1 .. Len(log'), NEW n \in Live(log[i].by)'
               PROVE  log'[i].seq < n
    BY DEF LogBelow
  <2>1. CASE i \in 1 .. Len(log)
    <3>1. log'[i] = log[i] /\ log[i].by \in Allocators
      BY <2>1, <1>11, <1>12
    <3>2. n \in Live(log[i].by)
      BY <3>1, <1>7, <1>8 DEF Live
    <3> QED
      BY <2>1, <3>1, <3>2, <1>12
  <2>2. CASE i = Len(log) + 1
    BY <2>2, <1>1, <1>7, <1>8, <1>11
  <2> QED
    BY <2>1, <2>2, <1>15
<1>18. Unique'
  BY <1>1, <1>3, <1>11, <1>12, <1>15 DEF Stock, Unique
<1>19. PerAllocatorOrder'
  <2> SUFFICES ASSUME NEW i \in 1 .. Len(log'), NEW j \in 1 .. Len(log'),
                      i < j, log'[i].by = log'[j].by
               PROVE  log'[i].seq < log'[j].seq
    BY DEF PerAllocatorOrder
  <2>1. i \in 1 .. Len(log)
    BY <1>11, <1>15
  <2>2. CASE j = Len(log) + 1
    BY <1>1, <1>3, <1>11, <1>12, <2>1, <2>2
  <2>3. CASE j \in 1 .. Len(log)
    BY <1>11, <2>1, <2>3 DEF Stock, PerAllocatorOrder
  <2> QED
    BY <1>15, <2>2, <2>3
<1>20. WithinCounter'
  BY <1>4, <1>11, <1>12, <1>13, <1>15 DEF WithinCounter
<1> QED
  BY <1>8, <1>9, <1>10, <1>16, <1>17, <1>18, <1>19, <1>20 DEF Stock

-----------------------------------------------------------------------------
(* The theorems *)

\* NewSeqAllocator over a missing counter: nothing reserved, nothing served.
LEMMA Initially == Init => IInv
<1> USE AllocatorAssumption DEF AllocatorAssumption
<1> SUFFICES ASSUME Init PROVE IInv
  OBVIOUS
<1>1. NoRange \in seqRange /\ Rem(NoRange) = {}
  BY DEF NoRange, seqRange, Rem
<1>2. TypeOK
  BY <1>1 DEF Init, TypeOK
<1>3. OneReserver
  BY DEF Init, OneReserver, Owns
<1>4. \A a \in Allocators : Live(a) = {}
  BY <1>1 DEF Init, Live
<1>5. Len(log) = 0
  BY DEF Init
<1>6. Filled /\ InOrder
  BY <1>1 DEF Init, Filled, InOrder
<1>7. Stock
  BY <1>4, <1>5 DEF Stock, Apart, Bounded, Spent, LogBelow, Unique, PerAllocatorOrder, WithinCounter
<1> QED
  BY <1>2, <1>3, <1>6, <1>7 DEF IInv

\* Every step of Allocate, of the prefetch goroutine and every restart keeps
\* the inductive invariant.
LEMMA Inductive == IInv /\ [Next]_vars => IInv'
<1> USE AllocatorAssumption DEF AllocatorAssumption
<1> SUFFICES ASSUME IInv, [Next]_vars PROVE IInv'
  OBVIOUS
<1>1. TypeOK /\ TypeOK' /\ OneReserver /\ OneReserver' /\ Filled /\ InOrder /\ Stock
  BY TypeStep, OneReserverStep DEF IInv
<1>2. SUFFICES Filled' /\ InOrder' /\ Stock'
  BY <1>1 DEF IInv
<1>3. Rem(NoRange) = {}
  BY DEF Rem, NoRange
<1>4. redis \in Nat /\ redis >= redis
  BY <1>1 DEF TypeOK
<1>5. ASSUME UNCHANGED <<redis, current, next, fetched, log>>
      PROVE  Filled' /\ InOrder' /\ Stock'
  <2>1. Filled' /\ InOrder'
    BY <1>1, <1>5 DEF Filled, InOrder
  <2>2. \A a \in Allocators : Live(a)' \subseteq Live(a)
    BY <1>5 DEF Live
  <2> QED
    BY <1>1, <1>4, <1>5, <2>1, <2>2, StockShrinks
<1>6. ASSUME NEW c \in Callers, AllocateHit(c) PROVE Filled' /\ InOrder' /\ Stock'
  BY <1>1, <1>6, StockServed
<1>7. ASSUME NEW c \in Callers, ForegroundReserve(c) PROVE Filled' /\ InOrder' /\ Stock'
  <2>1. Home[c] \in Allocators /\ next[Home[c]] = NoRange
    BY <1>1, <1>7 DEF ForegroundReserve, OneReserver, Owns, Miss
  <2>2. reserveRange(Home[c]) /\ UNCHANGED <<current, next, log>>
    BY <1>7 DEF ForegroundReserve
  <2> QED
    BY <1>1, <2>1, <2>2, StockGrows
<1>8. ASSUME NEW a \in Allocators, PrefetchReserve(a) PROVE Filled' /\ InOrder' /\ Stock'
  <2>1. next[a] = NoRange
    BY <1>1, <1>8 DEF PrefetchReserve, OneReserver
  <2>2. reserveRange(a) /\ UNCHANGED <<current, next, log>>
    BY <1>8 DEF PrefetchReserve
  <2> QED
    BY <1>1, <2>1, <2>2, StockGrows
<1>9. ASSUME NEW c \in Callers, ForegroundInstall(c) PROVE Filled' /\ InOrder' /\ Stock'
  <2> DEFINE a == Home[c]
  <2>1. a \in Allocators /\ next[a] = NoRange
    BY <1>1, <1>9 DEF ForegroundInstall, OneReserver, Owns, Miss
  <2>2. /\ current'[a] \in {current[a], fetched[a]}
        /\ fetched'[a] = NoRange
        /\ next' = next
        /\ UNCHANGED <<redis, log>>
        /\ \A b \in Allocators : b # a => current'[b] = current[b] /\ fetched'[b] = fetched[b]
    BY <1>1, <1>9, <2>1 DEF ForegroundInstall, TypeOK
  <2>3. Filled' /\ InOrder'
    BY <1>1, <1>3, <2>1, <2>2 DEF Filled, InOrder
  <2>4. \A b \in Allocators : Live(b)' \subseteq Live(b)
    BY <1>3, <2>2 DEF Live
  <2> QED
    BY <1>1, <1>4, <2>2, <2>3, <2>4, StockShrinks
<1>10. ASSUME NEW a \in Allocators, PrefetchInstall(a) PROVE Filled' /\ InOrder' /\ Stock'
  <2>1. next[a] = NoRange
    BY <1>1, <1>10 DEF PrefetchInstall, OneReserver
  <2>2. /\ next'[a] \in {next[a], fetched[a]}
        /\ fetched'[a] = NoRange
        /\ current' = current
        /\ UNCHANGED <<redis, log>>
        /\ \A b \in Allocators : b # a => next'[b] = next[b] /\ fetched'[b] = fetched[b]
    BY <1>1, <1>10 DEF PrefetchInstall, TypeOK
  <2>3. Filled' /\ InOrder'
    BY <1>1, <1>3, <2>1, <2>2 DEF Filled, InOrder
  <2>4. \A b \in Allocators : Live(b)' \subseteq Live(b)
    BY <1>3, <2>2 DEF Live
  <2> QED
    BY <1>1, <1>4, <2>2, <2>3, <2>4, StockShrinks
<1>11. ASSUME NEW a \in Allocators, Restart(a) PROVE Filled' /\ InOrder' /\ Stock'
  <2>1. /\ current'[a] = NoRange /\ next'[a] = NoRange /\ fetched'[a] = NoRange
        /\ UNCHANGED <<redis, log>>
        /\ \A b \in Allocators : b # a => /\ current'[b] = current[b]
                                          /\ next'[b] = next[b]
                                          /\ fetched'[b] = fetched[b]
    BY <1>1, <1>11 DEF Restart, TypeOK
  <2>2. Filled' /\ InOrder'
    BY <1>1, <1>3, <2>1 DEF Filled, InOrder
  <2>3. \A b \in Allocators : Live(b)' \subseteq Live(b)
    BY <1>3, <2>1 DEF Live
  <2> QED
    BY <1>1, <1>4, <2>1, <2>2, <2>3, StockShrinks
<1>12. ASSUME NEW c \in Callers,
              Call(c) \/ AllocateWait(c) \/ AllocateReserve(c) \/ WaitOver(c) \/ Cancel(c)
       PROVE  UNCHANGED <<redis, current, next, fetched, log>>
  BY <1>12 DEF Call, AllocateWait, AllocateReserve, WaitOver, Cancel
<1>13. CASE UNCHANGED vars
  BY <1>5, <1>13 DEF vars
<1> QED
  BY <1>5, <1>6, <1>7, <1>8, <1>9, <1>10, <1>11, <1>12, <1>13 DEF Next, Step, PrefetchStep

\* The inductive invariant holds in every reachable state of the allocator.
THEOREM Invariance == Spec => []IInv
  BY Initially, Inductive, PTL DEF Spec

\* Type correctness of the allocator for every value of the constants.
THEOREM Typed == Spec => []TypeOK
<1>1. IInv => TypeOK
  BY DEF IInv
<1> QED
  BY Invariance, <1>1, PTL

\* No number is handed out twice: Allocate, any number of processes and
\* goroutines, any block size, Redis failures and restarts at any point.
THEOREM NoDuplicates == Spec => []Unique
<1>1. IInv => Unique
  BY DEF IInv, Stock
<1> QED
  BY Invariance, <1>1, PTL

\* The numbers that one process hands out grow, across allocateLocked's
\* switches between reserved ranges.
THEOREM Monotonic == Spec => []PerAllocatorOrder
<1>1. IInv => PerAllocatorOrder
  BY DEF IInv, Stock
<1> QED
  BY Invariance, <1>1, PTL

\* The counter that GetUserMaxSeq reads bounds every number handed out.
THEOREM CounterBounds == Spec => []WithinCounter
<1>1. IInv => WithinCounter
  BY DEF IInv, Stock
<1> QED
  BY Invariance, <1>1, PTL

\* Whoever waits on reserveDone has a goroutine that will close it.
THEOREM NoOrphanWaiter == Spec => []WaiterHasOwner
<1> USE AllocatorAssumption DEF AllocatorAssumption
<1>1. IInv => WaiterHasOwner
  BY DEF IInv, TypeOK, OneReserver, Owns, WaiterHasOwner
<1> QED
  BY Invariance, <1>1, PTL

\* A step that appends a number to the log hands it out as the issuer would.
LEMMA IssueStep ==
    ASSUME IInv, IInv', NEW c \in Callers, AllocateHit(c)
    PROVE  Promise!Issue(Home[c])
<1> USE AllocatorAssumption DEF AllocatorAssumption
<1> DEFINE a == Home[c]
           r == IF Exhausted(current[a]) THEN next[a] ELSE current[a]
           e == [by |-> a, seq |-> r.next]
<1>1. log' = Append(log, e) /\ redis' = redis
  BY DEF AllocateHit
<1>2. log \in Seq([by : Allocators, seq : Nat]) /\ log' \in Seq([by : Allocators, seq : Nat])
  BY DEF IInv, TypeOK
<1>3. /\ Len(log') = Len(log) + 1 /\ log'[Len(log) + 1] = e
      /\ \A i \in 1 .. Len(log) : log'[i] = log[i]
      /\ Len(log) \in Nat
  BY <1>1, <1>2
<1>4. Unique' /\ PerAllocatorOrder' /\ WithinCounter'
  BY DEF IInv, Stock
<1>5. r.next \in 1 .. redis
  BY <1>1, <1>3, <1>4 DEF WithinCounter
<1>6. Promise!Fresh(r.next)
  BY <1>3, <1>4 DEF Unique, Promise!Fresh
<1>7. Promise!Last(a, r.next)
  BY <1>3, <1>4 DEF PerAllocatorOrder, Promise!Last
<1> QED
  BY <1>1, <1>5, <1>6, <1>7 DEF Promise!Issue

\* A reservation sets numbers aside, or fails without or with a lost reply.
LEMMA ReserveStep ==
    ASSUME TypeOK, NEW a \in Allocators, reserveRange(a), UNCHANGED log
    PROVE  Promise!Reserve \/ UNCHANGED <<redis, log>>
  BY AllocatorAssumption DEF AllocatorAssumption, TypeOK, reserveRange, Promise!Reserve

\* The allocators of a user, with their blocks, prefetches, failures and
\* restarts, implement an issuer of fresh, growing, reserved numbers.
THEOREM Refines == Spec => IsIssuer
<1> USE AllocatorAssumption DEF AllocatorAssumption
<1>1. Init => Promise!Init
  BY DEF Init, Promise!Init
<1>2. ASSUME IInv, IInv', [Next]_vars
      PROVE  [Promise!Next]_<<redis, log>>
  <2>1. TypeOK
    BY <1>2 DEF IInv
  <2>2. ASSUME NEW c \in Callers, AllocateHit(c) PROVE Promise!Next
    <3>1. Home[c] \in Allocators
      OBVIOUS
    <3> QED
      BY <1>2, <2>2, <3>1, IssueStep DEF Promise!Next
  <2>3. ASSUME NEW c \in Callers, ForegroundReserve(c) PROVE [Promise!Next]_<<redis, log>>
    <3>1. Home[c] \in Allocators /\ reserveRange(Home[c]) /\ UNCHANGED log
      BY <2>3 DEF ForegroundReserve
    <3> QED
      BY <2>1, <3>1, ReserveStep DEF Promise!Next
  <2>4. ASSUME NEW a \in Allocators, PrefetchReserve(a) PROVE [Promise!Next]_<<redis, log>>
    <3>1. reserveRange(a) /\ UNCHANGED log
      BY <2>4 DEF PrefetchReserve
    <3> QED
      BY <2>1, <3>1, ReserveStep DEF Promise!Next
  <2>5. ASSUME NEW c \in Callers,
               Call(c) \/ AllocateWait(c) \/ AllocateReserve(c) \/ WaitOver(c) \/ Cancel(c)
                 \/ ForegroundInstall(c)
        PROVE  UNCHANGED <<redis, log>>
    BY <2>5 DEF Call, AllocateWait, AllocateReserve, WaitOver, Cancel, ForegroundInstall
  <2>6. ASSUME NEW a \in Allocators, PrefetchInstall(a) \/ Restart(a)
        PROVE  UNCHANGED <<redis, log>>
    BY <2>6 DEF PrefetchInstall, Restart
  <2>7. CASE UNCHANGED vars
    BY <2>7 DEF vars
  <2> QED
    BY <1>2, <2>2, <2>3, <2>4, <2>5, <2>6, <2>7 DEF Next, Step, PrefetchStep
<1> QED
  BY <1>1, <1>2, Invariance, PTL DEF Spec, IsIssuer, Promise!Spec

-----------------------------------------------------------------------------
(* The wire format: the writer *)

\* Sequences of cells, and one after the other.
Bytes == Seq(Nat)
Cat(s, t) == s \o t

\* Writers whose buffer is no longer than it may be, and the cells one has
\* taken, sent or not.
Writer == [buf : Bytes, err : BOOLEAN, out : Bytes, left : Nat]
Sound(wr) == wr \in Writer /\ Len(wr.buf) <= WriteBufSize
Stream(wr) == Cat(wr.out, wr.buf)

\* b is what becomes of the writer a that is handed the cells c: unless the
\* connection breaks it has taken them all, and at any time what it has sent
\* is a beginning of what it was handed.
Took(a, b, c) ==
    /\ Sound(b)
    /\ a.err => b = a
    /\ ~b.err => Stream(b) = Cat(Stream(a), c)
    /\ \E s \in Bytes : b.out = Cat(a.out, s)
    /\ ~a.err => \E r \in Bytes : Cat(Stream(a), c) = Cat(b.out, r)

LEMMA CatFacts ==
    ASSUME NEW s \in Bytes, NEW t \in Bytes
    PROVE  /\ Cat(s, t) \in Bytes /\ Len(Cat(s, t)) = Len(s) + Len(t) /\ Len(s) \in Nat
           /\ Cat(s, <<>>) = s /\ Cat(<<>>, s) = s
BY ConcatProperties, ConcatEmptySeq, LenProperties DEF Bytes, Cat

LEMMA NoCells == <<>> \in Bytes /\ Len(<<>>) = 0 /\ \A s \in Bytes : Len(s) = 0 => s = <<>>
BY EmptySeq DEF Bytes

LEMMA Assoc ==
    ASSUME NEW S, NEW s \in Seq(S), NEW t \in Seq(S), NEW u \in Seq(S)
    PROVE  (s \o t) \o u = s \o (t \o u)
BY ConcatAssociative

LEMMA CatAssoc ==
    ASSUME NEW s \in Bytes, NEW t \in Bytes, NEW u \in Bytes
    PROVE  Cat(Cat(s, t), u) = Cat(s, Cat(t, u))
<1>1. s \in Seq(Nat) /\ t \in Seq(Nat) /\ u \in Seq(Nat)
  BY DEF Bytes
<1>2. (s \o t) \o u = s \o (t \o u)
  BY <1>1, Assoc, SMTT(30)
<1> QED
  BY <1>2, Zenon DEF Cat

LEMMA Halves ==
    ASSUME NEW c \in Bytes, NEW n \in 0 .. Len(c)
    PROVE  /\ SubSeq(c, 1, n) \in Bytes /\ Len(SubSeq(c, 1, n)) = n
           /\ SubSeq(c, n + 1, Len(c)) \in Bytes /\ Len(SubSeq(c, n + 1, Len(c))) = Len(c) - n
           /\ Cat(SubSeq(c, 1, n), SubSeq(c, n + 1, Len(c))) = c
           /\ SubSeq(c, 1, Len(c)) = c
<1> USE DEF Bytes
<1>0. Len(c) \in Nat /\ \A i \in 1 .. Len(c) : c[i] \in Nat
  BY LenProperties
<1>1. \A i \in 1 .. n : c[i] \in Nat
  BY <1>0
<1>2. \A i \in n + 1 .. Len(c) : c[i] \in Nat
  BY <1>0
<1>3. SubSeq(c, 1, n) \in Seq(Nat) /\ Len(SubSeq(c, 1, n)) = n
  <2>1. SubSeq(c, 1, n) \in Seq(Nat) /\ Len(SubSeq(c, 1, n)) = IF 1 <= n THEN n - 1 + 1 ELSE 0
    BY <1>1, SubSeqProperties
  <2> QED
    BY <2>1
<1>4. SubSeq(c, n + 1, Len(c)) \in Seq(Nat) /\ Len(SubSeq(c, n + 1, Len(c))) = Len(c) - n
  <2>0. n + 1 \in Int /\ Len(c) \in Int
    BY <1>0
  <2>1. /\ SubSeq(c, n + 1, Len(c)) \in Seq(Nat)
        /\ Len(SubSeq(c, n + 1, Len(c))) = IF n + 1 <= Len(c) THEN Len(c) - (n + 1) + 1 ELSE 0
    BY <1>2, <2>0, SubSeqProperties
  <2> QED
    BY <1>0, <2>1
<1>5. SubSeq(c, 1, n) \o SubSeq(c, n + 1, Len(c)) = SubSeq(c, 1, Len(c))
  <2>1. 1 \in 1 .. Len(c) + 1 /\ n \in 1 - 1 .. Len(c) /\ Len(c) \in n .. Len(c)
    BY <1>0
  <2> QED
    BY <2>1, ConcatAdjacentSubSeq
<1>6. SubSeq(c, 1, Len(c)) = c
  BY SubSeqFull
<1>7. Cat(SubSeq(c, 1, n), SubSeq(c, n + 1, Len(c))) = c
  BY <1>5, <1>6, Zenon DEF Cat
<1> QED
  BY <1>3, <1>4, <1>6, <1>7, Zenon

LEMMA Whole ==
    ASSUME NEW wr, Sound(wr)
    PROVE  /\ wr.buf \in Bytes /\ wr.err \in BOOLEAN /\ wr.out \in Bytes /\ wr.left \in Nat
           /\ Len(wr.buf) \in Nat /\ Len(wr.out) \in Nat /\ Len(wr.buf) <= WriteBufSize
           /\ Stream(wr) \in Bytes
<1>1. wr.buf \in Bytes /\ wr.err \in BOOLEAN /\ wr.out \in Bytes /\ wr.left \in Nat /\ Len(wr.buf) <= WriteBufSize
  BY DEF Sound, Writer
<1> QED
  BY <1>1, CatFacts DEF Stream

\* A writer that is left alone has taken nothing.
LEMMA TookNone ==
    ASSUME NEW a, Sound(a), NEW c \in Bytes, a.err \/ c = <<>>
    PROVE  Took(a, a, c)
<1>1. a.buf \in Bytes /\ a.out \in Bytes /\ Stream(a) \in Bytes
  BY Whole
<1>2. <<>> \in Bytes /\ Cat(a.out, <<>>) = a.out /\ Cat(Stream(a), <<>>) = Stream(a)
  BY <1>1, NoCells, CatFacts
<1>3. ~a.err => Cat(Stream(a), c) = Cat(a.out, a.buf)
  BY <1>2 DEF Stream
<1> QED
  BY <1>1, <1>2, <1>3 DEF Took

LEMMA TookBoth ==
    ASSUME NEW a, Sound(a), NEW b, NEW d, NEW c \in Bytes, NEW e \in Bytes, Took(a, b, c), Took(b, d, e)
    PROVE  Took(a, d, Cat(c, e))
<1>0. /\ a.out \in Bytes /\ Stream(a) \in Bytes /\ Sound(b) /\ b.out \in Bytes
      /\ Stream(b) \in Bytes /\ Cat(c, e) \in Bytes /\ Sound(d)
  BY Whole, CatFacts DEF Took
<1>1. a.err => d = a
  BY DEF Took
<1>2. Cat(Cat(Stream(a), c), e) = Cat(Stream(a), Cat(c, e))
  BY <1>0, CatAssoc
<1>3. ~d.err => Stream(d) = Cat(Stream(a), Cat(c, e))
  BY <1>2 DEF Took
<1>4. \E s \in Bytes : d.out = Cat(a.out, s)
  <2>1. PICK s \in Bytes : b.out = Cat(a.out, s)
    BY DEF Took
  <2>2. PICK t \in Bytes : d.out = Cat(b.out, t)
    BY DEF Took
  <2>3. Cat(Cat(a.out, s), t) = Cat(a.out, Cat(s, t)) /\ Cat(s, t) \in Bytes
    <3>1. Cat(Cat(a.out, s), t) = Cat(a.out, Cat(s, t))
      BY <1>0, CatAssoc
    <3>2. Cat(s, t) \in Bytes
      BY CatFacts
    <3> QED
      BY <3>1, <3>2
  <2> QED
    BY <2>1, <2>2, <2>3
<1>5. ASSUME ~a.err PROVE \E r \in Bytes : Cat(Stream(a), Cat(c, e)) = Cat(d.out, r)
  <2>1. CASE ~b.err
    <3>1. Stream(b) = Cat(Stream(a), c)
      BY <2>1 DEF Took
    <3>2. PICK r \in Bytes : Cat(Stream(b), e) = Cat(d.out, r)
      BY <2>1 DEF Took
    <3> QED
      BY <1>2, <3>1, <3>2
  <2>2. CASE b.err
    <3>1. PICK r \in Bytes : Cat(Stream(a), c) = Cat(b.out, r)
      BY <1>5 DEF Took
    <3>2. d = b
      BY <2>2 DEF Took
    <3>3. Cat(Cat(b.out, r), e) = Cat(b.out, Cat(r, e)) /\ Cat(r, e) \in Bytes
      <4>1. Cat(Cat(b.out, r), e) = Cat(b.out, Cat(r, e))
        BY <1>0, CatAssoc
      <4>2. Cat(r, e) \in Bytes
        BY CatFacts
      <4> QED
        BY <4>1, <4>2
    <3> QED
      BY <1>2, <3>1, <3>2, <3>3
  <2> QED
    BY <2>1, <2>2
<1> QED
  BY <1>0, <1>1, <1>3, <1>4, <1>5 DEF Took

LEMMA TookKept ==
    ASSUME NEW a, Sound(a), NEW c \in Bytes, ~a.err, Len(a.buf) + Len(c) <= WriteBufSize
    PROVE  Took(a, [a EXCEPT !.buf = @ \o c], c)
<1>0. PICK b : b = [a EXCEPT !.buf = Cat(@, c)]
  OBVIOUS
<1>1. a.buf \in Bytes /\ a.out \in Bytes /\ Stream(a) \in Bytes /\ a \in Writer
  BY Whole DEF Sound
<1>2. Cat(a.buf, c) \in Bytes /\ Len(Cat(a.buf, c)) = Len(a.buf) + Len(c)
  BY <1>1, CatFacts
<1>3. b \in Writer /\ b.buf = Cat(a.buf, c) /\ b.out = a.out /\ b.err = a.err
  BY <1>0, <1>1, <1>2 DEF Writer
<1>4. Sound(b)
  BY <1>2, <1>3 DEF Sound
<1>5. Cat(Cat(a.out, a.buf), c) = Cat(a.out, Cat(a.buf, c))
  BY <1>1, CatAssoc
<1>6. Cat(a.out, <<>>) = a.out /\ <<>> \in Bytes
  BY <1>1, NoCells, CatFacts
<1>7. Stream(b) = Cat(Stream(a), c) /\ Cat(Stream(a), c) = Cat(b.out, Cat(a.buf, c))
  BY <1>3, <1>5 DEF Stream
<1>8. Took(a, b, c)
  BY <1>2, <1>3, <1>4, <1>6, <1>7 DEF Took
<1>9. b = [a EXCEPT !.buf = @ \o c]
  BY <1>0 DEF Cat
<1> QED
  BY <1>8, <1>9

LEMMA SinkFacts ==
    ASSUME NEW a, Sound(a), NEW c \in Bytes
    PROVE  \E n \in 0 .. Len(c) :
              /\ Sink(a, c).out = Cat(a.out, SubSeq(c, 1, n)) /\ Sink(a, c).buf = a.buf
              /\ Sink(a, c).err = (n < Len(c)) /\ Sink(a, c) \in Writer
<1>0. a.left \in Nat /\ Len(c) \in Nat /\ a.out \in Bytes /\ a \in Writer
  BY Whole, CatFacts DEF Sound
<1>1. PICK n : n = IF Len(c) <= a.left THEN Len(c) ELSE a.left
  OBVIOUS
<1>2. n \in 0 .. Len(c) /\ a.left - n \in Nat
  BY <1>0, <1>1
<1>3. PICK o : o = Cat(a.out, SubSeq(c, 1, n))
  OBVIOUS
<1>4. o \in Bytes
  BY <1>0, <1>2, <1>3, Halves, CatFacts
<1>5. PICK b : b = Sink(a, c)
  OBVIOUS
<1>6. PICK e, l : e = (n < Len(c)) /\ l = a.left - n
  OBVIOUS
<1>7. b = [a EXCEPT !.out = o, !.left = l, !.err = e]
  BY <1>1, <1>3, <1>5, <1>6 DEF Sink, Cat
<1>8. e \in BOOLEAN /\ l \in Nat
  BY <1>2, <1>6
<1>9. b.out = o /\ b.buf = a.buf /\ b.err = e /\ b \in Writer
  BY <1>0, <1>4, <1>7, <1>8 DEF Writer
<1> QED
  BY <1>2, <1>3, <1>5, <1>6, <1>9

LEMMA TookSent ==
    ASSUME NEW a, Sound(a), NEW c \in Bytes, ~a.err, a.buf = <<>>
    PROVE  Took(a, Sink(a, c), c)
<1>0. PICK b : b = Sink(a, c)
  OBVIOUS
<1>1. PICK n \in 0 .. Len(c) : /\ b.out = Cat(a.out, SubSeq(c, 1, n)) /\ b.buf = a.buf
                               /\ b.err = (n < Len(c)) /\ b \in Writer
  BY <1>0, SinkFacts
<1>2. PICK s, r : s = SubSeq(c, 1, n) /\ r = SubSeq(c, n + 1, Len(c))
  OBVIOUS
<1>3. s \in Bytes /\ r \in Bytes /\ Cat(s, r) = c
  BY <1>2, Halves
<1>4. Sound(b) /\ a.out \in Bytes /\ b.out \in Bytes /\ Len(c) \in Nat
  <2>1. Sound(b)
    BY <1>1 DEF Sound
  <2> QED
    BY <2>1, Whole, CatFacts
<1>5. Stream(a) = a.out /\ Stream(b) = b.out
  BY <1>1, <1>4, CatFacts DEF Stream
<1>6. Cat(Cat(a.out, s), r) = Cat(a.out, c)
  BY <1>3, <1>4, CatAssoc
<1>7. ~b.err => b.out = Cat(a.out, c)
  <2>1. ~(n < Len(c)) => n = Len(c)
    BY <1>4
  <2>2. SubSeq(c, 1, Len(c)) = c
    <3>1. Len(c) \in 0 .. Len(c)
      BY <1>4
    <3> QED
      BY <3>1, Halves
  <2> QED
    <3>1. ~b.err => SubSeq(c, 1, n) = c
      BY <1>1, <2>1, <2>2
    <3> QED
      BY <1>1, <3>1
<1>8. b.out = Cat(a.out, s)
  BY <1>1, <1>2
<1>9. Cat(Stream(a), c) = Cat(b.out, r)
  BY <1>5, <1>6, <1>8
<1> QED
  BY <1>0, <1>3, <1>4, <1>5, <1>7, <1>8, <1>9 DEF Took

\* A flush sends what it holds, and nothing else.
LEMMA TookFlushed ==
    ASSUME NEW a, Sound(a)
    PROVE  Took(a, Flush(a), <<>>) /\ (Flush(a).err \/ Flush(a).buf = <<>>)
<1>0. <<>> \in Bytes
  BY NoCells
<1>1. CASE a.err \/ a.buf = <<>>
  BY <1>0, <1>1, TookNone DEF Flush
<1>2. CASE ~(a.err \/ a.buf = <<>>)
  <2>1. /\ a.buf \in Bytes /\ a.out \in Bytes /\ Len(a.buf) \in Nat /\ Len(a.out) \in Nat
        /\ Stream(a) \in Bytes /\ Len(a.buf) <= WriteBufSize
    BY Whole
  <2>2. PICK k : k = Sink(a, a.buf)
    OBVIOUS
  <2>3. PICK n \in 0 .. Len(a.buf) : /\ k.out = Cat(a.out, SubSeq(a.buf, 1, n))
                                     /\ k.err = (n < Len(a.buf)) /\ k \in Writer
    BY <2>1, <2>2, SinkFacts
  <2>4. PICK s, r : s = SubSeq(a.buf, 1, n) /\ r = SubSeq(a.buf, n + 1, Len(a.buf))
    OBVIOUS
  <2>5. s \in Bytes /\ Len(s) = n /\ r \in Bytes /\ Len(r) = Len(a.buf) - n /\ Cat(s, r) = a.buf
    BY <2>1, <2>4, Halves
  <2>6. Len(k.out) = Len(a.out) + n
    <3>1. Len(Cat(a.out, s)) = Len(a.out) + Len(s)
      BY <2>1, <2>5, CatFacts
    <3> QED
      BY <2>3, <2>4, <2>5, <3>1
  <2>7. 1 + Len(k.out) - Len(a.out) = n + 1
    BY <2>1, <2>6
  <2>8. PICK b : b = [k EXCEPT !.buf = r]
    OBVIOUS
  <2>9. Flush(a) = b
    BY <1>2, <2>2, <2>4, <2>7, <2>8 DEF Flush
  <2>10. b.out = k.out /\ b.err = k.err /\ b.buf = r /\ b \in Writer
    BY <2>3, <2>5, <2>8 DEF Writer
  <2>11. Sound(b)
    <3>1. Len(r) <= WriteBufSize
      <4>1. WriteBufSize \in Nat
        BY FramingAssumption DEF FramingAssumption
      <4>2. Len(a.buf) - n <= WriteBufSize
        BY <2>1, <4>1
      <4> QED
        BY <2>5, <4>2
    <3> QED
      BY <2>10, <3>1 DEF Sound
  <2>12. b.out = Cat(a.out, s)
    BY <2>3, <2>4, <2>10
  <2>13. Stream(b) = Stream(a)
    BY <2>1, <2>5, <2>10, <2>12, CatAssoc DEF Stream
  <2>14. Cat(Stream(a), <<>>) = Stream(a)
    BY <2>1, CatFacts
  <2>15. Cat(Stream(a), <<>>) = Cat(b.out, r)
    BY <2>10, <2>13, <2>14 DEF Stream
  <2>16. Took(a, b, <<>>)
    BY <1>2, <2>5, <2>11, <2>12, <2>13, <2>14, <2>15 DEF Took
  <2>17. b.err \/ b.buf = <<>>
    <3>1. ~(n < Len(a.buf)) => Len(a.buf) - n = 0
      BY <2>1
    <3> QED
      BY <2>3, <2>5, <2>10, <3>1, NoCells
  <2> QED
    BY <2>9, <2>16, <2>17
<1> QED
  BY <1>1, <1>2

LEMMA TookPut ==
    ASSUME NEW a, Sound(a), NEW c \in Bytes, a.err \/ a.buf = <<>> \/ Len(c) <= Available(a)
    PROVE  Took(a, Put(a, c), c)
<1>0. Len(a.buf) \in Nat /\ Len(c) \in Nat /\ WriteBufSize \in Nat
  BY Whole, CatFacts, FramingAssumption DEF FramingAssumption
<1>1. CASE a.err
  BY <1>1, TookNone DEF Put
<1>2. CASE ~a.err /\ Len(c) <= Available(a)
  <2>1. Len(a.buf) + Len(c) <= WriteBufSize
    BY <1>0, <1>2 DEF Available
  <2> QED
    BY <1>2, <2>1, TookKept DEF Put
<1>3. CASE ~a.err /\ ~(Len(c) <= Available(a))
  BY <1>3, TookSent DEF Put
<1> QED
  BY <1>1, <1>2, <1>3

LEMMA TookWritten ==
    ASSUME NEW a, Sound(a), NEW c \in Bytes
    PROVE  Took(a, Write(a, c), c)
<1>1. CASE a.err \/ a.buf = <<>> \/ Len(c) <= Available(a)
  BY <1>1, TookPut DEF Write
<1>2. CASE ~(a.err \/ a.buf = <<>> \/ Len(c) <= Available(a))
  <2>0. PICK n : n = Available(a)
    OBVIOUS
  <2>1. n \in 0 .. Len(c) /\ Len(a.buf) + n = WriteBufSize
    <3>1. Len(a.buf) \in Nat /\ Len(c) \in Nat /\ WriteBufSize \in Nat /\ Len(a.buf) <= WriteBufSize
      BY Whole, CatFacts, FramingAssumption DEF FramingAssumption
    <3> QED
      BY <1>2, <2>0, <3>1 DEF Available
  <2>2. PICK s, r : s = SubSeq(c, 1, n) /\ r = SubSeq(c, n + 1, Len(c))
    OBVIOUS
  <2>3. s \in Bytes /\ r \in Bytes /\ Len(s) = n /\ Cat(s, r) = c
    BY <2>1, <2>2, Halves
  <2>4. PICK k : k = [a EXCEPT !.buf = @ \o s]
    OBVIOUS
  <2>5. Took(a, k, s)
    <3>1. ~a.err /\ Len(a.buf) + Len(s) <= WriteBufSize
      <4>1. WriteBufSize \in Nat
        BY FramingAssumption DEF FramingAssumption
      <4> QED
        BY <1>2, <2>1, <2>3, <4>1
    <3> QED
      BY <2>3, <2>4, <3>1, TookKept
  <2>6. Sound(k)
    BY <2>5 DEF Took
  <2>7. Took(k, Flush(k), <<>>) /\ (Flush(k).err \/ Flush(k).buf = <<>>)
    BY <2>6, TookFlushed
  <2>8. Cat(s, <<>>) = s /\ <<>> \in Bytes
    BY <2>3, NoCells, CatFacts
  <2>9. Took(a, Flush(k), s)
    <3>1. Took(a, Flush(k), Cat(s, <<>>))
      BY <2>3, <2>5, <2>7, <2>8, TookBoth
    <3> QED
      BY <2>8, <3>1
  <2>10. Sound(Flush(k))
    BY <2>9 DEF Took
  <2>11. Took(Flush(k), Put(Flush(k), r), r)
    BY <2>3, <2>7, <2>10, TookPut
  <2>12. Took(a, Put(Flush(k), r), Cat(s, r))
    BY <2>3, <2>9, <2>11, TookBoth
  <2>13. Write(a, c) = Put(Flush(k), r)
    BY <1>2, <2>0, <2>2, <2>4 DEF Write
  <2> QED
    BY <2>3, <2>12, <2>13
<1> QED
  BY <1>1, <1>2

LEMMA TookPeeked ==
    ASSUME NEW a, Sound(a), NEW c \in Bytes, Len(c) <= WriteBufSize
    PROVE  Took(a, Peek(a, c), c)
<1>0. Len(a.buf) \in Nat /\ Len(c) \in Nat /\ WriteBufSize \in Nat
  BY Whole, CatFacts, FramingAssumption DEF FramingAssumption
<1>1. PICK f : f = IF Available(a) < Len(c) THEN Flush(a) ELSE a
  OBVIOUS
<1>2. <<>> \in Bytes /\ Cat(<<>>, c) = c /\ Len(<<>>) = 0
  BY NoCells, CatFacts
<1>3. Took(a, f, <<>>) /\ Sound(f)
  BY <1>1, <1>2, TookNone, TookFlushed DEF Took
<1>4. ~f.err => Len(f.buf) + Len(c) <= WriteBufSize
  <2>1. CASE Available(a) < Len(c)
    <3>1. f.err \/ f.buf = <<>>
      BY <1>1, <2>1, TookFlushed
    <3> QED
      BY <1>0, <1>2, <3>1
  <2>2. CASE ~(Available(a) < Len(c))
    BY <1>0, <1>1, <2>2 DEF Available
  <2> QED
    BY <2>1, <2>2
<1>5. Took(f, Peek(a, c), c)
  <2>1. Peek(a, c) = IF f.err THEN f ELSE [f EXCEPT !.buf = @ \o c]
    BY <1>1 DEF Peek
  <2>2. CASE f.err
    BY <1>3, <2>1, <2>2, TookNone
  <2>3. CASE ~f.err
    BY <1>3, <1>4, <2>1, <2>3, TookKept
  <2> QED
    BY <2>2, <2>3
<1>7. Took(a, Peek(a, c), Cat(<<>>, c))
  BY <1>2, <1>3, <1>5, TookBoth
<1> QED
  BY <1>2, <1>7

-----------------------------------------------------------------------------
(* The wire format: what an item is on the wire *)

\* What the reading end is to get as the body, the length of the packet, what
\* stands before the packet, and the packet.
Data(item) ==
    IF item.kind = "heart" THEN <<item.online>>
    ELSE IF item.kind = "batch" THEN SubSeq(item.proto.body, RawHeaderSize + 1, Len(item.proto.body))
    ELSE item.proto.body
Size(item) == RawHeaderSize + Len(Data(item))
Start(n) == Cat(<<FinBit + BinaryMessage, Length(n).low>>, Length(n).ext)
Ahead(how, item) == IF how = "tcp" THEN <<>> ELSE Start(Size(item))
Packet(item) == Cat(Header(Size(item), item.proto), Data(item))
CellsOf(how, item) == Cat(Ahead(how, item), Packet(item))

\* Texts of cells, short enough for their length to fit its prefix, and the
\* messages, acknowledgements and sync requests that can be encoded.
Text(s) == s \in Bytes /\ Len(s) <= MaxPrefix
MsgBody(mb) ==
    /\ mb = [msgID |-> mb.msgID, fromUID |-> mb.fromUID, toUID |-> mb.toUID, timestamp |-> mb.timestamp,
             seq |-> mb.seq, content |-> mb.content]
    /\ Text(mb.msgID) /\ mb.content \in Bytes
    /\ mb.fromUID \in Nat /\ mb.toUID \in Nat /\ mb.timestamp \in Nat /\ mb.seq \in Nat
AckBody(ab) ==
    /\ ab = [msgID |-> ab.msgID, seq |-> ab.seq, deviceID |-> ab.deviceID, sessionID |-> ab.sessionID]
    /\ Text(ab.msgID) /\ Text(ab.deviceID) /\ Text(ab.sessionID) /\ ab.seq \in Nat
SyncReq(sr) == sr = [lastSeq |-> sr.lastSeq, limit |-> sr.limit] /\ sr.lastSeq \in Nat /\ sr.limit \in Nat
Encodable(op, what) ==
    /\ op # OpSyncReply
    /\ op = OpSendMsg => MsgBody(what)
    /\ op = OpPushMsgAck => AckBody(what)
    /\ op = OpSyncReq => SyncReq(what)

\* The items that a server writes one packet for: a proto that carries a
\* message encoded, or a sync reply that decodes to what was meant, a heartbeat
\* reply, and on a WebSocket a batch.
BodyOps == {OpSendMsg, OpPushMsgAck, OpSyncReq, OpSyncReply}
PlainItem(how, item) ==
    /\ item.proto.op \in Nat /\ item.proto.seq \in Nat /\ item.proto.body \in Seq(Nat)
    /\ \/ /\ item.kind = "proto" /\ item.proto.op # OpRaw
          /\ \/ Encodable(item.proto.op, item.what)
                /\ Marshal(item.proto.op, item.what) = <<item.proto.body>>
             \/ /\ item.proto.op = OpSyncReply
                /\ Unmarshal(OpSyncReply, item.proto.body) = <<Completed(OpSyncReply, item.what)>>
       \/ item.kind = "heart" /\ item.proto.op \notin BodyOps /\ item.online \in Nat
       \/ /\ item.kind = "batch" /\ how = "ws" /\ item.proto.op = OpRaw
          /\ Len(item.proto.body) > RawHeaderSize

LEMMA LengthFacts ==
    ASSUME NEW n \in Nat
    PROVE  /\ Length(n).low \in Nat /\ Length(n).low < MaskBit
           /\ Length(n).low <= Small => Length(n).low = n /\ Length(n).ext = <<>>
           /\ Length(n).low > Small => Length(n).ext = <<n>>
BY FramingAssumption DEF FramingAssumption, Length, MaskBit

LEMMA OneCell == ASSUME NEW x \in Nat PROVE <<x>> \in Bytes /\ Len(<<x>>) = 1 /\ <<x>>[1] = x
BY DEF Bytes

LEMMA StartFacts ==
    ASSUME NEW n \in Nat
    PROVE  /\ <<FinBit + BinaryMessage, Length(n).low>> \in Bytes /\ Length(n).ext \in Bytes
           /\ Len(<<FinBit + BinaryMessage, Length(n).low>>) = 2 /\ Len(Length(n).ext) <= 1
           /\ Len(Length(n).ext) \in Nat
           /\ Start(n) \in Bytes /\ Len(Start(n)) = 2 + Len(Length(n).ext)
           /\ Start(n)[1] = FinBit + BinaryMessage /\ Start(n)[2] = Length(n).low
           /\ Length(n).low > Small => Start(n)[3] = n /\ Len(Start(n)) = 3
           /\ Length(n).low <= Small => Len(Start(n)) = 2
<1>0. Small \in Nat
  BY FramingAssumption DEF FramingAssumption
<1>1. PICK h, e : h = <<FinBit + BinaryMessage, Length(n).low>> /\ e = Length(n).ext
  OBVIOUS
<1>2. h \in Bytes /\ Len(h) = 2 /\ h[1] = FinBit + BinaryMessage /\ h[2] = Length(n).low
  BY <1>1, LengthFacts DEF Bytes, FinBit, BinaryMessage
<1>3. /\ Length(n).low <= Small => e = <<>> /\ Len(e) = 0
      /\ Length(n).low > Small => e = <<n>> /\ Len(e) = 1 /\ e[1] = n
      /\ e \in Bytes /\ Len(e) \in Nat /\ Len(e) <= 1
  <2>1. CASE Length(n).low <= Small
    <3>1. e = <<>>
      BY <1>1, <2>1, LengthFacts
    <3>2. ~(Length(n).low > Small)
      BY <1>0, <2>1, LengthFacts
    <3> QED
      BY <3>1, <3>2, NoCells
  <2>2. CASE ~(Length(n).low <= Small)
    <3>1. Length(n).low > Small
      BY <1>0, <2>2, LengthFacts
    <3>2. e = <<n>>
      BY <1>1, <3>1, LengthFacts
    <3> QED
      BY <2>2, <3>2, OneCell
  <2> QED
    BY <2>1, <2>2
<1>4. h \o e \in Bytes /\ Len(h \o e) = 2 + Len(e) /\ (h \o e)[1] = h[1] /\ (h \o e)[2] = h[2]
      /\ (Len(e) = 1 => (h \o e)[3] = e[1])
  <2>1. h \in Seq(Nat) /\ e \in Seq(Nat) /\ Len(h) = 2 /\ Len(e) \in Nat
    BY <1>2, <1>3 DEF Bytes
  <2>2. h \o e \in Seq(Nat) /\ Len(h \o e) = Len(h) + Len(e)
    BY <2>1, ConcatProperties
  <2>3. \A i \in 1 .. Len(h) + Len(e) : (h \o e)[i] = IF i <= Len(h) THEN h[i] ELSE e[i - Len(h)]
    BY <2>1, ConcatProperties
  <2>4. 1 \in 1 .. Len(h) + Len(e) /\ 2 \in 1 .. Len(h) + Len(e) /\ (Len(e) = 1 => 3 \in 1 .. Len(h) + Len(e) /\ 3 - Len(h) = 1)
    <3>1. Len(e) = 1 => 3 \in 1 .. 2 + Len(e)
      BY <2>1
    <3>2. 1 \in 1 .. 2 + Len(e) /\ 2 \in 1 .. 2 + Len(e)
      BY <2>1
    <3>3. 3 - 2 = 1
      OBVIOUS
    <3> QED
      BY <2>1, <3>1, <3>2, <3>3
  <2>5. 1 <= Len(h) /\ 2 <= Len(h) /\ ~(3 <= Len(h))
    BY <2>1
  <2>6. (h \o e)[1] = h[1] /\ (h \o e)[2] = h[2]
    BY <2>3, <2>4, <2>5
  <2>7. Len(e) = 1 => (h \o e)[3] = e[1]
    BY <2>3, <2>4, <2>5
  <2> QED
    BY <2>1, <2>2, <2>6, <2>7 DEF Bytes
<1>5. Start(n) = h \o e
  BY <1>1 DEF Start, Cat
<1> QED
  BY <1>0, <1>1, <1>2, <1>3, <1>4, <1>5, LengthFacts

LEMMA HeaderFacts ==
    ASSUME NEW n \in Nat, NEW p, p.op \in Nat, p.seq \in Nat
    PROVE  /\ Header(n, p) \in Bytes /\ Len(Header(n, p)) = RawHeaderSize
           /\ Header(n, p)[1] = n /\ Header(n, p)[2] = RawHeaderSize
           /\ Header(n, p)[4] = p.op /\ Header(n, p)[5] = p.seq
BY DEF Header, Bytes, RawHeaderSize

\* The body is in the packet, and no longer than the proto's own, but for a
\* heartbeat.
LEMMA ItemFacts ==
    ASSUME NEW how, NEW item, PlainItem(how, item)
    PROVE  /\ Data(item) \in Bytes /\ Len(Data(item)) \in Nat
           /\ Size(item) \in Nat /\ Size(item) = RawHeaderSize + Len(Data(item))
           /\ item.kind = "heart" => Len(Data(item)) = HeartSize /\ Data(item) = <<item.online>>
           /\ item.kind # "heart" => /\ item.kind \in {"proto", "batch"} /\ item.proto.body \in Bytes
                                     /\ Len(item.proto.body) \in Nat
                                     /\ Len(Data(item)) <= Len(item.proto.body)
           /\ item.proto.op \in Nat /\ item.proto.seq \in Nat
<1>0. item.proto.body \in Bytes /\ Len(item.proto.body) \in Nat /\ item.kind \in {"proto", "heart", "batch"}
  BY LenProperties DEF PlainItem, Bytes
<1>1. CASE item.kind = "heart"
  <2>1. Data(item) = <<item.online>> /\ item.online \in Nat
    BY <1>1 DEF Data, PlainItem
  <2> QED
    BY <1>1, <2>1, OneCell DEF PlainItem, Size, RawHeaderSize, HeartSize
<1>2. CASE item.kind = "proto"
  <2>1. Data(item) = item.proto.body
    BY <1>2 DEF Data
  <2> QED
    BY <1>0, <1>2, <2>1 DEF PlainItem, Size, RawHeaderSize
<1>3. CASE item.kind = "batch"
  <2>1. Data(item) = SubSeq(item.proto.body, RawHeaderSize + 1, Len(item.proto.body))
    BY <1>3 DEF Data
  <2>2. RawHeaderSize \in 0 .. Len(item.proto.body)
    BY <1>0, <1>3 DEF PlainItem, RawHeaderSize
  <2>3. Data(item) \in Bytes /\ Len(Data(item)) = Len(item.proto.body) - RawHeaderSize
    BY <1>0, <2>1, <2>2, Halves
  <2>4. Len(Data(item)) \in Nat /\ Len(Data(item)) <= Len(item.proto.body)
    BY <1>0, <2>2, <2>3 DEF RawHeaderSize
  <2> QED
    BY <1>0, <1>3, <2>3, <2>4 DEF PlainItem, Size, RawHeaderSize
<1> QED
  BY <1>0, <1>1, <1>2, <1>3

LEMMA PacketFacts ==
    ASSUME NEW how, NEW item, PlainItem(how, item)
    PROVE  /\ Header(Size(item), item.proto) \in Bytes /\ Len(Header(Size(item), item.proto)) = RawHeaderSize
           /\ Packet(item) \in Bytes /\ Len(Packet(item)) = Size(item)
           /\ Ahead(how, item) \in Bytes /\ CellsOf(how, item) \in Bytes
           /\ Len(CellsOf(how, item)) = Len(Ahead(how, item)) + Size(item)
           /\ Len(Ahead(how, item)) \in Nat
<1>1. Data(item) \in Bytes /\ Size(item) \in Nat /\ Size(item) = RawHeaderSize + Len(Data(item))
  BY ItemFacts
<1>2. Header(Size(item), item.proto) \in Bytes /\ Len(Header(Size(item), item.proto)) = RawHeaderSize
  BY <1>1, HeaderFacts, ItemFacts
<1>3. Packet(item) \in Bytes /\ Len(Packet(item)) = Size(item)
  BY <1>1, <1>2, CatFacts DEF Packet
<1>4. Ahead(how, item) \in Bytes
  BY <1>1, StartFacts, NoCells DEF Ahead
<1>5. /\ CellsOf(how, item) \in Bytes /\ Len(Ahead(how, item)) \in Nat
      /\ Len(CellsOf(how, item)) = Len(Ahead(how, item)) + Size(item)
  BY <1>3, <1>4, CatFacts DEF CellsOf
<1> QED
  BY <1>2, <1>3, <1>4, <1>5

LEMMA TookStart ==
    ASSUME NEW a, Sound(a), NEW n \in Nat
    PROVE  Took(a, WriteHeader(a, BinaryMessage, n), Start(n))
<1>0. PICK h, e : h = <<FinBit + BinaryMessage, Length(n).low>> /\ e = Length(n).ext
  OBVIOUS
<1>1. h \in Bytes /\ e \in Bytes /\ Len(h) <= WriteBufSize /\ Len(e) <= WriteBufSize
  <2>1. h \in Bytes /\ e \in Bytes /\ Len(h) = 2 /\ Len(e) \in Nat /\ Len(e) <= 1
    BY <1>0, StartFacts
  <2>2. WriteBufSize \in Nat /\ 6 <= WriteBufSize
    BY FramingAssumption DEF FramingAssumption, RawHeaderSize, HeartSize
  <2> QED
    BY <2>1, <2>2
<1>2. Took(a, Peek(a, h), h)
  BY <1>1, TookPeeked
<1>3. Sound(Peek(a, h))
  BY <1>2 DEF Took
<1>4. Took(Peek(a, h), WriteHeader(a, BinaryMessage, n), e)
  <2>1. CASE e = <<>>
    <3>1. WriteHeader(a, BinaryMessage, n) = Peek(a, h)
      BY <1>0, <2>1 DEF WriteHeader
    <3> QED
      BY <1>1, <1>3, <2>1, <3>1, TookNone
  <2>2. CASE e # <<>>
    <3>1. WriteHeader(a, BinaryMessage, n) = Peek(Peek(a, h), e)
      BY <1>0, <2>2 DEF WriteHeader
    <3> QED
      BY <1>1, <1>3, <3>1, TookPeeked
  <2> QED
    BY <2>1, <2>2
<1>5. Took(a, WriteHeader(a, BinaryMessage, n), Cat(h, e))
  BY <1>1, <1>2, <1>4, TookBoth
<1> QED
  BY <1>0, <1>5 DEF Start

LEMMA TookBody ==
    ASSUME NEW a, Sound(a), NEW c \in Bytes
    PROVE  Took(a, WriteBody(a, c), c)
BY TookNone, TookWritten DEF WriteBody

\* A packet after what stands before it.
LEMMA TookItem ==
    ASSUME NEW how \in {"tcp", "ws"}, NEW item, PlainItem(how, item), NEW a, Sound(a)
    PROVE  Took(a, WriteItem(a, how, item), CellsOf(how, item))
<1>0. PICK p, n, d, h, f : /\ p = item.proto /\ n = Size(item) /\ d = Data(item) /\ h = Header(Size(item), item.proto)
                           /\ f = Ahead(how, item)
  OBVIOUS
<1>1. n \in Nat /\ n = RawHeaderSize + Len(d) /\ d \in Bytes /\ h \in Bytes /\ Len(h) = RawHeaderSize /\ f \in Bytes
  BY <1>0, ItemFacts, PacketFacts
<1>2. WriteBufSize \in Nat /\ RawHeaderSize + HeartSize <= WriteBufSize /\ RawHeaderSize <= WriteBufSize
  BY FramingAssumption DEF FramingAssumption, RawHeaderSize, HeartSize
<1>3. PICK b : b = IF how = "tcp" THEN a ELSE WriteHeader(a, BinaryMessage, n)
  OBVIOUS
<1>4. Took(a, b, f) /\ Sound(b)
  <2>1. CASE how = "tcp"
    <3>1. b = a /\ f = <<>>
      BY <1>0, <1>3, <2>1 DEF Ahead
    <3>2. Took(a, a, <<>>)
      BY NoCells, TookNone
    <3> QED
      BY <3>1, <3>2
  <2>2. CASE how # "tcp"
    <3>1. b = WriteHeader(a, BinaryMessage, n) /\ f = Start(n)
      BY <1>0, <1>3, <2>2 DEF Ahead
    <3>2. Took(a, b, f)
      BY <1>1, <3>1, TookStart
    <3> QED
      BY <3>2 DEF Took
  <2> QED
    BY <2>1, <2>2
<1>5. Took(b, WriteItem(a, how, item), Cat(h, d))
  <2>1. CASE item.kind = "heart"
    <3>1. d = <<item.online>> /\ Len(d) = HeartSize
      BY <1>0, <2>1, ItemFacts
    <3>2. WriteItem(a, how, item) = Peek(b, Cat(h, d))
      BY <1>0, <1>1, <1>3, <2>1, <3>1 DEF WriteItem, WriteTCPHeart, WriteWebsocketHeart, Cat
    <3>3. Cat(h, d) \in Bytes /\ Len(Cat(h, d)) = RawHeaderSize + HeartSize
      BY <1>1, <3>1, CatFacts
    <3> QED
      BY <1>2, <1>4, <3>2, <3>3, TookPeeked
  <2>2. CASE item.kind # "heart"
    <3>1. Took(b, Peek(b, h), h)
      BY <1>1, <1>2, <1>4, TookPeeked
    <3>2. Sound(Peek(b, h))
      BY <3>1 DEF Took
    <3>3. Took(Peek(b, h), WriteItem(a, how, item), d)
      <4>1. CASE how = "tcp"
        <5>1. item.kind = "proto" /\ p.op # OpRaw /\ d = p.body
          BY <1>0, <2>2, <4>1 DEF PlainItem, Data
        <5>2. WriteItem(a, how, item) = Write(Peek(b, h), d)
          BY <1>0, <1>1, <1>3, <2>2, <4>1, <5>1 DEF WriteItem, WriteTCP
        <5> QED
          BY <1>1, <3>2, <5>2, TookWritten
      <4>2. CASE how = "ws"
        <5>1. d = IF p.op = OpRaw /\ Len(p.body) > RawHeaderSize THEN SubSeq(p.body, RawHeaderSize + 1, Len(p.body)) ELSE p.body
          BY <1>0, <2>2 DEF PlainItem, Data
        <5>2. WriteItem(a, how, item) = WriteBody(Peek(b, h), d)
          BY <1>0, <1>1, <1>3, <2>2, <4>2, <5>1 DEF WriteItem, WriteWebsocket
        <5> QED
          BY <1>1, <3>2, <5>2, TookBody
      <4> QED
        BY <4>1, <4>2
    <3> QED
      BY <1>1, <1>4, <3>1, <3>3, TookBoth
  <2> QED
    BY <2>1, <2>2
<1>6. Cat(h, d) \in Bytes
  BY <1>1, CatFacts
<1>7. Took(a, WriteItem(a, how, item), Cat(f, Cat(h, d)))
  BY <1>1, <1>4, <1>5, <1>6, TookBoth
<1> QED
  BY <1>0, <1>7 DEF CellsOf, Packet

-----------------------------------------------------------------------------
(* The wire format: parts of a stream *)

\* The cells after the first a, up to the b-th.
Part(d, a, b) == SubSeq(d, a + 1, b)

LEMMA PartFacts ==
    ASSUME NEW d \in Bytes, NEW a \in Nat, NEW b \in Nat, a <= b, b <= Len(d)
    PROVE  /\ Part(d, a, b) \in Bytes /\ Len(Part(d, a, b)) = b - a
           /\ \A i \in 1 .. b - a : Part(d, a, b)[i] = d[a + i]
<1>0. Len(d) \in Nat /\ \A i \in 1 .. Len(d) : d[i] \in Nat
  BY LenProperties DEF Bytes
<1>1. a + 1 \in Int /\ b \in Int /\ \A i \in a + 1 .. b : d[i] \in Nat
  BY <1>0
<1>2. /\ SubSeq(d, a + 1, b) \in Seq(Nat)
      /\ Len(SubSeq(d, a + 1, b)) = IF a + 1 <= b THEN b - (a + 1) + 1 ELSE 0
      /\ \A i \in 1 .. b - (a + 1) + 1 : SubSeq(d, a + 1, b)[i] = d[(a + 1) + i - 1]
  BY <1>1, SubSeqProperties
<1>3. Len(SubSeq(d, a + 1, b)) = b - a
  BY <1>2
<1>4. ASSUME NEW i \in 1 .. b - a PROVE SubSeq(d, a + 1, b)[i] = d[a + i]
  <2>1. i \in 1 .. b - (a + 1) + 1 /\ (a + 1) + i - 1 = a + i
    OBVIOUS
  <2> QED
    BY <1>2, <2>1
<1> QED
  BY <1>2, <1>3, <1>4 DEF Part, Bytes

LEMMA Same ==
    ASSUME NEW s \in Bytes, NEW t \in Bytes, Len(s) = Len(t), \A i \in 1 .. Len(s) : s[i] = t[i]
    PROVE  s = t
BY SeqEqual DEF Bytes

LEMMA CatAt ==
    ASSUME NEW s \in Bytes, NEW t \in Bytes
    PROVE  /\ \A i \in 1 .. Len(s) : Cat(s, t)[i] = s[i]
           /\ \A i \in 1 .. Len(t) : Cat(s, t)[Len(s) + i] = t[i]
<1>0. Len(s) \in Nat /\ Len(t) \in Nat
  BY CatFacts
<1>1. \A i \in 1 .. Len(s) + Len(t) : (s \o t)[i] = IF i <= Len(s) THEN s[i] ELSE t[i - Len(s)]
  BY ConcatProperties DEF Bytes
<1>2. ASSUME NEW i \in 1 .. Len(s) PROVE (s \o t)[i] = s[i]
  <2>1. i \in 1 .. Len(s) + Len(t) /\ i <= Len(s)
    BY <1>0
  <2> QED
    BY <1>1, <2>1
<1>3. ASSUME NEW i \in 1 .. Len(t) PROVE (s \o t)[Len(s) + i] = t[i]
  <2>1. Len(s) + i \in 1 .. Len(s) + Len(t) /\ ~(Len(s) + i <= Len(s)) /\ (Len(s) + i) - Len(s) = i
    BY <1>0
  <2> QED
    BY <1>1, <2>1
<1> QED
  BY <1>2, <1>3 DEF Cat

\* A part of a part.
LEMMA PartPart ==
    ASSUME NEW d \in Bytes, NEW a \in Nat, NEW b \in Nat, a <= b, b <= Len(d), NEW n \in 0 .. b - a
    PROVE  /\ SubSeq(Part(d, a, b), 1, n) = Part(d, a, a + n)
           /\ SubSeq(Part(d, a, b), n + 1, Len(Part(d, a, b))) = Part(d, a + n, b)
<1>0. PICK s : s = Part(d, a, b)
  OBVIOUS
<1>1. Len(d) \in Nat /\ s \in Bytes /\ Len(s) = b - a /\ \A i \in 1 .. b - a : s[i] = d[a + i]
  BY <1>0, CatFacts, PartFacts
<1>2. a + n \in Nat /\ a <= a + n /\ a + n <= b /\ a + n <= Len(d) /\ n \in Nat /\ b - a \in Nat
  BY <1>1
<1>3. SubSeq(s, 1, n) = Part(d, a, a + n)
  <2>1. /\ Part(s, 0, n) \in Bytes /\ Len(Part(s, 0, n)) = n - 0
        /\ \A i \in 1 .. n - 0 : Part(s, 0, n)[i] = s[0 + i]
    <3>1. s \in Bytes /\ 0 \in Nat /\ n \in Nat /\ 0 <= n /\ n <= Len(s)
      BY <1>1, <1>2
    <3> QED
      BY <3>1, PartFacts
  <2>2. /\ Part(d, a, a + n) \in Bytes /\ Len(Part(d, a, a + n)) = (a + n) - a
        /\ \A i \in 1 .. (a + n) - a : Part(d, a, a + n)[i] = d[a + i]
    BY <1>2, PartFacts
  <2>3. ASSUME NEW i \in 1 .. n PROVE Part(s, 0, n)[i] = Part(d, a, a + n)[i]
    <3>1. i \in 1 .. n - 0 /\ i \in 1 .. (a + n) - a /\ i \in 1 .. b - a /\ 0 + i = i
      BY <1>2
    <3> QED
      BY <1>1, <2>1, <2>2, <3>1
  <2>4. Len(Part(s, 0, n)) = n /\ Len(Part(d, a, a + n)) = n
    BY <1>2, <2>1, <2>2
  <2>5. Part(s, 0, n) = Part(d, a, a + n)
    BY <2>1, <2>2, <2>3, <2>4, Same
  <2> QED
    BY <2>5 DEF Part
<1>4. SubSeq(s, n + 1, Len(s)) = Part(d, a + n, b)
  <2>1. /\ Part(s, n, b - a) \in Bytes /\ Len(Part(s, n, b - a)) = (b - a) - n
        /\ \A i \in 1 .. (b - a) - n : Part(s, n, b - a)[i] = s[n + i]
    <3>1. s \in Bytes /\ n \in Nat /\ b - a \in Nat /\ n <= b - a /\ b - a <= Len(s)
      BY <1>1, <1>2
    <3> QED
      BY <3>1, PartFacts
  <2>2. /\ Part(d, a + n, b) \in Bytes /\ Len(Part(d, a + n, b)) = b - (a + n)
        /\ \A i \in 1 .. b - (a + n) : Part(d, a + n, b)[i] = d[(a + n) + i]
    BY <1>1, <1>2, PartFacts
  <2>3. ASSUME NEW i \in 1 .. (b - a) - n PROVE Part(s, n, b - a)[i] = Part(d, a + n, b)[i]
    <3>1. i \in 1 .. b - (a + n) /\ n + i \in 1 .. b - a /\ a + (n + i) = (a + n) + i
      BY <1>2
    <3> QED
      BY <1>1, <2>1, <2>2, <3>1
  <2>4. Len(Part(s, n, b - a)) = Len(Part(d, a + n, b))
    BY <1>2, <2>1, <2>2
  <2>5. Part(s, n, b - a) = Part(d, a + n, b)
    BY <2>1, <2>2, <2>3, <2>4, Same
  <2> QED
    BY <1>1, <2>5 DEF Part
<1> QED
  BY <1>0, <1>3, <1>4

\* One part after the other.
LEMMA PartNext ==
    ASSUME NEW d \in Bytes, NEW a \in Nat, NEW b \in Nat, NEW c \in Nat, a <= b, b <= c, c <= Len(d)
    PROVE  Part(d, a, b) \o Part(d, b, c) = Part(d, a, c)
<1>0. Len(d) \in Nat
  BY CatFacts
<1>1. a + 1 \in 1 .. Len(d) + 1 /\ b \in (a + 1) - 1 .. Len(d) /\ c \in b .. Len(d)
  BY <1>0
<1> QED
  BY <1>1, ConcatAdjacentSubSeq DEF Part, Bytes

\* A stream that grows keeps its parts, and ends with what it got.
LEMMA PartGrown ==
    ASSUME NEW d \in Bytes, NEW c \in Bytes
    PROVE  /\ \A a, b \in Nat : a <= b /\ b <= Len(d) => Part(Cat(d, c), a, b) = Part(d, a, b)
           /\ Part(Cat(d, c), Len(d), Len(Cat(d, c))) = c
<1>0. /\ Cat(d, c) \in Bytes /\ Len(Cat(d, c)) = Len(d) + Len(c) /\ Len(d) \in Nat /\ Len(c) \in Nat
      /\ \A i \in 1 .. Len(d) : Cat(d, c)[i] = d[i]
      /\ \A i \in 1 .. Len(c) : Cat(d, c)[Len(d) + i] = c[i]
  BY CatFacts, CatAt
<1>1. PICK g : g = Cat(d, c)
  OBVIOUS
<1>2. ASSUME NEW a \in Nat, NEW b \in Nat, a <= b, b <= Len(d) PROVE Part(g, a, b) = Part(d, a, b)
  <2>0. b <= Len(g) /\ g \in Bytes
    BY <1>0, <1>1, <1>2
  <2>1. /\ Part(g, a, b) \in Bytes /\ Len(Part(g, a, b)) = b - a
        /\ \A i \in 1 .. b - a : Part(g, a, b)[i] = g[a + i]
    BY <1>2, <2>0, PartFacts
  <2>2. /\ Part(d, a, b) \in Bytes /\ Len(Part(d, a, b)) = b - a
        /\ \A i \in 1 .. b - a : Part(d, a, b)[i] = d[a + i]
    BY <1>2, PartFacts
  <2>3. ASSUME NEW i \in 1 .. b - a PROVE Part(g, a, b)[i] = Part(d, a, b)[i]
    <3>1. a + i \in 1 .. Len(d)
      BY <1>0, <1>2
    <3> QED
      BY <1>0, <1>1, <2>1, <2>2, <3>1
  <2> QED
    BY <2>1, <2>2, <2>3, Same
<1>3. Part(g, Len(d), Len(g)) = c
  <2>0. g \in Bytes /\ Len(g) = Len(d) + Len(c) /\ Len(d) <= Len(g) /\ Len(g) \in Nat /\ Len(g) - Len(d) = Len(c)
    BY <1>0, <1>1
  <2>1. /\ Part(g, Len(d), Len(g)) \in Bytes /\ Len(Part(g, Len(d), Len(g))) = Len(g) - Len(d)
        /\ \A i \in 1 .. Len(g) - Len(d) : Part(g, Len(d), Len(g))[i] = g[Len(d) + i]
    <3>1. g \in Bytes /\ Len(d) \in Nat /\ Len(g) \in Nat /\ Len(d) <= Len(g) /\ Len(g) <= Len(g)
      BY <1>0, <2>0
    <3> QED
      BY <3>1, PartFacts
  <2>2. PICK s : s = Part(g, Len(d), Len(g))
    OBVIOUS
  <2>3. s \in Bytes /\ Len(s) = Len(c) /\ \A i \in 1 .. Len(c) : s[i] = g[Len(d) + i]
    BY <2>0, <2>1, <2>2
  <2>4. \A i \in 1 .. Len(c) : g[Len(d) + i] = c[i]
    BY <1>0, <1>1
  <2>5. s = c
    BY <2>3, <2>4, Same
  <2> QED
    BY <2>2, <2>5
<1> QED
  BY <1>1, <1>2, <1>3

\* A part that is one run of cells and then another.
LEMMA PartSplit ==
    ASSUME NEW d \in Bytes, NEW a \in Nat, NEW b \in Nat, a <= b, b <= Len(d), NEW x \in Bytes, NEW y \in Bytes,
           Part(d, a, b) = Cat(x, y)
    PROVE  /\ a + Len(x) \in Nat /\ a + Len(x) <= b /\ a + Len(x) + Len(y) = b
           /\ Part(d, a, a + Len(x)) = x /\ Part(d, a + Len(x), b) = y
<1>0. Len(x) \in Nat /\ Len(y) \in Nat /\ Len(Cat(x, y)) = Len(x) + Len(y) /\ Len(d) \in Nat /\ Cat(x, y) \in Bytes
  BY CatFacts
<1>1. Len(Part(d, a, b)) = b - a
  BY PartFacts
<1>2. b - a = Len(x) + Len(y) /\ a + Len(x) <= b /\ a + Len(x) + Len(y) = b /\ Len(x) \in 0 .. b - a
  BY <1>0, <1>1
<1>3. /\ SubSeq(Cat(x, y), 1, Len(x)) = Part(d, a, a + Len(x))
      /\ SubSeq(Cat(x, y), Len(x) + 1, Len(Cat(x, y))) = Part(d, a + Len(x), b)
  <2>1. PICK n : n = Len(x)
    OBVIOUS
  <2>2. n \in 0 .. b - a
    BY <1>2, <2>1
  <2>3. /\ SubSeq(Part(d, a, b), 1, n) = Part(d, a, a + n)
        /\ SubSeq(Part(d, a, b), n + 1, Len(Part(d, a, b))) = Part(d, a + n, b)
    BY <2>2, PartPart
  <2> QED
    BY <2>1, <2>3
<1>4. Part(Cat(x, y), 0, Len(x)) = x
  <2>1. Part(Cat(x, y), 0, Len(x)) = Part(x, 0, Len(x))
    <3>1. \A i, j \in Nat : i <= j /\ j <= Len(x) => Part(Cat(x, y), i, j) = Part(x, i, j)
      BY PartGrown
    <3>2. 0 \in Nat /\ 0 <= Len(x) /\ Len(x) <= Len(x)
      BY <1>0
    <3> QED
      BY <1>0, <3>1, <3>2
  <2>2. Part(x, 0, Len(x)) = SubSeq(x, 1, Len(x))
    BY DEF Part
  <2>3. SubSeq(x, 1, Len(x)) = x
    <3>1. Len(x) \in 0 .. Len(x)
      BY <1>0
    <3> QED
      BY <3>1, Halves
  <2> QED
    BY <2>1, <2>2, <2>3
<1>5. Part(Cat(x, y), Len(x), Len(Cat(x, y))) = y
  BY PartGrown
<1> QED
  <2>1. Part(d, a, a + Len(x)) = x
    BY <1>3, <1>4 DEF Part
  <2>2. Part(d, a + Len(x), b) = y
    BY <1>3, <1>5 DEF Part
  <2>3. a + Len(x) \in Nat
    BY <1>0
  <2> QED
    BY <1>2, <2>1, <2>2, <2>3

\* A part that is three runs of cells, and where they are.
Three(d, a, e, x, y, z) ==
    /\ d \in Bytes /\ a \in Nat /\ e \in Nat /\ a <= e /\ e <= Len(d)
    /\ x \in Bytes /\ y \in Bytes /\ z \in Bytes /\ Part(d, a, e) = Cat(x, Cat(y, z))
Pieces(d, a, b, c, e, x, y, z) ==
    /\ b \in Nat /\ c \in Nat /\ c <= e /\ b <= e /\ c + Len(z) = e
    /\ Part(d, a, b) = x /\ Part(d, b, e) = Cat(y, z) /\ Part(d, b, c) = y /\ Part(d, c, e) = z

LEMMA PartThree ==
    ASSUME NEW d, NEW a, NEW e, NEW x, NEW y, NEW z, Three(d, a, e, x, y, z)
    PROVE  Pieces(d, a, a + Len(x), (a + Len(x)) + Len(y), e, x, y, z)
<1>0. /\ d \in Bytes /\ a \in Nat /\ e \in Nat /\ a <= e /\ e <= Len(d)
      /\ x \in Bytes /\ y \in Bytes /\ z \in Bytes /\ Part(d, a, e) = Cat(x, Cat(y, z))
  BY DEF Three
<1>1. PICK t : t = Cat(y, z)
  OBVIOUS
<1>2. PICK b : b = a + Len(x)
  OBVIOUS
<1>3. t \in Bytes /\ Part(d, a, e) = Cat(x, t)
  BY <1>0, <1>1, CatFacts
<1>4. /\ a + Len(x) \in Nat /\ a + Len(x) <= e
      /\ Part(d, a, a + Len(x)) = x /\ Part(d, a + Len(x), e) = t
  BY <1>0, <1>3, PartSplit
<1>6. b \in Nat /\ b <= e /\ Part(d, b, e) = Cat(y, z) /\ Part(d, a, b) = x
  BY <1>1, <1>2, <1>4
<1>7. /\ b + Len(y) \in Nat /\ b + Len(y) <= e /\ b + Len(y) + Len(z) = e
      /\ Part(d, b, b + Len(y)) = y /\ Part(d, b + Len(y), e) = z
  BY <1>0, <1>6, PartSplit
<1> QED
  BY <1>2, <1>6, <1>7 DEF Pieces

\* Where the pieces of a packet are.
Lies(due, how, item, a, e) ==
    /\ PlainItem(how, item) /\ due \in Bytes /\ a \in Nat /\ e \in Nat /\ e <= Len(due)
    /\ e = a + Len(CellsOf(how, item)) /\ Part(due, a, e) = CellsOf(how, item)
Found(due, how, item, a, b, c, e) ==
    /\ b \in Nat /\ c \in Nat /\ c <= e /\ b <= e /\ e = b + Size(item) /\ e = c + Len(Data(item))
    /\ Part(due, a, b) = Ahead(how, item) /\ Part(due, b, e) = Packet(item)
    /\ Part(due, b, c) = Header(Size(item), item.proto) /\ Part(due, c, e) = Data(item)

LEMMA CutItem ==
    ASSUME NEW due, NEW how, NEW item, NEW a, NEW e, Lies(due, how, item, a, e),
           NEW b, b = a + Len(Ahead(how, item)), NEW c, c = b + RawHeaderSize
    PROVE  Found(due, how, item, a, b, c, e)
<1>0. /\ PlainItem(how, item) /\ due \in Bytes /\ a \in Nat /\ e \in Nat /\ e <= Len(due)
      /\ e = a + Len(CellsOf(how, item)) /\ Part(due, a, e) = CellsOf(how, item)
  BY DEF Lies
<1>1. PICK f, h, d : f = Ahead(how, item) /\ h = Header(Size(item), item.proto) /\ d = Data(item)
  OBVIOUS
<1>2. /\ f \in Bytes /\ h \in Bytes /\ d \in Bytes /\ Len(h) = RawHeaderSize
      /\ Len(f) \in Nat /\ Len(d) \in Nat /\ Size(item) \in Nat /\ Size(item) = RawHeaderSize + Len(d)
      /\ Len(CellsOf(how, item)) = Len(f) + Size(item)
  BY <1>0, <1>1, PacketFacts, ItemFacts
<1>3. CellsOf(how, item) = Cat(f, Cat(h, d)) /\ Packet(item) = Cat(h, d)
  BY <1>1 DEF CellsOf, Packet
<1>4. Three(due, a, e, f, h, d)
  BY <1>0, <1>2, <1>3 DEF Three
<1>5. Pieces(due, a, a + Len(f), (a + Len(f)) + Len(h), e, f, h, d)
  BY <1>4, PartThree
<1>6. b = a + Len(f) /\ c = (a + Len(f)) + Len(h)
  BY <1>1, <1>2
<1>7. Pieces(due, a, b, c, e, f, h, d)
  BY <1>5, <1>6
<1>8. e = b + Size(item) /\ e = c + Len(d)
  <2>1. PICK m, n, k : m = Len(f) /\ n = Len(d) /\ k = Size(item)
    OBVIOUS
  <2>2. m \in Nat /\ n \in Nat /\ k = 5 + n /\ e = a + (m + k) /\ b = a + m /\ c = (a + m) + 5
    BY <1>0, <1>2, <1>6, <2>1 DEF RawHeaderSize
  <2>3. e = b + k /\ e = c + n
    BY <1>0, <2>2
  <2> QED
    BY <2>1, <2>3
<1>9. /\ b \in Nat /\ c \in Nat /\ c <= e /\ b <= e
      /\ Part(due, a, b) = f /\ Part(due, b, e) = Cat(h, d) /\ Part(due, b, c) = h /\ Part(due, c, e) = d
  BY <1>7 DEF Pieces
<1>10. /\ e = c + Len(Data(item)) /\ Part(due, a, b) = Ahead(how, item) /\ Part(due, b, e) = Packet(item)
       /\ Part(due, b, c) = Header(Size(item), item.proto) /\ Part(due, c, e) = Data(item)
  BY <1>1, <1>3, <1>8, <1>9, Zenon
<1> QED
  BY <1>8, <1>9, <1>10, Zenon DEF Found

-----------------------------------------------------------------------------
(* The wire format: the stream and the packets in it *)

\* A script whose items are each one packet from a server to its client.
Plain(s) ==
    /\ s.how \in {"tcp", "ws"} /\ s.left \in Nat
    /\ s.items \in Seq(ToSet(s.items))
    /\ \A i \in 1 .. Len(s.items) : PlainItem(s.how, s.items[i])

CellsAt(i) == CellsOf(script.how, script.items[i])
Returned(item) == [op |-> item.proto.op, seq |-> item.proto.seq, body |-> Data(item)]
Protos == [op : Nat, seq : Nat, body : Bytes]
\* Where the reader stands in the stream.
Pos == taken - Len(rbuf)
Frame(at, want, fin, op, len) ==
    [pc |-> at, want |-> want, acc |-> <<>>, n |-> 0, fin |-> fin, op |-> op, mask |-> FALSE,
     len |-> len, key |-> <<>>]

\* due is all that the items handed over come to on the wire, and mark[i] is
\* where the i-th of them ends.
Layout(due, mark) ==
    /\ mark[0] = 0 /\ mark[sent] = Len(due)
    /\ \A i \in 1 .. sent : /\ mark[i] = mark[i - 1] + Len(CellsAt(i)) /\ mark[i] <= Len(due)
                            /\ Part(due, mark[i - 1], mark[i]) = CellsAt(i)
\* What the writer has sent is a beginning of it, and the rest is in the
\* buffer unless the connection broke.
Writes(due) ==
    /\ Sound(w)
    /\ ~w.err => Stream(w) = due
    /\ \E r \in Bytes : due = Cat(w.out, r)
\* The reader holds the part between what it used and what it fetched.
Reads(due) ==
    /\ taken \in Nat /\ taken <= Len(w.out)
    /\ rbuf \in Bytes /\ Len(rbuf) <= taken /\ rbuf = Part(due, Pos, taken)
\* It has returned the packets before the one it stands at, or in.
Between(mark) == rd = AtStart(script.how) /\ Pos = mark[Len(got)]
\* r is where the reader stands after p cells, in the packet of the item that
\* starts after a.
Stands(how, item, a, r, p) ==
    \/ /\ how = "tcp" /\ Data(item) # <<>> /\ p = a + RawHeaderSize
       /\ r = [pc |-> "body", want |-> Len(Data(item)), hdr |-> Header(Size(item), item.proto)]
    \/ how = "ws" /\ p = a + 1 /\ r = Frame("b1", 1, TRUE, BinaryMessage, 0)
    \/ /\ how = "ws" /\ p = a + 2 /\ Length(Size(item)).low > Small
       /\ r = Frame("ext", 1, TRUE, BinaryMessage, Length(Size(item)).low)
    \/ how = "ws" /\ p = a + Len(Start(Size(item))) /\ r = Frame("payload", Size(item), TRUE, BinaryMessage, Size(item))
Within(mark) ==
    Len(got) < sent /\ Stands(script.how, script.items[Len(got) + 1], mark[Len(got)], rd, Pos)
GotSent ==
    /\ got \in Seq(Protos) /\ Len(got) <= sent
    /\ \A j \in 1 .. Len(got) : got[j] = Returned(script.items[j])
Ends ==
    /\ rerr \in {"none", "full", "eof", "packlen"} /\ back = NewWriter(1000)
    /\ rerr = "eof" /\ ~w.err => sent = Len(script.items) /\ w.buf = <<>> /\ Len(got) = sent
    /\ rerr \in {"full", "packlen"} => CanRefuse
Carries(due, mark) ==
    /\ due \in Bytes /\ mark \in [0 .. sent -> Nat]
    /\ Layout(due, mark) /\ Writes(due) /\ Reads(due)
    /\ rerr = "none" => Between(mark) \/ Within(mark)
FInv ==
    Plain(script) =>
        /\ sent \in 0 .. Len(script.items) /\ GotSent /\ Ends
        /\ \E due, mark : Carries(due, mark)

LEMMA PlainFacts ==
    ASSUME NEW s, Plain(s)
    PROVE  /\ s.how \in {"tcp", "ws"} /\ s.left \in Nat /\ Len(s.items) \in Nat /\ DOMAIN s.items = 1 .. Len(s.items)
           /\ \A i \in 1 .. Len(s.items) : PlainItem(s.how, s.items[i])
BY LenProperties DEF Plain

\* Where the pieces of the i-th packet are.
LEMMA Cut ==
    ASSUME Plain(script), sent \in 0 .. Len(script.items), NEW due, NEW mark, Carries(due, mark),
           NEW i \in 1 .. sent, NEW item, item = script.items[i], NEW a, a = mark[i - 1],
           NEW b, b = a + Len(Ahead(script.how, item))
    PROVE  /\ PlainItem(script.how, item) /\ a \in Nat /\ mark[i] \in Nat /\ mark[i] <= Len(due)
           /\ Found(due, script.how, item, a, b, b + RawHeaderSize, mark[i])
<1>0. /\ due \in Bytes /\ Len(due) \in Nat /\ a \in Nat /\ mark[i] \in Nat /\ mark[i] <= Len(due) /\ PlainItem(script.how, item)
      /\ mark[i] = a + Len(CellsOf(script.how, item)) /\ Part(due, a, mark[i]) = CellsOf(script.how, item)
  <2>1. mark \in [0 .. sent -> Nat] /\ due \in Bytes /\ i \in 0 .. sent /\ i - 1 \in 0 .. sent /\ i \in 1 .. Len(script.items)
    BY PlainFacts DEF Carries
  <2>2. PlainItem(script.how, item)
    BY <2>1, PlainFacts
  <2>3. Len(due) \in Nat
    BY <2>1, CatFacts
  <2> QED
    BY <2>1, <2>2, <2>3 DEF Carries, Layout, CellsAt
<1>1. Lies(due, script.how, item, a, mark[i])
  BY <1>0 DEF Lies
<1>2. Found(due, script.how, item, a, b, b + RawHeaderSize, mark[i])
  BY <1>1, CutItem
<1> QED
  BY <1>0, <1>2

\* What the reader still wants of a packet has been, or will be, sent.
LEMMA Wanted ==
    ASSUME Plain(script), sent \in 0 .. Len(script.items), GotSent, NEW due, NEW mark, Carries(due, mark), rerr = "none"
    PROVE  /\ rd.want \in Nat /\ rd.want >= 1 /\ Pos \in Nat
           /\ Len(got) < sent => Pos + rd.want <= Len(due)
           /\ Len(got) = sent => Pos = Len(due)
           /\ rd.want > ReadBufSize => CanRefuse
<1>0. /\ due \in Bytes /\ mark \in [0 .. sent -> Nat] /\ Len(got) \in 0 .. sent /\ sent \in Nat
      /\ script.how \in {"tcp", "ws"} /\ Len(due) \in Nat /\ DOMAIN script.items = 1 .. Len(script.items)
  BY PlainFacts, LenProperties, CatFacts DEF Carries, GotSent
<1>1. Pos \in Nat
  BY CatFacts DEF Carries, Reads, Pos
<1>2. RawHeaderSize + HeartSize <= ReadBufSize /\ ReadBufSize \in Nat
  BY FramingAssumption DEF FramingAssumption
<1>3. CASE Len(got) = sent
  <2>1. Between(mark)
    BY <1>0, <1>3 DEF Carries, Within
  <2>2. Pos = Len(due)
    BY <1>3, <2>1 DEF Between, Carries, Layout
  <2>3. rd.want = IF script.how = "tcp" THEN RawHeaderSize ELSE 1
    BY <2>1 DEF Between, AtStart, AtHeader, AtFrame
  <2> QED
    BY <1>0, <1>1, <1>2, <1>3, <2>2, <2>3 DEF RawHeaderSize, HeartSize
<1>4. CASE Len(got) # sent
  <2>0. PICK i, item, a, b : /\ i = Len(got) + 1 /\ item = script.items[i] /\ a = mark[i - 1]
                             /\ b = a + Len(Ahead(script.how, item))
    OBVIOUS
  <2>1. i \in 1 .. sent /\ i - 1 = Len(got) /\ i \in DOMAIN script.items
    BY <1>0, <1>4, <2>0
  <2>2. /\ PlainItem(script.how, item) /\ a \in Nat /\ b \in Nat /\ mark[i] \in Nat /\ mark[i] <= Len(due)
        /\ mark[i] = b + Size(item) /\ mark[i] = b + RawHeaderSize + Len(Data(item)) /\ b + RawHeaderSize <= mark[i]
    BY <2>0, <2>1, Cut DEF Found
  <2>3. /\ Size(item) \in Nat /\ Len(Data(item)) \in Nat /\ Size(item) = RawHeaderSize + Len(Data(item))
        /\ Data(item) \in Bytes
    BY <2>2, ItemFacts
  <2>4. script.how = "tcp" => b = a
    BY <2>0, <2>2, NoCells DEF Ahead
  <2>5. script.how = "ws" => /\ b = a + Len(Start(Size(item))) /\ Len(Start(Size(item))) \in Nat
                             /\ Len(Start(Size(item))) >= 2
                             /\ Length(Size(item)).low > Small => Len(Start(Size(item))) = 3
    <3>1. PICK s : s = Start(Size(item))
      OBVIOUS
    <3>2. Len(s) = 2 + Len(Length(Size(item)).ext) /\ Len(Length(Size(item)).ext) \in Nat
          /\ (Length(Size(item)).low > Small => Len(s) = 3)
      BY <2>3, <3>1, StartFacts
    <3>3. Len(s) \in Nat /\ Len(s) >= 2
      BY <3>2
    <3>4. script.how = "ws" => b = a + Len(s)
      BY <2>0, <3>1 DEF Ahead
    <3> QED
      BY <3>1, <3>2, <3>3, <3>4
  <2>6. Len(Data(item)) > ReadBufSize \/ Size(item) > ReadBufSize => CanRefuse
    <3>1. ASSUME Len(Data(item)) > ReadBufSize \/ Size(item) > ReadBufSize
          PROVE  /\ item.kind \in {"proto", "batch"} /\ RawHeaderSize + Len(item.proto.body) > ReadBufSize
      <4>1. item.kind # "heart"
        <5>1. ASSUME item.kind = "heart" PROVE FALSE
          <6>1. Len(Data(item)) = HeartSize
            BY <2>2, <5>1, ItemFacts
          <6> QED
            BY <1>2, <2>3, <3>1, <6>1 DEF RawHeaderSize, HeartSize
        <5> QED
          BY <5>1
      <4>2. /\ item.kind \in {"proto", "batch"} /\ Len(item.proto.body) \in Nat
            /\ Len(Data(item)) <= Len(item.proto.body)
        BY <2>2, <4>1, ItemFacts
      <4> QED
        BY <1>2, <2>3, <3>1, <4>2 DEF RawHeaderSize
    <3> QED
      BY <2>0, <2>1, <3>1 DEF CanRefuse, Refusable
  <2>7. CASE Between(mark)
    <3>1. Pos = a
      BY <2>0, <2>1, <2>7 DEF Between
    <3>2. rd.want = IF script.how = "tcp" THEN RawHeaderSize ELSE 1
      BY <2>7 DEF Between, AtStart, AtHeader, AtFrame
    <3>3. Pos + rd.want <= mark[i]
      BY <1>0, <2>2, <2>3, <2>4, <2>5, <3>1, <3>2 DEF RawHeaderSize
    <3> QED
      BY <1>0, <1>1, <1>2, <1>4, <2>2, <3>2, <3>3 DEF RawHeaderSize, HeartSize
  <2>8. CASE Within(mark)
    <3>0. \/ /\ script.how = "tcp" /\ Data(item) # <<>> /\ Pos = a + RawHeaderSize
             /\ rd.want = Len(Data(item))
          \/ script.how = "ws" /\ Pos = a + 1 /\ rd.want = 1
          \/ script.how = "ws" /\ Pos = a + 2 /\ Length(Size(item)).low > Small /\ rd.want = 1
          \/ script.how = "ws" /\ Pos = a + Len(Start(Size(item))) /\ rd.want = Size(item)
      BY <2>0, <2>1, <2>8, SMTT(30) DEF Within, Stands, Frame
    <3>1. Data(item) # <<>> => Len(Data(item)) >= 1
      BY <2>3, NoCells
    <3>2. rd.want \in Nat /\ rd.want >= 1 /\ Pos + rd.want <= mark[i]
      BY <2>2, <2>3, <2>4, <2>5, <3>0, <3>1, SMTT(30) DEF RawHeaderSize
    <3>3. rd.want > ReadBufSize => CanRefuse
      BY <1>2, <2>6, <3>0 DEF RawHeaderSize, HeartSize
    <3> QED
      BY <1>0, <1>1, <1>4, <2>2, <3>2, <3>3
  <2> QED
    BY <2>7, <2>8 DEF Carries
<1> QED
  BY <1>3, <1>4

-----------------------------------------------------------------------------
(* The wire format: every step keeps the invariant *)

LEMMA NothingSent ==
    ASSUME FramingInit, Plain(script)
    PROVE  FInv
<1>0. /\ sent = 0 /\ w = NewWriter(script.left) /\ rbuf = <<>> /\ taken = 0 /\ rd = AtStart(script.how)
      /\ got = <<>> /\ rerr = "none" /\ back = NewWriter(1000)
  BY DEF FramingInit
<1>1. /\ <<>> \in Bytes /\ Len(<<>>) = 0 /\ Cat(<<>>, <<>>) = <<>> /\ <<>> \in Seq(Protos)
      /\ script.left \in Nat /\ Len(script.items) \in Nat
  BY NoCells, CatFacts, PlainFacts, EmptySeq
<1>2. Sound(w) /\ w.out = <<>> /\ w.buf = <<>> /\ Stream(w) = <<>>
  <2>1. w = [buf |-> <<>>, err |-> FALSE, out |-> <<>>, left |-> script.left]
    BY <1>0 DEF NewWriter
  <2>2. WriteBufSize \in Nat
    BY FramingAssumption DEF FramingAssumption
  <2> QED
    BY <1>1, <2>1, <2>2 DEF Sound, Writer, Stream
<1>3. sent \in 0 .. Len(script.items) /\ GotSent /\ Ends
  BY <1>0, <1>1 DEF GotSent, Ends
<1>4. PICK mark : mark = [j \in 0 .. 0 |-> 0]
  OBVIOUS
<1>5. Pos = 0
  <2>1. taken = 0 /\ Len(rbuf) = 0
    BY <1>0, <1>1
  <2> QED
    BY <2>1 DEF Pos
<1>6. Reads(<<>>)
  <2>1. Part(<<>>, 0, 0) \in Bytes /\ Len(Part(<<>>, 0, 0)) = 0
    BY <1>1, PartFacts
  <2>2. Part(<<>>, 0, 0) = <<>>
    BY <2>1, NoCells
  <2> QED
    BY <1>0, <1>1, <1>2, <1>5, <2>2 DEF Reads
<1>7. Writes(<<>>)
  BY <1>1, <1>2 DEF Writes
<1>8. mark \in [0 .. sent -> Nat] /\ Layout(<<>>, mark) /\ Between(mark)
  BY <1>0, <1>1, <1>4, <1>5 DEF Layout, Between
<1>9. Carries(<<>>, mark)
  BY <1>1, <1>6, <1>7, <1>8 DEF Carries
<1> QED
  BY <1>3, <1>9 DEF FInv

\* What the writer is handed follows what it has.
LEMMA WriterStep ==
    ASSUME NEW due, due \in Bytes, Writes(due), Reads(due), ~w.err, NEW c \in Bytes, Took(w, w', c),
           UNCHANGED <<rbuf, taken>>
    PROVE  /\ Writes(Cat(due, c))' /\ Reads(Cat(due, c))'
           /\ Pos \in Nat /\ Pos <= taken /\ taken <= Len(due)
<1>0. /\ Sound(w) /\ w.out \in Bytes /\ Len(w.out) \in Nat /\ Stream(w) = due
      /\ taken \in Nat /\ taken <= Len(w.out) /\ rbuf \in Bytes /\ Len(rbuf) \in Nat
      /\ Len(rbuf) <= taken /\ rbuf = Part(due, Pos, taken)
  BY Whole, CatFacts DEF Writes, Reads
<1>1. Pos \in Nat /\ Pos <= taken
  BY <1>0 DEF Pos
<1>2. taken <= Len(due)
  <2>1. PICK r \in Bytes : due = Cat(w.out, r)
    BY DEF Writes
  <2>2. Len(due) = Len(w.out) + Len(r) /\ Len(r) \in Nat
    BY <1>0, <2>1, CatFacts
  <2> QED
    BY <1>0, <2>2
<1>3. Writes(Cat(due, c))'
  <2>1. Sound(w')
    BY DEF Took
  <2>2. ~w'.err => Stream(w') = Cat(due, c)
    BY <1>0 DEF Took
  <2>3. \E r \in Bytes : Cat(due, c) = Cat(w'.out, r)
    BY <1>0 DEF Took
  <2> QED
    BY <2>1, <2>2, <2>3 DEF Writes
<1>4. Reads(Cat(due, c))'
  <2>1. PICK s \in Bytes : w'.out = Cat(w.out, s)
    BY DEF Took
  <2>2. Len(w'.out) = Len(w.out) + Len(s) /\ Len(s) \in Nat
    <3>1. w.out \in Bytes /\ s \in Bytes
      BY <1>0
    <3>2. Len(Cat(w.out, s)) = Len(w.out) + Len(s) /\ Len(s) \in Nat
      BY <3>1, CatFacts
    <3> QED
      BY <2>1, <3>2
  <2>3. taken <= Len(w'.out)
    BY <1>0, <2>2
  <2>4. Part(Cat(due, c), Pos, taken) = Part(due, Pos, taken)
    <3>1. \A i, j \in Nat : i <= j /\ j <= Len(due) => Part(Cat(due, c), i, j) = Part(due, i, j)
      BY PartGrown
    <3>2. taken \in Nat
      BY <1>0
    <3> QED
      BY <1>1, <1>2, <3>1, <3>2
  <2>5. Pos' = Pos /\ taken' = taken /\ rbuf' = rbuf
    BY DEF Pos
  <2> QED
    BY <1>0, <2>3, <2>4, <2>5 DEF Reads
<1> QED
  BY <1>1, <1>2, <1>3, <1>4

LEMMA SendKeeps ==
    ASSUME Plain(script), FInv, Send
    PROVE  FInv'
<1>0. /\ sent \in 0 .. Len(script.items) /\ GotSent /\ Ends
      /\ sent < Len(script.items) /\ ~w.err /\ sent' = sent + 1
      /\ w' = WriteItem(w, script.how, script.items[sent + 1])
      /\ script' = script /\ rbuf' = rbuf /\ taken' = taken /\ rd' = rd /\ got' = got /\ rerr' = rerr /\ back' = back
  BY DEF FInv, Send
<1>1. PICK due, mark : Carries(due, mark)
  BY DEF FInv
<1>2. /\ due \in Bytes /\ mark \in [0 .. sent -> Nat] /\ Layout(due, mark) /\ Writes(due) /\ Reads(due)
      /\ (rerr = "none" => Between(mark) \/ Within(mark))
  BY <1>1 DEF Carries
<1>3. PICK c : c = CellsAt(sent + 1)
  OBVIOUS
<1>4. sent + 1 \in 1 .. Len(script.items) /\ script.how \in {"tcp", "ws"} /\ sent \in Nat /\ Len(script.items) \in Nat
  BY <1>0, PlainFacts
<1>5. PlainItem(script.how, script.items[sent + 1])
  BY <1>4, PlainFacts
<1>6. c \in Bytes /\ Took(w, w', c)
  <2>1. Sound(w)
    BY <1>2 DEF Writes
  <2> QED
    BY <1>0, <1>3, <1>4, <1>5, <2>1, TookItem, PacketFacts DEF CellsAt
<1>7. PICK long : long = Cat(due, c)
  OBVIOUS
<1>8. Writes(long)' /\ Reads(long)'
  BY <1>0, <1>2, <1>6, <1>7, WriterStep
<1>9. long \in Bytes /\ Len(long) = Len(due) + Len(c) /\ Len(due) \in Nat /\ Len(c) \in Nat
  BY <1>2, <1>6, <1>7, CatFacts
<1>10. PICK grown : grown = [j \in 0 .. sent + 1 |-> IF j = sent + 1 THEN Len(long) ELSE mark[j]]
  OBVIOUS
<1>11. grown \in [0 .. sent' -> Nat] /\ (\A j \in 0 .. sent : grown[j] = mark[j]) /\ grown[sent + 1] = Len(long)
  BY <1>0, <1>2, <1>4, <1>9, <1>10
<1>12. Layout(long, grown)'
  <2>1. grown[0] = 0
    BY <1>2, <1>4, <1>11 DEF Layout
  <2>2. ASSUME NEW i \in 1 .. sent + 1
        PROVE  /\ grown[i] = grown[i - 1] + Len(CellsAt(i)) /\ grown[i] <= Len(long)
               /\ Part(long, grown[i - 1], grown[i]) = CellsAt(i)
    <3>1. CASE i \in 1 .. sent
      <4>1. i \in 0 .. sent /\ i - 1 \in 0 .. sent
        BY <1>4, <3>1
      <4>2. grown[i] = mark[i] /\ grown[i - 1] = mark[i - 1] /\ mark[i] \in Nat /\ mark[i - 1] \in Nat
        BY <1>2, <1>11, <4>1
      <4>3. mark[i] = mark[i - 1] + Len(CellsAt(i)) /\ mark[i] <= Len(due) /\ Part(due, mark[i - 1], mark[i]) = CellsAt(i)
        BY <1>2, <3>1 DEF Layout
      <4>4. mark[i - 1] <= mark[i]
        <5>1. Len(CellsAt(i)) \in Nat
          <6>1. i \in 1 .. Len(script.items)
            BY <1>0, <1>4, <3>1
          <6>2. PlainItem(script.how, script.items[i])
            BY <6>1, PlainFacts
          <6>3. CellsAt(i) \in Bytes
            BY <6>2, PacketFacts DEF CellsAt
          <6> QED
            BY <6>3, CatFacts
        <5> QED
          BY <4>2, <4>3, <5>1
      <4>5. Part(long, mark[i - 1], mark[i]) = Part(due, mark[i - 1], mark[i])
        <5>1. \A k, l \in Nat : k <= l /\ l <= Len(due) => Part(long, k, l) = Part(due, k, l)
          BY <1>2, <1>6, <1>7, PartGrown
        <5> QED
          BY <4>2, <4>3, <4>4, <5>1
      <4> QED
        BY <1>9, <4>2, <4>3, <4>5
    <3>2. CASE i = sent + 1
      <4>1. grown[i] = Len(long) /\ grown[i - 1] = mark[sent] /\ mark[sent] = Len(due)
        BY <1>2, <1>4, <1>11, <3>2 DEF Layout
      <4>2. Part(long, Len(due), Len(long)) = c
        BY <1>2, <1>6, <1>7, PartGrown
      <4> QED
        BY <1>3, <1>9, <3>2, <4>1, <4>2
    <3> QED
      BY <1>4, <3>1, <3>2
  <2>3. \A i : CellsAt(i)' = CellsAt(i)
    BY <1>0 DEF CellsAt
  <2> QED
    BY <1>0, <1>11, <2>1, <2>2, <2>3 DEF Layout
<1>13. Len(got) \in 0 .. sent
  BY <1>0, <1>4, LenProperties DEF GotSent
<1>14. Pos' = Pos /\ (rerr' = "none" => Between(grown)' \/ Within(grown)')
  <2>1. Pos' = Pos
    BY <1>0 DEF Pos
  <2>2. grown[Len(got)] = mark[Len(got)]
    BY <1>11, <1>13
  <2>3. Between(mark) => Between(grown)'
    BY <1>0, <2>1, <2>2 DEF Between
  <2>4. Within(mark) => Within(grown)'
    <3>1. Len(got) < sent => Len(got) < sent'
      BY <1>0, <1>4, <1>13
    <3> QED
      BY <1>0, <2>1, <2>2, <3>1 DEF Within
  <2> QED
    BY <1>0, <1>2, <2>1, <2>3, <2>4
<1>15. Carries(long, grown)'
  BY <1>8, <1>9, <1>11, <1>12, <1>14 DEF Carries
<1>16. sent' \in 0 .. Len(script'.items) /\ GotSent' /\ Ends'
  <2>1. sent' \in 0 .. Len(script'.items)
    BY <1>0, <1>4
  <2>2. GotSent'
    BY <1>0, <1>4, <1>13 DEF GotSent
  <2>3. Ends'
    <3>1. CanRefuse' = CanRefuse
      BY <1>0 DEF CanRefuse, Refusable
    <3>2. rerr = "eof" => FALSE
      BY <1>0, <1>4 DEF Ends
    <3> QED
      BY <1>0, <3>1, <3>2 DEF Ends
  <2> QED
    BY <2>1, <2>2, <2>3
<1> QED
  BY <1>15, <1>16 DEF FInv

LEMMA FlushKeeps ==
    ASSUME Plain(script), FInv, FlushAll
    PROVE  FInv'
<1>0. /\ sent \in 0 .. Len(script.items) /\ GotSent /\ Ends
      /\ w.buf # <<>> /\ ~w.err /\ w' = Flush(w)
      /\ script' = script /\ sent' = sent /\ rbuf' = rbuf /\ taken' = taken /\ rd' = rd /\ got' = got
      /\ rerr' = rerr /\ back' = back
  BY DEF FInv, FlushAll
<1>1. PICK due, mark : Carries(due, mark)
  BY DEF FInv
<1>2. /\ due \in Bytes /\ mark \in [0 .. sent -> Nat] /\ Layout(due, mark) /\ Writes(due) /\ Reads(due)
      /\ (rerr = "none" => Between(mark) \/ Within(mark))
  BY <1>1 DEF Carries
<1>3. Took(w, w', <<>>) /\ <<>> \in Bytes /\ Cat(due, <<>>) = due
  BY <1>0, <1>2, TookFlushed, NoCells, CatFacts DEF Writes
<1>4. Writes(due)' /\ Reads(due)'
  <2>1. Writes(Cat(due, <<>>))' /\ Reads(Cat(due, <<>>))'
    BY <1>0, <1>2, <1>3, WriterStep
  <2> QED
    BY <1>3, <2>1
<1>5. Layout(due, mark)'
  BY <1>0, <1>2 DEF Layout, CellsAt
<1>6. rerr' = "none" => Between(mark)' \/ Within(mark)'
  BY <1>0, <1>2 DEF Between, Within, Pos
<1>7. Carries(due, mark)'
  BY <1>0, <1>2, <1>4, <1>5, <1>6 DEF Carries
<1>8. GotSent' /\ sent' \in 0 .. Len(script'.items)
  BY <1>0 DEF GotSent
<1>9. Ends'
  <2>1. CanRefuse' = CanRefuse
    BY <1>0 DEF CanRefuse, Refusable
  <2>2. rerr = "eof" => FALSE
    BY <1>0 DEF Ends
  <2> QED
    BY <1>0, <2>1, <2>2 DEF Ends
<1> QED
  BY <1>7, <1>8, <1>9 DEF FInv

\* What the writer has sent is a beginning of the stream.
LEMMA SentPart ==
    ASSUME NEW due \in Bytes, NEW o \in Bytes, NEW r \in Bytes, due = Cat(o, r), NEW a \in Nat, NEW b \in Nat,
           a <= b, b <= Len(o)
    PROVE  Part(due, a, b) = Part(o, a, b) /\ Len(o) <= Len(due)
<1>1. \A i, j \in Nat : i <= j /\ j <= Len(o) => Part(Cat(o, r), i, j) = Part(o, i, j)
  BY PartGrown
<1>2. Len(Cat(o, r)) = Len(o) + Len(r) /\ Len(o) \in Nat /\ Len(r) \in Nat
  BY CatFacts
<1> QED
  BY <1>1, <1>2

\* Where the reader is, and what it holds.
LEMMA ReaderFacts ==
    ASSUME NEW due, due \in Bytes, Writes(due), Reads(due)
    PROVE  /\ Sound(w) /\ w.out \in Bytes /\ Len(w.out) \in Nat /\ Len(due) \in Nat /\ Len(w.out) <= Len(due)
           /\ taken \in Nat /\ taken <= Len(w.out) /\ rbuf \in Bytes /\ Len(rbuf) \in Nat /\ Len(rbuf) <= taken
           /\ Pos \in Nat /\ Pos <= taken /\ taken = Pos + Len(rbuf) /\ rbuf = Part(due, Pos, taken)
           /\ \A a, b \in Nat : a <= b /\ b <= Len(w.out) => Part(due, a, b) = Part(w.out, a, b)
<1>1. /\ Sound(w) /\ w.out \in Bytes /\ Len(w.out) \in Nat /\ Len(due) \in Nat
      /\ taken \in Nat /\ taken <= Len(w.out) /\ rbuf \in Bytes /\ Len(rbuf) \in Nat /\ Len(rbuf) <= taken
      /\ rbuf = Part(due, Pos, taken)
  BY Whole, CatFacts DEF Writes, Reads
<1>2. PICK r \in Bytes : due = Cat(w.out, r)
  BY DEF Writes
<1>3. PICK o : o = w.out
  OBVIOUS
<1>4. \A a, b \in Nat : a <= b /\ b <= Len(o) => Part(due, a, b) = Part(o, a, b) /\ Len(o) <= Len(due)
  <2>1. o \in Bytes /\ due = Cat(o, r)
    BY <1>1, <1>2, <1>3
  <2> QED
    BY <2>1, SentPart
<1>5. Len(o) <= Len(due)
  <2>1. 0 \in Nat /\ 0 <= 0 /\ 0 <= Len(o)
    BY <1>1, <1>3
  <2> QED
    BY <1>4, <2>1
<1>6. Pos \in Nat /\ Pos <= taken /\ taken = Pos + Len(rbuf)
  BY <1>1 DEF Pos
<1> QED
  BY <1>1, <1>3, <1>4, <1>5, <1>6

LEMMA FillKeeps ==
    ASSUME Plain(script), FInv, Fill
    PROVE  FInv'
<1>0. /\ sent \in 0 .. Len(script.items) /\ GotSent /\ Ends
      /\ script' = script /\ sent' = sent /\ w' = w /\ rd' = rd /\ got' = got /\ rerr' = rerr /\ back' = back
      /\ rerr = "none"
  BY DEF FInv, Fill
<1>1. PICK due, mark : Carries(due, mark)
  BY DEF FInv
<1>2. /\ due \in Bytes /\ mark \in [0 .. sent -> Nat] /\ Layout(due, mark) /\ Writes(due) /\ Reads(due)
      /\ (Between(mark) \/ Within(mark))
  BY <1>0, <1>1 DEF Carries
<1>3. /\ w.out \in Bytes /\ Len(w.out) \in Nat /\ Len(due) \in Nat /\ Len(w.out) <= Len(due)
      /\ taken \in Nat /\ taken <= Len(w.out) /\ rbuf \in Bytes /\ Len(rbuf) \in Nat /\ Len(rbuf) <= taken
      /\ Pos \in Nat /\ Pos <= taken /\ taken = Pos + Len(rbuf) /\ rbuf = Part(due, Pos, taken)
      /\ \A a, b \in Nat : a <= b /\ b <= Len(w.out) => Part(due, a, b) = Part(w.out, a, b)
  BY <1>2, ReaderFacts
<1>4. PICK k \in 1 .. (ReadBufSize - Len(rbuf)) : /\ taken + k <= Len(w.out) /\ taken' = taken + k
                                                  /\ rbuf' = rbuf \o SubSeq(w.out, taken + 1, taken + k)
  BY DEF Fill
<1>5. PICK n : n = taken + k
  OBVIOUS
<1>6. n \in Nat /\ taken <= n /\ n <= Len(w.out) /\ n <= Len(due) /\ Pos <= n
  <2>1. k \in Nat
    <3>1. ReadBufSize \in Nat
      BY FramingAssumption DEF FramingAssumption
    <3> QED
      BY <1>3, <3>1
  <2>2. PICK m, l, p : m = Len(w.out) /\ l = Len(due) /\ p = Pos
    OBVIOUS
  <2>3. m \in Nat /\ l \in Nat /\ p \in Nat /\ m <= l /\ p <= taken /\ taken \in Nat /\ n <= m /\ n = taken + k
    BY <1>3, <1>4, <1>5, <2>2
  <2>4. n \in Nat /\ taken <= n /\ n <= m /\ n <= l /\ p <= n
    BY <2>1, <2>3
  <2> QED
    BY <2>2, <2>4
<1>7. SubSeq(w.out, taken + 1, taken + k) = Part(due, taken, n)
  <2>1. Part(due, taken, n) = Part(w.out, taken, n)
    BY <1>3, <1>6
  <2> QED
    BY <1>5, <2>1 DEF Part
<1>8. rbuf' = Part(due, Pos, n)
  <2>1. Part(due, Pos, taken) \o Part(due, taken, n) = Part(due, Pos, n)
    <3>1. PICK p, t : p = Pos /\ t = taken
      OBVIOUS
    <3>2. due \in Bytes /\ p \in Nat /\ t \in Nat /\ n \in Nat /\ p <= t /\ t <= n /\ n <= Len(due)
      BY <1>2, <1>3, <1>6, <3>1
    <3>3. Part(due, p, t) \o Part(due, t, n) = Part(due, p, n)
      BY <3>2, PartNext
    <3> QED
      BY <3>1, <3>3
  <2> QED
    BY <1>3, <1>4, <1>7, <2>1
<1>9. rbuf' \in Bytes /\ Len(rbuf') = n - Pos
  BY <1>2, <1>3, <1>6, <1>8, PartFacts
<1>10. Pos' = Pos
  <2>1. PICK l, p : l = Len(rbuf') /\ p = Pos
    OBVIOUS
  <2>2. n - l = p
    BY <1>3, <1>6, <1>9, <2>1
  <2> QED
    BY <1>4, <1>5, <2>1, <2>2 DEF Pos
<1>11. Reads(due)'
  <2>1. Len(rbuf') <= n
    BY <1>3, <1>6, <1>9
  <2> QED
    BY <1>0, <1>4, <1>5, <1>6, <1>8, <1>9, <1>10, <2>1 DEF Reads
<1>12. Writes(due)' /\ Layout(due, mark)'
  BY <1>0, <1>2 DEF Writes, Stream, Layout, CellsAt
<1>13. Between(mark)' \/ Within(mark)'
  BY <1>0, <1>2, <1>10 DEF Between, Within
<1>14. Carries(due, mark)'
  BY <1>0, <1>2, <1>11, <1>12, <1>13 DEF Carries
<1>15. GotSent' /\ Ends' /\ sent' \in 0 .. Len(script'.items)
  BY <1>0 DEF GotSent, Ends, CanRefuse, Refusable
<1> QED
  BY <1>14, <1>15 DEF FInv

LEMMA ReadFailsKeeps ==
    ASSUME Plain(script), FInv, ReadFails
    PROVE  FInv'
<1>0. /\ sent \in 0 .. Len(script.items) /\ GotSent /\ Ends
      /\ script' = script /\ sent' = sent /\ w' = w /\ rbuf' = rbuf /\ taken' = taken /\ rd' = rd /\ got' = got
      /\ back' = back /\ rerr = "none" /\ Len(rbuf) < rd.want
  BY DEF FInv, ReadFails
<1>1. PICK due, mark : Carries(due, mark)
  BY DEF FInv
<1>2. /\ due \in Bytes /\ mark \in [0 .. sent -> Nat] /\ Layout(due, mark) /\ Writes(due) /\ Reads(due)
  BY <1>1 DEF Carries
<1>3. /\ rd.want \in Nat /\ rd.want >= 1 /\ Pos \in Nat
      /\ Len(got) < sent => Pos + rd.want <= Len(due)
      /\ rd.want > ReadBufSize => CanRefuse
  BY <1>0, <1>1, Wanted
<1>4. CanRefuse' = CanRefuse
  BY <1>0 DEF CanRefuse, Refusable
<1>5. CASE ~Fits /\ rerr' = "full"
  <2>1. CanRefuse
    <3>1. ReadBufSize \in Nat
      BY FramingAssumption DEF FramingAssumption
    <3> QED
      BY <1>3, <1>5, <3>1 DEF Fits
  <2>2. Ends'
    BY <1>0, <1>4, <1>5, <2>1 DEF Ends
  <2>3. Carries(due, mark)'
    BY <1>0, <1>1, <1>5 DEF Carries, Layout, CellsAt, Writes, Stream, Reads, Pos
  <2>4. GotSent' /\ sent' \in 0 .. Len(script'.items)
    BY <1>0 DEF GotSent
  <2> QED
    BY <2>2, <2>3, <2>4 DEF FInv
<1>6. CASE Fits /\ WriterDone /\ taken = Len(w.out) /\ rerr' = "eof"
  <2>1. ASSUME ~w.err PROVE sent = Len(script.items) /\ w.buf = <<>> /\ Len(got) = sent
    <3>1. sent = Len(script.items) /\ w.buf = <<>>
      BY <1>6, <2>1 DEF WriterDone
    <3>2. w.out \in Bytes /\ taken = Pos + Len(rbuf) /\ Len(rbuf) \in Nat /\ Len(due) \in Nat
      BY <1>2, ReaderFacts
    <3>3. Stream(w) = due
      BY <1>2, <2>1 DEF Writes
    <3>4. due = w.out
      BY <3>1, <3>2, <3>3, CatFacts DEF Stream
    <3>5. ~(Len(got) < sent)
      <4>1. PICK l, k, p, r : l = Len(due) /\ k = Len(rbuf) /\ p = Pos /\ r = rd.want
        OBVIOUS
      <4>2. l = p + k /\ k < r /\ l \in Nat /\ k \in Nat /\ p \in Nat /\ r \in Nat
        BY <1>0, <1>3, <1>6, <3>2, <3>4, <4>1
      <4>3. ~(p + r <= l)
        BY <4>2
      <4> QED
        BY <1>3, <4>1, <4>3
    <3>6. Len(got) <= sent /\ Len(got) \in Nat /\ sent \in Nat
      BY <1>0, LenProperties, PlainFacts DEF GotSent
    <3> QED
      BY <3>1, <3>5, <3>6
  <2>2. Ends'
    BY <1>0, <1>4, <1>6, <2>1 DEF Ends
  <2>3. Carries(due, mark)'
    BY <1>0, <1>1, <1>6 DEF Carries, Layout, CellsAt, Writes, Stream, Reads, Pos
  <2>4. GotSent' /\ sent' \in 0 .. Len(script'.items)
    BY <1>0 DEF GotSent
  <2> QED
    BY <2>2, <2>3, <2>4 DEF FInv
<1> QED
  BY <1>5, <1>6 DEF ReadFails

\* A packet the reader finds too long is one it may refuse.
LEMMA TooLong ==
    ASSUME NEW item, item \in {script.items[i] : i \in DOMAIN script.items}, PlainItem(script.how, item),
           Size(item) > MaxPackSize
    PROVE  CanRefuse
<1>1. /\ Size(item) = RawHeaderSize + Len(Data(item)) /\ Len(Data(item)) \in Nat
      /\ (item.kind = "heart" => Len(Data(item)) = HeartSize)
      /\ (item.kind # "heart" => /\ item.kind \in {"proto", "batch"} /\ Len(item.proto.body) \in Nat
                                 /\ Len(Data(item)) <= Len(item.proto.body))
  BY ItemFacts
<1>2. MaxBodySize \in Nat /\ HeartSize <= MaxBodySize
  BY FramingAssumption DEF FramingAssumption
<1>3. PICK n : n = Len(Data(item))
  OBVIOUS
<1>4. n \in Nat /\ n > MaxBodySize
  <2>1. 5 + n > MaxBodySize + 5 /\ n \in Nat
    BY <1>1, <1>3 DEF MaxPackSize, RawHeaderSize
  <2> QED
    BY <1>2, <2>1
<1>5. item.kind # "heart"
  <2>1. n # HeartSize
    BY <1>2, <1>4 DEF HeartSize
  <2> QED
    BY <1>1, <1>3, <2>1, Zenon
<1>6. item.kind \in {"proto", "batch"} /\ RawHeaderSize + Len(item.proto.body) > MaxPackSize
  <2>1. PICK l : l = Len(item.proto.body)
    OBVIOUS
  <2>2. item.kind \in {"proto", "batch"} /\ l \in Nat /\ n <= l
    BY <1>1, <1>3, <1>5, <2>1, Zenon
  <2>3. RawHeaderSize + l > MaxPackSize
    BY <1>2, <1>4, <2>2 DEF MaxPackSize, RawHeaderSize
  <2> QED
    BY <2>1, <2>2, <2>3
<1>7. PICK i \in DOMAIN script.items : item = script.items[i]
  OBVIOUS
<1>8. Refusable(item)
  BY <1>6 DEF Refusable
<1> QED
  BY <1>7, <1>8 DEF CanRefuse

LEMMA PacketHead ==
    ASSUME NEW how, NEW item, PlainItem(how, item), NEW n, n = Size(item), NEW d, d = Data(item),
           NEW h, h = Header(Size(item), item.proto)
    PROVE  /\ n \in Nat /\ n = RawHeaderSize + Len(d) /\ d \in Bytes /\ Len(d) \in Nat /\ h \in Bytes
           /\ Len(h) = RawHeaderSize /\ h[1] = n /\ h[2] = RawHeaderSize
           /\ h[4] = item.proto.op /\ h[5] = item.proto.seq
           /\ Packet(item) = Cat(h, d) /\ Len(Packet(item)) = n
<1>1. /\ n \in Nat /\ n = RawHeaderSize + Len(d) /\ d \in Bytes /\ Len(d) \in Nat
      /\ item.proto.op \in Nat /\ item.proto.seq \in Nat
  BY ItemFacts
<1>2. PICK p : p = item.proto
  OBVIOUS
<1>3. p.op \in Nat /\ p.seq \in Nat /\ h = Header(n, p)
  BY <1>1, <1>2
<1>4. h \in Bytes /\ Len(h) = RawHeaderSize /\ h[1] = n /\ h[2] = RawHeaderSize /\ h[4] = p.op /\ h[5] = p.seq
  BY <1>1, <1>3, HeaderFacts
<1>5. Packet(item) = Cat(h, d) /\ Len(Packet(item)) = n
  BY PacketFacts DEF Packet
<1> QED
  BY <1>1, <1>2, <1>4, <1>5

\* What one Pop may do to a reader in the packet of the item, p cells on.
Keeps(item, a, e, p) ==
    /\ back' = back
    /\ \/ rerr' = "packlen" /\ rd' = rd /\ got' = got /\ Size(item) > MaxPackSize
       \/ rerr' = rerr /\ got' = Append(got, Returned(item)) /\ rd' = AtStart(script.how) /\ p = e
       \/ rerr' = rerr /\ got' = got /\ Stands(script.how, item, a, rd', p)

LEMMA HeaderKeeps ==
    ASSUME NEW item, PlainItem("tcp", item), script.how = "tcp", NEW a \in Nat, NEW e, e = a + Size(item),
           TCPHeader(Header(Size(item), item.proto))
    PROVE  Keeps(item, a, e, a + RawHeaderSize)
<1>1. PICK n, d, h : n = Size(item) /\ d = Data(item) /\ h = Header(Size(item), item.proto)
  OBVIOUS
<1>2. /\ n \in Nat /\ n = RawHeaderSize + Len(d) /\ d \in Bytes /\ Len(d) \in Nat
      /\ h[1] = n /\ h[2] = RawHeaderSize /\ h[4] = item.proto.op /\ h[5] = item.proto.seq
  BY <1>1, PacketHead
<1>3. CASE n > MaxPackSize
  <2>1. BadHeader(h) = "packlen"
    BY <1>2, <1>3 DEF BadHeader
  <2> QED
    <3>1. Refuse("packlen")
      BY <1>1, <2>1 DEF TCPHeader
    <3>2. Size(item) > MaxPackSize
      BY <1>1, <1>3
    <3> QED
      BY <3>1, <3>2 DEF Refuse, Keeps
<1>4. CASE ~(n > MaxPackSize)
  <2>1. BadHeader(h) = "none"
    BY <1>2, <1>4 DEF BadHeader
  <2>2. CASE n > RawHeaderSize
    <3>1. d # <<>> /\ n - RawHeaderSize = Len(d)
      BY <1>2, <2>2, NoCells DEF RawHeaderSize
    <3>2. rd' = [pc |-> "body", want |-> Len(d), hdr |-> h] /\ got' = got /\ rerr' = rerr /\ back' = back
      BY <1>1, <1>2, <2>1, <2>2, <3>1 DEF TCPHeader
    <3> QED
      BY <1>1, <3>1, <3>2 DEF Keeps, Stands
  <2>3. CASE ~(n > RawHeaderSize)
    <3>1. d = <<>> /\ a + RawHeaderSize = e
      BY <1>1, <1>2, <2>3, NoCells DEF RawHeaderSize
    <3>2. Return(h, <<>>)
      BY <1>1, <1>2, <2>1, <2>3 DEF TCPHeader
    <3> QED
      BY <1>1, <1>2, <3>1, <3>2 DEF Return, Returned, Keeps
  <2> QED
    BY <2>2, <2>3
<1> QED
  BY <1>3, <1>4

LEMMA BodyKeeps ==
    ASSUME NEW item, PlainItem("tcp", item), script.how = "tcp", NEW a, NEW e,
           rd.hdr = Header(Size(item), item.proto), TCPBody(Data(item))
    PROVE  Keeps(item, a, e, e)
<1>1. PICK n, h : n = Size(item) /\ h = Header(Size(item), item.proto)
  OBVIOUS
<1>2. h[4] = item.proto.op /\ h[5] = item.proto.seq
  BY <1>1, PacketHead
<1>3. Return(h, Data(item))
  BY <1>1 DEF TCPBody
<1> QED
  BY <1>2, <1>3 DEF Return, Returned, Keeps

\* The message in a frame is the packet.
LEMMA MessageKeeps ==
    ASSUME NEW item, PlainItem("ws", item), NEW a, NEW e, Message(Packet(item))
    PROVE  Keeps(item, a, e, e)
<1>1. PICK n, d, h, m : n = Size(item) /\ d = Data(item) /\ h = Header(Size(item), item.proto) /\ m = Packet(item)
  OBVIOUS
<1>2. /\ n \in Nat /\ n = RawHeaderSize + Len(d) /\ d \in Bytes /\ Len(d) \in Nat /\ h \in Bytes /\ Len(h) = RawHeaderSize
      /\ h[1] = n /\ h[2] = RawHeaderSize /\ h[4] = item.proto.op /\ h[5] = item.proto.seq
      /\ m = Cat(h, d) /\ Len(m) = n
  BY <1>1, PacketHead
<1>3. m[1] = n /\ m[2] = RawHeaderSize /\ m[4] = item.proto.op /\ m[5] = item.proto.seq
  <2>1. \A i \in 1 .. Len(h) : Cat(h, d)[i] = h[i]
    BY <1>2, CatAt
  <2>2. 1 \in 1 .. Len(h) /\ 2 \in 1 .. Len(h) /\ 4 \in 1 .. Len(h) /\ 5 \in 1 .. Len(h)
    BY <1>2 DEF RawHeaderSize
  <2> QED
    BY <1>2, <2>1, <2>2
<1>4. ~(Len(m) < RawHeaderSize)
  BY <1>2 DEF RawHeaderSize
<1>5. SubSeq(m, RawHeaderSize + 1, m[1]) = d
  <2>1. Part(Cat(h, d), Len(h), Len(Cat(h, d))) = d
    BY <1>2, PartGrown
  <2> QED
    BY <1>2, <1>3, <2>1 DEF Part
<1>6. CASE n > MaxPackSize
  <2>1. BadHeader(m) = "packlen"
    BY <1>3, <1>6 DEF BadHeader
  <2> QED
    <3>1. Refuse("packlen")
      BY <1>1, <1>4, <2>1 DEF Message
    <3>2. Size(item) > MaxPackSize
      BY <1>1, <1>6
    <3> QED
      BY <3>1, <3>2 DEF Refuse, Keeps
<1>7. CASE ~(n > MaxPackSize)
  <2>1. BadHeader(m) = "none"
    BY <1>3, <1>7 DEF BadHeader
  <2>2. Return(m, d)
    BY <1>1, <1>4, <1>5, <2>1 DEF Message
  <2> QED
    BY <1>1, <1>3, <2>2 DEF Return, Returned, Keeps
<1> QED
  BY <1>6, <1>7

LEMMA FrameStarted ==
    ASSUME NEW f, NEW g, f = Frame("b0", 1, FALSE, 0, 0), g = [f EXCEPT !.pc = "b1", !.fin = TRUE, !.op = BinaryMessage]
    PROVE  g = Frame("b1", 1, TRUE, BinaryMessage, 0)
BY DEF Frame

LEMMA LastFrame ==
    ASSUME NEW f, NEW part, f.op = BinaryMessage, f.fin, ReadMessage(f, part)
    PROVE  Message(f.acc \o part)
BY SMT DEF ReadMessage, BinaryMessage, TextMessage, ContinuationFrame, PingMessage, PongMessage, CloseMessage

LEMMA FirstByteKeeps ==
    ASSUME NEW item, script.how = "ws", NEW a, NEW e, NEW cells, cells[1] = FinBit + BinaryMessage,
           rd = AtFrame(<<>>, 0), ReadFrame(cells)
    PROVE  Keeps(item, a, e, a + 1)
<1>1. /\ (cells[1] \div 16) % 8 = 0 /\ cells[1] >= FinBit /\ cells[1] % 16 = BinaryMessage
  BY DEF FinBit, BinaryMessage
<1>2. rd = Frame("b0", 1, FALSE, 0, 0)
  BY DEF AtFrame, Frame
<1>3. rd.pc = "b0"
  BY <1>2 DEF Frame
<1>4. Goto([rd EXCEPT !.pc = "b1", !.fin = cells[1] >= FinBit, !.op = cells[1] % 16])
  BY <1>1, <1>3 DEF ReadFrame
<1>5. rd' = [rd EXCEPT !.pc = "b1", !.fin = TRUE, !.op = BinaryMessage] /\ got' = got /\ rerr' = rerr /\ back' = back
  BY <1>1, <1>4 DEF Goto
<1>6. rd' = Frame("b1", 1, TRUE, BinaryMessage, 0)
  BY <1>2, <1>5, FrameStarted
<1> QED
  BY <1>5, <1>6 DEF Keeps, Stands

LEMMA SecondByteKeeps ==
    ASSUME NEW item, PlainItem("ws", item), script.how = "ws", NEW a, NEW e, NEW cells,
           cells[1] = Length(Size(item)).low, rd = Frame("b1", 1, TRUE, BinaryMessage, 0), ReadFrame(cells)
    PROVE  Keeps(item, a, e, a + 2)
<1>0. PICK n, low : n = Size(item) /\ low = Length(Size(item)).low
  OBVIOUS
<1>1. n \in Nat /\ n > 0 /\ Small \in Nat
  BY <1>0, PacketHead, FramingAssumption DEF FramingAssumption, RawHeaderSize
<1>2. low \in Nat /\ low < MaskBit /\ (low <= Small => low = n)
  BY <1>0, <1>1, LengthFacts
<1>3. low <= Small => Len(Start(n)) = 2
  BY <1>0, <1>1, StartFacts
<1>4. (low >= MaskBit) = FALSE /\ low % MaskBit = low
  BY <1>2 DEF MaskBit
<1>5. rd.pc = "b1"
  BY DEF Frame
<1>6. PICK f : f = [rd EXCEPT !.mask = FALSE, !.len = low]
  OBVIOUS
<1>7. IF f.len > Small THEN Goto([f EXCEPT !.pc = "ext"]) ELSE AfterLength(f)
  <2>1. f = [rd EXCEPT !.mask = cells[1] >= MaskBit, !.len = cells[1] % MaskBit]
    BY <1>0, <1>4, <1>6, Zenon
  <2> QED
    BY <1>5, <2>1 DEF ReadFrame
<1>8. f = Frame("b1", 1, TRUE, BinaryMessage, low)
  BY <1>6 DEF Frame
<1>9. f.len = low /\ ~f.mask
  BY <1>8 DEF Frame
<1>10. CASE low > Small
  <2>1. rd' = [f EXCEPT !.pc = "ext"] /\ got' = got /\ rerr' = rerr /\ back' = back
    BY <1>7, <1>9, <1>10 DEF Goto
  <2>2. rd' = Frame("ext", 1, TRUE, BinaryMessage, low)
    BY <1>8, <2>1 DEF Frame
  <2> QED
    BY <1>0, <1>10, <2>1, <2>2 DEF Keeps, Stands
<1>11. CASE ~(low > Small)
  <2>1. low = n /\ Len(Start(n)) = 2
    BY <1>1, <1>2, <1>3, <1>11
  <2>2. Goto([f EXCEPT !.pc = "payload", !.want = f.len])
    BY <1>1, <1>7, <1>9, <1>11, <2>1 DEF AfterLength, Payload
  <2>3. rd' = [f EXCEPT !.pc = "payload", !.want = n] /\ got' = got /\ rerr' = rerr /\ back' = back
    BY <1>9, <2>1, <2>2 DEF Goto
  <2>4. rd' = Frame("payload", n, TRUE, BinaryMessage, n)
    BY <1>8, <2>1, <2>3 DEF Frame
  <2> QED
    BY <1>0, <2>1, <2>3, <2>4 DEF Keeps, Stands
<1> QED
  BY <1>10, <1>11

LEMMA LengthKeeps ==
    ASSUME NEW item, PlainItem("ws", item), script.how = "ws", NEW a, NEW e, NEW cells, cells[1] = Size(item),
           NEW low, low = Length(Size(item)).low, low > Small, rd = Frame("ext", 1, TRUE, BinaryMessage, low),
           ReadFrame(cells)
    PROVE  Keeps(item, a, e, a + 3)
<1>0. PICK n : n = Size(item)
  OBVIOUS
<1>1. n \in Nat /\ n > 0
  BY <1>0, PacketHead DEF RawHeaderSize
<1>2. Len(Start(n)) = 3
  BY <1>0, <1>1, StartFacts
<1>3. PICK f : f = [rd EXCEPT !.len = n]
  OBVIOUS
<1>4. AfterLength(f)
  <2>1. rd.pc = "ext"
    BY DEF Frame
  <2> QED
    BY <1>0, <1>3, <2>1 DEF ReadFrame
<1>5. f = Frame("ext", 1, TRUE, BinaryMessage, n)
  BY <1>3 DEF Frame
<1>6. f.len = n /\ ~f.mask
  BY <1>5 DEF Frame
<1>7. rd' = [f EXCEPT !.pc = "payload", !.want = n] /\ got' = got /\ rerr' = rerr /\ back' = back
  BY <1>1, <1>4, <1>6 DEF AfterLength, Payload, Goto
<1>8. rd' = Frame("payload", n, TRUE, BinaryMessage, n)
  BY <1>5, <1>7 DEF Frame
<1> QED
  BY <1>0, <1>2, <1>7, <1>8 DEF Keeps, Stands

LEMMA PayloadKeeps ==
    ASSUME NEW item, PlainItem("ws", item), NEW a, NEW e,
           rd = Frame("payload", Size(item), TRUE, BinaryMessage, Size(item)), ReadFrame(Packet(item))
    PROVE  Keeps(item, a, e, e)
<1>1. rd.pc = "payload" /\ ~rd.mask /\ rd.op = BinaryMessage /\ rd.fin /\ rd.acc = <<>>
  BY DEF Frame
<1>2. ReadMessage(rd, Packet(item))
  BY <1>1 DEF ReadFrame
<1>3. Message(<<>> \o Packet(item))
  <2>1. Message(rd.acc \o Packet(item))
    BY <1>1, <1>2, LastFrame
  <2> QED
    BY <1>1, <2>1
<1>4. <<>> \o Packet(item) = Packet(item)
  <2>1. Packet(item) \in Bytes
    BY PacketFacts
  <2>2. Cat(<<>>, Packet(item)) = Packet(item)
    BY <2>1, CatFacts
  <2> QED
    BY <2>2 DEF Cat
<1> QED
  BY <1>3, <1>4, MessageKeeps

\* One cell of a part.
LEMMA CellAt ==
    ASSUME NEW d \in Bytes, NEW a \in Nat, NEW b \in Nat, a <= b, b <= Len(d), NEW k \in Nat, k < b - a,
           NEW p, p = a + k, NEW q, q = p + 1
    PROVE  Part(d, p, q)[1] = Part(d, a, b)[k + 1]
<1>1. Len(d) \in Nat
  BY CatFacts
<1>2. p \in Nat /\ q \in Nat /\ p <= q /\ q <= Len(d) /\ 1 \in 1 .. q - p /\ k + 1 \in 1 .. b - a /\ p + 1 = a + (k + 1)
  BY <1>1
<1>3. Part(d, p, q)[1] = d[p + 1]
  <2>1. \A j \in 1 .. q - p : Part(d, p, q)[j] = d[p + j]
    BY <1>2, PartFacts
  <2> QED
    BY <1>2, <2>1
<1>4. Part(d, a, b)[k + 1] = d[a + (k + 1)]
  <2>1. \A j \in 1 .. b - a : Part(d, a, b)[j] = d[a + j]
    BY PartFacts
  <2> QED
    BY <1>2, <2>1
<1> QED
  BY <1>2, <1>3, <1>4

\* Where the reader is when the cells it wants are there.
LEMMA PopPlace ==
    ASSUME Plain(script), sent \in 0 .. Len(script.items), GotSent, NEW due, NEW mark, Carries(due, mark),
           rerr = "none", Len(rbuf) >= rd.want, NEW i, i = Len(got) + 1, NEW p, p = Pos + rd.want
    PROVE  /\ i \in 1 .. sent /\ i - 1 = Len(got) /\ Len(got) \in 0 .. sent /\ sent \in Nat
           /\ p \in Nat /\ p <= taken /\ taken \in Nat /\ taken <= Len(due) /\ Pos \in Nat /\ Pos <= p
           /\ SubSeq(rbuf, 1, rd.want) = Part(due, Pos, p)
           /\ SubSeq(rbuf, rd.want + 1, Len(rbuf)) = Part(due, p, taken)
<1>0. /\ due \in Bytes /\ Writes(due) /\ Reads(due) /\ sent \in Nat /\ Len(got) \in Nat /\ Len(got) <= sent
      /\ Len(script.items) \in Nat
  BY PlainFacts, LenProperties DEF Carries, GotSent
<1>1. /\ Len(w.out) \in Nat /\ Len(due) \in Nat /\ Len(w.out) <= Len(due)
      /\ taken \in Nat /\ taken <= Len(w.out) /\ Len(rbuf) \in Nat
      /\ Pos \in Nat /\ Pos <= taken /\ taken = Pos + Len(rbuf) /\ rbuf = Part(due, Pos, taken)
  BY <1>0, ReaderFacts
<1>2. /\ rd.want \in Nat /\ rd.want >= 1 /\ (Len(got) = sent => Pos = Len(due))
  <2>1. /\ rd.want \in Nat /\ rd.want >= 1 /\ Pos \in Nat
        /\ (Len(got) < sent => Pos + rd.want <= Len(due))
        /\ (Len(got) = sent => Pos = Len(due))
        /\ (rd.want > ReadBufSize => CanRefuse)
    BY Wanted, Zenon
  <2> QED
    BY <2>1, Zenon
<1>3. PICK n, q, t, k, l : n = rd.want /\ q = Pos /\ t = taken /\ k = Len(rbuf) /\ l = Len(due)
  OBVIOUS
<1>4. /\ n \in Nat /\ n >= 1 /\ q \in Nat /\ t \in Nat /\ k \in Nat /\ l \in Nat /\ q <= t /\ t = q + k /\ t <= l
      /\ k >= n /\ p = q + n
  <2>1. k >= n /\ p = q + n
    BY <1>3
  <2>2. n \in Nat /\ n >= 1
    BY <1>2, <1>3
  <2>3. q \in Nat /\ t \in Nat /\ k \in Nat /\ l \in Nat /\ q <= t /\ t = q + k
    BY <1>1, <1>3
  <2>4. t <= l
    <3>1. PICK o : o = Len(w.out)
      OBVIOUS
    <3>2. t <= o /\ o <= l /\ o \in Nat
      BY <1>1, <1>3, <3>1
    <3> QED
      BY <2>3, <3>2
  <2> QED
    BY <2>1, <2>2, <2>3, <2>4
<1>5. p \in Nat /\ p <= t /\ q <= p /\ n \in 0 .. t - q /\ q # l
  BY <1>4
<1>6. Len(got) # sent
  BY <1>2, <1>3, <1>5
<1>7. i \in 1 .. sent /\ i - 1 = Len(got) /\ Len(got) \in 0 .. sent
  BY <1>0, <1>6
<1>8. /\ SubSeq(Part(due, q, t), 1, n) = Part(due, q, q + n)
      /\ SubSeq(Part(due, q, t), n + 1, Len(Part(due, q, t))) = Part(due, q + n, t)
  <2>1. due \in Bytes /\ q \in Nat /\ t \in Nat /\ q <= t /\ t <= Len(due) /\ n \in 0 .. t - q
    BY <1>0, <1>3, <1>4, <1>5
  <2> QED
    BY <2>1, PartPart
<1>9. rbuf = Part(due, q, t)
  BY <1>1, <1>3
<1>10. SubSeq(rbuf, 1, n) = Part(due, q, p) /\ SubSeq(rbuf, n + 1, Len(rbuf)) = Part(due, p, t)
  BY <1>4, <1>8, <1>9
<1> QED
  BY <1>0, <1>3, <1>4, <1>5, <1>7, <1>10

\* The reader has moved on in a packet, or to the next one.
LEMMA PopKept ==
    ASSUME Plain(script), sent \in 0 .. Len(script.items), GotSent, Ends, NEW due, NEW mark, Carries(due, mark),
           rerr = "none", NEW i \in 1 .. sent, i = Len(got) + 1, NEW item, item = script.items[i],
           NEW a, a = mark[i - 1], NEW p \in Nat, p <= taken, taken <= Len(due), rbuf' = Part(due, p, taken),
           Keeps(item, a, mark[i], p), PlainItem(script.how, item), UNCHANGED <<script, sent, w, taken>>
    PROVE  FInv'
<1>0. /\ due \in Bytes /\ mark \in [0 .. sent -> Nat] /\ Layout(due, mark) /\ Writes(due) /\ Reads(due)
      /\ script' = script /\ sent' = sent /\ w' = w /\ taken' = taken
      /\ Len(script.items) \in Nat /\ sent \in Nat /\ taken \in Nat /\ taken <= Len(w.out)
  BY PlainFacts, SMTT(30) DEF Carries, Reads
<1>1. got \in Seq(Protos) /\ Len(got) \in Nat /\ Len(got) < sent /\ i - 1 = Len(got) /\ i \in DOMAIN script.items
  BY LenProperties, PlainFacts DEF GotSent
<1>2. Writes(due)' /\ Layout(due, mark)'
  BY <1>0 DEF Writes, Stream, Layout, CellsAt
<1>3. rbuf' \in Bytes /\ Len(rbuf') = taken - p
  BY <1>0, PartFacts
<1>4. Pos' = p
  <2>1. PICK l : l = Len(rbuf')
    OBVIOUS
  <2>2. taken - l = p
    BY <1>0, <1>3, <2>1
  <2> QED
    BY <1>0, <2>1, <2>2 DEF Pos
<1>5. Reads(due)'
  <2>1. Len(rbuf') <= taken
    BY <1>0, <1>3
  <2> QED
    BY <1>0, <1>3, <1>4, <2>1 DEF Reads
<1>6. CanRefuse' = CanRefuse
  BY <1>0 DEF CanRefuse, Refusable
<1>7. CASE rerr' = "packlen" /\ rd' = rd /\ got' = got /\ Size(item) > MaxPackSize
  <2>1. CanRefuse
    BY <1>1, <1>7, TooLong
  <2>2. Ends'
    BY <1>0, <1>6, <1>7, <2>1 DEF Ends, Keeps
  <2>3. GotSent'
    BY <1>0, <1>7 DEF GotSent
  <2>4. Carries(due, mark)'
    BY <1>0, <1>2, <1>5, <1>7 DEF Carries
  <2> QED
    BY <1>0, <2>2, <2>3, <2>4 DEF FInv
<1>8. CASE rerr' = rerr /\ got' = Append(got, Returned(item)) /\ rd' = AtStart(script.how) /\ p = mark[i]
  <2>1. Returned(item) \in Protos
    BY ItemFacts DEF Returned, Protos
  <2>2. got' \in Seq(Protos) /\ Len(got') = i /\ (\A j \in 1 .. Len(got) : got'[j] = got[j]) /\ got'[i] = Returned(item)
    BY <1>1, <1>8, <2>1, AppendProperties
  <2>3. GotSent'
    <3>1. ASSUME NEW j \in 1 .. i PROVE got'[j] = Returned(script.items[j])
      <4>1. CASE j = i
        BY <2>2, <4>1
      <4>2. CASE j # i
        <5>1. j \in 1 .. Len(got)
          BY <1>1, <4>2
        <5> QED
          BY <2>2, <5>1 DEF GotSent
      <4> QED
        BY <4>1, <4>2
    <3>2. i <= sent
      BY <1>1
    <3> QED
      BY <1>0, <2>2, <3>1, <3>2 DEF GotSent
  <2>4. Ends'
    BY <1>0, <1>6, <1>8 DEF Ends, Keeps
  <2>5. Between(mark)'
    BY <1>0, <1>4, <1>8, <2>2 DEF Between
  <2>6. Carries(due, mark)'
    BY <1>0, <1>2, <1>5, <2>5 DEF Carries
  <2> QED
    BY <1>0, <2>3, <2>4, <2>6 DEF FInv
<1>9. CASE rerr' = rerr /\ got' = got /\ Stands(script.how, item, a, rd', p)
  <2>1. Within(mark)'
    BY <1>0, <1>1, <1>4, <1>9 DEF Within
  <2>2. Ends'
    BY <1>0, <1>6, <1>9 DEF Ends, Keeps
  <2>3. GotSent'
    BY <1>0, <1>9 DEF GotSent
  <2>4. Carries(due, mark)'
    BY <1>0, <1>2, <1>5, <2>1 DEF Carries
  <2> QED
    BY <1>0, <2>2, <2>3, <2>4 DEF FInv
<1> QED
  BY <1>7, <1>8, <1>9 DEF Keeps

-----------------------------------------------------------------------------
(* The wire format: a body decodes to what was encoded *)

\* Three runs of cells in a row, cell by cell.
Runs(d, x, y, z) == x \in Bytes /\ y \in Bytes /\ z \in Bytes /\ d = Cat(Cat(x, y), z)
InRow(d, x, y, z) ==
    /\ d \in Bytes /\ Len(d) = (Len(x) + Len(y)) + Len(z)
    /\ Len(x) \in Nat /\ Len(y) \in Nat /\ Len(z) \in Nat
    /\ \A i \in 1 .. Len(x) : d[i] = x[i]
    /\ \A i \in 1 .. Len(y) : d[Len(x) + i] = y[i]
    /\ Part(d, Len(x), Len(x) + Len(y)) = y
    /\ Part(d, Len(x) + Len(y), Len(d)) = z

LEMMA RunsFacts == ASSUME NEW x, NEW y, NEW z, NEW d, Runs(d, x, y, z) PROVE InRow(d, x, y, z)
<1>0. x \in Bytes /\ y \in Bytes /\ z \in Bytes /\ d = Cat(Cat(x, y), z)
  BY DEF Runs
<1>1. PICK t : t = Cat(x, y)
  OBVIOUS
<1>2. /\ t \in Bytes /\ Len(t) = Len(x) + Len(y) /\ Len(x) \in Nat /\ Len(y) \in Nat
      /\ (\A i \in 1 .. Len(x) : t[i] = x[i]) /\ (\A i \in 1 .. Len(y) : t[Len(x) + i] = y[i])
  <2>1. Cat(x, y) \in Bytes /\ Len(Cat(x, y)) = Len(x) + Len(y) /\ Len(x) \in Nat /\ Len(y) \in Nat
    BY <1>0, CatFacts
  <2>2. /\ \A i \in 1 .. Len(x) : Cat(x, y)[i] = x[i]
        /\ \A i \in 1 .. Len(y) : Cat(x, y)[Len(x) + i] = y[i]
    BY <1>0, CatAt
  <2> QED
    BY <1>1, <2>1, <2>2
<1>3. d \in Bytes /\ Len(d) = Len(t) + Len(z) /\ Len(z) \in Nat /\ (\A i \in 1 .. Len(t) : d[i] = t[i])
  <2>1. d = Cat(t, z)
    BY <1>0, <1>1
  <2>2. Cat(t, z) \in Bytes /\ Len(Cat(t, z)) = Len(t) + Len(z) /\ Len(z) \in Nat
    BY <1>0, <1>2, CatFacts
  <2>3. \A i \in 1 .. Len(t) : Cat(t, z)[i] = t[i]
    BY <1>0, <1>2, CatAt
  <2> QED
    BY <2>1, <2>2, <2>3
<1>4. \A i \in 1 .. Len(x) : i \in 1 .. Len(t)
  BY <1>2
<1>5. \A i \in 1 .. Len(y) : Len(x) + i \in 1 .. Len(t)
  BY <1>2
<1>6. Part(d, Len(x), Len(x) + Len(y)) = y
  <2>1. Part(Cat(x, y), Len(x), Len(Cat(x, y))) = y
    BY <1>0, PartGrown
  <2>2. \A a, b \in Nat : a <= b /\ b <= Len(t) => Part(Cat(t, z), a, b) = Part(t, a, b)
    BY <1>0, <1>2, PartGrown
  <2>3. Len(x) <= Len(t) /\ Len(t) <= Len(t) /\ Len(t) \in Nat
    BY <1>2
  <2>4. Part(Cat(t, z), Len(x), Len(t)) = Part(t, Len(x), Len(t))
    BY <1>2, <2>2, <2>3
  <2> QED
    BY <1>0, <1>1, <1>2, <1>3, <2>1, <2>4
<1>7. Part(d, Len(x) + Len(y), Len(d)) = z
  <2>1. Part(Cat(t, z), Len(t), Len(Cat(t, z))) = z
    BY <1>0, <1>2, PartGrown
  <2> QED
    BY <1>0, <1>1, <1>2, <1>3, <2>1
<1> QED
  BY <1>2, <1>3, <1>4, <1>5, <1>6, <1>7 DEF InRow

\* A text after its length, and what follows.
LEMMA SliceIsPart == ASSUME NEW d, NEW a \in Nat, NEW n \in Nat PROVE Slice(d, a + 1, n) = Part(d, a, a + n)
<1>1. PICK p, q, r : p = a + 1 /\ q = (p + n) - 1 /\ r = a + n
  OBVIOUS
<1>2. q = r
  BY <1>1
<1>3. Slice(d, p, n) = SubSeq(d, p, q)
  <2>1. q = p + n - 1
    BY <1>1
  <2> QED
    BY <2>1, Zenon DEF Slice
<1>4. Part(d, a, r) = SubSeq(d, p, r)
  BY <1>1, Zenon DEF Part
<1>5. Slice(d, p, n) = Part(d, a, r)
  BY <1>2, <1>3, <1>4, Zenon
<1> QED
  BY <1>1, <1>5

Named(d, s, z) == s \in Bytes /\ z \in Bytes /\ d = Cat(Cat(<<Len(s)>>, s), z)
NameFirst(d, s, z) ==
    /\ d \in Bytes /\ Len(d) = (1 + Len(s)) + Len(z) /\ Len(s) \in Nat /\ Len(z) \in Nat
    /\ d[1] = Len(s) /\ Slice(d, 2, Len(s)) = s /\ Part(d, 1 + Len(s), Len(d)) = z
    /\ d # <<>> /\ Head(d) = Len(s)

LEMMA NamedFacts == ASSUME NEW s, NEW z, NEW d, Named(d, s, z) PROVE NameFirst(d, s, z)
<1>0. Len(s) \in Nat /\ s \in Bytes /\ z \in Bytes /\ d = Cat(Cat(<<Len(s)>>, s), z)
  BY CatFacts DEF Named
<1>1. PICK x, n : x = <<Len(s)>> /\ n = Len(s)
  OBVIOUS
<1>2. x \in Bytes /\ Len(x) = 1 /\ x[1] = n /\ n \in Nat
  BY <1>0, <1>1, OneCell
<1>3. /\ d \in Bytes /\ Len(d) = (Len(x) + Len(s)) + Len(z) /\ Len(z) \in Nat
      /\ \A i \in 1 .. Len(x) : d[i] = x[i]
      /\ Part(d, Len(x), Len(x) + Len(s)) = s /\ Part(d, Len(x) + Len(s), Len(d)) = z
  <2>1. Runs(d, x, s, z)
    BY <1>0, <1>1, <1>2 DEF Runs
  <2>2. InRow(d, x, s, z)
    BY <2>1, RunsFacts
  <2> QED
    BY <2>2 DEF InRow
<1>4. d[1] = n
  <2>1. 1 \in 1 .. Len(x)
    BY <1>2
  <2> QED
    BY <1>2, <1>3, <2>1
<1>5. Slice(d, 2, n) = s
  <2>1. Slice(d, 1 + 1, n) = Part(d, 1, 1 + n)
    BY <1>2, SliceIsPart
  <2>2. 1 + 1 = 2
    OBVIOUS
  <2> QED
    BY <1>1, <1>2, <1>3, <2>1, <2>2
<1>6. d # <<>> /\ Head(d) = d[1]
  <2>1. Len(d) # 0
    BY <1>0, <1>2, <1>3
  <2>2. d # <<>>
    BY <2>1, NoCells
  <2> QED
    BY <1>3, <2>2 DEF Bytes
<1> QED
  BY <1>0, <1>1, <1>2, <1>3, <1>4, <1>5, <1>6 DEF NameFirst

LEMMA MsgRoundTrip ==
    ASSUME NEW mb, MsgBody(mb)
    PROVE  \E body : MarshalMsgBody(mb) = <<body>> /\ UnmarshalMsgBody(body) = <<mb>>
<1>0. PICK s, q, c, n : /\ s = mb.msgID /\ q = <<mb.fromUID, mb.toUID, mb.timestamp, mb.seq>> /\ c = mb.content
                        /\ n = Len(mb.msgID)
  OBVIOUS
<1>1. /\ s \in Bytes /\ n = Len(s) /\ n \in Nat /\ n <= MaxPrefix /\ MaxPrefix \in Nat /\ c \in Bytes
      /\ q \in Bytes /\ Len(q) = 4
  <2>1. s \in Bytes /\ Len(s) <= MaxPrefix /\ c \in Bytes
    BY <1>0 DEF MsgBody, Text
  <2>2. q \in Bytes /\ Len(q) = 4
    BY <1>0 DEF MsgBody, Bytes
  <2> QED
    BY <1>0, <2>1, <2>2, CatFacts, FramingAssumption DEF FramingAssumption
<1>2. PICK x, z, d : x = Cat(<<n>>, s) /\ z = Cat(q, c) /\ d = Cat(Cat(<<n>>, s), Cat(q, c))
  OBVIOUS
<1>3. x \in Bytes /\ z \in Bytes /\ <<n>> \in Bytes /\ Len(z) = 4 + Len(c) /\ Len(c) \in Nat
  <2>1. <<n>> \in Bytes
    BY <1>1, OneCell
  <2>2. PICK o : o = <<n>>
    OBVIOUS
  <2>3. Cat(o, s) \in Bytes
    BY <1>1, <2>1, <2>2, CatFacts
  <2>4. Cat(q, c) \in Bytes /\ Len(Cat(q, c)) = Len(q) + Len(c) /\ Len(c) \in Nat
    BY <1>1, CatFacts
  <2> QED
    BY <1>1, <1>2, <2>1, <2>2, <2>3, <2>4
<1>4. MarshalMsgBody(mb) = <<d>>
  <2>1. ~(Len(mb.msgID) > MaxPrefix)
    BY <1>0, <1>1
  <2>2. MarshalMsgBody(mb) = <<((<<n>> \o s) \o q) \o c>>
    BY <1>0, <2>1 DEF MarshalMsgBody
  <2>3. Cat(Cat(x, q), c) = d
    BY <1>1, <1>2, <1>3, CatAssoc
  <2>4. ((<<n>> \o s) \o q) \o c = d
    BY <1>2, <2>3 DEF Cat
  <2> QED
    BY <2>2, <2>4
<1>5. /\ d \in Bytes /\ Len(d) = (1 + n) + (4 + Len(c)) /\ d # <<>> /\ Head(d) = n
      /\ Slice(d, 2, n) = s /\ Part(d, 1 + n, Len(d)) = z
  <2>1. Named(d, s, z)
    BY <1>1, <1>2, <1>3 DEF Named
  <2>2. NameFirst(d, s, z)
    BY <2>1, NamedFacts
  <2> QED
    BY <1>1, <1>3, <2>2 DEF NameFirst
<1>6. d[n + 2] = mb.fromUID /\ d[n + 3] = mb.toUID /\ d[n + 4] = mb.timestamp /\ d[n + 5] = mb.seq
  <2>1. d = Cat(Cat(x, q), c) /\ Len(x) = n + 1
    <3>1. Cat(Cat(x, q), c) = Cat(x, Cat(q, c))
      BY <1>1, <1>3, CatAssoc
    <3>2. Len(x) = n + 1
      <4>1. Len(Cat(<<n>>, s)) = Len(<<n>>) + Len(s) /\ Len(<<n>>) = 1
        BY <1>1, <1>3, CatFacts, OneCell
      <4> QED
        BY <1>1, <1>2, <4>1
    <3> QED
      BY <1>2, <3>1, <3>2
  <2>2. \A i \in 1 .. Len(q) : d[Len(x) + i] = q[i]
    <3>1. Runs(d, x, q, c)
      BY <1>1, <1>3, <2>1 DEF Runs
    <3>2. InRow(d, x, q, c)
      BY <3>1, RunsFacts
    <3> QED
      BY <3>2 DEF InRow
  <2>3. \A i \in 1 .. 4 : d[(n + 1) + i] = q[i]
    BY <1>1, <2>1, <2>2
  <2>4. (n + 1) + 1 = n + 2 /\ (n + 1) + 2 = n + 3 /\ (n + 1) + 3 = n + 4 /\ (n + 1) + 4 = n + 5
    BY <1>1
  <2>5. d[n + 2] = q[1] /\ d[n + 3] = q[2] /\ d[n + 4] = q[3] /\ d[n + 5] = q[4]
    BY <2>3, <2>4
  <2> QED
    BY <1>0, <2>5
<1>7. SubSeq(d, n + 6, Len(d)) = c
  <2>1. SubSeq(z, 5, Len(z)) = c
    <3>1. Part(Cat(q, c), Len(q), Len(Cat(q, c))) = c
      BY <1>1, PartGrown
    <3> QED
      BY <1>1, <1>2, <3>1 DEF Part
  <2>2. /\ SubSeq(Part(d, 1 + n, Len(d)), 1, 4) = Part(d, 1 + n, (1 + n) + 4)
        /\ SubSeq(Part(d, 1 + n, Len(d)), 4 + 1, Len(Part(d, 1 + n, Len(d)))) = Part(d, (1 + n) + 4, Len(d))
    <3>1. PICK a, b : a = 1 + n /\ b = Len(d)
      OBVIOUS
    <3>2. d \in Bytes /\ a \in Nat /\ b \in Nat /\ a <= b /\ b <= Len(d) /\ 4 \in 0 .. b - a
      BY <1>1, <1>3, <1>5, <3>1
    <3>3. /\ SubSeq(Part(d, a, b), 1, 4) = Part(d, a, a + 4)
          /\ SubSeq(Part(d, a, b), 4 + 1, Len(Part(d, a, b))) = Part(d, a + 4, b)
      BY <3>2, PartPart
    <3> QED
      BY <3>1, <3>3
  <2>3. ((1 + n) + 4) + 1 = n + 6 /\ 4 + 1 = 5
    BY <1>1
  <2> QED
    BY <1>5, <2>1, <2>2, <2>3 DEF Part
<1>8. ~(d = <<>> \/ Len(d) < 5 + Head(d))
  <2>1. ~((1 + n) + (4 + Len(c)) < 5 + n)
    BY <1>1, <1>3
  <2> QED
    BY <1>5, <2>1
<1>9. UnmarshalMsgBody(d) = <<[msgID |-> s, fromUID |-> mb.fromUID, toUID |-> mb.toUID, timestamp |-> mb.timestamp,
                               seq |-> mb.seq, content |-> c]>>
  BY <1>5, <1>6, <1>7, <1>8 DEF UnmarshalMsgBody
<1> QED
  BY <1>0, <1>4, <1>9 DEF MsgBody

LEMMA SyncReqRoundTrip ==
    ASSUME NEW sr, SyncReq(sr)
    PROVE  \E body : MarshalSyncReq(sr) = <<body>> /\ UnmarshalSyncReq(body) = <<sr>>
<1>1. PICK d : d = <<sr.lastSeq, sr.limit>>
  OBVIOUS
<1>2. MarshalSyncReq(sr) = <<d>> /\ Len(d) = 2 /\ d[1] = sr.lastSeq /\ d[2] = sr.limit
  BY <1>1 DEF MarshalSyncReq
<1>3. UnmarshalSyncReq(d) = <<[lastSeq |-> d[1], limit |-> d[2]]>>
  BY <1>2 DEF UnmarshalSyncReq
<1>4. sr = [lastSeq |-> sr.lastSeq, limit |-> sr.limit]
  BY Zenon DEF SyncReq
<1>5. UnmarshalSyncReq(d) = <<sr>>
  BY <1>2, <1>3, <1>4, Zenon
<1> QED
  BY <1>2, <1>5


\* An optional name that starts after a: it is read or found missing, and
\* what follows is left.
AsOptional(d, a, s, z) ==
    /\ d \in Bytes /\ a \in Nat /\ a <= Len(d) /\ s \in Bytes /\ z \in Bytes
    /\ Part(d, a, Len(d)) = Cat(Prefixed(s), z)
ReadOptional(d, a, s, z, b) ==
    /\ b \in Nat /\ b <= Len(d) /\ Part(d, b, Len(d)) = z
    /\ Optional(d, s # <<>>, a + 1) = [val |-> s, next |-> b + 1]

LEMMA PrefixedFacts ==
    ASSUME NEW s \in Bytes
    PROVE  /\ Prefixed(s) \in Bytes /\ Len(Prefixed(s)) \in Nat
           /\ s = <<>> => Prefixed(s) = <<>> /\ Len(Prefixed(s)) = 0
           /\ s # <<>> => Prefixed(s) = Cat(<<Len(s)>>, s) /\ Len(Prefixed(s)) = 1 + Len(s)
<1>1. PICK x : x = <<Len(s)>>
  OBVIOUS
<1>2. Len(s) \in Nat
  BY CatFacts
<1>3. x \in Bytes /\ Len(x) = 1
  BY <1>1, <1>2, OneCell
<1>4. Cat(x, s) \in Bytes /\ Len(Cat(x, s)) = Len(x) + Len(s)
  BY <1>3, CatFacts
<1>5. CASE s = <<>>
  BY <1>5, NoCells DEF Prefixed
<1>6. CASE s # <<>>
  <2>1. Prefixed(s) = Cat(x, s)
    BY <1>1, <1>6 DEF Prefixed, Cat
  <2> QED
    BY <1>1, <1>2, <1>3, <1>4, <1>6, <2>1
<1> QED
  BY <1>5, <1>6

LEMMA OptionalFacts ==
    ASSUME NEW d, NEW a, NEW s, NEW z, AsOptional(d, a, s, z)
    PROVE  ReadOptional(d, a, s, z, a + Len(Prefixed(s)))
<1>0. /\ d \in Bytes /\ a \in Nat /\ a <= Len(d) /\ s \in Bytes /\ z \in Bytes
      /\ Part(d, a, Len(d)) = Cat(Prefixed(s), z)
  BY DEF AsOptional
<1>1. PICK p, b, e : p = Prefixed(s) /\ b = a + Len(p) /\ e = Len(d)
  OBVIOUS
<1>2. /\ p \in Bytes /\ Len(p) \in Nat /\ Len(s) \in Nat /\ e \in Nat /\ a <= e
      /\ s = <<>> => p = <<>> /\ Len(p) = 0
      /\ s # <<>> => p = Cat(<<Len(s)>>, s) /\ Len(p) = 1 + Len(s)
  BY <1>0, <1>1, PrefixedFacts, CatFacts
<1>3. b \in Nat /\ b <= e /\ Part(d, a, b) = p /\ Part(d, b, e) = z
  <2>1. e <= Len(d) /\ Part(d, a, e) = Cat(p, z)
    BY <1>0, <1>1, <1>2
  <2>2. /\ a + Len(p) \in Nat /\ a + Len(p) <= e
        /\ Part(d, a, a + Len(p)) = p /\ Part(d, a + Len(p), e) = z
    BY <1>0, <1>2, <2>1, PartSplit
  <2> QED
    BY <1>1, <2>2
<1>4. Optional(d, s # <<>>, a + 1) = [val |-> s, next |-> b + 1]
  <2>1. CASE s = <<>>
    <3>1. Optional(d, s # <<>>, a + 1) = [val |-> <<>>, next |-> a + 1]
      BY <2>1 DEF Optional
    <3>2. b = a
      BY <1>0, <1>1, <1>2, <2>1
    <3> QED
      BY <2>1, <3>1, <3>2
  <2>2. CASE s # <<>>
    <3>1. PICK x, n : x = <<n>> /\ n = Len(s)
      OBVIOUS
    <3>2. x \in Bytes /\ Len(x) = 1 /\ x[1] = n /\ n \in Nat
      BY <1>2, <3>1, OneCell
    <3>3. b <= Len(d) /\ a <= b /\ Part(d, a, b) = Cat(x, s)
      BY <1>0, <1>1, <1>2, <1>3, <2>2, <3>1
    <3>4. /\ a + Len(x) \in Nat /\ a + Len(x) <= b /\ (a + Len(x)) + Len(s) = b
          /\ Part(d, a, a + Len(x)) = x /\ Part(d, a + Len(x), b) = s
      <4>1. d \in Bytes /\ a \in Nat /\ b \in Nat /\ s \in Bytes /\ x \in Bytes
        BY <1>0, <1>3, <3>2
      <4>2. a + Len(x) + Len(s) = (a + Len(x)) + Len(s)
        OBVIOUS
      <4>3. /\ a + Len(x) \in Nat /\ a + Len(x) <= b /\ a + Len(x) + Len(s) = b
            /\ Part(d, a, a + Len(x)) = x /\ Part(d, a + Len(x), b) = s
        BY <3>3, <4>1, PartSplit
      <4> QED
        BY <4>2, <4>3
    <3>5. a + 1 \in Nat /\ a + 1 <= b /\ (a + 1) + n = b /\ Part(d, a, a + 1) = x /\ Part(d, a + 1, b) = s
      BY <3>1, <3>2, <3>4
    <3>6. d[a + 1] = n
      <4>1. a <= a + 1 /\ a + 1 <= Len(d) /\ 1 \in 1 .. (a + 1) - a
        BY <1>0, <1>1, <1>3, <3>5
      <4>2. Part(d, a, a + 1)[1] = d[a + 1]
        BY <1>0, <3>5, <4>1, PartFacts
      <4> QED
        BY <3>2, <3>5, <4>2
    <3>7. Slice(d, (a + 1) + 1, n) = s
      <4>1. Slice(d, (a + 1) + 1, n) = Part(d, a + 1, (a + 1) + n)
        BY <3>2, <3>5, SliceIsPart
      <4> QED
        BY <3>5, <4>1
    <3>8. ~(a + 1 > Len(d)) /\ ~((a + 1) + n > Len(d)) /\ ((a + 1) + 1) + n = b + 1
      BY <1>0, <1>1, <1>3, <3>2, <3>5
    <3>9. PICK at, k : at = a + 1 /\ k = (at + 1) + n
      OBVIOUS
    <3>10. /\ d[at] = n /\ Slice(d, at + 1, n) = s /\ ~(at > Len(d)) /\ ~(at + d[at] > Len(d))
           /\ (at + 1) + d[at] = k /\ k = b + 1
      BY <3>6, <3>7, <3>8, <3>9
    <3>11. Optional(d, s # <<>>, at) = [val |-> Slice(d, at + 1, d[at]), next |-> (at + 1) + d[at]]
      BY <2>2, <3>10, Zenon DEF Optional
    <3> QED
      BY <3>9, <3>10, <3>11
  <2> QED
    BY <2>1, <2>2
<1> QED
  BY <1>1, <1>3, <1>4 DEF ReadOptional

LEMMA BitFacts ==
    ASSUME NEW c \in BOOLEAN, NEW e \in BOOLEAN, NEW f, f = Bit(c, 1) + Bit(e, 2)
    PROVE  f \in Nat /\ ((f % 2 = 1) <=> c) /\ (((f \div 2) % 2 = 1) <=> e)
<1>1. CASE c /\ e
  BY <1>1 DEF Bit
<1>2. CASE c /\ ~e
  BY <1>2 DEF Bit
<1>3. CASE ~c /\ e
  BY <1>3 DEF Bit
<1>4. CASE ~c /\ ~e
  BY <1>4 DEF Bit
<1> QED
  BY <1>1, <1>2, <1>3, <1>4

LEMMA AckRoundTrip ==
    ASSUME NEW ab, AckBody(ab)
    PROVE  \E body : MarshalAckBody(ab) = <<body>> /\ UnmarshalAckBody(body) = <<ab>>
<1>0. PICK s, n, a, f, v, u, l, r : /\ s = ab.msgID /\ n = Len(ab.msgID) /\ a = <<ab.seq>> /\ v = ab.deviceID
                                    /\ f = Bit(ab.deviceID # <<>>, 1) + Bit(ab.sessionID # <<>>, 2)
                                    /\ u = ab.sessionID /\ l = Prefixed(ab.deviceID) /\ r = Prefixed(ab.sessionID)
  OBVIOUS
<1>1. /\ s \in Bytes /\ v \in Bytes /\ u \in Bytes /\ n = Len(s) /\ n \in Nat /\ n <= MaxPrefix
      /\ Len(v) <= MaxPrefix /\ Len(u) <= MaxPrefix /\ Len(v) \in Nat /\ Len(u) \in Nat /\ MaxPrefix \in Nat
  <2>1. /\ s \in Bytes /\ v \in Bytes /\ u \in Bytes /\ n = Len(s) /\ n <= MaxPrefix
        /\ Len(v) <= MaxPrefix /\ Len(u) <= MaxPrefix
    BY <1>0 DEF AckBody, Text
  <2> QED
    BY <2>1, CatFacts, FramingAssumption DEF FramingAssumption
<1>2. f \in Nat /\ ((f % 2 = 1) <=> v # <<>>) /\ (((f \div 2) % 2 = 1) <=> u # <<>>)
  BY <1>0, BitFacts
<1>3. PICK m, o : m = <<n>> /\ o = <<f>>
  OBVIOUS
<1>4. /\ m \in Bytes /\ o \in Bytes /\ a \in Bytes /\ Len(m) = 1 /\ Len(o) = 1 /\ Len(a) = 1
      /\ o[1] = f /\ a[1] = ab.seq /\ l \in Bytes /\ r \in Bytes /\ Len(l) \in Nat /\ Len(r) \in Nat
  <2>1. ab.seq \in Nat
    BY DEF AckBody
  <2>2. l \in Bytes /\ r \in Bytes /\ Len(l) \in Nat /\ Len(r) \in Nat
    BY <1>0, <1>1, PrefixedFacts
  <2> QED
    BY <1>0, <1>1, <1>2, <1>3, <2>1, <2>2, OneCell
<1>5. PICK x, q, t, z, d : x = Cat(m, s) /\ q = Cat(a, o) /\ t = Cat(l, r) /\ z = Cat(Cat(a, o), Cat(l, r))
                           /\ d = Cat(Cat(m, s), Cat(Cat(a, o), Cat(l, r)))
  OBVIOUS
<1>6. /\ x \in Bytes /\ Len(x) = 1 + n /\ q \in Bytes /\ Len(q) = 2 /\ t \in Bytes /\ z \in Bytes
      /\ q[1] = ab.seq /\ q[2] = f /\ Len(t) \in Nat
  <2>1. x \in Bytes /\ Len(x) = 1 + n
    <3>1. x = Cat(m, s)
      BY <1>5, Zenon
    <3>2. m \in Bytes /\ s \in Bytes /\ Len(m) = 1 /\ Len(s) = n
      BY <1>1, <1>4
    <3> QED
      BY <3>1, <3>2, CatFacts
  <2>0. Cat(a, o) = q /\ Cat(l, r) = t
    BY <1>5, Zenon
  <2>2. q \in Bytes /\ Len(q) = 2
    <3>1. a \in Bytes /\ o \in Bytes /\ Len(a) = 1 /\ Len(o) = 1
      BY <1>4
    <3>2. Cat(a, o) \in Bytes /\ Len(Cat(a, o)) = Len(a) + Len(o)
      BY <3>1, CatFacts
    <3> QED
      BY <2>0, <3>1, <3>2
  <2>3. t \in Bytes /\ Len(t) \in Nat
    <3>1. l \in Bytes /\ r \in Bytes
      BY <1>4
    <3>2. Cat(l, r) \in Bytes
      BY <3>1, CatFacts
    <3> QED
      BY <2>0, <3>2, CatFacts
  <2>4. z \in Bytes
    <3>1. z = Cat(q, t)
      BY <1>5, Zenon
    <3> QED
      BY <2>2, <2>3, <3>1, CatFacts
  <2>5. /\ \A i \in 1 .. Len(a) : q[i] = a[i]
        /\ \A i \in 1 .. Len(o) : q[Len(a) + i] = o[i]
    <3>1. a \in Bytes /\ o \in Bytes
      BY <1>4
    <3>2. /\ \A i \in 1 .. Len(a) : Cat(a, o)[i] = a[i]
          /\ \A i \in 1 .. Len(o) : Cat(a, o)[Len(a) + i] = o[i]
      BY <3>1, CatAt
    <3> QED
      BY <2>0, <3>2
  <2>6. q[1] = a[1] /\ q[1 + 1] = o[1]
    BY <1>4, <2>5
  <2> QED
    BY <1>4, <2>1, <2>2, <2>3, <2>4, <2>6
<1>7. MarshalAckBody(ab) = <<d>>
  <2>1. ~ \E g \in {ab.msgID, ab.deviceID, ab.sessionID} : Len(g) > MaxPrefix
    BY <1>0, <1>1
  <2>2. MarshalAckBody(ab) = << ((((m \o s) \o a) \o o) \o l) \o r >>
    BY <1>0, <1>3, <2>1, Zenon DEF MarshalAckBody
  <2>3. Cat(Cat(x, a), o) = Cat(x, q)
    BY <1>4, <1>5, <1>6, CatAssoc
  <2>4. PICK y : y = Cat(x, q)
    OBVIOUS
  <2>5. y \in Bytes
    BY <1>6, <2>4, CatFacts
  <2>6. Cat(Cat(y, l), r) = Cat(y, t)
    BY <1>4, <1>5, <2>5, CatAssoc
  <2>7. Cat(Cat(x, q), t) = Cat(x, Cat(q, t))
    BY <1>6, CatAssoc
  <2>8. Cat(Cat(Cat(Cat(x, a), o), l), r) = d
    BY <1>5, <2>3, <2>4, <2>6, <2>7
  <2>9. ((((m \o s) \o a) \o o) \o l) \o r = d
    BY <1>5, <2>8, Zenon DEF Cat
  <2> QED
    BY <2>2, <2>9
<1>8. /\ d \in Bytes /\ d # <<>> /\ Head(d) = n /\ Slice(d, 2, n) = s
      /\ Len(d) = ((1 + n) + 2) + Len(t) /\ d[n + 2] = ab.seq /\ d[n + 3] = f
      /\ Part(d, n + 3, Len(d)) = t
  <2>1. Named(d, s, z)
    BY <1>1, <1>3, <1>5, <1>6 DEF Named
  <2>2. NameFirst(d, s, z)
    BY <2>1, NamedFacts
  <2>3. Cat(Cat(x, q), t) = Cat(x, Cat(q, t))
    BY <1>6, CatAssoc
  <2>4. Runs(d, x, q, t)
    BY <1>5, <1>6, <2>3 DEF Runs
  <2>5. InRow(d, x, q, t)
    BY <2>4, RunsFacts
  <2>6. /\ Len(d) = (Len(x) + Len(q)) + Len(t) /\ Part(d, Len(x) + Len(q), Len(d)) = t
        /\ \A i \in 1 .. Len(q) : d[Len(x) + i] = q[i]
    BY <2>5 DEF InRow
  <2>7. Len(x) + 1 = n + 2 /\ Len(x) + 2 = n + 3 /\ Len(x) + Len(q) = n + 3
    BY <1>1, <1>6
  <2>8. d[Len(x) + 1] = q[1] /\ d[Len(x) + 2] = q[2]
    BY <1>6, <2>6
  <2>9. /\ d \in Bytes /\ d # <<>> /\ Head(d) = n /\ Slice(d, 2, n) = s
    BY <1>1, <2>2 DEF NameFirst
  <2> QED
    BY <1>6, <2>6, <2>7, <2>8, <2>9
<1>9. PICK b : b = (n + 3) + Len(Prefixed(v))
  OBVIOUS
<1>10. /\ b \in Nat /\ b <= Len(d) /\ Part(d, b, Len(d)) = r
       /\ Optional(d, v # <<>>, (n + 3) + 1) = [val |-> v, next |-> b + 1]
  <2>1. AsOptional(d, n + 3, v, r)
    <3>1. n + 3 \in Nat /\ n + 3 <= Len(d) /\ d \in Bytes /\ Part(d, n + 3, Len(d)) = t
      BY <1>1, <1>6, <1>8
    <3>2. t = Cat(Prefixed(v), r)
      BY <1>0, <1>5, Zenon
    <3>3. Part(d, n + 3, Len(d)) = Cat(Prefixed(v), r)
      BY <3>1, <3>2
    <3> QED
      BY <1>1, <1>4, <3>1, <3>3 DEF AsOptional
  <2>2. ReadOptional(d, n + 3, v, r, b)
    BY <1>9, <2>1, OptionalFacts
  <2> QED
    BY <2>2 DEF ReadOptional
<1>11. PICK c : c = b + Len(Prefixed(u))
  OBVIOUS
<1>12. Optional(d, u # <<>>, b + 1) = [val |-> u, next |-> c + 1]
  <2>1. r = Cat(r, <<>>) /\ <<>> \in Bytes
    BY <1>4, CatFacts, NoCells
  <2>2. AsOptional(d, b, u, <<>>)
    BY <1>0, <1>1, <1>8, <1>10, <2>1 DEF AsOptional
  <2>3. ReadOptional(d, b, u, <<>>, c)
    BY <1>11, <2>2, OptionalFacts
  <2> QED
    BY <2>3 DEF ReadOptional
<1>13. UnmarshalAckBody(d) = <<[msgID |-> s, seq |-> ab.seq, deviceID |-> v, sessionID |-> u]>>
  <2>1. ~(d = <<>> \/ Len(d) < 2 + Head(d)) /\ Len(d) > n + 2 /\ n + 4 = (n + 3) + 1
    BY <1>1, <1>6, <1>8
  <2>2. (f % 2 = 1) = (v # <<>>) /\ ((f \div 2) % 2 = 1) = (u # <<>>)
    BY <1>2
  <2>3. Optional(d, f % 2 = 1, n + 4) = [val |-> v, next |-> b + 1]
    BY <1>10, <2>1, <2>2
  <2>4. Optional(d, (f \div 2) % 2 = 1, b + 1) = [val |-> u, next |-> c + 1]
    BY <1>12, <2>2
  <2>5. PICK g, h : g = Optional(d, f % 2 = 1, n + 4) /\ h = Optional(d, (f \div 2) % 2 = 1, g.next)
    OBVIOUS
  <2>6. g.val = v /\ h.val = u
    BY <2>3, <2>4, <2>5
  <2>7. UnmarshalAckBody(d) = <<[msgID |-> Slice(d, 2, n), seq |-> d[n + 2], deviceID |-> g.val, sessionID |-> h.val]>>
    BY <1>8, <2>1, <2>5, Zenon DEF UnmarshalAckBody
  <2> QED
    BY <1>8, <2>6, <2>7
<1> QED
  BY <1>0, <1>7, <1>13 DEF AckBody

\* What was encoded for an operation decodes to the same: a message, an
\* acknowledgement with or without its device and session, and a sync request
\* (the Marshal and Unmarshal functions of message.go); any other body is
\* handed on as it is.
THEOREM RoundTrip ==
    ASSUME NEW op, NEW what, Encodable(op, what)
    PROVE  \E body : Marshal(op, what) = <<body>> /\ Unmarshal(op, body) = <<what>>
<1>0. OpSendMsg # OpPushMsgAck /\ OpSendMsg # OpSyncReq /\ OpPushMsgAck # OpSyncReq /\ op # OpSyncReply
      /\ OpSendMsg # OpSyncReply /\ OpPushMsgAck # OpSyncReply /\ OpSyncReq # OpSyncReply
  BY DEF Encodable, OpSendMsg, OpPushMsgAck, OpSyncReq, OpSyncReply
<1>1. CASE op = OpSendMsg
  <2>1. PICK d : MarshalMsgBody(what) = <<d>> /\ UnmarshalMsgBody(d) = <<what>>
    BY <1>1, MsgRoundTrip DEF Encodable
  <2>2. Marshal(op, what) = MarshalMsgBody(what) /\ Unmarshal(op, d) = UnmarshalMsgBody(d)
    BY <1>0, <1>1 DEF Marshal, Unmarshal
  <2> QED
    BY <2>1, <2>2
<1>2. CASE op = OpPushMsgAck
  <2>1. PICK d : MarshalAckBody(what) = <<d>> /\ UnmarshalAckBody(d) = <<what>>
    BY <1>2, AckRoundTrip DEF Encodable
  <2>2. Marshal(op, what) = MarshalAckBody(what) /\ Unmarshal(op, d) = UnmarshalAckBody(d)
    BY <1>0, <1>2 DEF Marshal, Unmarshal
  <2> QED
    BY <2>1, <2>2
<1>3. CASE op = OpSyncReq
  <2>1. PICK d : MarshalSyncReq(what) = <<d>> /\ UnmarshalSyncReq(d) = <<what>>
    BY <1>3, SyncReqRoundTrip DEF Encodable
  <2>2. Marshal(op, what) = MarshalSyncReq(what) /\ Unmarshal(op, d) = UnmarshalSyncReq(d)
    BY <1>0, <1>3 DEF Marshal, Unmarshal
  <2> QED
    BY <2>1, <2>2
<1>4. CASE op \notin {OpSendMsg, OpPushMsgAck, OpSyncReq}
  <2>1. Marshal(op, what) = <<what>> /\ Unmarshal(op, what) = <<what>>
    BY <1>0, <1>4 DEF Marshal, Unmarshal
  <2> QED
    BY <2>1
<1> QED
  BY <1>1, <1>2, <1>3, <1>4

LEMMA PopKeeps ==
    ASSUME Plain(script), FInv, Pop
    PROVE  FInv'
<1>0. /\ sent \in 0 .. Len(script.items) /\ GotSent /\ Ends /\ rerr = "none" /\ Len(rbuf) >= rd.want
      /\ script' = script /\ sent' = sent /\ w' = w /\ taken' = taken
      /\ rbuf' = SubSeq(rbuf, rd.want + 1, Len(rbuf))
  BY DEF FInv, Pop
<1>1. PICK due, mark : Carries(due, mark)
  BY DEF FInv
<1>2. PICK i, p, cells : i = Len(got) + 1 /\ p = Pos + rd.want /\ cells = SubSeq(rbuf, 1, rd.want)
  OBVIOUS
<1>3. /\ i \in 1 .. sent /\ i - 1 = Len(got) /\ Len(got) \in 0 .. sent /\ sent \in Nat
      /\ p \in Nat /\ p <= taken /\ taken \in Nat /\ taken <= Len(due) /\ Pos \in Nat /\ Pos <= p
      /\ cells = Part(due, Pos, p) /\ rbuf' = Part(due, p, taken)
  BY <1>0, <1>1, <1>2, PopPlace
<1>4. PICK item, a : item = script.items[i] /\ a = mark[i - 1]
  OBVIOUS
<1>5. PICK f, b : f = Ahead(script.how, item) /\ b = a + Len(Ahead(script.how, item))
  OBVIOUS
<1>6. PICK e : e = mark[i]
  OBVIOUS
<1>7. /\ PlainItem(script.how, item) /\ a \in Nat /\ b \in Nat /\ e \in Nat /\ e <= Len(due)
      /\ b + RawHeaderSize <= e /\ e = b + Size(item) /\ e = b + RawHeaderSize + Len(Data(item))
      /\ Part(due, a, b) = f /\ Part(due, b, e) = Packet(item)
      /\ Part(due, b, b + RawHeaderSize) = Header(Size(item), item.proto)
      /\ Part(due, b + RawHeaderSize, e) = Data(item)
  <2>1. /\ PlainItem(script.how, item) /\ a \in Nat /\ mark[i] \in Nat /\ mark[i] <= Len(due)
        /\ Found(due, script.how, item, a, b, b + RawHeaderSize, mark[i])
    BY <1>0, <1>1, <1>3, <1>4, <1>5, Cut
  <2>2. Found(due, script.how, item, a, b, b + RawHeaderSize, e)
    BY <1>6, <2>1
  <2> QED
    BY <1>5, <1>6, <2>1, <2>2 DEF Found
<1>8. /\ script.how \in {"tcp", "ws"} /\ due \in Bytes /\ Size(item) \in Nat
  BY <1>1, <1>7, ItemFacts, PlainFacts DEF Carries
<1>9. (Between(mark) => rd = AtStart(script.how) /\ Pos = a) /\ (Within(mark) => Stands(script.how, item, a, rd, Pos))
  BY <1>2, <1>3, <1>4 DEF Between, Within
<1>10. SUFFICES Keeps(item, a, e, p)
  <2>1. ASSUME Keeps(item, a, e, p) PROVE FInv'
    <3>1. /\ sent \in 0 .. Len(script.items) /\ GotSent /\ Ends /\ Carries(due, mark) /\ rerr = "none"
          /\ i \in 1 .. sent /\ i = Len(got) + 1 /\ item = script.items[i] /\ a = mark[i - 1]
          /\ p \in Nat /\ p <= taken /\ taken <= Len(due) /\ rbuf' = Part(due, p, taken)
          /\ PlainItem(script.how, item)
      BY <1>0, <1>1, <1>2, <1>3, <1>4, <1>7, Zenon
    <3>2. Keeps(item, a, mark[i], p)
      BY <1>6, <2>1, Zenon
    <3>3. UNCHANGED <<script, sent, w, taken>>
      BY <1>0
    <3> QED
      BY <3>1, <3>2, <3>3, PopKept, Zenon
  <2> QED
    BY <2>1
<1>11. CASE script.how = "tcp"
  <2>1. b = a
    <3>1. f = <<>> /\ Len(f) = 0
      BY <1>5, <1>11, NoCells DEF Ahead
    <3> QED
      BY <1>5, <1>7, <3>1
  <2>2. CASE rd = AtStart(script.how) /\ Pos = a
    <3>1. rd.pc = "header" /\ rd.want = RawHeaderSize
      BY <1>11, <2>2 DEF AtStart, AtHeader
    <3>2. p = a + RawHeaderSize
      BY <1>2, <2>2, <3>1
    <3>3. cells = Header(Size(item), item.proto)
      BY <1>3, <1>7, <2>1, <2>2, <3>2
    <3>4. TCPHeader(cells)
      BY <1>2, <3>1 DEF Pop
    <3>5. e = a + Size(item)
      BY <1>7, <2>1
    <3> QED
      BY <1>7, <1>11, <3>2, <3>3, <3>4, <3>5, HeaderKeeps
  <2>3. CASE Stands(script.how, item, a, rd, Pos)
    <3>1. /\ Pos = a + RawHeaderSize
          /\ rd = [pc |-> "body", want |-> Len(Data(item)), hdr |-> Header(Size(item), item.proto)]
      BY <1>11, <2>3 DEF Stands
    <3>2. rd.pc = "body" /\ rd.want = Len(Data(item)) /\ rd.hdr = Header(Size(item), item.proto)
      BY <3>1
    <3>3. p = e
      BY <1>2, <1>7, <2>1, <3>1, <3>2
    <3>4. cells = Data(item)
      BY <1>3, <1>7, <2>1, <3>1, <3>3
    <3>5. TCPBody(cells)
      BY <1>2, <3>2 DEF Pop
    <3> QED
      BY <1>7, <1>11, <3>2, <3>3, <3>4, <3>5, BodyKeeps
  <2> QED
    BY <1>0, <1>1, <1>9, <2>2, <2>3 DEF Carries
<1>12. CASE script.how = "ws"
  <2>0. PICK n, low : n = Size(item) /\ low = Length(Size(item)).low
    OBVIOUS
  <2>1. /\ f = Start(n) /\ b = a + Len(f) /\ n \in Nat
        /\ f[1] = FinBit + BinaryMessage /\ f[2] = low /\ Len(f) \in Nat /\ Len(f) >= 2
        /\ (low > Small => f[3] = n /\ Len(f) = 3)
    <3>1. f = Start(n) /\ n \in Nat
      BY <1>5, <1>8, <1>12, <2>0 DEF Ahead
    <3>2. /\ Start(n)[1] = FinBit + BinaryMessage /\ Start(n)[2] = low
          /\ Len(Start(n)) = 2 + Len(Length(n).ext) /\ Len(Length(n).ext) \in Nat
          /\ (low > Small => Start(n)[3] = n /\ Len(Start(n)) = 3)
      BY <2>0, <3>1, StartFacts
    <3>3. Len(f) \in Nat /\ Len(f) >= 2
      BY <3>1, <3>2
    <3> QED
      BY <1>5, <3>1, <3>2, <3>3
  <2>2. \A k \in Nat : k < Len(f) => Part(due, a + k, (a + k) + 1)[1] = f[k + 1]
    <3>1. a <= b /\ b <= Len(due) /\ b - a = Len(f)
      <4>1. PICK m, l, s : m = Len(f) /\ l = Len(due) /\ s = Size(item)
        OBVIOUS
      <4>2. m \in Nat /\ b = a + m /\ e = b + s /\ s \in Nat /\ e <= l /\ a \in Nat /\ e \in Nat /\ b \in Nat
        BY <1>7, <1>8, <2>1, <4>1
      <4>3. l \in Nat
        BY <1>8, <4>1, CatFacts
      <4> QED
        BY <4>1, <4>2, <4>3
    <3>2. ASSUME NEW k \in Nat, k < Len(f) PROVE Part(due, a + k, (a + k) + 1)[1] = f[k + 1]
      <4>1. Part(due, a + k, (a + k) + 1)[1] = Part(due, a, b)[k + 1]
        BY <1>7, <1>8, <3>1, <3>2, CellAt, SMTT(30)
      <4> QED
        BY <1>7, <4>1
    <3> QED
      BY <3>2
  <2>3. rd.pc \notin {"header", "body"} => ReadFrame(cells)
    BY <1>2 DEF Pop
  <2>4. CASE rd = AtStart(script.how) /\ Pos = a
    <3>1. rd = AtFrame(<<>>, 0) /\ rd.pc = "b0" /\ rd.want = 1
      BY <1>12, <2>4 DEF AtStart, AtFrame
    <3>2. p = a + 1 /\ cells = Part(due, a, a + 1)
      BY <1>2, <1>3, <2>4, <3>1
    <3>3. cells[1] = f[1]
      <4>1. 0 \in Nat /\ 0 < Len(f) /\ a + 0 = a /\ 0 + 1 = 1
        BY <1>7, <2>1
      <4>2. Part(due, a + 0, (a + 0) + 1)[1] = f[0 + 1]
        BY <2>2, <4>1
      <4> QED
        BY <3>2, <4>1, <4>2
    <3>4. ReadFrame(cells)
      BY <2>3, <3>1
    <3>5. cells[1] = FinBit + BinaryMessage
      BY <2>1, <3>3
    <3>6. Keeps(item, a, e, a + 1)
      BY <1>12, <3>1, <3>4, <3>5, FirstByteKeeps
    <3> QED
      BY <3>2, <3>6
  <2>5. CASE Pos = a + 1 /\ rd = Frame("b1", 1, TRUE, BinaryMessage, 0)
    <3>1. rd.pc = "b1" /\ rd.want = 1
      BY <2>5 DEF Frame
    <3>2. p = (a + 1) + 1 /\ p = a + 2 /\ cells = Part(due, a + 1, (a + 1) + 1)
      <4>1. p = (a + 1) + 1
        BY <1>2, <2>5, <3>1, Zenon
      <4>2. p = a + 2
        BY <1>7, <4>1
      <4>3. cells = Part(due, a + 1, p)
        BY <1>3, <2>5, Zenon
      <4> QED
        BY <4>1, <4>2, <4>3, Zenon
    <3>3. cells[1] = f[2]
      <4>1. 1 \in Nat /\ 1 < Len(f) /\ 1 + 1 = 2
        BY <2>1
      <4>2. Part(due, a + 1, (a + 1) + 1)[1] = f[1 + 1]
        BY <2>2, <4>1
      <4> QED
        BY <3>2, <4>1, <4>2
    <3>4. ReadFrame(cells)
      BY <2>3, <3>1
    <3>5. cells[1] = Length(Size(item)).low /\ PlainItem("ws", item)
      BY <1>7, <1>12, <2>0, <2>1, <3>3
    <3>6. Keeps(item, a, e, a + 2)
      BY <1>12, <2>5, <3>4, <3>5, SecondByteKeeps
    <3> QED
      BY <3>2, <3>6
  <2>6. CASE Pos = a + 2 /\ low > Small /\ rd = Frame("ext", 1, TRUE, BinaryMessage, low)
    <3>1. rd.pc = "ext" /\ rd.want = 1
      BY <2>6 DEF Frame
    <3>2. p = (a + 2) + 1 /\ p = a + 3 /\ cells = Part(due, a + 2, (a + 2) + 1)
      <4>1. p = (a + 2) + 1
        BY <1>2, <2>6, <3>1, Zenon
      <4>2. p = a + 3
        BY <1>7, <4>1
      <4>3. cells = Part(due, a + 2, p)
        BY <1>3, <2>6, Zenon
      <4> QED
        BY <4>1, <4>2, <4>3, Zenon
    <3>3. cells[1] = f[3]
      <4>1. 2 \in Nat /\ 2 < Len(f) /\ 2 + 1 = 3
        <5>1. Len(f) = 3
          BY <2>1, <2>6, Zenon
        <5> QED
          BY <5>1
      <4>2. Part(due, a + 2, (a + 2) + 1)[1] = f[2 + 1]
        BY <2>2, <4>1
      <4> QED
        BY <3>2, <4>1, <4>2
    <3>4. ReadFrame(cells)
      BY <2>3, <3>1
    <3>5. cells[1] = Size(item) /\ PlainItem("ws", item)
      BY <1>7, <1>12, <2>0, <2>1, <2>6, <3>3
    <3>6. Keeps(item, a, e, a + 3)
      BY <1>12, <2>0, <2>6, <3>4, <3>5, LengthKeeps
    <3> QED
      BY <3>2, <3>6
  <2>7. CASE Pos = a + Len(f) /\ rd = Frame("payload", n, TRUE, BinaryMessage, n)
    <3>1. rd.pc = "payload" /\ rd.want = n
      BY <2>7 DEF Frame
    <3>2. Pos = b /\ p = e
      BY <1>2, <1>7, <2>0, <2>1, <2>7, <3>1
    <3>3. cells = Packet(item)
      BY <1>3, <1>7, <3>2
    <3>4. ReadFrame(Packet(item)) /\ PlainItem("ws", item)
      BY <1>7, <1>12, <2>3, <3>1, <3>3
    <3>5. Keeps(item, a, e, e)
      BY <2>0, <2>7, <3>4, PayloadKeeps
    <3> QED
      BY <3>2, <3>5
  <2>8. Stands(script.how, item, a, rd, Pos)
            => \/ Pos = a + 1 /\ rd = Frame("b1", 1, TRUE, BinaryMessage, 0)
               \/ Pos = a + 2 /\ low > Small /\ rd = Frame("ext", 1, TRUE, BinaryMessage, low)
               \/ Pos = a + Len(f) /\ rd = Frame("payload", n, TRUE, BinaryMessage, n)
    BY <1>12, <2>0, <2>1 DEF Stands
  <2> QED
    BY <1>0, <1>1, <1>9, <2>4, <2>5, <2>6, <2>7, <2>8 DEF Carries
<1> QED
  BY <1>8, <1>11, <1>12

-----------------------------------------------------------------------------
(* The wire format: every packet is returned, and no other *)

\* A set of numbers has a least element.
LEMMA Least == ASSUME NEW T \in SUBSET Nat, T # {} PROVE \E x \in T : \A y \in T : x <= y
<1>1. PICK R : R = OpToRel(<, Nat)
  OBVIOUS
<1>2. IsWellFoundedOn(R, Nat)
  BY <1>1, NatLessThanWellFounded, Zenon
<1>3. PICK x \in T : \A y \in T : ~ (<<y, x>> \in R)
  BY <1>2, WFMin
<1>4. R = {ss \in Nat \X Nat : ss[1] < ss[2]}
  BY <1>1 DEF OpToRel
<1>5. \A y \in T : <<y, x>> \in R <=> y < x
  BY <1>4
<1>6. \A y \in T : ~ (y < x)
  BY <1>3, <1>5
<1>7. x \in Nat /\ \A y \in T : y \in Nat
  OBVIOUS
<1>8. \A y \in T : x <= y
  BY <1>6, <1>7
<1> QED
  BY <1>8

\* ... and a bounded one its Max.

\* The definition of FlattenSeq by recursion, and what it comes to for
\* sequences of one element each.
Unfolds(f, ss, n) == f = [i \in 1 .. n |-> IF i = 1 THEN ss[i] ELSE f[i - 1] \o ss[i]]

LEMMA Flattened ==
    ASSUME NEW T, NEW s \in Seq(T), NEW n, n = Len(s), n > 0, NEW ss, ss = [i \in 1 .. n |-> <<s[i]>>],
           NEW f, Unfolds(f, ss, n)
    PROVE  f[n] = s
<1>0. n \in Nat /\ n \in 1 .. n
  BY LenProperties
<1>1. ASSUME NEW i \in 1 .. n PROVE SubSeq(s, 1, i) = SubSeq(s, 1, i - 1) \o ss[i]
  <2>1. 1 \in 1 .. Len(s) /\ i \in 1 .. Len(s)
    BY <1>0
  <2>2. SubSeq(s, 1, i) = SubSeq(s, 1, i - 1) \o <<s[i]>>
    BY <2>1, SubSeqRecursiveSecond
  <2> QED
    BY <2>2
<1>2. SubSeq(s, 1, 1) = ss[1]
  <2>0. 1 \in 1 .. n /\ 1 - 1 = 0 /\ 0 < 1 /\ 1 \in 1 .. Len(s)
    BY <1>0
  <2>1. SubSeq(s, 1, 0) = <<>>
    BY <2>0, SubSeqEmpty
  <2>2. s[1] \in T
    BY <2>0, LenProperties
  <2>3. <<s[1]>> \in Seq(T)
    BY <2>2
  <2>4. <<>> \o <<s[1]>> = <<s[1]>>
    BY <2>3, ConcatEmptySeq
  <2>5. SubSeq(s, 1, 1) = SubSeq(s, 1, 1 - 1) \o ss[1]
    BY <1>1, <2>0
  <2>6. ss[1] = <<s[1]>>
    BY <2>0
  <2> QED
    BY <2>0, <2>1, <2>4, <2>5, <2>6
<1>3. PICK Bad : Bad = {i \in 1 .. n : f[i] # SubSeq(s, 1, i)}
  OBVIOUS
<1>4. Bad = {}
  <2>1. SUFFICES ASSUME Bad # {} PROVE FALSE
    OBVIOUS
  <2>2. Bad \in SUBSET Nat
    BY <1>0, <1>3
  <2>3. PICK m \in Bad : \A y \in Bad : m <= y
    BY <2>1, <2>2, Least
  <2>4. m \in 1 .. n /\ f[m] # SubSeq(s, 1, m)
    BY <1>3, <2>3
  <2>5. f[m] = IF m = 1 THEN ss[m] ELSE f[m - 1] \o ss[m]
    BY <2>4 DEF Unfolds
  <2>6. CASE m = 1
    BY <1>2, <2>4, <2>5, <2>6
  <2>7. CASE m # 1
    <3>1. m - 1 \in 1 .. n /\ ~(m <= m - 1)
      BY <1>0, <2>4, <2>7
    <3>2. f[m - 1] = SubSeq(s, 1, m - 1)
      BY <1>3, <2>3, <3>1
    <3> QED
      BY <1>1, <2>4, <2>5, <2>7, <3>2
  <2> QED
    BY <2>6, <2>7
<1>5. f[n] = SubSeq(s, 1, n)
  BY <1>0, <1>3, <1>4
<1> QED
  BY <1>5, SubSeqFull

LEMMA FlattenOnes ==
    ASSUME NEW T, NEW s \in Seq(T), NEW ss, ss = [i \in 1 .. Len(s) |-> <<s[i]>>]
    PROVE  FlattenSeq(ss) = s
<1>0. Len(s) \in Nat
  BY LenProperties
<1>1. PICK n : n = Len(s)
  OBVIOUS
<1>2. ss \in Seq(Seq(T)) /\ Len(ss) = n
  <2>1. \A i \in 1 .. n : s[i] \in T
    BY <1>1, LenProperties
  <2>2. \A i \in 1 .. n : <<s[i]>> \in Seq(T)
    BY <2>1
  <2>3. ss \in [1 .. n -> Seq(T)]
    BY <1>1, <2>2
  <2>4. ss \in Seq(Seq(T))
    BY <1>0, <1>1, <2>3, SeqDef
  <2>5. DOMAIN ss = 1 .. n
    BY <2>3
  <2> QED
    BY <1>0, <1>1, <2>4, <2>5, LenProperties
<1>3. CASE n = 0
  <2>1. FlattenSeq(ss) = ss
    BY <1>2, <1>3 DEF FlattenSeq
  <2>2. ss = <<>> /\ s = <<>>
    BY <1>1, <1>2, <1>3, EmptySeq
  <2> QED
    BY <2>1, <2>2
<1>4. CASE n # 0
  <2>0. n > 0
    BY <1>0, <1>1, <1>4
  <2>1. PICK f : f = CHOOSE g : Unfolds(g, ss, Len(ss))
    OBVIOUS
  <2>2. PICK h : h = [i \in 1 .. n |-> SubSeq(s, 1, i)]
    OBVIOUS
  <2>3. h = [i \in 1 .. Len(ss) |-> IF i = 1 THEN ss[i] ELSE h[i - 1] \o ss[i]]
    <3>1. ASSUME NEW i \in 1 .. n PROVE h[i] = IF i = 1 THEN ss[i] ELSE h[i - 1] \o ss[i]
      <4>0. 1 \in 1 .. Len(s) /\ i \in 1 .. Len(s) /\ 1 \in 1 .. 1 /\ i \in 1 .. i
        BY <1>0, <1>1, <2>0, <3>1
      <4>1. SubSeq(s, 1, i) = SubSeq(s, 1, i - 1) \o <<s[i]>>
        <5>1. i \in 1 .. Len(s)
          BY <1>1
        <5> QED
          BY <4>0, <5>1, SubSeqRecursiveSecond
      <4>2. ss[i] = <<s[i]>>
        BY <1>1
      <4>3. CASE i = 1
        <5>1. SubSeq(s, 1, 0) = <<>>
          <6>1. 0 < 1 /\ 1 \in Int /\ 0 \in Int
            OBVIOUS
          <6> QED
            BY <6>1, SubSeqEmpty
        <5>2. <<s[1]>> \in Seq(T) /\ i - 1 = 0
          <6>1. s[1] \in T
            BY <4>0, LenProperties
          <6> QED
            BY <4>3, <6>1
        <5>3. <<>> \o <<s[1]>> = <<s[1]>>
          BY <5>2, ConcatEmptySeq
        <5> QED
          BY <2>2, <4>1, <4>2, <4>3, <5>1, <5>2, <5>3
      <4>4. CASE i # 1
        <5>1. i - 1 \in 1 .. n
          BY <1>0, <1>1, <4>4
        <5>2. h[i - 1] = SubSeq(s, 1, i - 1) /\ h[i] = SubSeq(s, 1, i)
          BY <2>2, <5>1
        <5> QED
          BY <4>1, <4>2, <4>4, <5>2
      <4> QED
        BY <4>3, <4>4
    <3>2. DOMAIN h = 1 .. n
      BY <2>2
    <3> QED
      BY <1>2, <2>2, <3>1, <3>2
  <2>4. Unfolds(f, ss, Len(ss))
    <3>1. Unfolds(h, ss, Len(ss))
      BY <2>3 DEF Unfolds
    <3> QED
      BY <2>1, <3>1, Zenon
  <2>5. f[n] = s
    <3>1. Unfolds(f, ss, n)
      BY <1>2, <2>4
    <3> QED
      BY <1>1, <2>0, <3>1, Flattened
  <2>6. FlattenSeq(ss) = f[Len(ss)]
    <3>1. ~(Len(ss) = 0)
      BY <1>2, <1>4
    <3> QED
      BY <2>1, <3>1, Zenon DEF FlattenSeq, Unfolds
  <2> QED
    BY <1>2, <2>5, <2>6
<1> QED
  BY <1>3, <1>4

\* What the reading end is to be told by an item.
Said(item) ==
    IF item.kind = "heart" THEN <<item.online>> ELSE IF item.kind = "batch" THEN Data(item) ELSE item.what
Told(item) == Meant(item.proto, Said(item))

LEMMA OneTold ==
    ASSUME NEW item, PlainItem(script.how, item)
    PROVE  Expected(item) = <<Told(item)>>
<1>1. CASE item.kind = "proto"
  <2>1. Said(item) = item.what
    BY <1>1 DEF Said
  <2> QED
    BY <1>1, <2>1 DEF Expected, Told
<1>2. CASE item.kind = "heart"
  <2>1. Said(item) = <<item.online>>
    BY <1>2 DEF Said
  <2> QED
    BY <1>2, <2>1 DEF Expected, Told
<1>3. CASE item.kind = "batch"
  <2>1. script.how = "ws"
    BY <1>3 DEF PlainItem
  <2>2. Said(item) = SubSeq(item.proto.body, RawHeaderSize + 1, Len(item.proto.body))
    BY <1>3 DEF Said, Data
  <2> QED
    BY <1>3, <2>1, <2>2 DEF Expected, Told
<1> QED
  BY <1>1, <1>2, <1>3 DEF PlainItem

LEMMA AllTold ==
    ASSUME Plain(script)
    PROVE  /\ Len(ExpectedAll) = Len(script.items)
           /\ \A i \in 1 .. Len(script.items) : ExpectedAll[i] = Told(script.items[i])
<1>0. PICK n : n = Len(script.items)
  OBVIOUS
<1>1. n \in Nat /\ DOMAIN script.items = 1 .. n /\ \A i \in 1 .. n : PlainItem(script.how, script.items[i])
  BY <1>0, PlainFacts
<1>2. PICK s : s = [i \in 1 .. n |-> Told(script.items[i])]
  OBVIOUS
<1>3. PICK T : T = {Told(script.items[i]) : i \in 1 .. n}
  OBVIOUS
<1>4. s \in Seq(T) /\ Len(s) = n
  <2>1. s \in [1 .. n -> T]
    BY <1>2, <1>3
  <2>2. s \in Seq(T)
    BY <1>1, <2>1, SeqDef
  <2>3. DOMAIN s = 1 .. n
    BY <2>1
  <2> QED
    BY <1>1, <2>2, <2>3, LenProperties
<1>5. PICK ss : ss = [i \in DOMAIN script.items |-> Expected(script.items[i])]
  OBVIOUS
<1>6. ss = [i \in 1 .. Len(s) |-> <<s[i]>>]
  <2>1. \A i \in 1 .. n : Expected(script.items[i]) = <<s[i]>>
    BY <1>1, <1>2, OneTold
  <2> QED
    BY <1>1, <1>4, <1>5, <2>1
<1>7. FlattenSeq(ss) = s
  BY <1>4, <1>6, FlattenOnes
<1>8. ExpectedAll = s
  BY <1>5, <1>7 DEF ExpectedAll
<1> QED
  BY <1>0, <1>2, <1>4, <1>8

\* The body that is returned decodes to it.
LEMMA Decodes ==
    ASSUME NEW how, NEW item, PlainItem(how, item)
    PROVE  Unmarshal(item.proto.op, Data(item)) = <<Completed(item.proto.op, Said(item))>>
<1>1. CASE item.kind = "proto"
  <2>1. Data(item) = item.proto.body /\ Said(item) = item.what
    BY <1>1 DEF Data, Said
  <2>2. CASE Encodable(item.proto.op, item.what) /\ Marshal(item.proto.op, item.what) = <<item.proto.body>>
    <3>1. PICK body : /\ Marshal(item.proto.op, item.what) = <<body>>
                      /\ Unmarshal(item.proto.op, body) = <<item.what>>
      BY <2>2, RoundTrip
    <3>2. body = item.proto.body
      BY <2>2, <3>1
    <3>3. item.proto.op # OpSyncReply
      BY <2>2 DEF Encodable
    <3>4. Completed(item.proto.op, item.what) = item.what
      BY <3>3 DEF Completed
    <3> QED
      BY <2>1, <3>1, <3>2, <3>4
  <2>3. CASE /\ item.proto.op = OpSyncReply
             /\ Unmarshal(OpSyncReply, item.proto.body) = <<Completed(OpSyncReply, item.what)>>
    BY <2>1, <2>3
  <2> QED
    BY <1>1, <2>2, <2>3 DEF PlainItem
<1>2. CASE item.kind \in {"heart", "batch"}
  <2>1. item.proto.op \notin BodyOps
    BY <1>2 DEF PlainItem, BodyOps, OpRaw, OpSendMsg, OpPushMsgAck, OpSyncReq, OpSyncReply
  <2>2. Said(item) = Data(item)
    BY <1>2 DEF Said, Data
  <2>3. /\ item.proto.op # OpSendMsg /\ item.proto.op # OpPushMsgAck
        /\ item.proto.op # OpSyncReq /\ item.proto.op # OpSyncReply
    BY <2>1 DEF BodyOps
  <2>4. Completed(item.proto.op, Said(item)) = Data(item)
    BY <2>2, <2>3 DEF Completed
  <2>5. Unmarshal(item.proto.op, Data(item)) = <<Data(item)>>
    BY <2>3 DEF Unmarshal
  <2> QED
    BY <2>4, <2>5
<1> QED
  BY <1>1, <1>2 DEF PlainItem

LEMMA AllIntact ==
    ASSUME FInv, Plain(script)
    PROVE  FramesIntact
<1>0. /\ sent \in 0 .. Len(script.items) /\ GotSent /\ Ends /\ script.how \in {"tcp", "ws"} /\ Len(script.items) \in Nat
  BY PlainFacts DEF FInv
<1>1. Len(got) \in Nat /\ DOMAIN got = 1 .. Len(got) /\ Len(got) <= sent /\ Len(got) <= Len(script.items)
  BY <1>0, LenProperties DEF GotSent
<1>2. Len(ExpectedAll) = Len(script.items) /\ \A i \in 1 .. Len(script.items) : ExpectedAll[i] = Told(script.items[i])
  BY AllTold
<1>3. ASSUME NEW i \in DOMAIN got
      PROVE  Meant(got[i], Unmarshal(got[i].op, got[i].body))
                 = [ExpectedAll[i] EXCEPT !.what = <<Completed(ExpectedAll[i].op, @)>>]
  <2>1. PICK item, g, t, p : item = script.items[i] /\ g = got[i] /\ t = ExpectedAll[i] /\ p = item.proto
    OBVIOUS
  <2>2. g = Returned(item) /\ t = Told(item) /\ PlainItem(script.how, item)
    <3>1. i \in 1 .. Len(got) /\ i \in 1 .. Len(script.items)
      BY <1>0, <1>1
    <3> QED
      BY <1>0, <1>2, <2>1, <3>1, PlainFacts DEF GotSent
  <2>3. PICK said, u : said = Said(item) /\ u = Unmarshal(p.op, Data(item))
    OBVIOUS
  <2>4. u = <<Completed(p.op, said)>>
    BY <2>1, <2>2, <2>3, Decodes
  <2>5. t = [op |-> p.op, seq |-> p.seq, what |-> said] /\ g = [op |-> p.op, seq |-> p.seq, body |-> Data(item)]
    BY <2>1, <2>2, <2>3 DEF Told, Meant, Returned
  <2>6. Unmarshal(g.op, g.body) = u /\ g.op = p.op /\ g.seq = p.seq
    BY <2>3, <2>5
  <2>7. Meant(g, u) = [t EXCEPT !.what = <<Completed(t.op, @)>>]
    BY <2>4, <2>5, <2>6 DEF Meant
  <2> QED
    BY <2>1, <2>6, <2>7
<1>4. back.out \o back.buf = Pongs
  <2>1. back.out = <<>> /\ back.buf = <<>>
    BY <1>0 DEF Ends, NewWriter
  <2>2. <<>> \o <<>> = <<>>
    OBVIOUS
  <2>3. Pongs = <<>>
    BY <1>0 DEF Pongs
  <2> QED
    BY <2>1, <2>2, <2>3
<1>5. rerr = "eof" /\ ~w.err => Len(got) = Len(ExpectedAll)
  BY <1>0, <1>2 DEF Ends
<1>6. /\ rerr \in {"full", "packlen", "maxread"} => CanRefuse
      /\ rerr \notin {"headerlen", "reserved", "unknown"} /\ rerr # "close"
  BY <1>0 DEF Ends
<1> QED
  BY <1>1, <1>2, <1>3, <1>4, <1>5, <1>6 DEF FramesIntact

LEMMA NothingKeeps ==
    ASSUME FInv, UNCHANGED framingVars
    PROVE  FInv'
<1>1. /\ script' = script /\ sent' = sent /\ w' = w /\ rbuf' = rbuf /\ taken' = taken /\ rd' = rd /\ got' = got
      /\ rerr' = rerr /\ back' = back
  BY DEF framingVars
<1>2. \A due, mark : Carries(due, mark) => Carries(due, mark)'
  BY <1>1 DEF Carries, Layout, CellsAt, Writes, Stream, Reads, Pos, Between, Within
<1>3. GotSent' = GotSent /\ Ends' = Ends
  BY <1>1 DEF GotSent, Ends, CanRefuse, Refusable
<1> QED
  BY <1>1, <1>2, <1>3 DEF FInv

LEMMA ScriptKept ==
    ASSUME [FramingNext]_framingVars
    PROVE  script' = script
BY DEF FramingNext, framingVars, Send, FlushAll, Fill, ReadFails, Pop

LEMMA FramingInductive ==
    ASSUME FInv, [FramingNext]_framingVars
    PROVE  FInv'
<1>1. CASE ~Plain(script)
  <2>1. ~Plain(script')
    BY <1>1, ScriptKept
  <2> QED
    BY <2>1 DEF FInv
<1>2. CASE Plain(script)
  <2>1. CASE Send
    BY <1>2, <2>1, SendKeeps
  <2>2. CASE FlushAll
    BY <1>2, <2>2, FlushKeeps
  <2>3. CASE Fill
    BY <1>2, <2>3, FillKeeps
  <2>4. CASE ReadFails
    BY <1>2, <2>4, ReadFailsKeeps
  <2>5. CASE Pop
    BY <1>2, <2>5, PopKeeps
  <2>6. CASE UNCHANGED framingVars
    BY <2>6, NothingKeeps
  <2> QED
    BY <2>1, <2>2, <2>3, <2>4, <2>5, <2>6 DEF FramingNext
<1> QED
  BY <1>1, <1>2

\* At any time the invariant holds: what is in the two buffers and between
\* them is the stream of the items that were sent.
THEOREM FramingInvariance == FramingSpec => []FInv
<1>1. FramingInit => FInv
  BY NothingSent DEF FInv
<1>2. FInv /\ [FramingNext]_framingVars => FInv'
  BY FramingInductive
<1> QED
  BY <1>1, <1>2, PTL DEF FramingSpec

\* However the writer flushes, the connection breaks and the reads cut the
\* stream, what a server sends to its client comes out as it was sent
\* (bufio.Writer and Reader, WriteTo, ReadTCP, ReadWebsocket, readFrame).
THEOREM PacketsIntact == FramingSpec => [](Plain(script) => FramesIntact)
<1>1. FInv => (Plain(script) => FramesIntact)
  BY AllIntact
<1> QED
  BY <1>1, FramingInvariance, PTL
=============================================================================
