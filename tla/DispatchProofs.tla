--------------------------- MODULE DispatchProofs ---------------------------
(***************************************************************************)
(* Proofs about Dispatch for any number of routers, attempts and devices,  *)
(* and for any faults.                                                     *)
(***************************************************************************)
EXTENDS Dispatch, Limits, TLAPS

\* Whoever is between acquiring and releasing the lock still has it, or lost
\* it to its TTL.
Holds == \A t \in Attempts : InSection(t) => lock = t \/ t \in lapsed

\* What is recorded as delivered follows a push that was accepted.
Recorded ==
    /\ DeliveredIsReal
    /\ CacheSound
    /\ sent # {} => reached # {}
    /\ acking # {} => status \in Done
    /\ \A t \in Attempts : pc[t] = "mark" => t \in sent

\* The program points behind the duplicate check, up to the record of the
\* delivery: an attempt gets there only while nobody else has sent.
Checked == {"existing", "allocate", "track", "index", "limit", "online", "push", "mark"}

Clean == seen \cap {"redis", "crash", "lapse"} = {}

Sole ==
    /\ lapsed # {} => "lapse" \in seen
    /\ Clean => /\ \A t \in sent : status \in Done \/ pc[t] \in Pushing
                /\ \A u \in Attempts : pc[u] \in Checked => sent \subseteq {u}
                /\ \A t, u \in sent : t = u

\* Somebody the caller of a refused attempt can rely on: an attempt that is
\* still at work, or that has returned an answer of its own.
Vouches(u) == InSection(u) \/ (pc[u] = "done" /\ result[u] \notin {"none", "in_progress"})

\* As long as Redis answers, what a caller was told is backed: "direct" by a
\* device that has the message, "queued" by a record in Kafka, "in_progress"
\* by another attempt that answers, as is a lock that is held.
Told == "redis" \notin seen =>
    /\ \A t \in Attempts : result[t] = "direct" => reached # {}
    /\ \A t \in Attempts : result[t] = "queued" => kafka # {}
    /\ \A t \in Attempts : pc[t] = "done" => result[t] # "none"
    /\ \A t \in Attempts : pc[t] = "unlock" => result[t] \notin {"none", "in_progress"}
    /\ \A t \in Attempts : result[t] = "in_progress" => \E u \in Attempts : Vouches(u)
    /\ lock # NoOne => Vouches(lock)

IInv == TypeOK /\ Holds /\ Recorded /\ Sole /\ Told

-----------------------------------------------------------------------------

\* Every variable keeps its type.
LEMMA TypeStep == TypeOK /\ [Next]_vars => TypeOK'
<1> USE DispatchAssumption DEF DispatchAssumption, store, local, trace, NoFault
<1> SUFFICES ASSUME TypeOK, [Next]_vars PROVE TypeOK'
  OBVIOUS
<1> DEFINE Points == {"idle", "done"} \cup Section
           Results == {"none", "in_progress", "direct", "queued", "error"}
           Events == {"server_received", "pushed", "acked"}
<1>g. \A t \in Attempts, l \in Points : Goto(t, l) => pc' \in [Attempts -> Points]
  BY DEF TypeOK, Goto
<1>r. \A t \in Attempts, x \in Results : Return(t, x) \/ ReturnLocked(t, x) =>
         pc' \in [Attempts -> Points] /\ result' \in [Attempts -> Results]
  BY <1>g DEF TypeOK, Return, ReturnLocked, Section
<1>f. \A k : Fault(k) => faults' \in Nat /\ seen' \subseteq Kinds
  BY DEF TypeOK, Fault
<1>n. UNCHANGED <<faults, seen>> => faults' \in Nat /\ seen' \subseteq Kinds
  BY DEF TypeOK
<1>e. EnsureIndex => indexed' \in BOOLEAN
  BY DEF TypeOK, EnsureIndex
<1>p. \A e \in Events : Publish(e) => events' \subseteq Events
  BY DEF TypeOK, Publish
<1>s. /\ {"idle", "done", "duplicate", "existing", "allocate", "track", "index", "limit",
           "online", "push", "mark", "queue", "produce", "unlock"} \subseteq Points
      /\ Done \subseteq {"none", "pending"} \cup Done
      /\ "delivered" \in Done /\ "acked" \in Done
  BY DEF Section, Done
<1>1. ASSUME NEW t \in Attempts, Begin(t) PROVE TypeOK'
  BY <1>1, <1>g, <1>r, <1>f, <1>n, <1>s DEF Begin, TypeOK
<1>2. ASSUME NEW t \in Attempts, IsDuplicate(t) PROVE TypeOK'
  BY <1>2, <1>g, <1>r, <1>f, <1>n, <1>e, <1>s DEF IsDuplicate, TypeOK, AlreadyTracked, Read
<1>3. ASSUME NEW t \in Attempts, AllowExisting(t) PROVE TypeOK'
  BY <1>3, <1>g, <1>r, <1>f, <1>n, <1>e, <1>s DEF AllowExisting, TypeOK, AlreadyTracked, Read, HandleTracked
<1>4. ASSUME NEW t \in Attempts, AllocateSeq(t) PROVE TypeOK'
  BY <1>4, <1>g, <1>r, <1>f, <1>n, <1>s DEF AllocateSeq, TypeOK, AlreadyTracked
<1>5. ASSUME NEW t \in Attempts, TrackAtomic(t) PROVE TypeOK'
  BY <1>5, <1>g, <1>r, <1>f, <1>n, <1>e, <1>s DEF TrackAtomic, TypeOK, AlreadyTracked, HandleTracked
<1>6. ASSUME NEW t \in Attempts, AddUserMessage(t) PROVE TypeOK'
  BY <1>6, <1>g, <1>r, <1>f, <1>n, <1>s DEF AddUserMessage, TypeOK, AlreadyTracked
<1>7. ASSUME NEW t \in Attempts, Limit(t) PROVE TypeOK'
  BY <1>7, <1>g, <1>r, <1>n, <1>p, <1>s DEF Limit, TypeOK
<1>8. ASSUME NEW t \in Attempts, IsOnline(t) PROVE TypeOK'
  BY <1>8, <1>g, <1>n, <1>s DEF IsOnline, TypeOK
<1>9. ASSUME NEW t \in Attempts, DirectPush(t) PROVE TypeOK'
  BY <1>9, <1>f, <1>n DEF DirectPush, TypeOK
<1>10. ASSUME NEW t \in Attempts, Pushed(t) PROVE TypeOK'
  BY <1>10, <1>g, <1>n, <1>s DEF Pushed, TypeOK
<1>11. ASSUME NEW t \in Attempts, MarkDelivered(t) PROVE TypeOK'
  BY <1>11, <1>g, <1>r, <1>f, <1>n, <1>p, <1>s DEF MarkDelivered, TypeOK
<1>12. ASSUME NEW t \in Attempts, AddOffline(t) PROVE TypeOK'
  BY <1>12, <1>g, <1>f, <1>n, <1>s DEF AddOffline, TypeOK
<1>13. ASSUME NEW t \in Attempts, Produce(t) PROVE TypeOK'
  BY <1>13, <1>r, <1>f, <1>n, <1>s DEF Produce, TypeOK, Spool
<1>14. ASSUME NEW t \in Attempts, Unlock(t) PROVE TypeOK'
  BY <1>14, <1>g, <1>f, <1>n, <1>s DEF Unlock, TypeOK
<1>15. ASSUME NEW r \in Routers, AckStatus(r) PROVE TypeOK'
  BY <1>15, <1>f, <1>n, <1>s DEF AckStatus, TypeOK
<1>16. ASSUME NEW r \in Routers, AckCleanup(r) PROVE TypeOK'
  BY <1>16, <1>p DEF AckCleanup, TypeOK
<1>17. ASSUME NEW r \in Routers, ReplayRecord(r) PROVE TypeOK'
  BY <1>17 DEF ReplayRecord, TypeOK
<1>24. ASSUME NEW r \in Routers, MoveToExpired(r) PROVE TypeOK'
  BY <1>24 DEF MoveToExpired, TypeOK
<1>18. ASSUME NEW r \in Routers, Forget(r) PROVE TypeOK'
  BY <1>18 DEF Forget, TypeOK
<1>19. ASSUME NEW r \in Routers, Crash(r) PROVE TypeOK'
  BY <1>19, <1>f, <1>s DEF Crash, TypeOK
<1>20. ASSUME NEW d \in Devices, WorkerPush(d) PROVE TypeOK'
  BY <1>20 DEF WorkerPush, TypeOK
<1>21. ASSUME NEW d \in Devices, Sync(d) PROVE TypeOK'
  BY <1>21 DEF Sync, TypeOK
<1>22. CASE ExpireLock
  BY <1>22, <1>f, <1>n DEF ExpireLock, TypeOK
<1>23. CASE UNCHANGED vars
  BY <1>23 DEF vars, TypeOK
<1> QED
  BY <1>1, <1>2, <1>3, <1>4, <1>5, <1>6, <1>7, <1>8, <1>9, <1>10, <1>11,
     <1>12, <1>13, <1>14, <1>15, <1>16, <1>17, <1>18, <1>19, <1>20, <1>21,
     <1>22, <1>23, <1>24 DEF Next, Step, RouterStep

\* Acquiring, releasing and losing the lock keep track of who has it.
LEMMA HoldsStep == TypeOK /\ Holds /\ [Next]_vars => Holds'
<1> USE DispatchAssumption DEF DispatchAssumption, store, local, trace, NoFault
<1> SUFFICES ASSUME TypeOK, Holds, [Next]_vars PROVE Holds'
  OBVIOUS
<1>0. ASSUME UNCHANGED <<lock, lapsed>>, \A u \in Attempts : InSection(u)' => InSection(u)
      PROVE  Holds'
  BY <1>0 DEF Holds
<1>g. \A t \in Attempts, l \in Section \cup {"done"} : Goto(t, l) /\ InSection(t) =>
         \A u \in Attempts : InSection(u)' => InSection(u)
  BY DEF TypeOK, Goto, InSection, Section
<1>r. \A t \in Attempts : \A x : Return(t, x) /\ InSection(t) =>
         \A u \in Attempts : InSection(u)' => InSection(u)
  BY <1>g DEF Return, Section
<1>l. \A t \in Attempts : \A x : ReturnLocked(t, x) =>
         \A u \in Attempts : InSection(u)' => InSection(u)
  BY DEF ReturnLocked, Goto, TypeOK, InSection, Section
<1>s. {"duplicate", "existing", "allocate", "track", "index", "limit", "online",
       "push", "mark", "queue", "produce", "unlock"} \subseteq Section
  BY DEF Section
<1>u. UNCHANGED pc => \A u \in Attempts : InSection(u)' => InSection(u)
  BY DEF InSection
<1>1. ASSUME NEW t \in Attempts, Begin(t) PROVE Holds'
  <2>1. CASE lock = NoOne /\ lock' = t
    <3>1. \A u \in Attempts : u # t => (InSection(u)' <=> InSection(u))
      BY <1>1 DEF Begin, Goto, ReturnLocked, TypeOK, InSection
    <3>2. \A u \in Attempts : InSection(u) => u \in lapsed
      BY <2>1 DEF Holds, NoOne
    <3>3. lapsed' = lapsed
      BY <1>1 DEF Begin
    <3> QED
      BY <2>1, <3>1, <3>2, <3>3 DEF Holds
  <2>2. CASE ~ (lock = NoOne /\ lock' = t)
    <3>1. PICK x : ReturnLocked(t, x)
      BY <1>1, <2>2 DEF Begin
    <3>2. lock' = lock /\ lapsed' = lapsed
      BY <1>1, <2>2 DEF Begin
    <3> QED
      BY <1>0, <1>l, <3>1, <3>2
  <2> QED
    BY <2>1, <2>2
<1>2. ASSUME NEW t \in Attempts, IsDuplicate(t) PROVE Holds'
  BY <1>2, <1>0, <1>g, <1>r, <1>l, <1>s DEF IsDuplicate, InSection, AlreadyTracked
<1>3. ASSUME NEW t \in Attempts, AllowExisting(t) PROVE Holds'
  BY <1>3, <1>0, <1>g, <1>r, <1>l, <1>s DEF AllowExisting, InSection, AlreadyTracked, HandleTracked
<1>4. ASSUME NEW t \in Attempts, AllocateSeq(t) PROVE Holds'
  BY <1>4, <1>0, <1>g, <1>r, <1>l, <1>s DEF AllocateSeq, InSection, AlreadyTracked
<1>5. ASSUME NEW t \in Attempts, TrackAtomic(t) PROVE Holds'
  BY <1>5, <1>0, <1>g, <1>r, <1>l, <1>s DEF TrackAtomic, InSection, AlreadyTracked, HandleTracked
<1>6. ASSUME NEW t \in Attempts, AddUserMessage(t) PROVE Holds'
  BY <1>6, <1>0, <1>g, <1>r, <1>l, <1>s DEF AddUserMessage, InSection, AlreadyTracked
<1>7. ASSUME NEW t \in Attempts, Limit(t) PROVE Holds'
  BY <1>7, <1>0, <1>g, <1>r, <1>l, <1>s DEF Limit, InSection
<1>8. ASSUME NEW t \in Attempts, IsOnline(t) PROVE Holds'
  BY <1>8, <1>0, <1>g, <1>r, <1>l, <1>s DEF IsOnline, InSection
<1>9. ASSUME NEW t \in Attempts, DirectPush(t) PROVE Holds'
  BY <1>9, <1>0, <1>u DEF DirectPush
<1>10. ASSUME NEW t \in Attempts, Pushed(t) PROVE Holds'
  BY <1>10, <1>0, <1>g, <1>r, <1>l, <1>s DEF Pushed, InSection
<1>11. ASSUME NEW t \in Attempts, MarkDelivered(t) PROVE Holds'
  BY <1>11, <1>0, <1>g, <1>r, <1>l, <1>s DEF MarkDelivered, InSection
<1>12. ASSUME NEW t \in Attempts, AddOffline(t) PROVE Holds'
  BY <1>12, <1>0, <1>g, <1>r, <1>l, <1>s DEF AddOffline, InSection
<1>13. ASSUME NEW t \in Attempts, Produce(t) PROVE Holds'
  BY <1>13, <1>0, <1>g, <1>r, <1>l, <1>s DEF Produce, InSection
<1>14. ASSUME NEW t \in Attempts, Unlock(t) PROVE Holds'
  <2>1. \A u \in Attempts : InSection(u)' => InSection(u) /\ u # t
    BY <1>14 DEF Unlock, Goto, TypeOK, InSection, Section
  <2>2. lock' = lock \/ lock = t
    BY <1>14 DEF Unlock
  <2> QED
    BY <1>14, <2>1, <2>2 DEF Unlock, Holds
<1>15. ASSUME NEW r \in Routers, AckStatus(r) PROVE Holds'
  BY <1>15, <1>0, <1>u DEF AckStatus
<1>16. ASSUME NEW r \in Routers, AckCleanup(r) PROVE Holds'
  BY <1>16, <1>0, <1>u DEF AckCleanup
<1>17. ASSUME NEW r \in Routers, ReplayRecord(r) PROVE Holds'
  BY <1>17, <1>0, <1>u DEF ReplayRecord
<1>24. ASSUME NEW r \in Routers, MoveToExpired(r) PROVE Holds'
  BY <1>24, <1>0, <1>u DEF MoveToExpired
<1>18. ASSUME NEW r \in Routers, Forget(r) PROVE Holds'
  BY <1>18, <1>0, <1>u DEF Forget
<1>19. ASSUME NEW r \in Routers, Crash(r) PROVE Holds'
  <2>1. \A u \in Attempts : InSection(u)' => InSection(u)
    BY <1>19 DEF Crash, TypeOK, InSection, Section
  <2> QED
    BY <1>19, <1>0, <2>1 DEF Crash
<1>20. ASSUME NEW d \in Devices, WorkerPush(d) PROVE Holds'
  BY <1>20, <1>0, <1>u DEF WorkerPush
<1>21. ASSUME NEW d \in Devices, Sync(d) PROVE Holds'
  BY <1>21, <1>0, <1>u DEF Sync
<1>22. CASE ExpireLock
  <2>1. \A u \in Attempts : InSection(u)' => InSection(u)
    BY <1>22 DEF ExpireLock, InSection
  <2>2. \A u \in Attempts : InSection(u) /\ lock = u => u \in lapsed'
    BY <1>22 DEF ExpireLock, InSection
  <2>3. lapsed \subseteq lapsed'
    BY <1>22 DEF ExpireLock
  <2> QED
    BY <2>1, <2>2, <2>3 DEF Holds
<1>23. CASE UNCHANGED vars
  BY <1>23, <1>0, <1>u DEF vars
<1> QED
  BY <1>1, <1>2, <1>3, <1>4, <1>5, <1>6, <1>7, <1>8, <1>9, <1>10, <1>11,
     <1>12, <1>13, <1>14, <1>15, <1>16, <1>17, <1>18, <1>19, <1>20, <1>21,
     <1>22, <1>23, <1>24 DEF Next, Step, RouterStep

\* Nothing is recorded as delivered before a device has the message.
LEMMA RecordedStep == TypeOK /\ Recorded /\ [Next]_vars => Recorded'
<1> USE DispatchAssumption DEF DispatchAssumption, store, local, trace, NoFault
<1> SUFFICES ASSUME TypeOK, Recorded, [Next]_vars PROVE Recorded'
  OBVIOUS
<1> DEFINE NoNewMark == \A u \in Attempts : pc'[u] = "mark" => pc[u] = "mark"
<1>0. ASSUME NoNewMark, UNCHANGED <<acking, sent>>, reached \subseteq reached',
             status \in Done => status' \in Done, status' \in Done => status \in Done,
             cache' \subseteq cache \/ status \in Done,
             events' \subseteq events \cup {"server_received"}
      PROVE  Recorded'
  BY <1>0 DEF Recorded, DeliveredIsReal, CacheSound
<1>g. \A t \in Attempts : \A l : Goto(t, l) /\ l # "mark" => NoNewMark
  BY DEF TypeOK, Goto
<1>r. \A t \in Attempts : \A x : Return(t, x) \/ ReturnLocked(t, x) => NoNewMark
  BY <1>g DEF Return, ReturnLocked
<1>u. UNCHANGED pc => NoNewMark
  OBVIOUS
<1>p. \A e : Publish(e) => events' \subseteq events \cup {e}
  BY DEF Publish
<1>d. status \in Done \/ status \in {"none", "pending"}
  BY DEF TypeOK
<1>e. "none" \notin Done /\ "pending" \notin Done /\ "acked" \in Done /\ "delivered" \in Done /\ "fail" \notin Done
  BY DEF Done

<1>1. ASSUME NEW t \in Attempts, Begin(t) PROVE Recorded'
  BY <1>1, <1>0, <1>g, <1>r, <1>p, <1>d, <1>e DEF Begin
<1>2. ASSUME NEW t \in Attempts, IsDuplicate(t) PROVE Recorded'
  BY <1>2, <1>0, <1>g, <1>r, <1>p, <1>d, <1>e DEF IsDuplicate, AlreadyTracked, Read
<1>3. ASSUME NEW t \in Attempts, AllowExisting(t) PROVE Recorded'
  BY <1>3, <1>0, <1>g, <1>r, <1>p, <1>d, <1>e DEF AllowExisting, AlreadyTracked, HandleTracked, Read
<1>4. ASSUME NEW t \in Attempts, AllocateSeq(t) PROVE Recorded'
  BY <1>4, <1>0, <1>g, <1>r, <1>p, <1>d, <1>e DEF AllocateSeq, AlreadyTracked
<1>5. ASSUME NEW t \in Attempts, TrackAtomic(t) PROVE Recorded'
  BY <1>5, <1>0, <1>g, <1>r, <1>p, <1>d, <1>e DEF TrackAtomic, AlreadyTracked, HandleTracked
<1>6. ASSUME NEW t \in Attempts, AddUserMessage(t) PROVE Recorded'
  BY <1>6, <1>0, <1>g, <1>r, <1>p, <1>d, <1>e DEF AddUserMessage, AlreadyTracked
<1>7. ASSUME NEW t \in Attempts, Limit(t) PROVE Recorded'
  BY <1>7, <1>0, <1>g, <1>r, <1>p, <1>d, <1>e DEF Limit
<1>8. ASSUME NEW t \in Attempts, IsOnline(t) PROVE Recorded'
  BY <1>8, <1>0, <1>g, <1>r, <1>p, <1>d, <1>e DEF IsOnline
<1>9. ASSUME NEW t \in Attempts, DirectPush(t) PROVE Recorded'
  BY <1>9, <1>u DEF DirectPush, Recorded, DeliveredIsReal, CacheSound
<1>10. ASSUME NEW t \in Attempts, Pushed(t) PROVE Recorded'
  <2>1. \A u \in Attempts : pc'[u] = "mark" => pc[u] = "mark" \/ u \in sent
    BY <1>10 DEF Pushed, Goto, TypeOK
  <2> QED
    BY <1>10, <2>1 DEF Pushed, Recorded, DeliveredIsReal, CacheSound
<1>11. ASSUME NEW t \in Attempts, MarkDelivered(t) PROVE Recorded'
  <2>1. reached # {}
    BY <1>11 DEF MarkDelivered, Recorded
  <2>2. NoNewMark
    BY <1>11, <1>g, <1>r DEF MarkDelivered
  <2>3. status' \in Done \/ (status' = status /\ cache' = cache)
    BY <1>11, <1>e DEF MarkDelivered
  <2> QED
    BY <1>11, <2>1, <2>2, <2>3 DEF MarkDelivered, Recorded, DeliveredIsReal, CacheSound
<1>12. ASSUME NEW t \in Attempts, AddOffline(t) PROVE Recorded'
  BY <1>12, <1>0, <1>g, <1>r, <1>p, <1>d, <1>e DEF AddOffline
<1>13. ASSUME NEW t \in Attempts, Produce(t) PROVE Recorded'
  BY <1>13, <1>0, <1>g, <1>r, <1>p, <1>d, <1>e DEF Produce
<1>14. ASSUME NEW t \in Attempts, Unlock(t) PROVE Recorded'
  BY <1>14, <1>0, <1>g, <1>r, <1>p, <1>d, <1>e DEF Unlock
<1>15. ASSUME NEW r \in Routers, AckStatus(r) PROVE Recorded'
  <2>1. status' \in Done \/ (status' = status /\ acking' = acking)
    BY <1>15, <1>e DEF AckStatus
  <2> QED
    BY <1>15, <1>u, <2>1 DEF AckStatus, Recorded, DeliveredIsReal, CacheSound
<1>16. ASSUME NEW r \in Routers, AckCleanup(r) PROVE Recorded'
  BY <1>16, <1>u DEF AckCleanup, Recorded, DeliveredIsReal, CacheSound
<1>17. ASSUME NEW r \in Routers, ReplayRecord(r) PROVE Recorded'
  BY <1>17, <1>0, <1>u DEF ReplayRecord
<1>24. ASSUME NEW r \in Routers, MoveToExpired(r) PROVE Recorded'
  BY <1>24, <1>0, <1>u DEF MoveToExpired
<1>18. ASSUME NEW r \in Routers, Forget(r) PROVE Recorded'
  BY <1>18, <1>0, <1>u DEF Forget
<1>19. ASSUME NEW r \in Routers, Crash(r) PROVE Recorded'
  <2>1. NoNewMark
    BY <1>19 DEF Crash, TypeOK
  <2> QED
    BY <1>19, <2>1 DEF Crash, Recorded, DeliveredIsReal, CacheSound
<1>20. ASSUME NEW d \in Devices, WorkerPush(d) PROVE Recorded'
  BY <1>20, <1>0, <1>u DEF WorkerPush
<1>21. ASSUME NEW d \in Devices, Sync(d) PROVE Recorded'
  BY <1>21, <1>0, <1>u DEF Sync
<1>22. CASE ExpireLock
  BY <1>22, <1>0, <1>u DEF ExpireLock
<1>23. CASE UNCHANGED vars
  BY <1>23, <1>0, <1>u DEF vars
<1> QED
  BY <1>1, <1>2, <1>3, <1>4, <1>5, <1>6, <1>7, <1>8, <1>9, <1>10, <1>11,
     <1>12, <1>13, <1>14, <1>15, <1>16, <1>17, <1>18, <1>19, <1>20, <1>21,
     <1>22, <1>23, <1>24 DEF Next, Step, RouterStep

\* Without Redis faults, crashes and lapses the lock and the status together
\* let one attempt send: a second one past the duplicate check would have seen
\* the first one's "delivered", or is excluded by its lock.
LEMMA SoleStep == TypeOK /\ Holds /\ Recorded /\ Sole /\ [Next]_vars => Sole'
<1> USE DispatchAssumption DEF DispatchAssumption, store, local, trace, NoFault
<1> SUFFICES ASSUME TypeOK, Holds, Recorded, Sole, [Next]_vars PROVE Sole'
  OBVIOUS
<1> DEFINE Bad == {"redis", "crash", "lapse"}
           Stays == /\ \A u \in Attempts : pc'[u] \in Checked => pc[u] \in Checked
                    /\ \A u \in sent : pc[u] \in Pushing => pc'[u] \in Pushing
<1>c. seen \subseteq seen' => (Clean' => Clean)
  BY DEF Clean
<1>f. \A k : Fault(k) => seen \subseteq seen' /\ (k \in Bad => ~ Clean')
  BY DEF Fault, Clean
<1>m. Clean => \A t, u \in Attempts : InSection(t) /\ InSection(u) => t = u
  BY DEF Clean, Sole, Holds
<1>0. ASSUME lapsed' = lapsed, seen \subseteq seen',
             Clean' => /\ UNCHANGED sent
                       /\ status \in Done => status' \in Done
                       /\ Stays
      PROVE  Sole'
  <2>1. lapsed' # {} => "lapse" \in seen'
    BY <1>0 DEF Sole
  <2>2. ASSUME Clean' PROVE /\ \A t \in sent' : status' \in Done \/ pc'[t] \in Pushing
                            /\ \A u \in Attempts : pc'[u] \in Checked => sent' \subseteq {u}
                            /\ \A t, u \in sent' : t = u
    BY <2>2, <1>0, <1>c DEF Sole
  <2> QED
    BY <2>1, <2>2 DEF Sole
<1>g. \A t \in Attempts : \A l : Goto(t, l) /\ pc[t] \notin Pushing /\ (l \in Checked => pc[t] \in Checked) => Stays
  BY DEF TypeOK, Goto, Pushing
<1>r. \A t \in Attempts : \A x : Return(t, x) /\ pc[t] \notin Pushing => Stays
  BY <1>g DEF Return, Checked
<1>l. \A t \in Attempts : \A x : ReturnLocked(t, x) /\ pc[t] \notin Pushing => Stays
  BY <1>g DEF ReturnLocked, Checked
<1>u. UNCHANGED pc => Stays
  OBVIOUS
<1>p. {"push", "mark"} \subseteq Checked /\ Pushing = {"push", "mark"} /\ Checked \subseteq Section
  BY DEF Checked, Pushing, Section
<1>d. status \in Done \/ status \in {"none", "pending"}
  BY DEF TypeOK
<1>e. "none" \notin Done /\ "pending" \notin Done /\ "acked" \in Done /\ "delivered" \in Done /\ "fail" \notin Done
  BY DEF Done
<1>s. Checked = {"existing", "allocate", "track", "index", "limit", "online", "push", "mark"}
  BY DEF Checked

<1>1. ASSUME NEW t \in Attempts, Begin(t) PROVE Sole'
  BY <1>1, <1>0, <1>g, <1>r, <1>l, <1>f, <1>p, <1>d, <1>e, <1>s DEF Begin
<1>2. ASSUME NEW t \in Attempts, IsDuplicate(t) PROVE Sole'
  <2>1. CASE pc'[t] # "existing"
    <3>1. PICK x : Return(t, x)
      BY <1>2, <2>1 DEF IsDuplicate, AlreadyTracked, Goto, TypeOK
    <3> QED
      BY <1>2, <1>0, <1>r, <1>f, <1>p, <3>1 DEF IsDuplicate, Read
  <2>2. CASE pc'[t] = "existing"
    <3>1. Goto(t, "existing")
      BY <1>2, <2>2 DEF IsDuplicate, AlreadyTracked, Return, Goto, TypeOK
    <3>2. status \notin Done \/ ~ Clean'
      BY <1>2, <1>f, <2>2, <1>e DEF IsDuplicate, AlreadyTracked, Return, Goto, TypeOK, Read
    <3>3. seen \subseteq seen'
      BY <1>2, <1>f DEF IsDuplicate, Read
    <3>4. Clean' => sent = {}
      <4> SUFFICES ASSUME Clean', NEW u \in sent PROVE FALSE
        OBVIOUS
      <4>1. pc[u] \in Pushing
        BY <3>2, <3>3, <1>c DEF Sole
      <4>2. InSection(u) /\ InSection(t) /\ u \in Attempts
        BY <4>1, <1>2, <1>p DEF IsDuplicate, InSection, TypeOK, Section
      <4> QED
        BY <4>1, <4>2, <1>2, <1>m, <3>3, <1>c, <1>p DEF IsDuplicate
    <3>5. sent' = sent /\ lapsed' = lapsed
      BY <1>2 DEF IsDuplicate
    <3> QED
      BY <3>3, <3>4, <3>5 DEF Sole
  <2> QED
    BY <2>1, <2>2
<1>3. ASSUME NEW t \in Attempts, AllowExisting(t) PROVE Sole'
  BY <1>3, <1>0, <1>g, <1>r, <1>l, <1>f, <1>p, <1>d, <1>e, <1>s DEF AllowExisting, AlreadyTracked, HandleTracked, Read
<1>4. ASSUME NEW t \in Attempts, AllocateSeq(t) PROVE Sole'
  BY <1>4, <1>0, <1>g, <1>r, <1>l, <1>f, <1>p, <1>d, <1>e, <1>s DEF AllocateSeq, AlreadyTracked
<1>5. ASSUME NEW t \in Attempts, TrackAtomic(t) PROVE Sole'
  BY <1>5, <1>0, <1>g, <1>r, <1>l, <1>f, <1>p, <1>d, <1>e, <1>s DEF TrackAtomic, AlreadyTracked, HandleTracked
<1>6. ASSUME NEW t \in Attempts, AddUserMessage(t) PROVE Sole'
  BY <1>6, <1>0, <1>g, <1>r, <1>l, <1>f, <1>p, <1>d, <1>e, <1>s DEF AddUserMessage, AlreadyTracked
<1>7. ASSUME NEW t \in Attempts, Limit(t) PROVE Sole'
  BY <1>7, <1>0, <1>g, <1>r, <1>l, <1>f, <1>p, <1>d, <1>e, <1>s DEF Limit
<1>8. ASSUME NEW t \in Attempts, IsOnline(t) PROVE Sole'
  BY <1>8, <1>0, <1>g, <1>r, <1>l, <1>f, <1>p, <1>d, <1>e, <1>s DEF IsOnline
<1>9. ASSUME NEW t \in Attempts, DirectPush(t) PROVE Sole'
  <2>1. /\ lapsed' = lapsed /\ pc' = pc /\ status' = status /\ pc[t] = "push"
        /\ sent' \subseteq sent \cup {t}
    BY <1>9 DEF DirectPush
  <2>2. seen \subseteq seen'
    BY <1>9, <1>f DEF DirectPush
  <2>3. Clean' => sent \subseteq {t}
    BY <2>1, <2>2, <1>c, <1>s DEF Sole
  <2>4. Clean' => \A u \in Attempts : pc[u] \in Checked => u = t
    BY <2>1, <2>2, <1>c, <1>m, <1>p DEF InSection
  <2> QED
    BY <2>1, <2>2, <2>3, <2>4, <1>c, <1>p DEF Sole
<1>10. ASSUME NEW t \in Attempts, Pushed(t) PROVE Sole'
  <2>1. Stays
    BY <1>10, <1>p DEF Pushed, Goto, TypeOK
  <2> QED
    BY <1>10, <1>0, <2>1 DEF Pushed
<1>11. ASSUME NEW t \in Attempts, MarkDelivered(t) PROVE Sole'
  <2>1. seen \subseteq seen' /\ lapsed' = lapsed /\ sent' = sent
    BY <1>11, <1>f DEF MarkDelivered
  <2>2. Clean' => status' \in Done
    BY <1>11, <1>f, <1>e DEF MarkDelivered
  <2>3. \A u \in Attempts : pc'[u] \in Checked => pc[u] \in Checked
    BY <1>11, <1>s DEF MarkDelivered, Return, Goto, TypeOK
  <2> QED
    BY <2>1, <2>2, <2>3, <1>c DEF Sole
<1>12. ASSUME NEW t \in Attempts, AddOffline(t) PROVE Sole'
  BY <1>12, <1>0, <1>g, <1>r, <1>l, <1>f, <1>p, <1>d, <1>e, <1>s DEF AddOffline
<1>13. ASSUME NEW t \in Attempts, Produce(t) PROVE Sole'
  BY <1>13, <1>0, <1>g, <1>r, <1>l, <1>f, <1>p, <1>d, <1>e, <1>s DEF Produce
<1>14. ASSUME NEW t \in Attempts, Unlock(t) PROVE Sole'
  BY <1>14, <1>0, <1>g, <1>r, <1>l, <1>f, <1>p, <1>d, <1>e, <1>s DEF Unlock
<1>15. ASSUME NEW r \in Routers, AckStatus(r) PROVE Sole'
  BY <1>15, <1>0, <1>u, <1>f, <1>e DEF AckStatus
<1>16. ASSUME NEW r \in Routers, AckCleanup(r) PROVE Sole'
  BY <1>16, <1>0, <1>u DEF AckCleanup
<1>17. ASSUME NEW r \in Routers, ReplayRecord(r) PROVE Sole'
  BY <1>17, <1>0, <1>u DEF ReplayRecord
<1>24. ASSUME NEW r \in Routers, MoveToExpired(r) PROVE Sole'
  BY <1>24, <1>0, <1>u DEF MoveToExpired
<1>18. ASSUME NEW r \in Routers, Forget(r) PROVE Sole'
  BY <1>18, <1>0, <1>u DEF Forget
<1>19. ASSUME NEW r \in Routers, Crash(r) PROVE Sole'
  BY <1>19, <1>f, <1>0 DEF Crash
<1>20. ASSUME NEW d \in Devices, WorkerPush(d) PROVE Sole'
  BY <1>20, <1>0, <1>u DEF WorkerPush
<1>21. ASSUME NEW d \in Devices, Sync(d) PROVE Sole'
  BY <1>21, <1>0, <1>u DEF Sync
<1>22. CASE ExpireLock
  <2>1. CASE lapsed' = lapsed
    BY <1>22, <2>1, <1>0, <1>u, <1>f DEF ExpireLock
  <2>2. CASE lapsed' # lapsed
    <3>1. Fault("lapse")
      BY <1>22, <2>2 DEF ExpireLock
    <3> QED
      BY <3>1, <1>f DEF Fault, Sole
  <2> QED
    BY <2>1, <2>2
<1>23. CASE UNCHANGED vars
  BY <1>23, <1>0, <1>u DEF vars
<1> QED
  BY <1>1, <1>2, <1>3, <1>4, <1>5, <1>6, <1>7, <1>8, <1>9, <1>10, <1>11,
     <1>12, <1>13, <1>14, <1>15, <1>16, <1>17, <1>18, <1>19, <1>20, <1>21,
     <1>22, <1>23, <1>24 DEF Next, Step, RouterStep

\* What a step of an attempt does to its answer: it goes on, or it returns
\* an answer that is backed.
GoesOn(t) ==
    /\ pc[t] \in Section /\ pc'[t] \in Section \ {"unlock"}
    /\ UNCHANGED result
Returns(t) ==
    /\ pc[t] \in Section /\ pc'[t] \in {"unlock", "done"}
    /\ result'[t] \in {"direct", "queued", "error"}
    /\ result'[t] = "direct" => reached' # {}
    /\ result'[t] = "queued" => kafka' # {}
    /\ \A u \in Attempts \ {t} : result'[u] = result[u]

\* Nobody is told of a success that is not backed.
LEMMA ToldStep == TypeOK /\ Recorded /\ Told /\ [Next]_vars => Told'
<1> USE DispatchAssumption DEF DispatchAssumption, store, local, trace, NoFault
<1> SUFFICES ASSUME TypeOK, Recorded, Told, [Next]_vars PROVE Told'
  OBVIOUS
<1> DEFINE Grows == seen \subseteq seen' /\ reached \subseteq reached' /\ kafka \subseteq kafka'
           Others(t) == \A u \in Attempts \ {t} : pc'[u] = pc[u]
<1>f. \A k : Fault(k) => seen \subseteq seen' /\ (k = "redis" => "redis" \in seen')
  BY DEF Fault
<1>s. Section = {"duplicate", "existing", "allocate", "track", "index", "limit", "online",
                 "push", "mark", "queue", "produce", "unlock"}
  BY DEF Section
<1>d. /\ status \in Done \/ cache # {} => reached # {}
      /\ \A t \in Attempts : pc[t] = "mark" => reached # {}
      /\ {"none", "pending", "fail"} \cap Done = {}
  BY DEF Recorded, DeliveredIsReal, Done
<1>g. \A t \in Attempts : \A l : Goto(t, l) => pc'[t] = l /\ Others(t)
  BY DEF Goto, TypeOK
<1>r. \A t \in Attempts : \A x : Return(t, x) =>
         /\ pc'[t] = "unlock" /\ Others(t) /\ result'[t] = x
         /\ \A u \in Attempts \ {t} : result'[u] = result[u]
  BY <1>g DEF Return, TypeOK
<1>l. \A t \in Attempts : \A x : ReturnLocked(t, x) =>
         /\ pc'[t] = "done" /\ Others(t) /\ result'[t] = x
         /\ \A u \in Attempts \ {t} : result'[u] = result[u]
  BY <1>g DEF ReturnLocked, TypeOK
<1>0. ASSUME NEW t \in Attempts, Grows, UNCHANGED lock, Others(t),
             "redis" \notin seen' => GoesOn(t) \/ Returns(t)
      PROVE  Told'
  <2> SUFFICES ASSUME "redis" \notin seen' PROVE Told'
    BY DEF Told
  <2>1. "redis" \notin seen
    BY <1>0
  <2>2. \A u \in Attempts : Vouches(u) => Vouches(u)'
    BY <1>0, <2>1, <1>s DEF Vouches, InSection, GoesOn, Returns, Told
  <2>3. CASE GoesOn(t)
    BY <1>0, <2>1, <2>2, <2>3, <1>s DEF GoesOn, Told, TypeOK
  <2>4. CASE Returns(t)
    BY <1>0, <2>1, <2>2, <2>4, <1>s DEF Returns, Told, TypeOK
  <2> QED
    BY <1>0, <2>3, <2>4
<1>1. ASSUME NEW t \in Attempts, Begin(t) PROVE Told'
  <2> SUFFICES ASSUME "redis" \notin seen' PROVE Told'
    BY DEF Told
  <2>1. UNCHANGED <<seen, reached, kafka>> /\ pc[t] = "idle" /\ "redis" \notin seen
    BY <1>1, <1>f DEF Begin
  <2>2. CASE lock = NoOne
    <3>1. lock' = t /\ pc'[t] = "duplicate" /\ Others(t) /\ UNCHANGED result
      BY <1>1, <1>f, <1>g, <2>2 DEF Begin
    <3>2. \A u \in Attempts : Vouches(u) => Vouches(u)'
      BY <2>1, <3>1, <1>s DEF Vouches, InSection
    <3>3. Vouches(t)'
      BY <3>1, <1>s DEF Vouches, InSection
    <3> QED
      BY <2>1, <3>1, <3>2, <3>3 DEF Told
  <2>3. CASE lock # NoOne
    <3>1. /\ UNCHANGED lock /\ pc'[t] = "done" /\ Others(t) /\ result'[t] = "in_progress"
          /\ \A u \in Attempts \ {t} : result'[u] = result[u]
      BY <1>1, <1>f, <1>l, <2>3 DEF Begin
    <3>2. \A u \in Attempts : Vouches(u) => Vouches(u)'
      BY <2>1, <3>1, <1>s DEF Vouches, InSection
    <3>3. lock \in Attempts /\ Vouches(lock)'
      BY <2>1, <2>3, <3>1, <3>2 DEF Told, TypeOK
    <3> QED
      BY <2>1, <3>1, <3>2, <3>3 DEF Told
  <2> QED
    BY <2>2, <2>3
<1>2. ASSUME NEW t \in Attempts, IsDuplicate(t) PROVE Told'
  BY <1>2, <1>0, <1>f, <1>g, <1>r, <1>s, <1>d DEF IsDuplicate, AlreadyTracked, Read, GoesOn, Returns
<1>3. ASSUME NEW t \in Attempts, AllowExisting(t) PROVE Told'
  BY <1>3, <1>0, <1>f, <1>g, <1>r, <1>s, <1>d
     DEF AllowExisting, AlreadyTracked, HandleTracked, Read, GoesOn, Returns
<1>4. ASSUME NEW t \in Attempts, AllocateSeq(t) PROVE Told'
  BY <1>4, <1>0, <1>f, <1>g, <1>r, <1>s DEF AllocateSeq, AlreadyTracked, GoesOn
<1>5. ASSUME NEW t \in Attempts, TrackAtomic(t) PROVE Told'
  BY <1>5, <1>0, <1>f, <1>g, <1>r, <1>s, <1>d DEF TrackAtomic, AlreadyTracked, HandleTracked, GoesOn, Returns
<1>6. ASSUME NEW t \in Attempts, AddUserMessage(t) PROVE Told'
  BY <1>6, <1>0, <1>f, <1>g, <1>r, <1>s DEF AddUserMessage, AlreadyTracked, GoesOn
<1>7. ASSUME NEW t \in Attempts, Limit(t) PROVE Told'
  BY <1>7, <1>0, <1>g, <1>r, <1>s DEF Limit, GoesOn, Returns
<1>8. ASSUME NEW t \in Attempts, IsOnline(t) PROVE Told'
  BY <1>8, <1>0, <1>g, <1>s DEF IsOnline, GoesOn
<1>9. ASSUME NEW t \in Attempts, DirectPush(t) PROVE Told'
  BY <1>9, <1>0, <1>f, <1>s DEF DirectPush, GoesOn
<1>10. ASSUME NEW t \in Attempts, Pushed(t) PROVE Told'
  BY <1>10, <1>0, <1>g, <1>s DEF Pushed, GoesOn
<1>11. ASSUME NEW t \in Attempts, MarkDelivered(t) PROVE Told'
  BY <1>11, <1>0, <1>f, <1>g, <1>r, <1>s, <1>d DEF MarkDelivered, GoesOn, Returns
<1>12. ASSUME NEW t \in Attempts, AddOffline(t) PROVE Told'
  <2>1. pc[t] = "queue" /\ pc'[t] = "produce" /\ Others(t) /\ UNCHANGED <<reached, kafka, lock, result>>
    BY <1>12, <1>g DEF AddOffline
  <2>2. seen \subseteq seen'
    BY <1>12, <1>f DEF AddOffline
  <2> QED
    BY <1>0, <2>1, <2>2, <1>s DEF GoesOn
<1>13. ASSUME NEW t \in Attempts, Produce(t) PROVE Told'
  BY <1>13, <1>0, <1>f, <1>r, <1>l, <1>s DEF Produce, Returns
<1>14. ASSUME NEW t \in Attempts, Unlock(t) PROVE Told'
  <2> SUFFICES ASSUME "redis" \notin seen' PROVE Told'
    BY DEF Told
  <2>1. /\ UNCHANGED <<seen, reached, kafka, result>> /\ pc[t] = "unlock" /\ "redis" \notin seen
        /\ pc'[t] = "done" /\ Others(t) /\ lock' \in {lock, NoOne}
    BY <1>14, <1>f, <1>g DEF Unlock
  <2>2. \A u \in Attempts : Vouches(u) => Vouches(u)'
    BY <2>1, <1>s DEF Vouches, InSection, Told
  <2> QED
    BY <2>1, <2>2 DEF Told, TypeOK
<1>u. ASSUME UNCHANGED <<pc, result>>, Grows, lock' \in {lock, NoOne} PROVE Told'
  BY <1>u DEF Told, Vouches, InSection
<1>15. ASSUME NEW r \in Routers, AckStatus(r) PROVE Told'
  BY <1>15, <1>f, <1>u DEF AckStatus
<1>16. ASSUME NEW r \in Routers, AckCleanup(r) PROVE Told'
  BY <1>16, <1>u DEF AckCleanup
<1>17. ASSUME NEW r \in Routers, ReplayRecord(r) PROVE Told'
  BY <1>17, <1>u DEF ReplayRecord
<1>24. ASSUME NEW r \in Routers, MoveToExpired(r) PROVE Told'
  BY <1>24, <1>u DEF MoveToExpired
<1>18. ASSUME NEW r \in Routers, Forget(r) PROVE Told'
  BY <1>18, <1>u DEF Forget
<1>19. ASSUME NEW r \in Routers, Crash(r) PROVE Told'
  <2> SUFFICES ASSUME "redis" \notin seen' PROVE Told'
    BY DEF Told
  <2>1. "redis" \notin seen /\ UNCHANGED <<reached, kafka, lock>>
    BY <1>19, <1>f DEF Crash
  <2>2. \A u \in Attempts : \/ pc'[u] = pc[u] /\ result'[u] = result[u]
                            \/ pc[u] \in Section /\ pc'[u] = "done" /\ result'[u] = "error"
    BY <1>19 DEF Crash
  <2>3. \A u \in Attempts : Vouches(u) => Vouches(u)'
    BY <2>2, <1>s DEF Vouches, InSection
  <2> QED
    BY <2>1, <2>2, <2>3 DEF Told, TypeOK
<1>20. ASSUME NEW d \in Devices, WorkerPush(d) PROVE Told'
  BY <1>20, <1>u DEF WorkerPush
<1>21. ASSUME NEW d \in Devices, Sync(d) PROVE Told'
  BY <1>21, <1>u DEF Sync
<1>22. CASE ExpireLock
  BY <1>22, <1>f, <1>u DEF ExpireLock
<1>23. CASE UNCHANGED vars
  BY <1>23, <1>u DEF vars
<1> QED
  BY <1>1, <1>2, <1>3, <1>4, <1>5, <1>6, <1>7, <1>8, <1>9, <1>10, <1>11,
     <1>12, <1>13, <1>14, <1>15, <1>16, <1>17, <1>18, <1>19, <1>20, <1>21,
     <1>22, <1>23, <1>24 DEF Next, Step, RouterStep

-----------------------------------------------------------------------------

\* The invariant holds before the first attempt.
LEMMA Initially == Init => IInv
<1> SUFFICES ASSUME Init PROVE IInv
  OBVIOUS
<1> USE DispatchAssumption DEF DispatchAssumption, Init
<1>1. TypeOK
  BY DEF TypeOK
<1>2. Holds
  BY DEF Holds, InSection, Section
<1>3. Recorded
  BY DEF Recorded, DeliveredIsReal, CacheSound, Done
<1>4. Sole
  BY DEF Sole, Checked
<1>5. Told
  BY DEF Told
<1> QED
  BY <1>1, <1>2, <1>3, <1>4, <1>5 DEF IInv

\* Every step preserves it: each part needs only the parts named in its lemma.
LEMMA Inductive == IInv /\ [Next]_vars => IInv'
  BY TypeStep, HoldsStep, RecordedStep, SoleStep, ToldStep DEF IInv

\* The inductive invariant holds in every behaviour of the specification.
THEOREM Invariance == Spec => []IInv
  BY Initially, Inductive, PTL DEF Spec

\* Every variable keeps its type, for any routers, attempts and devices.
THEOREM Typed == Spec => []TypeOK
<1>1. IInv => TypeOK
  BY DEF IInv
<1> QED
  BY Invariance, <1>1, PTL

\* BeginDeliveryAttempt and the compare-and-delete release exclude: two
\* attempts are at work only if the lock of one of them lapsed.
THEOREM Exclusive == Spec => []OneAttempt
<1>1. IInv => OneAttempt
  BY DEF IInv, Holds, OneAttempt
<1> QED
  BY Invariance, <1>1, PTL

\* However many attempts there are, one at most has the message accepted by a
\* comet, unless Redis fails, a router dies or a lock lapses.
THEOREM NoDoublePush == Spec => []SingleSender
<1>1. IInv => SingleSender
  BY DEF IInv, Sole, Clean, SingleSender
<1> QED
  BY Invariance, <1>1, PTL

\* Whatever fails, delivered and acked (status, cache or event) mean that some
\* device has the message.
THEOREM NoFalseDelivery == Spec => []DeliveredIsReal
<1>1. IInv => DeliveredIsReal
  BY DEF IInv, Recorded
<1> QED
  BY Invariance, <1>1, PTL

\* Whatever fails, a cached message is finished in Redis.
THEOREM CacheBehindRedis == Spec => []CacheSound
<1>1. IInv => CacheSound
  BY DEF IInv, Recorded
<1> QED
  BY Invariance, <1>1, PTL

\* As long as Redis answers, a message is lost only if some caller was told
\* so: Kafka may fail, pushes may time out, routers may die, locks may lapse.
THEOREM NoSilentLoss == Spec => []NothingLost
<1>1. IInv => NothingLost
  <2> SUFFICES ASSUME IInv, "redis" \notin seen, Finished, Attempted, AllSucceeded
               PROVE  reached # {} \/ kafka # {}
    BY DEF NothingLost, SuccessIsDelivery
  <2>1. TypeOK /\ Told
    BY DEF IInv
  <2>2. ASSUME NEW u \in Attempts, Vouches(u) PROVE reached # {} \/ kafka # {}
    BY <2>1, <2>2 DEF Vouches, Finished, AllSucceeded, Told, TypeOK
  <2>3. PICK t \in Attempts : pc[t] = "done"
    BY DEF Attempted
  <2>4. result[t] \in {"in_progress", "direct", "queued"}
    BY <2>1, <2>3 DEF AllSucceeded, Told, TypeOK
  <2> QED
    BY <2>1, <2>2, <2>4 DEF Told
<1> QED
  BY Invariance, <1>1, PTL

-----------------------------------------------------------------------------
(* The routers implement Delivery *)

\* An attempt has an answer when it has returned, never earlier; "queued" and
\* a refusal name something that is there, whatever fails.
Replies ==
    /\ \A t \in Attempts : pc[t] \notin {"unlock", "done"} => result[t] = "none"
    /\ \A t \in Attempts : pc[t] = "unlock" => result[t] \in {"direct", "queued", "error"}
    /\ \A t \in Attempts : result[t] = "queued" => kafka # {}
    /\ lock # NoOne => pc[lock] # "idle" /\ result[lock] # "in_progress"
    /\ \A r \in Routers : spool[r] # {} => callers # {}

\* What a step does to the answers: it keeps them, gives t one, or lets t begin.
Mute(t) == pc[t] \notin {"idle", "done"} /\ answers' = answers /\ callers' = callers
Tells(t, x) == pc[t] \notin {"idle", "done"} /\ answers' = [answers EXCEPT ![t] = x] /\ callers' = callers
Begins(t, A) == pc[t] = "idle" /\ answers' = A /\ callers' = callers \cup {t}

\* The answers after an attempt has moved.
LEMMA Moving ==
    ASSUME TypeOK, NEW t \in Attempts, NEW l, Goto(t, l),
           \A u \in Attempts \ {t} : result'[u] = result[u]
    PROVE  /\ pc[t] \notin {"idle", "done"} /\ l \notin {"idle", "done"} => Mute(t)
           /\ pc[t] \notin {"idle", "done"} /\ l = "done" => Tells(t, result'[t])
           /\ pc[t] = "idle" /\ l \notin {"idle", "done"} => Begins(t, answers)
           /\ pc[t] = "idle" /\ l = "done" => Begins(t, [answers EXCEPT ![t] = result'[t]])
<1>1. pc'[t] = l /\ \A u \in Attempts \ {t} : pc'[u] = pc[u]
  BY DEF Goto, TypeOK
<1>2. pc[t] # "idle" /\ l # "idle" => callers' = callers
  BY <1>1 DEF callers
<1>3. pc[t] = "idle" /\ l # "idle" => callers' = callers \cup {t}
  BY <1>1 DEF callers
<1>4. pc[t] # "done" /\ l # "done" => answers' = answers
  BY <1>1 DEF answers
<1>5. pc[t] # "done" /\ l = "done" => answers' = [answers EXCEPT ![t] = result'[t]]
  BY <1>1 DEF answers
<1> QED
  BY <1>2, <1>3, <1>4, <1>5 DEF Mute, Tells, Begins

\* Who is in the middle of its call has no answer.
LEMMA Unanswered ==
    ASSUME TypeOK, NEW t \in Attempts
    PROVE  /\ pc[t] \notin {"idle", "done"} => Promise!AtWork(t)
           /\ pc[t] = "idle" => t \notin callers
  BY DEF Promise!AtWork, answers, callers

\* What t was told when it goes on, or returns.
Replied(t) ==
    \/ pc'[t] \in Section \ {"unlock"} /\ result'[t] = result[t]
    \/ pc'[t] = "unlock" /\ result'[t] \in {"direct", "error"}
    \/ pc'[t] \in {"unlock", "done"} /\ result'[t] = "queued" /\ kafka' # {}

\* Replies is kept by every step.
LEMMA RepliesStep == TypeOK /\ Replies /\ [Next]_vars => Replies'
<1> USE DispatchAssumption DEF DispatchAssumption, store, local, trace, NoFault
<1> SUFFICES ASSUME TypeOK, Replies, [Next]_vars PROVE Replies'
  OBVIOUS
<1> DEFINE Others(t) == \A u \in Attempts \ {t} : pc'[u] = pc[u] /\ result'[u] = result[u]
<1>s. Section = {"duplicate", "existing", "allocate", "track", "index", "limit", "online",
                 "push", "mark", "queue", "produce", "unlock"}
  BY DEF Section
<1>g. \A t \in Attempts : \A l : Goto(t, l) /\ UNCHANGED result => pc'[t] = l /\ Others(t) /\ result'[t] = result[t]
  BY DEF Goto, TypeOK
<1>r. \A t \in Attempts : \A x : Return(t, x) => pc'[t] = "unlock" /\ Others(t) /\ result'[t] = x
  BY DEF Return, Goto, TypeOK
<1>l. \A t \in Attempts : \A x : ReturnLocked(t, x) => pc'[t] = "done" /\ Others(t) /\ result'[t] = x
  BY DEF ReturnLocked, Goto, TypeOK
<1>0. ASSUME NEW t \in Attempts, pc[t] \in Section \ {"unlock"}, Others(t), Replied(t),
             kafka \subseteq kafka', UNCHANGED lock
      PROVE  Replies'
  <2>1. \A u \in Attempts : pc'[u] = "idle" => pc[u] = "idle"
    BY <1>0, <1>s DEF Replied
  <2>2. t \in callers'
    BY <1>0, <1>s DEF callers, Replied
  <2>3. \A u \in Attempts : pc'[u] \notin {"unlock", "done"} => result'[u] = "none"
    BY <1>0, <1>s DEF Replies, Replied
  <2>4. \A u \in Attempts : pc'[u] = "unlock" => result'[u] \in {"direct", "queued", "error"}
    BY <1>0, <1>s DEF Replies, Replied
  <2>5. \A u \in Attempts : result'[u] = "queued" => kafka' # {}
    BY <1>0, <1>s DEF Replies, Replied
  <2>6. lock' # NoOne => pc'[lock'] # "idle" /\ result'[lock'] # "in_progress"
    BY <1>0, <1>s, <2>1 DEF Replies, Replied, TypeOK
  <2> QED
    BY <2>2, <2>3, <2>4, <2>5, <2>6 DEF Replies
<1>1. ASSUME NEW t \in Attempts, Begin(t) PROVE Replies'
  <2>1. pc[t] = "idle" /\ result[t] = "none" /\ UNCHANGED <<kafka, spool>>
    BY <1>1 DEF Begin, Replies
  <2>2. /\ Others(t) /\ pc'[t] \in {"duplicate", "done"}
        /\ pc'[t] = "duplicate" => result'[t] = "none"
        /\ result'[t] \in {"none", "in_progress", "error"}
        /\ lock # t /\ (lock' = lock \/ (lock' = t /\ result'[t] # "in_progress"))
    <3>0. lock # t
      BY <2>1 DEF Replies, NoOne
    <3>1. CASE lock = NoOne /\ lock' = t /\ Goto(t, "duplicate") /\ UNCHANGED result
      BY <3>0, <3>1, <2>1, <1>g
    <3>2. CASE lock # NoOne /\ ReturnLocked(t, "in_progress") /\ UNCHANGED lock
      BY <3>0, <3>2, <2>1, <1>l
    <3>3. CASE Fault("redis") /\ lock' \in (IF lock = NoOne THEN {NoOne, t} ELSE {lock}) /\ ReturnLocked(t, "error")
      BY <3>0, <3>3, <2>1, <1>l
    <3> QED
      BY <1>1, <3>1, <3>2, <3>3 DEF Begin
  <2>3. callers \subseteq callers'
    BY <2>2 DEF callers
  <2> QED
    BY <2>1, <2>2, <2>3 DEF Replies, TypeOK
<1>2. ASSUME NEW t \in Attempts, IsDuplicate(t) PROVE Replies'
  BY <1>2, <1>0, <1>g, <1>r, <1>s DEF IsDuplicate, AlreadyTracked, Replied
<1>3. ASSUME NEW t \in Attempts, AllowExisting(t) PROVE Replies'
  BY <1>3, <1>0, <1>g, <1>r, <1>s DEF AllowExisting, AlreadyTracked, HandleTracked, Replied
<1>4. ASSUME NEW t \in Attempts, AllocateSeq(t) PROVE Replies'
  BY <1>4, <1>0, <1>g, <1>r, <1>s DEF AllocateSeq, AlreadyTracked, Replied
<1>5. ASSUME NEW t \in Attempts, TrackAtomic(t) PROVE Replies'
  BY <1>5, <1>0, <1>g, <1>r, <1>s DEF TrackAtomic, AlreadyTracked, HandleTracked, Replied
<1>6. ASSUME NEW t \in Attempts, AddUserMessage(t) PROVE Replies'
  <2>1. /\ (Goto(t, "limit") /\ UNCHANGED result) \/ Return(t, "direct")
        /\ pc[t] = "index" /\ UNCHANGED <<kafka, lock>>
    BY <1>6 DEF AddUserMessage, AlreadyTracked
  <2>2. Others(t) /\ Replied(t)
    BY <2>1, <1>g, <1>r, <1>s DEF Replied
  <2> QED
    BY <2>1, <2>2, <1>0, <1>s
<1>7. ASSUME NEW t \in Attempts, Limit(t) PROVE Replies'
  BY <1>7, <1>0, <1>g, <1>r, <1>s DEF Limit, Replied
<1>8. ASSUME NEW t \in Attempts, IsOnline(t) PROVE Replies'
  BY <1>8, <1>0, <1>g, <1>s DEF IsOnline, Replied
<1>9. ASSUME NEW t \in Attempts, DirectPush(t) PROVE Replies'
  BY <1>9, <1>0, <1>s DEF DirectPush, Replied
<1>10. ASSUME NEW t \in Attempts, Pushed(t) PROVE Replies'
  BY <1>10, <1>0, <1>g, <1>s DEF Pushed, Replied
<1>11. ASSUME NEW t \in Attempts, MarkDelivered(t) PROVE Replies'
  BY <1>11, <1>0, <1>g, <1>r, <1>s DEF MarkDelivered, Replied
<1>12. ASSUME NEW t \in Attempts, AddOffline(t) PROVE Replies'
  BY <1>12, <1>0, <1>g, <1>s DEF AddOffline, Replied
<1>13. ASSUME NEW t \in Attempts, Produce(t) PROVE Replies'
  BY <1>13, <1>0, <1>r, <1>l, <1>s DEF Produce, Replied
<1>14. ASSUME NEW t \in Attempts, Unlock(t) PROVE Replies'
  <2>1. /\ pc[t] = "unlock" /\ pc'[t] = "done" /\ \A u \in Attempts \ {t} : pc'[u] = pc[u]
        /\ lock' \in {lock, NoOne} /\ UNCHANGED <<result, kafka, spool>>
    BY <1>14, <1>g DEF Unlock, Goto, TypeOK
  <2>2. callers' = callers
    BY <2>1 DEF callers
  <2> QED
    BY <2>1, <2>2 DEF Replies, TypeOK
<1>u. ASSUME UNCHANGED <<pc, result>>, kafka \subseteq kafka', lock' \in {lock, NoOne},
             \A r \in Routers : spool'[r] \subseteq spool[r]
      PROVE  Replies'
  BY <1>u DEF Replies, callers
<1>15. ASSUME NEW r \in Routers, AckStatus(r) PROVE Replies'
  BY <1>15, <1>u DEF AckStatus
<1>16. ASSUME NEW r \in Routers, AckCleanup(r) PROVE Replies'
  BY <1>16, <1>u DEF AckCleanup
<1>17. ASSUME NEW r \in Routers, ReplayRecord(r) PROVE Replies'
  BY <1>17, <1>u DEF ReplayRecord, TypeOK
<1>24. ASSUME NEW r \in Routers, MoveToExpired(r) PROVE Replies'
  BY <1>24, <1>u DEF MoveToExpired, TypeOK
<1>18. ASSUME NEW r \in Routers, Forget(r) PROVE Replies'
  BY <1>18, <1>u DEF Forget
<1>19. ASSUME NEW r \in Routers, Crash(r) PROVE Replies'
  <2>1. \A u \in Attempts : \/ pc'[u] = pc[u] /\ result'[u] = result[u]
                            \/ pc[u] \in Section /\ pc'[u] = "done" /\ result'[u] = "error"
    BY <1>19 DEF Crash
  <2>2. callers' = callers
    BY <2>1, <1>s DEF callers
  <2> QED
    BY <1>19, <2>1, <2>2 DEF Crash, Replies, TypeOK
<1>20. ASSUME NEW d \in Devices, WorkerPush(d) PROVE Replies'
  BY <1>20, <1>u DEF WorkerPush
<1>21. ASSUME NEW d \in Devices, Sync(d) PROVE Replies'
  BY <1>21, <1>u DEF Sync
<1>22. CASE ExpireLock
  BY <1>22, <1>u DEF ExpireLock
<1>23. CASE UNCHANGED vars
  BY <1>23, <1>u DEF vars
<1> QED
  BY <1>1, <1>2, <1>3, <1>4, <1>5, <1>6, <1>7, <1>8, <1>9, <1>10, <1>11,
     <1>12, <1>13, <1>14, <1>15, <1>16, <1>17, <1>18, <1>19, <1>20, <1>21,
     <1>22, <1>23, <1>24 DEF Next, Step, RouterStep

\* What Delivery sees is as it was, but for the faults.
Silent == UNCHANGED <<status, cache, reached, kafka, sent, answers, callers>>

\* Every step of an attempt is one of Delivery, or it sees nothing of it.
LEMMA AttemptDelivers ==
    ASSUME IInv, IInv', Replies, NEW t \in Attempts, Step(t)
    PROVE  Promise!Next
<1> USE DispatchAssumption DEF DispatchAssumption, store, local, trace, NoFault
<1> DEFINE Others == \A u \in Attempts \ {t} : result'[u] = result[u]
<1>t. TypeOK /\ Recorded /\ Told /\ Sole /\ Sole'
  BY DEF IInv
<1>f. \A k : Fault(k) => seen \subseteq seen' /\ k \in seen'
  BY DEF Fault
<1>0. ASSUME Silent, seen \subseteq seen' PROVE Promise!Next
  BY <1>0 DEF Silent, Promise!Next, Promise!message, Promise!taken, Promise!calls
<1>g. \A l : Goto(t, l) /\ UNCHANGED result /\ pc[t] \notin {"idle", "done"} /\ l \notin {"idle", "done"} => Mute(t)
  BY <1>t, Moving
<1>r. \A x : Return(t, x) /\ pc[t] \notin {"idle", "done"} => Mute(t)
  <2>1. ASSUME NEW x, Return(t, x), pc[t] \notin {"idle", "done"} PROVE Mute(t)
    <3>1. PICK l : l = "unlock" /\ Goto(t, l)
      BY <2>1 DEF Return
    <3>2. \A u \in Attempts \ {t} : result'[u] = result[u]
      BY <1>t, <2>1 DEF Return, TypeOK
    <3>3. pc[t] \notin {"idle", "done"} /\ l \notin {"idle", "done"} => Mute(t)
      BY <1>t, <3>1, <3>2, Moving
    <3> QED
      BY <2>1, <3>1, <3>3
  <2> QED
    BY <2>1
<1>l. ASSUME NEW x, ReturnLocked(t, x)
      PROVE  /\ pc[t] \notin {"idle", "done"} => Tells(t, x)
             /\ pc[t] = "idle" => Begins(t, [answers EXCEPT ![t] = x])
  <2>1. Goto(t, "done") /\ Others /\ result'[t] = x
    BY <1>t, <1>l DEF ReturnLocked, TypeOK
  <2> QED
    BY <1>t, <2>1, Moving
<1>w. pc[t] \notin {"idle", "done"} => Promise!AtWork(t)
  BY <1>t, Unanswered
<1>h. status \in Done => reached # {}
  BY <1>t DEF Recorded, DeliveredIsReal
<1>k. ASSUME reached # {}, status' \in Done, cache' = cache \/ \E r \in Routers : cache' = cache \cup {r},
             UNCHANGED <<reached, kafka, sent, answers, callers>>, seen \subseteq seen'
      PROVE  Promise!Next
  <2>1. Promise!Finish
    BY <1>k DEF Promise!Finish, Promise!Finished, Promise!taken, Promise!calls, Done
  <2> QED
    BY <1>k, <2>1 DEF Promise!Next
<1>1. CASE Begin(t)
  <2>0. pc[t] = "idle" /\ t \notin callers /\ UNCHANGED <<status, cache, reached, kafka, sent>>
    BY <1>1, <1>t, Unanswered DEF Begin
  <2>1. CASE Goto(t, "duplicate") /\ UNCHANGED <<result, seen>>
    <3>0. PICK l : l = "duplicate" /\ Goto(t, l)
      BY <2>1
    <3>1. Begins(t, answers)
      <4>1. pc[t] = "idle" /\ l \notin {"idle", "done"} => Begins(t, answers)
        BY <1>t, <2>1, <3>0, Moving
      <4> QED
        BY <2>0, <3>0, <4>1
    <3>2. Promise!Begin(t)
      BY <2>0, <3>1 DEF Begins, Promise!Begin, Promise!message, Promise!taken
    <3> QED
      BY <2>1, <3>2 DEF Promise!Next
  <2>2. CASE lock # NoOne /\ ReturnLocked(t, "in_progress") /\ UNCHANGED seen
    <3>1. Begins(t, [answers EXCEPT ![t] = "in_progress"])
      BY <1>l, <2>0, <2>2
    <3>2. lock \in callers /\ answers[lock] # "in_progress"
      BY <1>t, <2>2 DEF Replies, TypeOK, callers, answers
    <3>3. Promise!Defer(t)
      BY <2>0, <3>1, <3>2 DEF Begins, Promise!Defer, Promise!Tell, Promise!message, Promise!taken
    <3> QED
      BY <2>2, <3>3 DEF Promise!Next
  <2>3. CASE Fault("redis") /\ ReturnLocked(t, "error")
    <3>1. Begins(t, [answers EXCEPT ![t] = "error"])
      BY <1>l, <2>0, <2>3
    <3>2. Promise!Refuse(t)
      BY <1>f, <2>0, <2>3, <3>1 DEF Begins, Promise!Refuse, Promise!Tell, Promise!message, Promise!taken
    <3> QED
      BY <1>f, <2>3, <3>2 DEF Promise!Next
  <2> QED
    BY <1>1, <2>1, <2>2, <2>3 DEF Begin
<1>2. CASE IsDuplicate(t)
  <2>1. /\ pc[t] = "duplicate" /\ UNCHANGED <<status, cache, reached, kafka, sent>>
        /\ Return(t, "direct") \/ (Goto(t, "existing") /\ UNCHANGED result)
    BY <1>2 DEF IsDuplicate, AlreadyTracked
  <2>2. seen \subseteq seen'
    BY <1>2, <1>f DEF IsDuplicate, Read
  <2> QED
    BY <1>0, <1>g, <1>r, <2>1, <2>2 DEF Silent, Mute
<1>n. ASSUME NEW s, HandleTracked(t, s), s \in Done => s = status, pc[t] \notin {"idle", "done"},
             UNCHANGED <<status, reached, kafka, sent>>, seen \subseteq seen'
      PROVE  Promise!Next
  <2>1. CASE s \in Done
    <3>1. status \in Done /\ cache' = cache \cup {Home[t]} /\ Return(t, "direct") /\ Home[t] \in Routers
      BY <1>n, <2>1 DEF HandleTracked, AlreadyTracked
    <3>2. Mute(t)
      BY <1>n, <1>r, <3>1
    <3> QED
      BY <1>h, <1>k, <1>n, <3>1, <3>2 DEF Mute
  <2>2. CASE s \notin Done
    <3>1. Goto(t, "limit") /\ UNCHANGED <<cache, result>>
      BY <1>n, <2>2 DEF HandleTracked
    <3> QED
      BY <1>0, <1>n, <1>g, <3>1 DEF Silent, Mute
  <2> QED
    BY <2>1, <2>2
<1>3. CASE AllowExisting(t)
  <2>1. PICK s \in {status, "fail"} :
          /\ Read(s)
          /\ IF s \in {"none", "fail"} THEN Goto(t, "allocate") /\ UNCHANGED <<cache, result, indexed>>
                                       ELSE HandleTracked(t, s)
    BY <1>3 DEF AllowExisting
  <2>2. pc[t] = "existing" /\ UNCHANGED <<status, reached, kafka, sent>>
    BY <1>3 DEF AllowExisting
  <2>3. seen \subseteq seen' /\ (s \in Done => s = status)
    BY <2>1, <1>f DEF Read, Done
  <2>4. CASE s \in {"none", "fail"}
    BY <1>0, <1>g, <2>1, <2>2, <2>3, <2>4 DEF Silent, Mute
  <2>5. CASE s \notin {"none", "fail"}
    BY <1>n, <2>1, <2>2, <2>3, <2>5
  <2> QED
    BY <2>4, <2>5
<1>4. CASE AllocateSeq(t)
  <2>1. /\ pc[t] = "allocate" /\ UNCHANGED <<status, cache, reached, kafka, sent>>
        /\ Return(t, "direct") \/ (Goto(t, "track") /\ UNCHANGED result)
    BY <1>4 DEF AllocateSeq, AlreadyTracked
  <2>2. seen \subseteq seen'
    BY <1>4, <1>f DEF AllocateSeq
  <2> QED
    BY <1>0, <1>g, <1>r, <2>1, <2>2 DEF Silent, Mute
<1>5. CASE TrackAtomic(t)
  <2>0. pc[t] = "track" /\ UNCHANGED <<reached, kafka, sent>>
    BY <1>5 DEF TrackAtomic
  <2>a. ASSUME status = "none", status' = "pending", UNCHANGED cache, Mute(t), seen \subseteq seen' PROVE Promise!Next
    <3>1. Promise!Track
      BY <2>0, <2>a DEF Mute, Promise!Track, Promise!taken, Promise!calls
    <3> QED
      BY <2>a, <3>1 DEF Promise!Next
  <2>1. CASE status = "none" /\ status' = "pending" /\ Goto(t, "index") /\ UNCHANGED <<seen, cache, result>>
    BY <1>g, <2>0, <2>1, <2>a
  <2>2. CASE HandleTracked(t, status) /\ UNCHANGED <<seen, status>>
    BY <1>n, <2>0, <2>2
  <2>3. CASE /\ Fault("redis") /\ Return(t, "direct") /\ UNCHANGED cache
             /\ status' \in {status, IF status = "none" THEN "pending" ELSE status}
    <3>1. Mute(t) /\ seen \subseteq seen'
      BY <1>f, <1>r, <2>0, <2>3
    <3> QED
      BY <1>0, <2>0, <2>3, <2>a, <3>1 DEF Silent, Mute
  <2> QED
    BY <1>5, <2>1, <2>2, <2>3 DEF TrackAtomic, AlreadyTracked
<1>6. CASE AddUserMessage(t)
  <2>1. /\ pc[t] = "index" /\ UNCHANGED <<status, cache, reached, kafka, sent>>
        /\ Return(t, "direct") \/ (Goto(t, "limit") /\ UNCHANGED result)
    BY <1>6 DEF AddUserMessage, AlreadyTracked
  <2>2. seen \subseteq seen'
    BY <1>6, <1>f DEF AddUserMessage
  <2> QED
    BY <1>0, <1>g, <1>r, <2>1, <2>2 DEF Silent, Mute
<1>7. CASE Limit(t)
  <2>1. /\ pc[t] = "limit" /\ UNCHANGED <<status, cache, reached, kafka, sent, seen>>
        /\ Return(t, "error") \/ (Goto(t, "online") /\ UNCHANGED result)
    BY <1>7 DEF Limit
  <2> QED
    BY <1>0, <1>g, <1>r, <2>1 DEF Silent, Mute
<1>8. CASE IsOnline(t)
  <2>1. PICK l \in {"queue", "push"} :
          pc[t] = "online" /\ UNCHANGED <<status, cache, reached, kafka, sent, seen, result>> /\ Goto(t, l)
    BY <1>8 DEF IsOnline
  <2> QED
    BY <1>0, <1>g, <2>1 DEF Silent, Mute
<1>9. CASE DirectPush(t)
  <2>0. pc[t] = "push" /\ UNCHANGED <<status, cache, kafka, pc, result>> /\ todo[t] \subseteq Devices
    BY <1>9, <1>t DEF DirectPush, TypeOK
  <2>1. answers' = answers /\ callers' = callers /\ Promise!AtWork(t)
    BY <1>w, <2>0 DEF answers, callers
  <2>2. PICK d \in Devices :
          \/ reached' = reached \cup {d} /\ sent' = sent \cup {t} /\ UNCHANGED seen
          \/ reached' \in {reached, reached \cup {d}} /\ Fault("push") /\ UNCHANGED sent
    BY <1>9, <2>0 DEF DirectPush
  <2>3. CASE reached' = reached \cup {d} /\ sent' = sent \cup {t} /\ UNCHANGED seen
    <3>1. seen' \cap {"redis", "crash", "lapse"} # {} \/ sent \subseteq {t}
      BY <1>t, <2>0, <2>3 DEF Sole, Clean, Checked
    <3>2. Promise!Send(t, d)
      BY <2>0, <2>1, <2>3, <3>1 DEF Promise!Send, Promise!message, Promise!calls
    <3> QED
      BY <2>3, <3>2 DEF Promise!Next
  <2>4. CASE reached' \in {reached, reached \cup {d}} /\ Fault("push") /\ UNCHANGED sent
    <3>1. CASE reached' = reached
      BY <1>0, <1>f, <2>0, <2>1, <2>4, <3>1 DEF Silent
    <3>2. CASE reached' = reached \cup {d}
      <4>1. Promise!Reach(d)
        BY <1>f, <2>0, <2>1, <2>4, <3>2 DEF Promise!Reach, Promise!message, Promise!calls
      <4> QED
        BY <1>f, <2>4, <4>1 DEF Promise!Next
    <3> QED
      BY <2>4, <3>1, <3>2
  <2> QED
    BY <2>2, <2>3, <2>4
<1>10. CASE Pushed(t)
  <2>1. PICK l \in {"queue", "mark"} :
          pc[t] = "push" /\ UNCHANGED <<status, cache, reached, kafka, sent, seen, result>> /\ Goto(t, l)
    BY <1>10 DEF Pushed
  <2> QED
    BY <1>0, <1>g, <2>1 DEF Silent, Mute
<1>11. CASE MarkDelivered(t)
  <2>0. pc[t] = "mark" /\ reached # {} /\ UNCHANGED <<reached, kafka, sent>> /\ Home[t] \in Routers
    BY <1>11, <1>t DEF MarkDelivered, Recorded
  <2>1. Mute(t)
    <3>1. (\E x : Return(t, x)) \/ (Goto(t, "queue") /\ UNCHANGED result)
      BY <1>11 DEF MarkDelivered
    <3> QED
      BY <1>g, <1>r, <2>0, <3>1
  <2>2. CASE status' = "delivered" /\ cache' = cache \cup {Home[t]} /\ UNCHANGED seen
    BY <1>k, <2>0, <2>1, <2>2 DEF Mute, Done
  <2>3. CASE status' \in {status, "delivered"} /\ UNCHANGED cache /\ Fault("redis")
    <3>1. CASE status' = status
      BY <1>0, <1>f, <2>0, <2>1, <2>3, <3>1 DEF Silent, Mute
    <3>2. CASE status' = "delivered"
      BY <1>k, <1>f, <2>0, <2>1, <2>3, <3>2 DEF Mute, Done
    <3> QED
      BY <2>3, <3>1, <3>2
  <2> QED
    BY <1>11, <2>2, <2>3 DEF MarkDelivered
<1>12. CASE AddOffline(t)
  <2>1. /\ pc[t] = "queue" /\ UNCHANGED <<status, cache, reached, kafka, sent, result>>
        /\ Goto(t, "produce")
    BY <1>12 DEF AddOffline
  <2>2. seen \subseteq seen'
    BY <1>12, <1>f DEF AddOffline
  <2> QED
    BY <1>0, <1>g, <2>1, <2>2 DEF Silent, Mute
<1>13. CASE Produce(t)
  <2>0. /\ pc[t] = "produce" /\ UNCHANGED <<status, cache, reached, sent>> /\ failed[t] \in SUBSET Devices
        /\ Promise!AtWork(t) /\ callers # {}
    BY <1>13, <1>t, <1>w DEF Produce, TypeOK, callers
  <2>a. ASSUME kafka' = kafka \cup {failed[t]}, Mute(t), seen \subseteq seen' PROVE Promise!Next
    <3>1. Promise!Hand(failed[t])
      BY <2>0, <2>a DEF Mute, Promise!Hand, Promise!message, Promise!calls
    <3> QED
      BY <2>0, <2>a, <3>1 DEF Promise!Next
  <2>1. CASE kafka' = kafka \cup {failed[t]} /\ Return(t, "queued") /\ UNCHANGED seen
    BY <1>r, <2>0, <2>1, <2>a
  <2>2. CASE kafka' = kafka \cup {failed[t]} /\ ReturnLocked(t, "queued") /\ UNCHANGED seen
    <3>1. Tells(t, "queued")
      BY <1>l, <2>0, <2>2
    <3>2. Promise!HandAnd(t, failed[t])
      BY <2>0, <2>2, <3>1 DEF Tells, Promise!HandAnd, Promise!Tell, Promise!message
    <3> QED
      BY <2>0, <2>2, <3>2 DEF Promise!Next
  <2>3. CASE kafka' \in {kafka, kafka \cup {failed[t]}} /\ Fault("kafka") /\ Return(t, "error")
    <3>1. Mute(t) /\ seen \subseteq seen'
      BY <1>f, <1>r, <2>0, <2>3
    <3> QED
      BY <1>0, <2>0, <2>3, <2>a, <3>1 DEF Silent, Mute
  <2> QED
    BY <1>13, <2>1, <2>2, <2>3 DEF Produce
<1>14. CASE Unlock(t)
  <2>0. /\ pc[t] = "unlock" /\ UNCHANGED <<status, cache, reached, kafka, sent, result>>
        /\ Goto(t, "done") /\ Promise!AtWork(t)
    BY <1>14, <1>w DEF Unlock
  <2>1. seen \subseteq seen'
    BY <1>14, <1>f DEF Unlock
  <2>2. Tells(t, result[t])
    BY <1>t, <2>0, Moving
  <2>3. /\ result[t] \in {"direct", "queued", "error"}
        /\ result[t] = "direct" => reached # {} \/ "redis" \in seen'
        /\ result[t] = "queued" => kafka # {}
    BY <1>t, <2>0, <2>1 DEF Replies, Told
  <2>4. Promise!Answer(t, result[t])
    BY <2>0, <2>2, <2>3 DEF Tells, Promise!Answer, Promise!Tell, Promise!message, Promise!taken
  <2> QED
    BY <2>1, <2>3, <2>4 DEF Promise!Next
<1> QED
  BY <1>1, <1>2, <1>3, <1>4, <1>5, <1>6, <1>7, <1>8, <1>9, <1>10, <1>11, <1>12, <1>13, <1>14 DEF Step

\* So is every step of what goes on around the attempts.
LEMMA AroundDelivers ==
    ASSUME IInv, Replies,
           \/ \E r \in Routers : RouterStep(r)
           \/ \E d \in Devices : WorkerPush(d) \/ Sync(d)
           \/ ExpireLock
    PROVE  Promise!Next
<1> USE DispatchAssumption DEF DispatchAssumption, store, local, trace, NoFault
<1>t. TypeOK /\ Recorded
  BY DEF IInv
<1>f. \A k : Fault(k) => seen \subseteq seen' /\ k \in seen'
  BY DEF Fault
<1>u. UNCHANGED <<pc, result>> => UNCHANGED <<answers, callers>>
  BY DEF answers, callers
<1>0. ASSUME Silent, seen \subseteq seen' PROVE Promise!Next
  BY <1>0 DEF Silent, Promise!Next, Promise!message, Promise!taken, Promise!calls
<1>k. ASSUME reached # {}, status' \in Done, cache' = cache \/ \E r \in Routers : cache' = cache \cup {r},
             UNCHANGED <<reached, kafka, sent, answers, callers>>, seen \subseteq seen'
      PROVE  Promise!Next
  <2>1. Promise!Finish
    BY <1>k DEF Promise!Finish, Promise!Finished, Promise!taken, Promise!calls, Done
  <2> QED
    BY <1>k, <2>1 DEF Promise!Next
<1>1. ASSUME NEW r \in Routers, AckStatus(r) PROVE Promise!Next
  <2>0. reached # {} /\ UNCHANGED <<cache, reached, kafka, sent, pc, result>>
    BY <1>1 DEF AckStatus
  <2>1. seen \subseteq seen' /\ status' \in {status, "acked"}
    BY <1>1, <1>f DEF AckStatus
  <2>2. CASE status' = "acked"
    BY <1>k, <1>u, <2>0, <2>1, <2>2 DEF Done
  <2>3. CASE status' = status
    BY <1>0, <1>u, <2>0, <2>1, <2>3 DEF Silent
  <2> QED
    BY <2>1, <2>2, <2>3
<1>2. ASSUME NEW r \in Routers, AckCleanup(r) PROVE Promise!Next
  <2>1. /\ r \in acking /\ cache' = cache \cup {r}
        /\ UNCHANGED <<status, reached, kafka, sent, pc, result, seen>>
    BY <1>2 DEF AckCleanup
  <2>2. status \in Done /\ reached # {}
    BY <1>t, <2>1 DEF Recorded, DeliveredIsReal
  <2> QED
    BY <1>k, <1>u, <2>1, <2>2
<1>3. ASSUME NEW r \in Routers, ReplayRecord(r) PROVE Promise!Next
  <2>1. PICK rec \in spool[r] : kafka' = kafka \cup {rec} \/ kafka' = kafka
    BY <1>3 DEF ReplayRecord
  <2>2. UNCHANGED <<status, cache, reached, sent, pc, result, seen>>
    BY <1>3 DEF ReplayRecord
  <2>3. rec \in SUBSET Devices /\ callers # {}
    BY <1>t, <2>1 DEF TypeOK, Replies
  <2>4. CASE kafka' = kafka \cup {rec}
    <3>1. Promise!Hand(rec)
      BY <1>u, <2>2, <2>3, <2>4 DEF Promise!Hand, Promise!message, Promise!calls
    <3> QED
      BY <2>2, <2>3, <3>1 DEF Promise!Next
  <2>5. CASE kafka' = kafka
    BY <1>0, <1>u, <2>2, <2>5 DEF Silent
  <2> QED
    BY <2>1, <2>4, <2>5
<1>4. ASSUME NEW r \in Routers, MoveToExpired(r) PROVE Promise!Next
  BY <1>4, <1>0, <1>u DEF MoveToExpired, Silent
<1>5. ASSUME NEW r \in Routers, Forget(r) PROVE Promise!Next
  <2>1. cache' = cache \ {r} /\ UNCHANGED <<status, reached, kafka, sent, pc, result, seen>>
    BY <1>5 DEF Forget
  <2>2. Promise!Forget(r)
    BY <1>u, <2>1 DEF Promise!Forget, Promise!taken, Promise!calls
  <2> QED
    BY <2>1, <2>2 DEF Promise!Next
<1>6. ASSUME NEW r \in Routers, Crash(r) PROVE Promise!Next
  <2> DEFINE S == {t \in Attempts : Home[t] = r /\ pc[t] \in Section}
  <2>1. /\ seen \subseteq seen' /\ "crash" \in seen' /\ cache' = cache \ {r}
        /\ UNCHANGED <<status, reached, kafka, sent>>
    BY <1>6, <1>f DEF Crash
  <2>2. \A t \in S : Promise!AtWork(t)
    <3>1. \A t \in S : pc[t] \notin {"idle", "done"}
      BY DEF Section
    <3> QED
      BY <1>t, <3>1, Unanswered
  <2>3. /\ pc' = [t \in Attempts |-> IF t \in S THEN "done" ELSE pc[t]]
        /\ result' = [t \in Attempts |-> IF t \in S THEN "error" ELSE result[t]]
    BY <1>6 DEF Crash
  <2>4. callers' = callers
    BY <2>3 DEF callers, Section
  <2>5. answers' = [t \in Attempts |-> IF t \in S THEN "error" ELSE answers[t]]
    BY <2>3 DEF answers
  <2>6. Promise!Die(r, S)
    BY <2>1, <2>2, <2>4, <2>5 DEF Promise!Die, Promise!taken
  <2> QED
    BY <2>1, <2>6 DEF Promise!Next
<1>7. ASSUME NEW d \in Devices, WorkerPush(d) PROVE Promise!Next
  <2>1. Promise!Reach(d)
    BY <1>7, <1>u DEF WorkerPush, Promise!Reach, Promise!message, Promise!calls
  <2> QED
    BY <1>7, <2>1 DEF WorkerPush, Promise!Next
<1>8. ASSUME NEW d \in Devices, Sync(d) PROVE Promise!Next
  <2>0. UNCHANGED <<status, cache, kafka, sent, pc, result, seen>>
    BY <1>8 DEF Sync
  <2>1. CASE status \in {"pending", "delivered"} /\ reached' = reached \cup {d}
    <3>1. Promise!Reach(d)
      BY <1>u, <2>0, <2>1 DEF Promise!Reach, Promise!message, Promise!calls
    <3> QED
      BY <2>0, <3>1 DEF Promise!Next
  <2>2. CASE UNCHANGED reached
    BY <1>0, <1>u, <2>0, <2>2 DEF Silent
  <2> QED
    BY <1>8, <2>1, <2>2 DEF Sync
<1>9. CASE ExpireLock
  <2>1. UNCHANGED <<status, cache, reached, kafka, sent, pc, result>>
    BY <1>9 DEF ExpireLock
  <2>2. seen \subseteq seen'
    BY <1>9, <1>f DEF ExpireLock
  <2> QED
    BY <1>0, <1>u, <2>1, <2>2 DEF Silent
<1> QED
  BY <1>1, <1>2, <1>3, <1>4, <1>5, <1>6, <1>7, <1>8, <1>9 DEF RouterStep

\* Routers, worker and sync together implement Delivery: whatever retries,
\* faults and deaths there are, each step is a step of it, or it sees nothing.
THEOREM KeepsPromise == Spec => IsDelivery
<1>1. Init => Promise!Init /\ Replies
  BY DispatchAssumption DEF DispatchAssumption, Init, Promise!Init, Replies, answers, callers
<1>2. IInv /\ Replies /\ [Next]_vars => Replies'
  BY RepliesStep DEF IInv
<1>3. ASSUME IInv, IInv', Replies, [Next]_vars
      PROVE  [Promise!Next]_<<Promise!message, Promise!taken, Promise!calls, seen>>
  <2>1. ASSUME NEW t \in Attempts, Step(t) PROVE Promise!Next
    BY <1>3, <2>1, AttemptDelivers
  <2>2. CASE \/ \E r \in Routers : RouterStep(r)
             \/ \E d \in Devices : WorkerPush(d) \/ Sync(d)
             \/ ExpireLock
    BY <1>3, <2>2, AroundDelivers
  <2>3. CASE UNCHANGED vars
    BY <2>3 DEF vars, store, local, trace, answers, callers, Promise!message, Promise!taken, Promise!calls
  <2> QED
    BY <1>3, <2>1, <2>2, <2>3 DEF Next
<1> QED
  BY <1>1, <1>2, <1>3, Invariance, PTL DEF Spec, IsDelivery, Promise!Spec

-----------------------------------------------------------------------------
(* The limits of a process *)

FlakeTypeOK ==
    /\ flake \in [sequence : 0 .. MaxSequence, lastTime : 0 .. MaxWall, waiting : BOOLEAN]
    /\ ids \in Seq(Nat)

\* The generator's clock and sequence number are those of the last ID, or
\* while it waits for the next millisecond, its clock is.
LastId ==
    Len(ids) > 0 =>
        /\ ids[Len(ids)] < Id(flake.lastTime + 1, 0)
        /\ ~flake.waiting => ids[Len(ids)] <= Id(flake.lastTime, flake.sequence)

Minted == FlakeTypeOK /\ LastId /\ IdsUnique

Buckets ==
    [dim : Dimensions, tokens : Int, last : 0 .. MaxWall, born : 0 .. MaxWall, peak : 0 .. MaxWall, passed : Nat]
BucketKeys ==
    {"v1", "user", "event", "prio", "conn", "campaign"}
        \X ({"global", "c", "normal"} \cup Users \cup UNION {{e.evt, e.prio} : e \in Envelopes})
Legs == [key : BucketKeys, dim : Dimensions]

\* A bucket has let through what it was born with and was refilled with, less
\* the tokens left; and it owes no more than the clock was set back.
Balanced(b) ==
    /\ b.passed * Unit + b.tokens <= Burst[b.dim] * Unit + (b.last - b.born) * Rate[b.dim]
    /\ b.tokens + (b.peak - b.last) * Rate[b.dim] >= 0
    /\ b.last <= b.peak

Metered ==
    /\ \A k \in DOMAIN buckets : buckets[k] \in Buckets /\ Balanced(buckets[k])
    /\ asks \in [Requesters -> Seq(Legs)]

\* The breaker counts what the callers report.
Tripped ==
    /\ breaker \in [state : {"closed", "open", "half_open"}, failures : Nat]
    /\ breaker.failures = report
    /\ BreakerAgrees

LimitsInv == wall \in 0 .. MaxWall /\ Minted /\ Metered /\ Tripped

LEMMA LimitsFacts ==
    /\ MaxSequence \in Nat /\ MaxWall \in Nat \ {0} /\ MaxIds \in Nat
    /\ Unit \in Nat \ {0} /\ Threshold \in Nat \ {0}
    /\ Rate \in [Dimensions -> Nat] /\ Burst \in [Dimensions -> Nat]
BY LimitsAssumption

LEMMA IdType == ASSUME NEW t \in Nat, NEW s \in 0 .. MaxSequence PROVE Id(t, s) \in Nat
<1>1. t * (MaxSequence + 1) \in Nat /\ s \in Nat
  BY LimitsFacts
<1> QED
  BY <1>1 DEF Id

\* An ID grows with the millisecond and with the sequence number in it.
LEMMA IdGrows ==
    ASSUME NEW t \in Nat, NEW u \in Nat, t < u, NEW s \in 0 .. MaxSequence
    PROVE  /\ Id(t, s) \in Nat /\ Id(t, s) < Id(t + 1, 0) /\ Id(t + 1, 0) <= Id(u, 0)
<1> DEFINE W == MaxSequence + 1
<1>1. W \in Nat \ {0}
  BY LimitsFacts
<1>2. t * W \in Nat /\ (t + 1) * W = t * W + W
  BY <1>1
<1>3. (u - (t + 1)) * W >= 0 /\ u * W = (t + 1) * W + (u - (t + 1)) * W
  BY <1>1
<1>4. Id(t, s) = t * W + s /\ Id(t + 1, 0) = (t + 1) * W /\ Id(u, 0) = u * W
  BY <1>1, <1>2 DEF Id
<1>5. s \in Nat /\ s < W
  BY LimitsFacts
<1> HIDE DEF W
<1>6. t * W + s \in Nat /\ t * W + s < t * W + W
  BY <1>1, <1>2, <1>5
<1>7. (t + 1) * W \in Nat /\ (u - (t + 1)) * W \in Nat
  BY <1>1, <1>3
<1> QED
  BY <1>2, <1>3, <1>4, <1>6, <1>7

\* An ID above the last one keeps the order of the list.
LEMMA MintStep ==
    ASSUME Minted, NEW t \in 0 .. MaxWall, NEW s \in 0 .. MaxSequence, Mint(t, s),
           Len(ids) > 0 => ids[Len(ids)] < Id(t, s)
    PROVE  Minted'
<1>1. Id(t, s) \in Nat /\ Id(t, s) < Id(t + 1, 0)
  BY IdGrows, LimitsFacts
<1>2. ids \in Seq(Nat) /\ ids' = Append(ids, Id(t, s))
  BY DEF Minted, FlakeTypeOK, Mint
<1>3. flake' = [sequence |-> s, lastTime |-> t, waiting |-> FALSE]
  BY DEF Mint
<1>4. ids' \in Seq(Nat) /\ Len(ids') = Len(ids) + 1 /\ ids'[Len(ids')] = Id(t, s)
      /\ \A i \in 1 .. Len(ids) : ids'[i] = ids[i]
  BY <1>1, <1>2
<1>5. FlakeTypeOK' /\ LastId'
  BY <1>1, <1>3, <1>4 DEF FlakeTypeOK, LastId
<1>6. ASSUME NEW i \in 2 .. Len(ids') PROVE ids'[i - 1] < ids'[i]
  <2>1. CASE i = Len(ids')
    BY <1>2, <1>4, <2>1
  <2>2. CASE i # Len(ids')
    <3>1. i \in 2 .. Len(ids) /\ i - 1 \in 1 .. Len(ids) /\ i \in 1 .. Len(ids)
      BY <1>2, <1>4, <2>2
    <3>2. ids[i - 1] < ids[i]
      BY <3>1 DEF Minted, IdsUnique
    <3> QED
      BY <1>4, <3>1, <3>2
  <2> QED
    BY <2>1, <2>2
<1> QED
  BY <1>5, <1>6 DEF Minted, IdsUnique

LEMMA FlakeStep ==
    ASSUME Minted, wall \in 0 .. MaxWall, Generate \/ NextMilli
    PROVE  Minted'
<1>0. /\ flake \in [sequence : 0 .. MaxSequence, lastTime : 0 .. MaxWall, waiting : BOOLEAN]
      /\ ids \in Seq(Nat) /\ flake.lastTime \in Nat /\ wall \in Nat
  BY LimitsFacts DEF Minted, FlakeTypeOK
<1>1. ASSUME wall > flake.lastTime, Mint(wall, 0) PROVE Minted'
  <2>1. Id(flake.lastTime + 1, 0) <= Id(wall, 0) /\ Id(wall, 0) \in Nat /\ Id(flake.lastTime + 1, 0) \in Nat
    <3>1. 0 \in 0 .. MaxSequence /\ flake.lastTime + 1 \in Nat /\ flake.lastTime + 1 < flake.lastTime + 2 /\ wall < wall + 1
      BY <1>0, LimitsFacts
    <3>2. Id(wall, 0) \in Nat /\ Id(flake.lastTime + 1, 0) \in Nat
      BY <1>0, <3>1, IdType
    <3>3. Id(flake.lastTime + 1, 0) <= Id(wall, 0)
      BY <1>0, <1>1, <3>1, IdGrows
    <3> QED
      BY <3>2, <3>3
  <2>2. Len(ids) > 0 => ids[Len(ids)] < Id(flake.lastTime + 1, 0) /\ ids[Len(ids)] \in Nat
    BY <1>0 DEF Minted, LastId
  <2>3. 0 \in 0 .. MaxSequence
    BY LimitsFacts
  <2> QED
    BY <1>1, <2>1, <2>2, <2>3, MintStep
<1>2. CASE Generate
  <2>1. ~flake.waiting /\ wall >= flake.lastTime
    BY <1>2 DEF Generate
  <2> DEFINE next == (flake.sequence + 1) % (MaxSequence + 1)
  <2>2. CASE wall > flake.lastTime
    BY <1>1, <1>2, <2>2 DEF Generate
  <2>3. CASE wall = flake.lastTime /\ next # 0
    <3>1. next \in 0 .. MaxSequence /\ next = flake.sequence + 1
      <4>1. flake.sequence \in 0 .. MaxSequence /\ MaxSequence \in Nat
        BY <1>0, LimitsFacts
      <4>2. CASE flake.sequence = MaxSequence
        BY <4>1, <4>2, <2>3
      <4>3. CASE flake.sequence < MaxSequence
        BY <4>1, <4>3
      <4> QED
        BY <4>1, <4>2, <4>3
    <3>2. Mint(wall, next)
      BY <1>2, <2>3, <1>0 DEF Generate
    <3>3. Len(ids) > 0 => ids[Len(ids)] < Id(wall, next)
      <4>1. Id(wall, next) = Id(flake.lastTime, flake.sequence) + 1 /\ Id(flake.lastTime, flake.sequence) \in Nat
        <5>1. flake.lastTime * (MaxSequence + 1) \in Nat /\ flake.sequence \in Nat
          BY <1>0, LimitsFacts
        <5> QED
          BY <2>3, <3>1, <5>1 DEF Id
      <4>2. Len(ids) > 0 => ids[Len(ids)] \in Nat /\ ids[Len(ids)] <= Id(flake.lastTime, flake.sequence)
        BY <1>0, <2>1 DEF Minted, LastId
      <4> HIDE DEF next
      <4> QED
        BY <4>1, <4>2
    <3> HIDE DEF next
    <3> QED
      BY <3>1, <3>2, <3>3, MintStep
  <2>4. CASE wall = flake.lastTime /\ next = 0
    <3>1. flake' = [flake EXCEPT !.sequence = 0, !.waiting = TRUE] /\ ids' = ids
      BY <1>0, <1>2, <2>4 DEF Generate
    <3>2. 0 \in 0 .. MaxSequence
      BY LimitsFacts
    <3>3. flake' \in [sequence : 0 .. MaxSequence, lastTime : 0 .. MaxWall, waiting : BOOLEAN]
          /\ flake'.lastTime = flake.lastTime /\ flake'.waiting
      BY <1>0, <3>1, <3>2
    <3> QED
      BY <3>1, <3>3 DEF Minted, FlakeTypeOK, LastId, IdsUnique
  <2> QED
    BY <1>0, <2>1, <2>2, <2>3, <2>4
<1>3. CASE NextMilli
  BY <1>1, <1>3 DEF NextMilli
<1> QED
  BY <1>2, <1>3

-----------------------------------------------------------------------------
\* Refilling keeps the balance: time counted back is owed, not paid twice.
LEMMA RefillBalanced ==
    ASSUME NEW b \in Buckets, Balanced(b), wall \in 0 .. MaxWall
    PROVE  Refill(b) \in Buckets /\ Balanced(Refill(b)) /\ Refill(b).passed = b.passed
<1> DEFINE R == Rate[b.dim]
           C == Burst[b.dim] * Unit
           t == b.tokens + (wall - b.last) * R
           n == IF t > C THEN C ELSE t
           p == IF wall > b.peak THEN wall ELSE b.peak
<1>1. /\ R \in Nat /\ C \in Nat /\ Unit \in Nat /\ wall \in Nat /\ MaxWall \in Nat /\ b.passed \in Nat /\ b.tokens \in Int
      /\ b.last \in Nat /\ b.born \in Nat /\ b.peak \in Nat
  BY LimitsFacts DEF Buckets
<1>2. t \in Int /\ n \in Int /\ n <= t /\ n <= C /\ (n = C \/ n = t) /\ p \in 0 .. MaxWall /\ wall <= p
  BY <1>1 DEF Buckets
<1>3. /\ (wall - b.born) * R = (b.last - b.born) * R + (wall - b.last) * R
      /\ (p - wall) * R = (p - b.peak) * R + (b.peak - b.last) * R - (wall - b.last) * R
      /\ (p - wall) * R >= 0 /\ (p - b.peak) * R >= 0
  BY <1>1, <1>2
<1>4. Refill(b) = [b EXCEPT !.tokens = n, !.last = wall, !.peak = p]
  BY DEF Refill
<1>5. Refill(b) = [dim |-> b.dim, tokens |-> n, last |-> wall, born |-> b.born, peak |-> p, passed |-> b.passed]
  BY <1>4 DEF Buckets
<1>6. /\ b.passed * Unit \in Nat /\ (wall - b.last) * R \in Int /\ (b.last - b.born) * R \in Int /\ (b.peak - b.last) * R \in Int
      /\ (wall - b.born) * R \in Int /\ (p - wall) * R \in Int /\ (p - b.peak) * R \in Int
  BY <1>1, <1>2
<1>7. b.passed * Unit + b.tokens <= C + (b.last - b.born) * R /\ b.tokens + (b.peak - b.last) * R >= 0
  BY DEF Balanced
<1>8. b.passed * Unit + n <= C + (wall - b.born) * R /\ n + (p - wall) * R >= 0
  <2>1. t = b.tokens + (wall - b.last) * R
    OBVIOUS
  <2> HIDE DEF t, n, p, C, R
  <2> QED
    BY <1>1, <1>2, <1>3, <1>6, <1>7, <2>1
<1>9. Refill(b) \in Buckets
  BY <1>1, <1>2, <1>5 DEF Buckets
<1> HIDE DEF n, p, t
<1> QED
  BY <1>2, <1>5, <1>8, <1>9 DEF Balanced

LEMMA AllowBalanced ==
    ASSUME NEW b \in Buckets, Balanced(b), wall \in 0 .. MaxWall
    PROVE  AllowN(b, 1) \in Buckets /\ Balanced(AllowN(b, 1))
<1> DEFINE r == Refill(b)
           a == [r EXCEPT !.tokens = @ - 1 * Unit, !.passed = @ + 1]
<1>1. r \in Buckets /\ Balanced(r)
  BY RefillBalanced
<1>2. AllowN(b, 1) = IF CanTake(r, 1) THEN a ELSE r
  BY DEF AllowN
<1>3. ASSUME CanTake(r, 1) PROVE a \in Buckets /\ Balanced(a)
  <2> HIDE DEF r
  <2>1. r.tokens \in Int /\ r.passed \in Nat /\ Unit \in Nat /\ r.tokens >= Unit /\ 1 * Unit = Unit
    <3>1. r.tokens \in Int /\ r.passed \in Nat
      BY <1>1 DEF Buckets
    <3>2. Unit \in Nat /\ 1 * Unit = Unit
      BY LimitsFacts
    <3> QED
      BY <1>3, <3>1, <3>2 DEF CanTake
  <2>2. a = [dim |-> r.dim, tokens |-> r.tokens - Unit, last |-> r.last, born |-> r.born, peak |-> r.peak,
             passed |-> r.passed + 1]
    <3>1. r = [dim |-> r.dim, tokens |-> r.tokens, last |-> r.last, born |-> r.born, peak |-> r.peak,
               passed |-> r.passed]
      BY <1>1 DEF Buckets
    <3>2. a = [r EXCEPT !.tokens = r.tokens - 1 * Unit, !.passed = r.passed + 1]
      OBVIOUS
    <3>3. r.tokens - 1 * Unit = r.tokens - Unit
      BY <2>1
    <3> HIDE DEF a
    <3> QED
      BY <3>1, <3>2, <3>3
  <2>3. (r.passed + 1) * Unit = r.passed * Unit + Unit /\ r.passed * Unit \in Nat
    BY <2>1
  <2>4. /\ (r.peak - r.last) * Rate[r.dim] \in Nat
        /\ (r.last - r.born) * Rate[r.dim] \in Int /\ Burst[r.dim] * Unit \in Nat
    <3>1. /\ r.peak \in Nat /\ r.last \in Nat /\ r.born \in Nat /\ Rate[r.dim] \in Nat /\ Burst[r.dim] \in Nat
          /\ r.last <= r.peak
      BY <1>1, LimitsFacts DEF Buckets, Balanced
    <3> QED
      BY <2>1, <3>1
  <2>5. a \in Buckets
    BY <1>1, <2>1, <2>2 DEF Buckets
  <2>6. /\ (r.passed + 1) * Unit + (r.tokens - Unit) <= Burst[r.dim] * Unit + (r.last - r.born) * Rate[r.dim]
        /\ (r.tokens - Unit) + (r.peak - r.last) * Rate[r.dim] >= 0
    BY <1>1, <2>1, <2>3, <2>4 DEF Balanced
  <2> QED
    BY <1>1, <2>2, <2>5, <2>6 DEF Balanced
<1> QED
  BY <1>1, <1>2, <1>3

LEMMA NewBalanced ==
    ASSUME NEW dim \in Dimensions, wall \in 0 .. MaxWall
    PROVE  NewBucket(dim) \in Buckets /\ Balanced(NewBucket(dim))
<1>1. Burst[dim] \in Nat /\ Unit \in Nat /\ wall \in Nat /\ Rate[dim] \in Nat
  BY LimitsFacts
<1>2. Burst[dim] * Unit \in Nat /\ (wall - wall) * Rate[dim] = 0 /\ 0 * Unit = 0
  BY <1>1
<1> QED
  BY <1>1, <1>2 DEF NewBucket, Buckets, Balanced

LEMMA TakeStep ==
    ASSUME Metered, wall \in 0 .. MaxWall, NEW q \in Requesters, Take(q)
    PROVE  Metered'
<1>1. asks[q] \in Seq(Legs) /\ asks[q] # <<>> /\ Head(asks[q]) \in Legs /\ Tail(asks[q]) \in Seq(Legs)
  BY DEF Metered, Take
<1> DEFINE k == Head(asks[q])
           b == IF k.key \in DOMAIN buckets THEN buckets[k.key] ELSE NewBucket(k.dim)
           a == AllowN(b, 1)
<1>2. b \in Buckets /\ Balanced(b)
  BY <1>1, NewBalanced DEF Metered, Legs
<1>3. a \in Buckets /\ Balanced(a)
  BY <1>2, AllowBalanced
<1>4. /\ buckets' = [x \in DOMAIN buckets \cup {k.key} |-> IF x = k.key THEN a ELSE buckets[x]]
      /\ asks' = [asks EXCEPT ![q] = IF a.passed > b.passed THEN Tail(@) ELSE <<>>]
  BY DEF Take
<1> HIDE DEF a, b, k
<1>5. asks' \in [Requesters -> Seq(Legs)]
  <2>1. <<>> \in Seq(Legs)
    OBVIOUS
  <2> QED
    BY <1>1, <1>4, <2>1 DEF Metered
<1>6. \A x \in DOMAIN buckets' : buckets'[x] \in Buckets /\ Balanced(buckets'[x])
  BY <1>3, <1>4 DEF Metered
<1>7. \A x \in DOMAIN buckets' : Balanced(buckets[x])' <=> Balanced(buckets'[x])
  BY DEF Balanced
<1> QED
  BY <1>5, <1>6 DEF Metered, Balanced

LEMMA AskStep ==
    ASSUME Metered, NEW q \in Requesters, Ask(q) \/ AskOne(q)
    PROVE  Metered'
<1> DEFINE Names == {"global", "c", "normal"} \cup Users \cup UNION {{e.evt, e.prio} : e \in Envelopes}
<1>1. ASSUME NEW x \in {"v1", "user", "event", "prio", "conn", "campaign"}, NEW y \in Names, NEW d \in Dimensions
      PROVE  <<[key |-> <<x, y>>, dim |-> d]>> \in Seq(Legs)
  <2>1. [key |-> <<x, y>>, dim |-> d] \in Legs
    BY DEF Legs, BucketKeys
  <2> QED
    BY <2>1
<1>2. \A u \in Users : AllowUser(u) \in Seq(Legs)
  <2>1. ASSUME NEW u \in Users PROVE AllowUser(u) \in Seq(Legs)
    <3>1. [key |-> <<"v1", "global">>, dim |-> "global"] \in Legs /\ [key |-> <<"v1", u>>, dim |-> "user"] \in Legs
      BY DEF Legs, BucketKeys, Dimensions
    <3> QED
      BY <3>1 DEF AllowUser
  <2> QED
    BY <2>1
<1>3. \A u \in Users, e \in Envelopes : CheckAll(u, e.evt, e.prio) \in Seq(Legs)
  <2>1. ASSUME NEW u \in Users, NEW e \in Envelopes PROVE CheckAll(u, e.evt, e.prio) \in Seq(Legs)
    <3> DEFINE pr == IF e.prio = "" THEN "normal" ELSE e.prio
    <3>1. u \in Names /\ e.evt \in Names /\ pr \in Names /\ {"user", "event", "prio"} \subseteq Dimensions
      <4>1. e.evt \in {e.evt, e.prio} /\ e.prio \in {e.evt, e.prio}
        OBVIOUS
      <4>2. {e.evt, e.prio} \in {{f.evt, f.prio} : f \in Envelopes}
        OBVIOUS
      <4>3. {e.evt, e.prio} \subseteq UNION {{f.evt, f.prio} : f \in Envelopes}
        BY <4>2
      <4> QED
        BY <4>1, <4>3 DEF Dimensions
    <3> HIDE DEF Names, pr
    <3>2. /\ <<[key |-> <<"user", u>>, dim |-> "user"]>> \in Seq(Legs)
          /\ <<[key |-> <<"event", e.evt>>, dim |-> "event"]>> \in Seq(Legs)
          /\ <<[key |-> <<"prio", pr>>, dim |-> "prio"]>> \in Seq(Legs)
      BY <1>1, <3>1
    <3>3. (IF e.evt \in EventTypes THEN <<[key |-> <<"event", e.evt>>, dim |-> "event"]>> ELSE <<>>) \in Seq(Legs)
      BY <3>2
    <3>4. CheckAll(u, e.evt, e.prio) =
             <<[key |-> <<"user", u>>, dim |-> "user"]>>
             \o (IF e.evt \in EventTypes THEN <<[key |-> <<"event", e.evt>>, dim |-> "event"]>> ELSE <<>>)
             \o <<[key |-> <<"prio", pr>>, dim |-> "prio"]>>
      BY DEF CheckAll, pr
    <3> QED
      BY <3>2, <3>3, <3>4
  <2> QED
    BY <2>1
<1>4. ConnAllow \in Seq(Legs) /\ CampaignAllow \in Seq(Legs)
  BY <1>1 DEF ConnAllow, CampaignAllow, Dimensions
<1>5. \E chain \in Seq(Legs) : asks' = [asks EXCEPT ![q] = chain]
  <2>1. CASE Ask(q)
    <3>1. PICK u \in Users, e \in Envelopes : asks' = [asks EXCEPT ![q] = AllowUser(u) \o CheckAll(u, e.evt, e.prio)]
      BY <2>1 DEF Ask
    <3>2. AllowUser(u) \o CheckAll(u, e.evt, e.prio) \in Seq(Legs)
      BY <1>2, <1>3
    <3> QED
      BY <3>1, <3>2
  <2>2. CASE AskOne(q)
    BY <1>4, <2>2 DEF AskOne
  <2> QED
    BY <2>1, <2>2
<1>6. buckets' = buckets
  BY DEF Ask, AskOne
<1> QED
  BY <1>5, <1>6 DEF Metered, Balanced

\* What was passed is paid by the burst and the time up to the latest moment seen.
LEMMA BalancedWithin == Metered => WithinRate
<1> SUFFICES ASSUME Metered, NEW k \in DOMAIN buckets
             PROVE  buckets[k].passed * Unit
                      <= Burst[buckets[k].dim] * Unit + (buckets[k].peak - buckets[k].born) * Rate[buckets[k].dim]
  BY DEF WithinRate
<1> DEFINE b == buckets[k]
           R == Rate[b.dim]
<1>1. b \in Buckets /\ Balanced(b)
  BY DEF Metered
<1>2. /\ R \in Nat /\ Burst[b.dim] \in Nat /\ Unit \in Nat /\ b.passed \in Nat /\ b.tokens \in Int /\ b.last \in Nat
      /\ b.born \in Nat /\ b.peak \in Nat
  BY <1>1, LimitsFacts DEF Buckets
<1>3. /\ (b.peak - b.born) * R = (b.last - b.born) * R + (b.peak - b.last) * R
      /\ (b.last - b.born) * R \in Int /\ (b.peak - b.last) * R \in Int /\ b.passed * Unit \in Nat
      /\ Burst[b.dim] * Unit \in Nat
  BY <1>2
<1>4. b.passed * Unit + b.tokens <= Burst[b.dim] * Unit + (b.last - b.born) * R /\ b.tokens + (b.peak - b.last) * R >= 0
  BY <1>1 DEF Balanced
<1> HIDE DEF b, R
<1>5. b.passed * Unit <= Burst[b.dim] * Unit + (b.peak - b.born) * R
  BY <1>2, <1>3, <1>4
<1> QED
  BY <1>5 DEF b, R

-----------------------------------------------------------------------------
LEMMA ClientStep ==
    ASSUME Tripped, ClientNext
    PROVE  Tripped'
<1>0. /\ breaker.state \in {"closed", "open", "half_open"} /\ breaker.failures \in Nat /\ breaker.failures = report
      /\ breaker = [state |-> breaker.state, failures |-> breaker.failures]
      /\ (breaker.state = "closed") = (report < Threshold)
      /\ Threshold \in Nat \ {0}
  BY LimitsFacts DEF Tripped, BreakerAgrees
<1>1. PICK c \in Callers : Post(c) \/ BackoffOver(c) \/ Cancelled(c) \/ \E answer \in Answers : Answer(c, answer)
  BY DEF ClientNext
<1>2. CASE Post(c)
  <2>1. PICK cool \in BOOLEAN : breaker' = Allow(breaker, cool) /\ report' = report
    BY <1>2 DEF Post
  <2> QED
    BY <1>0, <2>1 DEF Allow, Tripped, BreakerAgrees
<1>3. CASE BackoffOver(c) \/ Cancelled(c)
  BY <1>0, <1>3 DEF BackoffOver, Cancelled, Tripped, BreakerAgrees
<1>4. ASSUME NEW answer \in Answers, Answer(c, answer) PROVE Tripped'
  <2>1. \/ breaker' = RecordSuccess(breaker) /\ report' = 0
        \/ UNCHANGED <<breaker, report>>
        \/ breaker' = RecordFailure(breaker) /\ report' = report + 1
    BY <1>4 DEF Answer
  <2>2. CASE breaker' = RecordSuccess(breaker) /\ report' = 0
    BY <1>0, <2>2 DEF RecordSuccess, Tripped, BreakerAgrees
  <2>3. CASE UNCHANGED <<breaker, report>>
    BY <2>3 DEF Tripped, BreakerAgrees
  <2>4. CASE breaker' = RecordFailure(breaker) /\ report' = report + 1
    BY <1>0, <2>4 DEF RecordFailure, Tripped, BreakerAgrees
  <2> QED
    BY <2>1, <2>2, <2>3, <2>4
<1> QED
  BY <1>1, <1>2, <1>3, <1>4

LEMMA LimitsInitially == LimitsInit => LimitsInv
<1> SUFFICES ASSUME LimitsInit PROVE LimitsInv
  OBVIOUS
<1>1. wall \in 0 .. MaxWall
  BY LimitsFacts DEF LimitsInit
<1>2. Minted
  BY LimitsFacts DEF LimitsInit, Minted, FlakeTypeOK, LastId, IdsUnique
<1>3. Metered
  BY DEF LimitsInit, Metered
<1>4. Tripped
  BY LimitsFacts DEF LimitsInit, Tripped, BreakerAgrees
<1> QED
  BY <1>1, <1>2, <1>3, <1>4 DEF LimitsInv

LEMMA LimitsStep == LimitsInv /\ [LimitsNext]_limitsVars => LimitsInv'
<1> SUFFICES ASSUME LimitsInv, [LimitsNext]_limitsVars PROVE LimitsInv'
  OBVIOUS
<1>0. wall \in 0 .. MaxWall /\ Minted /\ Metered /\ Tripped
  BY DEF LimitsInv
<1>1. CASE WallMoves
  BY <1>0, <1>1 DEF WallMoves, flakeVars, bucketVars, clientVars, LimitsInv, Minted, FlakeTypeOK, LastId, IdsUnique,
                    Metered, Balanced, Tripped, BreakerAgrees
<1>2. CASE Generate \/ NextMilli
  <2>1. UNCHANGED <<wall, bucketVars, clientVars>>
    BY <1>2 DEF Generate, NextMilli
  <2>2. Minted'
    BY <1>0, <1>2, FlakeStep
  <2> QED
    BY <1>0, <2>1, <2>2 DEF bucketVars, clientVars, LimitsInv, Metered, Balanced, Tripped, BreakerAgrees
<1>3. ASSUME NEW q \in Requesters, Ask(q) \/ AskOne(q) \/ Take(q) PROVE LimitsInv'
  <2>1. UNCHANGED <<wall, flakeVars, clientVars>>
    BY <1>3 DEF Ask, AskOne, Take
  <2>2. Metered'
    BY <1>0, <1>3, AskStep, TakeStep
  <2> QED
    BY <1>0, <2>1, <2>2 DEF flakeVars, clientVars, LimitsInv, Minted, FlakeTypeOK, LastId, IdsUnique, Tripped, BreakerAgrees
<1>4. CASE ClientNext
  <2>1. UNCHANGED <<wall, flakeVars, bucketVars>>
    BY <1>4 DEF ClientNext, Post, Answer, BackoffOver, Cancelled
  <2>2. Tripped'
    BY <1>0, <1>4, ClientStep
  <2> QED
    BY <1>0, <2>1, <2>2 DEF flakeVars, bucketVars, LimitsInv, Minted, FlakeTypeOK, LastId, IdsUnique, Metered, Balanced
<1>5. CASE UNCHANGED limitsVars
  BY <1>0, <1>5 DEF limitsVars, flakeVars, bucketVars, clientVars, LimitsInv, Minted, FlakeTypeOK, LastId, IdsUnique,
                    Metered, Balanced, Tripped, BreakerAgrees
<1> QED
  BY <1>1, <1>2, <1>3, <1>4, <1>5 DEF LimitsNext, FlakeNext, BucketNext

\* IDs are unique and grow, no bucket lets more through than its burst and the
\* time it saw, and the breaker agrees with the failures reported, for any
\* rates, clocks, requests and callers (Generate, allow, AllowN,
\* RecordFailure).
THEOREM LimitsHold == LimitsSpec => []WithinLimits
<1>1. LimitsInv => WithinLimits
  BY BalancedWithin DEF LimitsInv, Minted, Tripped, WithinLimits
<1> QED
  BY LimitsInitially, LimitsStep, <1>1, PTL DEF LimitsSpec

=============================================================================
