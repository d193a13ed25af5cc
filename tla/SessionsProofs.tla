--------------------------- MODULE SessionsProofs ---------------------------
(***************************************************************************)
(* Proofs about the sessions of a user for any connections, devices, keys  *)
(* and logic processes, any times to live and any faults.                  *)
(***************************************************************************)
EXTENDS Sessions, Sync, Nodes, FiniteSetTheorems, WellFoundedInduction, TLAPS

\* The keys that lead to a session are those of its connection, and a call
\* works on a session of its own device or key only.
Related(s, c) == Key[s] = Key[c] \/ DeviceOf(s) = DeviceOf(c)
Named ==
    /\ \A d \in Devices : device[d].sid # None => DeviceOf(device[d].sid) = d
    /\ \A k \in Keys : keySid[k].sid # None => Key[keySid[k].sid] = k
    /\ \A c \in Conns : call[c].sid # None => Related(call[c].sid, c)
    /\ \A c \in Conns : at[c] \in {"look", "get", "delete"} => call[c].sid # None
    /\ \A k \in Calls : at[k] # "absent" => P(k) \in Logics

\* Where the call of a connection can be, given what the gateway knows of it.
Fits(phase, point) ==
    /\ phase = "absent" => point = "absent"
    /\ phase \in {"new", "gone"} => point = "idle"
    /\ phase \in {"open", "closing"} => point \in {"idle", "beat"}
    /\ phase = "connecting" => point \in {"device", "get", "delete", "refresh", "reading", "listed",
                                         "comet", "add", "added"}
    /\ phase = "leaving" => point \in {"look", "get", "delete", "refresh", "reading", "listed", "comet"}
Phases == \A c \in Conns : Fits(conn[c], at[c])

\* From the write of its keys on, a connection keeps its session.
Kept(c) == session[c] > 0 \/ c \in lapsed \/ \E d \in Conns : Rival(c, d)
Keeps == \A c \in Conns : conn[c] = "open" \/ at[c] = "added" => Kept(c)

IInv == TypeOK /\ Listed /\ Named /\ Phases /\ Keeps

-----------------------------------------------------------------------------
(* Facts the steps share *)

LEMMA NameType ==
    ASSUME NEW c \in Conns
    PROVE  DeviceOf(c) \in Devices /\ Key[c] \in Keys /\ c \in Calls
BY SessionsAssumption DEF SessionsAssumption, Devices, Keys, Calls

LEMMA EntryType ==
    ASSUME TypeOK
    PROVE  /\ \A d \in Devices : device[d] \in Entry /\ device[d].sid \in Conns \cup {None}
           /\ \A k \in Keys : keySid[k] \in Entry /\ keySid[k].sid \in Conns \cup {None}
BY DEF TypeOK, Entry

LEMMA CallType ==
    ASSUME TypeOK, NEW k \in Calls
    PROVE  /\ call[k] \in Call /\ call[k].p \in Logics \cup {None} /\ call[k].sid \in Conns \cup {None}
           /\ call[k].list \subseteq Conns /\ call[k].todo \subseteq Conns
BY DEF TypeOK, Call

\* Redis and the caches and what the gateway knows, apart from the calls.
Stored ==
    /\ session \in [Conns -> 0..TTL]
    /\ list \subseteq Conns /\ listTTL \in 0..TTL
    /\ device \in [Devices -> Entry] /\ keySid \in [Keys -> Entry]
    /\ lapsed \subseteq Conns /\ beaten \subseteq Conns /\ faults \in Nat

LEMMA NewEntries ==
    /\ Empty \in Entry
    /\ \A c \in Conns : [sid |-> c, ttl |-> TTL] \in Entry
    /\ \A e \in Entry : Older(e) \in Entry /\ Older(e).sid \in {e.sid, None}
<1> USE SessionsAssumption DEF SessionsAssumption
<1>1. Empty \in Entry
  BY DEF Empty, Entry
<1>2. ASSUME NEW c \in Conns PROVE [sid |-> c, ttl |-> TTL] \in Entry
  BY DEF Entry
<1>3. ASSUME NEW e \in Entry PROVE Older(e) \in Entry /\ Older(e).sid \in {e.sid, None}
  BY <1>1 DEF Entry, Older, Empty
<1> QED
  BY <1>1, <1>2, <1>3

\* Every variable keeps its type.
LEMMA StoredStep == TypeOK /\ Named /\ [Next]_vars => Stored'
<1> USE SessionsAssumption DEF SessionsAssumption
<1> SUFFICES ASSUME TypeOK, Named, [Next]_vars PROVE Stored'
  OBVIOUS
<1> USE DEF redis, memory, Fault
<1>0. Stored
  BY DEF TypeOK, Stored
<1>s. ASSUME UNCHANGED <<redis, lapsed>>, beaten' \subseteq Conns, faults' \in Nat PROVE Stored'
  BY <1>0, <1>s DEF Stored
<1>f. /\ Fault => faults' \in Nat
      /\ UNCHANGED faults => faults' \in Nat
      /\ UNCHANGED beaten => beaten' \subseteq Conns
      /\ \A c \in Conns : Beaten(c) => beaten' \subseteq Conns
  BY DEF TypeOK, Beaten
<1>1. ASSUME NEW c \in Conns,
             \/ Connect(c) \/ Create(c) \/ Kick(c) \/ KickConnection(c) \/ Connected(c)
             \/ Heartbeat(c) \/ Close(c) \/ Disconnect(c) \/ DisconnectReads(c)
      PROVE  Stored'
  <2> HIDE DEF Fault
  <2>1. UNCHANGED <<redis, lapsed>>
    BY <1>1 DEF Connect, Create, Kick, KickConnection, Connected, Heartbeat, Close, Disconnect, DisconnectReads
  <2>2. beaten' \subseteq Conns
    BY <1>1, <1>f DEF Connect, Create, Kick, KickConnection, Connected, Heartbeat, Close, Disconnect,
                      DisconnectReads
  <2>3. faults' \in Nat
    BY <1>1, <1>f DEF Connect, Create, Kick, KickConnection, Connected, Heartbeat, Close, Disconnect,
                      DisconnectReads
  <2> QED
    BY <2>1, <2>2, <2>3, <1>s
<1>2. ASSUME NEW k \in Calls, GetUserSessions(k) \/ ReadOne(k) \/ StoreSessions(k) \/ RefreshRoute(k)
      PROVE  Stored'
  <2> HIDE DEF Fault
  <2> QED
    BY <1>2, <1>s, <1>f DEF GetUserSessions, ReadOne, StoreSessions, RefreshRoute
<1>3. ASSUME NEW r \in Readers, GetSessions(r) PROVE Stored'
  BY <1>3, <1>s, <1>f DEF GetSessions
<1>4. ASSUME NEW c \in Conns, DelSession(c) PROVE Stored'
  <2>1. call[c].sid \in Conns
    BY <1>4, CallType, NameType DEF DelSession, Named
  <2>2. /\ session' \in [Conns -> 0..TTL] /\ list' \subseteq Conns
        /\ UNCHANGED <<listTTL, lapsed, beaten>> /\ faults' \in Nat
    <3> HIDE DEF Fault
    <3>1. /\ session' = [session EXCEPT ![call[c].sid] = 0] \/ session' = session
          /\ list' \subseteq list
          /\ UNCHANGED <<listTTL, lapsed, beaten>> /\ (Fault \/ UNCHANGED faults)
      BY <1>4 DEF DelSession
    <3> QED
      BY <3>1, <1>f, <1>0 DEF Stored
  <2>3. device' \in [Devices -> Entry] /\ keySid' \in [Keys -> Entry]
    BY <1>4, <2>1, NewEntries DEF DelSession, TypeOK
  <2> QED
    BY <2>2, <2>3, <1>0 DEF Stored
<1>5. ASSUME NEW c \in Conns, AddSession(c) PROVE Stored'
  <2>1. Added(c) => /\ session' \in [Conns -> 0..TTL] /\ list' \subseteq Conns /\ listTTL' \in 0..TTL
                    /\ device' \in [Devices -> Entry] /\ keySid' \in [Keys -> Entry]
    <3>1. Added(c) => session' \in [Conns -> 0..TTL] /\ list' \subseteq Conns /\ listTTL' \in 0..TTL
      <4>1. TTL \in 0..TTL /\ session \in [Conns -> 0..TTL] /\ list \subseteq Conns
        BY DEF TypeOK
      <4> QED
        BY <4>1 DEF Added
    <3>2. Added(c) => device' \in [Devices -> Entry] /\ keySid' \in [Keys -> Entry]
      <4>1. device \in [Devices -> Entry] /\ keySid \in [Keys -> Entry]
        BY DEF TypeOK
      <4> DEFINE e == [sid |-> c, ttl |-> TTL]
      <4>2. e \in Entry
        BY DEF Entry
      <4>3. Added(c) => /\ device' = [device EXCEPT ![DeviceOf(c)] = e]
                        /\ keySid' = [keySid EXCEPT ![Key[c]] = e]
        BY DEF Added
      <4> HIDE DEF e
      <4> QED
        BY <4>1, <4>2, <4>3
    <3> QED
      BY <3>1, <3>2
  <2>2. UNCHANGED <<lapsed, beaten>> /\ (Added(c) \/ UNCHANGED redis) /\ faults' \in Nat
    BY <1>5, <1>f DEF AddSession
  <2> QED
    BY <2>1, <2>2, <1>0 DEF Stored
<1>6. ASSUME NEW c \in Conns, HeartbeatEnds(c) PROVE Stored'
  <2>1. session' \in [Conns -> 0..TTL] /\ listTTL' \in 0..TTL /\ UNCHANGED <<list, device, keySid, lapsed>>
    BY <1>6 DEF HeartbeatEnds, ExpireSession, TypeOK
  <2>2. faults' \in Nat /\ beaten' \subseteq Conns
    BY <1>6, <1>f DEF HeartbeatEnds
  <2> QED
    BY <2>1, <2>2, <1>0 DEF Stored
<1>7. CASE Tick
  <2>1. \A n \in 0..TTL : Less(n) \in 0..TTL
    BY DEF Less
  <2>2. session' \in [Conns -> 0..TTL] /\ listTTL' \in 0..TTL /\ list' \subseteq Conns
    BY <1>7, <2>1 DEF Tick, TypeOK
  <2>3. device' \in [Devices -> Entry] /\ keySid' \in [Keys -> Entry]
    BY <1>7, NewEntries, EntryType DEF Tick
  <2> QED
    BY <1>7, <2>2, <2>3, <1>0 DEF Tick, Stored
<1>8. CASE UNCHANGED vars
  BY <1>8, <1>0 DEF vars, Stored
<1> QED
  BY <1>1, <1>2, <1>3, <1>4, <1>5, <1>6, <1>7, <1>8 DEF Next

LEMMA TypeStep == TypeOK /\ Named /\ Phases /\ [Next]_vars => TypeOK'
<1> SUFFICES ASSUME TypeOK, Named, Phases, [Next]_vars PROVE TypeOK'
  OBVIOUS
<1> DEFINE
      Caches == cache' \in [Logics -> Cached] /\ route' \in [Logics -> Conns \cup {None}]
      States == conn' \in [Conns -> {"absent", "new", "connecting", "open", "closing", "leaving", "gone"}]
      Points == {"absent", "idle", "look", "device", "get", "delete", "refresh", "reading",
                 "listed", "comet", "add", "added", "beat"}
      CallsOK == at' \in [Calls -> Points] /\ call' \in [Calls -> Call]
<1>0. Stored'
  BY StoredStep
<1>t. ASSUME Caches, States, CallsOK PROVE TypeOK'
  BY <1>0, <1>t DEF TypeOK, Stored
<1>c. cache \in [Logics -> Cached] /\ call \in [Calls -> Call] /\ at \in [Calls -> Points]
  BY DEF TypeOK
<1>d. call \in [Calls -> Call]
  BY DEF TypeOK
<1>m. UNCHANGED memory => Caches
  BY DEF TypeOK, memory
<1>n. UNCHANGED conn => States
  BY DEF TypeOK
<1>g. ASSUME NEW k \in Calls, NEW s \in Points, Goto(k, s) PROVE at' \in [Calls -> Points]
  BY <1>g, <1>c DEF Goto
<1>r. ASSUME NEW k \in Calls, Return(k) PROVE call' \in [Calls -> Call]
  <2>1. NoCall(P(k)) \in Call
    BY CallType DEF NoCall, P, Call
  <2> QED
    BY <1>c, <1>r, <2>1 DEF Return
<1>e. NoCache \in Cached
  BY SessionsAssumption DEF SessionsAssumption, NoCache, Cached
<1>k. ASSUME NEW c \in Conns PROVE c \in Calls
  BY DEF Calls
<1>p. ASSUME NEW p, cache' = [cache EXCEPT ![p] = NoCache] PROVE cache' \in [Logics -> Cached]
  BY <1>c, <1>e, <1>p
<1>q. ASSUME NEW p, NEW c \in Conns \cup {None}, SetRoute(p, c) PROVE route' \in [Logics -> Conns \cup {None}]
  BY <1>q DEF SetRoute, TypeOK
<1>1. ASSUME NEW c \in Conns, Connect(c) PROVE TypeOK'
  BY <1>1, <1>t, <1>m, <1>g, <1>k DEF Connect, TypeOK
<1>2. ASSUME NEW c \in Conns, Create(c) PROVE TypeOK'
  <2>1. at' \in [Calls -> Points]
    BY <1>2, <1>g, <1>k DEF Create
  <2>2. CASE UNCHANGED call
    BY <1>2, <2>1, <2>2, <1>t, <1>m, <1>n, <1>c DEF Create
  <2>3. CASE ~UNCHANGED call
    <3> DEFINE old == GetDeviceSession(c)
    <3>1. old \in Conns \cup {None}
      BY EntryType, NameType DEF GetDeviceSession
    <3>2. call' = [call EXCEPT ![c].sid = old, ![c].known = TRUE]
      BY <1>2, <2>3 DEF Create
    <3> HIDE DEF old
    <3>3. call' \in [Calls -> Call]
      <4>1. c \in Calls /\ call[c] \in Call
        BY <1>d, <1>k
      <4>2. [call[c] EXCEPT !.sid = old, !.known = TRUE] \in Call
        BY <4>1, <3>1 DEF Call
      <4> DEFINE after == [call[c] EXCEPT !.sid = old, !.known = TRUE]
      <4>3. call' = [call EXCEPT ![c] = after]
        BY <3>2
      <4> HIDE DEF after
      <4> QED
        BY <4>1, <4>2, <4>3, <1>d DEF after
    <3> QED
      BY <1>2, <2>1, <3>3, <1>t, <1>m, <1>n DEF Create
  <2> QED
    BY <2>2, <2>3
<1>3. ASSUME NEW c \in Conns, Kick(c) PROVE TypeOK'
  <2>1. GetSession(call[c].sid) \in BOOLEAN
    BY DEF GetSession
  <2>2. PICK f \in BOOLEAN : call' = [call EXCEPT ![c].found = f]
    BY <1>3, <2>1 DEF Kick
  <2>3. call' \in [Calls -> Call]
    BY <1>d, <1>k, <2>2 DEF Call
  <2> QED
    BY <1>3, <2>3, <1>t, <1>m, <1>n, <1>g, <1>k DEF Kick
<1>4. ASSUME NEW c \in Conns, DelSession(c) PROVE TypeOK'
  <2>1. Caches
    BY <1>4, <1>p, <1>c DEF DelSession, TypeOK
  <2>2. States
    BY <1>4, <1>n DEF DelSession, Left, TypeOK
  <2>3. CallsOK
    BY <1>4, <1>g, <1>r, <1>k, <1>c DEF DelSession, AfterKick
  <2> QED
    BY <2>1, <2>2, <2>3, <1>t
<1>5. ASSUME NEW k \in Calls, GetUserSessions(k) PROVE TypeOK'
  <2>1. PICK todo \in SUBSET Conns, l \in SUBSET Conns :
           \/ call' = [call EXCEPT ![k].list = l]
           \/ call' = [call EXCEPT ![k].todo = todo, ![k].list = l]
    <3>1. Fresh(P(k)) => cache[P(k)].list \in SUBSET Conns
      <4>1. CASE P(k) \in Logics
        BY <1>c, <4>1 DEF Cached
      <4>2. P(k) \in Logics
        BY <1>5 DEF GetUserSessions, Named
      <4> QED
        BY <4>1, <4>2
    <3>2. (IF listTTL > 0 THEN list ELSE {}) \in SUBSET Conns /\ {} \in SUBSET Conns
      BY DEF TypeOK
    <3> QED
      BY <1>5, <3>1, <3>2 DEF GetUserSessions
  <2>2. call' \in [Calls -> Call]
    BY <1>c, <2>1 DEF Call
  <2>3. at' \in [Calls -> Points]
    BY <1>5, <1>g DEF GetUserSessions
  <2> QED
    BY <1>5, <2>2, <2>3, <1>t, <1>m, <1>n DEF GetUserSessions
<1>6. ASSUME NEW k \in Calls, ReadOne(k) PROVE TypeOK'
  <2>1. PICK s \in call[k].todo :
           \/ call' = [call EXCEPT ![k].todo = @ \ {s}, ![k].list = IF GetSession(s) THEN @ \cup {s} ELSE @]
           \/ call' = [call EXCEPT ![k].todo = @ \ {s}]
    BY <1>6 DEF ReadOne
  <2>2. s \in Conns
    BY CallType
  <2>3. call' \in [Calls -> Call]
    BY <1>d, <2>1, <2>2 DEF Call
  <2> QED
    BY <1>6, <2>3, <1>t, <1>m, <1>n, <1>c DEF ReadOne
<1>7. ASSUME NEW k \in Calls, StoreSessions(k) PROVE TypeOK'
  <2>1. [list |-> call[k].list, age |-> 0] \in Cached
    BY CallType, SessionsAssumption DEF SessionsAssumption, Cached
  <2>2. cache' \in [Logics -> Cached]
    BY <1>7, <1>c, <2>1 DEF StoreSessions
  <2> QED
    BY <1>7, <2>2, <1>t, <1>n, <1>g, <1>c DEF StoreSessions, TypeOK
<1>8. ASSUME NEW k \in Calls, RefreshRoute(k) PROVE TypeOK'
  <2>1. route' \in [Logics -> Conns \cup {None}]
    BY <1>8, <1>q, CallType DEF RefreshRoute, TypeOK
  <2>2. call' \in [Calls -> Call]
    <3>1. CASE Return(k)
      BY <3>1, <1>r
    <3>2. CASE call' = [call EXCEPT ![k].list = {}]
      BY <1>c, <3>2 DEF Call
    <3> QED
      BY <1>8, <3>1, <3>2 DEF RefreshRoute
  <2>3. at' \in [Calls -> Points]
    BY <1>8, <1>g DEF RefreshRoute
  <2> QED
    BY <1>8, <2>1, <2>2, <2>3, <1>t, <1>n, <1>c DEF RefreshRoute
<1>9. ASSUME NEW c \in Conns, KickConnection(c) PROVE TypeOK'
  <2>1. CallsOK
    BY <1>9, <1>g, <1>r, <1>k DEF KickConnection, AfterKick
  <2>2. States
    BY <1>9 DEF KickConnection, TypeOK
  <2> QED
    BY <1>9, <2>1, <2>2, <1>t, <1>m DEF KickConnection
<1>10. ASSUME NEW c \in Conns, AddSession(c) PROVE TypeOK'
  <2>1. States
    BY <1>10 DEF AddSession, TypeOK
  <2>2. CallsOK
    BY <1>10, <1>g, <1>k, <1>c DEF AddSession
  <2> QED
    BY <1>10, <2>1, <2>2, <1>t, <1>m DEF AddSession
<1>11. ASSUME NEW c \in Conns, Connected(c) PROVE TypeOK'
  <2>1. States
    BY <1>11 DEF Connected, TypeOK
  <2>2. CallsOK /\ Caches
    BY <1>11, <1>g, <1>k, <1>c, <1>p, <1>q DEF Connected
  <2> QED
    BY <2>1, <2>2, <1>t
<1>12. ASSUME NEW c \in Conns, Heartbeat(c) \/ Disconnect(c) PROVE TypeOK'
  <2> DEFINE sid == GetSessionByKey(Key[c])
  <2>1. sid \in Conns \cup {None}
    BY EntryType, NameType DEF GetSessionByKey
  <2>2. call' = [call EXCEPT ![c].sid = sid] \/ UNCHANGED call
    BY <1>12 DEF Heartbeat, Disconnect
  <2>3. at' \in [Calls -> Points]
    BY <1>12, <1>g, <1>k, <1>c DEF Heartbeat, Disconnect
  <2>4. States
    BY <1>12, <1>n DEF Heartbeat, Disconnect, TypeOK
  <2>5. UNCHANGED memory
    BY <1>12 DEF Heartbeat, Disconnect
  <2> HIDE DEF sid
  <2>6. call' \in [Calls -> Call]
    BY <1>d, <2>1, <2>2 DEF Call
  <2> QED
    BY <2>3, <2>4, <2>5, <2>6, <1>t, <1>m
<1>13. ASSUME NEW c \in Conns, HeartbeatEnds(c) PROVE TypeOK'
  BY <1>13, <1>t, <1>m, <1>n, <1>g, <1>r, <1>k DEF HeartbeatEnds
<1>14. ASSUME NEW c \in Conns, Close(c) PROVE TypeOK'
  BY <1>14, <1>t, <1>m, <1>c DEF Close, TypeOK
<1>15. ASSUME NEW c \in Conns, DisconnectReads(c) PROVE TypeOK'
  <2>1. GetSession(call[c].sid) \in BOOLEAN
    BY DEF GetSession
  <2>2. PICK f \in BOOLEAN : call' = [call EXCEPT ![c].known = f]
    BY <1>15, <2>1 DEF DisconnectReads
  <2>3. call' \in [Calls -> Call]
    BY <1>d, <1>k, <2>2 DEF Call
  <2> QED
    BY <1>15, <2>3, <1>t, <1>m, <1>n, <1>g, <1>k DEF DisconnectReads
<1>16. ASSUME NEW r \in Readers, GetSessions(r) PROVE TypeOK'
  BY <1>16, <1>t, <1>m, <1>n, <1>g, <1>c DEF GetSessions, Calls
<1>17. CASE Tick
  <2>1. ASSUME NEW p \in Logics PROVE Aged(p) \in Cached
    BY <1>c, SessionsAssumption DEF SessionsAssumption, Aged, Cached
  <2>2. cache' \in [Logics -> Cached]
    BY <1>17, <2>1 DEF Tick
  <2> QED
    BY <1>17, <2>2, <1>t, <1>n, <1>c DEF Tick, TypeOK
<1>18. CASE UNCHANGED vars
  BY <1>18, <1>t, <1>m, <1>n, <1>c DEF vars
<1> QED
  BY <1>1, <1>2, <1>3, <1>4, <1>5, <1>6, <1>7, <1>8, <1>9, <1>10, <1>11, <1>12, <1>13, <1>14,
     <1>15, <1>16, <1>17, <1>18 DEF Next

-----------------------------------------------------------------------------
(* The list of the user *)

\* The list is at least as young as every session in it.
LEMMA ListedStep == TypeOK /\ Named /\ Listed /\ [Next]_vars => Listed'
<1> USE SessionsAssumption DEF SessionsAssumption
<1> SUFFICES ASSUME TypeOK, Named, Listed, [Next]_vars PROVE Listed'
  OBVIOUS
<1>t. /\ session \in [Conns -> 0..TTL] /\ listTTL \in 0..TTL /\ list \subseteq Conns
      /\ \A c \in Conns : session[c] > 0 => c \in list /\ listTTL >= session[c]
  BY DEF TypeOK, Listed
<1>0. ASSUME UNCHANGED <<session, list, listTTL>> PROVE Listed'
  BY <1>0 DEF Listed
<1>1. ASSUME NEW c \in Conns,
             \/ Connect(c) \/ Create(c) \/ Kick(c) \/ KickConnection(c) \/ Connected(c)
             \/ Heartbeat(c) \/ Close(c) \/ Disconnect(c) \/ DisconnectReads(c)
      PROVE  Listed'
  BY <1>1, <1>0 DEF Connect, Create, Kick, KickConnection, Connected, Heartbeat, Close, Disconnect,
                    DisconnectReads, redis
<1>2. ASSUME NEW k \in Calls, GetUserSessions(k) \/ ReadOne(k) \/ StoreSessions(k) \/ RefreshRoute(k)
      PROVE  Listed'
  BY <1>2, <1>0 DEF GetUserSessions, ReadOne, StoreSessions, RefreshRoute, redis
<1>3. ASSUME NEW r \in Readers, GetSessions(r) PROVE Listed'
  BY <1>3, <1>0 DEF GetSessions, redis
<1>4. ASSUME NEW c \in Conns, DelSession(c) PROVE Listed'
  <2>1. CASE UNCHANGED <<session, list, listTTL>>
    BY <2>1, <1>0
  <2>2. CASE session' = [session EXCEPT ![call[c].sid] = 0] /\ list' = list \ {call[c].sid} /\ UNCHANGED listTTL
    BY <2>2, <1>t DEF Listed
  <2> QED
    BY <1>4, <2>1, <2>2 DEF DelSession
<1>5. ASSUME NEW c \in Conns, AddSession(c) PROVE Listed'
  <2>1. CASE UNCHANGED redis
    BY <2>1, <1>0 DEF redis
  <2>2. CASE Added(c)
    BY <2>2, <1>t DEF Added, Listed
  <2> QED
    BY <1>5, <2>1, <2>2 DEF AddSession
<1>6. ASSUME NEW c \in Conns, HeartbeatEnds(c) PROVE Listed'
  <2>1. CASE UNCHANGED redis
    BY <2>1, <1>0 DEF redis
  <2>2. CASE ExpireSession(c)
    BY <2>2, <1>t DEF ExpireSession, Listed
  <2> QED
    BY <1>6, <2>1, <2>2 DEF HeartbeatEnds
<1>7. CASE Tick
  BY <1>7, <1>t DEF Tick, Less, Listed
<1>8. CASE UNCHANGED vars
  BY <1>8, <1>0 DEF vars, redis
<1> QED
  BY <1>1, <1>2, <1>3, <1>4, <1>5, <1>6, <1>7, <1>8 DEF Next

-----------------------------------------------------------------------------
(* Calls and the sessions they are about *)

\* A step of call k leaves the other calls alone and stays with its process.
Turn(k) ==
    /\ at[k] # "absent" /\ P(k)' = P(k)
    /\ \A j \in Calls \ {k} : at'[j] = at[j] /\ call'[j] = call[j]

LEMMA NamedTurn ==
    ASSUME TypeOK, Named, UNCHANGED <<device, keySid>>, NEW k \in Calls, Turn(k),
           k \in Conns => /\ call'[k].sid # None => call'[k].sid = call[k].sid \/ Related(call'[k].sid, k)
                          /\ at'[k] \in {"look", "get", "delete"} => call'[k].sid # None
    PROVE  Named'
<1>1. \A c \in Conns : c \in Calls
  BY DEF Calls
<1>2. \A j \in Calls : at'[j] # "absent" => call'[j].p \in Logics
  BY DEF Turn, Named, P
<1>3. \A c \in Conns : call'[c].sid # None => Related(call'[c].sid, c)
  BY <1>1 DEF Turn, Named
<1>4. \A c \in Conns : at'[c] \in {"look", "get", "delete"} => call'[c].sid # None
  BY <1>1 DEF Turn, Named
<1>5. /\ \A d \in Devices : device'[d].sid # None => DeviceOf(device'[d].sid) = d
      /\ \A q \in Keys : keySid'[q].sid # None => Key[keySid'[q].sid] = q
  BY DEF Named
<1> QED
  BY <1>2, <1>3, <1>4, <1>5 DEF Named, P, Related, DeviceOf

LEMMA GotoTurn ==
    ASSUME TypeOK, NEW k \in Calls, NEW s, Goto(k, s)
    PROVE  at'[k] = s /\ \A j \in Calls \ {k} : at'[j] = at[j]
BY DEF Goto, TypeOK

LEMMA ReturnTurn ==
    ASSUME TypeOK, NEW k \in Calls, Return(k)
    PROVE  /\ call'[k].p = call[k].p /\ call'[k].sid = None
           /\ \A j \in Calls \ {k} : call'[j] = call[j]
BY DEF Return, NoCall, P, TypeOK

\* Names stay right: a call finds a session by its device or its key only.
LEMMA NamedStep == TypeOK /\ Named /\ Phases /\ [Next]_vars => Named'
<1> SUFFICES ASSUME TypeOK, Named, Phases, [Next]_vars PROVE Named'
  OBVIOUS
<1>k. \A c \in Conns : c \in Calls
  BY DEF Calls
<1>d. call \in [Calls -> Call]
  BY DEF TypeOK
<1>n. /\ \A c \in Conns : at[c] \in {"look", "get", "delete"} => call[c].sid # None
      /\ \A c \in Conns : call[c].sid # None => Related(call[c].sid, c)
      /\ \A j \in Calls : at[j] # "absent" => call[j].p \in Logics
  BY DEF Named, P
<1>1. ASSUME NEW c \in Conns, Connect(c) PROVE Named'
  <2>1. Turn(c) /\ at'[c] = "device" /\ call'[c].sid = call[c].sid
    BY <1>1, <1>k, GotoTurn DEF Connect, Turn, P, Phases, Fits
  <2> QED
    BY <1>1, <1>k, <2>1, NamedTurn DEF Connect, redis
<1>2. ASSUME NEW c \in Conns, Create(c) PROVE Named'
  <2> DEFINE old == GetDeviceSession(c)
  <2>1. old # None => Related(old, c)
    BY NameType DEF GetDeviceSession, Named, Related
  <2>2. CASE UNCHANGED call
    <3>1. Turn(c) /\ at'[c] \in {"get", "add"} /\ call'[c].sid = call[c].sid
      BY <1>2, <1>k, <2>2, GotoTurn DEF Create, Turn, P
    <3>2. at'[c] = "add" \/ call'[c].sid # None
      <4>1. CASE Goto(c, "add")
        BY <4>1, <1>k, GotoTurn
      <4>2. CASE old # None /\ call' = [call EXCEPT ![c].sid = old, ![c].known = TRUE]
        <5> HIDE DEF old
        <5> QED
          BY <4>2, <1>k, <1>d DEF Call
      <4> QED
        BY <1>2, <4>1, <4>2 DEF Create
    <3> QED
      BY <1>2, <1>k, <3>1, <3>2, NamedTurn DEF Create, redis
  <2>3. CASE ~UNCHANGED call
    <3>1. /\ call' = [call EXCEPT ![c].sid = old, ![c].known = TRUE] /\ old # None /\ Goto(c, "get")
          /\ UNCHANGED <<device, keySid>> /\ at[c] = "device"
      BY <1>2, <2>3 DEF Create, redis
    <3> HIDE DEF old
    <3>2. call'[c].sid = old /\ call'[c].p = call[c].p /\ \A j \in Calls \ {c} : call'[j] = call[j]
      BY <1>k, <1>d, <3>1 DEF Call
    <3>3. Turn(c) /\ at'[c] = "get"
      BY <1>k, <3>1, <3>2, GotoTurn DEF Turn, P
    <3> QED
      BY <1>k, <2>1, <3>1, <3>2, <3>3, NamedTurn
  <2> QED
    BY <2>2, <2>3
<1>3. ASSUME NEW c \in Conns, Kick(c) \/ DisconnectReads(c) PROVE Named'
  <2>0. at[c] \in {"get", "look"} /\ UNCHANGED <<device, keySid>> /\ (Goto(c, "delete") \/ Goto(c, "get"))
    BY <1>3 DEF Kick, DisconnectReads, redis
  <2>1. PICK f : call' = [call EXCEPT ![c].found = f] \/ call' = [call EXCEPT ![c].known = f]
    BY <1>3 DEF Kick, DisconnectReads
  <2>2. call'[c].sid = call[c].sid /\ call'[c].p = call[c].p /\ \A j \in Calls \ {c} : call'[j] = call[j]
    BY <1>k, <1>d, <2>1 DEF Call
  <2>3. Turn(c)
    BY <1>k, <2>0, <2>2, GotoTurn DEF Turn, P
  <2> QED
    BY <1>k, <1>n, <2>0, <2>2, <2>3, NamedTurn
<1>4. ASSUME NEW c \in Conns, DelSession(c) PROVE Named'
  <2>1. CASE UNCHANGED <<device, keySid>>
    <3>1. Turn(c) /\ at'[c] \in {"refresh", "idle", "add"} /\ call'[c].sid \in {call[c].sid, None}
      BY <1>4, <1>k, GotoTurn, ReturnTurn DEF DelSession, AfterKick, Turn, P
    <3> QED
      BY <1>k, <2>1, <3>1, NamedTurn
  <2>2. CASE ~UNCHANGED <<device, keySid>>
    <3>1. /\ UNCHANGED call /\ Goto(c, "refresh")
          /\ device' = [device EXCEPT ![DeviceOf(call[c].sid)] = Empty] \/ UNCHANGED device
          /\ keySid' = [keySid EXCEPT ![Key[call[c].sid]] = Empty] \/ UNCHANGED keySid
          /\ at[c] = "delete"
      BY <1>4, <2>2 DEF DelSession
    <3>2. \A d \in Devices : device'[d].sid \in {device[d].sid, None}
      BY <3>1 DEF TypeOK, Empty
    <3>3. \A q \in Keys : keySid'[q].sid \in {keySid[q].sid, None}
      BY <3>1 DEF TypeOK, Empty
    <3>4. /\ \A d \in Devices : device'[d].sid # None => DeviceOf(device'[d].sid) = d
          /\ \A q \in Keys : keySid'[q].sid # None => Key[keySid'[q].sid] = q
      BY <3>2, <3>3 DEF Named
    <3>5. \A j \in Calls : at'[j] = at[j] \/ (j = c /\ at'[j] = "refresh")
      BY <1>k, <3>1, GotoTurn
    <3> QED
      BY <1>n, <1>k, <3>1, <3>4, <3>5 DEF Named, P, Related, DeviceOf
  <2> QED
    BY <2>1, <2>2
<1>5. ASSUME NEW k \in Calls, GetUserSessions(k) PROVE Named'
  <2>1. PICK todo, l : \/ call' = [call EXCEPT ![k].list = l]
                       \/ call' = [call EXCEPT ![k].todo = todo, ![k].list = l]
    BY <1>5 DEF GetUserSessions
  <2>2. call'[k].sid = call[k].sid /\ call'[k].p = call[k].p /\ \A j \in Calls \ {k} : call'[j] = call[j]
    BY <1>d, <2>1 DEF Call
  <2>3. Turn(k) /\ at'[k] \in {"listed", "reading"} /\ UNCHANGED <<device, keySid>>
    BY <1>5, <2>2, GotoTurn DEF GetUserSessions, redis, Turn, P
  <2> QED
    BY <2>2, <2>3, NamedTurn
<1>6. ASSUME NEW k \in Calls, ReadOne(k) PROVE Named'
  <2>1. PICK todo, l : \/ call' = [call EXCEPT ![k].todo = todo]
                       \/ call' = [call EXCEPT ![k].todo = todo, ![k].list = l]
    BY <1>6, <1>d DEF ReadOne
  <2>2. call'[k].sid = call[k].sid /\ call'[k].p = call[k].p /\ \A j \in Calls \ {k} : call'[j] = call[j]
    BY <1>d, <2>1 DEF Call
  <2>3. Turn(k) /\ at'[k] = "reading" /\ UNCHANGED <<device, keySid>>
    BY <1>6, <2>2 DEF ReadOne, redis, Turn, P
  <2> QED
    BY <2>2, <2>3, NamedTurn
<1>7. ASSUME NEW k \in Calls, StoreSessions(k) PROVE Named'
  <2>1. Turn(k) /\ at'[k] = "listed" /\ UNCHANGED <<device, keySid, call>>
    BY <1>7, GotoTurn DEF StoreSessions, redis, Turn, P
  <2> QED
    BY <2>1, NamedTurn
<1>8. ASSUME NEW k \in Calls, RefreshRoute(k) PROVE Named'
  <2>1. Return(k) \/ call' = [call EXCEPT ![k].list = {}]
    BY <1>8 DEF RefreshRoute
  <2>2. /\ call'[k].sid \in {call[k].sid, None} /\ call'[k].p = call[k].p
        /\ \A j \in Calls \ {k} : call'[j] = call[j]
    <3>1. CASE Return(k)
      BY <3>1, ReturnTurn
    <3>2. CASE call' = [call EXCEPT ![k].list = {}]
      BY <1>d, <3>2 DEF Call
    <3> QED
      BY <2>1, <3>1, <3>2
  <2>3. Turn(k) /\ at'[k] \in {"idle", "comet"} /\ UNCHANGED <<device, keySid>>
    BY <1>8, <2>2, GotoTurn DEF RefreshRoute, redis, Turn, P
  <2> QED
    BY <2>2, <2>3, NamedTurn
<1>9. ASSUME NEW c \in Conns, KickConnection(c) \/ HeartbeatEnds(c) PROVE Named'
  <2>1. CASE KickConnection(c)
    <3>1. Turn(c) /\ at'[c] \in {"idle", "add"} /\ call'[c].sid = None /\ UNCHANGED <<device, keySid>>
      BY <2>1, <1>k, GotoTurn, ReturnTurn DEF KickConnection, AfterKick, redis, Turn, P
    <3> QED
      BY <1>k, <3>1, NamedTurn
  <2>2. CASE HeartbeatEnds(c)
    <3>1. Turn(c) /\ at'[c] = "idle" /\ call'[c].sid = None /\ UNCHANGED <<device, keySid>>
      BY <2>2, <1>k, GotoTurn, ReturnTurn DEF HeartbeatEnds, ExpireSession, redis, Turn, P
    <3> QED
      BY <1>k, <3>1, NamedTurn
  <2> QED
    BY <1>9, <2>1, <2>2
<1>10. ASSUME NEW c \in Conns, AddSession(c) PROVE Named'
  <2>1. UNCHANGED call /\ at[c] = "add" /\ \A j \in Calls : at'[j] = at[j] \/ (j = c /\ at'[j] \in {"added", "idle"})
    BY <1>10, <1>k, GotoTurn DEF AddSession
  <2>2. CASE UNCHANGED redis
    <3>1. Turn(c) /\ at'[c] \in {"added", "idle"}
      BY <1>10, <1>k, <2>1, GotoTurn DEF AddSession, Turn, P
    <3> QED
      BY <1>k, <2>1, <2>2, <3>1, NamedTurn DEF redis
  <2>3. CASE Added(c)
    <3>1. \A d \in Devices : \/ device'[d] = device[d]
                             \/ d = DeviceOf(c) /\ device'[d].sid = c
      BY <2>3, NameType DEF Added, TypeOK
    <3>2. \A q \in Keys : keySid'[q] = keySid[q] \/ (q = Key[c] /\ keySid'[q].sid = c)
      BY <2>3, NameType DEF Added, TypeOK
    <3>3. /\ \A d \in Devices : device'[d].sid # None => DeviceOf(device'[d].sid) = d
          /\ \A q \in Keys : keySid'[q].sid # None => Key[keySid'[q].sid] = q
      BY <3>1, <3>2 DEF Named
    <3> QED
      BY <1>n, <1>k, <2>1, <3>3 DEF Named, P, Related, DeviceOf
  <2> QED
    BY <1>10, <2>2, <2>3 DEF AddSession
<1>11. ASSUME NEW c \in Conns, Connected(c) PROVE Named'
  <2>1. Turn(c) /\ at'[c] = "idle" /\ UNCHANGED <<device, keySid, call>>
    BY <1>11, <1>k, GotoTurn DEF Connected, redis, Turn, P
  <2> QED
    BY <1>k, <2>1, NamedTurn
<1>12. ASSUME NEW c \in Conns, Heartbeat(c) \/ Disconnect(c) PROVE Named'
  <2> DEFINE sid == GetSessionByKey(Key[c])
  <2>0. /\ UNCHANGED <<device, keySid>> /\ at[c] = "idle"
        /\ \/ call' = [call EXCEPT ![c].sid = sid] /\ sid # None /\ (Goto(c, "look") \/ Goto(c, "beat"))
           \/ UNCHANGED <<call, at>>
    BY <1>12 DEF Heartbeat, Disconnect, redis
  <2>1. sid # None => Related(sid, c)
    BY NameType DEF GetSessionByKey, Named, Related
  <2> HIDE DEF sid
  <2>2. CASE UNCHANGED <<call, at>>
    BY <1>k, <1>n, <2>0, <2>2, NamedTurn DEF Turn, P
  <2>3. CASE call' = [call EXCEPT ![c].sid = sid] /\ sid # None /\ (Goto(c, "look") \/ Goto(c, "beat"))
    <3>1. call'[c].sid = sid /\ call'[c].p = call[c].p /\ \A j \in Calls \ {c} : call'[j] = call[j]
      BY <1>k, <1>d, <2>3 DEF Call
    <3>2. Turn(c)
      BY <1>k, <2>0, <2>3, <3>1, GotoTurn DEF Turn, P
    <3> QED
      BY <1>k, <2>0, <2>1, <2>3, <3>1, <3>2, NamedTurn
  <2> QED
    BY <2>0, <2>2, <2>3
<1>13. ASSUME NEW c \in Conns, Close(c) PROVE Named'
  BY <1>13 DEF Close, Named, redis, P, Related, DeviceOf
<1>14. ASSUME NEW r \in Readers, GetSessions(r) PROVE Named'
  <2>1. r \in Calls
    BY DEF Calls
  <2>2. Turn(r) /\ at'[r] = "refresh" /\ UNCHANGED <<device, keySid, call>>
    BY <1>14, <2>1, GotoTurn DEF GetSessions, redis, Turn, P
  <2> QED
    BY <2>1, <2>2, NamedTurn
<1>15. CASE Tick
  <2>1. /\ \A d \in Devices : device'[d].sid \in {device[d].sid, None}
        /\ \A q \in Keys : keySid'[q].sid \in {keySid[q].sid, None}
    BY <1>15, NewEntries, EntryType DEF Tick
  <2>2. /\ \A d \in Devices : device'[d].sid # None => DeviceOf(device'[d].sid) = d
        /\ \A q \in Keys : keySid'[q].sid # None => Key[keySid'[q].sid] = q
    BY <2>1 DEF Named
  <2>3. UNCHANGED <<at, call>>
    BY <1>15 DEF Tick
  <2> QED
    BY <1>n, <2>2, <2>3 DEF Named, P, Related, DeviceOf
<1>16. CASE UNCHANGED vars
  BY <1>16 DEF vars, Named, redis, P, Related, DeviceOf
<1> QED
  BY <1>1, <1>2, <1>3, <1>4, <1>5, <1>6, <1>7, <1>8, <1>9, <1>10, <1>11, <1>12, <1>13, <1>14,
     <1>15, <1>16 DEF Next

-----------------------------------------------------------------------------
(* Phases, and who keeps a session *)

\* A step leaves every connection in a phase, never makes one unknown again,
\* and lets it hold a session only when it held one or has just written it.
Holds(c) == conn[c] = "open" \/ at[c] = "added"
Advance(c) ==
    /\ Fits(conn'[c], at'[c])
    /\ conn[c] \notin {"absent", "new"} => conn'[c] \notin {"absent", "new"}
    /\ Holds(c)' => Holds(c) \/ session'[c] > 0

LEMMA Advances == TypeOK /\ Phases /\ [Next]_vars => \A x \in Conns : Advance(x)
<1> SUFFICES ASSUME TypeOK, Phases, [Next]_vars, NEW x \in Conns PROVE Advance(x)
  OBVIOUS
<1>k. \A c \in Conns : c \in Calls
  BY DEF Calls
<1>p. \A c \in Conns : Fits(conn[c], at[c])
  BY DEF Phases
<1>c. conn \in [Conns -> {"absent", "new", "connecting", "open", "closing", "leaving", "gone"}]
  BY DEF TypeOK
<1>0. ASSUME conn'[x] = conn[x], at'[x] = at[x] PROVE Advance(x)
  BY <1>0, <1>p DEF Advance, Holds
<1>g. ASSUME NEW c \in Conns, NEW s, Goto(c, s) PROVE at'[x] = IF x = c THEN s ELSE at[x]
  BY <1>g, <1>k, GotoTurn
<1>h. ASSUME NEW q, x \in Holders(q) PROVE conn[x] = "open" /\ at[x] \in {"idle", "beat"}
  BY <1>h, <1>p DEF Holders, Fits
<1>1. ASSUME NEW c \in Conns, Connect(c) PROVE Advance(x)
  BY <1>1, <1>g, <1>c, <1>p DEF Connect, Advance, Fits, Holds
<1>2. ASSUME NEW c \in Conns, Create(c) \/ Kick(c) \/ DisconnectReads(c) PROVE Advance(x)
  <2>1. UNCHANGED conn /\ at[c] \in {"device", "get", "look"}
    BY <1>2 DEF Create, Kick, DisconnectReads
  <2>2. \/ at[c] = "device" /\ at'[x] = IF x = c THEN "get" ELSE at[x]
        \/ at[c] = "device" /\ at'[x] = IF x = c THEN "add" ELSE at[x]
        \/ at[c] = "get" /\ at'[x] = IF x = c THEN "delete" ELSE at[x]
        \/ at[c] = "look" /\ at'[x] = IF x = c THEN "get" ELSE at[x]
    BY <1>2, <1>g DEF Create, Kick, DisconnectReads
  <2> QED
    BY <2>1, <2>2, <1>c, <1>p DEF Advance, Fits, Holds
<1>4. ASSUME NEW c \in Conns, DelSession(c) PROVE Advance(x)
  <2>1. at[c] = "delete"
    BY <1>4 DEF DelSession
  <2>2. \/ UNCHANGED conn /\ at'[x] = IF x = c THEN "refresh" ELSE at[x]
        \/ Left(c, AfterKick(c)) /\ at'[x] = IF x = c THEN AfterKick(c) ELSE at[x]
    BY <1>4, <1>g DEF DelSession
  <2> QED
    BY <2>1, <2>2, <1>c, <1>p DEF Advance, Fits, Holds, Left, AfterKick
<1>5. ASSUME NEW k \in Calls,
             GetUserSessions(k) \/ ReadOne(k) \/ StoreSessions(k) \/ RefreshRoute(k)
      PROVE  Advance(x)
  <2>1. UNCHANGED conn
    BY <1>5 DEF GetUserSessions, ReadOne, StoreSessions, RefreshRoute
  <2>2. \/ at'[x] = at[x]
        \/ x = k /\ at[x] \in {"refresh", "reading"} /\ at'[x] \in {"reading", "listed"}
        \/ x = k /\ at[x] = "listed" /\ at'[x] = "comet"
    <3>1. x \in Conns /\ x \in Calls /\ x \notin Readers
      BY SessionsAssumption DEF SessionsAssumption, Calls
    <3> QED
      BY <1>5, <3>1, GotoTurn DEF GetUserSessions, ReadOne, StoreSessions, RefreshRoute
  <2> QED
    BY <2>1, <2>2, <1>c, <1>p DEF Advance, Fits, Holds
<1>6. ASSUME NEW c \in Conns, KickConnection(c) PROVE Advance(x)
  <2>1. at[c] = "comet" /\ at'[x] = IF x = c THEN AfterKick(c) ELSE at[x]
    BY <1>6, <1>g DEF KickConnection
  <2>2. \/ x = c /\ conn[c] = "leaving" /\ conn'[x] = "gone"
        \/ conn'[x] = conn[x] /\ (x = c => conn[c] # "leaving")
        \/ x # c /\ (\E q : x \in Holders(q)) /\ conn'[x] = "closing"
    <3> DEFINE closing == [y \in Conns |-> IF call[c].found /\ y \in Holders(Key[call[c].sid])
                                          THEN "closing" ELSE conn[y]]
               left(f) == IF AfterKick(c) = "idle" THEN [f EXCEPT ![c] = "gone"] ELSE f
    <3>1. conn' = left(closing) \/ conn' = left(conn)
      BY <1>6 DEF KickConnection
    <3>2. closing[x] = conn[x] \/ (closing[x] = "closing" /\ x \in Holders(Key[call[c].sid]))
      OBVIOUS
    <3>3. AfterKick(c) = "idle" <=> conn[c] = "leaving"
      BY DEF AfterKick
    <3>4. DOMAIN closing = Conns /\ DOMAIN conn = Conns
      BY <1>c
    <3>5. x = c => x \notin Holders(Key[call[c].sid])
      BY <2>1, <1>h
    <3> HIDE DEF closing
    <3> QED
      BY <3>1, <3>2, <3>3, <3>4, <3>5
  <2> QED
    BY <2>1, <2>2, <1>h, <1>c, <1>p DEF Advance, Fits, Holds, AfterKick
<1>7. ASSUME NEW c \in Conns, AddSession(c) PROVE Advance(x)
  <2>1. \/ at'[x] = (IF x = c THEN "added" ELSE at[x]) /\ UNCHANGED conn /\ (x = c => session'[x] = TTL)
        \/ at'[x] = (IF x = c THEN "idle" ELSE at[x]) /\ conn' = [conn EXCEPT ![c] = "gone"]
    BY <1>7, <1>g DEF AddSession, Added, TypeOK
  <2>2. at[c] = "add" /\ TTL > 0
    BY <1>7, SessionsAssumption DEF SessionsAssumption, AddSession
  <2> QED
    BY <2>1, <2>2, <1>c, <1>p DEF Advance, Fits, Holds
<1>8. ASSUME NEW c \in Conns, Connected(c) PROVE Advance(x)
  <2>1. at[c] = "added" /\ at'[x] = IF x = c THEN "idle" ELSE at[x]
    BY <1>8, <1>g DEF Connected
  <2>2. conn'[x] = IF x = c THEN "open" ELSE IF x \in Holders(Key[c]) THEN "closing" ELSE conn[x]
    BY <1>8 DEF Connected
  <2> QED
    BY <2>1, <2>2, <1>h, <1>p DEF Advance, Fits, Holds
<1>9. ASSUME NEW c \in Conns, Heartbeat(c) \/ HeartbeatEnds(c) PROVE Advance(x)
  <2>1. UNCHANGED conn
    BY <1>9 DEF Heartbeat, HeartbeatEnds
  <2>2. \/ at'[x] = at[x]
        \/ x = c /\ conn[c] = "open" /\ at'[x] = "beat"
        \/ x = c /\ at[c] = "beat" /\ at'[x] = "idle"
    BY <1>9, <1>g DEF Heartbeat, HeartbeatEnds
  <2> QED
    BY <2>1, <2>2, <1>c, <1>p DEF Advance, Fits, Holds
<1>10. ASSUME NEW c \in Conns, Close(c) PROVE Advance(x)
  BY <1>10, <1>c, <1>p DEF Close, Advance, Fits, Holds
<1>11. ASSUME NEW c \in Conns, Disconnect(c) PROVE Advance(x)
  <2>1. \/ conn' = [conn EXCEPT ![c] = "leaving"] /\ at'[x] = IF x = c THEN "look" ELSE at[x]
        \/ conn' = [conn EXCEPT ![c] = "gone"] /\ at'[x] = at[x]
    BY <1>11, <1>g DEF Disconnect
  <2>2. conn[c] = "closing" /\ at[c] = "idle"
    BY <1>11 DEF Disconnect
  <2> QED
    BY <2>1, <2>2, <1>c, <1>p DEF Advance, Fits, Holds
<1>12. ASSUME NEW r \in Readers, GetSessions(r) PROVE Advance(x)
  <2>1. x # r /\ r \in Calls /\ x \in Calls
    BY SessionsAssumption DEF SessionsAssumption, Calls
  <2> QED
    BY <1>0, <1>12, <2>1, GotoTurn DEF GetSessions
<1>13. CASE Tick
  BY <1>0, <1>13 DEF Tick
<1>14. CASE UNCHANGED vars
  BY <1>0, <1>14 DEF vars
<1> QED
  BY <1>1, <1>2, <1>4, <1>5, <1>6, <1>7, <1>8, <1>9, <1>10, <1>11, <1>12, <1>13, <1>14 DEF Next

\* A session ends by its time to live, or by a call that works on it.
LEMMA SessionEnds ==
    ASSUME TypeOK, [Next]_vars, NEW x \in Conns, session[x] > 0
    PROVE  \/ session'[x] > 0
           \/ x \in lapsed'
           \/ \E c \in Conns : at[c] = "delete" /\ call[c].sid = x
<1>t. session \in [Conns -> 0..TTL] /\ TTL \in Nat \ {0}
  BY SessionsAssumption DEF SessionsAssumption, TypeOK
<1>1. ASSUME NEW c \in Conns, DelSession(c) PROVE session'[x] > 0 \/ (at[c] = "delete" /\ call[c].sid = x)
  BY <1>1, <1>t DEF DelSession
<1>2. ASSUME NEW c \in Conns, AddSession(c) PROVE session'[x] > 0
  BY <1>2, <1>t DEF AddSession, Added, redis
<1>3. ASSUME NEW c \in Conns, HeartbeatEnds(c) PROVE session'[x] > 0
  BY <1>3, <1>t DEF HeartbeatEnds, ExpireSession, redis
<1>4. CASE Tick
  BY <1>4, <1>t DEF Tick, Less
<1>5. ASSUME NEW c \in Conns,
             \/ Connect(c) \/ Create(c) \/ Kick(c) \/ KickConnection(c) \/ Connected(c)
             \/ Heartbeat(c) \/ Close(c) \/ Disconnect(c) \/ DisconnectReads(c)
      PROVE  session' = session
  BY <1>5 DEF Connect, Create, Kick, KickConnection, Connected, Heartbeat, Close, Disconnect,
              DisconnectReads, redis
<1>6. ASSUME NEW k \in Calls, GetUserSessions(k) \/ ReadOne(k) \/ StoreSessions(k) \/ RefreshRoute(k)
      PROVE  session' = session
  BY <1>6 DEF GetUserSessions, ReadOne, StoreSessions, RefreshRoute, redis
<1>7. ASSUME NEW r \in Readers, GetSessions(r) PROVE session' = session
  BY <1>7 DEF GetSessions, redis
<1>8. CASE UNCHANGED vars
  BY <1>8 DEF vars, redis
<1> QED
  BY <1>1, <1>2, <1>3, <1>4, <1>5, <1>6, <1>7, <1>8 DEF Next

LEMMA LapsedGrows == ASSUME [Next]_vars PROVE lapsed \subseteq lapsed'
<1>1. CASE Tick
  BY <1>1 DEF Tick
<1>2. ASSUME NEW c \in Conns,
             \/ Connect(c) \/ Create(c) \/ Kick(c) \/ DelSession(c) \/ KickConnection(c)
             \/ AddSession(c) \/ Connected(c) \/ Heartbeat(c) \/ HeartbeatEnds(c)
             \/ Close(c) \/ Disconnect(c) \/ DisconnectReads(c)
      PROVE  lapsed' = lapsed
  BY <1>2 DEF Connect, Create, Kick, DelSession, KickConnection, AddSession, Connected, Heartbeat,
              HeartbeatEnds, Close, Disconnect, DisconnectReads
<1>3. ASSUME NEW k \in Calls, GetUserSessions(k) \/ ReadOne(k) \/ StoreSessions(k) \/ RefreshRoute(k)
      PROVE  lapsed' = lapsed
  BY <1>3 DEF GetUserSessions, ReadOne, StoreSessions, RefreshRoute
<1>4. ASSUME NEW r \in Readers, GetSessions(r) PROVE lapsed' = lapsed
  BY <1>4 DEF GetSessions
<1>5. CASE UNCHANGED vars
  BY <1>5 DEF vars
<1> QED
  BY <1>1, <1>2, <1>3, <1>4, <1>5 DEF Next

\* Who deletes another's session shares its key or its device.
LEMMA RelatedIsRival ==
    ASSUME NEW x \in Conns, NEW c \in Conns, Related(x, c), x # c, conn[c] \notin {"absent", "new"}
    PROVE  Rival(x, c)
<1>1. CASE Key[x] = Key[c]
  BY <1>1 DEF Rival
<1>2. CASE DeviceOf(x) = DeviceOf(c)
  <2>1. \/ Key[x] = Key[c]
        \/ GivenDevice[x] = GivenDevice[c] /\ GivenDevice[x] # NoDevice
    BY <1>2 DEF DeviceOf
  <2> QED
    BY <2>1 DEF Rival
<1> QED
  BY <1>1, <1>2 DEF Related

LEMMA KeepsStep == TypeOK /\ Named /\ Phases /\ Keeps /\ [Next]_vars => Keeps'
<1> SUFFICES ASSUME TypeOK, Named, Phases, Keeps, [Next]_vars, NEW x \in Conns, Holds(x)' PROVE Kept(x)'
  BY DEF Keeps, Holds
<1>a. \A c \in Conns : Advance(c)
  BY Advances
<1>r. ASSUME NEW d \in Conns, Rival(x, d) PROVE Rival(x, d)'
  BY <1>r, <1>a DEF Rival, Advance
<1>1. CASE session'[x] > 0
  BY <1>1 DEF Kept
<1>2. CASE Holds(x) /\ ~(session[x] > 0)
  BY <1>2, <1>r, LapsedGrows DEF Keeps, Kept, Holds
<1>3. CASE Holds(x) /\ session[x] > 0 /\ ~(session'[x] > 0)
  <2>1. CASE x \in lapsed'
    BY <2>1 DEF Kept
  <2>2. ASSUME NEW c \in Conns, at[c] = "delete", call[c].sid = x PROVE Kept(x)'
    <3>1. x # c /\ conn[c] \notin {"absent", "new"}
      BY <1>3, <2>2 DEF Holds, Phases, Fits
    <3>2. Related(x, c)
      BY <2>2 DEF Named
    <3> QED
      BY <3>1, <3>2, <1>r, RelatedIsRival DEF Kept
  <2> QED
    BY <1>3, <2>1, <2>2, SessionEnds
<1> QED
  BY <1>1, <1>2, <1>3, <1>a DEF Advance

-----------------------------------------------------------------------------
(* The theorems *)

LEMMA Initially == Init => IInv
<1> SUFFICES ASSUME Init PROVE IInv
  OBVIOUS
<1> USE SessionsAssumption DEF SessionsAssumption
<1>0. PICK S \in Groups :
         /\ conn = [c \in Conns |-> IF c \in S THEN "new" ELSE "absent"]
         /\ at = [k \in Calls |-> IF k \in S THEN "idle" ELSE "absent"]
         /\ \E f \in [S -> Logics] : call = [k \in Calls |-> NoCall(IF k \in S THEN f[k] ELSE None)]
  BY DEF Init
<1>1. PICK f \in [S -> Logics] : call = [k \in Calls |-> NoCall(IF k \in S THEN f[k] ELSE None)]
  BY <1>0
<1>2. /\ \A k \in Calls : call[k].sid = None /\ (k \in S => call[k].p \in Logics)
      /\ call \in [Calls -> Call]
  <2>1. \A p \in Logics \cup {None} : NoCall(p) \in Call /\ NoCall(p).sid = None /\ NoCall(p).p = p
    BY DEF NoCall, Call
  <2> QED
    BY <1>1, <2>1
<1>3. /\ \A k \in Calls : at[k] \in {"idle", "absent"} /\ (at[k] # "absent" => k \in S)
      /\ \A c \in Conns : c \in Calls
  BY <1>0 DEF Calls
<1>4. TypeOK
  <2>1. NoCache \in Cached
    BY DEF NoCache, Cached
  <2>2. /\ session \in [Conns -> 0..TTL] /\ list \subseteq Conns /\ listTTL \in 0..TTL
        /\ route \in [Logics -> Conns \cup {None}]
        /\ lapsed \subseteq Conns /\ beaten \subseteq Conns /\ faults \in Nat
    BY DEF Init
  <2>3. device \in [Devices -> Entry] /\ keySid \in [Keys -> Entry] /\ cache \in [Logics -> Cached]
    BY <2>1, NewEntries DEF Init
  <2>4. /\ conn \in [Conns -> {"absent", "new", "connecting", "open", "closing", "leaving", "gone"}]
        /\ at \in [Calls -> {"absent", "idle", "look", "device", "get", "delete", "refresh", "reading",
                             "listed", "comet", "add", "added", "beat"}]
    BY <1>0
  <2> QED
    BY <1>2, <2>2, <2>3, <2>4 DEF TypeOK
<1>5. Listed
  BY DEF Init, Listed
<1>6. Named
  BY <1>2, <1>3 DEF Init, Empty, Named, P
<1>7. Phases
  BY <1>0, <1>3 DEF Phases, Fits
<1>8. Keeps
  BY <1>0, <1>3 DEF Keeps
<1> QED
  BY <1>4, <1>5, <1>6, <1>7, <1>8 DEF IInv

LEMMA Inductive == IInv /\ [Next]_vars => IInv'
<1> SUFFICES ASSUME IInv, [Next]_vars PROVE IInv'
  OBVIOUS
<1>1. TypeOK /\ Listed /\ Named /\ Phases /\ Keeps
  BY DEF IInv
<1>2. Phases'
  BY <1>1, Advances DEF Phases, Advance
<1> QED
  BY <1>1, <1>2, TypeStep, ListedStep, NamedStep, KeepsStep DEF IInv

\* In every reachable state IInv holds: types, lists, names, phases and who keeps its session.
THEOREM Invariance == Spec => []IInv
BY Initially, Inductive, PTL DEF Spec

\* Every variable of the session manager, the caches and the gateway keeps its type.
THEOREM Typed == Spec => []TypeOK
BY Invariance, PTL DEF IInv

\* A live session is in its user's list, which lives at least as long, for any
\* connections, processes and faults (store.AddSession, ExpireSession, DelSession).
THEOREM AlwaysListed == Spec => []Listed
BY Invariance, PTL DEF IInv

\* An open connection has its session unless it ran out or a connection of the same
\* device or key has come (SessionManager.Create and Kick, Logic.Disconnect).
THEOREM SessionKept == Spec => []KeepsSession
<1>1. IInv => KeepsSession
  BY DEF IInv, Keeps, Kept, KeepsSession
<1> QED
  BY Invariance, <1>1, PTL

-----------------------------------------------------------------------------
(* Offline sync *)

\* The device was sent the messages up to n, or passed them with good reason.
Passed(n) == 1..n \subseteq handed \cup excused

\* The page of a request is an initial part of the messages after its base
\* that were indexed when it was read, and all of them unless it is full.
PageOf(r) ==
    /\ Passed(r.base) /\ Passed(r.from)
    /\ r.seen \subseteq index /\ r.page \subseteq r.seen /\ \A m \in r.page : m > r.base
    /\ \A m \in r.seen, x \in r.page : m > r.base /\ m <= x => m \in r.page
    /\ ~r.full => \A m \in r.seen : m > r.base => m \in r.page
    /\ r.maxRead => \A m \in r.seen : m <= r.max
Accounted(r) == 1..r.seq \subseteq handed \cup excused \cup r.messages \cup r.excuse

PullOK(r) ==
    /\ r.pc = "page" => Passed(r.base)
    /\ r.pc \in {"cursor", "max", "build"} => PageOf(r)
    /\ r.pc = "push" => Accounted(r)
    /\ r.pc \in {"advance", "set"} => Passed(r.seq)
Indexed == \A m \in index : hash[m] # "none" /\ m <= maxSeq
SyncInv ==
    SyncTypeOK /\ Indexed /\ Passed(last) /\ Passed(cursor) /\ ~ended /\ \A w \in Pulls : PullOK(pulls[w])

\* History and index grow.
Later == handed \subseteq handed' /\ excused \subseteq excused' /\ index \subseteq index'

\* The natural numbers are well ordered, so a set of them has a least one...
LEMMA Least == ASSUME NEW T \in SUBSET Nat, T # {} PROVE \E x \in T : \A y \in T : x <= y
<1>1. PICK R : R = OpToRel(<, Nat)
  OBVIOUS
<1>2. IsWellFoundedOn(R, Nat)
  BY <1>1, NatLessThanWellFounded, Zenon
<1>3. PICK x \in T : \A y \in T : ~ (<<y, x>> \in R)
  BY <1>2, WFMin
<1>4. R = {ss \in Nat \X Nat : ss[1] < ss[2]}
  BY <1>1 DEF OpToRel
<1>5. \A y \in T : <<y, x>> \in R <=> y < x
  BY <1>4
<1>6. \A y \in T : ~ (y < x)
  BY <1>3, <1>5
<1>7. x \in Nat /\ \A y \in T : y \in Nat
  OBVIOUS
<1>8. \A y \in T : x <= y
  BY <1>6, <1>7
<1> QED
  BY <1>8

\* ... and a bounded one its Max.
LEMMA Greatest ==
    ASSUME NEW n \in Nat, NEW S \in SUBSET (1..n), S # {}
    PROVE  Max(S) \in S /\ \A y \in S : y <= Max(S)
<1> DEFINE U == {u \in Nat : \A y \in S : y <= u}
<1>1. U \in SUBSET Nat /\ n \in U
  OBVIOUS
<1>2. PICK u \in U : \A v \in U : u <= v
  BY <1>1, Least
<1>3. ASSUME u \notin S PROVE FALSE
  <2>1. u \in Nat /\ (\A y \in S : y <= u) /\ (\A y \in S : y \in Nat /\ y >= 1)
    BY <1>2
  <2>2. \A y \in S : y # u
    BY <1>3
  <2>3. \A y \in S : y <= u - 1
    BY <2>1, <2>2
  <2>4. PICK s \in S : TRUE
    OBVIOUS
  <2>5. u >= 1
    BY <2>1, <2>4
  <2>6. u - 1 \in U
    BY <2>1, <2>3, <2>5
  <2> QED
    BY <1>2, <2>1, <2>6
<1>4. \E x \in S : \A y \in S : x >= y
  BY <1>3
<1>5. Max(S) \in S /\ \A y \in S : Max(S) >= y
  BY <1>4 DEF Max
<1> QED
  BY <1>5

LEMMA SyncConstants == MaxSeq \in Nat /\ MaxSyncs \in Nat /\ PageLimit \in Nat \ {0}
BY SyncAssumption DEF SyncAssumption

\* A page is an initial part of what is above, and short only if it is all.
LEMMA Pages ==
    ASSUME index \subseteq Seqs, NEW b \in Marks
    PROVE  LET page == GetUserMessagesAfterSeq(b)
           IN  /\ page \subseteq index /\ page \subseteq Seqs /\ \A m \in page : m > b
               /\ \A m \in index, x \in page : m > b /\ m <= x => m \in page
               /\ ~(Cardinality(page) >= PageLimit) => \A m \in index : m > b => m \in page
<1> DEFINE A == {m \in index : m > b}
           Below(m) == {x \in A : x < m}
           page == GetUserMessagesAfterSeq(b)
<1>1. page = {m \in A : Cardinality(Below(m)) < PageLimit}
  BY DEF GetUserMessagesAfterSeq, Above
<1>2. IsFiniteSet(A) /\ A \subseteq Nat
  <2>1. 0 \in Int /\ 1 \in Int /\ MaxSeq \in Int
    BY SyncConstants
  <2>2. IsFiniteSet(1..MaxSeq)
    BY <2>1, FS_Interval
  <2>3. A \subseteq 1..MaxSeq
    BY DEF Seqs
  <2> QED
    BY <2>1, <2>2, <2>3, FS_Subset
<1>3. \A S \in SUBSET A : IsFiniteSet(S) /\ Cardinality(S) \in Nat
  BY <1>2, FS_Subset, FS_CardinalityType
<1>4. \A S, T \in SUBSET A : S \subseteq T => Cardinality(S) <= Cardinality(T)
  BY <1>3, FS_Subset
<1>5. ASSUME NEW m \in A, NEW x \in page, m <= x PROVE m \in page
  <2>1. Below(m) \subseteq Below(x) /\ Below(x) \in SUBSET A /\ Below(m) \in SUBSET A
    BY <1>1, <1>2, <1>5
  <2> HIDE DEF Below
  <2>2. Cardinality(Below(m)) <= Cardinality(Below(x)) /\ Cardinality(Below(x)) < PageLimit
    BY <1>1, <1>4, <2>1
  <2>3. Cardinality(Below(m)) \in Nat /\ Cardinality(Below(x)) \in Nat
    BY <1>3, <2>1
  <2>4. Cardinality(Below(m)) < PageLimit
    BY <2>2, <2>3, SyncConstants
  <2> HIDE DEF page
  <2> QED
    BY <1>1, <2>4
<1>6. ASSUME NEW m \in A, m \notin page PROVE Cardinality(page) >= PageLimit
  <2> DEFINE T == A \ page
  <2>1. T \in SUBSET Nat /\ T # {}
    BY <1>2, <1>6
  <2>2. PICK x \in T : \A y \in T : x <= y
    BY <2>1, Least
  <2>3. Below(x) \subseteq page /\ Below(x) \in SUBSET A /\ page \in SUBSET A
    <3>1. \A y \in Below(x) : y \in Nat /\ x \in Nat /\ y < x /\ y \in A
      BY <1>2
    <3>2. \A y \in Below(x) : y \notin T
      BY <2>2, <3>1
    <3> QED
      BY <1>1, <3>1, <3>2
  <2> HIDE DEF Below
  <2>4. Cardinality(Below(x)) <= Cardinality(page)
    BY <1>4, <2>3
  <2>5. ~(Cardinality(Below(x)) < PageLimit)
    BY <1>1, <2>2
  <2>6. Cardinality(Below(x)) \in Nat /\ Cardinality(page) \in Nat
    BY <1>3, <2>3
  <2> QED
    BY <2>4, <2>5, <2>6, SyncConstants
<1>7. page \subseteq A
  BY <1>1
<1> HIDE DEF page
<1>8. page \subseteq index /\ page \subseteq Seqs /\ \A m \in page : m > b
  BY <1>7
<1>9. \A m \in index, x \in page : m > b /\ m <= x => m \in page
  BY <1>5
<1>10. ~(Cardinality(page) >= PageLimit) => \A m \in index : m > b => m \in page
  BY <1>6
<1> QED
  BY <1>8, <1>9, <1>10 DEF page

\* What a request may carry on with stays true.
LEMMA PullStays == ASSUME Later, NEW r, PullOK(r) PROVE PullOK(r)'
<1>1. \A n : Passed(n) => Passed(n)'
  BY DEF Later, Passed
<1>2. Accounted(r) => Accounted(r)'
  BY DEF Later, Accounted
<1>3. PageOf(r) => PageOf(r)'
  BY <1>1 DEF Later, PageOf
<1> QED
  BY <1>1, <1>2, <1>3 DEF PullOK

LEMMA Proceeds ==
    ASSUME Later, pulls \in [Pulls -> PullStates], \A v \in Pulls : PullOK(pulls[v]),
           NEW w \in Pulls, NEW q \in PullStates, Proceed(w, q), PullOK(q)'
    PROVE  pulls' \in [Pulls -> PullStates] /\ \A v \in Pulls : PullOK(pulls[v])'
<1>1. pulls' = [pulls EXCEPT ![w] = q]
  BY DEF Proceed
<1>2. pulls' \in [Pulls -> PullStates] /\ pulls'[w] = q /\ \A v \in Pulls : v # w => pulls'[v] = pulls[v]
  BY <1>1
<1>3. ASSUME NEW v \in Pulls PROVE PullOK(pulls[v])'
  <2>1. CASE v = w
    BY <1>2, <2>1 DEF PullOK, PageOf, Accounted, Passed
  <2>2. CASE v # w
    <3>1. PICK o : o = pulls[v]
      OBVIOUS
    <3>2. PullOK(o)'
      BY <3>1, PullStays
    <3>3. pulls'[v] = o
      BY <1>2, <2>2, <3>1
    <3> QED
      BY <3>2, <3>3 DEF PullOK, PageOf, Accounted, Passed
  <2> QED
    BY <2>1, <2>2
<1> QED
  BY <1>2, <1>3

LEMMA ServedOK == Served \in PullStates /\ PullOK(Served) /\ PullOK(Served)'
<1>1. Served \in PullStates /\ Served.pc = "idle"
  BY DEF PullStates, Served
<1> QED
  BY <1>1 DEF PullOK, Served

LEMMA PullTypes ==
    ASSUME NEW r \in PullStates
    PROVE  /\ r.pc = "page" => r.how \in Ways /\ r.base \in Marks /\ r.max \in Marks
           /\ r.pc \in {"cursor", "max", "build"} =>
                  r \in [pc : {"cursor", "max", "build"}, how : Ways, base : Marks, from : Marks, max : Marks,
                         maxRead : BOOLEAN, page : SUBSET Seqs, full : BOOLEAN, seen : SUBSET Seqs]
           /\ r.pc = "push" => /\ r.base \in Marks /\ r.messages \subseteq Seqs /\ r.seq \in Marks
                               /\ r.excuse \subseteq Seqs
           /\ r.pc \in {"advance", "set"} => r.seq \in Marks
BY DEF PullStates, Served

\* Steps that only bring a request further.
LEMMA RequestMoves ==
    ASSUME SyncInv, NEW w \in Pulls, NEW q \in PullStates, PullOK(q), Proceed(w, q), syncs' \in 0..MaxSyncs,
           UNCHANGED <<maxSeq, hash, index, queue, cursor, last, handed, excused, ended>>
    PROVE  SyncInv'
<1>0. SyncTypeOK /\ Indexed /\ Passed(last) /\ Passed(cursor) /\ ~ended /\ \A v \in Pulls : PullOK(pulls[v])
  BY DEF SyncInv
<1>1. Later
  BY DEF Later
<1>2. pulls' \in [Pulls -> PullStates] /\ \A v \in Pulls : PullOK(pulls[v])'
  BY <1>0, <1>1, PullStays, Proceeds DEF SyncTypeOK
<1>3. SyncTypeOK'
  BY <1>0, <1>2 DEF SyncTypeOK
<1>4. Indexed' /\ Passed(last)' /\ Passed(cursor)'
  BY <1>0 DEF Indexed, Passed
<1> QED
  BY <1>0, <1>2, <1>3, <1>4 DEF SyncInv

\* The routers' writes.
LEMMA RouterStep ==
    ASSUME SyncInv, \/ IncrUserSeqBy
                    \/ \E m \in Seqs : StatusMoves(m) \/ \E offline \in BOOLEAN : TrackMessage(m, offline)
    PROVE  SyncInv'
<1>0. /\ SyncTypeOK /\ Indexed /\ Passed(last) /\ Passed(cursor) /\ ~ended /\ \A v \in Pulls : PullOK(pulls[v])
      /\ maxSeq \in Marks /\ hash \in [Seqs -> {"none", "pending", "acked", "gone"}]
      /\ index \subseteq Seqs /\ queue \subseteq Seqs
  BY DEF SyncInv, SyncTypeOK
<1>1. UNCHANGED <<cursor, syncs, pulls, last, handed, excused, ended>>
  BY DEF IncrUserSeqBy, StatusMoves, TrackMessage, deviceVars
<1>2. /\ maxSeq' \in Marks /\ hash' \in [Seqs -> {"none", "pending", "acked", "gone"}]
      /\ index' \subseteq Seqs /\ queue' \subseteq Seqs /\ index \subseteq index' /\ Indexed'
  <2>1. ASSUME IncrUserSeqBy
        PROVE  maxSeq' \in Marks /\ Indexed' /\ UNCHANGED <<hash, index, queue>>
    <3>1. maxSeq' = maxSeq + 1 /\ maxSeq < MaxSeq /\ UNCHANGED <<hash, index, queue>>
      BY <2>1 DEF IncrUserSeqBy
    <3>2. maxSeq' \in Marks /\ \A m \in Seqs : m <= maxSeq => m <= maxSeq'
      BY <1>0, <3>1, SyncConstants DEF Marks, Seqs
    <3> QED
      BY <1>0, <3>1, <3>2 DEF Indexed
  <2>2. ASSUME NEW m \in Seqs, StatusMoves(m)
        PROVE  /\ hash' \in [Seqs -> {"none", "pending", "acked", "gone"}] /\ Indexed'
               /\ UNCHANGED <<maxSeq, index, queue>>
    <3>1. PICK h \in {"acked", "gone"} : hash' = [hash EXCEPT ![m] = h]
      BY <2>2 DEF StatusMoves
    <3> QED
      BY <1>0, <2>2, <3>1 DEF StatusMoves, Indexed
  <2>3. ASSUME NEW m \in Seqs, NEW offline \in BOOLEAN, TrackMessage(m, offline)
        PROVE  /\ hash' \in [Seqs -> {"none", "pending", "acked", "gone"}] /\ Indexed'
               /\ index' \subseteq Seqs /\ queue' \subseteq Seqs /\ index \subseteq index' /\ UNCHANGED maxSeq
    BY <1>0, <2>3 DEF TrackMessage, Indexed
  <2> QED
    BY <1>0, <2>1, <2>2, <2>3
<1>3. Later
  BY <1>1, <1>2 DEF Later
<1>4. \A v \in Pulls : PullOK(pulls[v])'
  <2> SUFFICES ASSUME NEW v \in Pulls PROVE PullOK(pulls[v])'
    OBVIOUS
  <2>1. PICK o : o = pulls[v]
    OBVIOUS
  <2>2. PullOK(o)' /\ pulls'[v] = o
    BY <1>0, <1>1, <1>3, <2>1, PullStays
  <2> QED
    BY <2>2 DEF PullOK, PageOf, Accounted, Passed
<1>5. SyncTypeOK'
  BY <1>0, <1>1, <1>2 DEF SyncTypeOK
<1>6. Passed(last)' /\ Passed(cursor)'
  BY <1>0, <1>1 DEF Passed
<1> QED
  BY <1>0, <1>1, <1>2, <1>4, <1>5, <1>6 DEF SyncInv

LEMMA CallStep ==
    ASSUME SyncInv, NEW w \in Pulls,
           GetOfflineMessages(w) \/ GetOfflineMessagesByDevice(w) \/ OnUserOnlineWithDevice(w)
    PROVE  SyncInv'
<1>0. /\ Passed(last) /\ Passed(cursor) /\ last \in Marks /\ cursor \in Marks /\ maxSeq \in Marks /\ 0 \in Marks
  BY SyncConstants DEF SyncInv, SyncTypeOK, Marks
<1>1. /\ UNCHANGED <<maxSeq, hash, index, queue, cursor, last, handed, excused, ended>>
      /\ syncs' \in 0..MaxSyncs
  <2>1. syncs < MaxSyncs /\ syncs' = syncs + 1 /\ syncs \in 0..MaxSyncs
    BY DEF SyncInv, SyncTypeOK, GetOfflineMessages, GetOfflineMessagesByDevice, OnUserOnlineWithDevice, Called
  <2> QED
    BY <2>1, SyncConstants DEF GetOfflineMessages, GetOfflineMessagesByDevice, OnUserOnlineWithDevice,
                               written, deviceVars
<1>2. PICK how \in Ways, b \in Marks, x \in Marks :
          Passed(b) /\ Proceed(w, [pc |-> "page", how |-> how, base |-> b, max |-> x])
  <2>1. CASE GetOfflineMessages(w)
    BY <1>0, <2>1 DEF GetOfflineMessages, StartAt, Ways
  <2>2. CASE GetOfflineMessagesByDevice(w)
    BY <1>0, <2>2 DEF GetOfflineMessagesByDevice, StartAt, Ways
  <2>3. CASE OnUserOnlineWithDevice(w)
    <3>1. PICK c \in {cursor, 0} : Proceed(w, [StartAt("online", Larger(c, last)) EXCEPT !.max = maxSeq])
      BY <2>3 DEF OnUserOnlineWithDevice
    <3>2. Larger(c, last) \in Marks /\ Passed(Larger(c, last))
      <4>1. Passed(0)
        BY DEF Passed
      <4> QED
        BY <1>0, <4>1 DEF Larger
    <3>3. [StartAt("online", Larger(c, last)) EXCEPT !.max = maxSeq]
              = [pc |-> "page", how |-> "online", base |-> Larger(c, last), max |-> maxSeq]
      BY DEF StartAt
    <3> QED
      BY <1>0, <3>1, <3>2, <3>3 DEF Ways
  <2> QED
    BY <2>1, <2>2, <2>3
<1> DEFINE q == [pc |-> "page", how |-> how, base |-> b, max |-> x]
<1>3. q \in PullStates /\ q.pc = "page" /\ q.base = b
  BY <1>2 DEF PullStates
<1>4. Proceed(w, q)
  BY <1>2
<1> HIDE DEF q
<1>5. PullOK(q)
  BY <1>2, <1>3 DEF PullOK
<1> QED
  BY <1>1, <1>3, <1>4, <1>5, RequestMoves

LEMMA PageStep == ASSUME SyncInv, NEW w \in Pulls, ReadPage(w) PROVE SyncInv'
<1>0. /\ pulls[w] \in PullStates /\ PullOK(pulls[w]) /\ pulls[w].pc = "page" /\ index \subseteq Seqs
      /\ syncs \in 0..MaxSyncs
  BY DEF SyncInv, SyncTypeOK, ReadPage
<1>1. PICK b \in Marks : b = pulls[w].base /\ Passed(b)
  BY <1>0, PullTypes DEF PullOK
<1>2. PICK x \in Marks : x = pulls[w].max
  BY <1>0, PullTypes
<1>3. PICK how \in Ways : how = pulls[w].how
  BY <1>0, PullTypes
<1>4. PICK page : page = GetUserMessagesAfterSeq(b)
  OBVIOUS
<1>5. /\ page \subseteq index /\ page \subseteq Seqs /\ \A m \in page : m > b
      /\ \A m \in index, y \in page : m > b /\ m <= y => m \in page
      /\ ~(Cardinality(page) >= PageLimit) => \A m \in index : m > b => m \in page
  BY <1>0, <1>4, Pages
<1>7. PICK next \in {"cursor", "max", "build"} :
          next = CASE how = "online" -> "build" [] how = "device" -> "cursor" [] OTHER -> "max"
  OBVIOUS
<1> DEFINE q == [pc |-> next, how |-> how, base |-> b, from |-> b, max |-> x, maxRead |-> FALSE,
                 page |-> page, full |-> Cardinality(page) >= PageLimit, seen |-> index]
<1>8. Proceed(w, q) \/ Proceed(w, Served)
  BY <1>1, <1>2, <1>3, <1>4, <1>7 DEF ReadPage
<1>9. /\ UNCHANGED <<maxSeq, hash, index, queue, cursor, last, handed, excused, ended>> /\ syncs' \in 0..MaxSyncs
  BY <1>0 DEF ReadPage, written, deviceVars
<1>10. (Cardinality(page) >= PageLimit) \in BOOLEAN
  OBVIOUS
<1>11. q \in PullStates
  BY <1>0, <1>5, <1>10 DEF PullStates
<1>12. /\ q.pc \in {"cursor", "max", "build"} /\ q.base = b /\ q.from = b /\ q.page = page /\ q.seen = index
       /\ q.maxRead = FALSE /\ (q.full = (Cardinality(page) >= PageLimit))
  BY <1>7
<1> HIDE DEF q
<1>13. PullOK(q)
  BY <1>1, <1>5, <1>12 DEF PullOK, PageOf
<1> QED
  BY <1>8, <1>9, <1>11, <1>13, ServedOK, RequestMoves

LEMMA ReadStep == ASSUME SyncInv, NEW w \in Pulls, ReadCursor(w) \/ ReadMax(w) \/ SyncFails(w) PROVE SyncInv'
<1>0. /\ pulls[w] \in PullStates /\ PullOK(pulls[w]) /\ syncs \in 0..MaxSyncs /\ cursor \in Marks
      /\ maxSeq \in Marks /\ 0 \in Marks /\ Indexed /\ Passed(cursor)
  BY SyncConstants DEF SyncInv, SyncTypeOK, Marks
<1>1. /\ UNCHANGED <<maxSeq, hash, index, queue, cursor, last, handed, excused, ended>> /\ syncs' \in 0..MaxSyncs
  BY <1>0, Zenon DEF ReadCursor, ReadMax, SyncFails, written, deviceVars
<1>2. CASE SyncFails(w)
  BY <1>1, <1>2, ServedOK, RequestMoves DEF SyncFails
<1>3. CASE ReadCursor(w)
  <2>1. PICK r \in [pc : {"cursor", "max", "build"}, how : Ways, base : Marks, from : Marks, max : Marks,
                    maxRead : BOOLEAN, page : SUBSET Seqs, full : BOOLEAN, seen : SUBSET Seqs] : r = pulls[w]
    BY <1>0, <1>3, PullTypes DEF ReadCursor
  <2>2. PageOf(r)
    BY <1>0, <1>3, <2>1 DEF PullOK, ReadCursor
  <2>3. PICK c \in Marks : Passed(c) /\ Proceed(w, [r EXCEPT !.pc = "max", !.from = c])
    <3>1. Passed(0)
      BY DEF Passed
    <3> QED
      BY <1>0, <1>3, <2>1, <3>1, Zenon DEF ReadCursor
  <2>4. PICK q : q = [r EXCEPT !.pc = "max", !.from = c]
    OBVIOUS
  <2>5. /\ q \in PullStates /\ q.pc = "max" /\ q.from = c /\ q.base = r.base /\ q.page = r.page
        /\ q.seen = r.seen /\ q.full = r.full /\ q.maxRead = r.maxRead /\ q.max = r.max
    BY <2>4 DEF PullStates
  <2>6. PullOK(q)
    BY <2>2, <2>3, <2>5 DEF PullOK, PageOf
  <2> QED
    BY <1>1, <2>3, <2>4, <2>5, <2>6, RequestMoves
<1>4. CASE ReadMax(w)
  <2>1. PICK r \in [pc : {"cursor", "max", "build"}, how : Ways, base : Marks, from : Marks, max : Marks,
                    maxRead : BOOLEAN, page : SUBSET Seqs, full : BOOLEAN, seen : SUBSET Seqs] : r = pulls[w]
    BY <1>0, <1>4, PullTypes, Zenon DEF ReadMax
  <2>2. PageOf(r)
    BY <1>0, <1>4, <2>1, Zenon DEF PullOK, ReadMax
  <2>3. PICK ok \in BOOLEAN :
            Proceed(w, [r EXCEPT !.pc = "build", !.max = IF ok THEN maxSeq ELSE 0, !.maxRead = ok])
    BY <1>4, <2>1, Zenon DEF ReadMax
  <2>4. PICK x \in Marks : x = IF ok THEN maxSeq ELSE 0
    BY <1>0
  <2>5. PICK q : q = [r EXCEPT !.pc = "build", !.max = x, !.maxRead = ok]
    OBVIOUS
  <2>6. /\ q \in PullStates /\ q.pc = "build" /\ q.from = r.from /\ q.base = r.base /\ q.page = r.page
        /\ q.seen = r.seen /\ q.full = r.full /\ q.maxRead = ok /\ q.max = x
    BY <2>5 DEF PullStates
  <2>7. ok => \A m \in r.seen : m <= x
    BY <1>0, <2>2, <2>4 DEF Indexed, PageOf
  <2>8. PullOK(q)
    BY <2>2, <2>6, <2>7 DEF PullOK, PageOf
  <2>9. Proceed(w, q)
    BY <2>3, <2>4, <2>5
  <2> QED
    BY <1>1, <2>6, <2>8, <2>9, RequestMoves
<1> QED
  BY <1>2, <1>3, <1>4

\* Up to the number the reply names, the messages are those of the page or
\* the request has an excuse for passing them.
LEMMA Built ==
    ASSUME SyncInv,
           NEW r \in [pc : {"cursor", "max", "build"}, how : Ways, base : Marks, from : Marks, max : Marks,
                      maxRead : BOOLEAN, page : SUBSET Seqs, full : BOOLEAN, seen : SUBSET Seqs],
           PageOf(r), NEW b, b = BuildMessages(r.from, r.page)
    PROVE  /\ b.seq \in Marks /\ b.messages \subseteq Seqs /\ b.acked \subseteq Seqs /\ Excuse(r, b.seq) \subseteq Seqs
           /\ 1..b.seq \subseteq handed \cup excused \cup b.messages \cup Excuse(r, b.seq)
<1> DEFINE stored == {m \in r.page : hash[m] \in {"pending", "acked"}}
<1>0. /\ hash \in [Seqs -> {"none", "pending", "acked", "gone"}] /\ Indexed /\ r.page \subseteq Seqs
      /\ r.base \in Marks /\ r.from \in Marks /\ r.seen \subseteq Seqs /\ MaxSeq \in Nat
  BY SyncConstants DEF SyncInv, SyncTypeOK
<1>1. /\ b.messages = {m \in stored : hash[m] = "pending"} /\ b.acked = {m \in stored : hash[m] = "acked"}
      /\ b.seq = IF stored = {} THEN r.from ELSE Larger(r.from, Max(stored))
  BY DEF BuildMessages
<1>2. stored \in SUBSET (1..MaxSeq)
  BY <1>0 DEF Seqs
<1> HIDE DEF stored
<1>3. stored # {} => Max(stored) \in stored /\ \A y \in stored : y <= Max(stored)
  BY <1>0, <1>2, Greatest
<1>4. stored # {} => Max(stored) \in Marks
  <2>1. 1..MaxSeq \subseteq Marks
    BY <1>0 DEF Marks
  <2>2. stored \subseteq Marks
    BY <1>2, <2>1
  <2> QED
    BY <1>3, <2>2
<1>5. b.seq \in Marks /\ (b.seq = r.from \/ b.seq \in stored)
  <2>1. CASE stored = {}
    BY <1>0, <1>1, <2>1
  <2>2. CASE stored # {}
    BY <1>0, <1>1, <1>3, <1>4, <2>2 DEF Larger
  <2> QED
    BY <2>1, <2>2
<1>6. b.messages \subseteq Seqs /\ b.acked \subseteq Seqs /\ Excuse(r, b.seq) \subseteq Seqs
  <2>1. stored \subseteq Seqs
    BY <1>2 DEF Seqs
  <2>2. b.messages \subseteq Seqs /\ b.acked \subseteq Seqs
    BY <1>1, <2>1
  <2>3. \A s \in Marks : r.base + 1 .. s \subseteq Seqs
    BY <1>0 DEF Seqs, Marks
  <2>4. Excuse(r, b.seq) \subseteq r.base + 1 .. b.seq
    BY DEF Excuse
  <2> QED
    BY <1>5, <2>2, <2>3, <2>4
<1>7. ASSUME NEW m \in 1..b.seq
      PROVE  m \in handed \cup excused \cup b.messages \cup Excuse(r, b.seq)
  <2>1. m \in Seqs /\ m \in Nat /\ b.seq \in Nat
    BY <1>0, <1>5 DEF Seqs, Marks
  <2>2. CASE m <= r.base
    BY <1>0, <2>1, <2>2 DEF PageOf, Passed, Marks
  <2>3. CASE m <= r.from
    BY <1>0, <2>1, <2>3 DEF PageOf, Passed, Marks
  <2>4. CASE m > r.base /\ m > r.from
    <3>1. m \in r.base + 1 .. b.seq
      BY <1>0, <2>1, <2>4 DEF Marks
    <3>2. CASE m \notin r.seen \/ hash[m] \in {"acked", "gone"}
      BY <3>1, <3>2 DEF Excuse
    <3>3. CASE m \in r.seen /\ hash[m] \notin {"acked", "gone"}
      <4>1. hash[m] = "pending"
        BY <1>0, <2>1, <3>3 DEF Indexed, PageOf
      <4>2. b.seq \in stored /\ b.seq \in r.page /\ m <= b.seq
        <5>1. b.seq # r.from
          BY <1>0, <2>1, <2>4 DEF Marks
        <5> QED
          BY <1>5, <5>1 DEF stored
      <4>3. m \in r.page
        BY <2>4, <3>3, <4>2 DEF PageOf
      <4> QED
        BY <1>1, <4>1, <4>3 DEF stored
    <3> QED
      BY <3>2, <3>3
  <2> QED
    BY <1>0, <2>1, <2>2, <2>3, <2>4 DEF Marks
<1> QED
  BY <1>5, <1>6, <1>7

LEMMA ReplyStep == ASSUME SyncInv, NEW w \in Pulls, Reply(w) PROVE SyncInv'
<1>0. /\ SyncTypeOK /\ Indexed /\ Passed(last) /\ Passed(cursor) /\ ~ended /\ \A v \in Pulls : PullOK(pulls[v])
      /\ pulls[w] \in PullStates /\ pulls[w].pc = "build"
  BY DEF SyncInv, SyncTypeOK, Reply
<1>1. PICK r \in [pc : {"cursor", "max", "build"}, how : Ways, base : Marks, from : Marks, max : Marks,
                  maxRead : BOOLEAN, page : SUBSET Seqs, full : BOOLEAN, seen : SUBSET Seqs] : r = pulls[w]
  BY <1>0, PullTypes
<1>2. PageOf(r)
  BY <1>0, <1>1 DEF PullOK
<1>3. PICK b : b = BuildMessages(r.from, r.page)
  OBVIOUS
<1>4. /\ b.seq \in Marks /\ b.messages \subseteq Seqs /\ b.acked \subseteq Seqs /\ Excuse(r, b.seq) \subseteq Seqs
      /\ 1..b.seq \subseteq handed \cup excused \cup b.messages \cup Excuse(r, b.seq)
  BY <1>2, <1>3, Built
<1>5. /\ queue' = queue \ b.acked /\ last' = b.seq /\ handed' = handed \cup b.messages
      /\ excused' = excused \cup Excuse(r, b.seq)
      /\ ended' = (ended \/ (~(b.seq < r.max /\ r.full) /\ r.maxRead
                             /\ \E m \in r.seen \ r.page : m > Larger(r.base, b.seq)))
      /\ Proceed(w, Served) /\ UNCHANGED <<maxSeq, hash, index, syncs, cursor>>
  BY <1>1, <1>3 DEF Reply, written
<1>6. ~ended'
  <2>1. ASSUME NEW m \in r.seen \ r.page, m > Larger(r.base, b.seq), r.maxRead
        PROVE  b.seq < r.max /\ r.full
    <3>1. r.base \in Nat /\ b.seq \in Nat /\ m \in Nat /\ r.max \in Nat
      BY <1>4, SyncConstants DEF Marks, Seqs
    <3>2. m > r.base /\ m > b.seq
      BY <2>1, <3>1 DEF Larger
    <3>3. r.full
      BY <1>2, <3>2 DEF PageOf
    <3>4. m <= r.max
      BY <1>2, <2>1 DEF PageOf
    <3> QED
      BY <3>1, <3>2, <3>3, <3>4
  <2> QED
    BY <1>0, <1>5, <2>1
<1>7. Later
  BY <1>5 DEF Later
<1>8. pulls' \in [Pulls -> PullStates] /\ \A v \in Pulls : PullOK(pulls[v])'
  BY <1>0, <1>5, <1>7, ServedOK, Proceeds DEF SyncTypeOK
<1>9. SyncTypeOK'
  <2>1. ended' \in BOOLEAN
    BY <1>5, Zenon
  <2> QED
    BY <1>0, <1>4, <1>5, <1>8, <2>1 DEF SyncTypeOK
<1>10. Indexed' /\ Passed(last)' /\ Passed(cursor)'
  BY <1>0, <1>4, <1>5 DEF Indexed, Passed
<1> QED
  BY <1>6, <1>8, <1>9, <1>10 DEF SyncInv

LEMMA BuildStep == ASSUME SyncInv, NEW w \in Pulls, BuildPush(w) PROVE SyncInv'
<1>0. /\ SyncTypeOK /\ Indexed /\ Passed(last) /\ Passed(cursor) /\ ~ended /\ \A v \in Pulls : PullOK(pulls[v])
      /\ pulls[w] \in PullStates /\ pulls[w].pc = "build"
  BY DEF SyncInv, SyncTypeOK, BuildPush
<1>1. PICK r \in [pc : {"cursor", "max", "build"}, how : Ways, base : Marks, from : Marks, max : Marks,
                  maxRead : BOOLEAN, page : SUBSET Seqs, full : BOOLEAN, seen : SUBSET Seqs] : r = pulls[w]
  BY <1>0, PullTypes
<1>2. PageOf(r)
  BY <1>0, <1>1 DEF PullOK
<1>3. PICK b : b = BuildMessages(r.from, r.page)
  OBVIOUS
<1>4. /\ b.seq \in Marks /\ b.messages \subseteq Seqs /\ b.acked \subseteq Seqs /\ Excuse(r, b.seq) \subseteq Seqs
      /\ 1..b.seq \subseteq handed \cup excused \cup b.messages \cup Excuse(r, b.seq)
  BY <1>2, <1>3, Built
<1> DEFINE p == [pc |-> "push", base |-> r.base, messages |-> b.messages, seq |-> b.seq, excuse |-> Excuse(r, b.seq)]
<1>5. /\ queue' = queue \ b.acked /\ (Proceed(w, Served) \/ Proceed(w, p))
      /\ UNCHANGED <<maxSeq, hash, index, syncs, cursor, last, handed, excused, ended>>
  BY <1>1, <1>3 DEF BuildPush, written, deviceVars
<1>6. p \in PullStates /\ p.pc = "push" /\ p.seq = b.seq /\ p.messages = b.messages /\ p.excuse = Excuse(r, b.seq)
  BY <1>4 DEF PullStates
<1> HIDE DEF p
<1>7. PullOK(p)
  BY <1>4, <1>6 DEF PullOK, Accounted
<1>8. Later
  BY <1>5 DEF Later
<1>9. pulls' \in [Pulls -> PullStates] /\ \A v \in Pulls : PullOK(pulls[v])'
  BY <1>0, <1>5, <1>6, <1>7, <1>8, ServedOK, PullStays, Proceeds DEF SyncTypeOK
<1>10. SyncTypeOK'
  BY <1>0, <1>4, <1>5, <1>9 DEF SyncTypeOK
<1>11. Indexed' /\ Passed(last)' /\ Passed(cursor)'
  BY <1>0, <1>5 DEF Indexed, Passed
<1> QED
  BY <1>0, <1>5, <1>9, <1>10, <1>11 DEF SyncInv

LEMMA PushStep == ASSUME SyncInv, NEW w \in Pulls, PushPage(w) PROVE SyncInv'
<1>0. /\ SyncTypeOK /\ Indexed /\ Passed(last) /\ Passed(cursor) /\ ~ended /\ \A v \in Pulls : PullOK(pulls[v])
      /\ pulls[w] \in PullStates /\ pulls[w].pc = "push" /\ syncs \in 0..MaxSyncs
  BY DEF SyncInv, SyncTypeOK, PushPage
<1>1. PICK r : r = pulls[w]
  OBVIOUS
<1>2. r.base \in Marks /\ r.messages \subseteq Seqs /\ r.seq \in Marks /\ r.excuse \subseteq Seqs /\ Accounted(r)
  BY <1>0, <1>1, PullTypes DEF PullOK
<1>3. UNCHANGED <<maxSeq, hash, index, syncs, queue, cursor, ended>>
  BY DEF PushPage, written
<1>4. CASE Proceed(w, Served) /\ UNCHANGED <<last, handed, excused>>
  BY <1>0, <1>3, <1>4, ServedOK, RequestMoves
<1> DEFINE q == [pc |-> "advance", seq |-> r.seq]
<1>5. CASE /\ last' = r.seq /\ handed' = handed \cup r.messages /\ excused' = excused \cup r.excuse
           /\ Proceed(w, IF r.seq > r.base THEN q ELSE Served)
  <2>1. Later
    BY <1>3, <1>5 DEF Later
  <2>2. Passed(r.seq)'
    <3>1. PICK n : n = r.seq
      OBVIOUS
    <3>2. 1..n \subseteq handed' \cup excused'
      BY <1>2, <1>5, <3>1 DEF Accounted
    <3> QED
      BY <3>1, <3>2 DEF Passed
  <2>3. q \in PullStates /\ q.pc = "advance" /\ q.seq = r.seq
    BY <1>2 DEF PullStates
  <2>4. Proceed(w, q) \/ Proceed(w, Served)
    BY <1>5
  <2> HIDE DEF q
  <2>5. PullOK(q)'
    BY <2>2, <2>3 DEF PullOK, Passed
  <2>6. pulls' \in [Pulls -> PullStates] /\ \A v \in Pulls : PullOK(pulls[v])'
    BY <1>0, <2>1, <2>3, <2>4, <2>5, ServedOK, Proceeds DEF SyncTypeOK
  <2>7. SyncTypeOK'
    BY <1>0, <1>2, <1>3, <1>5, <2>6 DEF SyncTypeOK
  <2>8. Indexed' /\ Passed(last)' /\ Passed(cursor)'
    BY <1>0, <1>3, <1>5, <2>2 DEF Indexed, Passed
  <2> QED
    BY <1>0, <1>3, <2>6, <2>7, <2>8 DEF SyncInv
<1> QED
  BY <1>1, <1>4, <1>5 DEF PushPage

LEMMA AdvanceStep == ASSUME SyncInv, NEW w \in Pulls, AdvanceGet(w) \/ AdvanceSet(w) PROVE SyncInv'
<1>0. /\ SyncTypeOK /\ Indexed /\ Passed(last) /\ Passed(cursor) /\ ~ended /\ \A v \in Pulls : PullOK(pulls[v])
      /\ pulls[w] \in PullStates /\ pulls[w].pc \in {"advance", "set"} /\ syncs \in 0..MaxSyncs
  BY DEF SyncInv, SyncTypeOK, AdvanceGet, AdvanceSet
<1>1. PICK n \in Marks : n = pulls[w].seq /\ Passed(n)
  BY <1>0, PullTypes DEF PullOK
<1>2. CASE AdvanceGet(w)
  <2> DEFINE q == [pc |-> "set", seq |-> n]
  <2>1. Proceed(w, q) \/ Proceed(w, Served)
    BY <1>1, <1>2 DEF AdvanceGet
  <2>2. /\ UNCHANGED <<maxSeq, hash, index, queue, cursor, last, handed, excused, ended>> /\ syncs' \in 0..MaxSyncs
    BY <1>0, <1>2 DEF AdvanceGet, written, deviceVars
  <2>3. q \in PullStates /\ q.pc = "set" /\ q.seq = n
    BY DEF PullStates
  <2> HIDE DEF q
  <2>4. PullOK(q)
    BY <1>1, <2>3 DEF PullOK
  <2> QED
    BY <2>1, <2>2, <2>3, <2>4, ServedOK, RequestMoves
<1>3. CASE AdvanceSet(w)
  <2>1. /\ cursor' \in {n, cursor} /\ Proceed(w, Served)
        /\ UNCHANGED <<maxSeq, hash, index, syncs, queue, last, handed, excused, ended>>
    BY <1>1, <1>3 DEF AdvanceSet, written, deviceVars
  <2>2. Later
    BY <2>1 DEF Later
  <2>3. pulls' \in [Pulls -> PullStates] /\ \A v \in Pulls : PullOK(pulls[v])'
    BY <1>0, <2>1, <2>2, ServedOK, Proceeds DEF SyncTypeOK
  <2>4. SyncTypeOK'
    BY <1>0, <2>1, <2>3 DEF SyncTypeOK
  <2>5. Indexed' /\ Passed(last)' /\ Passed(cursor)'
    BY <1>0, <1>1, <2>1 DEF Indexed, Passed
  <2> QED
    BY <1>0, <2>1, <2>3, <2>4, <2>5 DEF SyncInv
<1> QED
  BY <1>2, <1>3

LEMMA SyncInitially == SyncInit => SyncInv
<1> SUFFICES ASSUME SyncInit PROVE SyncInv
  OBVIOUS
<1>1. SyncTypeOK
  <2>1. 0 \in Marks /\ 0 \in 0..MaxSyncs
    BY SyncConstants DEF Marks
  <2>2. hash \in [Seqs -> {"none", "pending", "acked", "gone"}]
    BY DEF SyncInit
  <2>3. pulls \in [Pulls -> PullStates]
    BY ServedOK DEF SyncInit
  <2>4. maxSeq = 0 /\ cursor = 0 /\ syncs = 0 /\ last = 0 /\ index = {} /\ queue = {} /\ handed = {} /\ excused = {}
        /\ ended = FALSE
    BY DEF SyncInit
  <2> QED
    BY <2>1, <2>2, <2>3, <2>4 DEF SyncTypeOK
<1>2. \A w \in Pulls : PullOK(pulls[w])
  BY ServedOK DEF SyncInit
<1> QED
  BY <1>1, <1>2 DEF SyncInit, SyncInv, Indexed, Passed

\* The inductive invariant of offline sync.
THEOREM SyncInvariance == SyncSpec => []SyncInv
<1>1. SyncInv /\ [SyncNext]_syncVars => SyncInv'
  <2> SUFFICES ASSUME SyncInv, [SyncNext]_syncVars PROVE SyncInv'
    OBVIOUS
  <2>1. CASE UNCHANGED syncVars
    BY <2>1 DEF syncVars, SyncInv, SyncTypeOK, Indexed, Passed, PullOK, PageOf, Accounted
  <2> QED
    BY <2>1, RouterStep, CallStep, PageStep, ReadStep, ReplyStep, BuildStep, PushStep, AdvanceStep DEF SyncNext
<1> QED
  BY SyncInitially, <1>1, PTL DEF SyncSpec

\* For any messages, page limit and requests of the device (sync.go), the
\* client's number and the device's cursor pass no message that the device
\* was not sent, but for those acked, lapsed or indexed after the page was
\* read; and no reply that read the maximum ends the sync too early.
THEOREM NoGaps == SyncSpec => []NothingSkipped
<1>1. SyncInv => NothingSkipped
  BY DEF SyncInv, NothingSkipped, Passed, Larger
<1> QED
  BY SyncInvariance, <1>1, PTL

\* The index, the cursor and the requests of offline sync keep their types:
\* no cursor leaves the sequence numbers that were given out.
THEOREM SyncTyped == SyncSpec => []SyncTypeOK
<1>1. SyncInv => SyncTypeOK
  BY DEF SyncInv
<1> QED
  BY SyncInvariance, <1>1, PTL

-----------------------------------------------------------------------------
(* The gateways *)

Instances == UNION Fleets
Gateways == Hosts(Instances)
Pools == UNION {[D -> Nat] : D \in SUBSET Gateways}
Updates ==
    [pc : {"idle"}] \cup [pc : {"balance", "reuse"}, all : SUBSET Instances]
        \cup [pc : {"dial"}, all : SUBSET Instances, new : Pools] \cup [pc : {"close"}, old : Pools]
Casts == [pc : {"idle"}] \cup [pc : {"call"}, left : SUBSET Gateways, ok : Nat]

PoolTypeOK ==
    /\ pool \in Pools /\ dialled \in Nat /\ opened \subseteq 1 .. dialled /\ closed \in BOOLEAN
    /\ update \in Updates /\ casts \in [Broadcasters -> Casts]

\* Every gateway has a connection of its own.
OneToOne(f) == \A g, h \in DOMAIN f : f[g] = f[h] => g = h

\* A map of connections follows another one when it keeps those of the
\* gateways it keeps and has new ones for the others.
Follows(new, old) ==
    /\ \A h \in DOMAIN old \cap DOMAIN new : new[h] = old[h]
    /\ \A h \in DOMAIN new \ DOMAIN old : new[h] \notin Range(old)

\* Open are the connections of the pool, and during an update those of the
\* map that is being built, or of the one that was replaced.
Open ==
    /\ OneToOne(pool) /\ Range(pool) \subseteq opened
    /\ update.pc \in {"idle", "balance", "reuse"} => opened = Range(pool)
    /\ update.pc = "dial" =>
          /\ opened = Range(pool) \cup Range(update.new)
          /\ OneToOne(update.new) /\ Follows(update.new, pool)
          /\ DOMAIN pool \cap Hosts(update.all) \subseteq DOMAIN update.new
    /\ update.pc = "close" =>
          /\ opened = Range(pool) \cup Range(update.old)
          /\ OneToOne(update.old) /\ Follows(pool, update.old)
    /\ \A b \in Broadcasters : casts[b].pc = "call" => casts[b].left \subseteq DOMAIN pool

PoolInv == PoolTypeOK /\ (~closed => Open)

\* The parts of an update, by where it is.
LEMMA UpdateTypes ==
    ASSUME update \in Updates
    PROVE  /\ update.pc \in {"idle", "balance", "reuse", "dial", "close"}
           /\ update.pc \in {"balance", "reuse", "dial"} => update.all \subseteq Instances
           /\ update.pc = "dial" => update.new \in Pools
           /\ update.pc = "close" => update.old \in Pools
BY DEF Updates

LEMMA CastTypes ==
    ASSUME NEW x \in Casts
    PROVE  x.pc \in {"idle", "call"} /\ (x.pc = "call" => x.left \subseteq Gateways /\ x.ok \in Nat)
BY DEF Casts

LEMMA IsPool == ASSUME NEW D \in SUBSET Gateways, NEW f \in [D -> Nat] PROVE f \in Pools
BY Zenon DEF Pools

LEMMA PoolTypes ==
    ASSUME NEW f \in Pools
    PROVE  /\ DOMAIN f \subseteq Gateways /\ \A h \in DOMAIN f : f[h] \in Nat
           /\ f = [h \in DOMAIN f |-> f[h]]
BY DEF Pools

\* Steps that leave the pool and the connections alone.
LEMMA PoolStays ==
    ASSUME PoolInv, UNCHANGED <<poolVars, casts, closed>>, update' \in Updates,
           \/ update' = update
           \/ update.pc \in {"idle", "balance", "reuse"} /\ update'.pc \in {"idle", "balance", "reuse"}
    PROVE  PoolInv'
<1>1. PoolTypeOK'
  BY DEF PoolInv, PoolTypeOK, poolVars
<1>2. ASSUME ~closed, Open PROVE Open'
  BY <1>2 DEF Open, OneToOne, Follows, Hosts, poolVars
<1> QED
  BY <1>1, <1>2 DEF PoolInv

LEMMA Redial ==
    ASSUME NEW A, NEW F, NEW B, NEW G
    PROVE  [[pc |-> "dial", all |-> A, new |-> F] EXCEPT !.new = G, !.all = B] = [pc |-> "dial", all |-> B, new |-> G]
<1>1. [[pc |-> "dial", all |-> A, new |-> F] EXCEPT !.new = G] = [pc |-> "dial", all |-> A, new |-> G]
  OBVIOUS
<1>2. [[pc |-> "dial", all |-> A, new |-> G] EXCEPT !.all = B] = [pc |-> "dial", all |-> B, new |-> G]
  OBVIOUS
<1> QED
  BY <1>1, <1>2

LEMMA ReuseStep == ASSUME PoolInv, Reuse PROVE PoolInv'
<1> DEFINE D == DOMAIN pool \cap Hosts(update.all)
           new == [h \in D |-> pool[h]]
<1>1. /\ update.pc = "reuse" /\ UNCHANGED <<poolVars, casts, closed>>
      /\ update' = [pc |-> "dial", all |-> update.all, new |-> new]
  BY DEF Reuse, Restrict
<1>2. pool \in Pools /\ update.all \subseteq Instances
  BY <1>1, UpdateTypes DEF PoolInv, PoolTypeOK
<1>3. new \in Pools /\ DOMAIN new = D
  <2>1. D \subseteq Gateways /\ \A h \in D : pool[h] \in Nat
    BY <1>2, PoolTypes
  <2>2. new \in [D -> Nat] /\ D \in SUBSET Gateways
    BY <2>1
  <2> HIDE DEF new, D
  <2> QED
    BY <2>2, IsPool
<1>4. /\ update' \in Updates
      /\ update'.pc = "dial" /\ update'.all = update.all /\ update'.new = new
  BY <1>1, <1>2, <1>3 DEF Updates
<1>5. PoolTypeOK'
  BY <1>1, <1>4 DEF PoolInv, PoolTypeOK, poolVars
<1>6. ASSUME ~closed PROVE Open'
  <2>1. Open
    BY <1>6 DEF PoolInv
  <2>2. opened = Range(pool) /\ OneToOne(pool)
    BY <1>1, <2>1 DEF Open
  <2>3. Range(new) \subseteq Range(pool) /\ OneToOne(new) /\ Follows(new, pool)
    BY <2>2 DEF Range, OneToOne, Follows
  <2>4. D \subseteq DOMAIN new
    BY <1>3
  <2> HIDE DEF new, D
  <2>5. pool' = pool /\ opened' = opened /\ casts' = casts
    BY <1>1 DEF poolVars
  <2>6. DOMAIN pool \cap Hosts(update.all) \subseteq DOMAIN new
    BY <2>4 DEF D
  <2> QED
    BY <1>4, <2>1, <2>2, <2>3, <2>5, <2>6 DEF Open, OneToOne, Follows, Hosts, Range
<1> QED
  BY <1>1, <1>5, <1>6 DEF PoolInv

LEMMA DialStep == ASSUME PoolInv, Dial PROVE PoolInv'
<1>1. PICK i \in update.all :
        /\ i.host \notin DOMAIN update.new
        /\ \/ /\ dialled' = dialled + 1 /\ opened' = opened \cup {dialled'}
              /\ update' = [update EXCEPT !.new = With(@, i.host, dialled'), !.all = @ \ {i}]
           \/ update' = [update EXCEPT !.all = @ \ {i}] /\ UNCHANGED <<opened, dialled>>
  BY DEF Dial
<1>2. update.pc = "dial" /\ UNCHANGED <<pool, casts, closed>>
  BY DEF Dial
<1>3. /\ pool \in Pools /\ update.all \subseteq Instances /\ update.new \in Pools /\ update \in Updates
      /\ dialled \in Nat /\ opened \subseteq 1 .. dialled
      /\ update = [pc |-> "dial", all |-> update.all, new |-> update.new]
  BY <1>2, UpdateTypes DEF PoolInv, PoolTypeOK, Updates
<1> DEFINE all == update.all
           old == update.new
           new == With(old, i.host, dialled + 1)
<1>4. Hosts(all \ {i}) \subseteq Hosts(all) /\ i.host \in Hosts(all) /\ i.host \in Gateways
  BY <1>1, <1>3 DEF Hosts, Gateways
<1>5. new \in Pools /\ DOMAIN new = DOMAIN old \cup {i.host}
  <2>1. DOMAIN old \cup {i.host} \subseteq Gateways /\ \A h \in DOMAIN old : old[h] \in Nat
    BY <1>3, <1>4, PoolTypes
  <2>2. new \in [DOMAIN old \cup {i.host} -> Nat]
    BY <1>3, <2>1 DEF With
  <2> HIDE DEF new, old
  <2> QED
    BY <2>1, <2>2, IsPool
<1>6. CASE /\ dialled' = dialled + 1 /\ opened' = opened \cup {dialled'}
           /\ update' = [update EXCEPT !.new = With(@, i.host, dialled'), !.all = @ \ {i}]
  <2>2. update' = [pc |-> "dial", all |-> all \ {i}, new |-> new]
    <3>1. update' = [update EXCEPT !.new = new, !.all = all \ {i}]
      BY <1>6
    <3>2. update' = [[pc |-> "dial", all |-> all, new |-> old] EXCEPT !.new = new, !.all = all \ {i}]
      BY <1>3, <3>1
    <3> HIDE DEF new, all, old
    <3> QED
      BY <3>2, Redial
  <2>3. update' \in Updates /\ update'.pc = "dial" /\ update'.all = all \ {i} /\ update'.new = new
    BY <1>3, <1>5, <2>2 DEF Updates
  <2>4. PoolTypeOK'
    BY <1>2, <1>3, <1>6, <2>3 DEF PoolInv, PoolTypeOK
  <2>5. ASSUME ~closed PROVE Open'
    <3>1. Open
      BY <2>5 DEF PoolInv
    <3>2. /\ OneToOne(pool) /\ Range(pool) \subseteq opened /\ opened = Range(pool) \cup Range(old)
          /\ OneToOne(old) /\ Follows(old, pool) /\ DOMAIN pool \cap Hosts(all) \subseteq DOMAIN old
      BY <1>2, <3>1 DEF Open
    <3>3. dialled + 1 \notin opened /\ i.host \notin DOMAIN pool
      BY <1>1, <1>3, <1>4, <3>2
    <3>4. \A h \in DOMAIN old : old[h] \in opened /\ new[h] = old[h]
      BY <1>1, <3>2 DEF Range, With
    <3>5. new[i.host] = dialled + 1
      BY DEF With
    <3> HIDE DEF new
    <3>6. OneToOne(new)
      BY <1>5, <3>2, <3>3, <3>4, <3>5 DEF OneToOne
    <3>7. Follows(new, pool)
      BY <1>5, <3>2, <3>3, <3>4, <3>5 DEF Follows
    <3>8. Range(new) = Range(old) \cup {dialled + 1}
      BY <1>5, <3>4, <3>5 DEF Range
    <3>9. pool' = pool /\ casts' = casts /\ opened' = Range(pool) \cup Range(new)
      BY <1>2, <1>6, <3>2, <3>8
    <3>10. DOMAIN pool \cap Hosts(all \ {i}) \subseteq DOMAIN new
      BY <1>4, <1>5, <3>2
    <3> HIDE DEF all, old
    <3> QED
      BY <2>3, <3>1, <3>2, <3>6, <3>7, <3>9, <3>10 DEF Open, OneToOne, Follows, Hosts, Range
  <2> QED
    BY <1>2, <2>4, <2>5 DEF PoolInv
<1>7. CASE update' = [update EXCEPT !.all = @ \ {i}] /\ UNCHANGED <<opened, dialled>>
  <2>1. update' = [pc |-> "dial", all |-> all \ {i}, new |-> old]
    BY <1>3, <1>7
  <2>2. update' \in Updates /\ update'.pc = "dial" /\ update'.all = all \ {i} /\ update'.new = old
    BY <1>3, <2>1 DEF Updates
  <2>3. PoolTypeOK'
    BY <1>2, <1>3, <1>7, <2>2 DEF PoolInv, PoolTypeOK
  <2>4. ASSUME Open PROVE Open'
    BY <1>2, <1>4, <1>7, <2>2, <2>4 DEF Open, OneToOne, Follows, Hosts, Range
  <2> QED
    BY <1>2, <2>3, <2>4 DEF PoolInv
<1> QED
  BY <1>1, <1>6, <1>7

LEMMA SwapStep == ASSUME PoolInv, SwapMaps PROVE PoolInv'
<1>1. /\ update.pc = "dial" /\ ~Locked /\ UNCHANGED <<opened, dialled, casts, closed>>
      /\ update' = [pc |-> "close", old |-> pool] /\ pool' = update.new
  BY DEF SwapMaps
<1>2. /\ pool \in Pools /\ update.new \in Pools
      /\ update' \in Updates /\ update'.pc = "close" /\ update'.old = pool
  BY <1>1, UpdateTypes DEF PoolInv, PoolTypeOK, Updates
<1>3. PoolTypeOK'
  BY <1>1, <1>2 DEF PoolInv, PoolTypeOK
<1>4. \A b \in Broadcasters : casts[b].pc # "call"
  BY <1>1 DEF Locked
<1>5. ASSUME ~closed PROVE Open'
  <2>1. /\ OneToOne(pool) /\ opened = Range(pool) \cup Range(update.new)
        /\ OneToOne(update.new) /\ Follows(update.new, pool)
    BY <1>1, <1>5 DEF PoolInv, Open
  <2> QED
    BY <1>1, <1>2, <1>4, <2>1 DEF Open, OneToOne, Follows, Range
<1> QED
  BY <1>1, <1>3, <1>5 DEF PoolInv

\* The connections closed are those of gateways that are gone, and only those.
LEMMA CloseStep == ASSUME PoolInv, CloseOld PROVE PoolInv'
<1>1. /\ update.pc = "close" /\ UNCHANGED <<pool, dialled, casts, closed>> /\ update' = [pc |-> "idle"]
      /\ opened' = opened \ {update.old[h] : h \in DOMAIN update.old \ DOMAIN pool}
  BY DEF CloseOld
<1>2. update' \in Updates /\ update'.pc = "idle"
  BY <1>1 DEF Updates
<1>3. PoolTypeOK'
  BY <1>1, <1>2 DEF PoolInv, PoolTypeOK
<1>4. ASSUME ~closed PROVE Open'
  <2>1. /\ OneToOne(pool) /\ opened = Range(pool) \cup Range(update.old)
        /\ OneToOne(update.old) /\ Follows(pool, update.old)
        /\ \A b \in Broadcasters : casts[b].pc = "call" => casts[b].left \subseteq DOMAIN pool
    BY <1>1, <1>4 DEF PoolInv, Open
  <2>2. opened' = Range(pool)
    <3>1. ASSUME NEW h \in DOMAIN update.old \ DOMAIN pool, NEW g \in DOMAIN pool
          PROVE  update.old[h] # pool[g]
      <4>1. CASE g \in DOMAIN update.old
        BY <2>1, <3>1, <4>1 DEF Follows, OneToOne
      <4>2. CASE g \notin DOMAIN update.old
        BY <2>1, <3>1, <4>2 DEF Follows, Range
      <4> QED
        BY <4>1, <4>2
    <3>2. \A h \in DOMAIN update.old \cap DOMAIN pool : update.old[h] = pool[h]
      BY <2>1 DEF Follows
    <3> QED
      BY <1>1, <2>1, <3>1, <3>2 DEF Range
  <2> QED
    BY <1>1, <1>2, <2>1, <2>2 DEF Open, OneToOne, Range
<1> QED
  BY <1>1, <1>3, <1>4 DEF PoolInv

LEMMA CastStep ==
    ASSUME PoolInv, NEW b \in Broadcasters, Broadcast(b) \/ CallClient(b) \/ Broadcasted(b)
    PROVE  PoolInv'
<1>1. UNCHANGED <<pool, opened, dialled, update, closed>>
  BY DEF Broadcast, CallClient, Broadcasted, poolVars
<1>2. /\ casts \in [Broadcasters -> Casts] /\ DOMAIN pool \subseteq Gateways
  BY PoolTypes DEF PoolInv, PoolTypeOK
<1> DEFINE Moves(x) ==
             /\ casts' = [casts EXCEPT ![b] = x]
             /\ x.pc = "call" => \/ x.left \subseteq DOMAIN pool
                                 \/ casts[b].pc = "call" /\ x.left \subseteq casts[b].left
<1>3. \E x \in Casts : Moves(x)
  <2>1. CASE Broadcast(b)
    <3> DEFINE x == [pc |-> "call", left |-> DOMAIN pool, ok |-> 0]
    <3>1. casts' = [casts EXCEPT ![b] = x] /\ x \in Casts /\ x.left = DOMAIN pool
      BY <1>2, <2>1 DEF Broadcast, Casts
    <3> QED
      BY <3>1
  <2>2. CASE CallClient(b)
    <3>1. PICK h \in casts[b].left, answered \in BOOLEAN :
            casts' = [casts EXCEPT ![b].left = @ \ {h}, ![b].ok = @ + IF answered THEN 1 ELSE 0]
      BY <2>2 DEF CallClient
    <3>2. casts[b].pc = "call" /\ casts[b] \in Casts /\ casts[b].left \subseteq Gateways /\ casts[b].ok \in Nat
      BY <1>2, <2>2, CastTypes DEF CallClient
    <3>3. casts[b] = [pc |-> "call", left |-> casts[b].left, ok |-> casts[b].ok]
      BY <3>2 DEF Casts
    <3> DEFINE n == casts[b].ok + IF answered THEN 1 ELSE 0
               x == [pc |-> "call", left |-> casts[b].left \ {h}, ok |-> n]
    <3>4. n \in Nat
      BY <3>2
    <3>5. casts' = [casts EXCEPT ![b] = [[casts[b] EXCEPT !.left = casts[b].left \ {h}] EXCEPT !.ok = n]]
      <4> DEFINE y == [casts[b] EXCEPT !.left = casts[b].left \ {h}]
                 mid == [casts EXCEPT ![b] = y]
      <4>1. casts' = [mid EXCEPT ![b] = [mid[b] EXCEPT !.ok = n]]
        BY <3>1
      <4> HIDE DEF y
      <4>2. mid[b] = y
        BY <1>2
      <4>3. casts' = [mid EXCEPT ![b] = [y EXCEPT !.ok = n]]
        BY <4>1, <4>2
      <4> HIDE DEF n
      <4> QED
        BY <1>2, <4>3 DEF y
    <3>6. [[casts[b] EXCEPT !.left = casts[b].left \ {h}] EXCEPT !.ok = n] = x
      <4> DEFINE A == casts[b].left
                 k == casts[b].ok
                 B == A \ {h}
      <4>1. casts[b] = [pc |-> "call", left |-> A, ok |-> k]
        BY <3>3
      <4> HIDE DEF A, k, B, n
      <4>2. [casts[b] EXCEPT !.left = B] = [pc |-> "call", left |-> B, ok |-> k]
        BY <4>1
      <4>3. [[casts[b] EXCEPT !.left = B] EXCEPT !.ok = n] = [pc |-> "call", left |-> B, ok |-> n]
        <5> DEFINE r == [casts[b] EXCEPT !.left = B]
        <5>1. r = [pc |-> "call", left |-> B, ok |-> k]
          BY <4>2
        <5> HIDE DEF r
        <5>2. [r EXCEPT !.ok = n] = [pc |-> "call", left |-> B, ok |-> n]
          BY <5>1
        <5> QED
          BY <5>2 DEF r
      <4> QED
        BY <4>3 DEF A, B
    <3> HIDE DEF n
    <3>7. x \in Casts /\ x.left \subseteq casts[b].left
      BY <3>2, <3>4 DEF Casts
    <3> QED
      BY <3>2, <3>5, <3>6, <3>7
  <2>3. CASE Broadcasted(b)
    <3> DEFINE x == [pc |-> "idle"]
    <3>1. casts' = [casts EXCEPT ![b] = x] /\ x \in Casts /\ x.pc = "idle"
      BY <2>3 DEF Broadcasted, Casts
    <3> QED
      BY <3>1
  <2> HIDE DEF Moves
  <2> QED
    BY <2>1, <2>2, <2>3
<1>4. PICK x \in Casts : Moves(x)
  BY <1>3
<1>6. /\ casts' \in [Broadcasters -> Casts] /\ casts'[b] = x
      /\ \A a \in Broadcasters \ {b} : casts'[a] = casts[a]
  BY <1>2, <1>4
<1>5. ASSUME ~closed, Open PROVE Open'
  <2>1. \A a \in Broadcasters : casts'[a].pc = "call" => casts'[a].left \subseteq DOMAIN pool
    BY <1>4, <1>5, <1>6 DEF Open
  <2> QED
    BY <1>1, <1>5, <2>1 DEF Open, OneToOne, Follows, Hosts
<1> QED
  BY <1>1, <1>5, <1>6 DEF PoolInv, PoolTypeOK

LEMMA PoolInitially == NodesInit => PoolInv
<1> SUFFICES ASSUME NodesInit PROVE PoolInv
  OBVIOUS
<1>1. pool = <<>> /\ DOMAIN pool = {} /\ Range(pool) = {}
  BY DEF NodesInit, Range
<1>2. pool \in Pools
  <2>1. pool \in [{} -> Nat] /\ {} \in SUBSET Gateways
    BY <1>1
  <2> QED
    BY <2>1 DEF Pools
<1>3. PoolTypeOK
  BY <1>2 DEF NodesInit, PoolTypeOK, Updates, Casts
<1> QED
  BY <1>1, <1>3 DEF NodesInit, PoolInv, Open, OneToOne

LEMMA PoolStep == PoolInv /\ [NodesNext]_nodesVars => PoolInv'
<1> SUFFICES ASSUME PoolInv, [NodesNext]_nodesVars PROVE PoolInv'
  OBVIOUS
<1>0. update \in Updates
  BY DEF PoolInv, PoolTypeOK
<1>1. ASSUME NEW f \in Fleets, SetNodes(f) PROVE PoolInv'
  <2>1. /\ update.pc = "idle" /\ UNCHANGED <<poolVars, casts, closed>>
        /\ update' = [pc |-> "balance", all |-> NewNodes(f)] /\ NewNodes(f) \subseteq Instances
    BY <1>1 DEF SetNodes, NewNodes, Instances
  <2>2. update' \in Updates /\ update'.pc = "balance"
    BY <2>1 DEF Updates
  <2> QED
    BY <2>1, <2>2, PoolStays
<1>2. CASE Balance
  <2>1. /\ update.pc = "balance" /\ UNCHANGED <<poolVars, casts, closed>>
        /\ update' = [pc |-> "idle"] \/ update' = [pc |-> "reuse", all |-> update.all]
    BY <1>2 DEF Balance
  <2>2. update.all \subseteq Instances
    BY <1>0, <2>1, UpdateTypes
  <2>3. update' \in Updates /\ update'.pc \in {"idle", "reuse"}
    BY <2>1, <2>2 DEF Updates
  <2> QED
    BY <2>1, <2>3, PoolStays
<1>3. CASE NodesWeighted
  <2>1. UNCHANGED <<poolVars, casts, closed, update>>
    BY <1>3 DEF NodesWeighted, NodeAddrs, poolVars
  <2> QED
    BY <1>0, <2>1, PoolStays
<1>4. CASE ClosePool
  <2>1. /\ closed' = TRUE /\ opened' = opened \ Range(pool) /\ pool' = <<>>
        /\ UNCHANGED <<dialled, update, casts>>
    BY <1>4 DEF ClosePool
  <2>2. pool' \in Pools
    <3>1. pool' \in [{} -> Nat] /\ {} \in SUBSET Gateways
      BY <2>1
    <3> QED
      BY <3>1 DEF Pools
  <2> QED
    BY <2>1, <2>2 DEF PoolInv, PoolTypeOK
<1>5. CASE UNCHANGED nodesVars
  <2>1. UNCHANGED <<poolVars, casts, closed, update>>
    BY <1>5 DEF nodesVars, poolVars
  <2> QED
    BY <1>0, <2>1, PoolStays
<1> QED
  BY <1>1, <1>2, <1>3, <1>4, <1>5, ReuseStep, DialStep, SwapStep, CloseStep, CastStep DEF NodesNext

-----------------------------------------------------------------------------
(* The balancer: sums over finite sets, from the definition of the folds *)

One(s) == CHOOSE x \in s : TRUE
Adds(it, w, S) == it = [s \in SUBSET S |-> IF s = {} THEN 0 ELSE w[One(s)] + it[s \ {One(s)}]]
Adder(w, S) == CHOOSE it : Adds(it, w, S)
Sum(w) == Adder(w, DOMAIN w)[DOMAIN w]

ConnsOf(nodes) == [h \in DOMAIN nodes |-> nodes[h].conns]
WeightsOf(nodes) == [h \in DOMAIN nodes |-> nodes[h].weight]

LEMMA OneIn == ASSUME NEW s, s # {} PROVE One(s) \in s
BY DEF One

LEMMA TotalsAreSums ==
    ASSUME NEW nodes
    PROVE  TotalConns(nodes) = Sum(ConnsOf(nodes)) /\ TotalWeight(nodes) = Sum(WeightsOf(nodes))
<1> DEFINE AddsConns(it) ==
             it = [s \in SUBSET DOMAIN nodes |-> IF s = {} THEN 0 ELSE nodes[One(s)].conns + it[s \ {One(s)}]]
           AddsWeight(it) ==
             it = [s \in SUBSET DOMAIN nodes |-> IF s = {} THEN 0 ELSE nodes[One(s)].weight + it[s \ {One(s)}]]
<1>1. TotalConns(nodes) = (CHOOSE it : AddsConns(it))[DOMAIN nodes]
  BY DEF TotalConns, MapThenSumSet, MapThenFoldSet, One
<1>2. TotalWeight(nodes) = (CHOOSE it : AddsWeight(it))[DOMAIN nodes]
  BY DEF TotalWeight, MapThenSumSet, MapThenFoldSet, One
<1>3. DOMAIN ConnsOf(nodes) = DOMAIN nodes /\ DOMAIN WeightsOf(nodes) = DOMAIN nodes
  BY DEF ConnsOf, WeightsOf
<1>4. \A s \in SUBSET DOMAIN nodes : s # {} => /\ ConnsOf(nodes)[One(s)] = nodes[One(s)].conns
                                              /\ WeightsOf(nodes)[One(s)] = nodes[One(s)].weight
  BY OneIn DEF ConnsOf, WeightsOf
<1>5. \A it : Adds(it, ConnsOf(nodes), DOMAIN nodes) <=> AddsConns(it)
  <2>1. ASSUME NEW it
        PROVE  [s \in SUBSET DOMAIN nodes |-> IF s = {} THEN 0 ELSE ConnsOf(nodes)[One(s)] + it[s \ {One(s)}]]
               = [s \in SUBSET DOMAIN nodes |-> IF s = {} THEN 0 ELSE nodes[One(s)].conns + it[s \ {One(s)}]]
    BY <1>4
  <2> QED
    BY <2>1 DEF Adds
<1>6. \A it : Adds(it, WeightsOf(nodes), DOMAIN nodes) <=> AddsWeight(it)
  <2>1. ASSUME NEW it
        PROVE  [s \in SUBSET DOMAIN nodes |-> IF s = {} THEN 0 ELSE WeightsOf(nodes)[One(s)] + it[s \ {One(s)}]]
               = [s \in SUBSET DOMAIN nodes |-> IF s = {} THEN 0 ELSE nodes[One(s)].weight + it[s \ {One(s)}]]
    BY <1>4
  <2> QED
    BY <2>1 DEF Adds
<1> HIDE DEF AddsConns, AddsWeight
<1>7. Adder(ConnsOf(nodes), DOMAIN nodes) = (CHOOSE it : AddsConns(it))
  BY <1>5, Zenon DEF Adder
<1>8. Adder(WeightsOf(nodes), DOMAIN nodes) = (CHOOSE it : AddsWeight(it))
  BY <1>6, Zenon DEF Adder
<1> QED
  BY <1>1, <1>2, <1>3, <1>7, <1>8 DEF Sum

\* Of some subsets of a finite set, one has no smaller one by its own choice.
LEMMA Smallest ==
    ASSUME NEW S, IsFiniteSet(S), NEW B \in SUBSET (SUBSET S), B # {}
    PROVE  \E s \in B : s # {} => s \ {One(s)} \notin B
<1> DEFINE T == {Cardinality(s) : s \in B}
<1>1. \A s \in SUBSET S : IsFiniteSet(s) /\ Cardinality(s) \in Nat
  BY FS_Subset, FS_CardinalityType
<1>2. T \in SUBSET Nat /\ T # {}
  BY <1>1
<1>3. PICK n \in T : \A y \in T : n <= y
  <2> HIDE DEF T
  <2> QED
    BY <1>2, Least
<1>4. PICK s \in B : Cardinality(s) = n
  BY <1>3
<1>5. ASSUME s # {} PROVE Cardinality(s \ {One(s)}) < n
  <2>1. IsFiniteSet(s) /\ One(s) \in s
    BY <1>1, <1>5, OneIn
  <2>2. Cardinality(s \ {One(s)}) = Cardinality(s) - 1
    BY <2>1, FS_RemoveElement
  <2> QED
    BY <1>1, <1>4, <2>2
<1>6. \A x \in B : n <= Cardinality(x)
  BY <1>3
<1>7. \A x \in B : Cardinality(x) \in Nat
  BY <1>1
<1> HIDE DEF T
<1>8. n \in Nat
  BY <1>2, <1>3
<1>9. s # {} => s \ {One(s)} \notin B
  <2> DEFINE t == s \ {One(s)}
  <2> SUFFICES ASSUME s # {}, t \in B PROVE FALSE
    OBVIOUS
  <2>1. Cardinality(t) < n /\ n <= Cardinality(t) /\ Cardinality(t) \in Nat
    BY <1>5, <1>6, <1>7
  <2> HIDE DEF t
  <2> QED
    BY <1>8, <2>1
<1> QED
  BY <1>9

\* The recursion over the subsets of a finite set has a solution: level by
\* level of their sizes.
LEMMA AdderExists ==
    ASSUME NEW S, IsFiniteSet(S), NEW w
    PROVE  Adds(Adder(w, S), w, S)
<1> DEFINE Small(n) == {s \in SUBSET S : Cardinality(s) <= n}
           Level(it, s) == IF s = {} THEN 0 ELSE w[One(s)] + it[s \ {One(s)}]
           Part(n) == \E it : it = [s \in Small(n) |-> Level(it, s)]
<1>1. \A s \in SUBSET S : IsFiniteSet(s) /\ Cardinality(s) \in Nat /\ Cardinality(s) <= Cardinality(S)
  BY FS_Subset, FS_CardinalityType
<1>2. ASSUME NEW n \in Nat, NEW s \in Small(n + 1), s # {} PROVE s \ {One(s)} \in Small(n)
  <2>1. IsFiniteSet(s) /\ One(s) \in s /\ Cardinality(s) \in Nat /\ Cardinality(s) <= n + 1
    BY <1>1, <1>2, OneIn
  <2>2. Cardinality(s \ {One(s)}) = Cardinality(s) - 1
    BY <2>1, FS_RemoveElement
  <2> QED
    BY <2>1, <2>2
<1>3. Part(0)
  <2>1. \A s \in Small(0) : s = {}
    BY <1>1, FS_EmptySet
  <2> DEFINE it == [s \in Small(0) |-> 0]
  <2>2. \A s \in Small(0) : Level(it, s) = 0
    BY <2>1
  <2>3. it = [s \in Small(0) |-> Level(it, s)]
    <3> HIDE DEF Small, Level
    <3> QED
      BY <2>2
  <2> QED
    BY <2>3
<1>4. ASSUME NEW n \in Nat, Part(n) PROVE Part(n + 1)
  <2>1. PICK it : it = [s \in Small(n) |-> Level(it, s)]
    BY <1>4
  <2> DEFINE jt == [s \in Small(n + 1) |-> Level(it, s)]
  <2>2. \A s \in Small(n) : it[s] = Level(it, s) /\ s \in Small(n + 1)
    <3>1. \A s \in Small(n) : s \in Small(n + 1)
      BY <1>1
    <3> HIDE DEF Small, Level
    <3> QED
      BY <2>1, <3>1
  <2>3. \A s \in Small(n) : jt[s] = it[s]
    <3> HIDE DEF Small, Level
    <3> QED
      BY <2>2
  <2>4. \A s \in Small(n + 1) : Level(jt, s) = Level(it, s)
    <3> HIDE DEF Small, jt
    <3> QED
      BY <1>2, <2>3
  <2>5. jt = [s \in Small(n + 1) |-> Level(jt, s)]
    <3> DEFINE f == [s \in Small(n + 1) |-> Level(it, s)]
               g == [s \in Small(n + 1) |-> Level(jt, s)]
    <3>1. f = g
      <4> HIDE DEF Small, Level, jt
      <4> QED
        BY <2>4
    <3> QED
      BY <3>1
  <2> QED
    BY <2>5
<1>5. \A n \in Nat : Part(n)
  <2> SUFFICES ASSUME NEW m \in Nat, ~Part(m) PROVE FALSE
    OBVIOUS
  <2> HIDE DEF Part
  <2> DEFINE T == {n \in Nat : ~Part(n)}
  <2>1. T \in SUBSET Nat /\ T # {}
    OBVIOUS
  <2>2. PICK n \in T : \A y \in T : n <= y
    <3> HIDE DEF T
    <3> QED
      BY <2>1, Least
  <2>3. n # 0
    BY <1>3
  <2>4. n - 1 \in Nat /\ n - 1 \notin T
    BY <2>2, <2>3
  <2>5. Part(n - 1)
    BY <2>4
  <2> QED
    BY <1>4, <2>2, <2>4, <2>5
<1>6. Small(Cardinality(S)) = SUBSET S /\ Cardinality(S) \in Nat
  BY <1>1
<1>7. \E it : Adds(it, w, S)
  <2>1. PICK it : it = [s \in Small(Cardinality(S)) |-> Level(it, s)]
    BY <1>5, <1>6
  <2>2. it = [s \in SUBSET S |-> Level(it, s)]
    <3> HIDE DEF Small, Level
    <3> QED
      BY <1>6, <2>1
  <2> QED
    BY <2>2 DEF Adds
<1> QED
  BY <1>7, Zenon DEF Adder

LEMMA AdderStep ==
    ASSUME NEW S, IsFiniteSet(S), NEW w, NEW s \in SUBSET S
    PROVE  Adder(w, S)[s] = IF s = {} THEN 0 ELSE w[One(s)] + Adder(w, S)[s \ {One(s)}]
<1> DEFINE it == Adder(w, S)
<1>1. Adds(it, w, S)
  BY AdderExists
<1> HIDE DEF it
<1>2. it[s] = IF s = {} THEN 0 ELSE w[One(s)] + it[s \ {One(s)}]
  BY <1>1 DEF Adds
<1> QED
  BY <1>2 DEF it

LEMMA SumType ==
    ASSUME NEW S, IsFiniteSet(S), NEW w \in [S -> Int]
    PROVE  \A s \in SUBSET S : Adder(w, S)[s] \in Int
<1> DEFINE it == Adder(w, S)
           B == {s \in SUBSET S : it[s] \notin Int}
<1> HIDE DEF it
<1> SUFFICES ASSUME B # {} PROVE FALSE
  BY DEF it
<1>1. PICK s \in B : s # {} => s \ {One(s)} \notin B
  <2>1. B \in SUBSET (SUBSET S)
    OBVIOUS
  <2> HIDE DEF B
  <2> QED
    BY <2>1, Smallest
<1>2. it[s] = IF s = {} THEN 0 ELSE w[One(s)] + it[s \ {One(s)}]
  BY AdderStep DEF it
<1>3. s # {} => One(s) \in S /\ it[s \ {One(s)}] \in Int
  BY <1>1, OneIn
<1> QED
  BY <1>2, <1>3

\* One more at one place is one more in the sum.
LEMMA SumBump ==
    ASSUME NEW S, IsFiniteSet(S), NEW w \in [S -> Int], NEW h \in S
    PROVE  Sum([w EXCEPT ![h] = w[h] + 1]) = Sum(w) + 1
<1> DEFINE v == [w EXCEPT ![h] = w[h] + 1]
           it == Adder(w, S)
           jt == Adder(v, S)
           B == {s \in SUBSET S : jt[s] # it[s] + (IF h \in s THEN 1 ELSE 0)}
<1>1. v \in [S -> Int] /\ DOMAIN v = S /\ DOMAIN w = S /\ v[h] = w[h] + 1 /\ \A x \in S \ {h} : v[x] = w[x]
  OBVIOUS
<1> HIDE DEF v
<1>2. \A s \in SUBSET S : it[s] \in Int /\ jt[s] \in Int
  BY <1>1, SumType
<1>3. \A s \in SUBSET S : /\ it[s] = IF s = {} THEN 0 ELSE w[One(s)] + it[s \ {One(s)}]
                         /\ jt[s] = IF s = {} THEN 0 ELSE v[One(s)] + jt[s \ {One(s)}]
  BY AdderStep
<1> HIDE DEF it, jt
<1>4. B = {}
  <2> SUFFICES ASSUME B # {} PROVE FALSE
    OBVIOUS
  <2>1. PICK s \in B : s # {} => s \ {One(s)} \notin B
    <3>1. B \in SUBSET (SUBSET S)
      OBVIOUS
    <3> HIDE DEF B
    <3> QED
      BY <3>1, Smallest
  <2>2. s # {} /\ One(s) \in s /\ s \in SUBSET S
    BY <1>3, <2>1, OneIn
  <2> DEFINE x == One(s)
             t == s \ {x}
  <2>3. t \in SUBSET S /\ x \in S /\ x \notin t
    BY <2>2
  <2>4. jt[t] = it[t] + (IF h \in t THEN 1 ELSE 0)
    BY <2>1, <2>2, <2>3
  <2>5. it[s] = w[x] + it[t] /\ jt[s] = v[x] + jt[t]
    BY <1>3, <2>2
  <2>6. it[t] \in Int /\ jt[t] \in Int /\ w[x] \in Int
    BY <1>2, <2>3
  <2>7. jt[s] = it[s] + (IF h \in s THEN 1 ELSE 0)
    <3>1. h \in t <=> h \in s /\ h # x
      OBVIOUS
    <3> HIDE DEF x, t
    <3>2. CASE x = h
      BY <1>1, <2>3, <2>4, <2>5, <2>6, <3>1, <3>2, <2>2 DEF x
    <3>3. CASE x # h
      BY <1>1, <2>3, <2>4, <2>5, <2>6, <3>1, <3>3
    <3> QED
      BY <3>2, <3>3
  <2> QED
    BY <2>1, <2>7
<1>5. jt[S] = it[S] + 1
  BY <1>4
<1> QED
  BY <1>1, <1>5 DEF Sum, it, jt, v

-----------------------------------------------------------------------------
(* The balancer: its totals are those of its nodes *)

NodeRecords ==
    [region : {i.region : i \in Instances}, weight : {i.weight : i \in Instances}, conns : Int,
     updated : {i.ts : i \in Instances}]

\* Instances wait for the balancer finitely many at a time.
Waiting ==
    update.pc \in {"idle", "balance", "reuse", "dial", "close"}
        /\ (update.pc = "balance" => update.all \subseteq Instances /\ IsFiniteSet(update.all))

Balancer ==
    /\ IsFiniteSet(DOMAIN lb.nodes) /\ lb.nodes \in [DOMAIN lb.nodes -> NodeRecords]
    /\ lb = [nodes |-> lb.nodes, totalConns |-> lb.totalConns, totalWeight |-> lb.totalWeight]
    /\ TotalsAgree

Balanced == Waiting /\ Balancer

LEMMA NodeRecord == ASSUME NEW i \in Instances PROVE Node(i) \in NodeRecords
BY NodesAssumption DEF NodeRecords, Node, Instances

\* Update keeps records, replaces records and leaves records out, and counts
\* what it keeps.
LEMMA UpdateBalanced ==
    ASSUME Balancer, NEW all \in SUBSET Instances, IsFiniteSet(all), Update(all)
    PROVE  Balancer'
<1> DEFINE kept == {i \in all : IsCurrent(i) \/ i.kind # "noweight"}
           D == {i.host : i \in kept}
           nodes == [h \in D |->
                        LET i == CHOOSE j \in kept : j.host = h
                        IN  IF IsCurrent(i) THEN lb.nodes[h] ELSE Node(i)]
<1>1. lb' = IF all = {} THEN lb
            ELSE [nodes |-> nodes, totalConns |-> TotalConns(nodes), totalWeight |-> TotalWeight(nodes)]
  BY DEF Update
<1>2. IsFiniteSet(D)
  <2>1. IsFiniteSet(kept)
    BY FS_Subset
  <2> HIDE DEF kept
  <2> DEFINE f == [i \in kept |-> i.host]
  <2>2. f \in Surjection(kept, D)
    BY DEF Surjection
  <2> HIDE DEF f, D
  <2> QED
    BY <2>1, <2>2, FS_Surjection
<1>3. nodes \in [D -> NodeRecords]
  <2> SUFFICES ASSUME NEW h \in D PROVE nodes[h] \in NodeRecords
    OBVIOUS
  <2> DEFINE i == CHOOSE j \in kept : j.host = h
  <2>1. i \in kept /\ i.host = h
    <3>1. \E j \in kept : j.host = h
      OBVIOUS
    <3> HIDE DEF kept
    <3> QED
      BY <3>1
  <2>2. nodes[h] = IF IsCurrent(i) THEN lb.nodes[h] ELSE Node(i)
    OBVIOUS
  <2>3. i \in Instances
    BY <2>1
  <2>4. IsCurrent(i) => h \in DOMAIN lb.nodes
    BY <2>1 DEF IsCurrent
  <2> HIDE DEF i, nodes
  <2> QED
    BY <2>2, <2>3, <2>4, NodeRecord DEF Balancer
<1>4. DOMAIN nodes = D
  OBVIOUS
<1> HIDE DEF nodes, D, kept
<1>5. CASE all = {}
  <2>1. lb' = lb
    BY <1>1, <1>5
  <2> QED
    BY <2>1 DEF Balancer, TotalsAgree
<1>6. CASE all # {}
  <2>1. lb' = [nodes |-> nodes, totalConns |-> TotalConns(nodes), totalWeight |-> TotalWeight(nodes)]
    BY <1>1, <1>6
  <2>2. /\ lb'.nodes = nodes /\ lb'.totalConns = TotalConns(nodes) /\ lb'.totalWeight = TotalWeight(nodes)
    BY <2>1
  <2>3. lb' = [nodes |-> lb'.nodes, totalConns |-> lb'.totalConns, totalWeight |-> lb'.totalWeight]
    BY <2>1, <2>2
  <2>4. IsFiniteSet(DOMAIN lb'.nodes) /\ lb'.nodes \in [DOMAIN lb'.nodes -> NodeRecords]
    BY <1>2, <1>3, <1>4, <2>2
  <2>5. lb'.totalConns = TotalConns(lb'.nodes) /\ lb'.totalWeight = TotalWeight(lb'.nodes)
    BY <2>2
  <2> QED
    BY <2>3, <2>4, <2>5 DEF Balancer, TotalsAgree
<1> QED
  BY <1>5, <1>6

\* A client sent to a node is one connection more, at the node and in all.
LEMMA NodeAddrsBalanced ==
    ASSUME Balancer, NEW region, NodeAddrs(region)
    PROVE  Balancer'
<1>1. PICK h \in DOMAIN lb.nodes : lb' = [lb EXCEPT !.nodes[h].conns = @ + 1, !.totalConns = @ + 1]
  BY DEF NodeAddrs
<1> DEFINE old == lb.nodes
           new == [old EXCEPT ![h] = [old[h] EXCEPT !.conns = old[h].conns + 1]]
<1>2. lb = [nodes |-> old, totalConns |-> lb.totalConns, totalWeight |-> lb.totalWeight]
  BY DEF Balancer
<1>3. /\ lb'.nodes = new /\ lb'.totalConns = lb.totalConns + 1 /\ lb'.totalWeight = lb.totalWeight
      /\ lb' = [nodes |-> lb'.nodes, totalConns |-> lb'.totalConns, totalWeight |-> lb'.totalWeight]
  <2> DEFINE c == lb.totalConns
             w == lb.totalWeight
             o == lb.nodes
  <2>1. lb = [nodes |-> o, totalConns |-> c, totalWeight |-> w]
    BY <1>2
  <2>2. lb' = [[nodes |-> o, totalConns |-> c, totalWeight |-> w]
                 EXCEPT !.nodes[h].conns = @ + 1, !.totalConns = @ + 1]
    BY <1>1, <2>1
  <2> HIDE DEF c, w, o
  <2>3. lb' = [nodes |-> [o EXCEPT ![h] = [o[h] EXCEPT !.conns = o[h].conns + 1]],
               totalConns |-> c + 1, totalWeight |-> w]
    BY <2>2
  <2>4. /\ lb'.nodes = [o EXCEPT ![h] = [o[h] EXCEPT !.conns = o[h].conns + 1]]
        /\ lb'.totalConns = c + 1 /\ lb'.totalWeight = w
    BY <2>3
  <2> QED
    BY <2>3, <2>4 DEF c, w, o
<1>4. old \in [DOMAIN old -> NodeRecords] /\ IsFiniteSet(DOMAIN old)
  BY DEF Balancer
<1>5. old[h] \in NodeRecords /\ old[h].conns \in Int
  BY <1>4 DEF NodeRecords
<1>6. [old[h] EXCEPT !.conns = old[h].conns + 1] \in NodeRecords
  BY <1>5 DEF NodeRecords
<1>7. new \in [DOMAIN old -> NodeRecords]
  BY <1>4, <1>6
<1>8. /\ new[h].conns = old[h].conns + 1 /\ new[h].weight = old[h].weight
      /\ \A o \in DOMAIN old \ {h} : new[o] = old[o]
  BY <1>5 DEF NodeRecords
<1> DEFINE conns == ConnsOf(old)
<1>9. DOMAIN new = DOMAIN old
  OBVIOUS
<1> HIDE DEF old, new
<1>10. WeightsOf(new) = WeightsOf(old)
  BY <1>8, <1>9 DEF WeightsOf
<1>11. conns \in [DOMAIN old -> Int] /\ conns[h] = old[h].conns /\ h \in DOMAIN old
  BY <1>4 DEF ConnsOf, NodeRecords, old
<1>12. ConnsOf(new) = [conns EXCEPT ![h] = conns[h] + 1]
  BY <1>8, <1>9, <1>11 DEF ConnsOf
<1> HIDE DEF conns
<1>13. Sum(ConnsOf(new)) = Sum(conns) + 1
  <2> DEFINE S == DOMAIN old
  <2>1. IsFiniteSet(S) /\ conns \in [S -> Int] /\ h \in S
    BY <1>4, <1>11
  <2> HIDE DEF S
  <2>2. Sum([conns EXCEPT ![h] = conns[h] + 1]) = Sum(conns) + 1
    BY <2>1, SumBump
  <2> QED
    BY <1>12, <2>2
<1>14. lb.totalConns = Sum(conns) /\ lb.totalWeight = Sum(WeightsOf(old))
  BY TotalsAreSums DEF Balancer, TotalsAgree, conns, old
<1>15. lb'.totalConns = TotalConns(lb'.nodes) /\ lb'.totalWeight = TotalWeight(lb'.nodes)
  BY <1>3, <1>10, <1>13, <1>14, TotalsAreSums
<1>16. IsFiniteSet(DOMAIN lb'.nodes) /\ lb'.nodes \in [DOMAIN lb'.nodes -> NodeRecords]
  BY <1>3, <1>4, <1>7, <1>9
<1> QED
  BY <1>3, <1>15, <1>16 DEF Balancer, TotalsAgree

LEMMA BalancedInitially == NodesInit => Balanced
<1> SUFFICES ASSUME NodesInit PROVE Balanced
  OBVIOUS
<1> DEFINE none == <<>>
<1>1. lb = [nodes |-> none, totalConns |-> 0, totalWeight |-> 0] /\ update.pc = "idle"
  BY DEF NodesInit
<1>2. DOMAIN none = {} /\ none \in [{} -> NodeRecords]
  OBVIOUS
<1>3. DOMAIN ConnsOf(none) = {} /\ DOMAIN WeightsOf(none) = {}
  BY <1>2 DEF ConnsOf, WeightsOf
<1> HIDE DEF none
<1>4. TotalConns(none) = 0 /\ TotalWeight(none) = 0
  BY <1>3, TotalsAreSums, AdderStep, FS_EmptySet DEF Sum
<1>5. lb.nodes = none /\ lb.totalConns = 0 /\ lb.totalWeight = 0
  BY <1>1
<1>6. Balancer
  BY <1>1, <1>2, <1>4, <1>5, FS_EmptySet DEF Balancer, TotalsAgree
<1> QED
  BY <1>1, <1>6 DEF Balanced, Waiting

LEMMA BalancedStep == Balanced /\ update \in Updates /\ update' \in Updates /\ [NodesNext]_nodesVars => Balanced'
<1> SUFFICES ASSUME Balanced, update \in Updates, update' \in Updates, [NodesNext]_nodesVars PROVE Balanced'
  OBVIOUS
<1>0. Waiting /\ Balancer
  BY DEF Balanced
<1>1. ASSUME lb' = lb PROVE Balancer'
  BY <1>0, <1>1 DEF Balancer, TotalsAgree
<1>2. ASSUME update'.pc # "balance" PROVE Waiting'
  BY <1>2, UpdateTypes DEF Waiting, Updates
<1>3. ASSUME NEW f \in Fleets, SetNodes(f) PROVE Balanced'
  <2>1. lb' = lb /\ update' = [pc |-> "balance", all |-> NewNodes(f)]
    BY <1>3 DEF SetNodes
  <2>2. NewNodes(f) \subseteq f /\ f \subseteq Instances /\ IsFiniteSet(f)
    BY NodesAssumption DEF NewNodes, Instances
  <2>3. IsFiniteSet(NewNodes(f))
    BY <2>2, FS_Subset
  <2>4. update'.pc = "balance" /\ update'.all = NewNodes(f)
    BY <2>1
  <2>5. Waiting'
    BY <2>2, <2>3, <2>4 DEF Waiting
  <2> QED
    BY <1>1, <2>1, <2>5 DEF Balanced
<1>4. CASE Balance
  <2>1. /\ update.pc = "balance" /\ Update(update.all)
        /\ update' = [pc |-> "idle"] \/ update' = [pc |-> "reuse", all |-> update.all]
    BY <1>4 DEF Balance
  <2>2. update'.pc # "balance"
    BY <2>1
  <2>3. update.all \in SUBSET Instances /\ IsFiniteSet(update.all)
    BY <1>0, <2>1 DEF Waiting
  <2>4. Balancer'
    BY <1>0, <2>1, <2>3, UpdateBalanced
  <2> QED
    BY <1>2, <2>2, <2>4 DEF Balanced
<1>5. CASE NodesWeighted
  <2>1. PICK region \in Regions : NodeAddrs(region)
    BY <1>5 DEF NodesWeighted
  <2>2. update' = update
    BY <2>1 DEF NodeAddrs
  <2>3. Balancer'
    BY <1>0, <2>1, NodeAddrsBalanced
  <2> QED
    BY <1>0, <2>2, <2>3 DEF Balanced, Waiting
<1>6. ASSUME lb' = lb, update' = update \/ update'.pc # "balance" PROVE Balanced'
  <2>1. CASE update' = update
    BY <1>0, <1>1, <1>6, <2>1 DEF Balanced, Waiting
  <2>2. CASE update'.pc # "balance"
    BY <1>1, <1>2, <1>6, <2>2 DEF Balanced
  <2> QED
    BY <1>6, <2>1, <2>2
<1>7. CASE Reuse
  BY <1>6, <1>7 DEF Reuse
<1>8. CASE Dial
  <2>1. lb' = lb /\ update.pc = "dial"
    BY <1>8 DEF Dial
  <2>2. update'.pc = "dial"
    <3>1. update = [pc |-> "dial", all |-> update.all, new |-> update.new]
      BY <2>1 DEF Updates
    <3> QED
      BY <1>8, <3>1 DEF Dial
  <2> QED
    BY <1>6, <2>1, <2>2
<1>9. CASE SwapMaps
  BY <1>6, <1>9 DEF SwapMaps
<1>10. CASE CloseOld
  BY <1>6, <1>10 DEF CloseOld
<1>11. CASE ClosePool
  BY <1>6, <1>11 DEF ClosePool
<1>12. ASSUME NEW b \in Broadcasters, Broadcast(b) \/ CallClient(b) \/ Broadcasted(b) PROVE Balanced'
  BY <1>6, <1>12 DEF Broadcast, CallClient, Broadcasted
<1>13. CASE UNCHANGED nodesVars
  BY <1>6, <1>13 DEF nodesVars
<1> QED
  BY <1>3, <1>4, <1>5, <1>7, <1>8, <1>9, <1>10, <1>11, <1>12, <1>13 DEF NodesNext

\* The totals of the balancer are those of its nodes (Update, NodeAddrs); and
\* until Close the pool holds open connections only and none is left open
\* outside of it, for any gateways that come and go while an update dials and
\* broadcasts hold the read lock (UpdateNodes, BroadcastRoom, BroadcastAll).
THEOREM NodesConsistent == NodesSpec => []NodesAgree
<1> DEFINE Inv == PoolInv /\ Balanced
<1>1. NodesInit => Inv
  BY PoolInitially, BalancedInitially
<1>2. Inv /\ [NodesNext]_nodesVars => Inv'
  BY PoolStep, BalancedStep DEF PoolInv, PoolTypeOK
<1>3. Inv => NodesAgree
  BY DEF PoolInv, Open, PoolOpen, Balanced, Balancer, NodesAgree
<1> QED
  BY <1>1, <1>2, <1>3, PTL DEF NodesSpec

=============================================================================
