------------------------------ MODULE Sessions ------------------------------
(* The sessions of one user: the keys of a session in Redis with their      *)
(* times to live, the logic processes that create, refresh and delete them  *)
(* on behalf of connections, their caches, and the gateway that owns the    *)
(* connections. A round trip to Redis is one step (the commands of one      *)
(* pipeline are executed together); calls interleave between the steps.     *)
EXTENDS Integers, FiniteSets

CONSTANTS
    Conns,      \* connections; a session's SID is its connection
    Readers,    \* other calls that ask for the user's sessions
    Logics,     \* logic processes
    GivenDevice,\* [Conns -> devices and NoDevice], as the client's token says
    Key,        \* [Conns -> connection keys]; a client may bring one again
    TTL,        \* life of the keys in Redis, in ticks
    CacheTTL,   \* age at which a cached list is no longer used
    MaxFaults,  \* bound: failed or unanswered round trips
    Groups,     \* bound: sets of connections and readers that come together
    Timely,     \* between two ticks calls end and every connection sends a heartbeat
    NoDevice, None

ASSUME SessionsAssumption ==
    /\ DOMAIN GivenDevice = Conns /\ DOMAIN Key = Conns
    /\ TTL \in Nat \ {0} /\ CacheTTL \in Nat \ {0} /\ CacheTTL < TTL
    /\ MaxFaults \in Nat
    /\ Timely \in BOOLEAN
    /\ Groups \subseteq SUBSET (Conns \cup Readers)
    /\ None \notin Conns /\ Conns \cap Readers = {}

Calls == Conns \cup Readers
Keys == {Key[c] : c \in Conns}

\* A connection without a device ID is put with the others without one.
DeviceOfUnfilled(c) == <<"given", GivenDevice[c]>>
DeviceOf(c) ==
    IF GivenDevice[c] = NoDevice THEN <<"platform:key", Key[c]>> ELSE <<"given", GivenDevice[c]>>
Devices == {DeviceOf(c) : c \in Conns}

VARIABLES
    session,    \* session:{sid}: what is left of its life, 0 when it is gone
    list,       \* user_sessions:{uid}: the SIDs
    listTTL,
    device,     \* device_session:{uid}:{device}: SID and life
    keySid,     \* key_sid:{key}: SID and life
    cache,      \* SessionManager.local: the list, and its age
    route,      \* OnlineRouter: the connection that is known of the user
    conn,       \* the gateway's view of a connection
    at,         \* where the call of a connection, or of a reader, is
    call,       \* its process and its locals
    lapsed,     \* history: sessions that ran out
    beaten,     \* history: connections with a heartbeat since the last tick
    faults

redis == <<session, list, listTTL, device, keySid>>
memory == <<cache, route>>
vars == <<redis, memory, conn, at, call, lapsed, beaten, faults>>

Empty == [sid |-> None, ttl |-> 0]
NoCache == [list |-> {}, age |-> CacheTTL]
NoCall(p) == [p |-> p, sid |-> None, known |-> FALSE, found |-> FALSE, todo |-> {}, list |-> {}]

Init ==
    /\ session = [c \in Conns |-> 0]
    /\ list = {} /\ listTTL = 0
    /\ device = [d \in Devices |-> Empty]
    /\ keySid = [k \in Keys |-> Empty]
    /\ cache = [p \in Logics |-> NoCache]
    /\ route = [p \in Logics |-> None]
    /\ \E S \in Groups :
          /\ conn = [c \in Conns |-> IF c \in S THEN "new" ELSE "absent"]
          /\ at = [k \in Calls |-> IF k \in S THEN "idle" ELSE "absent"]
          /\ \E f \in [S -> Logics] :
                call = [k \in Calls |-> NoCall(IF k \in S THEN f[k] ELSE None)]
    /\ lapsed = {} /\ beaten = {}
    /\ faults = 0

-----------------------------------------------------------------------------

Goto(k, s) == at' = [at EXCEPT ![k] = s]
Fault == faults < MaxFaults /\ faults' = faults + 1
P(k) == call[k].p
Return(k) == call' = [call EXCEPT ![k] = NoCall(P(k))]

(* Logic.Connect: the token is read, the device is filled in. *)
Connect(c) ==
    /\ conn[c] = "new"
    /\ conn' = [conn EXCEPT ![c] = "connecting"]
    /\ Goto(c, "device")
    /\ UNCHANGED <<redis, memory, call, lapsed, beaten, faults>>

GetDeviceSession(c) == IF device[DeviceOf(c)].ttl > 0 THEN device[DeviceOf(c)].sid ELSE None
GetSessionByKey(k) == IF keySid[k].ttl > 0 THEN keySid[k].sid ELSE None
GetSession(sid) == session[sid] > 0
SetRoute(p, c) == route' = [route EXCEPT ![p] = c]

(* SessionManager.Create: the session the device had before is kicked. *)
Create(c) ==
    LET old == GetDeviceSession(c) IN
    /\ at[c] = "device"
    /\ \/ /\ old # None
          /\ call' = [call EXCEPT ![c].sid = old, ![c].known = TRUE]
          /\ Goto(c, "get")
          /\ UNCHANGED faults
       \/ old = None /\ Goto(c, "add") /\ UNCHANGED <<call, faults>>
       \/ Fault /\ Goto(c, "add") /\ UNCHANGED call
    /\ UNCHANGED <<redis, memory, conn, lapsed, beaten>>

(* Kick reads the session for its key and server before it is deleted. *)
Kick(c) ==
    /\ at[c] = "get"
    /\ \/ call' = [call EXCEPT ![c].found = GetSession(call[c].sid)] /\ UNCHANGED faults
       \/ Fault /\ call' = [call EXCEPT ![c].found = FALSE]
    /\ Goto(c, "delete")
    /\ UNCHANGED <<redis, memory, conn, lapsed, beaten>>

(* What follows Kick: the new session, or the end of Disconnect. *)
AfterKick(c) == IF conn[c] = "leaving" THEN "idle" ELSE "add"
Left(c, s) == conn' = IF s = "idle" THEN [conn EXCEPT ![c] = "gone"] ELSE conn

(* The device is the one of Create, or the one Disconnect has read. *)
DelSession(c) ==
    LET sid == call[c].sid IN
    /\ at[c] = "delete"
    /\ \/ /\ session' = [session EXCEPT ![sid] = 0]
          /\ list' = list \ {sid}
          /\ device' = IF call[c].known THEN [device EXCEPT ![DeviceOf(sid)] = Empty] ELSE device
          /\ keySid' = IF call[c].found THEN [keySid EXCEPT ![Key[sid]] = Empty] ELSE keySid
          /\ Goto(c, "refresh")
          /\ cache' = [cache EXCEPT ![P(c)] = NoCache]
          /\ UNCHANGED <<faults, conn, call>>
       \/ /\ Fault
          /\ Goto(c, AfterKick(c))
          /\ Left(c, AfterKick(c))
          /\ Return(c)
          /\ UNCHANGED <<session, list, device, keySid, cache>>
    /\ UNCHANGED <<listTTL, route, lapsed, beaten>>

(* GetSessions: the cached list if it is fresh and not empty, or the SIDs   *)
(* of the user and then every session, which is read on its own.            *)
Fresh(p) == cache[p].list # {} /\ cache[p].age < CacheTTL

GetUserSessions(k) ==
    /\ at[k] = "refresh"
    /\ \/ /\ Fresh(P(k))
          /\ call' = [call EXCEPT ![k].list = cache[P(k)].list]
          /\ Goto(k, "listed")
          /\ UNCHANGED faults
       \/ /\ ~Fresh(P(k))
          /\ call' = [call EXCEPT ![k].todo = IF listTTL > 0 THEN list ELSE {}, ![k].list = {}]
          /\ Goto(k, "reading")
          /\ UNCHANGED faults
       \/ /\ ~Fresh(P(k))
          /\ Fault
          /\ call' = [call EXCEPT ![k].list = {}]
          /\ Goto(k, "listed")
    /\ UNCHANGED <<redis, memory, conn, lapsed, beaten>>

ReadOne(k) ==
    /\ at[k] = "reading"
    /\ \E s \in call[k].todo :
          \/ /\ call' = [call EXCEPT ![k].todo = @ \ {s},
                                     ![k].list = IF GetSession(s) THEN @ \cup {s} ELSE @]
             /\ UNCHANGED faults
          \/ Fault /\ call' = [call EXCEPT ![k].todo = @ \ {s}]
    /\ UNCHANGED <<redis, memory, conn, at, lapsed, beaten>>

StoreSessions(k) ==
    /\ at[k] = "reading" /\ call[k].todo = {}
    /\ cache' = [cache EXCEPT ![P(k)] = [list |-> call[k].list, age |-> 0]]
    /\ Goto(k, "listed")
    /\ UNCHANGED <<redis, route, conn, call, lapsed, beaten, faults>>

(* refreshOnlineRouterAfterDelete, and a reader that has its answer. *)
RefreshRoute(k) ==
    /\ at[k] = "listed"
    /\ \/ k \in Readers /\ Goto(k, "idle") /\ Return(k) /\ UNCHANGED route
       \/ /\ k \in Conns
          /\ \/ call[k].list = {} /\ SetRoute(P(k), None)
             \/ \E s \in call[k].list : SetRoute(P(k), s)
          /\ Goto(k, "comet")
          /\ call' = [call EXCEPT ![k].list = {}]
    /\ UNCHANGED <<redis, cache, conn, lapsed, beaten, faults>>

Holders(k) == {c \in Conns : Key[c] = k /\ conn[c] = "open"}

(* The gateway closes the connection that has the key by now. *)
KickConnection(c) ==
    LET closed == [x \in Conns |-> IF call[c].found /\ x \in Holders(Key[call[c].sid])
                                   THEN "closing" ELSE conn[x]]
        left(f) == IF AfterKick(c) = "idle" THEN [f EXCEPT ![c] = "gone"] ELSE f IN
    /\ at[c] = "comet"
    /\ \/ conn' = left(closed) /\ UNCHANGED faults
       \/ call[c].found /\ Fault /\ conn' = left(conn)
    /\ Goto(c, AfterKick(c))
    /\ Return(c)
    /\ UNCHANGED <<redis, memory, lapsed, beaten>>

Added(c) ==
    /\ session' = [session EXCEPT ![c] = TTL]
    /\ list' = (IF listTTL > 0 THEN list ELSE {}) \cup {c}
    /\ listTTL' = TTL
    /\ device' = [device EXCEPT ![DeviceOf(c)] = [sid |-> c, ttl |-> TTL]]
    /\ keySid' = [keySid EXCEPT ![Key[c]] = [sid |-> c, ttl |-> TTL]]

(* An error, also one after the commands were carried out, ends Connect;    *)
(* the gateway closes the connection and tells nobody.                      *)
AddSession(c) ==
    /\ at[c] = "add"
    /\ \/ Added(c) /\ Goto(c, "added") /\ UNCHANGED <<conn, faults>>
       \/ /\ Fault
          /\ Added(c) \/ UNCHANGED redis
          /\ Goto(c, "idle")
          /\ conn' = [conn EXCEPT ![c] = "gone"]
    /\ UNCHANGED <<memory, call, lapsed, beaten>>

(* Connect returns; the gateway registers the key and closes its old holder. *)
Connected(c) ==
    /\ at[c] = "added"
    /\ cache' = [cache EXCEPT ![P(c)] = NoCache]
    /\ SetRoute(P(c), c)
    /\ conn' = [x \in Conns |-> IF x = c THEN "open"
                                ELSE IF x \in Holders(Key[c]) THEN "closing" ELSE conn[x]]
    /\ Goto(c, "idle")
    /\ UNCHANGED <<redis, call, lapsed, beaten, faults>>

-----------------------------------------------------------------------------
(* Heartbeat, Disconnect, readers and time                                  *)

Beaten(c) == beaten' = IF Timely THEN beaten \cup {c} ELSE beaten

(* A key without a session is an answer like any other. *)
Heartbeat(c) ==
    LET sid == GetSessionByKey(Key[c]) IN
    /\ conn[c] = "open" /\ at[c] = "idle"
    /\ \/ /\ sid # None
          /\ call' = [call EXCEPT ![c].sid = sid]
          /\ Goto(c, "beat")
          /\ UNCHANGED beaten
       \/ sid = None /\ Beaten(c) /\ UNCHANGED <<call, at>>
    /\ UNCHANGED <<redis, memory, conn, lapsed, faults>>

\* The user's list is left as it is.
ExpireSessionOnly(c) ==
    /\ session' = [session EXCEPT ![call[c].sid] = IF @ > 0 THEN TTL ELSE 0]
    /\ UNCHANGED <<list, listTTL, device, keySid>>
ExpireSession(c) ==
    /\ session' = [session EXCEPT ![call[c].sid] = IF @ > 0 THEN TTL ELSE 0]
    /\ listTTL' = IF listTTL > 0 THEN TTL ELSE 0
    /\ UNCHANGED <<list, device, keySid>>

HeartbeatEnds(c) ==
    /\ at[c] = "beat"
    /\ \/ ExpireSession(c) /\ Beaten(c) /\ UNCHANGED faults
       \/ Fault /\ UNCHANGED <<redis, beaten>>
    /\ Goto(c, "idle")
    /\ Return(c)
    /\ UNCHANGED <<memory, conn, lapsed>>

(* The client or the network ends a connection. *)
Close(c) ==
    /\ conn[c] = "open"
    /\ conn' = [conn EXCEPT ![c] = "closing"]
    /\ UNCHANGED <<redis, memory, at, call, lapsed, beaten, faults>>

(* Disconnect: the session is looked for by the key, read for its device,   *)
(* and read again by Kick. The call may fail, or never be made.             *)
Disconnect(c) ==
    LET sid == GetSessionByKey(Key[c]) IN
    /\ conn[c] = "closing" /\ at[c] = "idle"
    /\ \/ /\ sid # None
          /\ call' = [call EXCEPT ![c].sid = sid]
          /\ conn' = [conn EXCEPT ![c] = "leaving"]
          /\ Goto(c, "look")
          /\ UNCHANGED faults
       \/ sid = None /\ conn' = [conn EXCEPT ![c] = "gone"] /\ UNCHANGED <<call, at, faults>>
       \/ Fault /\ conn' = [conn EXCEPT ![c] = "gone"] /\ UNCHANGED <<call, at>>
    /\ UNCHANGED <<redis, memory, lapsed, beaten>>

DisconnectReads(c) ==
    /\ at[c] = "look"
    /\ \/ call' = [call EXCEPT ![c].known = GetSession(call[c].sid)] /\ UNCHANGED faults
       \/ Fault /\ call' = [call EXCEPT ![c].known = FALSE]
    /\ Goto(c, "get")
    /\ UNCHANGED <<redis, memory, conn, lapsed, beaten>>

GetSessions(r) ==
    /\ r \in Readers /\ at[r] = "idle"
    /\ Goto(r, "refresh")
    /\ UNCHANGED <<redis, memory, conn, call, lapsed, beaten, faults>>

Aged(p) == [cache[p] EXCEPT !.age = IF @ < CacheTTL THEN @ + 1 ELSE @]
Less(n) == IF n > 0 THEN n - 1 ELSE 0
Older(e) == IF e.ttl > 1 THEN [e EXCEPT !.ttl = @ - 1] ELSE Empty

Tick ==
    /\ Timely => \A c \in Conns : at[c] \in {"idle", "absent"} /\ (conn[c] = "open" => c \in beaten)
    /\ beaten' = {}
    /\ session' = [c \in Conns |-> Less(session[c])]
    /\ listTTL' = Less(listTTL)
    /\ list' = IF listTTL > 1 THEN list ELSE {}
    /\ device' = [d \in Devices |-> Older(device[d])]
    /\ keySid' = [k \in Keys |-> Older(keySid[k])]
    /\ cache' = [p \in Logics |-> Aged(p)]
    /\ lapsed' = lapsed \cup {c \in Conns : session[c] = 1}
    /\ UNCHANGED <<route, conn, at, call, faults>>

Next ==
    \/ Tick
    \/ \E c \in Conns :
          \/ Connect(c) \/ Create(c) \/ Kick(c) \/ DelSession(c) \/ KickConnection(c)
          \/ AddSession(c) \/ Connected(c) \/ Heartbeat(c) \/ HeartbeatEnds(c)
          \/ Close(c) \/ Disconnect(c) \/ DisconnectReads(c)
    \/ \E k \in Calls : GetUserSessions(k) \/ ReadOne(k) \/ StoreSessions(k) \/ RefreshRoute(k)
    \/ \E r \in Readers : GetSessions(r)

Spec == Init /\ [][Next]_vars

-----------------------------------------------------------------------------
(* Properties.                                                              *)

Entry == [sid : Conns \cup {None}, ttl : 0..TTL]
Cached == [list : SUBSET Conns, age : 0..CacheTTL]
Call == [p : Logics \cup {None}, sid : Conns \cup {None}, known : BOOLEAN, found : BOOLEAN,
         todo : SUBSET Conns, list : SUBSET Conns]
TypeOK ==
    /\ session \in [Conns -> 0..TTL]
    /\ list \subseteq Conns /\ listTTL \in 0..TTL
    /\ device \in [Devices -> Entry] /\ keySid \in [Keys -> Entry]
    /\ cache \in [Logics -> Cached] /\ route \in [Logics -> Conns \cup {None}]
    /\ conn \in [Conns -> {"absent", "new", "connecting", "open", "closing", "leaving", "gone"}]
    /\ at \in [Calls -> {"absent", "idle", "look", "device", "get", "delete", "refresh", "reading",
                         "listed", "comet", "add", "added", "beat"}]
    /\ call \in [Calls -> Call]
    /\ lapsed \subseteq Conns /\ beaten \subseteq Conns
    /\ faults \in Nat

(* A session that is alive is in its user's list, and the list lives at     *)
(* least as long: pushes to the user find it, whoever else comes and goes.  *)
Listed == \A c \in Conns : session[c] > 0 => c \in list /\ listTTL >= session[c]

(* Who is connected has a session, unless it ran out or another connection  *)
(* of the same device or with the same key has come: connections of other   *)
(* devices never take it away, in whatever order their calls run.           *)
Rival(c, d) == d # c /\ conn[d] \notin {"absent", "new"} /\
               \/ Key[d] = Key[c]
               \/ GivenDevice[d] = GivenDevice[c] /\ GivenDevice[c] # NoDevice
KeepsSession ==
    \A c \in Conns : conn[c] = "open" =>
        session[c] > 0 \/ c \in lapsed \/ \E d \in Conns : Rival(c, d)

(* A connection whose heartbeats come in time keeps its session.            *)
HeartbeatKeeps == \A c \in Conns : conn[c] = "open" => c \notin lapsed

=============================================================================
