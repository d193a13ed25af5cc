------------------------------- MODULE Bucket -------------------------------
(***************************************************************************)
(* The connection registry of a comet (internal/comet/bucket.go, room.go,  *)
(* channel.go): the maps of one Bucket, the rooms' linked lists and the    *)
(* pool of Channel objects.                                                *)
(*                                                                         *)
(* Each Channel object in use belongs to one ServeTCP (or ServeWebsocket)  *)
(* goroutine, which registers it (Put), moves it between rooms             *)
(* (ChangeRoom) and removes it (Del). Bucket.cLock protects the maps,      *)
(* Room.rLock one room's list; the goroutines interleave between those     *)
(* critical sections, and each section is one step here.                   *)
(*                                                                         *)
(* Pointers are modelled as such: next and prev are the fields of the      *)
(* Channel objects, head the field Room.next.                              *)
(***************************************************************************)
EXTENDS Integers, FiniteSets

CONSTANTS Channels,   \* the Channel objects of the pool
          IPs,        \* client addresses
          Clients,    \* which clients there may be: a set of records
          MaxCount    \* bound: up to which count an address connects

Nil == "nil"    \* a nil pointer
None == "none"  \* the empty string: no key, no address, no room name

ASSUME BucketAssumption ==
    /\ IsFiniteSet(Channels) /\ Nil \notin Channels
    /\ None \notin IPs
    /\ \A s \in Clients :
        /\ None \notin s.keys \cup s.names /\ s.rooms \in Nat
        /\ s.targets \subseteq s.names \cup {None}
        /\ s.sharedKeys \in BOOLEAN /\ s.lastLeaves \in BOOLEAN
    /\ MaxCount \in Nat

VARIABLES
    clients, \* the clients, chosen at the start
    chs,     \* chs[k]: the Channel registered under key k
    rooms,   \* rooms[n]: the Room object registered under the name n
    ipCnts,  \* ipCnts[i]: the connection count of address i
    key,     \* key[c], ip[c], room[c], next[c], prev[c]: the fields
    ip,      \*   Key, IP, Room, Next and Prev of Channel c
    room,
    next,
    prev,
    closed,  \* the Channels whose dispatcher was sent ProtoFinish
    made,    \* how many Room objects there are: 1 .. made
    name,    \* name[o], head[o], online[o], drop[o]: the fields ID, next,
    head,    \*   Online and drop of Room o
    online,
    drop,
    pc,      \* pc[c]: where c's goroutine is
    target,  \* target[c]: local nroom of ChangeRoom
    after,   \* after[c]: what follows the removal from the old room
    in       \* history: in[c] is the Room that c was put in and not deleted from

Keys == clients.keys              \* connection keys
RoomIDs == clients.names          \* room names
MaxRooms == clients.rooms         \* bound: how many Room objects are created
Targets == clients.targets        \* the names clients ask for with OpChangeRoom
SharedKeys == clients.sharedKeys  \* whether two connections may come with one key
LastLeaves == clients.lastLeaves  \* whether the last member of a room may leave it

maps == <<chs, rooms, ipCnts>>
fields == <<key, ip, room, next, prev>>
objects == <<made, name, head, online, drop>>
control == <<pc, target, after, in>>
bucketVars == <<clients, maps, fields, closed, objects, control>>

Rooms == 1 .. MaxRooms

BucketInit ==
    /\ clients \in Clients
    /\ chs = [k \in Keys |-> Nil]
    /\ rooms = [n \in RoomIDs |-> 0]
    /\ ipCnts = [i \in IPs |-> 0]
    /\ key = [c \in Channels |-> None]
    /\ ip = [c \in Channels |-> None]
    /\ room = [c \in Channels |-> 0]
    /\ next = [c \in Channels |-> Nil]
    /\ prev = [c \in Channels |-> Nil]
    /\ closed = {}
    /\ made = 0
    /\ name = [o \in Rooms |-> None]
    /\ head = [o \in Rooms |-> Nil]
    /\ online = [o \in Rooms |-> 0]
    /\ drop = [o \in Rooms |-> FALSE]
    /\ pc = [c \in Channels |-> "free"]
    /\ target = [c \in Channels |-> 0]
    /\ after = [c \in Channels |-> "none"]
    /\ in = [c \in Channels |-> 0]

-----------------------------------------------------------------------------
(* Rooms *)

\* A walk along the list of Room o does not leave S.
Closed(S, o) == head[o] \in S \cup {Nil} /\ \A c \in S : next[c] \in S \cup {Nil}

\* The Channels a walk along the list of Room o visits.
Members(o) == {c \in Channels : \A S \in SUBSET Channels : Closed(S, o) => c \in S}

\* Find the Room registered under n or create and register one: o is the
\* result. A room is 0 where the code has a nil *Room.
RoomFor(n, o) ==
    IF rooms[n] # 0
      THEN o = rooms[n] /\ UNCHANGED <<rooms, made, name>>
      ELSE /\ made < MaxRooms
           /\ o = made + 1
           /\ made' = o
           /\ name' = [name EXCEPT ![o] = n]
           /\ rooms' = [rooms EXCEPT ![n] = o]

\* Room.Put: insert c at the head of o.
RoomPut(c, o) ==
    /\ prev' = [d \in Channels |-> IF d = head[o] THEN c ELSE IF d = c THEN Nil ELSE prev[d]]
    /\ next' = [next EXCEPT ![c] = head[o]]
    /\ head' = [head EXCEPT ![o] = c]
    /\ online' = [online EXCEPT ![o] = @ + 1]
    /\ in' = [in EXCEPT ![c] = o]

\* Room.Del: unlink c, whatever list it is in, and count o down.
RoomDelForgetPrev(c, o) ==
    /\ prev' = [prev EXCEPT ![c] = Nil]
    /\ next' = [d \in Channels |-> IF d = c THEN Nil ELSE IF d = prev[c] THEN next[c] ELSE next[d]]
    /\ head' = IF prev[c] = Nil THEN [head EXCEPT ![o] = next[c]] ELSE head
    /\ online' = [online EXCEPT ![o] = @ - 1]
    /\ drop' = [drop EXCEPT ![o] = (online[o] - 1 = 0)]
    /\ in' = [in EXCEPT ![c] = 0]
RoomDel(c, o) ==
    /\ prev' = [d \in Channels |-> IF d = c THEN Nil ELSE IF d = next[c] THEN prev[c] ELSE prev[d]]
    /\ next' = [d \in Channels |-> IF d = c THEN Nil ELSE IF d = prev[c] THEN next[c] ELSE next[d]]
    /\ head' = IF prev[c] = Nil THEN [head EXCEPT ![o] = next[c]] ELSE head
    /\ online' = [online EXCEPT ![o] = @ - 1]
    /\ drop' = [drop EXCEPT ![o] = (online[o] - 1 = 0)]
    /\ in' = [in EXCEPT ![c] = 0]

-----------------------------------------------------------------------------
(* Registration *)

\* Bucket.Put under cLock, by a handshake that got key k from the logic
\* service: Reset of a pooled Channel, ProtoFinish to the one it replaces,
\* registration, its room found or created, the address counted.
Put(c, k, i, n) ==
    /\ pc[c] = "free"
    /\ ipCnts[i] < MaxCount
    /\ SharedKeys \/ \A d \in Channels : key[d] # k
    /\ chs' = [chs EXCEPT ![k] = c]
    /\ closed' = (closed \ {c}) \cup ({chs[k]} \ {Nil})
    /\ IF n = None
         THEN /\ room' = [room EXCEPT ![c] = 0]
              /\ pc' = [pc EXCEPT ![c] = "up"]
              /\ UNCHANGED <<rooms, made, name>>
         ELSE /\ \E o \in Rooms : RoomFor(n, o) /\ room' = [room EXCEPT ![c] = o]
              /\ pc' = [pc EXCEPT ![c] = "join"]
    /\ key' = [key EXCEPT ![c] = k]
    /\ ip' = [ip EXCEPT ![c] = i]
    /\ ipCnts' = [ipCnts EXCEPT ![i] = @ + 1]
    /\ UNCHANGED <<clients, next, prev, head, online, drop, target, after, in>>

\* PutChannel: the object goes back to the pool. Its queue, and with it a
\* ProtoFinish nobody read, is replaced when it is reused.
Recycle(c) ==
    /\ closed' = closed \ {c}
    /\ next' = [next EXCEPT ![c] = Nil]
    /\ prev' = [prev EXCEPT ![c] = Nil]
    /\ key' = [key EXCEPT ![c] = None]
    /\ ip' = [ip EXCEPT ![c] = None]
    /\ room' = [room EXCEPT ![c] = 0]
    /\ pc' = [pc EXCEPT ![c] = "free"]

\* The second half of Bucket.Put. If the room was dropped meanwhile the
\* handshake fails and the Channel is recycled, without a Bucket.Del.
Join(c) ==
    /\ pc[c] = "join"
    /\ \/ /\ ~ drop[room[c]]
          /\ RoomPut(c, room[c])
          /\ pc' = [pc EXCEPT ![c] = "up"]
          /\ UNCHANGED <<key, ip, room, closed>>
       \/ /\ drop[room[c]]
          /\ Recycle(c)
          /\ UNCHANGED <<head, online, in>>
    /\ UNCHANGED <<clients, maps, made, name, drop, target, after>>

-----------------------------------------------------------------------------
(* Leaving *)

\* Somebody else stays in c's room.
Accompanied(c) ==
    \E d \in Channels \ {c} : pc[d] = "up" /\ room[d] = room[c] /\ in[d] = room[d]

MayLeave(c) == LastLeaves \/ room[c] = 0 \/ Accompanied(c)

\* ChangeRoom up to the removal from the old room: the new one is found or
\* created under cLock.
ChangeRoom(c, n) ==
    /\ pc[c] = "up"
    /\ MayLeave(c)
    /\ IF n = None
         THEN /\ room[c] # 0
              /\ after' = [after EXCEPT ![c] = "leave"]
              /\ UNCHANGED <<rooms, made, name, target>>
         ELSE /\ \E o \in Rooms : RoomFor(n, o) /\ target' = [target EXCEPT ![c] = o]
              /\ after' = [after EXCEPT ![c] = IF room[c] # 0 THEN "enter" ELSE "none"]
    /\ pc' = [pc EXCEPT ![c] = IF room[c] # 0 THEN "del" ELSE "enter"]
    /\ UNCHANGED <<clients, chs, ipCnts, fields, closed, head, online, drop, in>>

\* Bucket.Del under cLock: a key that was taken over stays with its new
\* owner, but the address that is counted down is the registered one's.
DelAnyone(c) ==
    LET ch == chs[key[c]] IN
    /\ pc[c] = "up"
    /\ MayLeave(c)
    /\ chs' = [chs EXCEPT ![key[c]] = Nil]
    /\ ipCnts' = IF ch # Nil /\ ip[ch] # None
                   THEN [ipCnts EXCEPT ![ip[ch]] = IF @ > 1 THEN @ - 1 ELSE 0]
                   ELSE ipCnts
    /\ after' = [after EXCEPT ![c] = IF room[c] # 0 THEN "gone" ELSE "none"]
    /\ pc' = [pc EXCEPT ![c] = IF room[c] # 0 THEN "del" ELSE "gone"]
    /\ UNCHANGED <<clients, rooms, fields, closed, objects, target, in>>
Del(c) ==
    LET ch == chs[key[c]] IN
    /\ pc[c] = "up"
    /\ MayLeave(c)
    /\ chs' = IF ch = c THEN [chs EXCEPT ![key[c]] = Nil] ELSE chs
    /\ ipCnts' = IF ch # Nil /\ ip[ch] # None
                   THEN [ipCnts EXCEPT ![ip[ch]] = IF @ > 1 THEN @ - 1 ELSE 0]
                   ELSE ipCnts
    /\ after' = [after EXCEPT ![c] = IF room[c] # 0 THEN "gone" ELSE "none"]
    /\ pc' = [pc EXCEPT ![c] = IF room[c] # 0 THEN "del" ELSE "gone"]
    /\ UNCHANGED <<clients, rooms, fields, closed, objects, target, in>>

\* Room.Del under rLock.
LeaveRoom(c) ==
    /\ pc[c] = "del"
    /\ RoomDel(c, room[c])
    /\ pc' = [pc EXCEPT ![c] = "drop"]
    /\ UNCHANGED <<clients, maps, key, ip, room, closed, made, name, target, after>>

\* Where the goroutine goes once it is out of the old room.
Resume(c) ==
    /\ pc' = [pc EXCEPT ![c] = IF after[c] = "leave" THEN "up" ELSE after[c]]
    /\ room' = IF after[c] = "leave" THEN [room EXCEPT ![c] = 0] ELSE room
    /\ after' = [after EXCEPT ![c] = "none"]

\* Room.Del returns r.drop, which it reads after releasing rLock.
ReadDrop(c) ==
    /\ pc[c] = "drop"
    /\ IF drop[room[c]] THEN pc' = [pc EXCEPT ![c] = "delroom"] /\ UNCHANGED <<room, after>>
                        ELSE Resume(c)
    /\ UNCHANGED <<clients, maps, key, ip, next, prev, closed, objects, target, in>>

\* DelRoom under cLock: the name is removed, whatever Room it stands for.
DelRoom(c) ==
    /\ pc[c] = "delroom"
    /\ rooms' = [rooms EXCEPT ![name[room[c]]] = 0]
    /\ pc' = [pc EXCEPT ![c] = "close"]
    /\ UNCHANGED <<clients, chs, ipCnts, fields, closed, objects, target, after, in>>

\* Room.Close under rLock: ProtoFinish to every member.
CloseRoom(c) ==
    /\ pc[c] = "close"
    /\ closed' = closed \cup Members(room[c])
    /\ Resume(c)
    /\ UNCHANGED <<clients, maps, key, ip, next, prev, objects, target, in>>

\* The end of ChangeRoom. If the new room was dropped meanwhile the Channel
\* keeps its reference to the old one.
Enter(c) ==
    /\ pc[c] = "enter"
    /\ IF drop[target[c]]
         THEN UNCHANGED <<room, next, prev, head, online, in>>
         ELSE /\ RoomPut(c, target[c])
              /\ room' = [room EXCEPT ![c] = target[c]]
    /\ pc' = [pc EXCEPT ![c] = "up"]
    /\ target' = [target EXCEPT ![c] = 0]
    /\ UNCHANGED <<clients, maps, key, ip, closed, made, name, drop, after>>

\* The dispatcher has ended and the Channel is recycled.
Gone(c) ==
    /\ pc[c] = "gone"
    /\ Recycle(c)
    /\ UNCHANGED <<clients, maps, objects, target, after, in>>

BucketNext ==
    \E c \in Channels :
        \/ \E k \in Keys, i \in IPs, n \in RoomIDs \cup {None} : Put(c, k, i, n)
        \/ Join(c)
        \/ \E n \in Targets : ChangeRoom(c, n)
        \/ Del(c)
        \/ LeaveRoom(c)
        \/ ReadDrop(c)
        \/ DelRoom(c)
        \/ CloseRoom(c)
        \/ Enter(c)
        \/ Gone(c)

BucketSpec == BucketInit /\ [][BucketNext]_bucketVars

-----------------------------------------------------------------------------
(* Properties *)

Positions == {"free", "join", "up", "del", "drop", "delroom", "close", "enter", "gone"}
Leaving == {"del", "drop", "delroom", "close"}

\* Which fields of a Channel are set where its goroutine is.
Placed(c) ==
    /\ (after[c] # "none") = (pc[c] \in Leaving)
    /\ pc[c] \in Leaving \cup {"join"} => room[c] # 0
    /\ pc[c] = "enter" \/ after[c] = "enter" => target[c] # 0
    /\ pc[c] # "free" => key[c] \in Keys

BucketTypeOK ==
    /\ clients \in Clients
    /\ chs \in [Keys -> Channels \cup {Nil}] /\ rooms \in [RoomIDs -> 0 .. made] /\ ipCnts \in [IPs -> Nat]
    /\ key \in [Channels -> Keys \cup {None}] /\ ip \in [Channels -> IPs \cup {None}]
    /\ room \in [Channels -> 0 .. made] /\ target \in [Channels -> 0 .. made] /\ in \in [Channels -> 0 .. made]
    /\ next \in [Channels -> Channels \cup {Nil}] /\ prev \in [Channels -> Channels \cup {Nil}]
    /\ closed \subseteq Channels
    /\ made \in 0 .. MaxRooms /\ name \in [Rooms -> RoomIDs \cup {None}]
    /\ head \in [Rooms -> Channels \cup {Nil}] /\ online \in [Rooms -> Int] /\ drop \in [Rooms -> BOOLEAN]
    /\ pc \in [Channels -> Positions] /\ after \in [Channels -> {"none", "leave", "enter", "gone"}]
    /\ \A c \in Channels : Placed(c)

Joined(o) == {c \in Channels : in[c] = o}

\* A connection that was not told to close is the one found under its key:
\* the end of a connection it replaced does not unregister it. What is found
\* there has that key, unless a room was dropped while it joined (see Join).
Findable ==
    /\ \A c \in Channels : pc[c] = "up" /\ c \notin closed => chs[key[c]] = c
    /\ ~LastLeaves => \A k \in Keys : chs[k] # Nil => key[chs[k]] = k

\* The list of a room holds exactly the connections that joined it and did
\* not leave, whatever the order in which members come and go, and
\* Room.Online, which RoomsCount reports, is their number.
Roster == \A o \in 1 .. made : Members(o) = Joined(o) /\ online[o] = Cardinality(Joined(o))

\* The field Room of a connection names the room whose list holds it, none if
\* no list does, also after a move.
InItsRoom == \A c \in Channels : pc[c] = "up" => in[c] = room[c]

\* A room with members is the one BroadcastRoom finds under its name, as long
\* as no room was dropped: DelRoom removes a name, not an object.
RoomReachable == ~LastLeaves => \A o \in 1 .. made : Joined(o) # {} => rooms[name[o]] = o

\* Pushes and broadcasts reach a connection: it is found under its key, and
\* in the room found under the room's name.
Reachable == Findable /\ InItsRoom /\ RoomReachable

=============================================================================
