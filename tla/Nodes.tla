-------------------------------- MODULE Nodes --------------------------------
(***************************************************************************)
(* The comet servers as a logic process sees them: newNodes (internal/     *)
(* logic/logic.go) takes the instances of the discovery service and hands  *)
(* them to the load balancer (balancer.go), which names servers to         *)
(* clients, and to the pool of gRPC connections (comet.go), which pushes   *)
(* and broadcasts use.  newNodes runs in one goroutine; clients asking for *)
(* servers, pushes and broadcasts run beside it.                           *)
(***************************************************************************)
EXTENDS Integers, FiniteSets, Functions, FiniteSetsExt

CONSTANTS
    Fleets,     \* what discovery may answer: sets of [host, region, weight, conns, ts, kind, dials]
    Regions,    \* regions of clients
    GainNum, GainDen,   \* RegionWeight = GainNum / GainDen
    MaxWeight,  \* _maxWeight
    MaxFetches, \* bound: discovery events
    MaxPicks,   \* bound: clients asking for servers
    Broadcasters    \* goroutines that broadcast

ASSUME NodesAssumption ==
    /\ {GainNum, GainDen, MaxWeight} \subseteq Nat \ {0}
    /\ \A f \in Fleets : IsFiniteSet(f) /\ \A i, j \in f : i.host = j.host => i = j
    /\ \A i \in UNION Fleets : i.conns \in Int

MinWeight == 1

VARIABLES
    known,      \* [instances, conns]: l.nodes and l.totalConns
    lb,         \* [nodes, totalConns, totalWeight]: the load balancer
    pool,       \* p.clients and p.conns: host -> connection
    opened,     \* open gRPC connections
    dialled,    \* connections dialled so far
    update,     \* the goroutine of newNodes
    casts,      \* [Broadcasters -> the broadcast under way]
    picks, fetches, closed

nodesVars == <<known, lb, pool, opened, dialled, update, casts, picks, fetches, closed>>
poolVars == <<pool, opened, dialled>>

NodesInit ==
    /\ known = [instances |-> {}, conns |-> 0]
    /\ lb = [nodes |-> <<>>, totalConns |-> 0, totalWeight |-> 0]
    /\ pool = <<>> /\ opened = {} /\ dialled = 0
    /\ update = [pc |-> "idle"]
    /\ casts = [b \in Broadcasters |-> [pc |-> "idle"]]
    /\ picks = 0 /\ fetches = 0 /\ closed = FALSE

-----------------------------------------------------------------------------
\* newNodes.

\* The instances that are online and whose counts parse.
NewNodes(fleet) == {i \in fleet : i.kind \notin {"offline", "unparsable"}}

SetNodes(fleet) ==
    /\ update.pc = "idle" /\ fetches < MaxFetches /\ ~closed
    /\ LET all == NewNodes(fleet)
       IN  /\ known' = [instances |-> all, conns |-> MapThenSumSet(LAMBDA i : i.conns, all)]
           /\ update' = [pc |-> "balance", all |-> all]
    /\ fetches' = fetches + 1
    /\ UNCHANGED <<lb, poolVars, casts, picks, closed>>

-----------------------------------------------------------------------------
\* LoadBalancer.

Node(i) == [region |-> i.region, weight |-> i.weight, conns |-> i.conns, updated |-> i.ts]
IsCurrent(i) == i.host \in DOMAIN lb.nodes /\ lb.nodes[i.host].updated = i.ts

TotalConns(nodes) == MapThenSumSet(LAMBDA h : nodes[h].conns, DOMAIN nodes)
TotalWeight(nodes) == MapThenSumSet(LAMBDA h : nodes[h].weight, DOMAIN nodes)

\* An Update that counts the connections of the metadata for kept nodes too.
UpdateStale(all) ==
    LET kept == {i \in all : IsCurrent(i) \/ i.kind # "noweight"}
        nodes == [h \in {i.host : i \in kept} |->
                     LET i == CHOOSE j \in kept : j.host = h
                     IN  IF IsCurrent(i) THEN lb.nodes[h] ELSE Node(i)]
    IN  lb' = IF all = {} THEN lb
              ELSE [nodes |-> nodes, totalConns |-> MapThenSumSet(LAMBDA i : i.conns, kept),
                    totalWeight |-> TotalWeight(nodes)]

\* Update: no instances, no change; a node of the same LastTs keeps the
\* connections it was given since; a weight that does not parse drops it.
Update(all) ==
    LET kept == {i \in all : IsCurrent(i) \/ i.kind # "noweight"}
        nodes == [h \in {i.host : i \in kept} |->
                     LET i == CHOOSE j \in kept : j.host = h
                     IN  IF IsCurrent(i) THEN lb.nodes[h] ELSE Node(i)]
    IN  lb' = IF all = {} THEN lb
              ELSE [nodes |-> nodes, totalConns |-> TotalConns(nodes), totalWeight |-> TotalWeight(nodes)]

Balance ==
    /\ update.pc = "balance"
    /\ Update(update.all)
    /\ update' = IF update.all = {} THEN [pc |-> "idle"] ELSE [pc |-> "reuse", all |-> update.all]
    /\ UNCHANGED <<known, poolVars, casts, picks, fetches, closed>>

\* Rounding of num / den to the nearest integer, halves down.
Round(num, den) == IF 2 * (num % den) <= den THEN num \div den ELSE num \div den + 1

\* calculateWeight, in fractions of GainDen.
CalculateWeight(n, gain) ==
    LET fixed == n.weight * gain
        total == lb.totalWeight + fixed \div GainDen - n.weight
        num == 2 * fixed * lb.totalConns - n.conns * GainDen * total
        den == 2 * GainDen * total
        current == (fixed + GainDen * Round(num, den)) \div GainDen
    IN  IF lb.totalConns = 0 THEN 0
        ELSE IF num < 0 THEN Max({MinWeight, current})
        ELSE Min({MaxWeight, current})

\* The weight of a node for a client of a region.
WeightFor(h, region) ==
    CalculateWeight(lb.nodes[h], IF lb.nodes[h].region = region THEN GainNum ELSE GainDen)

\* NodeAddrs: the nodes by weight, heaviest first, equal ones in any order;
\* the first is charged with the connection.
NodeAddrs(region) ==
    /\ picks < MaxPicks
    /\ \E h \in DOMAIN lb.nodes :
           /\ \A o \in DOMAIN lb.nodes : WeightFor(o, region) <= WeightFor(h, region)
           /\ lb' = [lb EXCEPT !.nodes[h].conns = @ + 1, !.totalConns = @ + 1]
    /\ picks' = picks + 1
    /\ UNCHANGED <<known, poolVars, update, casts, fetches, closed>>

\* A client asks for its nodes; its region follows from its address.
NodesWeighted == \E region \in Regions : NodeAddrs(region)

-----------------------------------------------------------------------------
\* CometPusher.

Hosts(all) == {i.host : i \in all}
Locked == \E b \in Broadcasters : casts[b].pc # "idle"

\* UpdateNodes, 1: connections of hosts still there, under the read lock.
Reuse ==
    /\ update.pc = "reuse"
    /\ update' = [pc |-> "dial", all |-> update.all, new |-> Restrict(pool, DOMAIN pool \cap Hosts(update.all))]
    /\ UNCHANGED <<known, lb, poolVars, casts, picks, fetches, closed>>

\* A map of connections with one more.
With(map, host, conn) == [h \in DOMAIN map \cup {host} |-> IF h = host THEN conn ELSE map[h]]

\* Whether an instance has an address with the scheme grpc.
GrpcAddress(i) == i.dials

\* 2: new hosts are dialled, without a lock; a host without a gRPC address
\* or whose dial fails is left out.
Dial ==
    /\ update.pc = "dial"
    /\ \E i \in update.all :
           /\ i.host \notin DOMAIN update.new
           /\ \/ /\ GrpcAddress(i)
                 /\ dialled' = dialled + 1 /\ opened' = opened \cup {dialled'}
                 /\ update' = [update EXCEPT !.new = With(@, i.host, dialled'), !.all = @ \ {i}]
              \/ update' = [update EXCEPT !.all = @ \ {i}] /\ UNCHANGED <<opened, dialled>>
    /\ UNCHANGED <<known, lb, pool, casts, picks, fetches, closed>>

\* 3: the maps are swapped, under the write lock.
SwapMaps ==
    /\ update.pc = "dial" /\ Hosts(update.all) \subseteq DOMAIN update.new /\ ~Locked
    /\ update' = [pc |-> "close", old |-> pool]
    /\ pool' = update.new
    /\ UNCHANGED <<known, lb, opened, dialled, casts, picks, fetches, closed>>

\* 4: the connections of hosts that are gone are closed.
CloseOld ==
    /\ update.pc = "close"
    /\ opened' = opened \ {update.old[h] : h \in DOMAIN update.old \ DOMAIN pool}
    /\ update' = [pc |-> "idle"]
    /\ UNCHANGED <<known, lb, pool, dialled, casts, picks, fetches, closed>>

\* BroadcastRoom and BroadcastAll hold the read lock while they call every
\* client in turn; they fail only if every call does.
Broadcast(b) ==
    /\ casts[b].pc = "idle"
    /\ casts' = [casts EXCEPT ![b] = [pc |-> "call", left |-> DOMAIN pool, ok |-> 0]]
    /\ UNCHANGED <<known, lb, poolVars, update, picks, fetches, closed>>

CallClient(b) ==
    /\ casts[b].pc = "call"
    /\ \E h \in casts[b].left, answered \in BOOLEAN :
           casts' = [casts EXCEPT ![b].left = @ \ {h}, ![b].ok = @ + IF answered THEN 1 ELSE 0]
    /\ UNCHANGED <<known, lb, poolVars, update, picks, fetches, closed>>

Broadcasted(b) ==
    /\ casts[b].pc = "call" /\ casts[b].left = {}
    /\ casts' = [casts EXCEPT ![b] = [pc |-> "idle"]]
    /\ UNCHANGED <<known, lb, poolVars, update, picks, fetches, closed>>

\* Logic.Close: every connection is closed, the maps are emptied.
ClosePool ==
    /\ ~closed /\ ~Locked
    /\ closed' = TRUE
    /\ opened' = opened \ Range(pool)
    /\ pool' = <<>>
    /\ UNCHANGED <<known, lb, dialled, update, casts, picks, fetches>>

NodesNext ==
    \/ \E f \in Fleets : SetNodes(f)
    \/ Balance \/ Reuse \/ Dial \/ SwapMaps \/ CloseOld \/ ClosePool
    \/ NodesWeighted
    \/ \E b \in Broadcasters : Broadcast(b) \/ CallClient(b) \/ Broadcasted(b)

NodesSpec == NodesInit /\ [][NodesNext]_nodesVars

-----------------------------------------------------------------------------
\* The totals the weights are computed from are those of the nodes, after
\* any sequence of updates and of clients sent to a node.
TotalsAgree ==
    /\ lb.totalConns = TotalConns(lb.nodes)
    /\ lb.totalWeight = TotalWeight(lb.nodes)

\* Until Close, the pool holds open connections only, also while an update
\* dials and swaps, a broadcast calls open connections only, and no
\* connection is left open outside the pool between updates.
PoolOpen ==
    ~closed =>
        /\ Range(pool) \subseteq opened
        /\ \A b \in Broadcasters : casts[b].pc = "call" => casts[b].left \subseteq DOMAIN pool
        /\ update.pc = "idle" => opened = Range(pool)

\* The balancer and the pool agree with the servers (balancer.go, comet.go).
NodesAgree == TotalsAgree /\ PoolOpen
=============================================================================
