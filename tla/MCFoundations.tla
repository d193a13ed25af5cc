---------------------------- MODULE MCFoundations ----------------------------
(* The small components under the services, checked side by side: each     *)
(* behaviour exercises one of them, chosen at the start.                   *)
EXTENDS Framing, Timer, Limits, Nodes

VARIABLE part

\* Bodies of every kind, with empty and non-empty strings.
Msg(id, content) ==
    [msgID |-> id, fromUID |-> 1, toUID |-> 2, timestamp |-> 3, seq |-> 4, content |-> content]
AckOf(dev, sess) == [msgID |-> <<7>>, seq |-> 5, deviceID |-> dev, sessionID |-> sess]
SyncReply(max, bodies) == [currentSeq |-> 6, hasMore |-> TRUE, serverMaxSeq |-> max, messages |-> bodies]

PlainProto(op, seq, what) == [op |-> op, seq |-> seq, body |-> Marshal(op, what)[1]]
Item(op, seq, what) == [kind |-> "proto", proto |-> PlainProto(op, seq, what), what |-> what]
Heart(seq) == [kind |-> "heart", proto |-> [op |-> OpHeartbeatReply, seq |-> seq, body |-> <<>>], online |-> 8]
BatchItem(protos) ==
    [kind |-> "batch", protos |-> protos, proto |-> [op |-> OpRaw, seq |-> 0, body |-> Batch(protos)]]
Client(op, seq, what, cuts, pings) ==
    [kind |-> "proto", proto |-> PlainProto(op, seq, what), what |-> what, cuts |-> cuts,
     pings |-> pings, ping |-> <<5, 6>>, key |-> <<3, 1, 2, 7>>]
CloseItem == [kind |-> "close", key |-> <<1, 1, 1, 1>>, pings |-> {}, ping |-> <<>>]

OutScripts ==
    { <<Heart(1), Item(OpSendMsg, 2, Msg(<<9>>, <<>>)), Item(OpSyncReq, 3, [lastSeq |-> 4, limit |-> 2])>>,
      <<Item(OpSyncReply, 1, SyncReply(0, <<Msg(<<>>, <<>>)>>)), Heart(2)>>,
      <<BatchItem(<<PlainProto(7, 1, <<1>>), PlainProto(8, 2, <<>>)>>), Heart(4)>>,
      <<Heart(1), BatchItem(<<PlainProto(7, 1, <<>>), PlainProto(8, 2, <<1>>)>>)>>,
      <<Item(OpPushMsgAck, 1, AckOf(<<1>>, <<2>>)), Item(OpPushMsgAck, 2, AckOf(<<>>, <<2, 3>>))>>,
      <<Item(7, 1, <<1, 2, 3>>), Item(7, 2, [i \in 1..12 |-> i]), Heart(3)>> }
InScripts ==
    { <<Client(OpSendMsg, 1, Msg(<<9>>, <<1>>), <<2, 5>>, {2}), Client(OpPushMsgAck, 2, AckOf(<<>>, <<>>), <<>>, {1}), CloseItem>>,
      <<Client(7, 1, <<>>, <<1, 2, 3, 4>>, {}), Client(7, 2, <<2>>, <<>>, {})>>,
      <<Client(7, 1, <<4>>, <<3>>, {1, 2}), Client(7, 2, <<2>>, <<0, 2>>, {})>> }
MCScripts ==
    [how : {"tcp", "ws"}, items : OutScripts, left : {9, 1000}]
        \cup [how : {"client"}, items : InScripts, left : {1000}]

MCRate ==
    [d \in {"global", "user", "event", "prio", "conn", "campaign"} |-> IF d \in {"conn", "global"} THEN 3 ELSE 1]
MCBurst ==
    [d \in {"global", "user", "event", "prio", "conn", "campaign"} |-> IF d = "global" THEN 2 ELSE 1]
MCEnvelopes == {[evt |-> "sale", prio |-> ""], [evt |-> "other", prio |-> "high"]}

\* Two servers that come, change and go, one of each kind that is refused.
Ins(h, r, weight, n, ts, kind, dials) ==
    [host |-> h, region |-> r, weight |-> weight, conns |-> n, ts |-> ts, kind |-> kind, dials |-> dials]
MCFleets ==
    { {},
      {Ins("h1", "east", 2, 1, 1, "ok", TRUE), Ins("h2", "west", 1, 0, 1, "ok", TRUE)},
      {Ins("h1", "east", 2, 1, 1, "ok", TRUE), Ins("h2", "west", 1, 3, 2, "ok", TRUE)},
      {Ins("h1", "east", 2, 1, 1, "ok", TRUE), Ins("h3", "west", 1, 3, 1, "noweight", FALSE)},
      {Ins("h2", "west", 1, 3, 2, "ok", TRUE), Ins("h1", "east", 1, 1, 2, "offline", TRUE)},
      {Ins("h3", "east", 3, 0, 1, "ok", TRUE), Ins("h1", "east", 2, 1, 1, "unparsable", TRUE)} }

MCVars == <<framingVars, timerVars, limitsVars, nodesVars, part>>

MCInit ==
    /\ part \in {"framing", "timer", "ids", "buckets", "client", "nodes"}
    /\ FramingInit /\ (part # "framing" => script = CHOOSE s \in Scripts : TRUE)
    /\ TimerInit /\ LimitsInit /\ NodesInit

MCNext ==
    \/ part = "framing" /\ FramingNext /\ UNCHANGED <<timerVars, limitsVars, nodesVars, part>>
    \/ part = "timer" /\ TimerNext /\ UNCHANGED <<framingVars, limitsVars, nodesVars, part>>
    \/ /\ \/ part = "ids" /\ FlakeNext
          \/ part = "buckets" /\ BucketNext
          \/ part = "client" /\ ClientNext
       /\ UNCHANGED <<framingVars, timerVars, nodesVars, part>>
    \/ part = "nodes" /\ NodesNext /\ UNCHANGED <<framingVars, timerVars, limitsVars, part>>

MCSpec == MCInit /\ [][MCNext]_MCVars
=============================================================================
