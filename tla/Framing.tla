------------------------------ MODULE Framing ------------------------------
(***************************************************************************)
(* The wire format of a connection: the protocol packet                    *)
(* (api/protocol/protocol.go), the message bodies it carries               *)
(* (api/protocol/message.go), the WebSocket frames around it               *)
(* (pkg/websocket/conn.go) and the buffered reader and writer under both   *)
(* (pkg/bufio/bufio.go).                                                   *)
(*                                                                         *)
(* One end writes a script of items through a bounded write buffer into a  *)
(* connection that breaks after `left` cells; the other end reads them     *)
(* through a bounded read buffer, and every read returns any number of the *)
(* cells that arrived.  A cell is a natural number.  A fixed-width field   *)
(* of the format is one cell, a byte string is one cell per byte, so the   *)
(* packet header has RawHeaderSize = 5 cells and a heartbeat adds one.     *)
(***************************************************************************)
EXTENDS Integers, Sequences, FiniteSets, SequencesExt

CONSTANTS
    MaxBodySize,    \* MaxBodySize, 4096 bytes
    ReadBufSize,    \* len(buf) of the reader
    WriteBufSize,   \* len(buf) of the writer
    Small,          \* the longest payload with a 7-bit length, 125
    Medium,         \* the first payload with a 64-bit length, 65536
    MaxFrames,      \* continuationFrameMaxRead, 100
    MaxPrefix,      \* the longest string with a 16-bit prefix, 65535
    Scripts         \* the scripts to try: [how, items, left]

RawHeaderSize == 5
HeartSize == 1
MaxPackSize == MaxBodySize + RawHeaderSize
KeySize == 4

\* A heartbeat fits a packet and the buffers of both ends: Peek would
\* otherwise answer ErrBufferFull for every packet.  A 7-bit length leaves
\* room for its two flag values.
ASSUME FramingAssumption ==
    /\ {MaxBodySize, ReadBufSize, WriteBufSize, Small, Medium, MaxFrames, MaxPrefix} \subseteq Nat
    /\ HeartSize <= MaxBodySize
    /\ RawHeaderSize + HeartSize <= WriteBufSize /\ RawHeaderSize + HeartSize <= ReadBufSize
    /\ Small < Medium /\ Small + 2 < 128

OpRaw == 9
OpHeartbeatReply == 3
OpSendMsg == 4
OpPushMsgAck == 20
OpSyncReq == 22
OpSyncReply == 23

VARIABLES
    script,     \* what is sent: [how, items, left]
    sent,       \* items handed to the writer so far
    w,          \* the writer: [buf, err, out, left]
    rbuf,       \* the cells in the reader's buffer
    taken,      \* cells of w.out the reader has fetched
    rd,         \* where the reader stands in the packet or frame
    got,        \* protos returned by ReadTCP or ReadWebsocket
    rerr,       \* the error that ended the reading, or "none"
    back        \* the writer of the reading end (Pong frames)

framingVars == <<script, sent, w, rbuf, taken, rd, got, rerr, back>>

-----------------------------------------------------------------------------
\* pkg/bufio: the writer.

NewWriter(left) == [buf |-> <<>>, err |-> FALSE, out |-> <<>>, left |-> left]

\* The connection accepts `left` more cells, then fails (external).
Sink(wr, cells) ==
    LET n == IF Len(cells) <= wr.left THEN Len(cells) ELSE wr.left
    IN  [wr EXCEPT !.out = @ \o SubSeq(cells, 1, n), !.left = @ - n, !.err = n < Len(cells)]

\* flush: a short write keeps the rest and the error sticks.
Flush(wr) ==
    IF wr.err \/ wr.buf = <<>> THEN wr
    ELSE LET s == Sink(wr, wr.buf)
         IN  [s EXCEPT !.buf = SubSeq(wr.buf, 1 + Len(s.out) - Len(wr.out), Len(wr.buf))]

Available(wr) == WriteBufSize - Len(wr.buf)

\* The cells that fit are kept, a large rest on an empty buffer goes straight
\* to the connection.
Put(wr, p) ==
    IF wr.err THEN wr
    ELSE IF Len(p) <= Available(wr) THEN [wr EXCEPT !.buf = @ \o p]
    ELSE Sink(wr, p)

\* Write: fill and flush until the rest fits, which one flush decides, as it
\* leaves the buffer empty or the error set.
Write(wr, p) ==
    IF wr.err \/ wr.buf = <<>> \/ Len(p) <= Available(wr) THEN Put(wr, p)
    ELSE LET n == Available(wr)
         IN  Put(Flush([wr EXCEPT !.buf = @ \o SubSeq(p, 1, n)]), SubSeq(p, n + 1, Len(p)))

WriteRaw(wr, p) ==
    IF wr.err THEN wr
    ELSE IF wr.buf = <<>> THEN Sink(wr, p)
    ELSE Write(wr, p)

\* Peek, and the assignment of the cells it hands out.
Peek(wr, cells) ==
    LET f == IF Available(wr) < Len(cells) THEN Flush(wr) ELSE wr
    IN  IF f.err THEN f ELSE [f EXCEPT !.buf = @ \o cells]

-----------------------------------------------------------------------------
\* api/protocol/message.go: the bodies.

\* An encoder or decoder answers <<result>>, or <<>> for its error.
Slice(data, from, n) == SubSeq(data, from, from + n - 1)

MarshalMsgBody(mb) ==
    IF Len(mb.msgID) > MaxPrefix THEN <<>>
    ELSE << <<Len(mb.msgID)>> \o mb.msgID \o <<mb.fromUID, mb.toUID, mb.timestamp, mb.seq>> \o mb.content >>

UnmarshalMsgBody(data) ==
    IF data = <<>> \/ Len(data) < 5 + Head(data) THEN <<>>
    ELSE LET n == Head(data)
         IN  << [ msgID |-> Slice(data, 2, n), fromUID |-> data[n + 2], toUID |-> data[n + 3],
                  timestamp |-> data[n + 4], seq |-> data[n + 5],
                  content |-> SubSeq(data, n + 6, Len(data)) ] >>

Prefixed(s) == IF s = <<>> THEN <<>> ELSE <<Len(s)>> \o s
Bit(cond, b) == IF cond THEN b ELSE 0

MarshalAckBody(ab) ==
    IF \E s \in {ab.msgID, ab.deviceID, ab.sessionID} : Len(s) > MaxPrefix THEN <<>>
    ELSE << <<Len(ab.msgID)>> \o ab.msgID \o <<ab.seq>>
                \o <<Bit(ab.deviceID # <<>>, 1) + Bit(ab.sessionID # <<>>, 2)>>
                \o Prefixed(ab.deviceID) \o Prefixed(ab.sessionID) >>

\* An optional string at `at`: its value and the position after it.
Optional(data, present, at) ==
    IF ~present \/ at > Len(data) THEN [val |-> <<>>, next |-> at]
    ELSE IF at + data[at] > Len(data) THEN [val |-> <<>>, next |-> at + 1]
    ELSE [val |-> Slice(data, at + 1, data[at]), next |-> at + 1 + data[at]]

UnmarshalAckBody(data) ==
    IF data = <<>> \/ Len(data) < 2 + Head(data) THEN <<>>
    ELSE LET n     == Head(data)
             flags == IF Len(data) > n + 2 THEN data[n + 3] ELSE 0
             dev   == Optional(data, flags % 2 = 1, n + 4)
             sess  == Optional(data, (flags \div 2) % 2 = 1, dev.next)
         IN  << [ msgID |-> Slice(data, 2, n), seq |-> data[n + 2],
                  deviceID |-> dev.val, sessionID |-> sess.val ] >>

MarshalSyncReq(sr) == << <<sr.lastSeq, sr.limit>> >>

UnmarshalSyncReq(data) ==
    IF Len(data) < 2 THEN <<>> ELSE << [lastSeq |-> data[1], limit |-> data[2]] >>

MarshalSyncReply(sr) ==
    LET bodies == [i \in DOMAIN sr.messages |-> MarshalMsgBody(sr.messages[i])]
    IN  IF \E i \in DOMAIN bodies : bodies[i] = <<>> THEN <<>>
        ELSE << <<sr.currentSeq, Bit(sr.hasMore, 1), Len(bodies)>>
                    \o FlattenSeq([i \in DOMAIN bodies |-> <<Len(bodies[i][1])>> \o bodies[i][1]])
                    \o <<IF sr.serverMaxSeq = 0 THEN sr.currentSeq ELSE sr.serverMaxSeq>> >>

\* One message at st.at, appended to st.sr.
NextMessage(data, st) ==
    LET len == data[st.at + 1]
        mb  == UnmarshalMsgBody(Slice(data, st.at + 2, len))
    IN  IF st.bad \/ st.at + 1 > Len(data) \/ st.at + 1 + len > Len(data) \/ mb = <<>>
        THEN [st EXCEPT !.bad = TRUE]
        ELSE [st EXCEPT !.at = @ + 1 + len, !.sr.messages = @ \o mb]

\* The k messages after position `at`, then the trailing server_max_seq.
SyncMessages(data, at, k, sr) ==
    LET st == FoldLeft(LAMBDA acc, i : NextMessage(data, acc),
                       [at |-> at, sr |-> sr, bad |-> FALSE], [i \in 1 .. k |-> i])
    IN  IF st.bad THEN <<>>
        ELSE IF st.at + 1 = Len(data) THEN << [st.sr EXCEPT !.serverMaxSeq = data[st.at + 1]] >>
        ELSE IF st.at = Len(data) THEN <<st.sr>> ELSE <<>>

UnmarshalSyncReply(data) ==
    IF Len(data) < 3 THEN <<>>
    ELSE SyncMessages(data, 3, data[3],
             [currentSeq |-> data[1], hasMore |-> data[2] = 1, serverMaxSeq |-> data[1], messages |-> <<>>])

\* The body of an operation, by its operation code.
Marshal(op, what) ==
    CASE op = OpSendMsg    -> MarshalMsgBody(what)
      [] op = OpPushMsgAck -> MarshalAckBody(what)
      [] op = OpSyncReq    -> MarshalSyncReq(what)
      [] op = OpSyncReply  -> MarshalSyncReply(what)
      [] OTHER             -> <<what>>

Unmarshal(op, body) ==
    CASE op = OpSendMsg    -> UnmarshalMsgBody(body)
      [] op = OpPushMsgAck -> UnmarshalAckBody(body)
      [] op = OpSyncReq    -> UnmarshalSyncReq(body)
      [] op = OpSyncReply  -> UnmarshalSyncReply(body)
      [] OTHER             -> <<body>>

-----------------------------------------------------------------------------
\* api/protocol/protocol.go: packets, and pkg/websocket: the frames around.

\* A proto is [op, seq, body]; the version is 1 in every packet.
Header(packLen, p) == <<packLen, RawHeaderSize, 1, p.op, p.seq>>

\* Proto.WriteTo: appended to the growing writer of a batch (job, router).
WriteTo(buf, p) == buf \o Header(RawHeaderSize + Len(p.body), p) \o p.body
Batch(protos) == FoldLeft(WriteTo, <<>>, protos)

WriteTCP(wr, p) ==
    IF p.op = OpRaw THEN WriteRaw(wr, p.body)
    ELSE Write(Peek(wr, Header(RawHeaderSize + Len(p.body), p)), p.body)

WriteTCPHeart(wr, p, online) ==
    Peek(wr, Header(RawHeaderSize + HeartSize, p) \o <<online>>)

FinBit == 128
MaskBit == 128
ContinuationFrame == 0
TextMessage == 1
BinaryMessage == 2
CloseMessage == 8
PingMessage == 9
PongMessage == 10

\* The flag value itself taken for a length.
LengthOffByOne(n) ==
    IF n <= Small + 1 THEN [low |-> n, ext |-> <<>>]
    ELSE [low |-> Small + 2, ext |-> <<n>>]

\* The length of a payload, in the second byte of a frame and after it.
Length(n) ==
    IF n <= Small THEN [low |-> n, ext |-> <<>>]
    ELSE IF n < Medium THEN [low |-> Small + 1, ext |-> <<n>>]
    ELSE [low |-> Small + 2, ext |-> <<n>>]

WriteHeader(wr, msgType, n) ==
    LET h == Peek(wr, <<FinBit + msgType, Length(n).low>>)
    IN  IF Length(n).ext = <<>> THEN h ELSE Peek(h, Length(n).ext)

WriteBody(wr, b) == IF b = <<>> THEN wr ELSE Write(wr, b)

WriteMessage(wr, msgType, msg) == WriteBody(WriteHeader(wr, msgType, Len(msg)), msg)

\* The first inner header of a raw batch is replaced by an outer one.
WriteWebsocket(wr, p) ==
    LET data    == IF p.op = OpRaw /\ Len(p.body) > RawHeaderSize
                   THEN SubSeq(p.body, RawHeaderSize + 1, Len(p.body)) ELSE p.body
        packLen == RawHeaderSize + Len(data)
    IN  WriteBody(Peek(WriteHeader(wr, BinaryMessage, packLen), Header(packLen, p)), data)

WriteWebsocketHeart(wr, p, online) ==
    Peek(WriteHeader(wr, BinaryMessage, RawHeaderSize + HeartSize),
         Header(RawHeaderSize + HeartSize, p) \o <<online>>)

\* Exclusive or, bit by bit from the lowest.
Xor[a \in Nat, b \in Nat] ==
    IF a = 0 THEN b ELSE IF b = 0 THEN a ELSE 2 * Xor[a \div 2, b \div 2] + ((a + b) % 2)

MaskBytes(key, b) == [i \in DOMAIN b |-> Xor[b[i], key[1 + ((i - 1) % KeySize)]]]

\* What a client sends (external): masked frames of a message cut at some
\* places, with a Ping after some of them.
ClientFrame(fin, op, key, payload) ==
    <<Bit(fin, FinBit) + op, MaskBit + Length(Len(payload)).low>>
        \o Length(Len(payload)).ext \o key \o MaskBytes(key, payload)

ClientMessage(item) ==
    LET payload == WriteTo(<<>>, item.proto)
        ends    == Append(item.cuts, Len(payload))
        start   == <<0>> \o item.cuts
        frame(i) == ClientFrame(i = Len(ends), IF i = 1 THEN BinaryMessage ELSE ContinuationFrame,
                                item.key, SubSeq(payload, start[i] + 1, ends[i]))
        ping    == ClientFrame(TRUE, PingMessage, item.key, item.ping)
    IN  FlattenSeq([i \in DOMAIN ends |->
            IF i \in item.pings THEN ping \o frame(i) ELSE frame(i)])

\* One item through the writer of its end.
WriteItem(wr, how, item) ==
    CASE how = "client" /\ item.kind = "close" -> Write(wr, ClientFrame(TRUE, CloseMessage, item.key, <<>>))
      [] how = "client" /\ item.kind # "close" -> Write(wr, ClientMessage(item))
      [] how = "tcp" /\ item.kind = "heart" -> WriteTCPHeart(wr, item.proto, item.online)
      [] how = "tcp" /\ item.kind # "heart" -> WriteTCP(wr, item.proto)
      [] how = "ws" /\ item.kind = "heart"  -> WriteWebsocketHeart(wr, item.proto, item.online)
      [] how = "ws" /\ item.kind # "heart"  -> WriteWebsocket(wr, item.proto)

-----------------------------------------------------------------------------
\* The reading end.

Websocket == script.how # "tcp"

\* The start of ReadTCP, of readFrame and of ReadMessage.
AtHeader == [pc |-> "header", want |-> RawHeaderSize, hdr |-> <<>>]
AtFrame(acc, n) ==
    [pc |-> "b0", want |-> 1, acc |-> acc, n |-> n, fin |-> FALSE, op |-> 0, mask |-> FALSE,
     len |-> 0, key |-> <<>>]
AtStart(how) == IF how = "tcp" THEN AtHeader ELSE AtFrame(<<>>, 0)

FramingInit ==
    /\ script \in Scripts
    /\ sent = 0
    /\ w = NewWriter(script.left)
    /\ rbuf = <<>>
    /\ taken = 0
    /\ rd = AtStart(script.how)
    /\ got = <<>>
    /\ rerr = "none"
    /\ back = NewWriter(1000)

\* The dispatcher hands the next item to the writer.
Send ==
    /\ sent < Len(script.items)
    /\ ~w.err
    /\ sent' = sent + 1
    /\ w' = WriteItem(w, script.how, script.items[sent + 1])
    /\ UNCHANGED <<script, rbuf, taken, rd, got, rerr, back>>

\* Flush between items and after the last one.
FlushAll ==
    /\ w.buf # <<>> /\ ~w.err
    /\ w' = Flush(w)
    /\ UNCHANGED <<script, sent, rbuf, taken, rd, got, rerr, back>>

\* The writing end has nothing left to send and closes, or its connection
\* broke.
WriterDone == w.err \/ (sent = Len(script.items) /\ w.buf = <<>>)

\* Pop refuses more than the buffer holds.
Fits == rd.want <= ReadBufSize

\* fill: slide, then one read that returns some of what arrived.
Fill ==
    /\ rerr = "none" /\ Fits /\ Len(rbuf) < rd.want
    /\ \E k \in 1..(ReadBufSize - Len(rbuf)) :
         /\ taken + k <= Len(w.out)
         /\ rbuf' = rbuf \o SubSeq(w.out, taken + 1, taken + k)
         /\ taken' = taken + k
    /\ UNCHANGED <<script, sent, w, rd, got, rerr, back>>

\* readErr: the end of the stream before enough cells, or a full buffer.
ReadFails ==
    /\ rerr = "none" /\ Len(rbuf) < rd.want
    /\ \/ ~Fits /\ rerr' = "full"
       \/ Fits /\ WriterDone /\ taken = Len(w.out) /\ rerr' = "eof"
    /\ UNCHANGED <<script, sent, w, rbuf, taken, rd, got, back>>

Refuse(why) == rerr' = why /\ UNCHANGED <<rd, got, back>>

\* A proto returned to the caller; the next call starts afresh.
Return(hdr, body) ==
    /\ got' = Append(got, [op |-> hdr[4], seq |-> hdr[5], body |-> body])
    /\ rd' = AtStart(script.how)
    /\ UNCHANGED <<rerr, back>>

\* The checks ReadTCP and ReadWebsocket make on a header.
BadHeader(hdr) == IF hdr[1] > MaxPackSize THEN "packlen"
                  ELSE IF hdr[2] # RawHeaderSize THEN "headerlen" ELSE "none"

\* ReadTCP after the header, and after the body.
TCPHeader(cells) ==
    IF BadHeader(cells) # "none" THEN Refuse(BadHeader(cells))
    ELSE IF cells[1] > RawHeaderSize
    THEN /\ rd' = [pc |-> "body", want |-> cells[1] - RawHeaderSize, hdr |-> cells]
         /\ UNCHANGED <<got, rerr, back>>
    ELSE Return(cells, <<>>)

TCPBody(cells) == Return(rd.hdr, cells)

\* ReadWebsocket on the message ReadMessage returned.
Message(buf) ==
    IF Len(buf) < RawHeaderSize THEN Refuse("packlen")
    ELSE IF BadHeader(buf) # "none" THEN Refuse(BadHeader(buf))
    ELSE Return(buf, SubSeq(buf, RawHeaderSize + 1, buf[1]))

\* ReadMessage goes on to its next frame, unless it has read too many.
NextFrame(acc) ==
    IF rd.n > MaxFrames THEN rerr' = "maxread" /\ UNCHANGED <<rd, got>>
    ELSE rd' = AtFrame(acc, rd.n + 1) /\ UNCHANGED <<rerr, got>>

\* The loop of ReadMessage around one frame.
ReadMessage(f, part) ==
    CASE f.op \in {BinaryMessage, TextMessage, ContinuationFrame} ->
           IF f.fin THEN Message(f.acc \o part)
           ELSE NextFrame(f.acc \o part) /\ UNCHANGED back
      [] f.op = PingMessage -> back' = WriteMessage(back, PongMessage, part) /\ NextFrame(f.acc)
      [] f.op = PongMessage -> NextFrame(f.acc) /\ UNCHANGED back
      [] f.op = CloseMessage -> Refuse("close")
      [] OTHER -> Refuse("unknown")

\* The steps of readFrame, one per read of the buffer.
Goto(f) == rd' = f /\ UNCHANGED <<got, rerr, back>>
Payload(f) ==
    IF f.len > 0 THEN Goto([f EXCEPT !.pc = "payload", !.want = f.len]) ELSE ReadMessage(f, <<>>)
AfterLength(f) == IF f.mask THEN Goto([f EXCEPT !.pc = "mask", !.want = KeySize]) ELSE Payload(f)

ReadFrame(cells) ==
    CASE rd.pc = "b0" ->
           IF (cells[1] \div 16) % 8 # 0 THEN Refuse("reserved")
           ELSE Goto([rd EXCEPT !.pc = "b1", !.fin = cells[1] >= FinBit, !.op = cells[1] % 16])
      [] rd.pc = "b1" ->
           LET f == [rd EXCEPT !.mask = cells[1] >= MaskBit, !.len = cells[1] % MaskBit]
           IN  IF f.len > Small THEN Goto([f EXCEPT !.pc = "ext"]) ELSE AfterLength(f)
      [] rd.pc = "ext" -> AfterLength([rd EXCEPT !.len = cells[1]])
      [] rd.pc = "mask" -> Payload([rd EXCEPT !.key = cells])
      [] rd.pc = "payload" ->
           ReadMessage(rd, IF rd.mask THEN MaskBytes(rd.key, cells) ELSE cells)

\* Pop: the wanted cells are in the buffer.
Pop ==
    /\ rerr = "none" /\ Fits /\ Len(rbuf) >= rd.want
    /\ LET cells == SubSeq(rbuf, 1, rd.want)
       IN  CASE rd.pc = "header" -> TCPHeader(cells)
             [] rd.pc = "body"   -> TCPBody(cells)
             [] OTHER            -> ReadFrame(cells)
    /\ rbuf' = SubSeq(rbuf, rd.want + 1, Len(rbuf))
    /\ UNCHANGED <<script, sent, w, taken>>

FramingNext == Send \/ FlushAll \/ Fill \/ ReadFails \/ Pop

FramingSpec == FramingInit /\ [][FramingNext]_framingVars

-----------------------------------------------------------------------------
\* What the reading end should be handed for an item, decoded.
Meant(p, what) == [op |-> p.op, seq |-> p.seq, what |-> what]
Expected(item) ==
    CASE item.kind = "proto" -> <<Meant(item.proto, item.what)>>
      [] item.kind = "heart" -> <<Meant(item.proto, <<item.online>>)>>
      [] item.kind = "close" -> <<>>
      [] item.kind = "batch" ->
           IF script.how = "tcp"
           THEN [i \in DOMAIN item.protos |-> Meant(item.protos[i], item.protos[i].body)]
           ELSE <<Meant(item.proto, SubSeq(item.proto.body, RawHeaderSize + 1, Len(item.proto.body)))>>
ExpectedAll == FlattenSeq([i \in DOMAIN script.items |-> Expected(script.items[i])])

\* A reply without a server maximum is read as one whose maximum is its own
\* current sequence.
Completed(op, what) ==
    IF op = OpSyncReply /\ what.serverMaxSeq = 0 THEN [what EXCEPT !.serverMaxSeq = what.currentSeq]
    ELSE what

\* An item the reading end may refuse: a packet beyond MaxPackSize or the
\* read buffer, or a message in more frames than ReadMessage takes.
Refusable(item) ==
    /\ item.kind \in {"proto", "batch"}
    /\ LET n == RawHeaderSize + Len(item.proto.body)
       IN  \/ n > MaxPackSize \/ n > ReadBufSize
           \/ script.how = "client" /\ Len(item.cuts) + Cardinality(item.pings) > MaxFrames + 1
CanRefuse == \E i \in DOMAIN script.items : Refusable(script.items[i])

\* The Pong frames for every Ping of the script.
Pongs ==
    LET pong(item) == WriteMessage(NewWriter(0), PongMessage, item.ping).buf
    IN  IF script.how # "client" THEN <<>>
        ELSE FlattenSeq([i \in DOMAIN script.items |->
                 FlattenSeq([k \in 1..Cardinality(script.items[i].pings) |-> pong(script.items[i])])])

\* However the stream is cut by the write buffer, by the reads and by a
\* broken connection, the reader returns exactly the packets that were
\* written, in order, each decoding to the message that was encoded: a
\* prefix at any time, and all of them once the writer is done and the
\* reader has met the end, unless the connection broke or a packet is one
\* the reader must refuse (ReadTCP, ReadWebsocket, readFrame, bufio).
\* Every Ping before the end is answered with its own payload.
FramesIntact ==
    LET all == ExpectedAll
    IN  /\ Len(got) <= Len(all)
        /\ \A i \in DOMAIN got :
             Meant(got[i], Unmarshal(got[i].op, got[i].body))
                 = [all[i] EXCEPT !.what = <<Completed(all[i].op, @)>>]
        /\ rerr = "eof" /\ ~w.err => Len(got) = Len(all) /\ back.out \o back.buf = Pongs
        /\ rerr \in {"full", "packlen", "maxread"} => CanRefuse
        /\ rerr \notin {"headerlen", "reserved", "unknown"}
        /\ rerr = "close" => Len(got) = Len(all)

=============================================================================
