---------------------------- MODULE CometProofs -----------------------------
(***************************************************************************)
(* Proofs about a comet.  One connection, for any ring, word size and      *)
(* queues: the ring keeps every frame until it is written back, although   *)
(* its reader counter is read without synchronisation and both wrap; and   *)
(* those who send under the lock of the bucket reach the connection they   *)
(* meant and find its dispatcher there.  The bucket, for any connections   *)
(* and rooms: every connection can be found, and the linked lists of the   *)
(* rooms hold their members.  The timer of handshakes and heartbeats, for  *)
(* any entries and delays: its heap stays a heap and its signal is in time.*)
(***************************************************************************)
EXTENDS Connection, Bucket, Timer, FiniteSetTheorems, WellFoundedInduction, TLAPS

\* Frames that GetAdv has passed: all replies but one just written.
Advanced == Len(replied) - (IF dispatcher = "adv" THEN 1 ELSE 0)

\* The ring's counters are the numbers of frames put in and passed, as
\* words; the reader has seen some earlier number R of frames passed, which
\* leaves it no more than Size of them to account for.
Counters ==
    /\ dispatcher = "adv" => Len(replied) > 0
    /\ Advanced <= Len(frames)
    /\ rp = Advanced % WordSize /\ wp = Len(frames) % WordSize
Lagging ==
    \E R \in 0 .. Advanced :
        /\ readRp = R % WordSize
        /\ Len(frames) - R <= Size
        /\ reader = "read" => Len(frames) - R < Size
\* The slots hold the frames that are not passed.
Kept == \A i \in Advanced .. Len(frames) - 1 : data[i % Size] = i + 1
RingInv ==
    /\ Counters /\ Lagging /\ Kept /\ InOrder
    /\ dispatcher = "reply" => Len(replied) < Len(frames)

\* Whoever sends to the connection has the lock of the bucket meanwhile.
Locking == \A p \in Pushers : Task[p] \in {"cast", "take", "none"}

Holders == rlocked \cup ({wlocked} \ {"none"})
Sendable == {x \in Items : (x.op # "ready" => x.to = conn) /\ (registered => x.op # "finish")}

\* Under the lock there is at most one who takes the key over, and alone.
LockHeld ==
    /\ \A p \in Pushers : /\ pusher[p] # "idle" => p \in Holders /\ aim[p] = conn
                          /\ p \in rlocked => pusher[p] \in {"push", "signal"}
                          /\ p = wlocked => pusher[p] = "close" /\ Task[p] = "take"
    /\ wlocked # "none" => rlocked = {}
    /\ Holders # {} => registered
\* A connection that is registered has its dispatcher; what is queued is
\* for this connection.
Queued ==
    /\ registered => reader \notin {"free", "close", "wait"} /\ dispatcher # "done"
    /\ high \in Seq(Sendable) /\ normal \in Seq({Message(conn)})
    /\ dispatcher = "write" => item.to = conn
LockInv == Locking => LockHeld /\ Queued /\ RightRecipient

IInv == TypeOK /\ RingInv /\ LockInv

-----------------------------------------------------------------------------
(* Arithmetic of the counters *)

LEMMA Multiple == ASSUME NEW b \in Nat \ {0}, NEW k \in Nat \ {0} PROVE b * k >= b
OBVIOUS

\* Division with remainder.
LEMMA Quotient == ASSUME NEW a \in Nat, NEW b \in Nat \ {0} PROVE \E q \in Nat : a = b * q + (a % b)
<1>1. a = b * (a \div b) + (a % b)
  OBVIOUS
<1>2. a \div b \in Nat
  OBVIOUS
<1> QED
  BY <1>1, <1>2

LEMMA RemainderType == ASSUME NEW a \in Nat, NEW b \in Nat \ {0} PROVE a % b \in 0 .. b - 1
OBVIOUS

LEMMA Remainder ==
    ASSUME NEW b \in Nat \ {0}, NEW q \in Int, NEW p \in Int, NEW r \in 0 .. b - 1, NEW s \in 0 .. b - 1,
           b * q + r = b * p + s
    PROVE  r = s
<1>1. ASSUME NEW x \in Int, NEW y \in Int, NEW u \in 0 .. b - 1, NEW v \in 0 .. b - 1,
             b * x + u = b * y + v, x < y
      PROVE  FALSE
  <2>1. b * (y - x) >= b
    BY <1>1, Multiple
  <2>2. b * (y - x) = b * y - b * x
    OBVIOUS
  <2>3. b * y \in Int /\ b * x \in Int
    OBVIOUS
  <2> QED
    BY <1>1, <2>1, <2>2, <2>3
<1>2. ~ (q < p) /\ ~ (p < q)
  BY <1>1
<1> QED
  BY <1>2

LEMMA RemainderIs ==
    ASSUME NEW a \in Nat, NEW b \in Nat \ {0}, NEW q \in Int, NEW r \in 0 .. b - 1, a = b * q + r
    PROVE  a % b = r
<1>1. PICK p \in Nat : a = b * p + (a % b)
  BY Quotient
<1>2. a % b \in 0 .. b - 1
  BY RemainderType
<1>3. PICK s \in 0 .. b - 1 : s = a % b
  BY <1>2
<1>4. p \in Int /\ b * q + r = b * p + s
  BY <1>1, <1>3
<1>5. r = s
  BY <1>4, Remainder
<1> QED
  BY <1>3, <1>5

\* Numbers less than b apart have different remainders.
LEMMA Apart ==
    ASSUME NEW b \in Nat \ {0}, NEW i \in Nat, NEW n \in Nat, i <= n, n - i < b, i % b = n % b
    PROVE  i = n
<1>1. PICK p \in Nat : i = b * p + (i % b)
  BY Quotient
<1>2. PICK r \in 0 .. b - 1 : r = i % b
  BY RemainderType
<1>3. PICK q \in Nat : n = b * q + r
  <2>1. PICK q \in Nat : n = b * q + (n % b)
    BY Quotient
  <2> QED
    BY <1>2, <2>1
<1>4. n - i = b * (q - p)
  <2>1. n - i = b * q - b * p
    BY <1>1, <1>2, <1>3
  <2> QED
    BY <2>1
<1>5. ~ (q > p)
  BY <1>4, Multiple
<1>6. ~ (q < p)
  <2>1. ASSUME q < p PROVE FALSE
    <3>1. b * (p - q) >= b
      BY <2>1, Multiple
    <3>2. b * (p - q) = b * p - b * q
      OBVIOUS
    <3>3. i - n = b * p - b * q
      BY <1>1, <1>2, <1>3
    <3> QED
      BY <3>1, <3>2, <3>3
  <2> QED
    BY <2>1
<1> QED
  BY <1>1, <1>2, <1>3, <1>5, <1>6

\* A counter modulo b goes on from its word.
LEMMA Sums == ASSUME NEW b \in Nat \ {0}, NEW a \in Nat, NEW k \in Nat PROVE ((a % b) + k) % b = (a + k) % b
<1>1. PICK p \in Nat : a = b * p + (a % b)
  BY Quotient
<1>2. PICK r \in 0 .. b - 1 : r = a % b
  BY RemainderType
<1>t. PICK t \in Nat : t = r + k
  OBVIOUS
<1>3. PICK q \in Nat : t = b * q + (t % b)
  BY Quotient
<1>4. PICK s \in 0 .. b - 1 : s = t % b
  BY RemainderType
<1>5. PICK c \in Int : c = p + q
  OBVIOUS
<1>6. PICK z \in Nat : z = a + k
  OBVIOUS
<1>7. z = b * c + s
  <2>1. b * (p + q) = b * p + b * q
    OBVIOUS
  <2>2. a = b * p + r /\ t = b * q + s /\ b * c = b * p + b * q
    BY <1>1, <1>2, <1>3, <1>4, <1>5, <2>1
  <2>3. b * p \in Int /\ b * q \in Int
    OBVIOUS
  <2> QED
    BY <1>t, <1>6, <2>2, <2>3
<1>8. z % b = s
  BY <1>7, RemainderIs
<1> QED
  BY <1>2, <1>t, <1>4, <1>6, <1>8

\* Two counters no further apart than a word tell their distance.
LEMMA Distance ==
    ASSUME NEW b \in Nat \ {0}, NEW n \in Nat, NEW a \in Nat, a <= n, n - a < b
    PROVE  ((n % b) + b - (a % b)) % b = n - a
<1>1. PICK r \in 0 .. b - 1 : r = a % b
  BY RemainderType
<1>2. PICK s \in 0 .. b - 1 : s = n % b
  BY RemainderType
<1>3. PICK p \in Nat : a = b * p + r
  BY Quotient, <1>1
<1>4. PICK q \in Nat : n = b * q + s
  BY Quotient, <1>2
<1>5. s + b - r \in Nat /\ n - a \in 0 .. b - 1
  OBVIOUS
<1>6. s + b - r = b * (p - q + 1) + (n - a)
  <2>1. b * (p - q + 1) = b * p - b * q + b
    OBVIOUS
  <2> QED
    BY <1>3, <1>4, <2>1
<1>7. (s + b - r) % b = n - a
  <2>1. PICK d \in 0 .. b - 1 : d = n - a
    BY <1>5
  <2>2. PICK c \in Int : c = p - q + 1
    OBVIOUS
  <2>3. s + b - r = b * c + d
    BY <1>6, <2>1, <2>2
  <2> QED
    BY <1>5, <2>1, <2>3, RemainderIs
<1> QED
  BY <1>1, <1>2, <1>7

\* The slot of a counter is the slot of its word.
LEMMA Nested ==
    ASSUME NEW b \in Nat \ {0}, NEW w \in Nat \ {0}, w % b = 0, NEW n \in Nat
    PROVE  (n % w) % b = n % b
<1>1. PICK c \in Nat : w = b * c
  <2>1. PICK c \in Nat : w = b * c + (w % b)
    BY Quotient
  <2>2. w = b * c
    BY <2>1
  <2> QED
    BY <2>2
<1>2. PICK q \in Nat : n = w * q + (n % w)
  BY Quotient
<1>3. PICK r \in Nat : r = n % w
  BY RemainderType
<1>4. PICK p \in Nat : r = b * p + (r % b)
  BY Quotient
<1>5. PICK s \in 0 .. b - 1 : s = r % b
  BY RemainderType
<1>6. PICK t \in Nat : t = c * q
  OBVIOUS
<1>7. PICK d \in Int : d = t + p
  OBVIOUS
<1>8. n = b * d + s
  <2>1. w * q = b * t
    BY <1>1, <1>6
  <2>2. b * (t + p) = b * t + b * p
    OBVIOUS
  <2>3. n = w * q + r /\ r = b * p + s
    BY <1>2, <1>3, <1>4, <1>5
  <2> QED
    BY <1>7, <2>1, <2>2, <2>3
<1>9. n % b = s
  BY <1>8, RemainderIs
<1> QED
  BY <1>3, <1>5, <1>9

-----------------------------------------------------------------------------
(* Types *)

LEMMA Constants ==
    /\ Size \in Nat \ {0} /\ WordSize \in Nat \ {0} /\ WordSize % Size = 0 /\ WordSize > Size
    /\ HighCap \in Nat /\ NormalCap \in Nat /\ MaxPushes \in Nat /\ "none" \notin Pushers
BY ConnectionAssumption DEF ConnectionAssumption

LEMMA SetupTypes ==
    ASSUME setup \in Setups
    PROVE  Task \in [Pushers -> Tasks] /\ RateLimit \in BOOLEAN /\ MaxFrames \in Nat /\ MaxConns \in Nat
BY ConnectionAssumption DEF ConnectionAssumption, Task, RateLimit, MaxFrames, MaxConns

LEMMA ItemTypes ==
    /\ Ready \in Items /\ Ready.op = "ready" /\ Ready.to = 0
    /\ \A c \in Nat : /\ Finish(c) \in Items /\ Finish(c).op = "finish" /\ Finish(c).to = c
                      /\ Message(c) \in Items /\ Message(c).op = "message" /\ Message(c).to = c
BY DEF Items, Ready, Finish, Message

\* A blocking send keeps the queue within its capacity.
LEMMA Sends ==
    ASSUME high \in Seq(Items), Len(high) <= HighCap, NEW x \in Items, Send(x)
    PROVE  high' \in Seq(Items) /\ Len(high') <= HighCap
<1>1. HighCap \in Nat
  BY Constants
<1> QED
  BY <1>1 DEF Send, HighFull

LEMMA Handled ==
    ASSUME TypeOK, NEW x \in Items, Handle(x), dispatcher \in {"pop", "select"}
    PROVE  /\ dispatcher' \in {"pop", "get", "write", "done"} /\ item' = x /\ up' \in BOOLEAN
           /\ obeyed' \subseteq Nat \X Nat
<1>0. up \in BOOLEAN /\ broken \in BOOLEAN /\ obeyed \subseteq Nat \X Nat /\ conn \in Nat
  BY DEF TypeOK
<1>1. x.op \in {"ready", "finish", "message"} /\ x.to \in Nat
  BY DEF Items
<1>2. dispatcher' \in {"pop", "get", "write", "done"}
  BY <1>0, <1>1 DEF Handle
<1>3. up' \in BOOLEAN
  <2>1. up' = (up /\ x.op # "finish")
    BY DEF Handle
  <2> QED
    BY <2>1, Zenon
<1> QED
  BY <1>0, <1>1, <1>2, <1>3 DEF Handle

LEMMA TypeInit == Init => TypeOK
<1> SUFFICES ASSUME Init PROVE TypeOK
  OBVIOUS
<1>1. 0 \in Words /\ data \in [0 .. Size - 1 -> Nat]
  BY Constants DEF Init, Words
<1>2. /\ high \in Seq(Items) /\ normal \in Seq(Items) /\ Len(high) <= HighCap /\ Len(normal) <= NormalCap
      /\ frames \in Seq({"answer", "limited"}) /\ replied \in Seq(Nat)
  BY Constants DEF Init
<1>3. pushes \in [Pushers -> 0 .. MaxPushes]
  BY Constants DEF Init
<1> QED
  BY <1>1, <1>2, <1>3, ItemTypes DEF Init, TypeOK

LEMMA TypeStep == TypeOK /\ [Next]_vars => TypeOK'
<1> SUFFICES ASSUME TypeOK, [Next]_vars PROVE TypeOK'
  OBVIOUS
<1> DEFINE Readers == {"free", "set", "read", "signal", "del", "close", "wait"}
           Dispatchers == {"pop", "select", "get", "reply", "adv", "write", "done"}
           Places == {"idle", "push", "signal", "close", "stuck"}
<1>0. /\ high \in Seq(Items) /\ normal \in Seq(Items) /\ Len(high) <= HighCap /\ Len(normal) <= NormalCap
      /\ conn \in Nat /\ up \in BOOLEAN /\ registered \in BOOLEAN /\ broken \in BOOLEAN
      /\ reader \in Readers /\ dispatcher \in Dispatchers /\ pusher \in [Pushers -> Places]
      /\ rp \in Words /\ wp \in Words /\ readRp \in Words /\ rlocked \subseteq Pushers
      /\ wlocked \in Pushers \cup {"none"} /\ data \in [0 .. Size - 1 -> Nat]
      /\ frames \in Seq({"answer", "limited"}) /\ replied \in Seq(Nat)
      /\ aim \in [Pushers -> Nat] /\ pushes \in [Pushers -> 0 .. MaxPushes] /\ left \in Nat
  BY DEF TypeOK
<1>1. CASE Connect
  <2>1. 0 \in Words /\ data' \in [0 .. Size - 1 -> Nat]
    BY <1>1, Constants DEF Connect, Words
  <2>2. /\ high' \in Seq(Items) /\ normal' \in Seq(Items) /\ Len(high') <= HighCap /\ Len(normal') <= NormalCap
        /\ frames' \in Seq({"answer", "limited"}) /\ replied' \in Seq(Nat)
    BY <1>1, Constants DEF Connect
  <2>3. left' \in Nat
    BY <1>1, SetupTypes DEF Connect, TypeOK
  <2>4. pusher' \in [Pushers -> Places]
    BY <1>0, <1>1 DEF Connect
  <2>5. /\ conn' \in Nat /\ rp' \in Words /\ wp' \in Words /\ readRp' \in Words
        /\ reader' \in Readers /\ dispatcher' \in Dispatchers
    BY <1>0, <1>1, <2>1 DEF Connect
  <2>7. up' \in BOOLEAN /\ registered' \in BOOLEAN /\ broken' \in BOOLEAN
    BY <1>1, Zenon DEF Connect
  <2>6. UNCHANGED <<setup, rlocked, wlocked, item, aim, pushes, obeyed>>
    BY <1>1 DEF Connect
  <2> QED
    BY <2>1, <2>2, <2>3, <2>4, <2>5, <2>6, <2>7 DEF TypeOK
<1>2. CASE Set
  <2>1. readRp' \in Words
    <3>1. PICK k \in 0 .. (rp + WordSize - readRp) % WordSize : readRp' = (readRp + k) % WordSize
      BY <1>2 DEF Set
    <3>2. rp + WordSize - readRp \in Nat
      BY <1>0, Constants DEF Words
    <3>3. k \in Nat
      BY <3>1, <3>2, Constants, RemainderType
    <3>4. PICK r \in Nat : r = readRp + k
      BY <1>0, <3>3 DEF Words
    <3> QED
      BY <3>1, <3>4, Constants, RemainderType DEF Words
  <2>2. reader' \in Readers
    BY <1>2 DEF Set
  <2> QED
    BY <1>0, <1>2, <2>1, <2>2 DEF Set, which, bucket, queue, pushing, history, TypeOK
<1>3. CASE ReadTCP
  <2>1. left' \in Nat
    BY <1>0, <1>3 DEF ReadTCP
  <2>2. reader' \in Readers
    BY <1>3 DEF ReadTCP
  <2>3. ASSUME NEW kind \in {"answer", "limited"}, Fill(kind)
        PROVE  wp' \in Words /\ data' \in [0 .. Size - 1 -> Nat] /\ frames' \in Seq({"answer", "limited"})
    <3>1. PICK w \in Nat : w = wp + 1
      BY <1>0 DEF Words
    <3>2. wp' \in Words
      BY <2>3, <3>1, Constants, RemainderType DEF Fill, Words
    <3>3. PICK n \in Nat : n = Len(frames) + 1
      BY <1>0
    <3>4. data' = [data EXCEPT ![wp % Size] = n]
      BY <2>3, <3>3 DEF Fill
    <3>5. data' \in [0 .. Size - 1 -> Nat]
      BY <1>0, <3>4
    <3>6. frames' = Append(frames, kind)
      BY <2>3 DEF Fill
    <3>7. frames' \in Seq({"answer", "limited"})
      BY <1>0, <3>6
    <3> QED
      BY <3>2, <3>5, <3>7
  <2>4. wp' \in Words /\ data' \in [0 .. Size - 1 -> Nat] /\ frames' \in Seq({"answer", "limited"})
    BY <1>0, <1>3, <2>3 DEF ReadTCP
  <2> QED
    BY <1>0, <1>3, <2>1, <2>2, <2>4 DEF ReadTCP, which, bucket, queue, pushing, TypeOK
<1>4. CASE ReadFails \/ Disconnect
  BY <1>0, <1>4 DEF ReadFails, Disconnect, which, bucket, ring, queue, pushing, history, TypeOK
<1>5. CASE Signal
  <2>1. high' \in Seq(Items) /\ Len(high') <= HighCap
    BY <1>0, <1>5, Sends, ItemTypes DEF Signal
  <2> QED
    BY <1>0, <1>5, <2>1 DEF Signal, which, bucket, ring, pushing, history, TypeOK
<1>6. CASE BucketDel
  BY <1>0, <1>6 DEF BucketDel, which, ring, queue, pushing, history, TypeOK
<1>7. CASE Close
  <2>1. high' \in Seq(Items) /\ Len(high') <= HighCap
    BY <1>0, <1>7, Sends, ItemTypes DEF Close
  <2> QED
    BY <1>0, <1>7, <2>1 DEF Close, which, bucket, ring, pushing, history, TypeOK
<1>8. CASE PopHigh
  <2>1. Head(high) \in Items /\ high' \in Seq(Items) /\ Len(high') <= HighCap
    BY <1>0, <1>8, Constants DEF PopHigh
  <2>2. PICK x \in Items : x = Head(high)
    BY <2>1
  <2>3. /\ dispatcher' \in Dispatchers /\ item' \in Items /\ up' \in BOOLEAN /\ obeyed' \subseteq Nat \X Nat
    BY <1>8, <2>2, Handled DEF PopHigh
  <2> QED
    BY <1>0, <1>8, <2>1, <2>3 DEF PopHigh, which, bucket, ring, pushing, TypeOK
<1>9. CASE PopNormal
  <2>1. Head(normal) \in Items /\ normal' \in Seq(Items) /\ Len(normal') <= NormalCap
    BY <1>0, <1>9, Constants DEF PopNormal
  <2>2. PICK x \in Items : x = Head(normal)
    BY <2>1
  <2>3. /\ dispatcher' \in Dispatchers /\ item' \in Items /\ up' \in BOOLEAN /\ obeyed' \subseteq Nat \X Nat
    BY <1>9, <2>2, Handled DEF PopNormal
  <2> QED
    BY <1>0, <1>9, <2>1, <2>3 DEF PopNormal, which, bucket, ring, pushing, TypeOK
<1>10. CASE PopBlocks
  BY <1>0, <1>10 DEF PopBlocks, which, bucket, ring, queue, pushing, history, TypeOK
<1>11. CASE Get
  <2>1. dispatcher' \in Dispatchers /\ up' \in BOOLEAN /\ broken' \in BOOLEAN
    BY <1>0, <1>11 DEF Get, Failed
  <2> QED
    BY <1>0, <1>11, <2>1 DEF Get, which, bucket, ring, queue, pushing, history, TypeOK
<1>12. CASE Reply
  <2>1. dispatcher' \in Dispatchers /\ up' \in BOOLEAN /\ broken' \in BOOLEAN
    BY <1>0, <1>12 DEF Reply, Failed
  <2>2. replied' \in Seq(Nat)
    <3>1. rp % Size \in 0 .. Size - 1
      BY <1>0, Constants, RemainderType DEF Words
    <3>2. data[rp % Size] \in Nat
      BY <1>0, <3>1
    <3>3. PICK n \in Nat : n = data[rp % Size]
      BY <3>2
    <3>4. replied' = Append(replied, n) \/ UNCHANGED replied
      BY <1>12, <3>3 DEF Reply
    <3>5. replied \in Seq(Nat)
      BY <1>0
    <3>6. CASE replied' = Append(replied, n)
      BY <3>5, <3>6
    <3> QED
      BY <3>4, <3>5, <3>6
  <2> QED
    BY <1>0, <1>12, <2>1, <2>2 DEF Reply, which, bucket, ring, queue, pushing, TypeOK
<1>13. CASE GetAdv
  <2>1. PICK w \in Nat : w = rp + 1
    BY <1>0 DEF Words
  <2>2. rp' \in Words
    BY <1>13, <2>1, Constants, RemainderType DEF GetAdv, Words
  <2> QED
    BY <1>0, <1>13, <2>2 DEF GetAdv, which, bucket, queue, pushing, history, TypeOK
<1>14. CASE Write
  <2>1. dispatcher' \in Dispatchers /\ up' \in BOOLEAN /\ broken' \in BOOLEAN
    BY <1>0, <1>14 DEF Write, Failed
  <2>2. obeyed' \subseteq Nat \X Nat
    <3>1. item.to \in Nat /\ obeyed \subseteq Nat \X Nat
      BY DEF TypeOK, Items
    <3> QED
      BY <1>0, <1>14, <3>1 DEF Write
  <2> QED
    BY <1>0, <1>14, <2>1, <2>2 DEF Write, which, bucket, ring, queue, pushing, TypeOK
<1>15. ASSUME NEW p \in Pushers, Lookup(p) PROVE TypeOK'
  <2>1. aim' \in [Pushers -> Nat] /\ pusher' \in [Pushers -> Places]
    BY <1>0, <1>15 DEF Lookup
  <2>2. pushes' \in [Pushers -> 0 .. MaxPushes]
    <3>0. pushes[p] \in 0 .. MaxPushes /\ pushes[p] < MaxPushes
      BY <1>0, <1>15 DEF Lookup
    <3>1. pushes[p] + 1 \in 0 .. MaxPushes
      BY <3>0, Constants
    <3>2. PICK n \in 0 .. MaxPushes : n = pushes[p] + 1
      BY <3>1
    <3>3. pushes' = [pushes EXCEPT ![p] = n]
      BY <1>15, <3>2 DEF Lookup
    <3> QED
      BY <1>0, <3>3
  <2>3. rlocked' \subseteq Pushers /\ wlocked' \in Pushers \cup {"none"}
    BY <1>0, <1>15 DEF Lookup
  <2> QED
    BY <1>0, <1>15, <2>1, <2>2, <2>3 DEF Lookup, which, ring, queue, history, TypeOK
<1>t. ASSUME NEW p \in Pushers, Through(p)
      PROVE  pusher' \in [Pushers -> Places] /\ rlocked' \subseteq Pushers /\ wlocked' \in Pushers \cup {"none"}
  BY <1>0, <1>t DEF Through
<1>16. ASSUME NEW p \in Pushers, Push(p) PROVE TypeOK'
  <2>1. Message(aim[p]) \in Items
    BY <1>0, ItemTypes
  <2>2. high' \in Seq(Items) /\ Len(high') <= HighCap
    <3>1. CASE UNCHANGED high
      BY <1>0, <3>1
    <3>2. CASE ~ HighFull /\ high' = Append(high, Message(aim[p]))
      BY <1>0, <2>1, <3>2, Sends DEF Send
    <3> QED
      BY <1>16, <3>1, <3>2 DEF Push
  <2>3. normal' \in Seq(Items) /\ Len(normal') <= NormalCap
    <3>1. CASE UNCHANGED normal
      BY <1>0, <3>1
    <3>2. CASE Len(normal) < NormalCap /\ normal' = Append(normal, Message(aim[p]))
      BY <1>0, <2>1, <3>2, Constants
    <3> QED
      BY <1>16, <3>1, <3>2 DEF Push
  <2>4. pusher' \in [Pushers -> Places] /\ rlocked' \subseteq Pushers /\ wlocked' \in Pushers \cup {"none"}
    BY <1>0, <1>16, <1>t DEF Push
  <2> QED
    BY <1>0, <1>16, <2>2, <2>3, <2>4 DEF Push, which, ring, history, TypeOK
<1>17. ASSUME NEW p \in Pushers, SignalPushed(p) PROVE TypeOK'
  <2>1. high' \in Seq(Items) /\ Len(high') <= HighCap
    BY <1>0, <1>17, Sends, ItemTypes DEF SignalPushed
  <2> QED
    BY <1>0, <1>17, <1>t, <2>1 DEF SignalPushed, which, ring, history, TypeOK
<1>18. ASSUME NEW p \in Pushers, CloseOther(p) PROVE TypeOK'
  <2>1. high' \in Seq(Items) /\ Len(high') <= HighCap
    BY <1>0, <1>18, Sends, ItemTypes DEF CloseOther
  <2>2. registered' \in BOOLEAN
    <3>1. registered' = (registered /\ Task[p] # "take")
      BY <1>18 DEF CloseOther
    <3> QED
      BY <3>1, Zenon
  <2>3. pusher' \in [Pushers -> Places] /\ rlocked' \subseteq Pushers /\ wlocked' \in Pushers \cup {"none"}
    BY <1>18, <1>t DEF CloseOther
  <2> QED
    BY <1>18, <2>1, <2>2, <2>3 DEF CloseOther, which, ring, history, TypeOK
<1>19. CASE ConnDies
  BY <1>0, <1>19 DEF ConnDies, which, bucket, ring, queue, pushing, history, TypeOK
<1>20. CASE UNCHANGED vars
  BY <1>20 DEF vars, which, bucket, ring, queue, pushing, history, TypeOK
<1> QED
  BY <1>1, <1>2, <1>3, <1>4, <1>5, <1>6, <1>7, <1>8, <1>9, <1>10, <1>11, <1>12, <1>13, <1>14, <1>15, <1>16,
     <1>17, <1>18, <1>19, <1>20 DEF Next, ReaderStep, DispatcherStep, PusherStep

-----------------------------------------------------------------------------
(* The ring *)

LEMMA WordSum == ASSUME NEW a \in Nat, NEW k \in Nat PROVE ((a % WordSize) + k) % WordSize = (a + k) % WordSize
<1>1. PICK w \in Nat \ {0} : w = WordSize
  BY Constants
<1>2. ((a % w) + k) % w = (a + k) % w
  BY Sums
<1> QED
  BY <1>1, <1>2

LEMMA NextWord == ASSUME NEW a \in Nat PROVE ((a % WordSize) + 1) % WordSize = (a + 1) % WordSize
<1>1. PICK k \in Nat : k = 1
  OBVIOUS
<1>2. ((a % WordSize) + k) % WordSize = (a + k) % WordSize
  BY WordSum
<1> QED
  BY <1>1, <1>2

LEMMA WordDistance ==
    ASSUME NEW n \in Nat, NEW a \in Nat, a <= n, n - a < WordSize
    PROVE  ((n % WordSize) + WordSize - (a % WordSize)) % WordSize = n - a
<1>1. PICK w \in Nat \ {0} : w = WordSize
  BY Constants
<1>2. n - a < w
  BY <1>1
<1>3. ((n % w) + w - (a % w)) % w = n - a
  BY <1>2, Distance
<1> QED
  BY <1>1, <1>3

LEMMA ZeroWord == \A b \in Nat \ {0} : 0 % b = 0
<1> SUFFICES ASSUME NEW b \in Nat \ {0} PROVE 0 % b = 0
  OBVIOUS
<1>1. 0 = b * 0 + 0 /\ 0 \in 0 .. b - 1
  OBVIOUS
<1> QED
  BY <1>1, RemainderIs

\* The numbers behind the counters.
LEMMA Numbers ==
    ASSUME TypeOK, RingInv
    PROVE  /\ Len(frames) \in Nat /\ Len(replied) \in Nat /\ Advanced \in Nat /\ Advanced <= Len(frames)
           /\ dispatcher = "adv" => Len(replied) = Advanced + 1
           /\ dispatcher # "adv" => Len(replied) = Advanced
<1>1. Len(frames) \in Nat /\ Len(replied) \in Nat
  BY DEF TypeOK
<1> QED
  BY <1>1 DEF Advanced, RingInv, Counters

\* Steps that leave the ring alone.
LEMMA RingStays ==
    ASSUME RingInv, UNCHANGED <<rp, wp, data, readRp, frames, replied>>, reader' = "read" => reader = "read",
           dispatcher' = "adv" <=> dispatcher = "adv", dispatcher' = "reply" => dispatcher = "reply"
    PROVE  RingInv'
<1>1. Advanced' = Advanced
  BY DEF Advanced
<1> QED
  BY <1>1 DEF RingInv, Counters, Lagging, Kept, InOrder

LEMMA RingConnect == ASSUME Connect PROVE RingInv'
<1>1. /\ frames' = << >> /\ replied' = << >> /\ rp' = 0 /\ wp' = 0 /\ readRp' = 0
      /\ dispatcher' = "pop" /\ reader' = "set"
  BY DEF Connect
<1>2. Len(frames') = 0 /\ Len(replied') = 0 /\ Advanced' = 0
  BY <1>1 DEF Advanced
<1>3. 0 % WordSize = 0 /\ Size \in Nat
  BY ZeroWord, Constants
<1>4. Lagging'
  <2>1. 0 \in 0 .. 0
    OBVIOUS
  <2> QED
    BY <1>1, <1>2, <1>3, <2>1 DEF Lagging
<1>5. Counters' /\ Kept' /\ InOrder'
  BY <1>1, <1>2, <1>3 DEF Counters, Kept, InOrder
<1> QED
  BY <1>1, <1>4, <1>5 DEF RingInv

\* Set sees a number between the one it saw before and the present one, and
\* its room is the room there is since then.
LEMMA RingSet == ASSUME TypeOK, RingInv, Set PROVE RingInv'
<1>0. /\ Counters /\ Lagging /\ Kept /\ InOrder
      /\ dispatcher = "reply" => Len(replied) < Len(frames)
  BY DEF RingInv
<1>1. PICK a \in Nat : a = Advanced
  BY Numbers
<1>2. PICK n \in Nat : n = Len(frames) /\ a <= n
  BY <1>1, Numbers
<1>3. PICK R \in 0 .. a : readRp = R % WordSize /\ n - R <= Size
  BY <1>0, <1>1, <1>2 DEF Lagging
<1>4. PICK k \in 0 .. (rp + WordSize - readRp) % WordSize :
          /\ readRp' = (readRp + k) % WordSize
          /\ reader' = IF (wp + WordSize - readRp') % WordSize >= Size THEN "del" ELSE "read"
  BY DEF Set
<1>5. UNCHANGED <<rp, wp, data, frames, replied, dispatcher>>
  BY DEF Set, history
<1>6. rp = a % WordSize /\ wp = n % WordSize
  BY <1>0, <1>1, <1>2 DEF Counters
<1>7. (rp + WordSize - readRp) % WordSize = a - R
  <2>1. a - R < WordSize /\ R <= a /\ R \in Nat
    BY <1>2, <1>3, Constants
  <2>2. ((a % WordSize) + WordSize - (R % WordSize)) % WordSize = a - R
    BY <2>1, WordDistance
  <2> QED
    BY <1>3, <1>6, <2>2
<1>8. PICK S \in Nat : S = R + k /\ S <= a /\ R <= S
  <2>1. k \in 0 .. a - R
    BY <1>4, <1>7
  <2> QED
    BY <1>3, <2>1
<1>9. readRp' = S % WordSize
  <2>0. PICK d \in Nat : d = a - R
    BY <1>3
  <2>1. k \in Nat /\ R \in Nat
    BY <1>3, <1>4, <1>7, <2>0
  <2>2. ((R % WordSize) + k) % WordSize = (R + k) % WordSize
    BY <2>1, WordSum
  <2> QED
    BY <1>3, <1>4, <1>8, <2>2, Zenon
<1>10. (wp + WordSize - readRp') % WordSize = n - S
  <2>0. R \in Nat /\ n - R <= Size
    BY <1>3
  <2>1. n - S < WordSize /\ S <= n
    BY <1>2, <1>8, <2>0, Constants
  <2>2. ((n % WordSize) + WordSize - (S % WordSize)) % WordSize = n - S
    BY <2>1, WordDistance
  <2> QED
    BY <1>6, <1>9, <2>2
<1>11. n - S <= Size /\ (reader' = "read" => n - S < Size)
  <2>0. R \in Nat /\ n - R <= Size
    BY <1>3
  <2>1. n - S <= Size /\ n - S \in Int
    BY <1>2, <1>8, <2>0, Constants
  <2>2. reader' = IF n - S >= Size THEN "del" ELSE "read"
    BY <1>4, <1>10
  <2> QED
    BY <2>1, <2>2, Constants
<1>12. Advanced' = a /\ Len(frames') = n
  BY <1>1, <1>2, <1>5 DEF Advanced
<1>13. Lagging'
  <2>1. S \in 0 .. a
    BY <1>8
  <2> QED
    BY <1>9, <1>11, <1>12, <2>1 DEF Lagging
<1>14. Counters' /\ Kept' /\ InOrder' /\ (dispatcher' = "reply" => Len(replied') < Len(frames'))
  BY <1>0, <1>1, <1>5, <1>12 DEF Counters, Kept, InOrder
<1> QED
  BY <1>13, <1>14 DEF RingInv

\* A frame goes into a slot whose frame was passed.
LEMMA RingFill ==
    ASSUME TypeOK, RingInv, reader = "read", NEW kind, Fill(kind), reader' # "read",
           UNCHANGED <<rp, readRp, dispatcher, replied>>
    PROVE  RingInv'
<1>0. /\ Counters /\ Lagging /\ Kept /\ InOrder /\ frames \in Seq({"answer", "limited"})
      /\ data \in [0 .. Size - 1 -> Nat]
      /\ dispatcher = "reply" => Len(replied) < Len(frames)
  BY DEF RingInv, TypeOK
<1>1. PICK a \in Nat : a = Advanced
  BY Numbers
<1>2. PICK n \in Nat : n = Len(frames) /\ a <= n
  BY <1>1, Numbers
<1>3. PICK R \in 0 .. a : readRp = R % WordSize /\ n - R < Size
  BY <1>0, <1>1, <1>2 DEF Lagging
<1>4. PICK m \in Nat : m = n + 1
  OBVIOUS
<1>5. wp = n % WordSize
  BY <1>0, <1>2 DEF Counters
<1>6. wp % Size = n % Size
  BY <1>5, Constants, Nested
<1>7. PICK slot \in 0 .. Size - 1 : slot = n % Size
  BY Constants, RemainderType
<1>8. data' = [data EXCEPT ![slot] = m] /\ frames' = Append(frames, kind) /\ wp' = (wp + 1) % WordSize
  BY <1>2, <1>4, <1>6, <1>7 DEF Fill
<1>9. Len(frames') = m /\ Advanced' = a
  BY <1>0, <1>1, <1>2, <1>4, <1>8 DEF Advanced
<1>10. wp' = m % WordSize
  <2>1. ((n % WordSize) + 1) % WordSize = (n + 1) % WordSize
    BY NextWord
  <2> QED
    BY <1>4, <1>5, <1>8, <2>1
<1>11. Counters'
  BY <1>0, <1>1, <1>2, <1>4, <1>9, <1>10 DEF Counters
<1>12. Lagging'
  <2>1. m - R <= Size
    BY <1>2, <1>3, <1>4, Constants
  <2> QED
    BY <1>3, <1>9, <2>1 DEF Lagging
<1>13. Kept'
  <2> SUFFICES ASSUME NEW i \in a .. m - 1 PROVE data'[i % Size] = i + 1
    BY <1>9 DEF Kept
  <2>1. CASE i = n
    BY <1>0, <1>4, <1>7, <1>8, <2>1
  <2>2. CASE i # n
    <3>1. i \in a .. n - 1 /\ i \in Nat /\ i <= n /\ n - i < Size
      BY <1>3, <1>4, <2>2, Constants
    <3>2. i % Size # slot
      BY <1>7, <2>2, <3>1, Constants, Apart
    <3>3. i % Size \in 0 .. Size - 1
      BY <3>1, Constants, RemainderType
    <3>4. data[i % Size] = i + 1
      BY <1>0, <1>1, <1>2, <3>1 DEF Kept
    <3> QED
      BY <1>0, <1>8, <3>2, <3>3, <3>4
  <2> QED
    BY <2>1, <2>2
<1>14. InOrder' /\ (dispatcher' = "reply" => Len(replied') < Len(frames'))
  <2>1. Len(replied) \in Nat
    BY Numbers
  <2> QED
    BY <1>0, <1>2, <1>4, <1>9, <2>1 DEF InOrder
<1> QED
  BY <1>11, <1>12, <1>13, <1>14 DEF RingInv

\* Ring.Get finds a frame when the counters differ.
LEMMA RingGet == ASSUME TypeOK, RingInv, Get PROVE RingInv'
<1>1. /\ dispatcher = "get" /\ dispatcher' \in {"pop", "reply"}
      /\ UNCHANGED <<rp, wp, data, readRp, frames, replied, reader>>
      /\ dispatcher' = "reply" => rp # wp
  BY DEF Get, Failed, ring, history
<1>2. CASE dispatcher' = "pop"
  BY <1>1, <1>2, RingStays
<1>3. CASE dispatcher' = "reply"
  <2>1. Advanced = Len(replied) /\ Len(replied) \in Nat /\ Len(frames) \in Nat /\ Len(replied) <= Len(frames)
    BY <1>1, Numbers
  <2>2. Len(replied) # Len(frames)
    BY <1>1, <1>3, <2>1 DEF RingInv, Counters
  <2>3. Len(replied) < Len(frames)
    BY <2>1, <2>2
  <2>4. Advanced' = Advanced
    BY <1>1, <1>3 DEF Advanced
  <2> QED
    BY <1>1, <1>3, <2>3, <2>4 DEF RingInv, Counters, Lagging, Kept, InOrder
<1> QED
  BY <1>1, <1>2, <1>3

\* The reply is the next frame.
LEMMA RingReply == ASSUME TypeOK, RingInv, Reply PROVE RingInv'
<1>1. /\ dispatcher = "reply"
      /\ UNCHANGED <<rp, wp, data, readRp, frames, reader>>
      /\ \/ dispatcher' = "adv" /\ replied' = Append(replied, data[rp % Size])
         \/ dispatcher' = "pop" /\ UNCHANGED replied
  BY DEF Reply, Failed, ring
<1>2. CASE dispatcher' = "pop" /\ UNCHANGED replied
  BY <1>1, <1>2, RingStays
<1>3. CASE dispatcher' = "adv" /\ replied' = Append(replied, data[rp % Size])
  <2>0. /\ Counters /\ Lagging /\ Kept /\ InOrder /\ Len(replied) < Len(frames) /\ replied \in Seq(Nat)
    BY <1>1 DEF RingInv, TypeOK
  <2>1. PICK a \in Nat : a = Advanced /\ a = Len(replied)
    BY <1>1, Numbers
  <2>2. PICK n \in Nat : n = Len(frames) /\ a < n
    BY <2>0, <2>1, Numbers
  <2>3. rp % Size = a % Size
    <3>1. (a % WordSize) % Size = a % Size
      BY Constants, Nested
    <3> QED
      BY <2>0, <2>1, <3>1 DEF Counters
  <2>4. data[rp % Size] = a + 1
    <3>1. a \in a .. n - 1
      BY <2>2
    <3> QED
      BY <2>0, <2>1, <2>2, <2>3, <3>1 DEF Kept
  <2>5. PICK m \in Nat : m = a + 1
    OBVIOUS
  <2>6. replied' = Append(replied, m)
    BY <1>3, <2>4, <2>5
  <2>7. Len(replied') = m /\ replied'[m] = m /\ \A i \in 1 .. a : replied'[i] = replied[i]
    BY <2>0, <2>1, <2>5, <2>6
  <2>8. Advanced' = a
    BY <1>3, <2>5, <2>7 DEF Advanced
  <2>9. InOrder'
    <3>1. \A i \in 1 .. a : replied[i] = i
      BY <2>0, <2>1 DEF InOrder
    <3>2. \A i \in 1 .. m : replied'[i] = i
      BY <2>5, <2>7, <3>1
    <3>3. m <= n
      BY <2>2, <2>5
    <3> QED
      BY <1>1, <2>2, <2>7, <3>2, <3>3 DEF InOrder
  <2>10. Counters' /\ Lagging' /\ Kept'
    <3>1. Advanced' = Advanced /\ Len(replied') > 0
      BY <2>1, <2>5, <2>7, <2>8
    <3> QED
      BY <1>1, <1>3, <2>0, <3>1 DEF Counters, Lagging, Kept
  <2> QED
    BY <1>3, <2>9, <2>10 DEF RingInv
<1> QED
  BY <1>1, <1>2, <1>3

LEMMA RingAdv == ASSUME TypeOK, RingInv, GetAdv PROVE RingInv'
<1>1. /\ dispatcher = "adv" /\ dispatcher' = "get" /\ rp' = (rp + 1) % WordSize
      /\ UNCHANGED <<wp, data, readRp, frames, replied, reader>>
  BY DEF GetAdv, history
<1>2. Counters /\ Lagging /\ Kept /\ InOrder
  BY DEF RingInv
<1>3. PICK a \in Nat : a = Advanced
  BY Numbers
<1>4. PICK b \in Nat : b = a + 1 /\ b = Len(replied) /\ b = Advanced'
  <2>1. Advanced' = Len(replied)
    BY <1>1, Numbers DEF Advanced
  <2> QED
    BY <1>1, <1>3, <2>1, Numbers
<1>5. rp' = b % WordSize
  <2>1. ((a % WordSize) + 1) % WordSize = (a + 1) % WordSize
    BY NextWord
  <2> QED
    BY <1>1, <1>2, <1>3, <1>4, <2>1 DEF Counters
<1>6. Counters'
  BY <1>1, <1>2, <1>4, <1>5 DEF Counters, InOrder
<1>7. Lagging'
  <2>1. PICK R \in 0 .. a : /\ readRp = R % WordSize /\ Len(frames) - R <= Size
                            /\ reader = "read" => Len(frames) - R < Size
    BY <1>2, <1>3 DEF Lagging
  <2>2. R \in 0 .. b
    BY <1>4
  <2> QED
    BY <1>1, <1>4, <2>1, <2>2 DEF Lagging
<1>8. Kept' /\ InOrder'
  <2>1. Len(frames) \in Nat /\ \A i \in b .. Len(frames) - 1 : i \in a .. Len(frames) - 1
    BY <1>4, Numbers
  <2> QED
    BY <1>1, <1>2, <1>3, <1>4, <2>1 DEF Kept, InOrder
<1> QED
  BY <1>1, <1>6, <1>7, <1>8 DEF RingInv

LEMMA RingStep == TypeOK /\ RingInv /\ [Next]_vars => RingInv'
<1> SUFFICES ASSUME TypeOK, RingInv, [Next]_vars PROVE RingInv'
  OBVIOUS
<1>1. CASE ReadTCP
  <2>1. reader = "read" /\ UNCHANGED <<rp, readRp, dispatcher, replied>>
    BY <1>1 DEF ReadTCP
  <2>2. CASE UNCHANGED <<data, wp, frames>>
    BY <2>1, <2>2, RingStays
  <2>3. CASE \E kind \in {"answer", "limited"} : Fill(kind) /\ reader' # "read"
    BY <2>1, <2>3, RingFill
  <2> QED
    BY <1>1, <2>2, <2>3 DEF ReadTCP
<1>2. CASE ReadFails \/ Signal \/ BucketDel \/ Close \/ Disconnect
  <2>1. UNCHANGED <<rp, wp, data, readRp, frames, replied, dispatcher>> /\ reader' # "read"
    BY <1>2 DEF ReadFails, Signal, BucketDel, Close, Disconnect, ring, history
  <2> QED
    BY <2>1, RingStays
<1>3. CASE PopHigh \/ PopNormal \/ PopBlocks \/ Write
  <2>1. /\ UNCHANGED <<rp, wp, data, readRp, frames, replied, reader>>
        /\ dispatcher \in {"pop", "select", "write"}
    BY <1>3 DEF PopHigh, PopNormal, PopBlocks, Write, ring, history
  <2>2. dispatcher' \notin {"adv", "reply"}
    <3>1. ASSUME PopHigh PROVE dispatcher' \notin {"adv", "reply"}
      <4>1. PICK x \in Items : x = Head(high)
        BY <3>1 DEF PopHigh, TypeOK
      <4> QED
        BY <3>1, <4>1, Handled DEF PopHigh
    <3>2. ASSUME PopNormal PROVE dispatcher' \notin {"adv", "reply"}
      <4>1. PICK x \in Items : x = Head(normal)
        BY <3>2 DEF PopNormal, TypeOK
      <4> QED
        BY <3>2, <4>1, Handled DEF PopNormal
    <3> QED
      BY <1>3, <3>1, <3>2 DEF PopBlocks, Write, Failed
  <2> QED
    BY <2>1, <2>2, RingStays
<1>4. ASSUME NEW p \in Pushers, Lookup(p) \/ PusherStep(p) PROVE RingInv'
  <2>1. UNCHANGED <<rp, wp, data, readRp, frames, replied, dispatcher, reader>>
    BY <1>4 DEF PusherStep, Lookup, Push, SignalPushed, CloseOther, ring, history
  <2> QED
    BY <2>1, RingStays
<1>5. CASE ConnDies \/ UNCHANGED vars
  <2>1. UNCHANGED <<rp, wp, data, readRp, frames, replied, dispatcher, reader>>
    BY <1>5 DEF ConnDies, vars, ring, history
  <2> QED
    BY <2>1, RingStays
<1> QED
  BY <1>1, <1>2, <1>3, <1>4, <1>5, RingConnect, RingSet, RingGet, RingReply, RingAdv
     DEF Next, ReaderStep, DispatcherStep

-----------------------------------------------------------------------------
(* The lock of the bucket *)

Guarded == LockHeld /\ Queued /\ RightRecipient

LEMMA SetupStays == [Next]_vars => setup' = setup
<1> SUFFICES ASSUME [Next]_vars PROVE setup' = setup
  OBVIOUS
<1>1. ReadTCP \/ ReaderStep \/ Connect => setup' = setup
  BY DEF ReadTCP, ReaderStep, Set, ReadFails, Signal, BucketDel, Close, Disconnect, Connect, which
<1>2. DispatcherStep \/ ConnDies \/ UNCHANGED vars => setup' = setup
  BY DEF DispatcherStep, PopHigh, PopBlocks, PopNormal, Get, Reply, GetAdv, Write, ConnDies, vars, which
<1>3. \A p \in Pushers : Lookup(p) \/ PusherStep(p) => setup' = setup
  BY DEF Lookup, PusherStep, Push, SignalPushed, CloseOther, which
<1> QED
  BY <1>1, <1>2, <1>3 DEF Next

\* What could be sent still can, as long as nobody registers.
LEMMA SendableStays ==
    ASSUME conn' = conn, registered' => registered
    PROVE  Sendable \subseteq Sendable' /\ Seq(Sendable) \subseteq Seq(Sendable')
<1>1. Sendable \subseteq Sendable'
  BY DEF Sendable
<1> QED
  BY <1>1

\* Steps that leave the lock and the queues alone.
LEMMA GuardStays ==
    ASSUME Guarded, UNCHANGED <<setup, conn, registered, rlocked, wlocked, pusher, aim, high, normal, item, obeyed>>,
           registered => reader' \notin {"free", "close", "wait"},
           dispatcher' # "done" \/ dispatcher' = dispatcher,
           dispatcher' = "write" => dispatcher = "write"
    PROVE  Guarded'
<1>1. LockHeld' /\ RightRecipient'
  BY DEF Guarded, LockHeld, Holders, Task, RightRecipient
<1>2. Sendable' = Sendable
  BY DEF Sendable
<1>3. Queued'
  BY <1>2 DEF Guarded, Queued
<1> QED
  BY <1>1, <1>3 DEF Guarded

\* A pusher that is through has given back what it held.
LEMMA Released ==
    ASSUME LockHeld, pusher \in [Pushers -> {"idle", "push", "signal", "close", "stuck"}], rlocked \subseteq Pushers,
           wlocked \in Pushers \cup {"none"}, NEW p \in Pushers, Through(p), UNCHANGED <<setup, conn, aim>>,
           registered' = registered \/ Holders' = {}
    PROVE  LockHeld'
<1>1. "none" \notin Pushers
  BY Constants
<1>2. Holders' = Holders \ {p}
  BY <1>1 DEF Holders, Through
<1>3. \A q \in Pushers : q # p => pusher'[q] = pusher[q]
  BY DEF Through
<1>4. pusher'[p] = "idle" /\ p \notin rlocked' /\ wlocked' # p
  BY <1>1 DEF Through
<1>5. ASSUME NEW q \in Pushers
      PROVE  /\ pusher'[q] # "idle" => q \in Holders' /\ aim'[q] = conn'
             /\ q \in rlocked' => pusher'[q] \in {"push", "signal"}
             /\ q = wlocked' => pusher'[q] = "close" /\ (Task[q])' = "take"
  <2>1. CASE q = p
    BY <1>4, <2>1
  <2>2. CASE q # p
    <3>1. (q \in rlocked' => q \in rlocked) /\ (q = wlocked' => q = wlocked) /\ Task' = Task
      BY <1>1 DEF Through, Task
    <3> QED
      BY <1>2, <1>3, <2>2, <3>1 DEF LockHeld
  <2> QED
    BY <2>1, <2>2
<1>6. wlocked' # "none" => rlocked' = {}
  BY DEF LockHeld, Through
<1>7. Holders' # {} => registered'
  BY <1>2 DEF LockHeld
<1> QED
  BY <1>5, <1>6, <1>7 DEF LockHeld, Task

LEMMA GuardConnect == ASSUME TypeOK, Guarded, Connect PROVE Guarded'
<1>0. pusher \in [Pushers -> {"idle", "push", "signal", "close", "stuck"}] /\ "none" \notin Pushers
  BY Constants DEF TypeOK
<1>1. rlocked = {} /\ wlocked = "none"
  BY DEF Connect, CanLock
<1>2. \A p \in Pushers : pusher[p] = "idle"
  BY <1>1 DEF Guarded, LockHeld, Holders
<1>3. \A p \in Pushers : pusher'[p] = "idle"
  <2>1. PICK B \in SUBSET {p \in Pushers : HighFull /\ pusher[p] \in {"signal", "close"}} :
            pusher' = [p \in Pushers |-> IF p \in B THEN "stuck" ELSE pusher[p]]
    BY DEF Connect
  <2> QED
    BY <1>2, <2>1
<1>4. LockHeld'
  BY <1>0, <1>1, <1>3 DEF Connect, LockHeld, Holders
<1>5. Queued'
  BY DEF Connect, Queued
<1> QED
  BY <1>4, <1>5 DEF Connect, Guarded, RightRecipient

LEMMA GuardDel == ASSUME TypeOK, Guarded, BucketDel PROVE Guarded'
<1>1. /\ rlocked = {} /\ wlocked = "none" /\ registered' = FALSE
      /\ UNCHANGED <<setup, conn, rlocked, wlocked, pusher, aim, high, normal, item, obeyed, dispatcher>>
  BY DEF BucketDel, CanLock, which, queue, pushing, history
<1>2. LockHeld'
  BY <1>1 DEF Guarded, LockHeld, Holders, Task
<1>3. Queued'
  BY <1>1, SendableStays DEF Guarded, Queued
<1> QED
  BY <1>1, <1>2, <1>3 DEF Guarded, RightRecipient

\* The reader's Signal, and its Close once it has left the bucket.
LEMMA GuardSend == ASSUME TypeOK, Guarded, Signal \/ Close PROVE Guarded'
<1>1. UNCHANGED <<setup, conn, registered, rlocked, wlocked, pusher, aim, normal, item, obeyed, dispatcher>>
  BY DEF Signal, Close, which, bucket, pushing, history
<1>2. PICK x \in Items : x \in Sendable /\ high' = Append(high, x)
  <2>1. conn \in Nat
    BY DEF TypeOK
  <2>2. ASSUME Signal PROVE Ready \in Sendable /\ high' = Append(high, Ready)
    BY <2>2, ItemTypes DEF Signal, Send, Sendable
  <2>3. ASSUME Close PROVE Finish(conn) \in Sendable /\ high' = Append(high, Finish(conn))
    BY <2>1, <2>3, ItemTypes DEF Close, Send, Sendable, Guarded, Queued
  <2> QED
    BY <2>2, <2>3 DEF Sendable
<1>3. registered => reader' \notin {"free", "close", "wait"}
  BY DEF Signal, Close, Guarded, Queued
<1>4. high' \in Seq(Sendable)
  BY <1>2 DEF Guarded, Queued
<1>5. Queued'
  BY <1>1, <1>3, <1>4, SendableStays DEF Guarded, Queued
<1>6. LockHeld'
  BY <1>1 DEF Guarded, LockHeld, Holders, Task
<1> QED
  BY <1>1, <1>5, <1>6 DEF Guarded, RightRecipient

\* What is popped is for this connection.
LEMMA GuardHandle ==
    ASSUME TypeOK, Guarded, NEW x \in Sendable, Handle(x), dispatcher \in {"pop", "select"},
           high' \in Seq(Sendable), normal' \in Seq({Message(conn)}),
           UNCHANGED <<setup, conn, registered, rlocked, wlocked, pusher, aim, reader>>
    PROVE  Guarded'
<1>1. /\ x \in Items /\ x.op \in {"ready", "finish", "message"} /\ (x.op # "ready" => x.to = conn)
      /\ registered => x.op # "finish"
  BY DEF Sendable, Items
<1>2. /\ dispatcher' = "done" => x.op = "finish"
      /\ dispatcher' = "write" => x.op = "message"
      /\ item' = x
  BY <1>1 DEF Handle
<1>3. RightRecipient'
  BY <1>1 DEF Handle, Guarded, RightRecipient
<1>4. LockHeld'
  BY DEF Guarded, LockHeld, Holders, Task
<1>5. Queued'
  BY <1>1, <1>2, SendableStays DEF Guarded, Queued
<1> QED
  BY <1>3, <1>4, <1>5 DEF Guarded

LEMMA GuardPop == ASSUME TypeOK, Guarded, PopHigh \/ PopNormal PROVE Guarded'
<1>0. high \in Seq(Sendable) /\ normal \in Seq({Message(conn)}) /\ conn \in Nat
  BY DEF Guarded, Queued, TypeOK
<1>1. ASSUME PopHigh PROVE Guarded'
  <2>1. PICK x \in Sendable : x = Head(high)
    BY <1>0, <1>1 DEF PopHigh
  <2>2. high' \in Seq(Sendable) /\ normal' \in Seq({Message(conn)})
    BY <1>0, <1>1 DEF PopHigh
  <2> QED
    BY <1>1, <2>1, <2>2, GuardHandle DEF PopHigh, which, bucket, pushing
<1>2. ASSUME PopNormal PROVE Guarded'
  <2>1. Head(normal) = Message(conn)
    BY <1>0, <1>2 DEF PopNormal
  <2>2. PICK x \in Sendable : x = Head(normal)
    BY <1>0, <2>1, ItemTypes DEF Sendable
  <2>3. high' \in Seq(Sendable) /\ normal' \in Seq({Message(conn)})
    BY <1>0, <1>2 DEF PopNormal
  <2> QED
    BY <1>2, <2>2, <2>3, GuardHandle DEF PopNormal, which, bucket, pushing
<1> QED
  BY <1>1, <1>2

LEMMA GuardWrite == ASSUME TypeOK, Guarded, Write PROVE Guarded'
<1>1. /\ UNCHANGED <<setup, conn, registered, rlocked, wlocked, pusher, aim, high, normal, item, reader>>
      /\ dispatcher = "write" /\ dispatcher' = "pop"
      /\ obeyed' = obeyed \cup {<<item.to, conn>>} \/ UNCHANGED obeyed
  BY DEF Write, Failed, which, bucket, queue, pushing
<1>2. RightRecipient'
  BY <1>1 DEF Guarded, Queued, RightRecipient
<1>3. LockHeld'
  BY <1>1 DEF Guarded, LockHeld, Holders, Task
<1>4. Queued'
  BY <1>1, SendableStays DEF Guarded, Queued
<1> QED
  BY <1>2, <1>3, <1>4 DEF Guarded

LEMMA GuardLookup == ASSUME TypeOK, Locking, Guarded, NEW p \in Pushers, Lookup(p) PROVE Guarded'
<1>0. /\ pusher \in [Pushers -> {"idle", "push", "signal", "close", "stuck"}] /\ "none" \notin Pushers
      /\ aim \in [Pushers -> Nat]
  BY Constants DEF TypeOK
<1>1. /\ pusher[p] = "idle" /\ registered /\ Task[p] \in {"cast", "take"}
      /\ UNCHANGED <<setup, conn, registered, high, normal, item, reader, dispatcher, obeyed>>
  BY DEF Lookup, Locking, which, queue, history
<1>2. /\ aim' = [aim EXCEPT ![p] = conn]
      /\ pusher' = [pusher EXCEPT ![p] = IF Task[p] = "take" THEN "close" ELSE "push"]
  BY <1>1 DEF Lookup
<1>3. \A q \in Pushers : q # p => pusher'[q] = pusher[q] /\ aim'[q] = aim[q]
  BY <1>0, <1>2
<1>4. aim'[p] = conn /\ pusher'[p] = IF Task[p] = "take" THEN "close" ELSE "push"
  BY <1>0, <1>2
<1>5. Task' = Task
  BY <1>1 DEF Task
<1>6. LockHeld'
  <2>1. CASE Task[p] = "cast"
    <3>1. wlocked = "none" /\ wlocked' = "none" /\ rlocked' = rlocked \cup {p} /\ pusher'[p] = "push"
      BY <1>4, <2>1 DEF Lookup, CanRLock
    <3> QED
      BY <1>0, <1>1, <1>3, <1>4, <1>5, <3>1 DEF Guarded, LockHeld, Holders
  <2>2. CASE Task[p] = "take"
    <3>1. /\ rlocked = {} /\ wlocked = "none" /\ wlocked' = p /\ rlocked' = {} /\ pusher'[p] = "close"
      BY <1>4, <2>2 DEF Lookup, CanLock
    <3> QED
      BY <1>0, <1>1, <1>3, <1>4, <1>5, <2>2, <3>1 DEF Guarded, LockHeld, Holders
  <2> QED
    BY <1>1, <2>1, <2>2
<1>7. Queued' /\ RightRecipient'
  BY <1>1, SendableStays DEF Guarded, Queued, RightRecipient
<1> QED
  BY <1>6, <1>7 DEF Guarded

LEMMA GuardPush == ASSUME TypeOK, Guarded, NEW p \in Pushers, Push(p) PROVE Guarded'
<1>0. /\ pusher \in [Pushers -> {"idle", "push", "signal", "close", "stuck"}] /\ "none" \notin Pushers
      /\ rlocked \subseteq Pushers /\ wlocked \in Pushers \cup {"none"} /\ conn \in Nat
  BY Constants DEF TypeOK
<1>1. /\ pusher[p] = "push"
      /\ UNCHANGED <<setup, conn, registered, aim, item, reader, dispatcher, obeyed>>
  BY DEF Push, which, history
<1>2. p \in rlocked /\ aim[p] = conn
  BY <1>0, <1>1 DEF Guarded, LockHeld, Holders
<1>3. PICK x \in Sendable : x = Message(conn)
  BY <1>0, ItemTypes DEF Sendable
<1>4. high' \in Seq(Sendable) /\ normal' \in Seq({x})
  <2>1. high \in Seq(Sendable) /\ normal \in Seq({x})
    BY <1>3 DEF Guarded, Queued
  <2>2. \/ high' = Append(high, x) /\ normal' = normal
        \/ high' = high /\ normal' = Append(normal, x)
        \/ high' = high /\ normal' = normal
    BY <1>2, <1>3 DEF Push
  <2>3. Append(high, x) \in Seq(Sendable)
    BY <2>1
  <2>4. x \in {x}
    OBVIOUS
  <2>5. Append(normal, x) \in Seq({x})
    BY <2>1, <2>4
  <2> QED
    BY <2>1, <2>2, <2>3, <2>5
<1>5. Queued' /\ RightRecipient'
  BY <1>1, <1>3, <1>4, SendableStays DEF Guarded, Queued, RightRecipient
<1>6. LockHeld'
  <2>1. CASE Through(p)
    BY <1>0, <1>1, <2>1, Released DEF Guarded
  <2>2. CASE pusher' = [pusher EXCEPT ![p] = "signal"] /\ UNCHANGED <<rlocked, wlocked>>
    <3>1. pusher'[p] = "signal" /\ \A q \in Pushers : q # p => pusher'[q] = pusher[q]
      BY <1>0, <2>2
    <3>2. wlocked # p
      BY <1>1 DEF Guarded, LockHeld
    <3> QED
      BY <1>0, <1>1, <1>2, <2>2, <3>1, <3>2 DEF Guarded, LockHeld, Holders, Task
  <2> QED
    BY <2>1, <2>2 DEF Push
<1> QED
  BY <1>5, <1>6 DEF Guarded

LEMMA GuardSignal == ASSUME TypeOK, Guarded, NEW p \in Pushers, SignalPushed(p) PROVE Guarded'
<1>0. /\ pusher \in [Pushers -> {"idle", "push", "signal", "close", "stuck"}]
      /\ rlocked \subseteq Pushers /\ wlocked \in Pushers \cup {"none"}
  BY DEF TypeOK
<1>1. /\ UNCHANGED <<setup, conn, registered, aim, item, reader, dispatcher, obeyed, normal>>
      /\ Through(p) /\ high' = Append(high, Ready)
  BY DEF SignalPushed, Send, which, history
<1>2. LockHeld'
  BY <1>0, <1>1, Released DEF Guarded
<1>3. high' \in Seq(Sendable)
  <2>1. PICK x \in Sendable : x = Ready
    BY ItemTypes DEF Sendable
  <2> QED
    BY <1>1, <2>1 DEF Guarded, Queued
<1>4. Queued' /\ RightRecipient'
  BY <1>1, <1>3, SendableStays DEF Guarded, Queued, RightRecipient
<1> QED
  BY <1>2, <1>4 DEF Guarded

\* Whoever takes the key over is alone and leaves the connection unregistered.
LEMMA GuardClose == ASSUME TypeOK, Guarded, NEW p \in Pushers, CloseOther(p) PROVE Guarded'
<1>0. /\ pusher \in [Pushers -> {"idle", "push", "signal", "close", "stuck"}] /\ conn \in Nat
      /\ rlocked \subseteq Pushers /\ wlocked \in Pushers \cup {"none"} /\ "none" \notin Pushers
  BY Constants DEF TypeOK
<1>1. /\ UNCHANGED <<setup, conn, aim, item, reader, dispatcher, obeyed, normal>>
      /\ Through(p) /\ high' = Append(high, Finish(aim[p])) /\ pusher[p] = "close"
      /\ registered' = (registered /\ Task[p] # "take")
  BY DEF CloseOther, Send, which, history
<1>2. wlocked = p /\ Task[p] = "take" /\ rlocked = {} /\ aim[p] = conn
  BY <1>0, <1>1 DEF Guarded, LockHeld, Holders
<1>3. ~ registered' /\ Holders' = {}
  BY <1>1, <1>2 DEF Through, Holders
<1>4. LockHeld'
  BY <1>0, <1>1, <1>3, Released DEF Guarded
<1>5. high' \in Seq(Sendable')
  <2>1. PICK x \in Sendable' : x = Finish(conn)
    BY <1>0, <1>1, <1>3, ItemTypes DEF Sendable
  <2>2. high \in Seq(Sendable')
    BY <1>1, <1>3, SendableStays DEF Guarded, Queued
  <2> QED
    BY <1>1, <1>2, <2>1, <2>2
<1>6. Queued' /\ RightRecipient'
  BY <1>1, <1>3, <1>5 DEF Guarded, Queued, RightRecipient
<1> QED
  BY <1>4, <1>6 DEF Guarded

LEMMA LockStep == TypeOK /\ LockInv /\ [Next]_vars => LockInv'
<1> SUFFICES ASSUME TypeOK, LockInv, [Next]_vars, Locking' PROVE Guarded'
  BY DEF LockInv, Guarded
<1>0. Locking /\ Guarded
  BY SetupStays DEF Locking, Task, LockInv, Guarded
<1>1. CASE Set \/ ReadTCP \/ ReadFails \/ Disconnect
  <2>1. /\ UNCHANGED <<setup, conn, registered, rlocked, wlocked, pusher, aim, high, normal, item, obeyed, dispatcher>>
        /\ reader' \notin {"free", "close", "wait"} \/ reader = "wait"
    BY <1>1 DEF Set, ReadTCP, ReadFails, Disconnect, which, bucket, queue, pushing, history
  <2>2. registered => reader' \notin {"free", "close", "wait"}
    BY <1>0, <2>1 DEF Guarded, Queued
  <2> QED
    BY <1>0, <2>1, <2>2, GuardStays
<1>2. CASE PopBlocks \/ Get \/ Reply \/ GetAdv \/ ConnDies \/ UNCHANGED vars
  <2>1. /\ UNCHANGED <<setup, conn, registered, rlocked, wlocked, pusher, aim, high, normal, obeyed, reader>>
        /\ dispatcher' \notin {"done", "write"} \/ UNCHANGED dispatcher
        /\ UNCHANGED item
    BY <1>2 DEF PopBlocks, Get, Reply, GetAdv, ConnDies, Failed, vars, which, bucket, queue, pushing, history
  <2>2. registered => reader' \notin {"free", "close", "wait"}
    BY <1>0, <2>1 DEF Guarded, Queued
  <2> QED
    BY <1>0, <2>1, <2>2, GuardStays
<1> QED
  BY <1>0, <1>1, <1>2, GuardConnect, GuardDel, GuardSend, GuardPop, GuardWrite, GuardLookup, GuardPush,
     GuardSignal, GuardClose DEF Next, ReaderStep, DispatcherStep, PusherStep

-----------------------------------------------------------------------------
LEMMA Initially == Init => IInv
<1> SUFFICES ASSUME Init PROVE IInv
  OBVIOUS
<1>1. TypeOK
  BY TypeInit
<1>2. RingInv
  <2>1. Len(frames) = 0 /\ Len(replied) = 0 /\ Advanced = 0 /\ dispatcher = "done"
    BY DEF Init, Advanced
  <2>2. 0 % WordSize = 0 /\ Size \in Nat
    BY ZeroWord, Constants
  <2>3. Lagging
    <3>1. 0 \in 0 .. 0
      OBVIOUS
    <3> QED
      BY <2>1, <2>2, <3>1 DEF Init, Lagging
  <2> QED
    BY <2>1, <2>2, <2>3 DEF Init, RingInv, Counters, Kept, InOrder
<1>3. LockHeld
  BY Constants DEF Init, LockHeld, Holders
<1>4. Queued /\ RightRecipient
  BY DEF Init, Queued, RightRecipient
<1> QED
  BY <1>1, <1>2, <1>3, <1>4 DEF IInv, LockInv

\* The inductive invariant of the connection.
THEOREM Invariance == Spec => []IInv
<1>1. IInv /\ [Next]_vars => IInv'
  BY TypeStep, RingStep, LockStep DEF IInv
<1> QED
  BY Initially, <1>1, PTL DEF Spec

\* The ring, the queues and the goroutines of a connection keep their types;
\* no queue exceeds its capacity.
THEOREM Typed == Spec => []TypeOK
<1>1. IInv => TypeOK
  BY DEF IInv
<1> QED
  BY Invariance, <1>1, PTL

\* For any size of the ring and of the word that counts (ring.go), every
\* frame put into the ring is written back at most once and in order: no slot
\* is reused before the dispatcher has written it, although Set reads rp
\* without synchronisation and the counters wrap around.
THEOREM RepliesInOrder == Spec => []InOrder
<1>1. IInv => InOrder
  BY DEF IInv, RingInv
<1> QED
  BY Invariance, <1>1, PTL

\* As long as whoever sends to the connection keeps cLock meanwhile, as
\* Bucket.Put and Bucket.Broadcast do (bucket.go), messages and closes reach
\* the connection they were meant for, for any queues and however often the
\* Channel object is reused.
THEOREM LockedRecipient == Spec => [](Locking => RightRecipient)
<1>1. IInv => (Locking => RightRecipient)
  BY DEF IInv, LockInv
<1> QED
  BY Invariance, <1>1, PTL

\* And then nobody holds cLock waiting for a dispatcher that has left.
THEOREM LockedBucket == Spec => [](Locking => BucketNotStuck)
<1>1. IInv => (Locking => BucketNotStuck)
  BY DEF IInv, LockInv, LockHeld, Queued, Holders, BucketNotStuck
<1> QED
  BY Invariance, <1>1, PTL

-----------------------------------------------------------------------------
(* The bucket *)

\* What holds of a Channel at each place of its goroutine.
Phase(c) ==
    /\ pc[c] \in {"up", "del"} => in[c] = room[c]
    /\ pc[c] \notin {"up", "del"} => in[c] = 0
    /\ pc[c] = "enter" \/ after[c] = "enter" => ~LastLeaves

\* The lists: each Channel that is in a room is between its neighbours.
Linked ==
    /\ \A c \in Channels : in[c] = 0 => next[c] = Nil /\ prev[c] = Nil
    /\ \A c \in Channels : next[c] # Nil => in[next[c]] = in[c] /\ prev[next[c]] = c
    /\ \A c \in Channels : prev[c] # Nil => in[prev[c]] = in[c] /\ next[prev[c]] = c
    /\ \A c \in Channels : in[c] # 0 /\ prev[c] = Nil => head[in[c]] = c
    /\ \A o \in Rooms : head[o] # Nil => in[head[o]] = o /\ prev[head[o]] = Nil

\* No list runs in a circle: its Channels can be numbered in its order.
Ordered == \E rank \in [Channels -> Nat] : \A c \in Channels : next[c] # Nil => rank[c] < rank[next[c]]

Counted == \A o \in Rooms : online[o] = Cardinality(Joined(o))

\* Served: connected and not on its way out.
Live(c) == pc[c] \notin {"free", "gone"} /\ after[c] # "gone"
Found == \A c \in Channels : Live(c) /\ c \notin closed => chs[key[c]] = c

\* A room may lose its last member, or members may move between rooms, not
\* both: a ChangeRoom into a room that is dropped meanwhile leaves ch.Room at
\* the room that was left.
Orderly == LastLeaves => Targets \subseteq {None}

\* While no room loses its last member.
Company == \A c \in Channels : pc[c] = "del" => \E d \in Channels : pc[d] = "up" /\ in[d] = room[c]
Undropped == /\ \A o \in Rooms : ~drop[o]
             /\ \A c \in Channels : pc[c] \notin {"delroom", "close"}
Named == \A o \in 1 .. made : name[o] \in RoomIDs /\ rooms[name[o]] = o
Registered == \A k \in Keys : chs[k] # Nil => key[chs[k]] = k /\ Live(chs[k])

Seated == (\A c \in Channels : Phase(c)) /\ Linked /\ Ordered /\ Counted

BucketInv ==
    /\ BucketTypeOK /\ Found
    /\ Orderly => Seated
    /\ ~LastLeaves => Company /\ Undropped /\ Named /\ Registered

-----------------------------------------------------------------------------
(* Constants *)

LEMMA ClientFacts ==
    ASSUME clients \in Clients
    PROVE  /\ None \notin Keys /\ None \notin RoomIDs /\ MaxRooms \in Nat /\ Targets \subseteq RoomIDs \cup {None}
           /\ LastLeaves \in BOOLEAN
           /\ IsFiniteSet(Channels) /\ Nil \notin Channels /\ None \notin IPs
BY BucketAssumption DEF Keys, RoomIDs, MaxRooms, Targets, LastLeaves

\* Who the clients are stays as it was chosen.
LEMMA ClientsStay ==
    ASSUME clients' = clients
    PROVE  /\ Keys' = Keys /\ RoomIDs' = RoomIDs /\ MaxRooms' = MaxRooms /\ Rooms' = Rooms
           /\ Targets' = Targets /\ LastLeaves' = LastLeaves /\ SharedKeys' = SharedKeys /\ Orderly' = Orderly
BY DEF Keys, RoomIDs, MaxRooms, Rooms, Targets, LastLeaves, SharedKeys, Orderly

-----------------------------------------------------------------------------
(* Lists *)

\* Room.Put keeps the lists.
LEMMA PutLinks ==
    ASSUME BucketTypeOK, Linked, NEW c \in Channels, NEW o \in Rooms, in[c] = 0, RoomPut(c, o), clients' = clients
    PROVE  Linked'
<1>1. Nil \notin Channels /\ Rooms' = Rooms /\ 0 \notin Rooms
  BY ClientFacts, ClientsStay DEF BucketTypeOK, Rooms
<1>2. /\ next \in [Channels -> Channels \cup {Nil}] /\ prev \in [Channels -> Channels \cup {Nil}]
      /\ head \in [Rooms -> Channels \cup {Nil}] /\ DOMAIN in = Channels
  BY DEF BucketTypeOK
<1>3. /\ prev' = [d \in Channels |-> IF d = head[o] THEN c ELSE IF d = c THEN Nil ELSE prev[d]]
      /\ next' = [next EXCEPT ![c] = head[o]] /\ head' = [head EXCEPT ![o] = c] /\ in' = [in EXCEPT ![c] = o]
  BY DEF RoomPut
<1>4. head[o] # c
  BY <1>1 DEF Linked
<1>5. \A d \in Channels : next[d] # c /\ prev[d] # c
  BY <1>1 DEF Linked
<1>6. \A d \in Channels : in'[d] = 0 => next'[d] = Nil /\ prev'[d] = Nil
  BY <1>1, <1>2, <1>3 DEF Linked
<1>7. ASSUME NEW d \in Channels, next'[d] # Nil PROVE in'[next'[d]] = in'[d] /\ prev'[next'[d]] = d
  <2>1. CASE d = c
    BY <1>1, <1>2, <1>3, <1>4, <1>7, <2>1 DEF Linked
  <2>2. CASE d # c
    <3>1. next'[d] = next[d] /\ next[d] \in Channels /\ next[d] # c /\ in'[d] = in[d] /\ in'[next[d]] = in[next[d]]
      BY <1>2, <1>3, <1>5, <1>7, <2>2
    <3>2. next[d] # head[o]
      BY <1>1, <1>7, <3>1 DEF Linked
    <3> QED
      BY <1>3, <1>7, <3>1, <3>2 DEF Linked
  <2> QED
    BY <2>1, <2>2
<1>8. \A d \in Channels : prev'[d] # Nil => in'[prev'[d]] = in'[d] /\ next'[prev'[d]] = d
  BY <1>1, <1>2, <1>3, <1>4, <1>5 DEF Linked
<1>9. \A d \in Channels : in'[d] # 0 /\ prev'[d] = Nil => head'[in'[d]] = d
  BY <1>1, <1>2, <1>3, <1>4 DEF Linked
<1>10. \A x \in Rooms : head'[x] # Nil => in'[head'[x]] = x /\ prev'[head'[x]] = Nil
  BY <1>1, <1>2, <1>3, <1>4, <1>5 DEF Linked
<1> QED
  BY <1>1, <1>6, <1>7, <1>8, <1>9, <1>10 DEF Linked

LEMMA PutOrders ==
    ASSUME BucketTypeOK, Linked, Ordered, NEW c \in Channels, NEW o \in Rooms, in[c] = 0, RoomPut(c, o)
    PROVE  Ordered'
<1>1. Nil \notin Channels /\ 0 \notin Rooms
  BY ClientFacts DEF BucketTypeOK, Rooms
<1>2. next \in [Channels -> Channels \cup {Nil}] /\ head[o] \in Channels \cup {Nil} /\ next' = [next EXCEPT ![c] = head[o]]
  BY DEF BucketTypeOK, RoomPut
<1>3. PICK rank \in [Channels -> Nat] : \A d \in Channels : next[d] # Nil => rank[d] < rank[next[d]]
  BY DEF Ordered
<1>4. head[o] # c /\ \A d \in Channels : next[d] # c
  BY <1>1 DEF Linked
<1> DEFINE new == [d \in Channels |-> IF d = c THEN 0 ELSE rank[d] + 1]
<1>5. new \in [Channels -> Nat]
  OBVIOUS
<1>6. ASSUME NEW d \in Channels, next'[d] # Nil PROVE new[d] < new[next'[d]]
  <2>1. CASE d = c
    BY <1>1, <1>2, <1>4, <1>6, <2>1
  <2>2. CASE d # c
    <3>1. next'[d] = next[d] /\ next[d] \in Channels /\ next[d] # c
      BY <1>2, <1>4, <1>6, <2>2
    <3>2. rank[d] \in Nat /\ rank[next[d]] \in Nat /\ rank[d] < rank[next[d]]
      BY <1>3, <1>6, <3>1
    <3> QED
      BY <2>2, <3>1, <3>2
  <2> QED
    BY <2>1, <2>2
<1> QED
  BY <1>5, <1>6 DEF Ordered

\* Room.Del keeps the lists.
LEMMA DelLinks ==
    ASSUME BucketTypeOK, Linked, Ordered, NEW c \in Channels, NEW o \in Rooms, in[c] = o, RoomDel(c, o), clients' = clients
    PROVE  Linked'
<1>1. Nil \notin Channels /\ Rooms' = Rooms /\ 0 \notin Rooms
  BY ClientFacts, ClientsStay DEF BucketTypeOK, Rooms
<1>2. /\ next \in [Channels -> Channels \cup {Nil}] /\ prev \in [Channels -> Channels \cup {Nil}]
      /\ head \in [Rooms -> Channels \cup {Nil}] /\ DOMAIN in = Channels
  BY DEF BucketTypeOK
<1>3. /\ prev' = [d \in Channels |-> IF d = c THEN Nil ELSE IF d = next[c] THEN prev[c] ELSE prev[d]]
      /\ next' = [d \in Channels |-> IF d = c THEN Nil ELSE IF d = prev[c] THEN next[c] ELSE next[d]]
      /\ head' = (IF prev[c] = Nil THEN [head EXCEPT ![o] = next[c]] ELSE head) /\ in' = [in EXCEPT ![c] = 0]
  BY DEF RoomDel
<1>4. \A d \in Channels : (next[d] = c <=> d = prev[c]) /\ (prev[d] = c <=> d = next[c])
  BY <1>1, <1>2 DEF Linked
<1>5. \A d \in Channels : in[d] = o => (head[o] = d <=> prev[d] = Nil)
  BY <1>1, <1>2 DEF Linked
<1>6. \A d \in Channels : in'[d] = 0 => next'[d] = Nil /\ prev'[d] = Nil
  <2>1. prev[c] # Nil => in[prev[c]] = o
    BY <1>1 DEF Linked
  <2>2. next[c] # Nil => in[next[c]] = o
    BY <1>1 DEF Linked
  <2> QED
    BY <1>1, <1>2, <1>3, <2>1, <2>2 DEF Linked
<1>7. next[c] # c /\ prev[c] # c
  <2>1. PICK rank \in [Channels -> Nat] : \A d \in Channels : next[d] # Nil => rank[d] < rank[next[d]]
    BY DEF Ordered
  <2>2. next[c] # c
    BY <1>1, <2>1
  <2> QED
    BY <1>4, <2>2
<1>8. \A d \in Channels : next'[d] # Nil => in'[next'[d]] = in'[d] /\ prev'[next'[d]] = d
  BY <1>1, <1>2, <1>3, <1>4, <1>7 DEF Linked
<1>9. \A d \in Channels : prev'[d] # Nil => in'[prev'[d]] = in'[d] /\ next'[prev'[d]] = d
  BY <1>1, <1>2, <1>3, <1>4, <1>7 DEF Linked
<1>10. \A d \in Channels : in'[d] # 0 /\ prev'[d] = Nil => head'[in'[d]] = d
  BY <1>1, <1>2, <1>3, <1>4, <1>5, <1>7 DEF Linked
<1>11. \A x \in Rooms : head'[x] # Nil => in'[head'[x]] = x /\ prev'[head'[x]] = Nil
  BY <1>1, <1>2, <1>3, <1>4, <1>5, <1>7 DEF Linked
<1> QED
  BY <1>1, <1>6, <1>8, <1>9, <1>10, <1>11 DEF Linked

LEMMA DelOrders ==
    ASSUME BucketTypeOK, Linked, Ordered, NEW c \in Channels, NEW o, RoomDel(c, o)
    PROVE  Ordered'
<1>1. Nil \notin Channels
  BY ClientFacts DEF BucketTypeOK
<1>2. /\ next \in [Channels -> Channels \cup {Nil}]
      /\ next' = [d \in Channels |-> IF d = c THEN Nil ELSE IF d = prev[c] THEN next[c] ELSE next[d]]
  BY DEF BucketTypeOK, RoomDel
<1>3. PICK rank \in [Channels -> Nat] : \A d \in Channels : next[d] # Nil => rank[d] < rank[next[d]]
  BY DEF Ordered
<1>4. ASSUME NEW d \in Channels, next'[d] # Nil PROVE rank[d] < rank[next'[d]]
  <2>1. CASE d = prev[c]
    <3>1. next[d] = c /\ next'[d] = next[c] /\ next[c] \in Channels
      BY <1>1, <1>2, <1>4, <2>1 DEF Linked
    <3>2. rank[d] < rank[c] /\ rank[c] < rank[next[c]] /\ rank[d] \in Nat /\ rank[c] \in Nat /\ rank[next[c]] \in Nat
      BY <1>1, <1>3, <3>1
    <3> QED
      BY <3>1, <3>2
  <2>2. CASE d # prev[c]
    BY <1>2, <1>3, <1>4, <2>2
  <2> QED
    BY <2>1, <2>2
<1> QED
  BY <1>3, <1>4 DEF Ordered

\* Room.Online counts.
LEMMA PutCounts ==
    ASSUME BucketTypeOK, Counted, NEW c \in Channels, NEW o \in Rooms, in[c] = 0, RoomPut(c, o), clients' = clients
    PROVE  Counted'
<1>1. IsFiniteSet(Channels) /\ Rooms' = Rooms /\ 0 \notin Rooms
  BY ClientFacts, ClientsStay DEF BucketTypeOK, Rooms
<1>2. /\ online \in [Rooms -> Int] /\ DOMAIN in = Channels
      /\ online' = [online EXCEPT ![o] = @ + 1] /\ in' = [in EXCEPT ![c] = o]
  BY DEF BucketTypeOK, RoomPut
<1>3. ASSUME NEW x \in Rooms PROVE online'[x] = Cardinality(Joined(x)')
  <2>1. CASE x = o
    <3>1. Joined(x)' = Joined(o) \cup {c} /\ c \notin Joined(o) /\ IsFiniteSet(Joined(o))
      BY <1>1, <1>2, <2>1, FS_Subset DEF Joined
    <3>2. Cardinality(Joined(o) \cup {c}) = Cardinality(Joined(o)) + 1
      BY <3>1, FS_AddElement
    <3> QED
      BY <1>2, <2>1, <3>1, <3>2 DEF Counted
  <2>2. CASE x # o
    <3>1. Joined(x)' = Joined(x)
      BY <1>1, <1>2, <2>2 DEF Joined
    <3> QED
      BY <1>2, <2>2, <3>1 DEF Counted
  <2> QED
    BY <2>1, <2>2
<1> QED
  BY <1>1, <1>3 DEF Counted

LEMMA DelCounts ==
    ASSUME BucketTypeOK, Counted, NEW c \in Channels, NEW o \in Rooms, in[c] = o, RoomDel(c, o), clients' = clients
    PROVE  /\ Counted'
           /\ \A d \in Channels \ {c} : in[d] = o => online[o] - 1 # 0
<1>1. IsFiniteSet(Channels) /\ Rooms' = Rooms /\ 0 \notin Rooms
  BY ClientFacts, ClientsStay DEF BucketTypeOK, Rooms
<1>2. /\ online \in [Rooms -> Int] /\ DOMAIN in = Channels
      /\ online' = [online EXCEPT ![o] = @ - 1] /\ in' = [in EXCEPT ![c] = 0]
  BY DEF BucketTypeOK, RoomDel
<1>3. Joined(o)' = Joined(o) \ {c} /\ c \in Joined(o) /\ IsFiniteSet(Joined(o))
  BY <1>1, <1>2, FS_Subset DEF Joined
<1>4. IsFiniteSet(Joined(o) \ {c}) /\ Cardinality(Joined(o) \ {c}) = Cardinality(Joined(o)) - 1
  BY <1>3, FS_RemoveElement
<1>5. ASSUME NEW x \in Rooms PROVE online'[x] = Cardinality(Joined(x)')
  <2>1. CASE x = o
    BY <1>2, <1>3, <1>4, <2>1 DEF Counted
  <2>2. CASE x # o
    <3>1. Joined(x)' = Joined(x)
      BY <1>1, <1>2, <2>2 DEF Joined
    <3> QED
      BY <1>2, <2>2, <3>1 DEF Counted
  <2> QED
    BY <2>1, <2>2
<1>6. ASSUME NEW d \in Channels \ {c}, in[d] = o PROVE online[o] - 1 # 0
  <2>1. Joined(o) \ {c} # {}
    BY <1>6 DEF Joined
  <2>2. Cardinality(Joined(o) \ {c}) # 0
    BY <1>4, <2>1, FS_EmptySet
  <2> QED
    BY <1>4, <2>2 DEF Counted
<1> QED
  BY <1>1, <1>5, <1>6 DEF Counted

\* A set of natural numbers has a least one.
LEMMA Least == ASSUME NEW T \in SUBSET Nat, T # {} PROVE \E x \in T : \A y \in T : x <= y
<1>1. PICK R : R = OpToRel(<, Nat)
  OBVIOUS
<1>2. IsWellFoundedOn(R, Nat)
  BY <1>1, NatLessThanWellFounded, Zenon
<1>3. PICK x \in T : \A y \in T : ~ (<<y, x>> \in R)
  BY <1>2, WFMin
<1>4. R = {ss \in Nat \X Nat : ss[1] < ss[2]}
  BY <1>1 DEF OpToRel
<1>5. \A y \in T : <<y, x>> \in R <=> y < x
  BY <1>4
<1>6. \A y \in T : ~ (y < x)
  BY <1>3, <1>5
<1>7. x \in Nat /\ \A y \in T : y \in Nat
  OBVIOUS
<1>8. \A y \in T : x <= y
  BY <1>6, <1>7
<1> QED
  BY <1>8

\* A walk along a list visits who is in the room: of those it misses there is
\* a first one, and it is neither the head nor behind another one.
LEMMA WalkVisits ==
    ASSUME BucketTypeOK, Linked, Ordered, NEW o \in Rooms
    PROVE  Members(o) = Joined(o)
<1>1. Nil \notin Channels /\ 0 \notin Rooms
  BY ClientFacts DEF BucketTypeOK, Rooms
<1>2. /\ next \in [Channels -> Channels \cup {Nil}] /\ prev \in [Channels -> Channels \cup {Nil}]
      /\ head[o] \in Channels \cup {Nil}
  BY DEF BucketTypeOK
<1>3. Members(o) \subseteq Joined(o)
  <2>1. Joined(o) \in SUBSET Channels /\ Closed(Joined(o), o)
    BY <1>1, <1>2 DEF Joined, Closed, Linked
  <2> QED
    BY <2>1 DEF Members
<1>4. ASSUME NEW S \in SUBSET Channels, Closed(S, o) PROVE Joined(o) \subseteq S
  <2>1. PICK rank \in [Channels -> Nat] : \A d \in Channels : next[d] # Nil => rank[d] < rank[next[d]]
    BY DEF Ordered
  <2> DEFINE Missed == {rank[d] : d \in Joined(o) \ S}
  <2>2. Missed \in SUBSET Nat
    BY DEF Joined
  <2>3. SUFFICES ASSUME Missed # {} PROVE FALSE
    OBVIOUS
  <2>4. PICK least \in Missed : \A y \in Missed : least <= y
    BY <2>2, <2>3, Least
  <2>5. PICK d \in Joined(o) \ S : rank[d] = least
    BY <2>4
  <2>6. d \in Channels /\ in[d] = o
    BY <2>5 DEF Joined
  <2>7. CASE prev[d] = Nil
    <3>1. head[o] = d
      BY <1>1, <2>6, <2>7 DEF Linked
    <3> QED
      BY <1>1, <1>4, <2>5, <2>6, <3>1 DEF Closed
  <2>8. CASE prev[d] # Nil
    <3>1. prev[d] \in Channels /\ in[prev[d]] = o /\ next[prev[d]] = d
      BY <1>1, <1>2, <2>6, <2>8 DEF Linked
    <3>2. prev[d] \notin S
      BY <1>1, <1>4, <2>5, <2>6, <3>1 DEF Closed
    <3>3. rank[prev[d]] \in Missed
      BY <3>1, <3>2 DEF Joined
    <3>4. rank[prev[d]] < rank[d] /\ rank[d] \in Nat /\ rank[prev[d]] \in Nat
      BY <1>1, <2>1, <2>6, <3>1
    <3>5. least <= rank[prev[d]]
      BY <2>4, <3>3
    <3> QED
      BY <2>5, <3>4, <3>5
  <2> QED
    BY <2>7, <2>8
<1>5. Joined(o) \subseteq Members(o)
  BY <1>4 DEF Members, Joined
<1> QED
  BY <1>3, <1>5

-----------------------------------------------------------------------------
(* The registry *)

\* The room that is found or created.
LEMMA RoomForTypes ==
    ASSUME BucketTypeOK, NEW n \in RoomIDs, NEW o \in Rooms, RoomFor(n, o)
    PROVE  /\ made' \in made .. MaxRooms /\ o \in 1 .. made'
           /\ rooms' \in [RoomIDs -> 0 .. made'] /\ name' \in [Rooms -> RoomIDs \cup {None}]
<1>1. /\ made \in 0 .. MaxRooms /\ MaxRooms \in Nat /\ rooms \in [RoomIDs -> 0 .. made]
      /\ name \in [Rooms -> RoomIDs \cup {None}]
  BY ClientFacts DEF BucketTypeOK
<1>2. CASE rooms[n] # 0
  <2>1. o = rooms[n] /\ rooms' = rooms /\ made' = made /\ name' = name
    BY <1>2 DEF RoomFor
  <2>2. rooms[n] \in 0 .. made
    BY <1>1
  <2> QED
    BY <1>1, <1>2, <2>1, <2>2
<1>3. CASE rooms[n] = 0
  <2>1. /\ made < MaxRooms /\ o = made + 1 /\ made' = o
        /\ name' = [name EXCEPT ![o] = n] /\ rooms' = [rooms EXCEPT ![n] = o]
    BY <1>3 DEF RoomFor
  <2>2. made' \in made .. MaxRooms /\ o \in 1 .. made' /\ 0 .. made \subseteq 0 .. made' /\ o \in 0 .. made'
    BY <1>1, <2>1
  <2>3. rooms' \in [RoomIDs -> 0 .. made']
    BY <1>1, <2>1, <2>2
  <2>4. name' \in [Rooms -> RoomIDs \cup {None}]
    BY <1>1, <2>1
  <2> QED
    BY <2>2, <2>3, <2>4
<1> QED
  BY <1>2, <1>3

\* What Room.Put and Room.Del make of the fields.
LEMMA RoomTypes ==
    ASSUME BucketTypeOK, NEW c \in Channels, NEW o \in 1 .. made, RoomPut(c, o) \/ RoomDel(c, o)
    PROVE  /\ next' \in [Channels -> Channels \cup {Nil}] /\ prev' \in [Channels -> Channels \cup {Nil}]
           /\ head' \in [Rooms -> Channels \cup {Nil}] /\ online' \in [Rooms -> Int]
           /\ in' \in [Channels -> 0 .. made]
<1>1. /\ next \in [Channels -> Channels \cup {Nil}] /\ prev \in [Channels -> Channels \cup {Nil}]
      /\ head \in [Rooms -> Channels \cup {Nil}] /\ online \in [Rooms -> Int] /\ in \in [Channels -> 0 .. made]
      /\ made \in 0 .. MaxRooms /\ MaxRooms \in Nat
  BY ClientFacts DEF BucketTypeOK
<1>2. o \in Rooms /\ o \in 0 .. made /\ 0 \in 0 .. made
  BY <1>1 DEF Rooms
<1>3. CASE RoomPut(c, o)
  BY <1>1, <1>2, <1>3 DEF RoomPut
<1>4. CASE RoomDel(c, o)
  BY <1>1, <1>2, <1>4 DEF RoomDel
<1> QED
  BY <1>3, <1>4

LEMMA BucketTypes ==
    ASSUME BucketTypeOK, [BucketNext]_bucketVars
    PROVE  BucketTypeOK'
<1>0. /\ clients \in Clients
      /\ chs \in [Keys -> Channels \cup {Nil}] /\ rooms \in [RoomIDs -> 0 .. made] /\ ipCnts \in [IPs -> Nat]
      /\ key \in [Channels -> Keys \cup {None}] /\ ip \in [Channels -> IPs \cup {None}]
      /\ room \in [Channels -> 0 .. made] /\ target \in [Channels -> 0 .. made] /\ in \in [Channels -> 0 .. made]
      /\ next \in [Channels -> Channels \cup {Nil}] /\ prev \in [Channels -> Channels \cup {Nil}]
      /\ closed \subseteq Channels
      /\ made \in 0 .. MaxRooms /\ name \in [Rooms -> RoomIDs \cup {None}]
      /\ head \in [Rooms -> Channels \cup {Nil}] /\ online \in [Rooms -> Int] /\ drop \in [Rooms -> BOOLEAN]
      /\ pc \in [Channels -> Positions] /\ after \in [Channels -> {"none", "leave", "enter", "gone"}]
      /\ \A c \in Channels : Placed(c)
      /\ MaxRooms \in Nat /\ Rooms = 1 .. MaxRooms
  BY ClientFacts DEF BucketTypeOK, Rooms
<1>a. ASSUME clients' = clients
      PROVE  Keys' = Keys /\ RoomIDs' = RoomIDs /\ MaxRooms' = MaxRooms /\ Rooms' = Rooms
  BY <1>a, ClientsStay
<1>1. ASSUME NEW c \in Channels, NEW k \in Keys, NEW i \in IPs, NEW n \in RoomIDs \cup {None}, Put(c, k, i, n)
      PROVE  BucketTypeOK'
  <2>1. /\ clients' = clients /\ chs' = [chs EXCEPT ![k] = c] /\ closed' = (closed \ {c}) \cup ({chs[k]} \ {Nil})
        /\ key' = [key EXCEPT ![c] = k] /\ ip' = [ip EXCEPT ![c] = i] /\ ipCnts' = [ipCnts EXCEPT ![i] = @ + 1]
        /\ UNCHANGED <<next, prev, head, online, drop, target, after, in>> /\ pc[c] = "free"
    BY <1>1 DEF Put
  <2>2. /\ chs' \in [Keys -> Channels \cup {Nil}] /\ closed' \subseteq Channels /\ key' \in [Channels -> Keys \cup {None}]
        /\ ip' \in [Channels -> IPs \cup {None}] /\ ipCnts' \in [IPs -> Nat]
    BY <1>0, <2>1
  <2>3. /\ made' \in made .. MaxRooms /\ rooms' \in [RoomIDs -> 0 .. made'] /\ name' \in [Rooms -> RoomIDs \cup {None}]
        /\ room' \in [Channels -> 0 .. made'] /\ pc' \in [Channels -> Positions]
        /\ pc' = [pc EXCEPT ![c] = IF n = None THEN "up" ELSE "join"]
        /\ (n # None => room'[c] # 0) /\ \A d \in Channels \ {c} : room'[d] = room[d]
    <3>1. CASE n = None
      <4>1. room' = [room EXCEPT ![c] = 0] /\ pc' = [pc EXCEPT ![c] = "up"] /\ UNCHANGED <<rooms, made, name>>
        BY <1>1, <3>1 DEF Put
      <4> QED
        BY <1>0, <3>1, <4>1 DEF Positions
    <3>2. CASE n # None
      <4>1. PICK o \in Rooms : RoomFor(n, o) /\ room' = [room EXCEPT ![c] = o]
        BY <1>1, <3>2 DEF Put
      <4>2. /\ made' \in made .. MaxRooms /\ o \in 1 .. made'
            /\ rooms' \in [RoomIDs -> 0 .. made'] /\ name' \in [Rooms -> RoomIDs \cup {None}]
        BY <3>2, <4>1, RoomForTypes
      <4>3. 0 .. made \subseteq 0 .. made' /\ o \in 0 .. made'
        BY <1>0, <4>2
      <4>4. room' \in [Channels -> 0 .. made']
        BY <1>0, <4>1, <4>3
      <4>6. room'[c] # 0 /\ \A d \in Channels \ {c} : room'[d] = room[d]
        BY <1>0, <4>1, <4>2
      <4>5. pc' = [pc EXCEPT ![c] = "join"] /\ pc' \in [Channels -> Positions]
        BY <1>0, <1>1, <3>2 DEF Put, Positions
      <4> QED
        BY <3>2, <4>2, <4>4, <4>5, <4>6
    <3> QED
      BY <3>1, <3>2
  <2>4. \A d \in Channels : Placed(d)'
    BY <1>0, <1>a, <2>1, <2>3 DEF Leaving, Placed
  <2>5. made' \in 0 .. MaxRooms /\ target \in [Channels -> 0 .. made'] /\ in \in [Channels -> 0 .. made']
    <3>1. 0 .. made \subseteq 0 .. made' /\ made' \in 0 .. MaxRooms
      BY <1>0, <2>3
    <3> QED
      BY <1>0, <3>1
  <2> QED
    BY <1>0, <1>a, <2>1, <2>2, <2>3, <2>4, <2>5 DEF BucketTypeOK
<1>2. ASSUME NEW c \in Channels, Join(c)
      PROVE  BucketTypeOK'
  <2>0. /\ clients' = clients /\ pc[c] = "join"
        /\ UNCHANGED <<chs, rooms, ipCnts, made, name, drop, target, after>>
    BY <1>2 DEF Join, maps
  <2>1. CASE ~drop[room[c]] /\ RoomPut(c, room[c]) /\ pc' = [pc EXCEPT ![c] = "up"] /\ UNCHANGED <<key, ip, room, closed>>
    <3>1. room[c] \in 1 .. made
      BY <1>0, <2>0 DEF Placed
    <3>2. /\ next' \in [Channels -> Channels \cup {Nil}] /\ prev' \in [Channels -> Channels \cup {Nil}]
          /\ head' \in [Rooms -> Channels \cup {Nil}] /\ online' \in [Rooms -> Int]
          /\ in' \in [Channels -> 0 .. made]
      BY <2>1, <3>1, RoomTypes
    <3>3. pc' \in [Channels -> Positions] /\ \A d \in Channels : Placed(d)'
      BY <1>0, <1>a, <2>0, <2>1 DEF Positions, Leaving, Placed
    <3> QED
      BY <1>0, <1>a, <2>0, <2>1, <3>2, <3>3 DEF BucketTypeOK
  <2>2. CASE Recycle(c) /\ UNCHANGED <<head, online, in>>
    BY <1>0, <1>a, <2>0, <2>2 DEF Recycle, Positions, Leaving, Placed, BucketTypeOK
  <2> QED
    BY <1>2, <2>1, <2>2 DEF Join
<1>3. ASSUME NEW c \in Channels, Gone(c)
      PROVE  BucketTypeOK'
  BY <1>0, <1>a, <1>3 DEF Gone, Recycle, maps, objects, Positions, Leaving, Placed, BucketTypeOK
<1>4. ASSUME NEW c \in Channels, NEW n \in Targets, ChangeRoom(c, n)
      PROVE  BucketTypeOK'
  <2>0. /\ clients' = clients /\ pc[c] = "up" /\ pc' = [pc EXCEPT ![c] = IF room[c] # 0 THEN "del" ELSE "enter"]
        /\ UNCHANGED <<chs, ipCnts, key, ip, room, next, prev, closed, head, online, drop, in>>
        /\ n \in RoomIDs \cup {None}
    BY <1>0, <1>4, ClientFacts DEF ChangeRoom, fields
  <2>1. /\ made' \in made .. MaxRooms /\ rooms' \in [RoomIDs -> 0 .. made'] /\ name' \in [Rooms -> RoomIDs \cup {None}]
        /\ target' \in [Channels -> 0 .. made']
        /\ after' \in [Channels -> {"none", "leave", "enter", "gone"}]
        /\ \E v \in {"none", "leave", "enter"} :
             after' = [after EXCEPT ![c] = v] /\ (v = "none" <=> room[c] = 0) /\ (v # "leave" => target'[c] # 0)
        /\ \A d \in Channels \ {c} : target'[d] = target[d]
    <3>1. CASE n = None
      <4>1. room[c] # 0 /\ after' = [after EXCEPT ![c] = "leave"] /\ UNCHANGED <<rooms, made, name, target>>
        BY <1>4, <3>1 DEF ChangeRoom
      <4> QED
        BY <1>0, <4>1
    <3>2. CASE n # None
      <4>1. PICK o \in Rooms : RoomFor(n, o) /\ target' = [target EXCEPT ![c] = o]
        BY <1>4, <3>2 DEF ChangeRoom
      <4>2. /\ made' \in made .. MaxRooms /\ o \in 1 .. made'
            /\ rooms' \in [RoomIDs -> 0 .. made'] /\ name' \in [Rooms -> RoomIDs \cup {None}]
        BY <2>0, <3>2, <4>1, RoomForTypes
      <4>3. 0 .. made \subseteq 0 .. made' /\ o \in 0 .. made'
        BY <1>0, <4>2
      <4>4. target' \in [Channels -> 0 .. made']
        BY <1>0, <4>1, <4>3
      <4>5. after' = [after EXCEPT ![c] = IF room[c] # 0 THEN "enter" ELSE "none"]
        BY <1>4, <3>2 DEF ChangeRoom
      <4>6. target'[c] # 0 /\ \A d \in Channels \ {c} : target'[d] = target[d]
        BY <1>0, <4>1, <4>2
      <4> QED
        BY <1>0, <4>2, <4>4, <4>5, <4>6
    <3> QED
      BY <3>1, <3>2
  <2>2. pc' \in [Channels -> Positions] /\ \A d \in Channels : Placed(d)'
    <3>1. PICK v \in {"none", "leave", "enter"} :
            after' = [after EXCEPT ![c] = v] /\ (v = "none" <=> room[c] = 0) /\ (v # "leave" => target'[c] # 0)
      BY <2>1
    <3>2. pc' \in [Channels -> Positions] /\ pc'[c] = (IF room[c] # 0 THEN "del" ELSE "enter") /\ after'[c] = v
      <4>1. pc \in [Channels -> Positions] /\ DOMAIN after = Channels /\ "del" \in Positions /\ "enter" \in Positions
        BY <1>0 DEF Positions
      <4> QED
        BY <2>0, <3>1, <4>1
    <3>3. \A d \in Channels \ {c} : pc'[d] = pc[d] /\ after'[d] = after[d] /\ target'[d] = target[d]
      BY <1>0, <2>0, <2>1, <3>1
    <3>4. Keys' = Keys /\ room' = room /\ key' = key
      BY <1>a, <2>0
    <3>5. \A d \in Channels \ {c} : Placed(d)'
      BY <1>0, <3>3, <3>4 DEF Placed
    <3>6. key[c] \in Keys
      BY <1>0, <2>0 DEF Placed
    <3>7. Placed(c)'
      <4>1. CASE room[c] = 0
        BY <3>1, <3>2, <3>4, <3>6, <4>1 DEF Placed, Leaving
      <4>2. CASE room[c] # 0
        BY <3>1, <3>2, <3>4, <3>6, <4>2 DEF Placed, Leaving
      <4> QED
        BY <4>1, <4>2
    <3> QED
      BY <3>2, <3>5, <3>7
  <2>3. made' \in 0 .. MaxRooms /\ room \in [Channels -> 0 .. made'] /\ in \in [Channels -> 0 .. made']
    <3>1. 0 .. made \subseteq 0 .. made' /\ made' \in 0 .. MaxRooms
      BY <1>0, <2>1
    <3> QED
      BY <1>0, <3>1
  <2> QED
    BY <1>0, <1>a, <2>0, <2>1, <2>2, <2>3 DEF BucketTypeOK
<1>5. ASSUME NEW c \in Channels, Del(c)
      PROVE  BucketTypeOK'
  <2>1. /\ clients' = clients /\ pc[c] = "up" /\ UNCHANGED <<rooms, key, ip, room, next, prev, closed, made, name, head,
                                                           online, drop, target, in>>
        /\ after' = [after EXCEPT ![c] = IF room[c] # 0 THEN "gone" ELSE "none"]
        /\ pc' = [pc EXCEPT ![c] = IF room[c] # 0 THEN "del" ELSE "gone"]
        /\ chs' \in {chs, [chs EXCEPT ![key[c]] = Nil]}
    BY <1>5 DEF Del, fields, objects
  <2>2. ipCnts' \in [IPs -> Nat]
    <3>1. chs[key[c]] \in Channels \cup {Nil}
      BY <1>0, <2>1 DEF Placed
    <3>2. \A i \in IPs : ipCnts[i] \in Nat /\ (IF ipCnts[i] > 1 THEN ipCnts[i] - 1 ELSE 0) \in Nat
      BY <1>0
    <3>3. CASE chs[key[c]] # Nil /\ ip[chs[key[c]]] # None
      BY <1>0, <1>5, <3>1, <3>2, <3>3 DEF Del
    <3>4. CASE ~(chs[key[c]] # Nil /\ ip[chs[key[c]]] # None)
      BY <1>0, <1>5, <3>4 DEF Del
    <3> QED
      BY <3>3, <3>4
  <2>3. chs' \in [Keys -> Channels \cup {Nil}]
    BY <1>0, <2>1
  <2>4. /\ pc' \in [Channels -> Positions] /\ after' \in [Channels -> {"none", "leave", "enter", "gone"}]
        /\ \A d \in Channels : Placed(d)'
    BY <1>0, <1>a, <2>1 DEF Positions, Leaving, Placed
  <2> QED
    BY <1>0, <1>a, <2>1, <2>2, <2>3, <2>4 DEF BucketTypeOK
<1>6. ASSUME NEW c \in Channels, LeaveRoom(c)
      PROVE  BucketTypeOK'
  <2>0. /\ clients' = clients /\ pc[c] = "del" /\ pc' = [pc EXCEPT ![c] = "drop"] /\ RoomDel(c, room[c])
        /\ UNCHANGED <<chs, rooms, ipCnts, key, ip, room, closed, made, name, target, after>>
    BY <1>6 DEF LeaveRoom, maps
  <2>1. pc' \in [Channels -> Positions] /\ \A d \in Channels : Placed(d)'
    BY <1>0, <1>a, <2>0 DEF Positions, Leaving, Placed
  <2>2. drop' \in [Rooms -> BOOLEAN]
    BY <1>0, <2>0 DEF RoomDel
  <2>3. room[c] \in 1 .. made
    BY <1>0, <2>0 DEF Placed, Leaving
  <2>4. /\ next' \in [Channels -> Channels \cup {Nil}] /\ prev' \in [Channels -> Channels \cup {Nil}]
        /\ head' \in [Rooms -> Channels \cup {Nil}] /\ online' \in [Rooms -> Int]
        /\ in' \in [Channels -> 0 .. made]
    BY <2>0, <2>3, RoomTypes
  <2> QED
    BY <1>0, <1>a, <2>0, <2>1, <2>2, <2>4 DEF BucketTypeOK
<1>7. ASSUME NEW c \in Channels, pc[c] \in Leaving, Resume(c), UNCHANGED <<clients, key, target>>
      PROVE  /\ pc' \in [Channels -> Positions] /\ after' \in [Channels -> {"none", "leave", "enter", "gone"}]
             /\ room' \in [Channels -> 0 .. made]
             /\ \A d \in Channels : Placed(d)'
  BY <1>0, <1>a, <1>7 DEF Resume, Positions, Leaving, Placed
<1>8. ASSUME NEW c \in Channels, ReadDrop(c) \/ CloseRoom(c)
      PROVE  BucketTypeOK'
  <2>1. /\ clients' = clients /\ UNCHANGED <<chs, rooms, ipCnts, key, ip, next, prev, made, name, head, online, drop,
                                           target, in>>
        /\ pc[c] \in {"drop", "close"}
        /\ closed' \subseteq Channels
    BY <1>0, <1>8 DEF ReadDrop, CloseRoom, maps, objects, Members
  <2>2. CASE Resume(c)
    BY <1>0, <1>a, <1>7, <2>1, <2>2 DEF Leaving, BucketTypeOK
  <2>3. CASE pc[c] = "drop" /\ pc' = [pc EXCEPT ![c] = "delroom"] /\ UNCHANGED <<room, after>>
    BY <1>0, <1>a, <2>1, <2>3 DEF Leaving, Positions, Placed, BucketTypeOK
  <2> QED
    BY <1>8, <2>2, <2>3 DEF ReadDrop, CloseRoom
<1>9. ASSUME NEW c \in Channels, DelRoom(c)
      PROVE  BucketTypeOK'
  <2>1. /\ clients' = clients /\ pc[c] = "delroom" /\ pc' = [pc EXCEPT ![c] = "close"]
        /\ UNCHANGED <<chs, ipCnts, key, ip, room, next, prev, closed, made, name, head, online, drop, target, after, in>>
    BY <1>9 DEF DelRoom, fields, objects
  <2>2. pc' \in [Channels -> Positions] /\ \A d \in Channels : Placed(d)'
    BY <1>0, <1>a, <2>1 DEF Positions, Leaving, Placed
  <2>3. rooms' \in [RoomIDs -> 0 .. made]
    <3>1. rooms' = [rooms EXCEPT ![name[room[c]]] = 0]
      BY <1>9 DEF DelRoom
    <3>2. 0 \in 0 .. made
      BY <1>0
    <3>3. \A n \in RoomIDs : rooms'[n] \in 0 .. made
      BY <1>0, <3>1, <3>2
    <3>4. rooms' = [n \in RoomIDs |-> rooms'[n]]
      BY <1>0, <3>1
    <3> QED
      BY <3>3, <3>4
  <2> QED
    BY <1>0, <1>a, <2>1, <2>2, <2>3 DEF BucketTypeOK
<1>10. ASSUME NEW c \in Channels, Enter(c)
       PROVE  BucketTypeOK'
  <2>0. /\ clients' = clients /\ pc[c] = "enter" /\ pc' = [pc EXCEPT ![c] = "up"] /\ target' = [target EXCEPT ![c] = 0]
        /\ UNCHANGED <<chs, rooms, ipCnts, key, ip, closed, made, name, drop, after>>
    BY <1>10 DEF Enter, maps
  <2>1. pc' \in [Channels -> Positions]
    BY <1>0, <2>0 DEF Positions
  <2>2. target' \in [Channels -> 0 .. made]
    BY <1>0, <2>0
  <2>3. CASE UNCHANGED <<room, next, prev, head, online, in>>
    <3>1. \A d \in Channels : Placed(d)'
      BY <1>0, <1>a, <2>0, <2>3 DEF Leaving, Placed
    <3> QED
      BY <1>0, <1>a, <2>0, <2>1, <2>2, <2>3, <3>1 DEF BucketTypeOK
  <2>4. CASE RoomPut(c, target[c]) /\ room' = [room EXCEPT ![c] = target[c]]
    <3>1. room' \in [Channels -> 0 .. made]
      BY <1>0, <2>4
    <3>2. target[c] \in 1 .. made
      BY <1>0, <2>0 DEF Placed
    <3>3. /\ next' \in [Channels -> Channels \cup {Nil}] /\ prev' \in [Channels -> Channels \cup {Nil}]
          /\ head' \in [Rooms -> Channels \cup {Nil}] /\ online' \in [Rooms -> Int]
          /\ in' \in [Channels -> 0 .. made]
      BY <2>4, <3>2, RoomTypes
    <3>4. \A d \in Channels : Placed(d)'
      BY <1>0, <1>a, <2>0, <2>4 DEF Leaving, Placed
    <3> QED
      BY <1>0, <1>a, <2>0, <2>1, <2>2, <3>1, <3>3, <3>4 DEF BucketTypeOK
  <2> QED
    BY <1>10, <2>3, <2>4 DEF Enter
<1>11. CASE UNCHANGED bucketVars
  BY <1>0, <1>a, <1>11 DEF bucketVars, maps, fields, objects, control, Placed, BucketTypeOK
<1> QED
  BY <1>1, <1>2, <1>3, <1>4, <1>5, <1>6, <1>8, <1>9, <1>10, <1>11 DEF BucketNext

\* A connection that is served and was not told to close is found under its
\* key.
LEMMA FoundStep ==
    ASSUME BucketTypeOK, Found, [BucketNext]_bucketVars
    PROVE  Found'
<1>0. /\ chs \in [Keys -> Channels \cup {Nil}] /\ key \in [Channels -> Keys \cup {None}]
      /\ pc \in [Channels -> Positions] /\ DOMAIN after = Channels /\ Nil \notin Channels
      /\ \A c \in Channels : (after[c] # "none") = (pc[c] \in Leaving)
      /\ \A c \in Channels : pc[c] # "free" => key[c] \in Keys
  BY ClientFacts DEF BucketTypeOK, Placed
<1>1. ASSUME NEW c \in Channels, NEW k \in Keys, NEW i \in IPs, NEW n \in RoomIDs \cup {None}, Put(c, k, i, n)
      PROVE  Found'
  <2>1. /\ chs' = [chs EXCEPT ![k] = c] /\ closed' = (closed \ {c}) \cup ({chs[k]} \ {Nil})
        /\ key' = [key EXCEPT ![c] = k] /\ after' = after /\ pc[c] = "free"
        /\ \A d \in Channels \ {c} : pc'[d] = pc[d]
    BY <1>0, <1>1 DEF Put
  <2>2. ASSUME NEW d \in Channels, Live(d)', d \notin closed' PROVE chs'[key'[d]] = d
    <3>1. CASE d = c
      BY <1>0, <2>1, <3>1
    <3>2. CASE d # c
      <4>1. Live(d) /\ d \notin closed /\ key[d] \in Keys /\ key'[d] = key[d]
        BY <1>0, <2>1, <2>2, <3>2 DEF Live
      <4>2. chs[key[d]] = d
        BY <4>1 DEF Found
      <4>3. key[d] # k
        BY <1>0, <2>1, <2>2, <4>2
      <4> QED
        BY <1>0, <2>1, <4>1, <4>2, <4>3
    <3> QED
      BY <3>1, <3>2
  <2> QED
    BY <2>2 DEF Found
<1>2. ASSUME NEW c \in Channels, Recycle(c), chs' = chs, after' = after
      PROVE  Found'
  <2>1. /\ closed' = closed \ {c} /\ key' = [key EXCEPT ![c] = None] /\ pc' = [pc EXCEPT ![c] = "free"]
    BY <1>2 DEF Recycle
  <2> QED
    BY <1>0, <1>2, <2>1 DEF Found, Live
<1>3. ASSUME NEW c \in Channels, Del(c)
      PROVE  Found'
  <2>1. /\ chs' = (IF chs[key[c]] = c THEN [chs EXCEPT ![key[c]] = Nil] ELSE chs) /\ key' = key /\ closed' = closed
        /\ after' = [after EXCEPT ![c] = IF room[c] # 0 THEN "gone" ELSE "none"]
        /\ pc' = [pc EXCEPT ![c] = IF room[c] # 0 THEN "del" ELSE "gone"]
    BY <1>3 DEF Del, fields
  <2>2. ASSUME NEW d \in Channels, Live(d)', d \notin closed' PROVE chs'[key'[d]] = d
    <3>1. d # c
      BY <1>0, <2>1, <2>2 DEF Live
    <3>2. Live(d) /\ chs[key[d]] = d /\ key[d] \in Keys
      BY <1>0, <2>1, <2>2, <3>1 DEF Live, Found
    <3> QED
      BY <1>0, <2>1, <3>1, <3>2
  <2> QED
    BY <2>2 DEF Found
<1>4. ASSUME UNCHANGED <<chs, key>>, closed \subseteq closed', \A d \in Channels : Live(d)' => Live(d)
      PROVE  Found'
  BY <1>4 DEF Found
<1>6. ASSUME NEW c \in Channels, Resume(c), pc[c] \in Leaving
      PROVE  \A d \in Channels : Live(d)' => Live(d)
  BY <1>0, <1>6 DEF Resume, Live, Leaving
<1>7. ASSUME NEW c \in Channels, Join(c)
      PROVE  Found'
  <2>1. CASE RoomPut(c, room[c]) /\ pc' = [pc EXCEPT ![c] = "up"] /\ UNCHANGED <<key, ip, room, closed>>
    <3>1. \A d \in Channels : Live(d)' => Live(d)
      BY <1>0, <1>7, <2>1 DEF Join, Live, Leaving
    <3> QED
      BY <1>4, <1>7, <2>1, <3>1 DEF Join, maps
  <2>2. CASE Recycle(c)
    BY <1>2, <1>7, <2>2 DEF Join, maps
  <2> QED
    BY <1>7, <2>1, <2>2 DEF Join
<1>8. ASSUME NEW c \in Channels, NEW n \in Targets, ChangeRoom(c, n)
      PROVE  Found'
  <2>1. UNCHANGED <<chs, key, closed>> /\ pc[c] = "up" /\ \A d \in Channels \ {c} : pc'[d] = pc[d] /\ after'[d] = after[d]
    BY <1>0, <1>8 DEF ChangeRoom, fields
  <2>2. \A d \in Channels : Live(d)' => Live(d)
    BY <1>0, <2>1 DEF Live, Leaving
  <2> QED
    BY <1>4, <2>1, <2>2
<1>9. ASSUME NEW c \in Channels, LeaveRoom(c) \/ DelRoom(c) \/ Enter(c)
      PROVE  Found'
  <2>1. UNCHANGED <<chs, key, closed, after>> /\ pc[c] \in {"del", "delroom", "enter"}
        /\ \A d \in Channels \ {c} : pc'[d] = pc[d]
    BY <1>0, <1>9 DEF LeaveRoom, DelRoom, Enter, maps, fields
  <2>2. \A d \in Channels : Live(d)' => Live(d)
    BY <1>0, <2>1 DEF Live
  <2> QED
    BY <1>4, <2>1, <2>2
<1>10. ASSUME NEW c \in Channels, ReadDrop(c) \/ CloseRoom(c)
       PROVE  Found'
  <2>1. UNCHANGED <<chs, key>> /\ closed \subseteq closed' /\ pc[c] \in {"drop", "close"}
    BY <1>10 DEF ReadDrop, CloseRoom, maps
  <2>2. CASE Resume(c)
    BY <1>4, <1>6, <2>1, <2>2 DEF Leaving
  <2>3. CASE pc' = [pc EXCEPT ![c] = "delroom"] /\ after' = after
    <3>1. \A d \in Channels : Live(d)' => Live(d)
      BY <1>0, <2>1, <2>3 DEF Live
    <3> QED
      BY <1>4, <2>1, <3>1
  <2> QED
    BY <1>10, <2>2, <2>3 DEF ReadDrop, CloseRoom
<1>11. ASSUME NEW c \in Channels, Gone(c)
       PROVE  Found'
  BY <1>2, <1>11 DEF Gone, maps
<1>12. CASE UNCHANGED bucketVars
  BY <1>12 DEF bucketVars, maps, fields, control, Found, Live
<1> QED
  BY <1>1, <1>3, <1>7, <1>8, <1>9, <1>10, <1>11, <1>12 DEF BucketNext

-----------------------------------------------------------------------------
(* The rooms *)

LEMMA ListsStay ==
    ASSUME Linked, Ordered, Counted, UNCHANGED <<clients, next, prev, head, online, in>>
    PROVE  Linked' /\ Ordered' /\ Counted'
<1>1. Rooms' = Rooms /\ \A o \in Rooms : Joined(o)' = Joined(o)
  BY ClientsStay DEF Joined
<1>2. Linked'
  BY <1>1 DEF Linked
<1>3. Ordered'
  BY DEF Ordered
<1>4. Counted'
  BY <1>1 DEF Counted
<1> QED
  BY <1>2, <1>3, <1>4

\* What a step does to the lists: a Channel joins a room, leaves its room, or
\* they stay.
LEMMA RoomMoves ==
    ASSUME BucketTypeOK, Seated, Orderly, ~LastLeaves => Undropped, [BucketNext]_bucketVars
    PROVE  /\ clients' = clients
           /\ \/ \E c \in Channels, o \in Rooms : in[c] = 0 /\ RoomPut(c, o)
              \/ \E c \in Channels, o \in Rooms : in[c] = o /\ RoomDel(c, o)
              \/ UNCHANGED <<next, prev, head, online, in>>
<1>0. /\ \A c \in Channels : Placed(c) /\ Phase(c) /\ room[c] \in 0 .. made /\ target[c] \in 0 .. made
      /\ made \in 0 .. MaxRooms /\ MaxRooms \in Nat
      /\ next \in [Channels -> Channels \cup {Nil}] /\ prev \in [Channels -> Channels \cup {Nil}]
  BY ClientFacts DEF BucketTypeOK, Seated
<1>1. \A x \in 0 .. made : x # 0 => x \in Rooms
  BY <1>0 DEF Rooms
<1>2. ASSUME NEW c \in Channels, in[c] = 0, Recycle(c) PROVE next' = next /\ prev' = prev
  BY <1>0, <1>2 DEF Recycle, Seated, Linked
<1>3. ASSUME NEW c \in Channels, Join(c)
      PROVE  /\ clients' = clients
             /\ \/ \E o \in Rooms : in[c] = 0 /\ RoomPut(c, o)
                \/ UNCHANGED <<next, prev, head, online, in>>
  <2>1. in[c] = 0 /\ room[c] \in Rooms
    BY <1>0, <1>1, <1>3 DEF Join, Phase, Placed
  <2> QED
    BY <1>2, <1>3, <2>1 DEF Join
<1>4. ASSUME NEW c \in Channels, LeaveRoom(c)
      PROVE  clients' = clients /\ \E o \in Rooms : in[c] = o /\ RoomDel(c, o)
  <2>1. room[c] \in Rooms /\ in[c] = room[c]
    BY <1>0, <1>1, <1>4 DEF LeaveRoom, Phase, Placed, Leaving
  <2> QED
    BY <1>4, <2>1 DEF LeaveRoom
<1>5. ASSUME NEW c \in Channels, Enter(c)
      PROVE  clients' = clients /\ \E o \in Rooms : in[c] = 0 /\ RoomPut(c, o)
  <2>1. target[c] \in Rooms /\ in[c] = 0 /\ ~LastLeaves
    BY <1>0, <1>1, <1>5 DEF Enter, Phase, Placed
  <2> QED
    BY <1>5, <2>1 DEF Enter, Undropped
<1>6. ASSUME NEW c \in Channels, Gone(c)
      PROVE  UNCHANGED <<clients, next, prev, head, online, in>>
  BY <1>0, <1>2, <1>6 DEF Gone, Phase, objects
<1>7. \A c \in Channels, k \in Keys, i \in IPs, n \in RoomIDs \cup {None} :
          Put(c, k, i, n) => UNCHANGED <<clients, next, prev, head, online, in>>
  BY DEF Put
<1>8. \A c \in Channels : Del(c) \/ ReadDrop(c) \/ DelRoom(c) \/ CloseRoom(c) =>
          UNCHANGED <<clients, next, prev, head, online, in>>
  BY DEF Del, ReadDrop, DelRoom, CloseRoom, fields, objects
<1>9. \A c \in Channels, n \in Targets : ChangeRoom(c, n) => UNCHANGED <<clients, next, prev, head, online, in>>
  BY DEF ChangeRoom, fields
<1>10. CASE UNCHANGED bucketVars
  BY <1>10 DEF bucketVars, fields, objects, control
<1> QED
  BY <1>3, <1>4, <1>5, <1>6, <1>7, <1>8, <1>9, <1>10 DEF BucketNext

LEMMA ListStep ==
    ASSUME BucketTypeOK, Seated, Orderly, ~LastLeaves => Undropped, [BucketNext]_bucketVars
    PROVE  Linked' /\ Ordered' /\ Counted'
<1>1. clients' = clients
  BY RoomMoves
<1>2. ASSUME NEW c \in Channels, NEW o \in Rooms, in[c] = 0, RoomPut(c, o) PROVE Linked' /\ Ordered' /\ Counted'
  BY <1>1, <1>2, PutLinks, PutOrders, PutCounts DEF Seated
<1>3. ASSUME NEW c \in Channels, NEW o \in Rooms, in[c] = o, RoomDel(c, o) PROVE Linked' /\ Ordered' /\ Counted'
  BY <1>1, <1>3, DelLinks, DelOrders, DelCounts DEF Seated
<1>4. ASSUME UNCHANGED <<next, prev, head, online, in>> PROVE Linked' /\ Ordered' /\ Counted'
  BY <1>1, <1>4, ListsStay DEF Seated
<1> QED
  BY <1>2, <1>3, <1>4, RoomMoves

LEMMA PhaseStep ==
    ASSUME BucketTypeOK, Seated, Orderly, ~LastLeaves => Undropped, [BucketNext]_bucketVars
    PROVE  \A c \in Channels : Phase(c)'
<1>0. /\ \A c \in Channels : Placed(c) /\ Phase(c)
      /\ pc \in [Channels -> Positions] /\ DOMAIN after = Channels /\ DOMAIN in = Channels /\ DOMAIN room = Channels
      /\ DOMAIN target = Channels /\ \A c \in Channels : target[c] \in 0 .. made
      /\ made \in 0 .. MaxRooms /\ MaxRooms \in Nat
  BY ClientFacts DEF BucketTypeOK, Seated
<1>a. clients' = clients /\ LastLeaves' = LastLeaves
  BY RoomMoves, ClientsStay
<1>b. ASSUME NEW c \in Channels, Phase(c)', \A d \in Channels \ {c} : pc'[d] = pc[d] /\ in'[d] = in[d]
                                              /\ room'[d] = room[d] /\ after'[d] = after[d]
      PROVE  \A d \in Channels : Phase(d)'
  BY <1>0, <1>a, <1>b DEF Phase
<1>1. ASSUME NEW c \in Channels, NEW k \in Keys, NEW i \in IPs, NEW n \in RoomIDs \cup {None}, Put(c, k, i, n)
      PROVE  \A d \in Channels : Phase(d)'
  <2>1. /\ pc[c] = "free" /\ in' = in /\ after' = after
        /\ pc' = [pc EXCEPT ![c] = IF n = None THEN "up" ELSE "join"]
        /\ (n = None => room'[c] = 0) /\ \A d \in Channels \ {c} : room'[d] = room[d]
    BY <1>0, <1>1 DEF Put
  <2>2. Phase(c)'
    BY <1>0, <1>a, <2>1 DEF Phase, Placed, Leaving
  <2> QED
    BY <1>0, <1>b, <2>1, <2>2
<1>2. ASSUME NEW c \in Channels, Recycle(c), in[c] = 0, UNCHANGED <<in, after>>, after[c] = "none"
      PROVE  \A d \in Channels : Phase(d)'
  <2>1. Phase(c)' /\ \A d \in Channels \ {c} : pc'[d] = pc[d] /\ room'[d] = room[d]
    BY <1>0, <1>2 DEF Recycle, Phase
  <2> QED
    BY <1>b, <1>2, <2>1
<1>3. ASSUME NEW c \in Channels, Join(c)
      PROVE  \A d \in Channels : Phase(d)'
  <2>1. pc[c] = "join" /\ in[c] = 0 /\ after[c] = "none" /\ after' = after
    BY <1>0, <1>3 DEF Join, Phase, Placed, Leaving
  <2>2. CASE RoomPut(c, room[c]) /\ pc' = [pc EXCEPT ![c] = "up"] /\ room' = room
    <3>1. Phase(c)' /\ \A d \in Channels \ {c} : pc'[d] = pc[d] /\ in'[d] = in[d]
      BY <1>0, <2>1, <2>2 DEF RoomPut, Phase
    <3> QED
      BY <1>b, <2>1, <2>2, <3>1
  <2>3. CASE Recycle(c) /\ in' = in
    BY <1>2, <2>1, <2>3
  <2> QED
    BY <1>3, <2>2, <2>3 DEF Join
<1>4. ASSUME NEW c \in Channels, NEW n \in Targets, ChangeRoom(c, n)
      PROVE  \A d \in Channels : Phase(d)'
  <2>1. /\ pc[c] = "up" /\ in' = in /\ room' = room /\ in[c] = room[c]
        /\ pc' = [pc EXCEPT ![c] = IF room[c] # 0 THEN "del" ELSE "enter"]
        /\ \A d \in Channels \ {c} : after'[d] = after[d]
    BY <1>0, <1>4 DEF ChangeRoom, fields, Phase
  <2>2. n # None => ~LastLeaves
    BY DEF Orderly
  <2>3. n = None => after'[c] = "leave" /\ room[c] # 0
    BY <1>0, <1>4 DEF ChangeRoom
  <2>4. Phase(c)'
    BY <1>0, <1>a, <2>1, <2>2, <2>3 DEF Phase
  <2> QED
    BY <1>0, <1>b, <2>1, <2>4
<1>5. ASSUME NEW c \in Channels, Del(c)
      PROVE  \A d \in Channels : Phase(d)'
  <2>1. /\ pc[c] = "up" /\ in' = in /\ room' = room /\ in[c] = room[c]
        /\ after' = [after EXCEPT ![c] = IF room[c] # 0 THEN "gone" ELSE "none"]
        /\ pc' = [pc EXCEPT ![c] = IF room[c] # 0 THEN "del" ELSE "gone"]
    BY <1>0, <1>5 DEF Del, fields, Phase
  <2>2. Phase(c)'
    BY <1>0, <1>a, <2>1 DEF Phase
  <2> QED
    BY <1>0, <1>b, <2>1, <2>2
<1>6. ASSUME NEW c \in Channels, LeaveRoom(c)
      PROVE  \A d \in Channels : Phase(d)'
  <2>1. /\ pc[c] = "del" /\ in' = [in EXCEPT ![c] = 0] /\ room' = room /\ after' = after
        /\ pc' = [pc EXCEPT ![c] = "drop"]
    BY <1>6 DEF LeaveRoom, RoomDel
  <2>2. Phase(c)'
    BY <1>0, <1>a, <2>1 DEF Phase
  <2> QED
    BY <1>0, <1>b, <2>1, <2>2
<1>7. ASSUME NEW c \in Channels, ReadDrop(c) \/ CloseRoom(c)
      PROVE  \A d \in Channels : Phase(d)'
  <2>1. pc[c] \in {"drop", "close"} /\ in' = in /\ in[c] = 0 /\ after[c] \in {"leave", "enter", "gone"}
    BY <1>0, <1>7 DEF ReadDrop, CloseRoom, Phase, Placed, Leaving, BucketTypeOK
  <2>2. CASE Resume(c)
    <3>1. Phase(c)' /\ \A d \in Channels \ {c} : pc'[d] = pc[d] /\ room'[d] = room[d] /\ after'[d] = after[d]
      BY <1>0, <1>a, <2>1, <2>2 DEF Resume, Phase
    <3> QED
      BY <1>b, <2>1, <3>1
  <2>3. CASE pc' = [pc EXCEPT ![c] = "delroom"] /\ UNCHANGED <<room, after>>
    <3>1. Phase(c)' /\ \A d \in Channels \ {c} : pc'[d] = pc[d]
      BY <1>0, <1>a, <2>1, <2>3 DEF Phase
    <3> QED
      BY <1>b, <2>1, <2>3, <3>1
  <2> QED
    BY <1>7, <2>2, <2>3 DEF ReadDrop, CloseRoom
<1>8. ASSUME NEW c \in Channels, DelRoom(c)
      PROVE  \A d \in Channels : Phase(d)'
  <2>1. pc[c] = "delroom" /\ pc' = [pc EXCEPT ![c] = "close"] /\ UNCHANGED <<in, room, after>>
    BY <1>8 DEF DelRoom, fields
  <2>2. Phase(c)'
    BY <1>0, <1>a, <2>1 DEF Phase
  <2> QED
    BY <1>0, <1>b, <2>1, <2>2
<1>9. ASSUME NEW c \in Channels, Enter(c)
      PROVE  \A d \in Channels : Phase(d)'
  <2>1. pc[c] = "enter" /\ ~LastLeaves /\ target[c] \in Rooms /\ after[c] = "none"
    BY <1>0, <1>9 DEF Enter, Phase, Placed, Leaving, Rooms
  <2>2. /\ RoomPut(c, target[c]) /\ room' = [room EXCEPT ![c] = target[c]] /\ pc' = [pc EXCEPT ![c] = "up"]
        /\ after' = after
    BY <1>9, <2>1 DEF Enter, Undropped
  <2>3. Phase(c)' /\ \A d \in Channels \ {c} : pc'[d] = pc[d] /\ room'[d] = room[d] /\ in'[d] = in[d]
    BY <1>0, <1>a, <2>1, <2>2 DEF Phase, RoomPut
  <2> QED
    BY <1>b, <2>2, <2>3
<1>10. ASSUME NEW c \in Channels, Gone(c)
       PROVE  \A d \in Channels : Phase(d)'
  <2>1. in[c] = 0 /\ after[c] = "none"
    BY <1>0, <1>10 DEF Gone, Phase, Placed, Leaving
  <2> QED
    BY <1>2, <1>10, <2>1 DEF Gone
<1>11. CASE UNCHANGED bucketVars
  BY <1>0, <1>a, <1>11 DEF bucketVars, fields, control, Phase
<1> QED
  BY <1>1, <1>3, <1>4, <1>5, <1>6, <1>7, <1>8, <1>9, <1>10, <1>11 DEF BucketNext

\* Whoever leaves a room leaves somebody there, so that no room is dropped.
LEMMA CompanyStep ==
    ASSUME BucketTypeOK, Seated, Orderly, ~LastLeaves, Company, Undropped, [BucketNext]_bucketVars
    PROVE  Company' /\ Undropped'
<1>0. /\ \A c \in Channels : Placed(c) /\ Phase(c)
      /\ pc \in [Channels -> Positions] /\ DOMAIN in = Channels /\ DOMAIN room = Channels /\ DOMAIN after = Channels
      /\ drop \in [Rooms -> BOOLEAN] /\ \A c \in Channels : room[c] \in 0 .. made
      /\ made \in 0 .. MaxRooms /\ MaxRooms \in Nat /\ Counted
  BY ClientFacts DEF BucketTypeOK, Seated
<1>a. clients' = clients /\ Rooms' = Rooms
  BY RoomMoves, ClientsStay
<1>b. \A c \in Channels : pc[c] = "del" => \E d \in Channels : pc[d] = "up" /\ in[d] = room[c]
  BY DEF Company
<1>1. ASSUME drop' = drop, NEW c \in Channels, pc'[c] \notin {"delroom", "close"}, \A d \in Channels \ {c} : pc'[d] = pc[d]
      PROVE  Undropped'
  BY <1>a, <1>1 DEF Undropped
<1>2. ASSUME NEW c \in Channels, pc[c] # "up", pc'[c] # "del",
             \A d \in Channels \ {c} : pc'[d] = pc[d] /\ in'[d] = in[d] /\ room'[d] = room[d]
      PROVE  Company'
  <2>1. ASSUME NEW x \in Channels, pc'[x] = "del" PROVE \E d \in Channels : pc'[d] = "up" /\ in'[d] = room'[x]
    <3>1. x # c /\ pc[x] = "del" /\ room'[x] = room[x]
      BY <1>2, <2>1
    <3>2. PICK d \in Channels : pc[d] = "up" /\ in[d] = room[x]
      BY <1>b, <3>1
    <3>3. d # c
      BY <1>2, <3>2
    <3> QED
      BY <1>2, <3>1, <3>2, <3>3
  <2> QED
    BY <2>1 DEF Company
\* A member that begins to leave, and the ones left with.
<1>3. ASSUME NEW c \in Channels, pc[c] = "up", MayLeave(c), UNCHANGED <<in, room, drop>>,
             NEW v \in {"enter", "gone"}, pc' = [pc EXCEPT ![c] = IF room[c] # 0 THEN "del" ELSE v]
      PROVE  Company' /\ Undropped'
  <2>1. room[c] # 0 => \E e \in Channels \ {c} : pc[e] = "up" /\ in[e] = room[c]
    BY <1>3 DEF MayLeave, Accompanied
  <2>2. in[c] = room[c]
    BY <1>0, <1>3 DEF Phase
  <2>3. pc'[c] \notin {"delroom", "close"} /\ (pc'[c] = "del" => room[c] # 0) /\ \A d \in Channels \ {c} : pc'[d] = pc[d]
    BY <1>0, <1>3
  <2>4. ASSUME NEW x \in Channels, pc'[x] = "del" PROVE \E d \in Channels : pc'[d] = "up" /\ in'[d] = room'[x]
    <3>1. CASE x = c
      BY <1>3, <2>1, <2>3, <2>4, <3>1
    <3>2. CASE x # c
      <4>1. pc[x] = "del" /\ room[x] # 0
        BY <1>0, <2>3, <2>4, <3>2 DEF Placed, Leaving
      <4>2. PICK d \in Channels : pc[d] = "up" /\ in[d] = room[x]
        BY <1>b, <4>1
      <4>3. CASE d # c
        BY <1>3, <2>3, <4>2, <4>3
      <4>4. CASE d = c
        BY <1>3, <2>1, <2>2, <2>3, <4>1, <4>2, <4>4
      <4> QED
        BY <4>3, <4>4
    <3> QED
      BY <3>1, <3>2
  <2>5. Company'
    BY <2>4 DEF Company
  <2> QED
    BY <1>1, <1>3, <2>3, <2>5
<1>4. ASSUME NEW c \in Channels, NEW k \in Keys, NEW i \in IPs, NEW n \in RoomIDs \cup {None}, Put(c, k, i, n)
      PROVE  Company' /\ Undropped'
  <2>1. /\ pc[c] = "free" /\ UNCHANGED <<in, drop>> /\ pc'[c] \in {"up", "join"}
        /\ \A d \in Channels \ {c} : pc'[d] = pc[d] /\ room'[d] = room[d]
    BY <1>0, <1>4 DEF Put
  <2> QED
    BY <1>1, <1>2, <2>1
<1>5. ASSUME NEW c \in Channels, Join(c) \/ Gone(c)
      PROVE  Company' /\ Undropped'
  <2>1. pc[c] \in {"join", "gone"} /\ drop' = drop /\ pc'[c] \in {"up", "free"} /\ \A d \in Channels \ {c} : pc'[d] = pc[d]
    BY <1>0, <1>5 DEF Join, Gone, Recycle, objects
  <2>2. \A d \in Channels \ {c} : in'[d] = in[d] /\ room'[d] = room[d]
    BY <1>0, <1>5 DEF Join, Gone, Recycle, RoomPut, fields
  <2> QED
    BY <1>1, <1>2, <2>1, <2>2
<1>6. ASSUME NEW c \in Channels, NEW n \in Targets, ChangeRoom(c, n)
      PROVE  Company' /\ Undropped'
  <2>1. /\ pc[c] = "up" /\ MayLeave(c) /\ UNCHANGED <<in, room, drop>>
        /\ pc' = [pc EXCEPT ![c] = IF room[c] # 0 THEN "del" ELSE "enter"]
    BY <1>6 DEF ChangeRoom, fields
  <2> QED
    BY <1>3, <2>1
<1>7. ASSUME NEW c \in Channels, Del(c)
      PROVE  Company' /\ Undropped'
  <2>1. /\ pc[c] = "up" /\ MayLeave(c) /\ UNCHANGED <<in, room, drop>>
        /\ pc' = [pc EXCEPT ![c] = IF room[c] # 0 THEN "del" ELSE "gone"]
    BY <1>7 DEF Del, fields, objects
  <2> QED
    BY <1>3, <2>1
<1>8. ASSUME NEW c \in Channels, LeaveRoom(c)
      PROVE  Company' /\ Undropped'
  <2>1. /\ pc[c] = "del" /\ RoomDel(c, room[c]) /\ room' = room /\ pc' = [pc EXCEPT ![c] = "drop"]
        /\ in' = [in EXCEPT ![c] = 0] /\ drop' = [drop EXCEPT ![room[c]] = (online[room[c]] - 1 = 0)]
    BY <1>8 DEF LeaveRoom, RoomDel
  <2>2. room[c] \in Rooms /\ in[c] = room[c]
    BY <1>0, <2>1 DEF Placed, Phase, Leaving, Rooms
  <2>3. PICK d \in Channels : pc[d] = "up" /\ in[d] = room[c]
    BY <1>b, <2>1
  <2>4. online[room[c]] - 1 # 0
    BY <1>0, <1>a, <2>1, <2>2, <2>3, DelCounts
  <2>5. Undropped'
    BY <1>0, <1>a, <2>1, <2>2, <2>4 DEF Undropped
  <2> QED
    BY <1>0, <1>2, <2>1, <2>5
<1>9. ASSUME NEW c \in Channels, ReadDrop(c)
      PROVE  Company' /\ Undropped'
  <2>1. pc[c] = "drop" /\ room[c] \in Rooms /\ UNCHANGED <<in, drop>> /\ after[c] \in {"leave", "enter", "gone"}
    BY <1>0, <1>9 DEF ReadDrop, Placed, Leaving, Rooms, objects, BucketTypeOK
  <2>2. Resume(c)
    BY <1>9, <2>1 DEF ReadDrop, Undropped
  <2>3. pc'[c] \in {"up", "enter", "gone"} /\ \A d \in Channels \ {c} : pc'[d] = pc[d] /\ room'[d] = room[d]
    BY <1>0, <2>1, <2>2 DEF Resume
  <2> QED
    BY <1>1, <1>2, <2>1, <2>3
<1>10. ASSUME NEW c \in Channels, DelRoom(c) \/ CloseRoom(c)
       PROVE  Company' /\ Undropped'
  BY <1>10 DEF DelRoom, CloseRoom, Undropped
<1>11. ASSUME NEW c \in Channels, Enter(c)
       PROVE  Company' /\ Undropped'
  <2>1. pc[c] = "enter" /\ drop' = drop /\ pc' = [pc EXCEPT ![c] = "up"]
    BY <1>11 DEF Enter
  <2>2. \A d \in Channels \ {c} : in'[d] = in[d] /\ room'[d] = room[d]
    BY <1>0, <1>11 DEF Enter, RoomPut
  <2> QED
    BY <1>0, <1>1, <1>2, <2>1, <2>2
<1>12. CASE UNCHANGED bucketVars
  BY <1>a, <1>12 DEF bucketVars, fields, objects, control, Company, Undropped
<1> QED
  BY <1>4, <1>5, <1>6, <1>7, <1>8, <1>9, <1>10, <1>11, <1>12 DEF BucketNext

\* Then every Room object is the one of its name.
LEMMA NamedStep ==
    ASSUME BucketTypeOK, ~LastLeaves, Undropped, Named, [BucketNext]_bucketVars
    PROVE  Named'
<1>0. /\ rooms \in [RoomIDs -> 0 .. made] /\ name \in [Rooms -> RoomIDs \cup {None}]
      /\ made \in 0 .. MaxRooms /\ MaxRooms \in Nat /\ Targets \subseteq RoomIDs \cup {None}
  BY ClientFacts DEF BucketTypeOK
<1>1. ASSUME NEW n \in RoomIDs, NEW o \in Rooms, RoomFor(n, o), RoomIDs' = RoomIDs PROVE Named'
  <2>1. CASE rooms[n] # 0
    BY <1>1, <2>1 DEF RoomFor, Named
  <2>2. CASE rooms[n] = 0
    <3>1. /\ o = made + 1 /\ made' = o /\ name' = [name EXCEPT ![o] = n] /\ rooms' = [rooms EXCEPT ![n] = o]
      BY <1>1, <2>2 DEF RoomFor
    <3>2. ASSUME NEW x \in 1 .. made' PROVE name'[x] \in RoomIDs /\ rooms'[name'[x]] = x
      <4>1. CASE x = o
        BY <1>0, <1>1, <3>1, <4>1
      <4>2. CASE x # o
        <5>1. x \in 1 .. made /\ x \in Rooms
          BY <1>0, <3>1, <3>2, <4>2 DEF Rooms
        <5>2. name'[x] = name[x] /\ name[x] \in RoomIDs /\ rooms[name[x]] = x
          BY <1>0, <3>1, <4>2, <5>1 DEF Named
        <5>3. name[x] # n
          BY <1>0, <2>2, <5>1, <5>2
        <5> QED
          BY <1>0, <3>1, <5>2, <5>3
      <4> QED
        BY <4>1, <4>2
    <3> QED
      BY <1>1, <3>2 DEF Named
  <2> QED
    BY <2>1, <2>2
<1>2. ASSUME UNCHANGED <<clients, rooms, made, name>> PROVE Named'
  BY <1>2, ClientsStay DEF Named
<1>3. ASSUME NEW c \in Channels, NEW k \in Keys, NEW i \in IPs, NEW n \in RoomIDs \cup {None}, Put(c, k, i, n)
      PROVE  Named'
  BY <1>1, <1>2, <1>3, ClientsStay DEF Put
<1>4. ASSUME NEW c \in Channels, NEW n \in Targets, ChangeRoom(c, n)
      PROVE  Named'
  BY <1>0, <1>1, <1>2, <1>4, ClientsStay DEF ChangeRoom
<1>5. ASSUME NEW c \in Channels, DelRoom(c)
      PROVE  Named'
  BY <1>5 DEF DelRoom, Undropped
<1>6. ASSUME NEW c \in Channels, Join(c) \/ Del(c) \/ LeaveRoom(c) \/ ReadDrop(c) \/ CloseRoom(c) \/ Enter(c) \/ Gone(c)
      PROVE  Named'
  BY <1>2, <1>6 DEF Join, Del, LeaveRoom, ReadDrop, CloseRoom, Enter, Gone, maps, objects
<1>7. CASE UNCHANGED bucketVars
  BY <1>2, <1>7 DEF bucketVars, maps, objects
<1> QED
  BY <1>3, <1>4, <1>5, <1>6, <1>7 DEF BucketNext

\* And what is registered is served under its key.
LEMMA RegisteredStep ==
    ASSUME BucketTypeOK, ~LastLeaves, Undropped, Registered, [BucketNext]_bucketVars
    PROVE  Registered'
<1>0. /\ chs \in [Keys -> Channels \cup {Nil}] /\ key \in [Channels -> Keys \cup {None}]
      /\ pc \in [Channels -> Positions] /\ after \in [Channels -> {"none", "leave", "enter", "gone"}]
      /\ Nil \notin Channels /\ \A c \in Channels : Placed(c) /\ room[c] \in 0 .. made
      /\ made \in 0 .. MaxRooms /\ MaxRooms \in Nat
  BY ClientFacts DEF BucketTypeOK
<1>a. ASSUME clients' = clients PROVE Keys' = Keys
  BY <1>a, ClientsStay
<1>1. ASSUME UNCHANGED <<clients, chs, key>>, \A d \in Channels : Live(d) => Live(d)' PROVE Registered'
  BY <1>0, <1>a, <1>1 DEF Registered
<1>2. ASSUME NEW c \in Channels, NEW k \in Keys, NEW i \in IPs, NEW n \in RoomIDs \cup {None}, Put(c, k, i, n)
      PROVE  Registered'
  <2>1. /\ clients' = clients /\ chs' = [chs EXCEPT ![k] = c] /\ key' = [key EXCEPT ![c] = k] /\ pc[c] = "free"
        /\ after' = after /\ pc'[c] \in {"up", "join"} /\ \A d \in Channels \ {c} : pc'[d] = pc[d]
    BY <1>0, <1>2 DEF Put
  <2>2. Live(c)' /\ ~Live(c)
    BY <1>0, <2>1 DEF Live, Placed, Leaving
  <2>3. ASSUME NEW x \in Keys, NEW g \in Channels, chs'[x] = g PROVE key'[g] = x /\ Live(g)'
    <3>1. CASE x = k
      BY <1>0, <2>1, <2>2, <2>3, <3>1
    <3>2. CASE x # k
      <4>1. chs[x] = g /\ key[g] = x /\ Live(g)
        BY <1>0, <2>1, <2>3, <3>2 DEF Registered
      <4>2. g # c
        BY <2>2, <4>1
      <4> QED
        BY <1>0, <2>1, <4>1, <4>2 DEF Live
    <3> QED
      BY <3>1, <3>2
  <2>4. chs' \in [Keys -> Channels \cup {Nil}]
    BY <1>0, <2>1
  <2> QED
    BY <1>0, <1>a, <2>1, <2>3, <2>4 DEF Registered
\* Who goes back to the pool is not registered.
<1>3. ASSUME NEW c \in Channels, Gone(c)
      PROVE  Registered'
  <2>1. clients' = clients /\ chs' = chs /\ key' = [key EXCEPT ![c] = None] /\ pc[c] = "gone" /\ after' = after
        /\ \A d \in Channels \ {c} : pc'[d] = pc[d]
    BY <1>0, <1>3 DEF Gone, Recycle, maps
  <2>2. \A x \in Keys : chs[x] # c
    BY <1>0, <2>1 DEF Registered, Live
  <2>3. ASSUME NEW x \in Keys, NEW g \in Channels, chs'[x] = g PROVE key'[g] = x /\ Live(g)'
    BY <1>0, <2>1, <2>2, <2>3 DEF Registered, Live
  <2> QED
    BY <1>0, <1>a, <2>1, <2>3 DEF Registered
<1>4. ASSUME NEW c \in Channels, Del(c)
      PROVE  Registered'
  <2>1. /\ clients' = clients /\ chs' = (IF chs[key[c]] = c THEN [chs EXCEPT ![key[c]] = Nil] ELSE chs) /\ key' = key
        /\ pc[c] = "up" /\ \A d \in Channels \ {c} : pc'[d] = pc[d] /\ after'[d] = after[d]
    BY <1>0, <1>4 DEF Del, fields
  <2>2. ASSUME NEW x \in Keys, NEW g \in Channels, chs'[x] = g PROVE key'[g] = x /\ Live(g)'
    <3>1. chs[x] = g
      BY <1>0, <2>1, <2>2
    <3>2. key[g] = x /\ Live(g)
      BY <1>0, <3>1 DEF Registered
    <3>3. g # c
      BY <1>0, <2>1, <2>2, <3>1, <3>2
    <3> QED
      BY <2>1, <3>2, <3>3 DEF Live
  <2>3. chs' \in [Keys -> Channels \cup {Nil}]
    BY <1>0, <2>1
  <2> QED
    BY <1>0, <1>a, <2>1, <2>2, <2>3 DEF Registered
<1>5. ASSUME NEW c \in Channels, Join(c)
      PROVE  Registered'
  <2>1. room[c] \in Rooms
    BY <1>0, <1>5 DEF Join, Placed, Rooms
  <2>2. /\ UNCHANGED <<clients, chs, key, after>> /\ pc[c] = "join" /\ pc'[c] = "up"
        /\ \A d \in Channels \ {c} : pc'[d] = pc[d]
    BY <1>0, <1>5, <2>1 DEF Join, Undropped, maps
  <2>3. \A d \in Channels : Live(d) => Live(d)'
    BY <2>2 DEF Live
  <2> QED
    BY <1>1, <2>2, <2>3
<1>6. ASSUME NEW c \in Channels, NEW n \in Targets, ChangeRoom(c, n)
      PROVE  Registered'
  <2>1. /\ UNCHANGED <<clients, chs, key>> /\ pc'[c] \in {"del", "enter"} /\ after'[c] # "gone"
        /\ \A d \in Channels \ {c} : pc'[d] = pc[d] /\ after'[d] = after[d]
    BY <1>0, <1>6 DEF ChangeRoom, fields
  <2>2. \A d \in Channels : Live(d) => Live(d)'
    BY <2>1 DEF Live
  <2> QED
    BY <1>1, <2>1, <2>2
<1>7. ASSUME NEW c \in Channels, LeaveRoom(c) \/ Enter(c)
      PROVE  Registered'
  <2>1. /\ UNCHANGED <<clients, chs, key, after>> /\ pc'[c] \in {"drop", "up"}
        /\ \A d \in Channels \ {c} : pc'[d] = pc[d]
    BY <1>0, <1>7 DEF LeaveRoom, Enter, maps
  <2>2. \A d \in Channels : Live(d) => Live(d)'
    BY <2>1 DEF Live
  <2> QED
    BY <1>1, <2>1, <2>2
<1>8. ASSUME NEW c \in Channels, ReadDrop(c)
      PROVE  Registered'
  <2>1. pc[c] = "drop" /\ room[c] \in Rooms /\ UNCHANGED <<clients, chs, key>> /\ after[c] \in {"leave", "enter", "gone"}
    BY <1>0, <1>8 DEF ReadDrop, Placed, Leaving, Rooms, maps
  <2>2. Resume(c)
    BY <1>8, <2>1 DEF ReadDrop, Undropped
  <2>3. \A d \in Channels : Live(d) => Live(d)'
    BY <1>0, <2>1, <2>2 DEF Resume, Live
  <2> QED
    BY <1>1, <2>1, <2>3
<1>9. ASSUME NEW c \in Channels, DelRoom(c) \/ CloseRoom(c)
      PROVE  Registered'
  BY <1>9 DEF DelRoom, CloseRoom, Undropped
<1>10. CASE UNCHANGED bucketVars
  BY <1>1, <1>10 DEF bucketVars, maps, fields, control, Live
<1> QED
  BY <1>2, <1>3, <1>4, <1>5, <1>6, <1>7, <1>8, <1>9, <1>10 DEF BucketNext

-----------------------------------------------------------------------------
(* Theorems *)

LEMMA BucketInitially == BucketInit => BucketInv
<1> SUFFICES ASSUME BucketInit PROVE BucketInv
  OBVIOUS
<1>0. clients \in Clients /\ MaxRooms \in Nat /\ Rooms = 1 .. MaxRooms /\ IsFiniteSet(Channels) /\ Nil \notin Channels
  BY ClientFacts DEF BucketInit, Rooms
<1>1. BucketTypeOK
  <2>1. made = 0 /\ 0 \in 0 .. MaxRooms /\ 0 \in 0 .. made
    BY <1>0 DEF BucketInit
  <2>2. /\ chs \in [Keys -> Channels \cup {Nil}] /\ rooms \in [RoomIDs -> 0 .. made] /\ ipCnts \in [IPs -> Nat]
        /\ key \in [Channels -> Keys \cup {None}] /\ ip \in [Channels -> IPs \cup {None}]
        /\ room \in [Channels -> 0 .. made] /\ target \in [Channels -> 0 .. made] /\ in \in [Channels -> 0 .. made]
    BY <2>1 DEF BucketInit
  <2>3. /\ next \in [Channels -> Channels \cup {Nil}] /\ prev \in [Channels -> Channels \cup {Nil}]
        /\ name \in [Rooms -> RoomIDs \cup {None}]
        /\ head \in [Rooms -> Channels \cup {Nil}] /\ online \in [Rooms -> Int] /\ drop \in [Rooms -> BOOLEAN]
    BY DEF BucketInit
  <2>4. /\ pc \in [Channels -> Positions] /\ after \in [Channels -> {"none", "leave", "enter", "gone"}]
        /\ \A c \in Channels : Placed(c)
    BY DEF BucketInit, Positions, Leaving, Placed
  <2> QED
    BY <1>0, <2>1, <2>2, <2>3, <2>4 DEF BucketInit, BucketTypeOK
<1>2. Found
  BY DEF BucketInit, Found, Live
<1>3. Seated
  <2>1. (\A c \in Channels : Phase(c)) /\ Linked
    BY DEF BucketInit, Phase, Linked
  <2>2. Ordered
    <3>1. [c \in Channels |-> 0] \in [Channels -> Nat]
      OBVIOUS
    <3> QED
      BY <3>1 DEF BucketInit, Ordered
  <2>3. Counted
    <3>1. \A o \in Rooms : Joined(o) = {}
      BY <1>0 DEF BucketInit, Joined
    <3> QED
      BY <3>1, FS_EmptySet DEF BucketInit, Counted
  <2> QED
    BY <2>1, <2>2, <2>3 DEF Seated
<1>4. Company /\ Undropped /\ Named /\ Registered
  BY <1>0 DEF BucketInit, Company, Undropped, Named, Registered
<1> QED
  BY <1>1, <1>2, <1>3, <1>4 DEF BucketInv

THEOREM BucketInvariance == BucketSpec => []BucketInv
<1>1. BucketInv /\ [BucketNext]_bucketVars => BucketInv'
  <2> SUFFICES ASSUME BucketInv, [BucketNext]_bucketVars PROVE BucketInv'
    OBVIOUS
  <2>1. BucketTypeOK' /\ Found'
    BY BucketTypes, FoundStep DEF BucketInv
  <2>2. clients' = clients
    BY DEF BucketNext, bucketVars, Put, Join, ChangeRoom, Del, LeaveRoom, ReadDrop, DelRoom, CloseRoom, Enter, Gone
  <2>3. Orderly' = Orderly /\ LastLeaves' = LastLeaves /\ (~LastLeaves => Orderly)
    BY <2>2, ClientsStay DEF Orderly
  <2>4. Orderly => Seated'
    BY ListStep, PhaseStep DEF BucketInv, Seated
  <2>5. ~LastLeaves => Company' /\ Undropped' /\ Named' /\ Registered'
    BY <2>3, CompanyStep, NamedStep, RegisteredStep DEF BucketInv
  <2> QED
    BY <2>1, <2>3, <2>4, <2>5 DEF BucketInv
<1> QED
  BY BucketInitially, <1>1, PTL DEF BucketSpec

\* The maps, the fields of Channels and Rooms and the goroutines of the bucket
\* (bucket.go, room.go) keep their types, for any connections and rooms.
THEOREM BucketTyped == BucketSpec => []BucketTypeOK
<1>1. BucketInv => BucketTypeOK
  BY DEF BucketInv
<1> QED
  BY BucketInvariance, <1>1, PTL

\* However members come, go and move (Room.Put, Room.Del), the linked list of
\* a room holds exactly the connections that joined it and did not leave, and
\* Room.Online is their number; unless a room may be dropped while somebody
\* moves into it, for which ChangeRoom has no way back.
THEOREM ListsHoldMembers == BucketSpec => [](Orderly => Roster)
<1>1. BucketInv => (Orderly => Roster)
  <2> SUFFICES ASSUME BucketInv, Orderly PROVE Roster
    OBVIOUS
  <2>1. BucketTypeOK /\ Linked /\ Ordered /\ Counted /\ made \in 0 .. MaxRooms /\ MaxRooms \in Nat
    BY ClientFacts DEF BucketInv, Seated, BucketTypeOK
  <2>2. 1 .. made \subseteq Rooms
    BY <2>1 DEF Rooms
  <2> QED
    BY <2>1, <2>2, WalkVisits DEF Roster, Counted
<1> QED
  BY BucketInvariance, <1>1, PTL

\* Then a connection that was not told to close is found under its key, is in
\* the room it names, and, as long as no room loses its last member, that room
\* is the one registered under its name (Bucket.Put, Del, ChangeRoom, DelRoom).
THEOREM StaysReachable == BucketSpec => [](Orderly => Reachable)
<1>1. BucketInv => (Orderly => Reachable)
  <2> SUFFICES ASSUME BucketInv, Orderly PROVE Reachable
    OBVIOUS
  <2>1. \A c \in Channels : Placed(c)
    BY DEF BucketInv, BucketTypeOK
  <2>2. Findable
    BY <2>1 DEF BucketInv, Findable, Found, Registered, Live, Placed, Leaving
  <2>3. InItsRoom
    BY DEF BucketInv, Seated, Phase, InItsRoom
  <2>4. RoomReachable
    BY DEF BucketInv, Named, RoomReachable
  <2> QED
    BY <2>2, <2>3, <2>4 DEF Reachable
<1> QED
  BY BucketInvariance, <1>1, PTL

-----------------------------------------------------------------------------
(* The timer: the path of a loop over the heap *)

\* A path holds its start and is closed; a set that holds the start and
\* that the path does not leave contains the path.
LEMMA PathClosed ==
    ASSUME NEW D, NEW hop \in [D -> D], NEW p \in D
    PROVE  /\ Path(p, hop) \subseteq D /\ p \in Path(p, hop)
           /\ \A k \in Path(p, hop) : hop[k] \in Path(p, hop)
           /\ \A S \in SUBSET D : p \in S /\ (\A m \in S \cap Path(p, hop) : hop[m] \in S) => Path(p, hop) \subseteq S
<1>0. DOMAIN hop = D
  OBVIOUS
<1>1. Path(p, hop) \subseteq D /\ p \in Path(p, hop)
  BY <1>0 DEF Path
<1>2. ASSUME NEW k \in Path(p, hop) PROVE hop[k] \in Path(p, hop)
  BY <1>0, <1>2 DEF Path
<1>3. ASSUME NEW S \in SUBSET D, p \in S, \A m \in S \cap Path(p, hop) : hop[m] \in S PROVE Path(p, hop) \subseteq S
  <2>1. /\ S \cap Path(p, hop) \in SUBSET D /\ p \in S \cap Path(p, hop)
        /\ \A m \in S \cap Path(p, hop) : hop[m] \in S \cap Path(p, hop)
    BY <1>1, <1>2, <1>3
  <2>2. ASSUME NEW k \in Path(p, hop) PROVE k \in S \cap Path(p, hop)
    BY <1>0, <2>1, <2>2 DEF Path
  <2> QED
    BY <2>2
<1> QED
  BY <1>1, <1>2, <1>3

\* A loop of which every step comes nearer, by a rank that tells positions
\* apart.
Nears(D, hop, r) ==
    /\ hop \in [D -> D] /\ r \in [D -> Nat]
    /\ \A j, k \in D : r[j] = r[k] => j = k
    /\ \A k \in D : hop[k] = k \/ r[hop[k]] < r[k]

\* Nothing on its path lies between a position and the next one.
LEMMA PathChain ==
    ASSUME NEW D, NEW hop, NEW r, Nears(D, hop, r), NEW p \in D
    PROVE  \A m, x \in Path(p, hop) : r[m] <= r[x] \/ r[x] <= r[hop[m]]
<1> DEFINE P == Path(p, hop)
           Clear(m) == \A x \in P : r[m] <= r[x] \/ r[x] <= r[hop[m]]
           G == {k \in P : \A m \in P : r[k] <= r[m] => Clear(m)}
<1>0. /\ hop \in [D -> D] /\ r \in [D -> Nat]
      /\ P \subseteq D /\ p \in P /\ \A k \in P : hop[k] \in P
  BY PathClosed DEF Nears
<1>1. \A k \in P : r[k] \in Nat /\ r[hop[k]] \in Nat /\ (hop[k] = k \/ r[hop[k]] < r[k])
  BY <1>0 DEF Nears
<1>2. \A S \in SUBSET P : p \in S /\ (\A m \in S : hop[m] \in S) => P = S
  <2>1. ASSUME NEW S \in SUBSET P, p \in S, \A m \in S : hop[m] \in S PROVE P = S
    <3>1. S \in SUBSET D
      BY <1>0
    <3>2. P \subseteq S
      BY <1>0, <2>1, <3>1, PathClosed
    <3> QED
      BY <3>2
  <2> QED
    BY <2>1
<1> HIDE DEF P
<1>3. \A j, k \in P : r[j] = r[k] => j = k
  BY <1>0 DEF Nears
<1>4. p \in G
  <2>1. P = {k \in P : r[k] <= r[p]}
    <3> DEFINE S == {k \in P : r[k] <= r[p]}
    <3>1. p \in S /\ \A m \in S : hop[m] \in S
      BY <1>0, <1>1
    <3> QED
      BY <1>2, <3>1
  <2>2. P = {k \in P : k = p \/ r[k] <= r[hop[p]]}
    <3> DEFINE S == {k \in P : k = p \/ r[k] <= r[hop[p]]}
    <3>1. p \in S
      BY <1>0
    <3>2. ASSUME NEW m \in S PROVE hop[m] \in S
      BY <1>0, <1>1
    <3> QED
      BY <1>2, <3>1, <3>2
  <2>3. ASSUME NEW m \in P, r[p] <= r[m] PROVE Clear(m)
    <3>1. m = p
      BY <1>0, <1>1, <1>3, <2>1, <2>3
    <3>2. \A x \in P : r[p] <= r[x] \/ r[x] <= r[hop[p]]
      BY <1>0, <1>1, <2>2
    <3> QED
      BY <3>1, <3>2
  <2> QED
    BY <1>0, <2>3
<1>5. ASSUME NEW k \in G PROVE hop[k] \in G
  <2>0. k \in P /\ hop[k] \in P /\ \A m \in P : r[k] <= r[m] => Clear(m)
    BY <1>0
  <2>1. P = {x \in P : r[hop[k]] <= r[x] \/ r[x] <= r[hop[hop[k]]]}
    <3> DEFINE S == {x \in P : r[hop[k]] <= r[x] \/ r[x] <= r[hop[hop[k]]]}
    <3>0. p \in S
      <4>1. Clear(k)
        BY <1>1, <2>0
      <4>2. P = {x \in P : r[x] <= r[p]}
        <5> DEFINE U == {x \in P : r[x] <= r[p]}
        <5>1. p \in U /\ \A m \in U : hop[m] \in U
          BY <1>0, <1>1
        <5> QED
          BY <1>2, <5>1
      <4>3. r[hop[k]] <= r[p]
        BY <2>0, <4>2
      <4> QED
        BY <1>0, <4>3
    <3>1. ASSUME NEW x \in S PROVE hop[x] \in S
      <4>0. x \in P /\ hop[x] \in P
        BY <1>0
      <4>1. CASE r[x] <= r[hop[hop[k]]]
        BY <1>1, <2>0, <4>0, <4>1
      <4>2. CASE x = hop[k]
        BY <1>1, <2>0, <4>0, <4>2
      <4>3. CASE r[hop[k]] < r[x]
        <5>1. r[k] <= r[x]
          <6>1. Clear(k)
            BY <1>1, <2>0
          <6> QED
            BY <1>1, <2>0, <4>0, <4>3, <6>1
        <5>2. Clear(x)
          BY <2>0, <4>0, <5>1
        <5>3. r[x] <= r[hop[k]] \/ r[hop[k]] <= r[hop[x]]
          BY <2>0, <5>2
        <5> QED
          BY <1>1, <2>0, <4>0, <4>3, <5>3
      <4> QED
        BY <1>1, <1>3, <2>0, <4>0, <4>1, <4>2, <4>3
    <3> QED
      BY <1>2, <3>0, <3>1
  <2>2. Clear(hop[k])
    BY <2>0, <2>1
  <2>3. ASSUME NEW m \in P, r[hop[k]] <= r[m] PROVE Clear(m)
    <3>1. CASE r[k] <= r[m]
      BY <2>0, <3>1
    <3>2. CASE m = hop[k]
      BY <2>2, <3>2
    <3>3. Clear(k)
      BY <1>1, <2>0
    <3>4. r[k] <= r[m] \/ r[m] <= r[hop[k]]
      BY <2>0, <3>3
    <3> QED
      BY <1>1, <1>3, <2>0, <2>3, <3>1, <3>2, <3>4
  <2> QED
    BY <2>0, <2>3
<1>6. P = G
  BY <1>2, <1>4, <1>5
<1>7. \A m \in P : Clear(m)
  BY <1>1, <1>6
<1> QED
  BY <1>7 DEF P

\* The path from p: every other position on it has one before it and only
\* one, there is an end, and nothing on the path lies beyond an end.
LEMMA PathOrder ==
    ASSUME NEW D, NEW hop, NEW r, Nears(D, hop, r), NEW p \in D
    PROVE  /\ \A k \in Path(p, hop) : k = p \/ \E m \in Path(p, hop) : m # k /\ hop[m] = k
           /\ \A j, k \in Path(p, hop) : hop[j] = hop[k] /\ hop[j] # j /\ hop[k] # k => j = k
           /\ \A k \in Path(p, hop) : r[k] <= r[p]
           /\ \A s, x \in Path(p, hop) : hop[s] = s => r[s] <= r[x]
           /\ \E s \in Path(p, hop) : hop[s] = s
<1> DEFINE P == Path(p, hop)
<1>0. /\ hop \in [D -> D] /\ r \in [D -> Nat]
      /\ P \subseteq D /\ p \in P /\ \A k \in P : hop[k] \in P
  BY PathClosed DEF Nears
<1>1. \A k \in P : r[k] \in Nat /\ r[hop[k]] \in Nat /\ (hop[k] = k \/ r[hop[k]] < r[k])
  BY <1>0 DEF Nears
<1>2. \A S \in SUBSET P : p \in S /\ (\A m \in S : hop[m] \in S) => P = S
  <2>1. ASSUME NEW S \in SUBSET P, p \in S, \A m \in S : hop[m] \in S PROVE P = S
    <3>1. S \in SUBSET D
      BY <1>0
    <3>2. P \subseteq S
      BY <1>0, <2>1, <3>1, PathClosed
    <3> QED
      BY <3>2
  <2> QED
    BY <2>1
<1>3. \A j, k \in P : r[j] = r[k] => j = k
  BY <1>0 DEF Nears
<1>4. \A m, x \in P : r[m] <= r[x] \/ r[x] <= r[hop[m]]
  BY PathChain
<1> HIDE DEF P
<1>5. ASSUME NEW k \in P, k # p, ~\E m \in P : m # k /\ hop[m] = k PROVE FALSE
  <2> DEFINE S == P \ {k}
  <2>1. p \in S /\ \A m \in S : hop[m] \in S
    BY <1>0, <1>5
  <2>2. P = S
    BY <1>2, <2>1
  <2> QED
    BY <2>2
<1>6. ASSUME NEW j \in P, NEW k \in P, hop[j] = hop[k], hop[j] # j, hop[k] # k PROVE j = k
  <2>1. r[hop[j]] < r[j] /\ r[hop[j]] < r[k]
    BY <1>1, <1>6
  <2>2. r[j] = r[k]
    BY <1>1, <1>4, <1>6, <2>1
  <2> QED
    BY <1>3, <2>2
<1>7. P = {k \in P : r[k] <= r[p]}
  <2> DEFINE S == {k \in P : r[k] <= r[p]}
  <2>1. p \in S /\ \A m \in S : hop[m] \in S
    BY <1>0, <1>1
  <2> QED
    BY <1>2, <2>1
<1>8. ASSUME NEW s \in P, hop[s] = s PROVE P = {x \in P : r[s] <= r[x]}
  <2> DEFINE S == {x \in P : r[s] <= r[x]}
  <2>1. p \in S
    BY <1>0, <1>7
  <2>2. ASSUME NEW x \in S PROVE hop[x] \in S
    <3>1. x \in P /\ hop[x] \in P /\ r[s] <= r[x]
      BY <1>0
    <3>2. CASE x = s
      BY <1>8, <3>2
    <3>3. CASE r[s] < r[x]
      BY <1>1, <1>4, <3>1, <3>3
    <3> QED
      BY <1>1, <1>3, <3>1, <3>2, <3>3
  <2> QED
    BY <1>2, <2>1, <2>2
<1>9. \E s \in P : hop[s] = s
  <2> DEFINE R == {r[k] : k \in P}
  <2>1. R \in SUBSET Nat /\ R # {}
    BY <1>0, <1>1
  <2>2. PICK v \in R : \A y \in R : v <= y
    BY <2>1, Least
  <2>3. PICK s \in P : r[s] = v
    BY <2>2
  <2>4. v <= r[hop[s]]
    BY <1>0, <2>2
  <2> QED
    BY <1>1, <2>3, <2>4
<1> QED
  BY <1>5, <1>6, <1>7, <1>8, <1>9 DEF P

-----------------------------------------------------------------------------
(* The timer: the heap *)

Heaps == [q : Seq(Entries), ix : [Entries -> Int], ex : [Entries -> Int]]
\* Every entry on the heap knows its position, and so is there once.
Indexed(h) == \A n \in DOMAIN h.q : h.ix[h.q[n]] = n - 1
\* The first n positions are in heap order, as a whole,
HeapOrdered(h, n) == \A k \in 1 .. n - 1 : ~Less(h, k, Parent(k))
\* but for the entry at j, which may have to rise,
OrderedAbove(h, j, n) ==
    \A k \in 1 .. n - 1 : /\ k # j => ~Less(h, k, Parent(k))
                          /\ Parent(k) = j /\ j > 0 => ~Less(h, k, Parent(j))
\* or for the entry at i, which may have to rise or to sink.
OrderedAround(h, i, n) ==
    \A k \in 1 .. n - 1 : /\ k # i /\ Parent(k) # i => ~Less(h, k, Parent(k))
                          /\ Parent(k) = i /\ i > 0 => ~Less(h, k, Parent(i))

\* g is h with its entries in another order.
Reordered(h, g) ==
    g \in Heaps /\ Indexed(g) /\ g.ex = h.ex /\ Len(g.q) = Len(h.q) /\ ToSet(g.q) = ToSet(h.q)

LEMMA ParentFacts ==
    ASSUME NEW k \in Nat \ {0}
    PROVE  /\ Parent(k) \in Nat /\ Parent(k) < k
           /\ k = 2 * Parent(k) + 1 \/ k = 2 * Parent(k) + 2
           /\ Parent(2 * k + 1) = k /\ Parent(2 * k + 2) = k
BY SMT DEF Parent

LEMMA HeapElement ==
    ASSUME NEW h \in Heaps
    PROVE  /\ Len(h.q) \in Nat /\ DOMAIN h.q = 1 .. Len(h.q)
           /\ \A n \in 1 .. Len(h.q) : h.q[n] \in Entries /\ h.ex[h.q[n]] \in Int
BY DEF Heaps

LEMMA SeqOfFunction ==
    ASSUME NEW S, NEW n \in Nat, NEW f \in [1 .. n -> S] PROVE f \in Seq(S) /\ Len(f) = n
OBVIOUS

\* Where each position on the path gets its entry from.
LEMMA Cycle ==
    ASSUME NEW D, NEW hop, NEW r, Nears(D, hop, r), NEW p \in D,
           NEW from, from = [k \in Path(p, hop) |-> IF hop[k] = k THEN p ELSE hop[k]]
    PROVE  /\ \A k \in Path(p, hop) : from[k] \in Path(p, hop)
           /\ \A j, k \in Path(p, hop) : from[j] = from[k] => j = k
           /\ \A k \in Path(p, hop) : \E j \in Path(p, hop) : from[j] = k
<1> DEFINE P == Path(p, hop)
<1>0. /\ hop \in [D -> D] /\ r \in [D -> Nat]
      /\ P \subseteq D /\ p \in P /\ \A k \in P : hop[k] \in P
  BY PathClosed DEF Nears
<1>1. \A k \in P : r[k] \in Nat /\ r[hop[k]] \in Nat /\ (hop[k] = k \/ r[hop[k]] < r[k])
  BY <1>0 DEF Nears
<1>2. \A j, k \in P : r[j] = r[k] => j = k
  BY <1>0 DEF Nears
<1>3. /\ \A k \in P : k = p \/ \E m \in P : m # k /\ hop[m] = k
      /\ \A j, k \in P : hop[j] = hop[k] /\ hop[j] # j /\ hop[k] # k => j = k
      /\ \A k \in P : r[k] <= r[p]
      /\ \A s, x \in P : hop[s] = s => r[s] <= r[x]
      /\ \E s \in P : hop[s] = s
  BY PathOrder
<1> HIDE DEF P
<1>4. \A k \in P : from[k] = IF hop[k] = k THEN p ELSE hop[k]
  BY DEF P
<1>5. \A k \in P : from[k] \in P
  BY <1>0, <1>4
<1>6. ASSUME NEW j \in P, NEW k \in P, from[j] = from[k] PROVE j = k
  <2>1. CASE hop[j] = j /\ hop[k] = k
    BY <1>1, <1>2, <1>3, <2>1
  <2>2. CASE hop[j] # j /\ hop[k] # k
    BY <1>3, <1>4, <1>6, <2>2
  <2>3. CASE hop[j] # j /\ hop[k] = k
    <3>1. hop[j] = p
      BY <1>4, <1>6, <2>3
    <3> QED
      BY <1>0, <1>1, <1>3, <2>3, <3>1
  <2>4. CASE hop[j] = j /\ hop[k] # k
    <3>1. hop[k] = p
      BY <1>4, <1>6, <2>4
    <3> QED
      BY <1>0, <1>1, <1>3, <2>4, <3>1
  <2> QED
    BY <2>1, <2>2, <2>3, <2>4
<1>7. ASSUME NEW k \in P PROVE \E j \in P : from[j] = k
  <2>1. CASE k = p
    BY <1>3, <1>4, <2>1
  <2>2. CASE k # p
    BY <1>3, <1>4, <2>2
  <2> QED
    BY <2>1, <2>2
<1> QED
  BY <1>5, <1>6, <1>7 DEF P

\* g is h with its entries moved along the path P from p.
Sifted(h, g, P, hop, p) ==
    /\ g \in Heaps /\ Indexed(g) /\ g.ex = h.ex /\ Len(g.q) = Len(h.q)
    /\ ToSet(g.q) = ToSet(h.q)
    /\ \A k \in 0 .. Len(h.q) - 1 :
         g.q[k + 1] = h.q[1 + (IF k \notin P THEN k ELSE IF hop[k] = k THEN p ELSE hop[k])]

\* Sifting moves entries along the path only, loses none, and leaves every
\* entry with its position.
LEMMA SiftFacts ==
    ASSUME NEW h \in Heaps, Indexed(h), NEW D, NEW hop, NEW r, Nears(D, hop, r), NEW p \in D,
           D \subseteq 0 .. Len(h.q) - 1
    PROVE  Sifted(h, Sift(h, p, hop), Path(p, hop), hop, p)
<1> DEFINE g == Sift(h, p, hop)
           P == Path(p, hop)
           N == Len(h.q)
<1>0. /\ N \in Nat /\ DOMAIN h.q = 1 .. N /\ P \subseteq D /\ P \subseteq 0 .. N - 1
      /\ \A n \in 1 .. N : h.q[n] \in Entries /\ h.ix[h.q[n]] = n - 1
  <2>1. N \in Nat /\ DOMAIN h.q = 1 .. N /\ \A n \in 1 .. N : h.q[n] \in Entries
    BY HeapElement
  <2>2. hop \in [D -> D]
    BY DEF Nears
  <2>3. P \subseteq D
    BY <2>2, PathClosed
  <2>4. \A n \in 1 .. N : h.ix[h.q[n]] = n - 1
    BY <2>1 DEF Indexed
  <2> QED
    BY <2>1, <2>3, <2>4
<1>1. PICK from : from = [k \in P |-> IF hop[k] = k THEN p ELSE hop[k]]
  OBVIOUS
<1>2. /\ \A k \in P : from[k] \in P
      /\ \A j, k \in P : from[j] = from[k] => j = k
      /\ \A k \in P : \E j \in P : from[j] = k
  BY <1>1, Cycle
<1>3. PICK to : to = [k \in 0 .. N - 1 |-> IF k \notin P THEN k ELSE from[k]]
  OBVIOUS
<1>4. PICK at : at = [k \in 0 .. N - 1 |-> h.q[1 + to[k]]]
  OBVIOUS
<1>5. \A k \in 0 .. N - 1 :
        /\ to[k] = IF k \notin P THEN k ELSE IF hop[k] = k THEN p ELSE hop[k]
        /\ at[k] = h.q[1 + (IF k \notin P THEN k ELSE IF hop[k] = k THEN p ELSE hop[k])]
  BY <1>1, <1>3, <1>4
<1>6. /\ g.q = [n \in 1 .. N |-> at[n - 1]]
      /\ g.ix = [td \in Entries |-> IF \E k \in P : at[k] = td THEN CHOOSE k \in P : at[k] = td ELSE h.ix[td]]
      /\ g.ex = h.ex
      /\ g = [q |-> g.q, ix |-> g.ix, ex |-> g.ex]
  <2> DEFINE f(k) == h.q[1 + (IF k \notin P THEN k ELSE IF hop[k] = k THEN p ELSE hop[k])]
             ix == [td \in Entries |-> IF \E k \in P : f(k) = td THEN CHOOSE k \in P : f(k) = td ELSE h.ix[td]]
  <2>1. g = [q |-> [n \in DOMAIN h.q |-> f(n - 1)], ix |-> ix, ex |-> h.ex]
    BY Zenon DEF Sift
  <2>2. \A n \in 1 .. N : f(n - 1) = at[n - 1]
    <3>1. \A n \in 1 .. N : n - 1 \in 0 .. N - 1
      BY <1>0
    <3> QED
      BY <1>5, <3>1, Zenon
  <2>3. \A k \in P : f(k) = at[k]
    BY <1>0, <1>5, Zenon
  <2> HIDE DEF f, P, g
  <2>4. \A td : (CHOOSE k \in P : f(k) = td) = CHOOSE k \in P : at[k] = td
    BY <2>3
  <2>5. \A td : (\E k \in P : f(k) = td) <=> \E k \in P : at[k] = td
    BY <2>3
  <2>6. ix = [td \in Entries |-> IF \E k \in P : at[k] = td THEN CHOOSE k \in P : at[k] = td ELSE h.ix[td]]
    BY <2>4, <2>5, Zenon
  <2>7. [n \in DOMAIN h.q |-> f(n - 1)] = [n \in 1 .. N |-> at[n - 1]]
    BY <1>0, <2>2, Zenon
  <2> HIDE DEF ix
  <2>8. g.q = [n \in DOMAIN h.q |-> f(n - 1)] /\ g.ix = ix /\ g.ex = h.ex
    BY <2>1
  <2> QED
    BY <2>1, <2>6, <2>7, <2>8
<1> HIDE DEF g, P
<1> HIDE DEF N
<1>7. \A k \in 0 .. N - 1 : to[k] \in 0 .. N - 1 /\ 1 + to[k] \in 1 .. N /\ at[k] = h.q[1 + to[k]]
  <2>1. ASSUME NEW k \in 0 .. N - 1 PROVE to[k] \in 0 .. N - 1
    <3>1. CASE k \notin P
      BY <1>3, <3>1
    <3>2. CASE k \in P
      <4>1. from[k] \in P /\ to[k] = from[k]
        BY <1>2, <1>3, <3>2
      <4> QED
        BY <1>0, <4>1
    <3> QED
      BY <3>1, <3>2
  <2>2. \A i \in 0 .. N - 1 : 1 + i \in 1 .. N
    BY <1>0
  <2> QED
    BY <1>4, <2>1, <2>2
<1>8. \A j, k \in 0 .. N - 1 : to[j] = to[k] => j = k
  <2>1. \A k \in 0 .. N - 1 : to[k] = IF k \notin P THEN k ELSE from[k]
    BY <1>3
  <2> QED
    BY <1>2, <2>1
<1>9. \A k \in 0 .. N - 1 : \E j \in 0 .. N - 1 : to[j] = k
  <2>1. ASSUME NEW k \in 0 .. N - 1 PROVE \E j \in 0 .. N - 1 : to[j] = k
    <3>1. CASE k \notin P
      BY <1>3, <3>1
    <3>2. CASE k \in P
      BY <1>0, <1>2, <1>3, <3>2
    <3> QED
      BY <3>1, <3>2
  <2> QED
    BY <2>1
<1>10. \A k \in 0 .. N - 1 : at[k] \in Entries /\ h.ix[at[k]] = to[k]
  <2>1. ASSUME NEW k \in 0 .. N - 1 PROVE at[k] \in Entries /\ h.ix[at[k]] = to[k]
    <3>1. PICK n \in 1 .. N : n = 1 + to[k]
      BY <1>7
    <3>2. at[k] = h.q[n]
      BY <1>7, <3>1
    <3>3. h.q[n] \in Entries /\ h.ix[h.q[n]] = n - 1
      BY <1>0
    <3>4. n - 1 = to[k]
      BY <1>7, <3>1
    <3> QED
      BY <3>2, <3>3, <3>4
  <2> QED
    BY <2>1
<1>11. \A j, k \in 0 .. N - 1 : at[j] = at[k] => j = k
  BY <1>8, <1>10
<1>12. g.q \in Seq(Entries) /\ Len(g.q) = N /\ \A k \in 0 .. N - 1 : g.q[k + 1] = at[k]
  <2>1. \A n \in 1 .. N : n - 1 \in 0 .. N - 1
    BY <1>0
  <2>2. g.q \in [1 .. N -> Entries]
    BY <1>6, <1>10, <2>1
  <2>3. g.q \in Seq(Entries) /\ Len(g.q) = N
    BY <1>0, <2>2, SeqOfFunction
  <2>4. ASSUME NEW k \in 0 .. N - 1 PROVE g.q[k + 1] = at[k]
    <3>1. k + 1 \in 1 .. N /\ (k + 1) - 1 = k
      BY <1>0
    <3> QED
      BY <1>6, <3>1
  <2> QED
    BY <2>3, <2>4
<1>13. ToSet(g.q) = ToSet(h.q)
  <2>1. ASSUME NEW n \in 1 .. N PROVE g.q[n] \in ToSet(h.q)
    <3>1. n - 1 \in 0 .. N - 1 /\ g.q[n] = at[n - 1]
      BY <1>0, <1>6
    <3>2. 1 + to[n - 1] \in DOMAIN h.q /\ g.q[n] = h.q[1 + to[n - 1]]
      BY <1>0, <1>7, <3>1
    <3> QED
      BY <3>2 DEF ToSet
  <2>2. ASSUME NEW n \in 1 .. N PROVE h.q[n] \in ToSet(g.q)
    <3>0. n - 1 \in 0 .. N - 1
      BY <1>0
    <3>1. PICK j \in 0 .. N - 1 : to[j] = n - 1
      BY <1>9, <3>0
    <3>2. g.q[j + 1] = h.q[n] /\ j + 1 \in 1 .. N
      <4>0. j + 1 \in 1 .. N
        BY <1>0
      <4>1. g.q[j + 1] = at[j] /\ at[j] = h.q[1 + to[j]]
        BY <1>7, <1>12, Zenon
      <4>2. 1 + to[j] = n
        BY <1>0, <3>1
      <4> QED
        BY <4>0, <4>1, <4>2
    <3> QED
      BY <1>6, <3>2 DEF ToSet
  <2>3. DOMAIN g.q = 1 .. N
    BY <1>6
  <2> QED
    BY <1>0, <2>1, <2>2, <2>3 DEF ToSet
<1>14. ASSUME NEW td \in Entries PROVE g.ix[td] \in Int
  <2>1. CASE \E k \in P : at[k] = td
    <3>1. g.ix[td] = CHOOSE k \in P : at[k] = td
      BY <1>6, <2>1
    <3>2. g.ix[td] \in P
      BY <2>1, <3>1
    <3>3. P \subseteq Int
      BY <1>0
    <3> QED
      BY <3>2, <3>3
  <2>2. CASE ~\E k \in P : at[k] = td
    BY <1>6, <2>2 DEF Heaps
  <2> QED
    BY <2>1, <2>2
<1>15. g.ix \in [Entries -> Int]
  BY <1>6, <1>14
<1>16. ASSUME NEW n \in 1 .. N PROVE g.ix[g.q[n]] = n - 1
  <2>0. n - 1 \in 0 .. N - 1 /\ g.q[n] = at[n - 1] /\ at[n - 1] \in Entries
    BY <1>0, <1>6, <1>10
  <2>1. CASE n - 1 \in P
    <3>1. g.ix[g.q[n]] = CHOOSE k \in P : at[k] = at[n - 1]
      BY <1>6, <2>0, <2>1
    <3>2. PICK k \in P : at[k] = at[n - 1] /\ k = g.ix[g.q[n]]
      BY <2>1, <3>1
    <3> QED
      BY <1>0, <1>11, <2>0, <3>2
  <2>2. CASE n - 1 \notin P
    <3>1. ~\E k \in P : at[k] = at[n - 1]
      BY <1>0, <1>11, <2>0, <2>2
    <3>2. at[n - 1] = h.q[n]
      BY <1>0, <1>5, <2>0, <2>2
    <3>3. g.ix[at[n - 1]] = h.ix[at[n - 1]]
      BY <1>6, <2>0, <3>1
    <3> QED
      BY <1>0, <2>0, <3>2, <3>3
  <2> QED
    BY <2>1, <2>2
<1>17. Indexed(g)
  BY <1>6, <1>16 DEF Indexed
<1>18. g \in Heaps
  BY <1>6, <1>12, <1>15 DEF Heaps
<1>19. ASSUME NEW k \in 0 .. N - 1
       PROVE  g.q[k + 1] = h.q[1 + (IF k \notin P THEN k ELSE IF hop[k] = k THEN p ELSE hop[k])]
  BY <1>5, <1>12, <1>19
<1> QED
  BY <1>6, <1>12, <1>13, <1>17, <1>18, <1>19, Zenon DEF Sifted, g, P, N

\* The expiries a of the entries of h are moved to b.
Expiries(h, g, P, hop, p, a, b) ==
    /\ a \in [0 .. Len(h.q) - 1 -> Int] /\ b \in [0 .. Len(h.q) - 1 -> Int]
    /\ \A k \in 0 .. Len(h.q) - 1 :
         /\ k \notin P => b[k] = a[k]
         /\ k \in P /\ hop[k] = k => b[k] = a[p]
         /\ k \in P /\ hop[k] # k => b[k] = a[hop[k]]
    /\ \A i, k \in 0 .. Len(h.q) - 1 : /\ Less(h, i, k) <=> a[i] < a[k]
                                       /\ Less(g, i, k) <=> b[i] < b[k]

\* When the entries move as a path says, so do their expiries.
LEMMA Moved ==
    ASSUME NEW h \in Heaps, NEW g, NEW P, NEW hop, NEW p,
           P \subseteq 0 .. Len(h.q) - 1, p \in P, \A k \in P : hop[k] \in P,
           Sifted(h, g, P, hop, p),
           NEW a, NEW b,
           a = [k \in 0 .. Len(h.q) - 1 |-> h.ex[h.q[k + 1]]],
           b = [k \in 0 .. Len(h.q) - 1 |-> g.ex[g.q[k + 1]]]
    PROVE  Expiries(h, g, P, hop, p, a, b)
<1> DEFINE N == Len(h.q)
<1>g. /\ g \in Heaps /\ Len(g.q) = N /\ g.ex = h.ex
      /\ \A k \in 0 .. N - 1 :
           g.q[k + 1] = h.q[1 + (IF k \notin P THEN k ELSE IF hop[k] = k THEN p ELSE hop[k])]
  BY DEF Sifted
<1>0. N \in Nat /\ \A n \in 1 .. N : h.ex[h.q[n]] \in Int /\ g.ex[g.q[n]] \in Int
  BY <1>g, HeapElement
<1>1. \A k \in 0 .. N - 1 : k + 1 \in 1 .. N /\ 1 + k = k + 1
  BY <1>0
<1>2. \A k \in 0 .. N - 1 : a[k] = h.ex[h.q[k + 1]] /\ b[k] = h.ex[g.q[k + 1]]
  BY <1>g
<1>3. a \in [0 .. N - 1 -> Int] /\ b \in [0 .. N - 1 -> Int]
  BY <1>0, <1>1
<1>4. ASSUME NEW k \in 0 .. N - 1
      PROVE  /\ k \notin P => b[k] = a[k]
             /\ k \in P /\ hop[k] = k => b[k] = a[p]
             /\ k \in P /\ hop[k] # k => b[k] = a[hop[k]]
  <2>1. CASE k \notin P
    BY <1>g, <1>1, <1>2, <2>1
  <2>2. CASE k \in P /\ hop[k] = k
    BY <1>g, <1>1, <1>2, <2>2
  <2>3. CASE k \in P /\ hop[k] # k
    <3>1. hop[k] \in 0 .. N - 1
      BY <2>3
    <3>2. g.q[k + 1] = h.q[1 + hop[k]]
      BY <1>g, <2>3
    <3> QED
      BY <1>g, <1>1, <1>2, <2>3, <3>1, <3>2
  <2> QED
    BY <2>1, <2>2, <2>3
<1>5. \A i, k \in 0 .. N - 1 : (Less(h, i, k) <=> a[i] < a[k]) /\ (Less(g, i, k) <=> b[i] < b[k])
  BY <1>g, <1>2 DEF Less
<1> QED
  BY <1>3, <1>4, <1>5 DEF Expiries

\* up: an entry that may have to rise comes to its place.
LEMMA UpFacts ==
    ASSUME NEW h \in Heaps, Indexed(h), NEW n \in Nat, n <= Len(h.q), NEW j \in 0 .. n - 1, OrderedAbove(h, j, n)
    PROVE  /\ Reordered(h, Up(h, j)) /\ HeapOrdered(Up(h, j), n)
           /\ \A k \in j + 1 .. Len(h.q) - 1 : Up(h, j).q[k + 1] = h.q[k + 1]
<1> DEFINE D == 0 .. j
           g == Up(h, j)
<1>0. PICK N : N = Len(h.q)
  OBVIOUS
<1>1. N \in Nat /\ D \subseteq 0 .. N - 1 /\ j \in D /\ \A k \in 0 .. n - 1 : k \in 0 .. N - 1
  BY <1>0, HeapElement
<1>2. PICK hop : hop = [k \in D |-> IF k > 0 /\ Less(h, j, Parent(k)) THEN Parent(k) ELSE k]
  OBVIOUS
<1>3. ASSUME NEW k \in 1 .. n - 1 PROVE k \in 0 .. n - 1 /\ Parent(k) \in 0 .. n - 1 /\ Parent(k) < k
  <2>1. k \in Nat \ {0} /\ k \in 0 .. n - 1
    OBVIOUS
  <2>2. Parent(k) \in Nat /\ Parent(k) < k
    BY <2>1, ParentFacts
  <2> QED
    BY <2>1, <2>2
<1>4. PICK r : r = [k \in D |-> k]
  OBVIOUS
<1>5. Nears(D, hop, r)
  <2>1. ASSUME NEW k \in D PROVE hop[k] \in D /\ (hop[k] = k \/ hop[k] < k)
    <3>1. CASE k > 0 /\ Less(h, j, Parent(k))
      <4>1. k \in 1 .. n - 1
        BY <3>1
      <4> QED
        BY <1>2, <1>3, <3>1, <4>1
    <3>2. CASE ~(k > 0 /\ Less(h, j, Parent(k)))
      BY <1>2, <3>2
    <3> QED
      BY <3>1, <3>2
  <2>2. hop \in [D -> D]
    BY <1>2, <2>1
  <2>3. r \in [D -> Nat] /\ \A k \in D : r[k] = k
    BY <1>4
  <2>4. \A k \in D : hop[k] = k \/ r[hop[k]] < r[k]
    BY <2>1, <2>3
  <2> QED
    BY <2>2, <2>3, <2>4 DEF Nears
<1>6. PICK P : P = Path(j, hop)
  OBVIOUS
<1>7. g = Sift(h, j, hop)
  BY <1>2, Zenon DEF Up
<1>8. /\ g \in Heaps /\ Indexed(g) /\ g.ex = h.ex /\ Len(g.q) = N
      /\ ToSet(g.q) = ToSet(h.q)
      /\ \A k \in 0 .. N - 1 :
           g.q[k + 1] = h.q[1 + (IF k \notin P THEN k ELSE IF hop[k] = k THEN j ELSE hop[k])]
  <2>1. D \subseteq 0 .. Len(h.q) - 1
    BY <1>0, <1>1
  <2>2. Sifted(h, Sift(h, j, hop), Path(j, hop), hop, j)
    <3>1. j \in D
      OBVIOUS
    <3> HIDE DEF D
    <3> QED
      BY <1>5, <2>1, <3>1, SiftFacts
  <2> QED
    BY <1>0, <1>6, <1>7, <2>2 DEF Sifted
<1>9. /\ P \subseteq D /\ j \in P /\ \A k \in P : hop[k] \in P
      /\ \A k \in P : k = j \/ \E m \in P : m # k /\ hop[m] = k
      /\ \A s, x \in P : hop[s] = s => s <= x
  <2>1. \A s, x \in P : hop[s] = s => r[s] <= r[x]
    BY <1>1, <1>5, <1>6, PathOrder
  <2>2. P \subseteq D /\ j \in P /\ \A k \in P : hop[k] \in P
    BY <1>1, <1>5, <1>6, PathClosed DEF Nears
  <2>3. \A k \in P : k = j \/ \E m \in P : m # k /\ hop[m] = k
    BY <1>1, <1>5, <1>6, PathOrder
  <2>4. \A k \in P : r[k] = k
    BY <1>4, <2>2
  <2> QED
    BY <2>1, <2>2, <2>3, <2>4
<1>10. PICK a, b : /\ a = [k \in 0 .. N - 1 |-> h.ex[h.q[k + 1]]]
                   /\ b = [k \in 0 .. N - 1 |-> g.ex[g.q[k + 1]]]
  OBVIOUS
<1>11. \A k \in j + 1 .. N - 1 : g.q[k + 1] = h.q[k + 1]
  <2>1. ASSUME NEW k \in j + 1 .. N - 1 PROVE g.q[k + 1] = h.q[k + 1]
    <3>1. k \in 0 .. N - 1 /\ k \notin P /\ 1 + k = k + 1
      BY <1>1, <1>9
    <3> QED
      BY <1>8, <3>1
  <2> QED
    BY <2>1
<1> HIDE DEF g
<1>12. /\ a \in [0 .. N - 1 -> Int] /\ b \in [0 .. N - 1 -> Int]
       /\ \A k \in 0 .. N - 1 :
            /\ k \notin P => b[k] = a[k]
            /\ k \in P /\ hop[k] = k => b[k] = a[j]
            /\ k \in P /\ hop[k] # k => b[k] = a[hop[k]]
       /\ \A i, k \in 0 .. N - 1 : /\ Less(h, i, k) <=> a[i] < a[k]
                                   /\ Less(g, i, k) <=> b[i] < b[k]
  <2>1. P \subseteq 0 .. N - 1
    BY <1>1, <1>9
  <2>2. /\ P \subseteq 0 .. Len(h.q) - 1 /\ Sifted(h, g, P, hop, j)
        /\ a = [k \in 0 .. Len(h.q) - 1 |-> h.ex[h.q[k + 1]]]
        /\ b = [k \in 0 .. Len(h.q) - 1 |-> g.ex[g.q[k + 1]]]
    BY <1>0, <1>8, <1>10, <2>1, Zenon DEF Sifted
  <2>3. Expiries(h, g, P, hop, j, a, b)
    BY <1>9, <2>2, Moved
  <2> QED
    BY <1>0, <2>3, Zenon DEF Expiries
\* What the loop compares, in terms of expiries.
<1>13. \A k \in P : /\ k \in 0 .. n - 1
                    /\ hop[k] # k => k > 0 /\ hop[k] = Parent(k) /\ a[j] < a[Parent(k)]
                    /\ hop[k] = k /\ k > 0 => a[Parent(k)] <= a[j]
  <2>1. ASSUME NEW k \in P
        PROVE  /\ k \in 0 .. n - 1
               /\ hop[k] # k => k > 0 /\ hop[k] = Parent(k) /\ a[j] < a[Parent(k)]
               /\ hop[k] = k /\ k > 0 => a[Parent(k)] <= a[j]
    <3>1. k \in D /\ k \in 0 .. n - 1 /\ j \in 0 .. N - 1
      BY <1>1, <1>9
    <3>2. hop[k] = IF k > 0 /\ Less(h, j, Parent(k)) THEN Parent(k) ELSE k
      BY <1>2, <3>1
    <3>3. CASE k > 0
      <4>1. Parent(k) \in 0 .. N - 1 /\ Parent(k) # k
        BY <1>1, <1>3, <3>1, <3>3
      <4>2. Less(h, j, Parent(k)) <=> a[j] < a[Parent(k)]
        BY <1>12, <3>1, <4>1
      <4>3. a[j] \in Int /\ a[Parent(k)] \in Int
        BY <1>12, <3>1, <4>1
      <4> QED
        BY <3>1, <3>2, <3>3, <4>1, <4>2, <4>3
    <3>4. CASE ~(k > 0)
      BY <3>1, <3>2, <3>4
    <3> QED
      BY <3>3, <3>4
  <2> QED
    BY <2>1
<1>14. \A k \in 1 .. n - 1 : /\ k # j => a[Parent(k)] <= a[k]
                             /\ Parent(k) = j /\ j > 0 => a[Parent(j)] <= a[k]
  <2>1. ASSUME NEW k \in 1 .. n - 1
        PROVE  /\ k # j => a[Parent(k)] <= a[k]
               /\ Parent(k) = j /\ j > 0 => a[Parent(j)] <= a[k]
    <3>1. k \in 0 .. N - 1 /\ Parent(k) \in 0 .. N - 1 /\ (j > 0 => Parent(j) \in 0 .. N - 1)
      <4>1. k \in 0 .. n - 1 /\ Parent(k) \in 0 .. n - 1
        BY <1>3
      <4>2. j > 0 => j \in 1 .. n - 1
        OBVIOUS
      <4>3. j > 0 => Parent(j) \in 0 .. n - 1
        BY <1>3, <4>2
      <4>4. \A m \in 0 .. n - 1 : m \in 0 .. N - 1
        BY <1>1
      <4> QED
        BY <4>1, <4>3, <4>4
    <3>2. a[k] \in Int /\ a[Parent(k)] \in Int /\ (j > 0 => a[Parent(j)] \in Int)
      BY <1>12, <3>1
    <3>3. /\ k # j => ~Less(h, k, Parent(k))
          /\ Parent(k) = j /\ j > 0 => ~Less(h, k, Parent(j))
      BY DEF OrderedAbove
    <3> QED
      BY <1>12, <3>1, <3>2, <3>3
  <2> QED
    BY <2>1
<1>15. ASSUME NEW k \in 1 .. n - 1 PROVE b[Parent(k)] <= b[k]
  <2> DEFINE i == Parent(k)
  <2>0. k \in 0 .. N - 1 /\ i \in 0 .. N - 1 /\ i \in 0 .. n - 1 /\ i < k /\ j \in 0 .. N - 1
    BY <1>1, <1>3
  <2>00. a[k] \in Int /\ a[i] \in Int /\ a[j] \in Int
    BY <1>12, <2>0
  <2>1. CASE k \in P /\ hop[k] # k
    <3>1. i \in P /\ b[k] = a[i] /\ a[j] < a[i] /\ i # j
      <4>1. hop[k] = i /\ b[k] = a[i] /\ a[j] < a[i]
        BY <1>12, <1>13, <2>0, <2>1
      <4>2. i \in P /\ k <= j
        BY <1>9, <2>1, <4>1
      <4> QED
        BY <2>0, <4>1, <4>2
    <3>2. CASE hop[i] = i
      BY <1>12, <2>0, <2>00, <3>1, <3>2
    <3>3. CASE hop[i] # i
      <4>1. i > 0 /\ hop[i] = Parent(i) /\ b[i] = a[Parent(i)]
        BY <1>12, <1>13, <2>0, <3>1, <3>3
      <4>2. a[Parent(i)] <= a[i]
        BY <1>14, <2>0, <3>1, <4>1
      <4> QED
        BY <3>1, <4>1, <4>2
    <3> QED
      BY <3>2, <3>3
  <2>2. CASE k \in P /\ hop[k] = k
    <3>1. i \notin P
      BY <1>9, <2>0, <2>2
    <3>2. b[k] = a[j] /\ a[i] <= a[j] /\ b[i] = a[i]
      BY <1>12, <1>13, <2>0, <2>2, <3>1
    <3> QED
      BY <3>2
  <2>3. CASE k \notin P /\ i \notin P
    <3>1. b[k] = a[k] /\ b[i] = a[i] /\ k # j
      BY <1>9, <1>12, <2>0, <2>3
    <3> QED
      BY <1>14, <3>1
  <2>4. CASE k \notin P /\ i \in P
    <3>0. b[k] = a[k] /\ k # j
      BY <1>9, <1>12, <2>0, <2>4
    <3>1. CASE i = j /\ hop[i] = i
      BY <1>12, <1>14, <2>0, <2>4, <3>0, <3>1
    <3>2. CASE i # j /\ hop[i] = i
      <4>1. PICK m \in P : m # i /\ hop[m] = i
        BY <1>9, <2>4, <3>2
      <4>2. a[j] < a[i]
        BY <1>13, <4>1
      <4>3. a[i] <= a[k] /\ b[i] = a[j]
        BY <1>12, <1>14, <2>0, <2>4, <3>0, <3>2
      <4> QED
        BY <2>00, <3>0, <4>2, <4>3
    <3>3. CASE hop[i] # i
      <4>1. i > 0 /\ b[i] = a[Parent(i)]
        BY <1>12, <1>13, <2>0, <2>4, <3>3
      <4>2. CASE i = j
        BY <1>14, <3>0, <4>1, <4>2
      <4>3. CASE i # j
        <5>0. i \in 1 .. n - 1
          BY <2>0, <4>1
        <5>1. Parent(i) \in 0 .. N - 1 /\ a[Parent(i)] \in Int
          BY <1>1, <1>3, <1>12, <5>0
        <5>2. a[Parent(i)] <= a[i] /\ a[i] <= a[k]
          BY <1>14, <2>0, <3>0, <4>1, <4>3
        <5> QED
          BY <2>00, <3>0, <4>1, <5>1, <5>2
      <4> QED
        BY <4>2, <4>3
    <3> QED
      BY <3>1, <3>2, <3>3
  <2> QED
    BY <2>1, <2>2, <2>3, <2>4
<1>16. ASSUME NEW k \in 1 .. n - 1 PROVE ~Less(g, k, Parent(k))
  <2>1. k \in 0 .. N - 1 /\ Parent(k) \in 0 .. N - 1
    BY <1>1, <1>3
  <2>2. b[k] \in Int /\ b[Parent(k)] \in Int
    BY <1>12, <2>1
  <2> QED
    BY <1>12, <1>15, <2>1, <2>2
<1> QED
  BY <1>0, <1>8, <1>11, <1>16, Zenon DEF g, HeapOrdered, Reordered

\* The child that down goes to is the one that expires first.
LEMMA ChildFacts ==
    ASSUME NEW h \in Heaps, NEW n \in Nat, n <= Len(h.q), NEW k \in 0 .. n - 1, 2 * k + 1 < n
    PROVE  /\ Child(h, k, n) \in 1 .. n - 1 /\ k < Child(h, k, n) /\ Parent(Child(h, k, n)) = k
           /\ \A m \in 1 .. n - 1 : Parent(m) = k => ~Less(h, m, Child(h, k, n))
<1>1. k \in Nat /\ Parent(2 * k + 1) = k /\ Parent(2 * k + 2) = k
  BY SMT DEF Parent
<1>2. Child(h, k, n) = 2 * k + 1 \/ (Child(h, k, n) = 2 * k + 2 /\ 2 * k + 2 < n)
  BY DEF Child
<1>3. Child(h, k, n) \in 1 .. n - 1 /\ k < Child(h, k, n) /\ Parent(Child(h, k, n)) = k
  BY <1>1, <1>2
<1>4. ASSUME NEW m \in 1 .. n - 1, Parent(m) = k PROVE ~Less(h, m, Child(h, k, n))
  <2>1. m = 2 * k + 1 \/ m = 2 * k + 2
    <3>1. m \in Nat \ {0}
      OBVIOUS
    <3> QED
      BY <1>4, <3>1, ParentFacts
  <2>2. Len(h.q) \in Nat /\ \A l \in 1 .. Len(h.q) : h.ex[h.q[l]] \in Int
    BY HeapElement
  <2>3. \A l \in 0 .. n - 1 : h.ex[h.q[l + 1]] \in Int
    <3>1. \A l \in 0 .. n - 1 : l + 1 \in 1 .. Len(h.q)
      BY <2>2
    <3> QED
      BY <2>2, <3>1
  <2>4. CASE Child(h, k, n) = m
    <3>1. m \in 0 .. n - 1
      OBVIOUS
    <3> QED
      BY <2>3, <2>4, <3>1 DEF Less
  <2>5. CASE Child(h, k, n) = 2 * k + 1 /\ m = 2 * k + 2
    <3>1. Less(h, 2 * k + 1, 2 * k + 2) /\ 2 * k + 1 \in 0 .. n - 1 /\ 2 * k + 2 \in 0 .. n - 1
      BY <1>1, <2>5 DEF Child
    <3>2. h.ex[h.q[(2 * k + 1) + 1]] \in Int /\ h.ex[h.q[(2 * k + 2) + 1]] \in Int
      BY <2>3, <3>1
    <3> QED
      BY <2>5, <3>1, <3>2 DEF Less
  <2>6. CASE Child(h, k, n) = 2 * k + 2 /\ m = 2 * k + 1
    <3>1. 2 * k + 2 # 2 * k + 1
      BY <1>1
    <3>2. ~Less(h, 2 * k + 1, 2 * k + 2)
      BY <2>6, <3>1 DEF Child
    <3> QED
      BY <2>6, <3>2
  <2> QED
    BY <1>2, <2>1, <2>4, <2>5, <2>6
<1> QED
  BY <1>3, <1>4

\* down: an entry that may have to sink no longer has to.
LEMMA DownFacts ==
    ASSUME NEW h \in Heaps, Indexed(h), NEW n \in Nat, n <= Len(h.q), NEW p \in 0 .. n - 1, OrderedAround(h, p, n)
    PROVE  /\ Reordered(h, Down(h, p, n)) /\ OrderedAbove(Down(h, p, n), p, n)
           /\ \A k \in n .. Len(h.q) - 1 : Down(h, p, n).q[k + 1] = h.q[k + 1]
<1> DEFINE D == 0 .. n - 1
           g == Down(h, p, n)
<1>0. PICK N : N = Len(h.q)
  OBVIOUS
<1>1. N \in Nat /\ D \subseteq 0 .. N - 1 /\ p \in D /\ \A k \in 0 .. n - 1 : k \in 0 .. N - 1
  BY <1>0, HeapElement
<1>2. PICK hop : hop = [k \in D |-> IF 2 * k + 1 < n /\ Less(h, Child(h, k, n), p) THEN Child(h, k, n) ELSE k]
  OBVIOUS
<1>3. ASSUME NEW k \in 1 .. n - 1 PROVE k \in 0 .. n - 1 /\ Parent(k) \in 0 .. n - 1 /\ Parent(k) < k
  <2>1. k \in Nat \ {0} /\ k \in 0 .. n - 1
    OBVIOUS
  <2>2. Parent(k) \in Nat /\ Parent(k) < k
    BY <2>1, ParentFacts
  <2> QED
    BY <2>1, <2>2
<1>4. PICK r : r = [k \in D |-> n - k]
  OBVIOUS
<1>5. Nears(D, hop, r)
  <2>1. ASSUME NEW k \in D PROVE hop[k] \in D /\ (hop[k] = k \/ k < hop[k])
    <3>1. CASE 2 * k + 1 < n /\ Less(h, Child(h, k, n), p)
      <4>1. Child(h, k, n) \in 1 .. n - 1 /\ k < Child(h, k, n)
        BY <3>1, ChildFacts
      <4>2. hop[k] = Child(h, k, n)
        BY <1>2, <3>1
      <4> QED
        BY <1>3, <4>1, <4>2
    <3>2. CASE ~(2 * k + 1 < n /\ Less(h, Child(h, k, n), p))
      BY <1>2, <3>2
    <3> QED
      BY <3>1, <3>2
  <2>2. hop \in [D -> D]
    BY <1>2, <2>1
  <2>3. r \in [D -> Nat] /\ \A k \in D : r[k] = n - k
    BY <1>4
  <2>4. \A k \in D : hop[k] = k \/ r[hop[k]] < r[k]
    BY <2>1, <2>3
  <2>5. \A j, k \in D : r[j] = r[k] => j = k
    BY <2>3
  <2> QED
    BY <2>2, <2>3, <2>4, <2>5 DEF Nears
<1>6. PICK P : P = Path(p, hop)
  OBVIOUS
<1>7. g = Sift(h, p, hop)
  BY <1>2, Zenon DEF Down
<1>8. Sifted(h, g, P, hop, p)
  <2>1. D \subseteq 0 .. Len(h.q) - 1 /\ p \in D
    BY <1>0, <1>1
  <2> HIDE DEF D
  <2>2. Sifted(h, Sift(h, p, hop), Path(p, hop), hop, p)
    BY <1>5, <2>1, SiftFacts
  <2> QED
    BY <1>6, <1>7, <2>2
<1>9. /\ P \subseteq D /\ p \in P /\ \A k \in P : hop[k] \in P
      /\ \A k \in P : k = p \/ \E m \in P : m # k /\ hop[m] = k
      /\ \A s, x \in P : hop[s] = s => x <= s
      /\ \A k \in P : p <= k
  <2>1. \A s, x \in P : hop[s] = s => r[s] <= r[x]
    BY <1>1, <1>5, <1>6, PathOrder
  <2>2. P \subseteq D /\ p \in P /\ \A k \in P : hop[k] \in P
    BY <1>1, <1>5, <1>6, PathClosed DEF Nears
  <2>3. \A k \in P : k = p \/ \E m \in P : m # k /\ hop[m] = k
    BY <1>1, <1>5, <1>6, PathOrder
  <2>4. \A k \in P : r[k] <= r[p]
    BY <1>1, <1>5, <1>6, PathOrder
  <2>5. \A k \in P : r[k] = n - k
    BY <1>4, <2>2
  <2> QED
    BY <2>1, <2>2, <2>3, <2>4, <2>5
<1>10. PICK a, b : /\ a = [k \in 0 .. N - 1 |-> h.ex[h.q[k + 1]]]
                   /\ b = [k \in 0 .. N - 1 |-> g.ex[g.q[k + 1]]]
  OBVIOUS
<1>11. \A k \in n .. N - 1 : g.q[k + 1] = h.q[k + 1]
  <2>1. ASSUME NEW k \in n .. N - 1 PROVE g.q[k + 1] = h.q[k + 1]
    <3>1. k \in 0 .. N - 1 /\ k \notin P /\ 1 + k = k + 1
      BY <1>1, <1>9
    <3> QED
      BY <1>0, <1>8, <3>1 DEF Sifted
  <2> QED
    BY <2>1
<1> HIDE DEF g
<1>12. /\ a \in [0 .. N - 1 -> Int] /\ b \in [0 .. N - 1 -> Int]
       /\ \A k \in 0 .. N - 1 :
            /\ k \notin P => b[k] = a[k]
            /\ k \in P /\ hop[k] = k => b[k] = a[p]
            /\ k \in P /\ hop[k] # k => b[k] = a[hop[k]]
       /\ \A i, k \in 0 .. N - 1 : /\ Less(h, i, k) <=> a[i] < a[k]
                                   /\ Less(g, i, k) <=> b[i] < b[k]
  <2>1. P \subseteq 0 .. N - 1
    BY <1>1, <1>9
  <2>2. /\ P \subseteq 0 .. Len(h.q) - 1
        /\ a = [k \in 0 .. Len(h.q) - 1 |-> h.ex[h.q[k + 1]]]
        /\ b = [k \in 0 .. Len(h.q) - 1 |-> g.ex[g.q[k + 1]]]
    BY <1>0, <1>10, <2>1, Zenon
  <2>3. Expiries(h, g, P, hop, p, a, b)
    BY <1>8, <1>9, <2>2, Moved
  <2> QED
    BY <1>0, <2>3, Zenon DEF Expiries
<1>13. \A k \in P :
         /\ k \in 0 .. n - 1
         /\ hop[k] # k => /\ hop[k] \in 1 .. n - 1 /\ k < hop[k] /\ Parent(hop[k]) = k
                           /\ a[hop[k]] < a[p]
                           /\ \A m \in 1 .. n - 1 : Parent(m) = k => a[hop[k]] <= a[m]
         /\ hop[k] = k => \A m \in 1 .. n - 1 : Parent(m) = k => a[p] <= a[m]
  <2>1. ASSUME NEW k \in P
        PROVE  /\ k \in 0 .. n - 1
               /\ hop[k] # k => /\ hop[k] \in 1 .. n - 1 /\ k < hop[k] /\ Parent(hop[k]) = k
                                 /\ a[hop[k]] < a[p]
                                 /\ \A m \in 1 .. n - 1 : Parent(m) = k => a[hop[k]] <= a[m]
               /\ hop[k] = k => \A m \in 1 .. n - 1 : Parent(m) = k => a[p] <= a[m]
    <3>1. k \in D /\ k \in 0 .. n - 1 /\ p \in 0 .. N - 1 /\ k \in Nat
      BY <1>1, <1>9
    <3>2. hop[k] = IF 2 * k + 1 < n /\ Less(h, Child(h, k, n), p) THEN Child(h, k, n) ELSE k
      BY <1>2, <3>1
    <3>3. a[p] \in Int /\ \A m \in 1 .. n - 1 : m \in 0 .. N - 1 /\ a[m] \in Int
      BY <1>1, <1>3, <1>12, <3>1
    <3>4. CASE 2 * k + 1 < n
      <4>0. PICK c : c = Child(h, k, n)
        OBVIOUS
      <4>1. c \in 1 .. n - 1 /\ k < c /\ Parent(c) = k /\ \A m \in 1 .. n - 1 : Parent(m) = k => ~Less(h, m, c)
        BY <3>1, <3>4, <4>0, ChildFacts
      <4>2. /\ Less(h, c, p) <=> a[c] < a[p]
            /\ \A m \in 1 .. n - 1 : Less(h, m, c) <=> a[m] < a[c]
        BY <1>12, <3>1, <3>3, <4>1
      <4>3. a[c] \in Int /\ \A m \in 1 .. n - 1 : Parent(m) = k => a[c] <= a[m]
        BY <3>3, <4>1, <4>2
      <4>4. CASE a[c] < a[p]
        <5>1. hop[k] = c
          BY <3>2, <3>4, <4>0, <4>2, <4>4
        <5> QED
          BY <3>1, <4>1, <4>3, <4>4, <5>1
      <4>5. CASE ~(a[c] < a[p])
        <5>1. hop[k] = k /\ a[p] <= a[c]
          BY <3>2, <3>3, <4>0, <4>2, <4>3, <4>5
        <5>2. \A m \in 1 .. n - 1 : Parent(m) = k => a[p] <= a[m]
          BY <3>3, <4>3, <5>1
        <5> QED
          BY <3>1, <5>1, <5>2
      <4> QED
        BY <4>4, <4>5
    <3>5. CASE ~(2 * k + 1 < n)
      <4>1. ASSUME NEW m \in 1 .. n - 1, Parent(m) = k PROVE FALSE
        <5>1. m \in Nat \ {0}
          OBVIOUS
        <5>2. m = 2 * k + 1 \/ m = 2 * k + 2
          BY <4>1, <5>1, ParentFacts
        <5> QED
          BY <3>1, <3>5, <5>2
      <4> QED
        BY <3>1, <3>2, <3>5, <4>1
    <3> QED
      BY <3>4, <3>5
  <2> QED
    BY <2>1
<1>14. \A k \in 1 .. n - 1 : /\ k # p /\ Parent(k) # p => a[Parent(k)] <= a[k]
                             /\ Parent(k) = p /\ p > 0 => a[Parent(p)] <= a[k]
  <2>1. ASSUME NEW k \in 1 .. n - 1
        PROVE  /\ k # p /\ Parent(k) # p => a[Parent(k)] <= a[k]
               /\ Parent(k) = p /\ p > 0 => a[Parent(p)] <= a[k]
    <3>1. k \in 0 .. N - 1 /\ Parent(k) \in 0 .. N - 1 /\ (p > 0 => Parent(p) \in 0 .. N - 1)
      BY <1>1, <1>3
    <3>2. a[k] \in Int /\ a[Parent(k)] \in Int /\ (p > 0 => a[Parent(p)] \in Int)
      BY <1>12, <3>1
    <3>3. /\ k # p /\ Parent(k) # p => ~Less(h, k, Parent(k))
          /\ Parent(k) = p /\ p > 0 => ~Less(h, k, Parent(p))
      BY DEF OrderedAround
    <3> QED
      BY <1>12, <3>1, <3>2, <3>3
  <2> QED
    BY <2>1
\* A child on the path is the one its parent went to.
<1>15. \A k \in 1 .. n - 1 : k \in P /\ k # p => Parent(k) \in P /\ hop[Parent(k)] = k /\ Parent(k) # k
  <2>1. ASSUME NEW k \in 1 .. n - 1, k \in P, k # p PROVE Parent(k) \in P /\ hop[Parent(k)] = k /\ Parent(k) # k
    <3>1. PICK m \in P : m # k /\ hop[m] = k
      BY <1>9, <2>1
    <3>2. Parent(k) = m
      BY <1>13, <3>1
    <3> QED
      BY <3>1, <3>2
  <2> QED
    BY <2>1
<1>16. ASSUME NEW k \in 1 .. n - 1, k # p PROVE b[Parent(k)] <= b[k]
  <2> DEFINE i == Parent(k)
  <2>0. k \in 0 .. N - 1 /\ i \in 0 .. N - 1 /\ i \in 0 .. n - 1 /\ i < k /\ p \in 0 .. N - 1
    BY <1>1, <1>3
  <2>00. a[k] \in Int /\ a[i] \in Int /\ a[p] \in Int
    BY <1>12, <2>0
  <2>1. CASE i \notin P
    <3>1. k \notin P /\ i # p
      BY <1>9, <1>15, <1>16, <2>1
    <3> QED
      BY <1>12, <1>14, <1>16, <2>0, <2>1, <3>1
  <2>2. CASE i \in P /\ hop[i] = i
    <3>1. k \notin P
      BY <1>9, <2>0, <2>2
    <3> QED
      BY <1>12, <1>13, <2>0, <2>2, <3>1
  <2>3. CASE i \in P /\ hop[i] # i
    <3>0. hop[i] \in P /\ b[i] = a[hop[i]] /\ hop[i] \in 1 .. n - 1 /\ a[hop[i]] < a[p] /\ a[hop[i]] <= a[k]
      BY <1>9, <1>12, <1>13, <2>0, <2>3
    <3>1. CASE k \notin P
      BY <1>12, <2>0, <3>0, <3>1
    <3>2. CASE k \in P
      <4>1. hop[i] = k /\ b[i] = a[k] /\ a[k] < a[p]
        BY <1>15, <1>16, <3>0, <3>2
      <4>2. CASE hop[k] = k
        BY <1>12, <2>0, <2>00, <3>2, <4>1, <4>2
      <4>3. CASE hop[k] # k
        <5>1. hop[k] \in 1 .. n - 1 /\ Parent(hop[k]) = k /\ b[k] = a[hop[k]]
          BY <1>12, <1>13, <2>0, <3>2, <4>3
        <5>2. hop[k] # p
          BY <1>9, <1>13, <2>0, <3>2, <4>3
        <5>3. a[k] <= a[hop[k]]
          BY <1>14, <1>16, <5>1, <5>2
        <5> QED
          BY <4>1, <5>1, <5>3
      <4> QED
        BY <4>2, <4>3
    <3> QED
      BY <3>1, <3>2
  <2> QED
    BY <2>1, <2>2, <2>3
<1>17. ASSUME NEW k \in 1 .. n - 1, Parent(k) = p, p > 0 PROVE b[Parent(p)] <= b[k]
  <2>0. k \in 0 .. N - 1 /\ p \in 1 .. n - 1 /\ Parent(p) \in 0 .. N - 1 /\ Parent(p) < p /\ p < k /\ p \in 0 .. N - 1
    BY <1>1, <1>3, <1>17
  <2>00. a[k] \in Int /\ a[p] \in Int /\ a[Parent(p)] \in Int
    BY <1>12, <2>0
  <2>1. b[Parent(p)] = a[Parent(p)]
    BY <1>9, <1>12, <2>0
  <2>2. a[Parent(p)] <= a[k]
    BY <1>14, <1>17
  <2>3. CASE k \notin P
    BY <1>12, <2>0, <2>1, <2>2, <2>3
  <2>4. CASE k \in P /\ hop[k] = k
    <3>1. hop[p] = k /\ p # k
      BY <1>15, <1>17, <2>0, <2>4
    <3>2. a[k] < a[p] /\ b[k] = a[p]
      BY <1>9, <1>12, <1>13, <2>0, <2>4, <3>1
    <3> QED
      BY <2>00, <2>1, <2>2, <3>2
  <2>5. CASE k \in P /\ hop[k] # k
    <3>1. hop[k] \in 1 .. n - 1 /\ Parent(hop[k]) = k /\ b[k] = a[hop[k]] /\ hop[k] # p /\ k # p
      BY <1>12, <1>13, <2>0, <2>5
    <3>2. a[k] <= a[hop[k]] /\ a[hop[k]] \in Int
      <4>1. hop[k] \in 0 .. N - 1
        BY <1>1, <1>3, <3>1
      <4> QED
        BY <1>12, <1>14, <3>1, <4>1
    <3> QED
      BY <2>00, <2>1, <2>2, <3>1, <3>2
  <2> QED
    BY <2>3, <2>4, <2>5
<1>18. ASSUME NEW k \in 1 .. n - 1
       PROVE  /\ k # p => ~Less(g, k, Parent(k))
              /\ Parent(k) = p /\ p > 0 => ~Less(g, k, Parent(p))
  <2>1. k \in 0 .. N - 1 /\ Parent(k) \in 0 .. N - 1 /\ (p > 0 => Parent(p) \in 0 .. N - 1)
    BY <1>1, <1>3
  <2>2. b[k] \in Int /\ b[Parent(k)] \in Int /\ (p > 0 => b[Parent(p)] \in Int)
    BY <1>12, <2>1
  <2> QED
    BY <1>12, <1>16, <1>17, <2>1, <2>2
<1> QED
  BY <1>0, <1>8, <1>11, <1>18, Zenon DEF g, OrderedAbove, Sifted, Reordered

HeapInv(h) == h \in Heaps /\ Indexed(h) /\ HeapOrdered(h, Len(h.q))

\* swap, of two positions.
LEMMA SwapFacts ==
    ASSUME NEW h \in Heaps, Indexed(h), NEW i \in 0 .. Len(h.q) - 1, NEW j \in 0 .. Len(h.q) - 1, i # j
    PROVE  /\ Reordered(h, Swap(h, i, j))
           /\ Swap(h, i, j).q = [h.q EXCEPT ![i + 1] = h.q[j + 1], ![j + 1] = h.q[i + 1]]
<1> DEFINE g == Swap(h, i, j)
<1>0. PICK q, N : q = h.q /\ N = Len(h.q)
  OBVIOUS
<1>1. /\ N \in Nat /\ q \in Seq(Entries) /\ Len(q) = N /\ DOMAIN q = 1 .. N /\ \A n \in 1 .. N : q[n] \in Entries
      /\ h.ix \in [Entries -> Int] /\ h.ex \in [Entries -> Int]
      /\ \A n \in 1 .. N : h.ix[q[n]] = n - 1
  BY <1>0, HeapElement DEF Heaps, Indexed
<1>2. PICK a, b : a = q[i + 1] /\ b = q[j + 1]
  OBVIOUS
<1>3. i + 1 \in 1 .. N /\ j + 1 \in 1 .. N /\ i + 1 # j + 1 /\ (i + 1) - 1 = i /\ (j + 1) - 1 = j
  <2>1. N \in Nat /\ i \in 0 .. N - 1 /\ j \in 0 .. N - 1
    BY <1>0, <1>1
  <2> QED
    BY <2>1
<1>4. a \in Entries /\ b \in Entries /\ h.ix[a] = i /\ h.ix[b] = j /\ a # b
  BY <1>1, <1>2, <1>3
<1>5. /\ g.q = [q EXCEPT ![i + 1] = b, ![j + 1] = a]
      /\ g.ix = [h.ix EXCEPT ![b] = i, ![a] = j]
      /\ g.ex = h.ex
      /\ g = [q |-> g.q, ix |-> g.ix, ex |-> g.ex]
  BY <1>0, <1>2 DEF Swap
<1> HIDE DEF g
<1>6. \A n \in 1 .. N : g.q[n] = IF n = j + 1 THEN a ELSE IF n = i + 1 THEN b ELSE q[n]
  BY <1>1, <1>5
<1>7. DOMAIN g.q = 1 .. N
  BY <1>1, <1>5
<1>8. g.q \in [1 .. N -> Entries]
  <2>1. ASSUME NEW n \in 1 .. N PROVE g.q[n] \in Entries
    BY <1>1, <1>4, <1>6
  <2>2. g.q = [n \in 1 .. N |-> g.q[n]]
    BY <1>1, <1>5
  <2> QED
    BY <2>1, <2>2
<1>9. g.q \in Seq(Entries) /\ Len(g.q) = N
  BY <1>1, <1>8, SeqOfFunction
<1>10. g.ix \in [Entries -> Int]
  <2>1. i \in Int /\ j \in Int
    BY <1>0, <1>1
  <2> QED
    BY <1>1, <1>5, <2>1
<1>11. ASSUME NEW n \in 1 .. N PROVE g.ix[g.q[n]] = n - 1
  <2>1. CASE n = j + 1
    BY <1>1, <1>3, <1>4, <1>5, <1>6, <2>1
  <2>2. CASE n = i + 1
    BY <1>1, <1>3, <1>4, <1>5, <1>6, <2>2
  <2>3. CASE n # i + 1 /\ n # j + 1
    <3>1. g.q[n] = q[n] /\ q[n] \in Entries /\ h.ix[q[n]] = n - 1
      BY <1>1, <1>6, <2>3
    <3>2. n - 1 # i /\ n - 1 # j
      BY <1>1, <1>0, <2>3
    <3>3. q[n] # a /\ q[n] # b
      BY <1>4, <3>1, <3>2
    <3> QED
      BY <1>1, <1>5, <3>1, <3>3
  <2> QED
    BY <2>1, <2>2, <2>3
<1>12. Indexed(g)
  BY <1>7, <1>11 DEF Indexed
<1>13. ToSet(g.q) = ToSet(q)
  <2>1. ASSUME NEW n \in 1 .. N PROVE g.q[n] \in ToSet(q)
    BY <1>1, <1>2, <1>3, <1>6 DEF ToSet
  <2>2. ASSUME NEW n \in 1 .. N PROVE q[n] \in ToSet(g.q)
    <3>1. CASE n = j + 1
      <4>1. g.q[i + 1] = q[n]
        BY <1>2, <1>3, <1>6, <3>1
      <4> QED
        BY <1>3, <1>7, <4>1 DEF ToSet
    <3>2. CASE n = i + 1
      <4>1. g.q[j + 1] = q[n]
        BY <1>2, <1>3, <1>6, <3>2
      <4> QED
        BY <1>3, <1>7, <4>1 DEF ToSet
    <3>3. CASE n # i + 1 /\ n # j + 1
      <4>1. g.q[n] = q[n]
        BY <1>6, <3>3
      <4> QED
        BY <1>7, <4>1 DEF ToSet
    <3> QED
      BY <3>1, <3>2, <3>3
  <2> QED
    BY <1>1, <1>7, <2>1, <2>2 DEF ToSet
<1>14. g \in Heaps
  BY <1>1, <1>5, <1>9, <1>10 DEF Heaps
<1> QED
  BY <1>0, <1>2, <1>5, <1>9, <1>12, <1>13, <1>14 DEF g, Reordered

\* The last entry swapped for the one at i may have to rise or to sink.
LEMMA SwapOrder ==
    ASSUME NEW h, HeapInv(h), NEW i \in 0 .. Len(h.q) - 2
    PROVE  OrderedAround(Swap(h, i, Len(h.q) - 1), i, Len(h.q) - 1)
<1>0. PICK N, g : N = Len(h.q) /\ g = Swap(h, i, N - 1)
  OBVIOUS
<1>1. h \in Heaps /\ Indexed(h) /\ HeapOrdered(h, N) /\ N \in Nat /\ \A n \in 1 .. N : h.ex[h.q[n]] \in Int
  BY <1>0, HeapElement DEF HeapInv
<1>2. i \in 0 .. N - 1 /\ N - 1 \in 0 .. N - 1 /\ i # N - 1
  BY <1>0, <1>1
<1>3. g.ex = h.ex /\ g.q = [h.q EXCEPT ![i + 1] = h.q[(N - 1) + 1], ![(N - 1) + 1] = h.q[i + 1]]
  <2>1. i \in 0 .. Len(h.q) - 1 /\ N - 1 \in 0 .. Len(h.q) - 1
    BY <1>0, <1>2
  <2>2. Reordered(h, g) /\ g.q = [h.q EXCEPT ![i + 1] = h.q[(N - 1) + 1], ![(N - 1) + 1] = h.q[i + 1]]
    BY <1>0, <1>1, <1>2, <2>1, SwapFacts
  <2> QED
    BY <2>2 DEF Reordered
<1>4. DOMAIN h.q = 1 .. N
  BY <1>0, <1>1, HeapElement
<1>5. \A k \in 0 .. N - 2 : k # i => g.q[k + 1] = h.q[k + 1] /\ k + 1 \in 1 .. N
  <2> SUFFICES ASSUME NEW k \in 0 .. N - 2, k # i
               PROVE  g.q[k + 1] = h.q[k + 1] /\ k + 1 \in 1 .. N
    OBVIOUS
  <2>1. N \in Nat /\ i \in 0 .. N - 1
    BY <1>1, <1>2
  <2>2. k + 1 \in 1 .. N /\ k + 1 # i + 1 /\ k + 1 # (N - 1) + 1
    BY <2>1
  <2>3. k + 1 \in DOMAIN h.q
    BY <1>4, <2>2
  <2>4. g.q = [h.q EXCEPT ![i + 1] = h.q[(N - 1) + 1], ![(N - 1) + 1] = h.q[i + 1]]
    BY <1>3
  <2>5. g.q[k + 1] = h.q[k + 1]
    BY <2>2, <2>3, <2>4, Zenon
  <2> QED
    BY <2>2, <2>5
<1>6. ASSUME NEW k \in 1 .. (N - 1) - 1
      PROVE  /\ k # i /\ Parent(k) # i => ~Less(g, k, Parent(k))
             /\ Parent(k) = i /\ i > 0 => ~Less(g, k, Parent(i))
  <2>1. k \in 0 .. N - 2 /\ k \in 1 .. N - 1 /\ Parent(k) \in 0 .. N - 2 /\ Parent(k) < k
    <3>1. k \in Nat \ {0}
      OBVIOUS
    <3>2. Parent(k) \in Nat /\ Parent(k) < k
      BY <3>1, ParentFacts
    <3> QED
      BY <1>1, <3>2
  <2>2. ~Less(h, k, Parent(k))
    BY <1>1, <2>1 DEF HeapOrdered
  <2>3. ASSUME k # i, Parent(k) # i PROVE ~Less(g, k, Parent(k))
    BY <1>3, <1>5, <2>1, <2>2, <2>3 DEF Less
  <2>4. ASSUME Parent(k) = i, i > 0 PROVE ~Less(g, k, Parent(i))
    <3>1. i \in 1 .. N - 1 /\ i \in Nat \ {0}
      BY <1>2, <2>4
    <3>2. Parent(i) \in 0 .. N - 2 /\ Parent(i) < i /\ k # i
      <4>1. Parent(i) \in Nat /\ Parent(i) < i
        BY <3>1, ParentFacts
      <4> QED
        BY <1>1, <1>2, <2>1, <2>4, <4>1
    <3>3. ~Less(h, i, Parent(i)) /\ ~Less(h, k, i)
      BY <1>1, <2>2, <2>4, <3>1 DEF HeapOrdered
    <3>4. /\ h.ex[h.q[k + 1]] \in Int /\ h.ex[h.q[i + 1]] \in Int /\ h.ex[h.q[Parent(i) + 1]] \in Int
      <4>1. k + 1 \in 1 .. N /\ i + 1 \in 1 .. N /\ Parent(i) + 1 \in 1 .. N
        <5>1. N \in Nat
          BY <1>1
        <5> QED
          BY <5>1, <1>2, <2>1, <3>2
      <4>2. \A n \in 1 .. N : h.ex[h.q[n]] \in Int
        BY <1>1
      <4> QED
        BY <4>1, <4>2
    <3>5. ~Less(h, k, Parent(i))
      <4>1. /\ ~(h.ex[h.q[i + 1]] < h.ex[h.q[Parent(i) + 1]])
            /\ ~(h.ex[h.q[k + 1]] < h.ex[h.q[i + 1]])
        BY <3>3 DEF Less
      <4>2. ~(h.ex[h.q[k + 1]] < h.ex[h.q[Parent(i) + 1]])
        BY <3>4, <4>1
      <4> QED
        BY <4>2 DEF Less
    <3>6. g.q[k + 1] = h.q[k + 1] /\ g.q[Parent(i) + 1] = h.q[Parent(i) + 1]
      BY <1>5, <2>1, <3>2
    <3> QED
      BY <1>3, <3>5, <3>6 DEF Less
  <2> QED
    BY <2>3, <2>4
<1> QED
  BY <1>0, <1>6 DEF OrderedAround

\* g is the heap h without td, or with it.
Removed(h, g, td) == HeapInv(g) /\ g.ex = h.ex /\ ToSet(g.q) = ToSet(h.q) \ {td}
Added(h, g, td, at) ==
    HeapInv(g) /\ g.ex = [h.ex EXCEPT ![td] = at] /\ ToSet(g.q) = ToSet(h.q) \cup {td}

\* The last entry is cut off.
LEMMA CutFacts ==
    ASSUME NEW m \in Heaps, Indexed(m), NEW last \in Nat, Len(m.q) = last + 1, HeapOrdered(m, last)
    PROVE  Removed(m, [q |-> SubSeq(m.q, 1, last), ix |-> [m.ix EXCEPT ![m.q[last + 1]] = -1], ex |-> m.ex], m.q[last + 1])
<1>g. PICK g : g = [q |-> SubSeq(m.q, 1, last), ix |-> [m.ix EXCEPT ![m.q[last + 1]] = -1], ex |-> m.ex]
  OBVIOUS
<1>0. PICK N, q, td : N = last + 1 /\ q = m.q /\ td = q[last + 1]
  OBVIOUS
<1>1. /\ q \in Seq(Entries) /\ Len(q) = N /\ DOMAIN q = 1 .. N /\ \A n \in 1 .. N : q[n] \in Entries /\ m.ix[q[n]] = n - 1
      /\ m.ix \in [Entries -> Int] /\ m.ex \in [Entries -> Int] /\ N \in 1 .. N /\ N \in Nat
  BY <1>0, HeapElement DEF Heaps, Indexed
<1>2. td \in Entries /\ m.ix[td] = last
  BY <1>0, <1>1
<1>3. g.q = SubSeq(q, 1, last) /\ g.ix = [m.ix EXCEPT ![td] = -1] /\ g.ex = m.ex /\ g = [q |-> g.q, ix |-> g.ix, ex |-> g.ex]
  BY <1>g, <1>0
<1>4. g.q \in Seq(Entries) /\ Len(g.q) = last /\ DOMAIN g.q = 1 .. last /\ \A n \in 1 .. last : g.q[n] = q[n]
  <2>1. last <= Len(q) /\ q \in Seq(Entries)
    BY <1>0, <1>1
  <2> QED
    BY <1>3, <2>1
<1>5. g.ix \in [Entries -> Int]
  <2>1. m.ix \in [Entries -> Int] /\ -1 \in Int
    BY <1>1
  <2> QED
    BY <1>3, <2>1
<1>6. g \in Heaps
  BY <1>1, <1>3, <1>4, <1>5 DEF Heaps
<1>7. ASSUME NEW n \in 1 .. last PROVE g.q[n] # td /\ g.ix[g.q[n]] = n - 1
  <2>1. n \in 1 .. N /\ n - 1 # last
    BY <1>0
  <2>2. g.q[n] = q[n] /\ q[n] \in Entries /\ m.ix[q[n]] = n - 1
    BY <1>1, <1>4, <2>1
  <2>3. q[n] # td
    BY <1>2, <2>1, <2>2
  <2>4. g.ix[q[n]] = m.ix[q[n]]
    BY <1>1, <1>3, <2>2, <2>3
  <2> QED
    BY <2>2, <2>3, <2>4
<1>8. Indexed(g)
  BY <1>4, <1>7 DEF Indexed
<1>9. ASSUME NEW k \in 1 .. last - 1 PROVE ~Less(g, k, Parent(k))
  <2>1. Parent(k) \in Nat /\ Parent(k) < k
    <3>1. k \in Nat \ {0}
      OBVIOUS
    <3> QED
      BY <3>1, ParentFacts
  <2>2. k + 1 \in 1 .. last /\ Parent(k) + 1 \in 1 .. last
    BY <2>1
  <2>3. ~Less(m, k, Parent(k))
    BY DEF HeapOrdered
  <2> QED
    BY <1>0, <1>3, <1>4, <2>2, <2>3 DEF Less
<1>10. ToSet(g.q) = ToSet(q) \ {td}
  <2>1. \A n \in 1 .. last : n \in 1 .. N
    BY <1>0, <1>1
  <2>2. \A n \in 1 .. N : n \in 1 .. last \/ n = last + 1
    BY <1>0, <1>1
  <2>3. ASSUME NEW n \in 1 .. last PROVE g.q[n] \in ToSet(q) \ {td}
    <3>1. n \in DOMAIN q /\ g.q[n] = q[n] /\ g.q[n] # td
      BY <1>1, <1>4, <1>7, <2>1
    <3>2. q[n] \in ToSet(q)
      BY <3>1 DEF ToSet
    <3> QED
      BY <3>1, <3>2
  <2>4. ASSUME NEW n \in 1 .. N, q[n] # td PROVE q[n] \in ToSet(g.q)
    <3>1. n \in 1 .. last
      BY <1>0, <2>2, <2>4
    <3>2. g.q[n] = q[n] /\ n \in DOMAIN g.q
      BY <1>4, <3>1
    <3> QED
      BY <3>2 DEF ToSet
  <2>5. DOMAIN g.q = 1 .. last /\ DOMAIN q = 1 .. N
    BY <1>1, <1>4
  <2>6. ToSet(g.q) \subseteq ToSet(q) \ {td}
    <3>1. ASSUME NEW x \in ToSet(g.q) PROVE x \in ToSet(q) \ {td}
      <4>1. PICK n \in 1 .. last : x = g.q[n]
        BY <2>5, <3>1 DEF ToSet
      <4> QED
        BY <2>3, <4>1
    <3> QED
      BY <3>1
  <2>7. ToSet(q) \ {td} \subseteq ToSet(g.q)
    <3>1. ASSUME NEW x \in ToSet(q), x # td PROVE x \in ToSet(g.q)
      <4>1. PICK n \in 1 .. N : x = q[n]
        BY <2>5, <3>1 DEF ToSet
      <4> QED
        BY <2>4, <3>1, <4>1
    <3> QED
      BY <3>1
  <2> QED
    BY <2>6, <2>7
<1>11. HeapInv(g)
  BY <1>4, <1>6, <1>8, <1>9 DEF HeapInv, HeapOrdered
<1>12. g.ex = m.ex /\ ToSet(g.q) = ToSet(m.q) \ {m.q[last + 1]}
  BY <1>0, <1>3, <1>10
<1> QED
  BY <1>g, <1>11, <1>12 DEF Removed

\* del takes the entry off the heap, wherever it is, and nothing else.
LEMMA DelFacts ==
    ASSUME NEW h, HeapInv(h), NEW td \in Entries
    PROVE  Removed(h, HeapDel(h, td), td)
<1>0. PICK N, i, last : N = Len(h.q) /\ i = h.ix[td] /\ last = N - 1
  OBVIOUS
<1>1. /\ h \in Heaps /\ Indexed(h) /\ HeapOrdered(h, N) /\ N \in Nat /\ DOMAIN h.q = 1 .. N
      /\ i \in Int /\ last \in Int /\ \A n \in 1 .. N : h.ix[h.q[n]] = n - 1
  <2>1. h \in Heaps /\ Indexed(h) /\ HeapOrdered(h, N)
    BY <1>0 DEF HeapInv
  <2> QED
    BY <1>0, <2>1, HeapElement DEF Heaps, Indexed
<1>2. CASE td \notin ToSet(h.q)
  <2>1. ~(i < 0 \/ i > last) => i + 1 \in 1 .. N
    BY <1>0, <1>1
  <2>2. ~(i < 0 \/ i > last) => h.q[i + 1] # td
    BY <1>1, <1>2, <2>1 DEF ToSet
  <2>3. HeapDel(h, td) = h
    BY <1>0, <2>2 DEF HeapDel
  <2> QED
    BY <1>2, <2>3 DEF Removed
<1>3. CASE td \in ToSet(h.q)
  <2>1. PICK n \in 1 .. N : td = h.q[n]
    BY <1>1, <1>3 DEF ToSet
  <2>2. i = n - 1
    BY <1>0, <1>1, <2>1
  <2>3. i + 1 = n /\ i \in 0 .. N - 1 /\ ~(i < 0 \/ i > last) /\ last \in Nat /\ last + 1 = N
    BY <1>0, <1>1, <2>2
  <2>4. h.q[i + 1] = td
    BY <2>1, <2>3
  <2>5. PICK m : m = IF i # last THEN Up(Down(Swap(h, i, last), i, last), i) ELSE h
    OBVIOUS
  <2>6. HeapDel(h, td) = [q |-> SubSeq(m.q, 1, last), ix |-> [m.ix EXCEPT ![m.q[last + 1]] = -1], ex |-> m.ex]
    BY <1>0, <2>3, <2>4, <2>5 DEF HeapDel
  <2>7. /\ m \in Heaps /\ Indexed(m) /\ m.ex = h.ex /\ Len(m.q) = N /\ ToSet(m.q) = ToSet(h.q)
        /\ HeapOrdered(m, last) /\ m.q[last + 1] = td
    <3>1. CASE i = last
      <4>0. N \in Nat /\ last \in Nat /\ last + 1 = N
        BY <1>1, <2>3
      <4>1. \A k \in 1 .. last - 1 : k \in 1 .. N - 1
        BY <4>0
      <4>2. \A k \in 1 .. N - 1 : ~Less(h, k, Parent(k))
        BY <1>1 DEF HeapOrdered
      <4>3. HeapOrdered(h, last)
        BY <4>1, <4>2 DEF HeapOrdered
      <4>4. m = h
        BY <2>5, <3>1
      <4>5. h \in Heaps /\ Indexed(h) /\ Len(h.q) = N /\ h.q[last + 1] = td
        BY <1>0, <1>1, <2>4, <3>1
      <4> QED
        BY <4>3, <4>4, <4>5
    <3>2. CASE i # last
      <4>0. i \in 0 .. N - 2 /\ i \in 0 .. last - 1 /\ last \in 0 .. N - 1
        <5>1. N \in Nat /\ i \in 0 .. N - 1 /\ last \in Nat /\ last + 1 = N
          BY <1>1, <2>3
        <5> QED
          BY <3>2, <5>1
      <4>1. PICK s : s = Swap(h, i, last)
        OBVIOUS
      <4>2. /\ s \in Heaps /\ Indexed(s) /\ s.ex = h.ex /\ Len(s.q) = N /\ ToSet(s.q) = ToSet(h.q)
            /\ s.q = [h.q EXCEPT ![i + 1] = h.q[last + 1], ![last + 1] = h.q[i + 1]]
        <5>1. i \in 0 .. Len(h.q) - 1 /\ last \in 0 .. Len(h.q) - 1
          BY <1>0, <2>3, <4>0
        <5>2. Reordered(h, s) /\ s.q = [h.q EXCEPT ![i + 1] = h.q[last + 1], ![last + 1] = h.q[i + 1]]
          BY <1>1, <3>2, <4>1, <5>1, SwapFacts
        <5> QED
          BY <1>0, <5>2 DEF Reordered
      <4>3. OrderedAround(s, i, last)
        BY <1>0, <4>0, <4>1, SwapOrder
      <4>4. s.q[last + 1] = td
        BY <1>1, <2>3, <2>4, <4>2
      <4>5. PICK d : d = Down(s, i, last)
        OBVIOUS
      <4>6. /\ d \in Heaps /\ Indexed(d) /\ d.ex = h.ex /\ Len(d.q) = N /\ ToSet(d.q) = ToSet(h.q)
            /\ \A k \in last .. N - 1 : d.q[k + 1] = s.q[k + 1]
            /\ OrderedAbove(d, i, last)
        <5>1. last <= Len(s.q)
          BY <1>1, <2>3, <4>2
        <5>2. /\ Reordered(s, d) /\ OrderedAbove(d, i, last)
              /\ \A k \in last .. Len(s.q) - 1 : d.q[k + 1] = s.q[k + 1]
          <6>1. s \in Heaps /\ Indexed(s) /\ last \in Nat
            BY <2>3, <4>2
          <6> QED
            BY <4>0, <4>3, <4>5, <5>1, <6>1, DownFacts
        <5> QED
          BY <4>2, <5>2 DEF Reordered
      <4>7. /\ m \in Heaps /\ Indexed(m) /\ m.ex = h.ex /\ Len(m.q) = N /\ ToSet(m.q) = ToSet(h.q)
            /\ \A k \in i + 1 .. N - 1 : m.q[k + 1] = d.q[k + 1]
            /\ HeapOrdered(m, last)
        <5>0. m = Up(d, i)
          BY <2>5, <3>2, <4>1, <4>5
        <5>1. last <= Len(d.q)
          BY <1>1, <2>3, <4>6
        <5>2. /\ Reordered(d, m) /\ HeapOrdered(m, last)
              /\ \A k \in i + 1 .. Len(d.q) - 1 : m.q[k + 1] = d.q[k + 1]
          BY <2>3, <4>0, <4>6, <5>0, <5>1, UpFacts
        <5> QED
          BY <4>6, <5>2 DEF Reordered
      <4>8. m.q[last + 1] = td
        <5>1. last \in last .. N - 1 /\ last \in i + 1 .. N - 1
          BY <1>1, <2>3, <4>0
        <5> QED
          BY <4>4, <4>6, <4>7, <5>1
      <4> QED
        BY <4>7, <4>8
    <3> QED
      BY <3>1, <3>2
  <2> QED
    <3>1. Removed(m, HeapDel(h, td), m.q[last + 1])
      <4>1. Len(m.q) = last + 1 /\ last \in Nat
        BY <2>3, <2>7
      <4> QED
        BY <2>6, <2>7, <4>1, CutFacts
    <3> QED
      BY <2>7, <3>1 DEF Removed
<1> QED
  BY <1>2, <1>3

\* add puts an entry on the heap that is not there.
LEMMA AddFacts ==
    ASSUME NEW h, HeapInv(h), NEW td \in Entries, td \notin ToSet(h.q), NEW at \in Int
    PROVE  Added(h, HeapAdd(h, td, at), td, at)
<1>0. PICK N, q, f : /\ N = Len(h.q) /\ q = h.q
                     /\ f = [q |-> Append(q, td), ix |-> [h.ix EXCEPT ![td] = N], ex |-> [h.ex EXCEPT ![td] = at]]
  OBVIOUS
<1>1. /\ h \in Heaps /\ HeapOrdered(h, N) /\ N \in Nat /\ N + 1 \in Nat /\ N \in 0 .. (N + 1) - 1 /\ q \in Seq(Entries) /\ Len(q) = N
      /\ DOMAIN q = 1 .. N /\ \A n \in 1 .. N : q[n] \in Entries /\ h.ix[q[n]] = n - 1 /\ q[n] # td
      /\ h.ix \in [Entries -> Int] /\ h.ex \in [Entries -> Int]
  <2>1. h \in Heaps /\ Indexed(h) /\ HeapOrdered(h, N)
    BY <1>0 DEF HeapInv
  <2>2. N \in Nat /\ DOMAIN q = 1 .. N /\ \A n \in 1 .. N : q[n] \in Entries
    BY <1>0, <2>1, HeapElement
  <2>3. \A n \in 1 .. N : q[n] # td
    BY <1>0, <2>2 DEF ToSet
  <2> QED
    <3>1. \A n \in 1 .. N : h.ix[q[n]] = n - 1
      BY <1>0, <2>1, <2>2 DEF Indexed
    <3>2. q \in Seq(Entries) /\ Len(q) = N /\ h.ix \in [Entries -> Int] /\ h.ex \in [Entries -> Int]
      BY <1>0, <2>1 DEF Heaps
    <3>3. N + 1 \in Nat /\ N \in 0 .. (N + 1) - 1
      BY <2>2
    <3> QED
      BY <2>1, <2>2, <2>3, <3>1, <3>2, <3>3
<1>2. /\ f.q = Append(q, td) /\ f.ix = [h.ix EXCEPT ![td] = N] /\ f.ex = [h.ex EXCEPT ![td] = at]
      /\ f = [q |-> f.q, ix |-> f.ix, ex |-> f.ex]
  BY <1>0
<1>3. /\ f.q \in Seq(Entries) /\ Len(f.q) = N + 1 /\ DOMAIN f.q = 1 .. N + 1 /\ f.q[N + 1] = td
      /\ \A n \in 1 .. N : f.q[n] = q[n]
  BY <1>1, <1>2
<1>4. f \in Heaps
  <2>1. f.ix \in [Entries -> Int] /\ f.ex \in [Entries -> Int]
    BY <1>1, <1>2
  <2> QED
    BY <1>2, <1>3, <2>1 DEF Heaps
<1>5. ASSUME NEW n \in 1 .. N + 1 PROVE f.ix[f.q[n]] = n - 1
  <2>1. CASE n = N + 1
    BY <1>1, <1>2, <1>3, <2>1
  <2>2. CASE n # N + 1
    <3>1. n \in 1 .. N
      BY <1>1, <2>2
    <3> QED
      BY <1>1, <1>2, <1>3, <3>1
  <2> QED
    BY <2>1, <2>2
<1>6. Indexed(f)
  BY <1>3, <1>5 DEF Indexed
<1>7. ASSUME NEW k \in 1 .. (N + 1) - 1
      PROVE  /\ k # N => ~Less(f, k, Parent(k))
             /\ Parent(k) = N /\ N > 0 => ~Less(f, k, Parent(N))
  <2>0. N \in Nat
    BY <1>1
  <2>1. Parent(k) \in Nat /\ Parent(k) < k /\ k \in 1 .. N
    <3>1. k \in Nat \ {0} /\ k \in 1 .. N
      BY <2>0
    <3> QED
      BY <3>1, ParentFacts
  <2>2. Parent(k) # N
    BY <2>0, <2>1
  <2>3. ASSUME k # N PROVE ~Less(f, k, Parent(k))
    <3>1. k \in 1 .. N - 1 /\ k + 1 \in 1 .. N /\ Parent(k) + 1 \in 1 .. N
      BY <2>0, <2>1, <2>3
    <3>2. ~Less(h, k, Parent(k))
      BY <1>1, <3>1 DEF HeapOrdered
    <3>3. /\ f.q[k + 1] = h.q[k + 1] /\ f.q[Parent(k) + 1] = h.q[Parent(k) + 1]
          /\ f.ex[h.q[k + 1]] = h.ex[h.q[k + 1]] /\ f.ex[h.q[Parent(k) + 1]] = h.ex[h.q[Parent(k) + 1]]
      BY <1>0, <1>1, <1>2, <1>3, <3>1
    <3> QED
      BY <3>2, <3>3 DEF Less
  <2> QED
    BY <2>2, <2>3
<1>8. OrderedAbove(f, N, N + 1)
  BY <1>7 DEF OrderedAbove
<1>9. PICK g : g = Up(f, N)
  OBVIOUS
<1>10. g \in Heaps /\ Indexed(g) /\ g.ex = f.ex /\ Len(g.q) = N + 1 /\ ToSet(g.q) = ToSet(f.q) /\ HeapOrdered(g, N + 1)
  <2>1. N + 1 \in Nat /\ N + 1 <= Len(f.q) /\ N \in 0 .. (N + 1) - 1
    BY <1>1, <1>3
  <2>2. Reordered(f, g) /\ HeapOrdered(g, N + 1)
    BY <1>4, <1>6, <1>8, <1>9, <2>1, UpFacts
  <2> QED
    BY <1>3, <2>2 DEF Reordered
<1>11. ToSet(f.q) = ToSet(q) \cup {td}
  <2>1. \A n \in 1 .. N + 1 : n \in 1 .. N \/ n = N + 1
    BY <1>1
  <2>2. N + 1 \in 1 .. N + 1 /\ \A n \in 1 .. N : n \in 1 .. N + 1
    BY <1>1
  <2> QED
    <3>1. DOMAIN f.q = 1 .. N + 1 /\ DOMAIN q = 1 .. N /\ f.q[N + 1] = td /\ \A n \in 1 .. N : f.q[n] = q[n]
      BY <1>1, <1>3
    <3> QED
      BY <2>1, <2>2, <3>1 DEF ToSet
<1>12. HeapAdd(h, td, at) = g
  BY <1>0, <1>9 DEF HeapAdd
<1> QED
  BY <1>0, <1>2, <1>10, <1>11, <1>12 DEF HeapInv, Added

\* The first entry is the first to expire.
LEMMA FirstFacts ==
    ASSUME NEW h, HeapInv(h), NEW n \in DOMAIN h.q PROVE h.ex[Head(h.q)] <= h.ex[h.q[n]]
<1>0. PICK N : N = Len(h.q)
  OBVIOUS
<1>1. /\ N \in Nat /\ n \in 1 .. N /\ Head(h.q) = h.q[1] /\ HeapOrdered(h, N)
      /\ \A l \in 1 .. N : h.ex[h.q[l]] \in Int
  <2>1. h \in Heaps /\ h.q \in Seq(Entries)
    BY DEF HeapInv, Heaps
  <2> QED
    BY <1>0, <2>1, HeapElement DEF HeapInv
<1> DEFINE T == {k \in 0 .. N - 1 : ~(h.ex[h.q[1]] <= h.ex[h.q[k + 1]])}
<1>2. ASSUME T # {} PROVE FALSE
  <2>1. T \in SUBSET Nat
    OBVIOUS
  <2>2. PICK k \in T : \A l \in T : k <= l
    BY <1>2, <2>1, Least
  <2>3. CASE k = 0
    <3>1. 1 \in 1 .. N
      BY <1>1
    <3>2. k + 1 = 1
      BY <2>3
    <3> QED
      BY <1>1, <2>2, <3>1, <3>2
  <2>4. CASE k # 0
    <3>1. k \in 1 .. N - 1 /\ k \in Nat \ {0}
      BY <1>1, <2>4
    <3>2. Parent(k) \in Nat /\ Parent(k) < k
      BY <3>1, ParentFacts
    <3>3. Parent(k) \in 0 .. N - 1 /\ Parent(k) \notin T /\ ~Less(h, k, Parent(k))
      BY <1>1, <2>2, <3>1, <3>2 DEF HeapOrdered
    <3>4. k + 1 \in 1 .. N /\ Parent(k) + 1 \in 1 .. N /\ 1 \in 1 .. N
      BY <1>1, <3>1, <3>3
    <3>5. h.ex[h.q[1]] \in Int /\ h.ex[h.q[k + 1]] \in Int /\ h.ex[h.q[Parent(k) + 1]] \in Int
      BY <1>1, <3>4
    <3>6. h.ex[h.q[1]] <= h.ex[h.q[Parent(k) + 1]] /\ ~(h.ex[h.q[k + 1]] < h.ex[h.q[Parent(k) + 1]])
      BY <3>3 DEF Less
    <3> QED
      BY <2>2, <3>5, <3>6
  <2> QED
    BY <2>3, <2>4
<1>3. n - 1 \in 0 .. N - 1 /\ n - 1 \notin T /\ (n - 1) + 1 = n
  BY <1>1, <1>2
<1>4. h.ex[h.q[1]] <= h.ex[h.q[(n - 1) + 1]]
  BY <1>3
<1> QED
  BY <1>1, <1>3, <1>4

-----------------------------------------------------------------------------
(* The timer: the invariant *)

\* The entries handed out, armed and free.
Books ==
    /\ grown \in Nat /\ grown <= MaxEntries
    /\ held \in SUBSET (1 .. grown) /\ ToSet(heap.q) \subseteq held
    /\ free \in Seq((1 .. grown) \ held)
    /\ \A i, j \in DOMAIN free : free[i] = free[j] => i = j
    /\ Len(free) = grown - Cardinality(held)
Signalled == tpc = "wait" /\ ~tick => \A td \in ToSet(heap.q) : deadline <= heap.ex[td]

TimerInv == HeapInv(heap) /\ Books /\ Signalled /\ clock \in Nat /\ deadline \in Int

LEMMA MembersIndexed ==
    ASSUME NEW h, HeapInv(h)
    PROVE  /\ h \in Heaps /\ h.q \in Seq(Entries) /\ ToSet(h.q) \subseteq Entries
           /\ \A td \in ToSet(h.q) : /\ h.ix[td] = 0 <=> td = Head(h.q)
                                     /\ h.q # <<>> /\ h.ex[td] \in Int
                                     /\ Head(h.q) \in ToSet(h.q) /\ h.ex[Head(h.q)] <= h.ex[td]
<1>1. /\ h \in Heaps /\ Indexed(h) /\ h.q \in Seq(Entries) /\ DOMAIN h.q = 1 .. Len(h.q) /\ Len(h.q) \in Nat
      /\ \A n \in 1 .. Len(h.q) : h.q[n] \in Entries /\ h.ex[h.q[n]] \in Int
  <2>1. h \in Heaps /\ Indexed(h)
    BY DEF HeapInv
  <2> QED
    BY <2>1, HeapElement DEF Heaps
<1>2. ToSet(h.q) \subseteq Entries
  BY <1>1 DEF ToSet
<1>3. ASSUME NEW td \in ToSet(h.q)
      PROVE  /\ h.ix[td] = 0 <=> td = Head(h.q)
             /\ h.q # <<>> /\ h.ex[td] \in Int
             /\ Head(h.q) \in ToSet(h.q) /\ h.ex[Head(h.q)] <= h.ex[td]
  <2>1. PICK n \in DOMAIN h.q : td = h.q[n]
    BY <1>3 DEF ToSet
  <2>2. n \in 1 .. Len(h.q) /\ h.ix[td] = n - 1 /\ h.ex[td] \in Int
    BY <1>1, <2>1 DEF Indexed
  <2>3. h.q # <<>> /\ Head(h.q) = h.q[1] /\ 1 \in DOMAIN h.q
    <3>1. 1 \in 1 .. Len(h.q)
      BY <1>1, <2>2
    <3> QED
      BY <1>1, <3>1
  <2>4. h.ix[Head(h.q)] = 0 /\ Head(h.q) \in ToSet(h.q)
    <3>1. h.ix[h.q[1]] = 1 - 1
      BY <1>1, <2>3 DEF Indexed
    <3>2. h.q[1] \in ToSet(h.q)
      BY <2>3 DEF ToSet
    <3> QED
      BY <2>3, <3>1, <3>2
  <2>5. h.ix[td] = 0 => td = Head(h.q)
    <3>1. h.ix[td] = 0 => n = 1
      BY <2>2
    <3> QED
      BY <2>1, <2>3, <3>1
  <2>6. h.ex[Head(h.q)] <= h.ex[td]
    BY <2>1, FirstFacts
  <2> QED
    BY <2>2, <2>3, <2>4, <2>5, <2>6
<1> QED
  BY <1>1, <1>2, <1>3

\* Arming an entry keeps the signal in time: when the entry is the first
\* to expire the signal is set for it, and when it is not, the first one
\* was armed before.
LEMMA ArmKeepsSignal ==
    ASSUME HeapInv(heap), Signalled, deadline \in Int, NEW h, HeapInv(h), h.ex = heap.ex, ToSet(h.q) \subseteq ToSet(heap.q),
           NEW td \in Entries, NEW at \in Int, Added(h, heap', td, at), AddSignal(heap', td), tpc' = tpc,
           td \notin ToSet(h.q)
    PROVE  Signalled' /\ deadline' \in Int
<1>1. /\ HeapInv(heap') /\ td \in ToSet(heap.q)' /\ heap'.ex = [heap.ex EXCEPT ![td] = at]
      /\ ToSet(heap.q)' = ToSet(h.q) \cup {td}
  BY DEF Added
<1>2. \A x \in ToSet(heap.q)' : /\ heap'.ix[x] = 0 <=> x = Head(heap'.q)
                                /\ heap'.ex[x] \in Int /\ heap'.ex[Head(heap'.q)] \in Int
                                /\ Head(heap'.q) \in ToSet(heap.q)' /\ heap'.ex[Head(heap'.q)] <= heap'.ex[x]
  BY <1>1, MembersIndexed
<1>3. CASE heap'.ix[td] = 0
  <2>1. deadline' = heap'.ex[td] /\ td = Head(heap'.q)
    BY <1>1, <1>2, <1>3 DEF AddSignal, Reset
  <2> QED
    BY <1>1, <1>2, <2>1 DEF Signalled
<1>4. CASE heap'.ix[td] # 0
  <2>1. deadline' = deadline /\ tick' = tick
    BY <1>4 DEF AddSignal
  <2> DEFINE first == Head(heap'.q)
  <2>2. first \in ToSet(heap.q) /\ first # td
    BY <1>1, <1>2, <1>4
  <2>3. heap'.ex[first] = heap.ex[first]
    <3>1. heap \in Heaps /\ first \in Entries
      BY <2>2, MembersIndexed
    <3> QED
      BY <1>1, <2>2, <3>1 DEF Heaps
  <2>4. ASSUME tpc = "wait", ~tick, NEW x \in ToSet(heap.q)' PROVE deadline <= heap'.ex[x]
    <3>1. deadline <= heap.ex[first]
      BY <2>2, <2>4 DEF Signalled
    <3>2. heap'.ex[first] <= heap'.ex[x] /\ heap'.ex[x] \in Int /\ heap'.ex[first] \in Int
      BY <1>2, <2>4
    <3> QED
      BY <2>3, <3>1, <3>2
  <2> QED
    BY <2>1, <2>4 DEF Signalled
<1> QED
  BY <1>3, <1>4

LEMMA TimerStart == ASSUME TimerInit PROVE TimerInv
<1>0. Num \in Nat \ {0} /\ Num <= MaxEntries /\ MaxEntries \in Nat /\ MaxClock \in Nat
  BY TimerAssumption
<1>1. heap.q = <<>> /\ heap \in Heaps /\ Len(heap.q) = 0
  BY DEF TimerInit, Heaps
<1>2. HeapInv(heap)
  BY <1>1 DEF HeapInv, Indexed, HeapOrdered
<1>3. ToSet(heap.q) = {}
  BY <1>1 DEF ToSet
<1>4. Books
  <2>1. /\ free \in [1 .. Num -> (1 .. Num) \ held] /\ grown = Num /\ held = {}
        /\ \A i, j \in DOMAIN free : free[i] = free[j] => i = j
    BY DEF TimerInit
  <2>2. free \in Seq((1 .. Num) \ held) /\ Len(free) = Num
    BY <1>0, <2>1, SeqOfFunction
  <2>3. Cardinality(held) = 0
    BY <2>1, FS_EmptySet
  <2> QED
    BY <1>0, <1>3, <2>1, <2>2, <2>3 DEF Books
<1>5. Signalled /\ clock \in Nat /\ deadline \in Int
  BY <1>0 DEF TimerInit, Signalled, Never
<1> QED
  BY <1>2, <1>4, <1>5 DEF TimerInv

LEMMA HeldFinite == ASSUME grown \in Nat, held \in SUBSET (1 .. grown) PROVE IsFiniteSet(held) /\ Cardinality(held) \in Nat
<1>1. IsFiniteSet(1 .. grown)
  BY FS_Interval
<1>2. IsFiniteSet(held)
  BY <1>1, FS_Subset
<1> QED
  BY <1>2, FS_CardinalityType

\* The free list from which get takes: all of it free, also when it was
\* just grown.
LEMMA GrownFacts ==
    ASSUME Books, free # <<>> \/ grown + Num <= MaxEntries, NEW n, n = IF free = <<>> THEN grown + Num ELSE grown
    PROVE  /\ n \in Nat /\ n <= MaxEntries /\ grown <= n
           /\ Grown \in Seq((1 .. n) \ held) /\ Grown # <<>>
           /\ \A i, j \in DOMAIN Grown : Grown[i] = Grown[j] => i = j
           /\ Len(Grown) = n - Cardinality(held)
<1>0. Num \in Nat \ {0} /\ MaxEntries \in Nat
  BY TimerAssumption
<1>1. /\ grown \in Nat /\ grown <= MaxEntries /\ held \in SUBSET (1 .. grown)
      /\ free \in Seq((1 .. grown) \ held) /\ \A i, j \in DOMAIN free : free[i] = free[j] => i = j
      /\ Len(free) = grown - Cardinality(held)
  BY DEF Books
<1>2. CASE free = <<>>
  <2> DEFINE s == [i \in 1 .. Num |-> grown + i]
  <2>1. Grown = s /\ n = grown + Num /\ Len(free) = 0
    BY <1>2 DEF Grown
  <2>2. s \in [1 .. Num -> (1 .. n) \ held]
    <3>1. ASSUME NEW i \in 1 .. Num PROVE grown + i \in 1 .. n /\ grown + i \notin held
      BY <1>0, <1>1, <2>1
    <3> QED
      BY <3>1
  <2>3. s \in Seq((1 .. n) \ held) /\ Len(s) = Num
    BY <1>0, <2>2, SeqOfFunction
  <2>4. s # <<>>
    BY <1>0, <2>3
  <2>5. Cardinality(held) = grown
    <3>1. Cardinality(held) \in Nat
      BY <1>1, HeldFinite
    <3> QED
      BY <1>1, <2>1, <3>1
  <2>6. \A i, j \in DOMAIN s : s[i] = s[j] => i = j
    BY <1>1
  <2> HIDE DEF s
  <2> QED
    BY <1>0, <1>1, <1>2, <2>1, <2>3, <2>4, <2>5, <2>6
<1>3. CASE free # <<>>
  BY <1>1, <1>3 DEF Grown
<1> QED
  BY <1>2, <1>3

LEMMA AddStep == ASSUME TimerInv, TimerAdd PROVE TimerInv'
<1>0. /\ HeapInv(heap) /\ Books /\ Signalled /\ clock \in Nat /\ deadline \in Int
      /\ grown \in Nat /\ held \in SUBSET (1 .. grown) /\ ToSet(heap.q) \subseteq held
  BY DEF TimerInv, Books
<1>1. PICK d \in Delays : /\ heap' = HeapAdd(heap, Head(Grown), clock + d)
                          /\ held' = held \cup {Head(Grown)}
                          /\ AddSignal(heap', Head(Grown))
  BY DEF TimerAdd
<1>2. /\ free # <<>> \/ grown + Num <= MaxEntries
      /\ grown' = IF free = <<>> THEN grown + Num ELSE grown
      /\ free' = Tail(Grown) /\ clock' = clock /\ tpc' = tpc
  BY DEF TimerAdd
<1>3. /\ grown' \in Nat /\ grown' <= MaxEntries /\ grown <= grown'
      /\ Grown \in Seq((1 .. grown') \ held) /\ Grown # <<>>
      /\ \A i, j \in DOMAIN Grown : Grown[i] = Grown[j] => i = j
      /\ Len(Grown) = grown' - Cardinality(held)
  BY <1>0, <1>2, GrownFacts
<1>4. PICK td, s : td = Head(Grown) /\ s = Grown
  OBVIOUS
<1>5. /\ s \in Seq((1 .. grown') \ held) /\ s # <<>> /\ td = s[1] /\ Len(s) \in Nat \ {0} /\ DOMAIN s = 1 .. Len(s)
      /\ td \in (1 .. grown') \ held
  BY <1>3, <1>4
<1>6. td \in Entries /\ td \notin held /\ td \notin ToSet(heap.q) /\ clock + d \in Int
  <2>1. MaxEntries \in Nat /\ Delays \subseteq Nat
    BY TimerAssumption
  <2> QED
    BY <1>0, <1>3, <1>5, <2>1 DEF Entries
<1>7. Added(heap, heap', td, clock + d)
  BY <1>0, <1>1, <1>4, <1>6, AddFacts
<1>8. Signalled' /\ deadline' \in Int
  BY <1>0, <1>1, <1>2, <1>4, <1>6, <1>7, ArmKeepsSignal
<1>9. Books'
  <2>1. ToSet(heap.q)' \subseteq held' /\ held' \in SUBSET (1 .. grown')
    <3>1. ToSet(heap.q)' = ToSet(heap.q) \cup {td}
      BY <1>7 DEF Added
    <3>2. held' = held \cup {td} /\ 1 .. grown \subseteq 1 .. grown'
      BY <1>0, <1>1, <1>3, <1>4
    <3> QED
      BY <1>0, <1>5, <3>1, <3>2
  <2>2. /\ free' \in Seq((1 .. grown') \ held) /\ Len(free') = Len(s) - 1 /\ DOMAIN free' = 1 .. Len(s) - 1
        /\ \A i \in 1 .. Len(s) - 1 : free'[i] = s[i + 1] /\ i + 1 \in 1 .. Len(s) /\ i + 1 # 1
    BY <1>2, <1>4, <1>5
  <2>3. \A i, j \in DOMAIN s : s[i] = s[j] => i = j
    BY <1>3, <1>4
  <2>4. ASSUME NEW i \in 1 .. Len(s) - 1 PROVE free'[i] \in (1 .. grown') \ held'
    <3>1. s[i + 1] # s[1] /\ s[i + 1] \in (1 .. grown') \ held
      <4>1. i + 1 \in DOMAIN s /\ 1 \in DOMAIN s /\ i + 1 # 1
        BY <1>5, <2>2
      <4> QED
        BY <1>5, <2>3, <4>1
    <3> QED
      BY <1>1, <1>4, <1>5, <2>2, <3>1
  <2>5. free' \in Seq((1 .. grown') \ held')
    <3>1. free' = [i \in 1 .. Len(s) - 1 |-> free'[i]]
      BY <2>2
    <3>2. free' \in [1 .. Len(s) - 1 -> (1 .. grown') \ held']
      BY <2>4, <3>1
    <3> QED
      BY <1>5, <3>2, SeqOfFunction
  <2>6. \A i, j \in DOMAIN free' : free'[i] = free'[j] => i = j
    <3>1. ASSUME NEW i \in 1 .. Len(s) - 1, NEW j \in 1 .. Len(s) - 1, free'[i] = free'[j] PROVE i = j
      <4>1. s[i + 1] = s[j + 1] /\ i + 1 \in DOMAIN s /\ j + 1 \in DOMAIN s
        BY <1>5, <2>2, <3>1
      <4>2. i + 1 = j + 1
        BY <2>3, <4>1
      <4> QED
        BY <4>2
    <3> QED
      BY <2>2, <3>1
  <2>7. Cardinality(held') = Cardinality(held) + 1 /\ Cardinality(held) \in Nat
    BY <1>0, <1>1, <1>4, <1>6, HeldFinite, FS_AddElement
  <2>8. Len(free') = grown' - Cardinality(held')
    BY <1>3, <1>4, <1>5, <2>2, <2>7
  <2> QED
    BY <1>3, <2>1, <2>5, <2>6, <2>8 DEF Books
<1> QED
  BY <1>0, <1>2, <1>7, <1>8, <1>9 DEF TimerInv, Added

LEMMA SetStep == ASSUME TimerInv, NEW td \in Entries, NEW d \in Delays, TimerSet(td, d) PROVE TimerInv'
<1>0. /\ HeapInv(heap) /\ Books /\ Signalled /\ clock \in Nat /\ deadline \in Int
      /\ ToSet(heap.q) \subseteq held /\ td \in held
  BY DEF TimerInv, Books, TimerSet
<1>1. PICK h : h = HeapDel(heap, td)
  OBVIOUS
<1>2. /\ heap' = HeapAdd(h, td, clock + d) /\ AddSignal(heap', td)
      /\ free' = free /\ grown' = grown /\ held' = held /\ clock' = clock /\ tpc' = tpc
  BY <1>1 DEF TimerSet
<1>3. HeapInv(h) /\ h.ex = heap.ex /\ ToSet(h.q) = ToSet(heap.q) \ {td}
  BY <1>0, <1>1, DelFacts DEF Removed
<1>4. td \notin ToSet(h.q) /\ ToSet(h.q) \subseteq ToSet(heap.q) /\ clock + d \in Int
  <2>1. Delays \subseteq Nat
    BY TimerAssumption
  <2> QED
    BY <1>0, <1>3, <2>1
<1>5. Added(h, heap', td, clock + d)
  BY <1>2, <1>3, <1>4, AddFacts
<1>6. Signalled' /\ deadline' \in Int
  BY <1>0, <1>2, <1>3, <1>4, <1>5, ArmKeepsSignal
<1>7. ToSet(heap.q)' \subseteq held
  BY <1>0, <1>4, <1>5 DEF Added
<1>8. Books'
  BY <1>0, <1>2, <1>7 DEF Books
<1> QED
  BY <1>0, <1>2, <1>5, <1>6, <1>8 DEF TimerInv, Added

\* Without an entry the signal is in time all the more.
LEMMA DisarmKeepsSignal ==
    ASSUME Signalled, NEW td, Removed(heap, heap', td), tpc' = tpc, deadline' = deadline, tick' = tick
    PROVE  Signalled'
<1>1. heap'.ex = heap.ex /\ ToSet(heap.q)' \subseteq ToSet(heap.q)
  BY DEF Removed
<1> QED
  BY <1>1 DEF Signalled

LEMMA DelStep == ASSUME TimerInv, NEW td \in Entries, TimerDel(td) PROVE TimerInv'
<1>0. /\ HeapInv(heap) /\ Books /\ Signalled /\ clock \in Nat /\ deadline \in Int
      /\ grown \in Nat /\ held \in SUBSET (1 .. grown) /\ td \in held /\ ToSet(heap.q) \subseteq held
  BY DEF TimerInv, Books, TimerDel
<1>1. /\ heap' = HeapDel(heap, td) /\ free' = <<td>> \o free /\ held' = held \ {td}
      /\ grown' = grown /\ clock' = clock /\ deadline' = deadline /\ tick' = tick /\ tpc' = tpc
  BY DEF TimerDel
<1>2. Removed(heap, heap', td)
  BY <1>0, <1>1, DelFacts
<1>3. Signalled'
  BY <1>0, <1>1, <1>2, DisarmKeepsSignal
<1>4. Books'
  <2>0. /\ free \in Seq((1 .. grown) \ held) /\ \A i, j \in DOMAIN free : free[i] = free[j] => i = j
        /\ Len(free) = grown - Cardinality(held) /\ grown <= MaxEntries
    BY <1>0 DEF Books
  <2>1. ToSet(heap.q)' \subseteq held'
    BY <1>0, <1>1, <1>2 DEF Removed
  <2>2. PICK S : S = (1 .. grown) \ (held \ {td})
    OBVIOUS
  <2>3. td \in S /\ free \in Seq(S)
    <3>1. (1 .. grown) \ held \subseteq S
      BY <2>2
    <3>2. \A i \in 1 .. Len(free) : free[i] \in S
      BY <2>0, <3>1
    <3> QED
      BY <1>0, <2>0, <2>2, <3>2
  <2>4. /\ free' \in Seq(S) /\ Len(free') = Len(free) + 1 /\ DOMAIN free' = 1 .. Len(free) + 1 /\ free'[1] = td
        /\ \A i \in 1 .. Len(free) + 1 : i # 1 => free'[i] = free[i - 1] /\ i - 1 \in 1 .. Len(free)
    BY <1>1, <2>3
  <2>5. \A i \in 1 .. Len(free) : i \in DOMAIN free /\ free[i] # td
    BY <1>0, <2>0
  <2>6. ASSUME NEW i \in DOMAIN free', NEW j \in DOMAIN free', free'[i] = free'[j] PROVE i = j
    <3>1. CASE i # 1 /\ j # 1
      <4>1. free[i - 1] = free[j - 1] /\ i - 1 \in DOMAIN free /\ j - 1 \in DOMAIN free
        BY <2>4, <2>5, <2>6, <3>1
      <4>2. i - 1 = j - 1 /\ i \in Nat /\ j \in Nat
        BY <2>0, <2>4, <4>1
      <4> QED
        BY <4>2
    <3>2. CASE i = 1 \/ j = 1
      BY <2>4, <2>5, <2>6, <3>2
    <3> QED
      BY <3>1, <3>2
  <2>7. Cardinality(held') = Cardinality(held) - 1 /\ Cardinality(held) \in Nat
    BY <1>0, <1>1, HeldFinite, FS_RemoveElement
  <2>8. Len(free') = grown - Cardinality(held')
    BY <1>0, <2>0, <2>4, <2>7
  <2> QED
    BY <1>0, <1>1, <2>0, <2>1, <2>2, <2>4, <2>6, <2>8 DEF Books
<1> QED
  BY <1>0, <1>1, <1>2, <1>3, <1>4 DEF TimerInv, Removed

\* The steps of the goroutine, of the runtime and of the clock.
LEMMA LoopStep ==
    ASSUME TimerInv, ExpireFirst \/ RunFn \/ ExpireDone \/ Wake \/ SignalFires \/ ClockTicks
    PROVE  TimerInv'
<1>0. HeapInv(heap) /\ Books /\ Signalled /\ clock \in Nat /\ deadline \in Int
  BY DEF TimerInv
<1>00. Never \in Int
  BY TimerAssumption DEF Never
<1>1. CASE ExpireFirst
  <2>1. /\ heap' = HeapDel(heap, Head(heap.q)) /\ tpc' = "fn" /\ free' = free /\ grown' = grown /\ held' = held
        /\ clock' = clock /\ deadline' = deadline /\ tick' = tick
    BY <1>1 DEF ExpireFirst
  <2>2. Head(heap.q) \in Entries
    <3>1. heap.q # <<>>
      BY <1>1 DEF ExpireFirst, Due
    <3>2. heap.q \in Seq(Entries)
      BY <1>0, MembersIndexed
    <3> QED
      BY <3>1, <3>2
  <2>3. Removed(heap, heap', Head(heap.q))
    BY <1>0, <2>1, <2>2, DelFacts
  <2>4. HeapInv(heap') /\ ToSet(heap.q)' \subseteq ToSet(heap.q)
    BY <2>3 DEF Removed
  <2>5. Books'
    BY <1>0, <2>1, <2>4 DEF Books
  <2>6. Signalled'
    BY <2>1 DEF Signalled
  <2> QED
    BY <1>0, <2>1, <2>4, <2>5, <2>6 DEF TimerInv
<1>2. CASE RunFn
  BY <1>0, <1>2 DEF RunFn, TimerInv, Books, Signalled
<1>3. CASE ExpireDone
  <2>1. heap' = heap /\ free' = free /\ grown' = grown /\ held' = held /\ clock' = clock
    BY <1>3 DEF ExpireDone
  <2>2. deadline' = IF heap.q = <<>> THEN Never ELSE heap.ex[Head(heap.q)]
    BY <1>3 DEF ExpireDone, Reset
  <2>3. \A td \in ToSet(heap.q) : heap.q # <<>> /\ heap.ex[Head(heap.q)] <= heap.ex[td]
    BY <1>0, MembersIndexed
  <2>4. deadline' \in Int
    <3>1. CASE heap.q = <<>>
      BY <1>00, <2>2, <3>1
    <3>2. CASE heap.q # <<>>
      <4>1. heap \in Heaps /\ heap.q \in Seq(Entries)
        BY <1>0, MembersIndexed
      <4>2. Head(heap.q) \in Entries
        BY <3>2, <4>1
      <4> QED
        BY <2>2, <3>2, <4>1, <4>2 DEF Heaps
    <3> QED
      BY <3>1, <3>2
  <2>5. Signalled'
    BY <2>1, <2>2, <2>3 DEF Signalled
  <2>6. Books'
    BY <1>0, <2>1 DEF Books
  <2> QED
    BY <1>0, <2>1, <2>4, <2>5, <2>6 DEF TimerInv
<1>4. CASE Wake
  BY <1>0, <1>4 DEF Wake, TimerInv, Books, Signalled
<1>5. CASE SignalFires
  BY <1>0, <1>00, <1>5 DEF SignalFires, TimerInv, Books, Signalled
<1>6. CASE ClockTicks
  BY <1>0, <1>6 DEF ClockTicks, TimerInv, Books, Signalled
<1> QED
  BY <1>1, <1>2, <1>3, <1>4, <1>5, <1>6

LEMMA TimerStep == ASSUME TimerInv, [TimerNext]_timerVars PROVE TimerInv'
<1>1. CASE TimerNext
  BY <1>1, AddStep, SetStep, DelStep, LoopStep DEF TimerNext
<1>2. CASE UNCHANGED timerVars
  BY <1>2 DEF timerVars, TimerInv, Books, Signalled
<1> QED
  BY <1>1, <1>2

\* The heap of the timer is ordered, every armed entry knows its position,
\* the entries are armed, held or free as the callers believe, and while the
\* goroutine waits the signal is set for no later than the first expiry:
\* whatever Add, Set and Del do while expired functions run (timer.go).
THEOREM TimerInvariance == TimerSpec => []TimerInv
BY TimerStart, TimerStep, PTL DEF TimerSpec

\* No timeout is slept through, for any number of entries, any delays and
\* any heap they form (start, expire, add, del, up, down of timer.go).
THEOREM TimeoutsInTime == TimerSpec => []InTime
<1>1. ASSUME TimerInv PROVE InTime
  <2>1. HeapInv(heap) /\ Books /\ Signalled
    BY <1>1 DEF TimerInv
  <2>2. heap \in Heaps /\ Indexed(heap) /\ HeapOrdered(heap, Len(heap.q))
    BY <2>1 DEF HeapInv
  <2>3. tpc = "wait" /\ ~tick => \A i \in DOMAIN heap.q : deadline <= heap.ex[heap.q[i]]
    BY <2>1 DEF Signalled, ToSet
  <2>4. \A j \in 1 .. (Len(heap.q) - 1) : ~Less(heap, j, (j - 1) \div 2)
    BY <2>2 DEF HeapOrdered, Parent
  <2>5. \A i \in DOMAIN heap.q : heap.ix[heap.q[i]] = i - 1
    BY <2>2 DEF Indexed
  <2>6. ToSet(heap.q) \subseteq held /\ Len(free) = grown - Cardinality(held)
    BY <2>1 DEF Books
  <2>7. ToSet(free) \cap held = {}
    <3>1. free \in Seq((1 .. grown) \ held)
      BY <2>1 DEF Books
    <3>2. \A i \in DOMAIN free : free[i] \notin held
      BY <3>1
    <3> QED
      BY <3>2 DEF ToSet
  <2> QED
    BY <2>3, <2>4, <2>5, <2>6, <2>7 DEF InTime
<1>2. TimerInv => InTime
  BY <1>1
<1> QED
  BY <1>2, TimerInvariance, PTL

=============================================================================
