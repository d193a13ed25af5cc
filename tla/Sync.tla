-------------------------------- MODULE Sync --------------------------------
(***************************************************************************)
(* Offline sync of one user (internal/logic/service/sync.go over           *)
(* internal/logic/dao/redis.go and redis_cursor.go).  Messages are written *)
(* by the routers: a sequence number is taken, the status hash is created, *)
(* the message is indexed in user_msgs:{uid}.  The user's device pulls     *)
(* pages of the index (GetOfflineMessages, GetOfflineMessagesByDevice) and *)
(* has them pushed when it comes online (OnUserOnlineWithDevice); requests *)
(* overlap, and every Redis command or pipeline is a step that may fail.   *)
(* A message is identified by its sequence number.                         *)
(***************************************************************************)
EXTENDS Integers, FiniteSets, FiniteSetsExt

CONSTANTS
    MaxSeq,     \* bound: sequence numbers taken
    PageLimit,  \* limit of a page
    Pulls,      \* goroutines serving the device's requests
    MaxSyncs    \* bound: requests of the device

ASSUME SyncAssumption == {MaxSeq, MaxSyncs} \subseteq Nat /\ PageLimit \in Nat \ {0}

Seqs == 1..MaxSeq

VARIABLES
    maxSeq,     \* user_seq:{uid}
    hash,       \* [Seqs -> "none", "pending", "acked" or "gone"]: the status hashes
    index,      \* user_msgs:{uid}
    queue,      \* offline:{uid}
    cursor,     \* device_cursor:{uid}:{device}
    syncs,      \* requests made so far
    pulls,      \* [Pulls -> the request being served]
    last,       \* the client's last sequence number
    handed,     \* history: messages the device was sent by sync
    excused,    \* history: messages passed that were acked, lapsed, or not yet indexed
    ended       \* history: a reply said there is no more while there was

syncVars == <<maxSeq, hash, index, queue, cursor, syncs, pulls, last, handed, excused, ended>>
written == <<maxSeq, hash, index>>
deviceVars == <<last, handed, excused, ended>>

Served == [pc |-> "idle"]

SyncInit ==
    /\ maxSeq = 0 /\ hash = [m \in Seqs |-> "none"] /\ index = {} /\ queue = {} /\ cursor = 0
    /\ pulls = [w \in Pulls |-> Served] /\ syncs = 0
    /\ last = 0 /\ handed = {} /\ excused = {} /\ ended = FALSE

Larger(a, b) == IF a > b THEN a ELSE b

-----------------------------------------------------------------------------
\* What the routers write.

IncrUserSeqBy ==
    /\ maxSeq < MaxSeq
    /\ maxSeq' = maxSeq + 1
    /\ UNCHANGED <<hash, index, queue, cursor, syncs, pulls, deviceVars>>

\* TrackMessageAtomic creates the hash, AddUserMessage then indexes the
\* message: nothing here reads the hash of a message not indexed, so the two
\* are one step.  AddToOfflineQueue follows when it could not be pushed.
TrackMessage(m, offline) ==
    /\ m <= maxSeq /\ hash[m] = "none"
    /\ hash' = [hash EXCEPT ![m] = "pending"]
    /\ index' = index \cup {m}
    /\ queue' = IF offline THEN queue \cup {m} ELSE queue
    /\ UNCHANGED <<maxSeq, cursor, syncs, pulls, deviceVars>>

\* The message is acked, or its hash lapses.
StatusMoves(m) ==
    /\ \/ hash[m] = "pending" /\ hash' = [hash EXCEPT ![m] = "acked"]
       \/ hash[m] \in {"pending", "acked"} /\ hash' = [hash EXCEPT ![m] = "gone"]
    /\ UNCHANGED <<maxSeq, index, queue, cursor, syncs, pulls, deviceVars>>

-----------------------------------------------------------------------------
\* Reads.

Above(lastSeq) == {m \in index : m > lastSeq}

\* A page of the newest messages.
GetUserMessagesAfterSeqNewest(lastSeq) ==
    {m \in Above(lastSeq) : Cardinality({x \in Above(lastSeq) : x > m}) < PageLimit}

\* ZRANGEBYSCORE (lastSeq +inf LIMIT 0 limit: the first of them.
GetUserMessagesAfterSeq(lastSeq) ==
    {m \in Above(lastSeq) : Cardinality({x \in Above(lastSeq) : x < m}) < PageLimit}

\* buildMessagesFromStatuses: a lapsed hash is skipped, an acked message
\* moves the sequence number and leaves the offline queue, any other is sent.
BuildMessages(lastSeq, page) ==
    LET known == {m \in page : hash[m] \in {"pending", "acked"}}
    IN  [messages |-> {m \in known : hash[m] = "pending"},
         acked |-> {m \in known : hash[m] = "acked"},
         seq |-> IF known = {} THEN lastSeq ELSE Larger(lastSeq, Max(known))]

\* The messages a request passes without sending them, with good reason:
\* not indexed when the page was read, acked or lapsed.
Excuse(r, seq) == {m \in r.base + 1 .. seq : m \notin r.seen \/ hash[m] \in {"acked", "gone"}}

-----------------------------------------------------------------------------
\* Requests.

Proceed(w, r) == pulls' = [pulls EXCEPT ![w] = r]
StartAt(how, base) == [pc |-> "page", how |-> how, base |-> base, max |-> 0]

Called(w) == pulls[w].pc = "idle" /\ syncs < MaxSyncs /\ syncs' = syncs + 1

\* GetOfflineMessages: after the sequence number the client names.
GetOfflineMessages(w) ==
    /\ Called(w)
    /\ Proceed(w, StartAt("pull", last))
    /\ UNCHANGED <<written, queue, cursor, deviceVars>>

\* GetOfflineMessagesByDevice: after the device's cursor.
GetOfflineMessagesByDevice(w) ==
    /\ Called(w)
    /\ Proceed(w, StartAt("device", cursor))
    /\ UNCHANGED <<written, queue, cursor, deviceVars>>

\* OnUserOnlineWithDevice: after the cursor, zero when it cannot be read, or
\* the client's number if that is larger; syncOffline reads the maximum.
OnUserOnlineWithDevice(w) ==
    /\ Called(w)
    /\ \E c \in {cursor, 0} :
           Proceed(w, [StartAt("online", Larger(c, last)) EXCEPT !.max = maxSeq])
    /\ UNCHANGED <<written, queue, cursor, deviceVars>>

\* The page.  Coming online ends with an empty page, or without a session.
ReadPage(w) ==
    /\ pulls[w].pc = "page"
    /\ LET r == pulls[w]
           page == GetUserMessagesAfterSeq(r.base)
           read == [pc |-> CASE r.how = "online" -> "build" [] r.how = "device" -> "cursor" [] OTHER -> "max",
                    how |-> r.how, base |-> r.base, from |-> r.base, max |-> r.max, maxRead |-> FALSE,
                    page |-> page, full |-> Cardinality(page) >= PageLimit, seen |-> index]
       IN  \/ ~(r.how = "online" /\ page = {}) /\ Proceed(w, read)
           \/ r.how = "online" /\ Proceed(w, Served)
    /\ UNCHANGED <<written, syncs, queue, cursor, deviceVars>>

\* buildSyncReply reads the cursor again; an error counts as zero.
ReadCursor(w) ==
    /\ pulls[w].pc = "cursor"
    /\ \E c \in {cursor, 0} : Proceed(w, [pulls[w] EXCEPT !.pc = "max", !.from = c])
    /\ UNCHANGED <<written, syncs, queue, cursor, deviceVars>>

\* GetUserMaxSeq of a pull; an error counts as zero.
ReadMax(w) ==
    /\ pulls[w].pc = "max"
    /\ \E ok \in BOOLEAN :
           Proceed(w, [pulls[w] EXCEPT !.pc = "build", !.max = IF ok THEN maxSeq ELSE 0, !.maxRead = ok])
    /\ UNCHANGED <<written, syncs, queue, cursor, deviceVars>>

\* A command fails: the request ends with an error.
SyncFails(w) ==
    /\ pulls[w].pc \in {"page", "build"}
    /\ Proceed(w, Served)
    /\ UNCHANGED <<written, syncs, queue, cursor, deviceVars>>

\* The statuses of the page, and the reply: the client moves to CurrentSeq.
Reply(w) ==
    /\ pulls[w].pc = "build" /\ pulls[w].how \in {"pull", "device"}
    /\ LET r == pulls[w]
           b == BuildMessages(r.from, r.page)
           hasMore == b.seq < r.max /\ r.full
       IN  /\ queue' = queue \ b.acked
           /\ last' = b.seq
           /\ handed' = handed \cup b.messages
           /\ excused' = excused \cup Excuse(r, b.seq)
           /\ ended' = (ended \/ (~hasMore /\ r.maxRead /\ \E m \in r.seen \ r.page : m > Larger(r.base, b.seq)))
           /\ Proceed(w, Served)
    /\ UNCHANGED <<written, syncs, cursor>>

\* syncOffline: the statuses, and nothing to send ends it.
BuildPush(w) ==
    /\ pulls[w].pc = "build" /\ pulls[w].how = "online"
    /\ LET r == pulls[w]
           b == BuildMessages(r.from, r.page)
       IN  /\ queue' = queue \ b.acked
           /\ Proceed(w, IF b.messages = {} THEN Served
                         ELSE [pc |-> "push", base |-> r.base, messages |-> b.messages, seq |-> b.seq,
                               excuse |-> Excuse(r, b.seq)])
    /\ UNCHANGED <<written, syncs, cursor, deviceVars>>

\* DirectPush to the session reaches the device, or fails and ends it.
PushPage(w) ==
    /\ pulls[w].pc = "push"
    /\ LET r == pulls[w]
       IN  \/ /\ last' = r.seq
              /\ handed' = handed \cup r.messages
              /\ excused' = excused \cup r.excuse
              /\ Proceed(w, IF r.seq > r.base THEN [pc |-> "advance", seq |-> r.seq] ELSE Served)
           \/ Proceed(w, Served) /\ UNCHANGED <<last, handed, excused>>
    /\ UNCHANGED <<written, syncs, queue, cursor, ended>>

\* AdvanceDeviceCursor: GET (an error counts as zero), then SET if larger.
AdvanceGet(w) ==
    /\ pulls[w].pc = "advance"
    /\ \E current \in {cursor, 0} :
           Proceed(w, IF pulls[w].seq <= current THEN Served ELSE [pc |-> "set", seq |-> pulls[w].seq])
    /\ UNCHANGED <<written, syncs, queue, cursor, deviceVars>>

AdvanceSet(w) ==
    /\ pulls[w].pc = "set"
    /\ cursor' \in {pulls[w].seq, cursor}
    /\ Proceed(w, Served)
    /\ UNCHANGED <<written, syncs, queue, deviceVars>>

SyncNext ==
    \/ IncrUserSeqBy
    \/ \E m \in Seqs : StatusMoves(m) \/ \E offline \in BOOLEAN : TrackMessage(m, offline)
    \/ \E w \in Pulls :
           \/ GetOfflineMessages(w) \/ GetOfflineMessagesByDevice(w) \/ OnUserOnlineWithDevice(w)
           \/ ReadPage(w) \/ ReadCursor(w) \/ ReadMax(w) \/ SyncFails(w) \/ Reply(w)
           \/ BuildPush(w) \/ PushPage(w) \/ AdvanceGet(w) \/ AdvanceSet(w)

SyncSpec == SyncInit /\ [][SyncNext]_syncVars

-----------------------------------------------------------------------------
Marks == 0..MaxSeq
Ways == {"pull", "device", "online"}
PullStates == {Served} \cup [pc : {"page"}, how : Ways, base : Marks, max : Marks]
                       \cup [pc : {"cursor", "max", "build"}, how : Ways, base : Marks, from : Marks, max : Marks,
                             maxRead : BOOLEAN, page : SUBSET Seqs, full : BOOLEAN, seen : SUBSET Seqs]
                       \cup [pc : {"push"}, base : Marks, messages : SUBSET Seqs, seq : Marks, excuse : SUBSET Seqs]
                       \cup [pc : {"advance", "set"}, seq : Marks]
SyncTypeOK ==
    /\ maxSeq \in Marks /\ hash \in [Seqs -> {"none", "pending", "acked", "gone"}]
    /\ index \subseteq Seqs /\ queue \subseteq Seqs /\ cursor \in Marks /\ syncs \in 0..MaxSyncs
    /\ pulls \in [Pulls -> PullStates]
    /\ last \in Marks /\ handed \subseteq Seqs /\ excused \subseteq Seqs /\ ended \in BOOLEAN

\* However pulls and pushes overlap (sync.go), the client's number and the
\* device's cursor pass no message the device was not sent, unless it was
\* acked, had lapsed, or was indexed after the page was read; and a reply
\* that could read the maximum never says there is no more while its index
\* held more.
NothingSkipped ==
    /\ \A m \in 1..Larger(last, cursor) : m \in handed \cup excused
    /\ ~ended
=============================================================================
