-------------------------------- MODULE Chat --------------------------------
(***************************************************************************)
(* Customer support chat of the notify service (internal/notify/service/   *)
(* chat.go over internal/notify/store/chat.go): private conversations of   *)
(* an order's customer and merchant, merchant groups, messages pushed to   *)
(* the receiver and their delivery marks.  Every request runs in its own   *)
(* goroutine and every SQL statement or transaction is a step of its own.  *)
(* A statement may fail, which ends the request with an error.             *)
(***************************************************************************)
EXTENDS Integers, FiniteSets, Sequences

CONSTANTS
    Pairs,              \* [order, customer, merchant] of private conversations
    Groups,             \* [id, room, merchant] of merchant_groups, seeded at start-up
    ChatUsers,          \* user IDs of senders and joiners
    Chatters,           \* goroutines serving chat requests
    MaxConversations,   \* bound: conversation IDs generated
    MaxMessages         \* bound: messages inserted

ASSUME ChatAssumption ==
    /\ {MaxConversations, MaxMessages} \subseteq Nat
    /\ \A g, h \in Groups : g.id = h.id \/ g.room = h.room => g = h
    \* Groups are named "grp_...", conversations "CHAT-...".
    /\ \A g \in Groups, n \in 1..MaxConversations : g.id # <<"CHAT", n>>
    \* HandleCreateChatConversation replaces a customer 0.
    /\ \A p \in Pairs : p.customer # 0
    /\ Pairs \cap Groups = {}

VARIABLES
    convs,      \* chat_conversations: rows [id, kind, order, customer, merchant, room, last]
    minted,     \* conversation IDs generated
    members,    \* chat_members: rows <<conversation, user>>
    counts,     \* merchant_groups.member_count, by group
    missed,     \* history: count updates that failed, by group
    msgs,       \* chat_messages: message ID -> row
    chats,      \* [Chatters -> the request being served]
    answers,    \* history: [want, conv, users]: conversations answered to requests
    readMarks   \* history: messages marked read

chatVars == <<convs, minted, members, counts, missed, msgs, chats, answers, readMarks>>

Quiet == [pc |-> "idle"]

ChatInit ==
    /\ convs = {} /\ minted = 0 /\ members = {} /\ msgs = <<>>
    /\ counts = [g \in Groups |-> 0] /\ missed = [g \in Groups |-> 0]
    /\ chats = [c \in Chatters |-> Quiet]
    /\ answers = {} /\ readMarks = {}

-----------------------------------------------------------------------------
\* Rows and queries.

Conversation(id) == CHOOSE v \in convs : v.id = id
SamePair(v, w) == v.order = w.order /\ v.customer = w.customer /\ v.merchant = w.merchant

\* INSERT ... ON DUPLICATE KEY UPDATE: the primary key and the unique
\* (order, customer, merchant); only title and times of the old row change.
UpsertChatConversation(v) ==
    convs' = IF \E w \in convs : w.id = v.id \/ SamePair(v, w) THEN convs ELSE convs \cup {v}

GetChatConversationByOrder(p) == {w \in convs : w.kind = "private" /\ SamePair(p, w)}
GetChatConversation(id) == {w \in convs : w.id = id}

IsChatMember(id, u) == <<id, u>> \in members

\* canAccessConversation, isChatParticipant.
CanAccessConversation(v, u) ==
    \/ u = v.merchant
    \/ v.kind = "group" /\ IsChatMember(v.id, u)
    \/ v.kind = "private" /\ u = v.customer

\* The conversations of ListChatConversations.
ListChatConversations(u) ==
    {w \in convs : w.customer = u \/ w.merchant = u \/ IsChatMember(w.id, u)}

\* UpdateChatMessageStatus as one UPDATE of every column.
UpdateChatMessageStatusAll(m, status, delivered, read) ==
    msgs' = [msgs EXCEPT ![m].status = status, ![m].deliveredAt = delivered, ![m].readAt = read]

\* UpdateChatMessageStatus: a nil time leaves its column alone.
UpdateChatMessageStatus(m, status, delivered, read) ==
    msgs' = [msgs EXCEPT ![m].status = status, ![m].deliveredAt = @ \/ delivered, ![m].readAt = @ \/ read]

-----------------------------------------------------------------------------
\* Requests.

Serve(c, after) == chats' = [chats EXCEPT ![c] = after]

\* A failing statement, an unknown conversation, a caller without access:
\* writeChatError.
WriteChatError(c) ==
    /\ chats[c].pc \notin {"idle", "status"}
    /\ Serve(c, Quiet)
    /\ UNCHANGED <<convs, minted, members, counts, missed, msgs, answers, readMarks>>

\* CreateConversation of a fresh ID: the upsert.
CreateConversation(c, p) ==
    /\ chats[c].pc = "idle" /\ minted < MaxConversations
    /\ minted' = minted + 1
    /\ UpsertChatConversation([id |-> <<"CHAT", minted'>>, kind |-> "private", order |-> p.order,
                               customer |-> p.customer, merchant |-> p.merchant,
                               room |-> <<"order_chat", p.order>>, last |-> 0])
    /\ Serve(c, [pc |-> "byOrder", pair |-> p])
    /\ UNCHANGED <<members, counts, missed, msgs, answers, readMarks>>

\* ... and the SELECT that answers it.
AnswerByOrder(c) ==
    /\ chats[c].pc = "byOrder"
    /\ \E v \in GetChatConversationByOrder(chats[c].pair) :
           answers' = answers \cup {[want |-> chats[c].pair, conv |-> v.id,
                                     users |-> {v.customer, v.merchant}]}
    /\ Serve(c, Quiet)
    /\ UNCHANGED <<convs, minted, members, counts, missed, msgs, readMarks>>

\* JoinMerchantGroup: the group of the room, its conversation upserted.
JoinMerchantGroup(c, g, u) ==
    /\ chats[c].pc = "idle"
    /\ UpsertChatConversation([id |-> g.id, kind |-> "group", order |-> <<"group", g.room>>,
                               customer |-> 0, merchant |-> g.merchant, room |-> g.room, last |-> 0])
    /\ Serve(c, [pc |-> "join", group |-> g, user |-> u])
    /\ UNCHANGED <<minted, members, counts, missed, msgs, answers, readMarks>>

\* AddChatMember: one transaction; INSERT IGNORE, and the count of the
\* group goes up when a row was inserted.  An error of the count is ignored.
AddChatMember(c, counted) ==
    /\ chats[c].pc = "join"
    /\ LET r == chats[c]
           v == Conversation(r.group.id)
           new == ~IsChatMember(v.id, r.user)
           of == {g \in Groups : g.room = v.room}
       IN  /\ members' = members \cup {<<v.id, r.user>>}
           /\ counts' = [g \in Groups |-> counts[g] + IF new /\ counted /\ g \in of THEN 1 ELSE 0]
           /\ missed' = [g \in Groups |-> missed[g] + IF new /\ ~counted /\ g \in of THEN 1 ELSE 0]
           /\ answers' = answers \cup {[want |-> r.group, conv |-> v.id, users |-> {r.user}]}
    /\ Serve(c, Quiet)
    /\ UNCHANGED <<convs, minted, msgs, readMarks>>

\* SendMessage: the conversation is read and the sender's access checked.
SendMessage(c, id, u) ==
    /\ chats[c].pc = "idle"
    /\ \E v \in GetChatConversation(id) : CanAccessConversation(v, u)
    /\ Serve(c, [pc |-> "insert", conv |-> id, user |-> u])
    /\ UNCHANGED <<convs, minted, members, counts, missed, msgs, answers, readMarks>>

\* InsertChatMessage: the message and the conversation's last message, in
\* one transaction.
InsertChatMessage(c) ==
    /\ chats[c].pc = "insert" /\ Cardinality(DOMAIN msgs) < MaxMessages
    /\ LET v == Conversation(chats[c].conv)
           u == chats[c].user
           m == Cardinality(DOMAIN msgs) + 1
           receiver == IF v.kind = "group" THEN 0 ELSE IF u = v.customer THEN v.merchant ELSE v.customer
       IN  /\ msgs' = [k \in 1..m |->
                          IF k < m THEN msgs[k]
                          ELSE [conv |-> v.id, sender |-> u, receiver |-> receiver,
                                status |-> "pending", deliveredAt |-> FALSE, readAt |-> FALSE]]
           /\ convs' = (convs \ {v}) \cup {[v EXCEPT !.last = m]}
           /\ Serve(c, [pc |-> "deliver", msg |-> m, kind |-> v.kind])
    /\ UNCHANGED <<minted, members, counts, missed, answers, readMarks>>

\* What deliver and deliverGroup may answer: the status and whether a time
\* of delivery comes with it.
Deliver(kind) ==
    IF kind = "group" THEN {<<"pending", FALSE>>, <<"failed", FALSE>>, <<"sent", TRUE>>}
    ELSE {<<"pending", FALSE>>, <<"failed", FALSE>>, <<"sent", FALSE>>, <<"delivered", TRUE>>}

\* The message is pushed.
Push(c) ==
    /\ chats[c].pc = "deliver"
    /\ \E out \in Deliver(chats[c].kind) : Serve(c, [pc |-> "status", msg |-> chats[c].msg, out |-> out])
    /\ UNCHANGED <<convs, minted, members, counts, missed, msgs, answers, readMarks>>

\* The status the push gave is written; its failure is answered with the
\* message.
RecordStatus(c) ==
    /\ chats[c].pc = "status"
    /\ \/ UpdateChatMessageStatus(chats[c].msg, chats[c].out[1], chats[c].out[2], FALSE)
       \/ UNCHANGED msgs
    /\ Serve(c, Quiet)
    /\ UNCHANGED <<convs, minted, members, counts, missed, answers, readMarks>>

\* MarkMessageStatus: the receiver's client reports, or an operator sets, a
\* status.
MarkMessageStatus(m, status) ==
    /\ UpdateChatMessageStatus(m, status, status \in {"delivered", "read"}, status = "read")
    /\ readMarks' = IF status = "read" THEN readMarks \cup {m} ELSE readMarks
    /\ UNCHANGED <<convs, minted, members, counts, missed, chats, answers>>

ChatNext ==
    \/ \E c \in Chatters :
           \/ \E p \in Pairs : CreateConversation(c, p)
           \/ \E g \in Groups, u \in ChatUsers : JoinMerchantGroup(c, g, u)
           \/ \E v \in convs, u \in ChatUsers : SendMessage(c, v.id, u)
           \/ AnswerByOrder(c) \/ InsertChatMessage(c) \/ Push(c) \/ RecordStatus(c) \/ WriteChatError(c)
           \/ \E counted \in BOOLEAN : AddChatMember(c, counted)
    \/ \E m \in DOMAIN msgs, status \in {"pending", "sent", "failed", "delivered", "read"} :
           MarkMessageStatus(m, status)

ChatSpec == ChatInit /\ [][ChatNext]_chatVars

-----------------------------------------------------------------------------
ConvIDs == {<<"CHAT", n>> : n \in 1..MaxConversations} \cup {g.id : g \in Groups}
Customers == {p.customer : p \in Pairs} \cup {0}
Merchants == {x.merchant : x \in Pairs \cup Groups}
ConvRows == [id : ConvIDs, kind : {"private", "group"},
             order : {p.order : p \in Pairs} \cup {<<"group", g.room>> : g \in Groups},
             customer : Customers, merchant : Merchants,
             room : {<<"order_chat", p.order>> : p \in Pairs} \cup {g.room : g \in Groups}, last : Nat]
MsgRows == [conv : ConvIDs, sender : ChatUsers, receiver : Customers \cup Merchants,
            status : {"pending", "sent", "failed", "delivered", "read"},
            deliveredAt : BOOLEAN, readAt : BOOLEAN]
Outcomes == Deliver("private") \cup Deliver("group")
ChatStates == {Quiet} \cup [pc : {"byOrder"}, pair : Pairs]
                      \cup [pc : {"join"}, group : Groups, user : ChatUsers]
                      \cup [pc : {"insert"}, conv : ConvIDs, user : ChatUsers]
                      \cup [pc : {"deliver"}, msg : Nat, kind : {"private", "group"}]
                      \cup [pc : {"status"}, msg : Nat, out : Outcomes]
ChatTypeOK ==
    /\ convs \subseteq ConvRows /\ minted \in 0..MaxConversations
    /\ members \subseteq ConvIDs \X ChatUsers /\ IsFiniteSet(members)
    /\ counts \in [Groups -> Nat] /\ missed \in [Groups -> Nat]
    /\ msgs \in Seq(MsgRows) /\ readMarks \subseteq 1..Len(msgs)
    /\ chats \in [Chatters -> ChatStates]
    /\ answers \subseteq [want : Pairs \cup Groups, conv : ConvIDs, users : SUBSET (ChatUsers \cup Customers \cup Merchants)]

\* Requests for one order and pair, or for one group, are answered with one
\* conversation, and whoever it was answered to can list and open it.
OneConversation ==
    \A a \in answers :
        /\ \A b \in answers : a.want = b.want => a.conv = b.conv
        /\ \E v \in GetChatConversation(a.conv) :
               \A u \in a.users : v \in ListChatConversations(u) /\ CanAccessConversation(v, u)

\* A group counts its members, except for the updates that failed.
MembersCounted ==
    \A g \in Groups :
        counts[g] + missed[g] = Cardinality({r \in members : r[1] = g.id})

\* Whatever order the sender's own update and the reader's mark arrive in, a
\* message marked read keeps its times, and the last message of a
\* conversation is one of its own, sent by one who may open it.
MessagesKept ==
    /\ \A m \in readMarks : msgs[m].deliveredAt /\ msgs[m].readAt
    /\ \A v \in convs : v.last # 0 => msgs[v.last].conv = v.id
    /\ \A m \in DOMAIN msgs : CanAccessConversation(Conversation(msgs[m].conv), msgs[m].sender)

\* Concurrent chat requests (service/chat.go) leave conversations, member
\* counts and messages in agreement with what was answered.
ChatAgrees == OneConversation /\ MembersCounted /\ MessagesKept
=============================================================================
