---------------------------- MODULE ChatService ----------------------------
(***************************************************************************)
(* The chat of the messaging service: conversations, messages and read     *)
(* marks in MongoDB, the registry of connected sockets in memory, and what *)
(* is emitted to them.  Every await in a handler ends one of its steps     *)
(* here, and other handlers, connections and disconnections come between.  *)
(*                                                                         *)
(* Conversations and messages are named by the order in which they were    *)
(* saved.  A send comes from a socket (sendMessage of ChatGateway) or over *)
(* HTTP (ChatController), and so does a mark; creating is only over HTTP.  *)
(* Users and conversations in a request are those of a client that has     *)
(* authenticated.  The texts of messages are left out.                     *)
(*                                                                         *)
(* Definitions after a "Slip:" comment are plausible mistakes; the checks  *)
(* of sensitivity in PROJECT.json put them in the place of the original.   *)
(***************************************************************************)
EXTENDS Integers, Sequences, FiniteSetsExt

CONSTANTS
    User, Socket, Request,
    Nobody,             \* no user is registered for a socket
    NoSocket,           \* a request that came over HTTP
    Operations,         \* a subset of {"create", "send", "mark"}
    Faults,             \* a subset of {"database", "answer"}: a call to the database fails,
                        \* or is done, in part perhaps, and its answer lost
    First,              \* the conversations there are when the service starts
    Earlier             \* the messages there are then

Type == {"direct", "group"}

ASSUME ChatAssumption ==
    /\ IsFiniteSet(User) /\ Nobody \notin User
    /\ NoSocket \notin Socket
    /\ First \in Seq([type : Type, members : SUBSET User])
    /\ Earlier \in Seq([conv : 1..Len(First), sender : User, readBy : [User -> 0..1]])

VARIABLES
    socketUser,     \* socketIdToUser
    userSockets,    \* userIdToSockets
    conversations,  \* their types and participants
    last,           \* their lastMessage, 0 if there is none
    messages,       \* each message's conversation, sender and readers
    inbox,          \* the messages emitted to each socket while it is connected
    told,           \* readUpdated: who was told that whom has read which conversation
    pc, op, who, from,
    conv,           \* the conversation a request is about, or answers with
    asked,          \* creating: the type and participants asked for
    msg,            \* sending: the message saved
    senders,        \* marking: whose messages were found unread
    finished        \* ghost: for each message, those whose send had ended before its send began

registry == <<socketUser, userSockets>>
store == <<conversations, last, messages>>
call == <<op, who, from>>
vars == <<registry, store, inbox, told, pc, call, conv, asked, msg, senders, finished>>

NoQuery == [type |-> "group", members |-> {}]

Init ==
    /\ socketUser = [s \in Socket |-> Nobody]
    /\ userSockets = [u \in User |-> {}]
    /\ conversations = First
    /\ messages = Earlier
    /\ last = [c \in 1..Len(First) |-> Max({0} \cup {m \in 1..Len(Earlier) : Earlier[m].conv = c})]
    /\ inbox = [s \in Socket |-> {}]
    /\ told = {}
    /\ pc = [r \in Request |-> "new"]
    /\ op = [r \in Request |-> "none"]
    /\ who \in [Request -> User]
    /\ from = [r \in Request |-> NoSocket]
    /\ conv = [r \in Request |-> 0]
    /\ asked = [r \in Request |-> NoQuery]
    /\ msg = [r \in Request |-> 0]
    /\ senders = [r \in Request |-> {}]
    /\ finished = [r \in Request |-> {}]

Goto(r, l) == pc' = [pc EXCEPT ![r] = l]

Members(c) == conversations[c].members

-----------------------------------------------------------------------------
(* The registry of sockets.                                                *)

\* registerConnection, for a socket whose token is valid.
Connect(s) ==
    /\ socketUser[s] = Nobody
    /\ \E u \in User : /\ socketUser' = [socketUser EXCEPT ![s] = u]
                       /\ userSockets' = [userSockets EXCEPT ![u] = @ \cup {s}]
    /\ UNCHANGED <<store, inbox, told, pc, call, conv, asked, msg, senders, finished>>

\* removeConnection.  A socket here is a place for one connection at a time: the
\* next has an id of its own in the program, where nothing refers to the old one
\* any more (of a request, only whether it came from a socket matters).
Disconnect(s) ==
    /\ socketUser[s] # Nobody
    /\ socketUser' = [socketUser EXCEPT ![s] = Nobody]
    /\ userSockets' = [userSockets EXCEPT ![socketUser[s]] = @ \ {s}]
    /\ inbox' = [inbox EXCEPT ![s] = {}]
    /\ UNCHANGED <<store, told, pc, call, conv, asked, msg, senders, finished>>

-----------------------------------------------------------------------------
(* Requests.  Over a socket, the user is the one the socket is registered   *)
(* for, and without one nothing happens.                                    *)

Arrive(r) ==
    /\ pc[r] = "new"
    /\ \E o \in Operations, s \in Socket \cup {NoSocket}, c \in 0..Len(conversations) :
        /\ IF s = NoSocket THEN UNCHANGED who
           ELSE /\ o # "create"
                /\ socketUser[s] # Nobody
                /\ who' = [who EXCEPT ![r] = socketUser[s]]
        /\ op' = [op EXCEPT ![r] = o]
        /\ from' = [from EXCEPT ![r] = s]
        /\ conv' = [conv EXCEPT ![r] = IF o = "create" THEN 0 ELSE c]
        /\ IF o = "create"
           THEN \E t \in Type, p \in SUBSET User :
                   /\ asked' = [asked EXCEPT ![r] = [type |-> t, members |-> p \cup {who[r]}]]
                   /\ Goto(r, IF t = "direct" THEN "findOne" ELSE "saveNew")
           ELSE UNCHANGED asked /\ Goto(r, "findById")
    /\ finished' = [finished EXCEPT ![r] =
          1..Len(Earlier) \cup {msg[q] : q \in {p \in Request : pc[p] = "done" /\ msg[p] # 0}}]
    /\ UNCHANGED <<registry, store, inbox, told, msg, senders>>

\* findById, which may find nothing (0), and the check that the sender takes
\* part; who marks is not checked.
FindById(r) ==
    /\ pc[r] = "findById"
    /\ \/ conv[r] = 0 /\ Goto(r, "done")
       \/ conv[r] # 0 /\ op[r] = "mark" /\ Goto(r, "findUnread")
       \/ /\ conv[r] # 0 /\ op[r] = "send"
          /\ Goto(r, IF who[r] \in Members(conv[r]) THEN "saveMessage" ELSE "done")
    /\ UNCHANGED <<registry, store, inbox, told, call, conv, asked, msg, senders, finished>>

\* Any await on the database may reject, nothing having been written: the handler
\* catches that, or answers with an error.
DatabaseError(r) ==
    /\ "database" \in Faults
    /\ pc[r] \in {"findOne", "saveNew", "findById", "saveMessage", "saveLast", "findUnread", "update"}
    /\ Goto(r, "done")
    /\ UNCHANGED <<registry, store, inbox, told, call, conv, asked, msg, senders, finished>>

\* A write was made, and the handler goes on; or the await rejects all the same,
\* for the answer was lost.
Saved(r, l) == Goto(r, l) \/ ("answer" \in Faults /\ Goto(r, "done"))

-----------------------------------------------------------------------------
(* createConversation.                                                     *)

\* Slip: no $size in the query.
Matches_AnySize(c, q) == conversations[c].type = "direct" /\ q.members \subseteq Members(c)

\* $all and $size together.
Matches(c, q) ==
    /\ conversations[c].type = "direct"
    /\ q.members \subseteq Members(c)
    /\ Cardinality(Members(c)) = Cardinality(q.members)

FindOne(r) ==
    LET found == {c \in 1..Len(conversations) : Matches(c, asked[r])}
    IN  /\ pc[r] = "findOne"
        /\ \/ found = {} /\ Goto(r, "saveNew") /\ UNCHANGED conv
           \/ \E c \in found : conv' = [conv EXCEPT ![r] = c] /\ Goto(r, "done")
        /\ UNCHANGED <<registry, store, inbox, told, call, asked, msg, senders, finished>>

\* Fewer than two participants fail the schema's validation.  (The event
\* conversationCreated, emitted next, says nothing that is modelled here.)
SaveNew(r) ==
    /\ pc[r] = "saveNew"
    /\ Goto(r, "done")
    /\ IF Cardinality(asked[r].members) < 2
       THEN UNCHANGED <<conversations, last, conv>>
       ELSE /\ conversations' = Append(conversations, asked[r])
            /\ last' = Append(last, 0)
            /\ \/ conv' = [conv EXCEPT ![r] = Len(conversations) + 1]
               \/ "answer" \in Faults /\ UNCHANGED conv
    /\ UNCHANGED <<registry, messages, inbox, told, call, asked, msg, senders, finished>>

-----------------------------------------------------------------------------
(* sendMessage.                                                            *)

SaveMessage(r) ==
    /\ pc[r] = "saveMessage"
    /\ messages' = Append(messages, [conv |-> conv[r], sender |-> who[r],
                                     readBy |-> [u \in User |-> IF u = who[r] THEN 1 ELSE 0]])
    /\ msg' = [msg EXCEPT ![r] = Len(messages) + 1]
    /\ Saved(r, "saveLast")
    /\ UNCHANGED <<registry, conversations, last, inbox, told, call, conv, asked, senders,
                   finished>>

\* Slip: conversation.save() is not awaited, nor made to happen before the
\* answer.
SaveLast_Late(r) ==
    /\ \/ pc[r] = "saveLast" /\ Goto(r, "emit") /\ UNCHANGED last
       \/ /\ pc[r] = "done" /\ msg[r] # 0
          /\ last' = [last EXCEPT ![conv[r]] = msg[r]]
          /\ UNCHANGED pc
    /\ UNCHANGED <<registry, conversations, messages, inbox, told, call, conv, asked, msg, senders,
                   finished>>

\* The conversation is saved, with this message as its last: another that was
\* saved in the meantime is overwritten.
SaveLast(r) ==
    /\ pc[r] = "saveLast"
    /\ last' = [last EXCEPT ![conv[r]] = msg[r]]
    /\ Saved(r, "emit")
    /\ UNCHANGED <<registry, conversations, messages, inbox, told, call, conv, asked, msg, senders,
                   finished>>

\* Slip: the message goes to everybody who is connected.
Audience_All(r) == UNION {userSockets[u] : u \in User}

\* The sockets of the other participants.  (That the sender's own socket is told
\* of its message, or of an error, is left out.)
Audience(r) == UNION {userSockets[u] : u \in Members(conv[r]) \ {who[r]}}

Emit(r) ==
    /\ pc[r] = "emit"
    /\ inbox' = [s \in Socket |-> IF s \in Audience(r) THEN inbox[s] \cup {msg[r]} ELSE inbox[s]]
    /\ Goto(r, "done")
    /\ UNCHANGED <<registry, store, told, call, conv, asked, msg, senders, finished>>

-----------------------------------------------------------------------------
(* markRead.                                                               *)

Unread(u, c) ==
    {m \in 1..Len(messages) : /\ messages[m].conv = c
                              /\ messages[m].sender # u
                              /\ messages[m].readBy[u] = 0}

\* Slip: the update has a filter of its own, without readBy.
Updated_All(u, c) == {m \in 1..Len(messages) : messages[m].conv = c /\ messages[m].sender # u}

\* The filter of the update is that of the query, but evaluated anew.
Updated(u, c) == Unread(u, c)

\* Slip: everybody is told, whatever was read.
SendersOf_All(M) == User

SendersOf(M) == {messages[m].sender : m \in M}

FindUnread(r) ==
    /\ pc[r] = "findUnread"
    /\ senders' = [senders EXCEPT ![r] = SendersOf(Unread(who[r], conv[r]))]
    /\ Goto(r, "update")
    /\ UNCHANGED <<registry, store, inbox, told, call, conv, asked, msg, finished>>

\* updateMany goes message by message, but nothing that comes between could tell;
\* if its answer is lost it may have been given up after some of them.
UpdateMany(r) ==
    /\ pc[r] = "update"
    /\ \E M \in SUBSET Updated(who[r], conv[r]) :
          /\ messages' = [m \in 1..Len(messages) |->
                IF m \in M THEN [messages[m] EXCEPT !.readBy[who[r]] = @ + 1] ELSE messages[m]]
          /\ \/ /\ M = Updated(who[r], conv[r])
                /\ Goto(r, IF from[r] = NoSocket THEN "done" ELSE "notify")
             \/ "answer" \in Faults /\ Goto(r, "done")
    /\ UNCHANGED <<registry, conversations, last, inbox, told, call, conv, asked, msg, senders,
                   finished>>

\* Those senders who are connected are told; over HTTP nobody is.
Notify(r) ==
    /\ pc[r] = "notify"
    /\ told' = told \cup {<<u, conv[r], who[r]>> : u \in {v \in senders[r] : userSockets[v] # {}}}
    /\ Goto(r, "done")
    /\ UNCHANGED <<registry, store, inbox, call, conv, asked, msg, senders, finished>>

-----------------------------------------------------------------------------
Step(r) ==
    \/ FindById(r) \/ FindOne(r) \/ SaveNew(r)
    \/ SaveMessage(r) \/ SaveLast(r) \/ Emit(r)
    \/ FindUnread(r) \/ UpdateMany(r) \/ Notify(r)

Next ==
    \/ \E s \in Socket : Connect(s) \/ Disconnect(s)
    \/ \E r \in Request : Arrive(r) \/ Step(r) \/ DatabaseError(r)

Spec == Init /\ [][Next]_vars

-----------------------------------------------------------------------------
(* Properties.                                                             *)

TypeOK ==
    /\ socketUser \in [Socket -> User \cup {Nobody}]
    /\ userSockets \in [User -> SUBSET Socket]
    /\ conversations \in Seq([type : Type, members : SUBSET User])
    /\ Len(last) = Len(conversations)
    /\ \A c \in 1..Len(last) : last[c] \in 0..Len(messages)
    /\ \A m \in 1..Len(messages) :
          messages[m] \in [conv : 1..Len(conversations), sender : User, readBy : [User -> Nat]]
    /\ inbox \in [Socket -> SUBSET (1..Len(messages))]
    /\ told \subseteq User \X (1..Len(conversations)) \X User
    /\ pc \in [Request -> {"new", "findOne", "saveNew", "findById", "saveMessage", "saveLast", "emit",
                          "findUnread", "update", "notify", "done"}]
    /\ conv \in [Request -> 0..Len(conversations)]
    /\ msg \in [Request -> 0..Len(messages)]
    /\ senders \in [Request -> SUBSET User]

\* However marks of the same user overlap, a message records a reader once.
ReadOnce == \A m \in 1..Len(messages) : \A u \in User : messages[m].readBy[u] <= 1

ChatInv == TypeOK /\ ReadOnce

\* A message reaches only sockets that belong, then and still, to another
\* participant of its conversation.
DeliveredToMembers ==
    \A s \in Socket : \A m \in inbox[s] :
        socketUser[s] \in Members(messages[m].conv) \ {messages[m].sender}

\* lastMessage may be overwritten by a message that was on its way at the same
\* time, but never goes back to one whose send had ended before the send of
\* the message it replaces began.
LastNeverGoesBack ==
    [][\A c \in 1..Len(last) :
          last'[c] # last[c] =>
              \A r \in Request : (msg[r] # 0 /\ msg[r] = last[c]) => last'[c] \notin finished[r]]_vars

\* Who asks for a direct conversation is answered with one between exactly the
\* participants asked for, found or new.
DirectIsExact ==
    \A r \in Request :
        (op[r] = "create" /\ conv[r] # 0) => conversations[conv[r]] = asked[r]

\* Who is told that somebody read a conversation wrote something in it that
\* this user has read.
ReadUpdatedTrue ==
    \A t \in told : \E m \in 1..Len(messages) :
        messages[m].sender = t[1] /\ messages[m].conv = t[2] /\ messages[m].readBy[t[3]] > 0
=============================================================================
