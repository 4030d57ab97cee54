------------------------- MODULE ChatServiceProofs -------------------------
(***************************************************************************)
(* Proofs about ChatService, for any users, sockets and requests.          *)
(*                                                                         *)
(* Conversations are never changed once saved, and of a message only its   *)
(* readers are, who grow in number.  So what a handler found out before an *)
(* await is still true after it, whoever else came in between: that is the *)
(* part of the invariant about a request at its pc.  The registry is       *)
(* changed in one step with nothing awaited, which makes its two maps each *)
(* other's inverse whenever a handler looks.                               *)
(***************************************************************************)
EXTENDS ChatService, FiniteSetTheorems, SequenceTheorems, WellFoundedInduction, TLAPS

Conversation == [type : Type, members : SUBSET User]

Message == [conv : Nat, sender : User, readBy : [User -> Nat]]

\* The types that TypeOK leaves out.
Shape ==
    /\ messages \in Seq(Message) /\ last \in Seq(Nat)
    /\ op \in [Request -> Operations \cup {"none"}]
    /\ who \in [Request -> User]
    /\ from \in [Request -> Socket \cup {NoSocket}]
    /\ asked \in [Request -> Conversation]
    /\ finished \in [Request -> SUBSET Nat]

\* The two maps of the registry agree.
RegistryInv == \A s \in Socket : \A u \in User : s \in userSockets[u] <=> socketUser[s] = u

\* A message has one send; and what had been sent in full before a send began
\* was there at the start, or is of a send that is over.
SendsInv ==
    /\ Len(Earlier) <= Len(messages)
    /\ \A p, q \in Request : msg[p] = msg[q] /\ msg[p] # 0 => p = q
    /\ \A r \in Request : msg[r] # 0 => msg[r] > Len(Earlier)
    /\ \A r \in Request : \A m \in finished[r] :
          m \in 1..Len(Earlier) \/ \E q \in Request : pc[q] = "done" /\ msg[q] = m /\ m # 0

Wrote(v, c, m) == messages[m].sender = v /\ messages[m].conv = c

\* What is known of a request at its pc.
AtPc(r) ==
    /\ pc[r] = "findOne" => asked[r].type = "direct"
    /\ pc[r] \in {"saveMessage", "saveLast", "emit", "findUnread", "update", "notify"} => conv[r] # 0
    /\ pc[r] \in {"saveLast", "emit"} => msg[r] # 0 /\ Wrote(who[r], conv[r], msg[r])
    /\ pc[r] = "update" =>
          \A v \in senders[r] : \E m \in 1..Len(messages) : Wrote(v, conv[r], m) /\ v # who[r]
    /\ pc[r] = "notify" =>
          \A v \in senders[r] : \E m \in 1..Len(messages) :
              Wrote(v, conv[r], m) /\ messages[m].readBy[who[r]] > 0

ChatIInv ==
    /\ TypeOK /\ Shape /\ ReadOnce
    /\ RegistryInv /\ SendsInv
    /\ DeliveredToMembers /\ DirectIsExact /\ ReadUpdatedTrue
    /\ \A r \in Request : AtPc(r)

-----------------------------------------------------------------------------
(* What is stored only grows.                                              *)

LEMMA EarlierIs ==
    /\ Len(Earlier) \in Nat /\ Len(First) \in Nat
    /\ First \in Seq(Conversation) /\ Earlier \in Seq(Message)
    /\ \A m \in 1..Len(Earlier) :
          Earlier[m] \in [conv : 1..Len(First), sender : User, readBy : [User -> 0..1]]
<1> DEFINE M == [conv : 1..Len(First), sender : User, readBy : [User -> 0..1]]
<1>1. First \in Seq(Conversation) /\ Earlier \in Seq(M)
  BY ChatAssumption DEF Conversation
<1>2. M \subseteq Message
  <2>1. Len(First) \in Nat
    BY <1>1
  <2>2. 1..Len(First) \subseteq Nat /\ [User -> 0..1] \subseteq [User -> Nat]
    BY <2>1
  <2> QED BY <2>2 DEF Message
<1> HIDE DEF M
<1>3. Len(Earlier) \in Nat /\ Earlier \in [1..Len(Earlier) -> M]
  BY <1>1
<1>4. Earlier \in Seq(Message)
  BY <1>2, <1>3
<1> QED BY <1>1, <1>3, <1>4 DEF M

LEMMA Stored ==
    ASSUME TypeOK, Shape
    PROVE  /\ conversations \in Seq(Conversation) /\ Len(conversations) \in Nat
           /\ \A c \in 1..Len(conversations) : conversations[c] \in Conversation
           /\ Len(messages) \in Nat
           /\ \A m \in 1..Len(messages) :
                 /\ messages[m] \in Message /\ messages[m].conv \in 1..Len(conversations)
                 /\ messages[m].sender \in User /\ messages[m].readBy \in [User -> Nat]
<1>1. conversations \in Seq(Conversation) /\ messages \in Seq(Message)
  BY DEF TypeOK, Shape, Conversation
<1>2. \A m \in 1..Len(messages) :
          messages[m] \in [conv : 1..Len(conversations), sender : User, readBy : [User -> Nat]]
  BY DEF TypeOK
<1> QED BY <1>1, <1>2

Grown ==
    /\ Len(conversations) <= Len(conversations')
    /\ \A c \in 1..Len(conversations) : conversations'[c] = conversations[c]
    /\ Len(messages) <= Len(messages')
    /\ \A m \in 1..Len(messages) :
          /\ messages'[m].conv = messages[m].conv /\ messages'[m].sender = messages[m].sender
          /\ \A u \in User : messages[m].readBy[u] <= messages'[m].readBy[u]

LEMMA SameGrown ==
    ASSUME TypeOK, Shape, conversations' = conversations, messages' = messages
    PROVE  Grown
<1>1. /\ Len(conversations) \in Nat /\ Len(messages) \in Nat
      /\ \A m \in 1..Len(messages) : \A u \in User : messages[m].readBy[u] \in Nat
  BY Stored
<1> QED BY <1>1 DEF Grown

LEMMA GrownIndices ==
    ASSUME TypeOK, Shape, TypeOK', Shape', Grown
    PROVE  /\ \A m \in 1..Len(messages) : m \in 1..Len(messages')
           /\ \A c \in 1..Len(conversations) : c \in 1..Len(conversations')
<1>1. Len(conversations) \in Nat /\ Len(messages) \in Nat
      /\ Len(conversations') \in Nat /\ Len(messages') \in Nat
  BY Stored DEF TypeOK, Shape
<1> QED BY <1>1 DEF Grown

\* What a handler knows at its pc is not undone by what others store.
LEMMA OthersAtPc ==
    ASSUME TypeOK, Shape, TypeOK', Shape', Grown, NEW q \in Request, AtPc(q),
           pc'[q] = pc[q], who'[q] = who[q], conv'[q] = conv[q], asked'[q] = asked[q],
           msg'[q] = msg[q], senders'[q] = senders[q]
    PROVE  AtPc(q)'
<1>1. \A m \in 1..Len(messages) : /\ m \in 1..Len(messages')
                                  /\ \A v, c : Wrote(v, c, m) => Wrote(v, c, m)'
  BY GrownIndices DEF Grown, Wrote
<1>2. who[q] \in User /\ msg[q] \in 0..Len(messages)
  BY DEF TypeOK, Shape
<1>3. pc[q] \in {"saveLast", "emit"} => msg[q] # 0 /\ Wrote(who[q], conv[q], msg[q])'
  <2> SUFFICES ASSUME pc[q] \in {"saveLast", "emit"}
               PROVE  msg[q] # 0 /\ Wrote(who[q], conv[q], msg[q])'
    OBVIOUS
  <2>1. msg[q] # 0 /\ Wrote(who[q], conv[q], msg[q])
    BY DEF AtPc
  <2>2. msg[q] \in 1..Len(messages)
    BY <1>2, <2>1
  <2> QED BY <1>1, <2>1, <2>2, Zenon
<1>4. pc[q] = "update" =>
          \A v \in senders[q] : \E m \in 1..Len(messages') : Wrote(v, conv[q], m)' /\ v # who[q]
  BY <1>1 DEF AtPc
<1>5. pc[q] = "notify" =>
          \A v \in senders[q] : \E m \in 1..Len(messages') :
              Wrote(v, conv[q], m)' /\ messages'[m].readBy[who[q]] > 0
  <2> SUFFICES ASSUME pc[q] = "notify", NEW v \in senders[q]
               PROVE  \E m \in 1..Len(messages') :
                         Wrote(v, conv[q], m)' /\ messages'[m].readBy[who[q]] > 0
    OBVIOUS
  <2>1. PICK m \in 1..Len(messages) : Wrote(v, conv[q], m) /\ messages[m].readBy[who[q]] > 0
    BY DEF AtPc
  <2>2. messages[m].readBy[who[q]] <= messages'[m].readBy[who[q]]
    BY <1>2 DEF Grown
  <2>3. /\ messages[m].readBy[who[q]] \in Nat /\ m \in 1..Len(messages')
        /\ messages'[m].readBy[who[q]] \in Nat
    BY <1>1, <1>2, Stored DEF TypeOK, Shape
  <2> QED BY <1>1, <2>1, <2>2, <2>3
<1> QED BY <1>3, <1>4, <1>5 DEF AtPc

LEMMA DeliveredSame ==
    ASSUME TypeOK, Shape, TypeOK', Shape', Grown, DeliveredToMembers,
           inbox' = inbox, socketUser' = socketUser
    PROVE  DeliveredToMembers'
<1> SUFFICES ASSUME NEW s \in Socket, NEW m \in inbox[s]
             PROVE  socketUser[s] \in conversations'[messages'[m].conv].members
                                          \ {messages'[m].sender}
  BY DEF DeliveredToMembers, Members
<1>1. m \in 1..Len(messages)
  BY DEF TypeOK
<1>2. messages[m].conv \in 1..Len(conversations)
  BY <1>1, Stored
<1>3. socketUser[s] \in conversations[messages[m].conv].members \ {messages[m].sender}
  BY DEF DeliveredToMembers, Members
<1> QED BY <1>1, <1>2, <1>3 DEF Grown

LEMMA ToldStays ==
    ASSUME TypeOK, Shape, TypeOK', Shape', Grown, ReadUpdatedTrue, NEW t \in told
    PROVE  \E m \in 1..Len(messages') :
              /\ messages'[m].sender = t[1] /\ messages'[m].conv = t[2]
              /\ messages'[m].readBy[t[3]] > 0
<1>1. PICK m \in 1..Len(messages) :
          messages[m].sender = t[1] /\ messages[m].conv = t[2] /\ messages[m].readBy[t[3]] > 0
  BY DEF ReadUpdatedTrue
<1>2. t[3] \in User
  BY DEF TypeOK
<1> DEFINE u == t[3]
<1>3. u \in User /\ messages[m].readBy[u] > 0
  BY <1>1, <1>2
<1> HIDE DEF u
<1>4. m \in 1..Len(messages') /\ messages[m].readBy[u] <= messages'[m].readBy[u]
  BY <1>3, GrownIndices DEF Grown
<1>5. messages[m].readBy \in [User -> Nat] /\ messages'[m].readBy \in [User -> Nat]
  <2>1. messages'[m] \in Message
    BY <1>4 DEF Shape
  <2> QED BY <2>1, Stored DEF Message
<1>6. messages'[m].readBy[u] > 0
  BY <1>3, <1>4, <1>5
<1>7. messages'[m].sender = t[1] /\ messages'[m].conv = t[2]
  BY <1>1 DEF Grown
<1> QED BY <1>4, <1>6, <1>7 DEF u

LEMMA ExactStays ==
    ASSUME TypeOK, Shape, TypeOK', Shape', Grown, NEW q \in Request,
           (op[q] = "create" /\ conv[q] # 0) => conversations[conv[q]] = asked[q],
           op'[q] = op[q], conv'[q] = conv[q], asked'[q] = asked[q]
    PROVE  (op'[q] = "create" /\ conv'[q] # 0) => conversations'[conv'[q]] = asked'[q]
<1>1. conv[q] \in 0..Len(conversations) /\ Len(conversations) \in Nat
  BY Stored DEF TypeOK
<1> QED BY <1>1 DEF Grown

LEMMA SendsSame ==
    ASSUME TypeOK, Shape, TypeOK', Shape', Grown, SendsInv, msg' = msg, finished' = finished,
           \A q \in Request : pc[q] = "done" => pc'[q] = "done"
    PROVE  SendsInv'
<1>1. Len(messages) \in Nat /\ Len(messages') \in Nat
      /\ Len(messages) <= Len(messages') /\ Len(Earlier) \in Nat
  <2>1. Len(messages) \in Nat /\ Len(messages') \in Nat
    BY DEF Shape
  <2>2. Len(messages) <= Len(messages')
    BY DEF Grown
  <2> QED BY <2>1, <2>2, EarlierIs
<1>2. Len(Earlier) <= Len(messages')
  BY <1>1 DEF SendsInv
<1>3. /\ \A p, q \in Request : msg'[p] = msg'[q] /\ msg'[p] # 0 => p = q
      /\ \A q \in Request : msg'[q] # 0 => msg'[q] > Len(Earlier)
  BY DEF SendsInv
<1>4. \A r \in Request : \A m \in finished'[r] :
          m \in 1..Len(Earlier) \/ \E q \in Request : pc'[q] = "done" /\ msg'[q] = m /\ m # 0
  BY DEF SendsInv
<1> QED BY <1>2, <1>3, <1>4 DEF SendsInv

\* A step of r that stores nothing and emits nothing, and keeps to itself.
LEMMA QuietStep ==
    ASSUME ChatIInv, NEW r \in Request, TypeOK', Shape', AtPc(r)',
           UNCHANGED registry, conversations' = conversations, messages' = messages,
           inbox' = inbox, told' = told, msg' = msg, finished' = finished,
           op' = op, who' = who, asked' = asked, pc[r] # "done",
           \A q \in Request \ {r} :
               pc'[q] = pc[q] /\ conv'[q] = conv[q] /\ senders'[q] = senders[q],
           (op'[r] = "create" /\ conv'[r] # 0) => conversations'[conv'[r]] = asked'[r]
    PROVE  ChatIInv'
<1>1. Grown
  BY SameGrown DEF ChatIInv
<1>2. \A q \in Request : AtPc(q)'
  BY <1>1, OthersAtPc DEF ChatIInv
<1>3. DeliveredToMembers'
  BY <1>1, DeliveredSame DEF ChatIInv, registry
<1>4. ReadUpdatedTrue'
  BY DEF ChatIInv, ReadUpdatedTrue
<1>5. DirectIsExact'
  BY DEF ChatIInv, DirectIsExact
<1>6. SendsInv'
  BY <1>1, SendsSame DEF ChatIInv
<1>7. ReadOnce' /\ RegistryInv'
  BY DEF ChatIInv, ReadOnce, RegistryInv, registry
<1> QED BY <1>2, <1>3, <1>4, <1>5, <1>6, <1>7 DEF ChatIInv

-----------------------------------------------------------------------------
(* The steps that only read, and SaveLast.                                 *)

Pcs == {"new", "findOne", "saveNew", "findById", "saveMessage", "saveLast", "emit",
        "findUnread", "update", "notify", "done"}

\* A direct conversation between as many members, those asked for among them, is
\* between exactly those.
LEMMA MatchIsExact ==
    ASSUME NEW c, conversations[c] \in Conversation, NEW q \in Conversation,
           q.type = "direct", Matches(c, q)
    PROVE  conversations[c] = q
<1>1. q.members \subseteq conversations[c].members
      /\ conversations[c].members \subseteq User
      /\ Cardinality(conversations[c].members) = Cardinality(q.members)
      /\ conversations[c].type = "direct"
  BY DEF Matches, Members, Conversation
<1>2. IsFiniteSet(conversations[c].members)
  BY <1>1, ChatAssumption, FS_Subset
<1>3. conversations[c].members = q.members
  BY <1>1, <1>2, FS_Subset
<1> QED BY <1>1, <1>3 DEF Conversation

LEMMA FindByIdStep ==
    ASSUME ChatIInv, NEW r \in Request, FindById(r)
    PROVE  ChatIInv'
<1>1. /\ pc[r] = "findById"
      /\ UNCHANGED registry /\ conversations' = conversations /\ last' = last /\ messages' = messages
      /\ inbox' = inbox /\ told' = told /\ op' = op /\ who' = who /\ from' = from /\ conv' = conv
      /\ asked' = asked /\ msg' = msg /\ senders' = senders /\ finished' = finished
  BY DEF FindById, store, call
<1>2. PICK l \in {"done", "findUnread", "saveMessage"} :
          pc' = [pc EXCEPT ![r] = l] /\ (l # "done" => conv[r] # 0)
  BY DEF FindById, Goto
<1>3. TypeOK /\ Shape
  BY DEF ChatIInv
<1>4. TypeOK' /\ Shape'
  BY <1>1, <1>2, <1>3 DEF TypeOK, Shape, registry
<1>5. AtPc(r)'
  BY <1>1, <1>2, <1>3 DEF AtPc, TypeOK
<1>6. DirectIsExact
  BY DEF ChatIInv
<1> QED BY <1>1, <1>2, <1>3, <1>4, <1>5, <1>6, QuietStep DEF TypeOK, DirectIsExact

LEMMA DatabaseErrorStep ==
    ASSUME ChatIInv, NEW r \in Request, DatabaseError(r)
    PROVE  ChatIInv'
<1>1. /\ pc[r] # "done" /\ pc' = [pc EXCEPT ![r] = "done"]
      /\ UNCHANGED registry /\ conversations' = conversations /\ last' = last /\ messages' = messages
      /\ inbox' = inbox /\ told' = told /\ op' = op /\ who' = who /\ from' = from /\ conv' = conv
      /\ asked' = asked /\ msg' = msg /\ senders' = senders /\ finished' = finished
  BY DEF DatabaseError, store, call, Goto
<1>2. TypeOK /\ Shape /\ DirectIsExact
  BY DEF ChatIInv
<1>3. TypeOK' /\ Shape'
  BY <1>1, <1>2 DEF TypeOK, Shape, registry
<1>4. AtPc(r)'
  BY <1>1, <1>2 DEF AtPc, TypeOK
<1> QED BY <1>1, <1>2, <1>3, <1>4, QuietStep DEF TypeOK, DirectIsExact

\* FindOne answers with a conversation that matches, or goes on to save one.
LEMMA FindOneStep ==
    ASSUME ChatIInv, NEW r \in Request, FindOne(r)
    PROVE  ChatIInv'
<1>1. /\ pc[r] = "findOne"
      /\ UNCHANGED registry /\ conversations' = conversations /\ last' = last /\ messages' = messages
      /\ inbox' = inbox /\ told' = told /\ op' = op /\ who' = who /\ from' = from
      /\ asked' = asked /\ msg' = msg /\ senders' = senders /\ finished' = finished
  BY DEF FindOne, store, call
<1>2. TypeOK /\ Shape /\ DirectIsExact /\ AtPc(r)
  BY DEF ChatIInv
<1>3. asked[r] \in Conversation /\ asked[r].type = "direct"
  BY <1>1, <1>2 DEF AtPc, Shape
<1>4. CASE Goto(r, "saveNew") /\ conv' = conv
  <2>1. TypeOK' /\ Shape'
    BY <1>1, <1>2, <1>4 DEF TypeOK, Shape, registry, Goto
  <2>2. AtPc(r)'
    BY <1>1, <1>2, <1>4 DEF AtPc, TypeOK, Goto
  <2> QED BY <1>1, <1>2, <1>4, <2>1, <2>2, QuietStep DEF TypeOK, DirectIsExact, Goto
<1>5. ASSUME NEW c \in 1..Len(conversations), Matches(c, asked[r]),
             conv' = [conv EXCEPT ![r] = c], Goto(r, "done")
      PROVE  ChatIInv'
  <2>1. conversations[c] = asked[r]
    BY <1>2, <1>3, <1>5, Stored, MatchIsExact
  <2>2. conv' \in [Request -> 0..Len(conversations)] /\ conv'[r] = c
    BY <1>2, <1>5, Stored DEF TypeOK
  <2>3. TypeOK' /\ Shape'
    BY <1>1, <1>2, <1>5, <2>2 DEF TypeOK, Shape, registry, Goto
  <2>4. AtPc(r)'
    BY <1>1, <1>2, <1>5 DEF AtPc, TypeOK, Goto
  <2>5. /\ \A q \in Request \ {r} : pc'[q] = pc[q] /\ conv'[q] = conv[q] /\ senders'[q] = senders[q]
        /\ conversations'[conv'[r]] = asked'[r]
    BY <1>1, <1>2, <1>5, <2>1, <2>2 DEF TypeOK, Goto
  <2> QED BY <1>1, <2>3, <2>4, <2>5, QuietStep
<1> QED BY <1>4, <1>5 DEF FindOne

LEMMA SaveLastStep ==
    ASSUME ChatIInv, NEW r \in Request, SaveLast(r)
    PROVE  ChatIInv'
<1>1. /\ pc[r] = "saveLast" /\ \E l \in {"emit", "done"} : pc' = [pc EXCEPT ![r] = l]
      /\ last' = [last EXCEPT ![conv[r]] = msg[r]]
      /\ UNCHANGED registry /\ conversations' = conversations /\ messages' = messages
      /\ inbox' = inbox /\ told' = told /\ op' = op /\ who' = who /\ from' = from /\ conv' = conv
      /\ asked' = asked /\ msg' = msg /\ senders' = senders /\ finished' = finished
  BY DEF SaveLast, Saved, call, Goto
<1>2. TypeOK /\ Shape /\ DirectIsExact /\ AtPc(r)
  BY DEF ChatIInv
<1>3. /\ last' \in Seq(Nat) /\ Len(last') = Len(last)
      /\ \A c \in 1..Len(last') : last'[c] \in 0..Len(messages)
  <2>1. last \in Seq(Nat) /\ msg[r] \in 0..Len(messages) /\ Len(messages) \in Nat
    BY <1>2, Stored DEF TypeOK, Shape
  <2>2. conv[r] \in 1..Len(last)
    BY <1>1, <1>2, Stored DEF AtPc, TypeOK
  <2>3. \A c \in 1..Len(last) : last[c] \in 0..Len(messages)
    BY <1>2 DEF TypeOK
  <2>4. msg[r] \in Nat
    BY <2>1
  <2>5. last' \in Seq(Nat) /\ Len(last') = Len(last)
        /\ \A c \in 1..Len(last) : last'[c] = IF c = conv[r] THEN msg[r] ELSE last[c]
    BY <1>1, <2>1, <2>2, <2>4, ExceptSeq
  <2> QED BY <2>1, <2>3, <2>5
<1>4. TypeOK' /\ Shape'
  BY <1>1, <1>2, <1>3 DEF TypeOK, Shape, registry
<1>5. AtPc(r)'
  BY <1>1, <1>2 DEF AtPc, TypeOK, Wrote
<1> QED BY <1>1, <1>2, <1>4, <1>5, QuietStep DEF TypeOK, DirectIsExact

LEMMA FindUnreadStep ==
    ASSUME ChatIInv, NEW r \in Request, FindUnread(r)
    PROVE  ChatIInv'
<1>1. /\ pc[r] = "findUnread" /\ pc' = [pc EXCEPT ![r] = "update"]
      /\ senders' = [senders EXCEPT ![r] = SendersOf(Unread(who[r], conv[r]))]
      /\ UNCHANGED registry /\ conversations' = conversations /\ last' = last /\ messages' = messages
      /\ inbox' = inbox /\ told' = told /\ op' = op /\ who' = who /\ from' = from /\ conv' = conv
      /\ asked' = asked /\ msg' = msg /\ finished' = finished
  BY DEF FindUnread, store, call, Goto
<1>2. TypeOK /\ Shape /\ DirectIsExact /\ AtPc(r)
  BY DEF ChatIInv
<1>3. \A v \in SendersOf(Unread(who[r], conv[r])) :
          v \in User /\ \E m \in 1..Len(messages) : Wrote(v, conv[r], m) /\ v # who[r]
  BY <1>2, Stored DEF SendersOf, Unread, Wrote
<1>4. TypeOK' /\ Shape'
  <2>1. senders' \in [Request -> SUBSET User]
    BY <1>1, <1>2, <1>3 DEF TypeOK
  <2> QED BY <1>1, <1>2, <2>1 DEF TypeOK, Shape, registry
<1>5. AtPc(r)'
  <2>1. pc'[r] = "update" /\ senders'[r] = SendersOf(Unread(who[r], conv[r]))
    BY <1>1, <1>2 DEF TypeOK
  <2>2. conv[r] # 0
    BY <1>1, <1>2 DEF AtPc
  <2>3. \A v \in senders'[r] : \E m \in 1..Len(messages') : Wrote(v, conv[r], m)' /\ v # who'[r]
    BY <1>1, <1>3, <2>1 DEF Wrote
  <2> QED BY <1>1, <2>1, <2>2, <2>3 DEF AtPc
<1> QED BY <1>1, <1>2, <1>4, <1>5, QuietStep DEF TypeOK, DirectIsExact

-----------------------------------------------------------------------------
(* Connections, and what is emitted.                                       *)

\* A step that stores nothing and after which every request is where it was.
LEMMA RegistryStep ==
    ASSUME ChatIInv, TypeOK', UNCHANGED <<store, told, pc, call, conv, asked, msg, senders, finished>>,
           RegistryInv', DeliveredToMembers'
    PROVE  ChatIInv'
<1>1. /\ conversations' = conversations /\ last' = last /\ messages' = messages
      /\ told' = told /\ pc' = pc /\ op' = op /\ who' = who /\ from' = from /\ conv' = conv
      /\ asked' = asked /\ msg' = msg /\ senders' = senders /\ finished' = finished
  BY DEF store, call
<1>2. Shape'
  BY <1>1 DEF ChatIInv, Shape
<1>3. Grown
  BY <1>1, SameGrown DEF ChatIInv
<1>4. \A q \in Request : AtPc(q)'
  BY <1>1, <1>2, <1>3, OthersAtPc DEF ChatIInv
<1>5. SendsInv'
  BY <1>1, <1>2, <1>3, SendsSame DEF ChatIInv
<1>6. ReadUpdatedTrue' /\ DirectIsExact' /\ ReadOnce'
  BY <1>1 DEF ChatIInv, ReadUpdatedTrue, DirectIsExact, ReadOnce
<1> QED BY <1>2, <1>4, <1>5, <1>6 DEF ChatIInv

\* A socket is registered for nobody when it connects, so nothing has been
\* emitted to it.
LEMMA ConnectStep ==
    ASSUME ChatIInv, NEW s \in Socket, Connect(s)
    PROVE  ChatIInv'
<1>1. PICK u \in User : /\ socketUser' = [socketUser EXCEPT ![s] = u]
                        /\ userSockets' = [userSockets EXCEPT ![u] = @ \cup {s}]
  BY DEF Connect
<1>2. /\ socketUser[s] = Nobody /\ inbox' = inbox
      /\ UNCHANGED <<store, told, pc, call, conv, asked, msg, senders, finished>>
  BY DEF Connect
<1>3. /\ conversations' = conversations /\ last' = last /\ messages' = messages
      /\ told' = told /\ pc' = pc /\ conv' = conv /\ msg' = msg /\ senders' = senders
  BY <1>2 DEF store
<1>4. TypeOK /\ Shape /\ RegistryInv /\ DeliveredToMembers /\ Nobody \notin User
  BY ChatAssumption DEF ChatIInv
<1>5. TypeOK'
  <2>1. socketUser' \in [Socket -> User \cup {Nobody}] /\ userSockets' \in [User -> SUBSET Socket]
    BY <1>1, <1>4 DEF TypeOK
  <2> QED BY <1>2, <1>3, <1>4, <2>1 DEF TypeOK
<1>6. RegistryInv'
  <2>1. \A v \in User : s \notin userSockets[v]
    BY <1>2, <1>4 DEF RegistryInv
  <2> QED BY <1>1, <1>4, <2>1 DEF RegistryInv, TypeOK
<1>7. inbox[s] = {}
  <2> SUFFICES ASSUME NEW m \in inbox[s]
               PROVE  FALSE
    BY <1>4 DEF TypeOK
  <2>1. m \in 1..Len(messages) /\ Nobody \in conversations[messages[m].conv].members
    BY <1>2, <1>4 DEF TypeOK, DeliveredToMembers, Members
  <2>2. conversations[messages[m].conv] \in Conversation
    BY <1>4, <2>1, Stored
  <2> QED BY <1>4, <2>1, <2>2 DEF Conversation
<1>8. DeliveredToMembers'
  BY <1>1, <1>2, <1>3, <1>4, <1>7 DEF DeliveredToMembers, Members, TypeOK
<1> QED BY <1>2, <1>5, <1>6, <1>8, RegistryStep

LEMMA DisconnectStep ==
    ASSUME ChatIInv, NEW s \in Socket, Disconnect(s)
    PROVE  ChatIInv'
<1> DEFINE u == socketUser[s]
<1>1. /\ u # Nobody /\ socketUser' = [socketUser EXCEPT ![s] = Nobody]
      /\ userSockets' = [userSockets EXCEPT ![u] = @ \ {s}]
      /\ inbox' = [inbox EXCEPT ![s] = {}]
      /\ UNCHANGED <<store, told, pc, call, conv, asked, msg, senders, finished>>
  BY DEF Disconnect
<1>2. /\ conversations' = conversations /\ last' = last /\ messages' = messages
      /\ told' = told /\ pc' = pc /\ conv' = conv /\ msg' = msg /\ senders' = senders
  BY <1>1 DEF store
<1>3. TypeOK /\ Shape /\ RegistryInv /\ DeliveredToMembers /\ Nobody \notin User
  BY ChatAssumption DEF ChatIInv
<1>4. u \in User
  BY <1>1, <1>3 DEF TypeOK
<1>5. TypeOK'
  <2>1. /\ socketUser' \in [Socket -> User \cup {Nobody}] /\ userSockets' \in [User -> SUBSET Socket]
        /\ inbox' \in [Socket -> SUBSET (1..Len(messages))]
    BY <1>1, <1>3, <1>4 DEF TypeOK
  <2> QED BY <1>2, <1>3, <2>1 DEF TypeOK
<1>6. RegistryInv'
  BY <1>1, <1>3, <1>4 DEF RegistryInv, TypeOK
<1>7. DeliveredToMembers'
  <2>1. inbox'[s] = {} /\ \A t \in Socket \ {s} : inbox'[t] = inbox[t] /\ socketUser'[t] = socketUser[t]
    BY <1>1, <1>3 DEF TypeOK
  <2> QED BY <1>2, <1>3, <2>1 DEF DeliveredToMembers, Members
<1> QED BY <1>1, <1>5, <1>6, <1>7, RegistryStep

\* A step of r in which other requests stay where they are; what it stores only
\* adds to what there was.
LEMMA RequestStep ==
    ASSUME ChatIInv, NEW r \in Request, TypeOK', Shape', AtPc(r)', Grown,
           UNCHANGED registry, ReadOnce', SendsInv', DeliveredToMembers', ReadUpdatedTrue',
           \A q \in Request \ {r} :
              /\ pc'[q] = pc[q] /\ op'[q] = op[q] /\ who'[q] = who[q] /\ conv'[q] = conv[q]
              /\ asked'[q] = asked[q] /\ msg'[q] = msg[q] /\ senders'[q] = senders[q],
           (op'[r] = "create" /\ conv'[r] # 0) => conversations'[conv'[r]] = asked'[r]
    PROVE  ChatIInv'
<1>1. \A q \in Request : AtPc(q)'
  BY OthersAtPc DEF ChatIInv
<1>2. \A q \in Request \ {r} :
          (op'[q] = "create" /\ conv'[q] # 0) => conversations'[conv'[q]] = asked'[q]
  BY ExactStays DEF ChatIInv, DirectIsExact
<1>3. DirectIsExact'
  BY <1>2 DEF DirectIsExact
<1>4. RegistryInv'
  BY DEF ChatIInv, RegistryInv, registry
<1> QED BY <1>1, <1>3, <1>4 DEF ChatIInv

\* Emit: the sockets are those the registry has when the message goes out, each
\* of another member of the conversation that the message was saved in.
LEMMA EmitStep ==
    ASSUME ChatIInv, NEW r \in Request, Emit(r)
    PROVE  ChatIInv'
<1>1. /\ pc[r] = "emit" /\ pc' = [pc EXCEPT ![r] = "done"]
      /\ inbox' = [s \in Socket |-> IF s \in Audience(r) THEN inbox[s] \cup {msg[r]} ELSE inbox[s]]
      /\ UNCHANGED registry /\ conversations' = conversations /\ last' = last /\ messages' = messages
      /\ told' = told /\ op' = op /\ who' = who /\ from' = from /\ conv' = conv
      /\ asked' = asked /\ msg' = msg /\ senders' = senders /\ finished' = finished
  BY DEF Emit, store, call, Goto
<1>2. TypeOK /\ Shape /\ RegistryInv /\ DeliveredToMembers /\ AtPc(r) /\ DirectIsExact
      /\ SendsInv /\ ReadUpdatedTrue /\ ReadOnce
  BY DEF ChatIInv
<1>3. msg[r] \in 1..Len(messages) /\ Wrote(who[r], conv[r], msg[r]) /\ Len(messages) \in Nat
  BY <1>1, <1>2, Stored DEF AtPc, TypeOK
<1>4. TypeOK' /\ Shape'
  <2>1. inbox' \in [Socket -> SUBSET (1..Len(messages))]
    BY <1>1, <1>2, <1>3 DEF TypeOK
  <2> QED BY <1>1, <1>2, <2>1 DEF TypeOK, Shape, registry
<1>5. \A s \in Audience(r) : s \in Socket =>
          socketUser[s] \in Members(conv[r]) \ {who[r]}
  <2> SUFFICES ASSUME NEW v \in Members(conv[r]) \ {who[r]}, NEW s \in userSockets[v], s \in Socket
               PROVE  socketUser[s] = v
    BY DEF Audience
  <2>1. messages[msg[r]].conv = conv[r] /\ conversations[messages[msg[r]].conv] \in Conversation
    BY <1>2, <1>3, Stored DEF Wrote
  <2>2. v \in User
    BY <2>1 DEF Members, Conversation
  <2> QED BY <1>2, <2>2 DEF RegistryInv
<1>6. DeliveredToMembers'
  <2> SUFFICES ASSUME NEW s \in Socket, NEW m \in inbox'[s]
               PROVE  socketUser[s] \in Members(messages[m].conv) \ {messages[m].sender}
    BY <1>1 DEF DeliveredToMembers, Members, registry
  <2>1. CASE m \in inbox[s]
    BY <1>2, <2>1 DEF DeliveredToMembers
  <2>2. CASE m \notin inbox[s]
    <3>1. m = msg[r] /\ s \in Audience(r)
      BY <1>1, <2>2
    <3> QED BY <1>3, <1>5, <3>1 DEF Wrote
  <2> QED BY <2>1, <2>2
<1>7. Grown
  BY <1>1, <1>2, SameGrown
<1>8. SendsInv'
  BY <1>1, <1>2, <1>4, <1>7, SendsSame DEF TypeOK
<1>9. ReadUpdatedTrue' /\ ReadOnce'
  BY <1>1, <1>2 DEF ReadUpdatedTrue, ReadOnce
<1>10. AtPc(r)'
  BY <1>1, <1>2 DEF AtPc, TypeOK
<1> QED BY <1>1, <1>2, <1>4, <1>6, <1>7, <1>8, <1>9, <1>10, RequestStep DEF TypeOK, DirectIsExact

\* Notify: those who are told each wrote a message that the user has read.
LEMMA NotifyStep ==
    ASSUME ChatIInv, NEW r \in Request, Notify(r)
    PROVE  ChatIInv'
<1>1. /\ pc[r] = "notify" /\ pc' = [pc EXCEPT ![r] = "done"]
      /\ told' = told \cup {<<u, conv[r], who[r]>> : u \in {v \in senders[r] : userSockets[v] # {}}}
      /\ UNCHANGED registry /\ conversations' = conversations /\ last' = last /\ messages' = messages
      /\ inbox' = inbox /\ op' = op /\ who' = who /\ from' = from /\ conv' = conv
      /\ asked' = asked /\ msg' = msg /\ senders' = senders /\ finished' = finished
  BY DEF Notify, store, call, Goto
<1>2. TypeOK /\ Shape /\ DeliveredToMembers /\ AtPc(r) /\ DirectIsExact
      /\ SendsInv /\ ReadUpdatedTrue /\ ReadOnce
  BY DEF ChatIInv
<1>3. \A v \in senders[r] : v \in User /\ \E m \in 1..Len(messages) :
          Wrote(v, conv[r], m) /\ messages[m].readBy[who[r]] > 0
  BY <1>1, <1>2 DEF AtPc, TypeOK
<1>4. conv[r] \in 1..Len(conversations) /\ who[r] \in User
  BY <1>1, <1>2, Stored DEF AtPc, TypeOK, Shape
<1>5. TypeOK' /\ Shape'
  <2>1. told' \subseteq User \X (1..Len(conversations)) \X User
    BY <1>1, <1>2, <1>3, <1>4 DEF TypeOK
  <2> QED BY <1>1, <1>2, <2>1 DEF TypeOK, Shape, registry
<1>6. ReadUpdatedTrue'
  <2> SUFFICES ASSUME NEW t \in told'
               PROVE  \E m \in 1..Len(messages) :
                         messages[m].sender = t[1] /\ messages[m].conv = t[2]
                         /\ messages[m].readBy[t[3]] > 0
    BY <1>1 DEF ReadUpdatedTrue
  <2>1. CASE t \in told
    BY <1>2, <2>1 DEF ReadUpdatedTrue
  <2>2. CASE t \notin told
    <3>1. PICK v \in senders[r] : t = <<v, conv[r], who[r]>>
      BY <1>1, <2>2
    <3>2. t[1] = v /\ t[2] = conv[r] /\ t[3] = who[r]
      BY <3>1
    <3> QED BY <1>3, <3>2 DEF Wrote
  <2> QED BY <2>1, <2>2
<1>7. Grown
  BY <1>1, <1>2, SameGrown
<1>8. SendsInv'
  BY <1>1, <1>2, <1>5, <1>7, SendsSame DEF TypeOK
<1>9. DeliveredToMembers' /\ ReadOnce'
  BY <1>1, <1>2, <1>5, <1>7, DeliveredSame DEF ReadOnce, registry
<1>10. AtPc(r)'
  BY <1>1, <1>2 DEF AtPc, TypeOK
<1> QED BY <1>1, <1>2, <1>5, <1>6, <1>7, <1>8, <1>9, <1>10, RequestStep DEF TypeOK, DirectIsExact

-----------------------------------------------------------------------------
(* Arrivals, and the steps that store.                                     *)

LEMMA ToldTrue ==
    ASSUME TypeOK, Shape, TypeOK', Shape', Grown, ReadUpdatedTrue, told' = told
    PROVE  ReadUpdatedTrue'
BY ToldStays DEF ReadUpdatedTrue

LEMMA ArriveStep ==
    ASSUME ChatIInv, NEW r \in Request, Arrive(r)
    PROVE  ChatIInv'
<1>1. PICK o \in Operations, s \in Socket \cup {NoSocket}, c \in 0..Len(conversations) :
        /\ IF s = NoSocket THEN UNCHANGED who
           ELSE /\ o # "create"
                /\ socketUser[s] # Nobody
                /\ who' = [who EXCEPT ![r] = socketUser[s]]
        /\ op' = [op EXCEPT ![r] = o]
        /\ from' = [from EXCEPT ![r] = s]
        /\ conv' = [conv EXCEPT ![r] = IF o = "create" THEN 0 ELSE c]
        /\ IF o = "create"
           THEN \E t \in Type, p \in SUBSET User :
                   /\ asked' = [asked EXCEPT ![r] = [type |-> t, members |-> p \cup {who[r]}]]
                   /\ Goto(r, IF t = "direct" THEN "findOne" ELSE "saveNew")
           ELSE UNCHANGED asked /\ Goto(r, "findById")
  BY DEF Arrive
<1> DEFINE sent == 1..Len(Earlier) \cup {msg[q] : q \in {p \in Request : pc[p] = "done" /\ msg[p] # 0}}
<1>2. /\ pc[r] = "new" /\ finished' = [finished EXCEPT ![r] = sent]
      /\ UNCHANGED registry /\ conversations' = conversations /\ last' = last /\ messages' = messages
      /\ inbox' = inbox /\ told' = told /\ msg' = msg /\ senders' = senders
  BY DEF Arrive, store
<1>3. TypeOK /\ Shape /\ DeliveredToMembers /\ SendsInv /\ ReadUpdatedTrue /\ ReadOnce
  BY DEF ChatIInv
<1>4. sent \in SUBSET Nat
  BY <1>3, EarlierIs, Stored DEF TypeOK
<1>5. /\ who' \in [Request -> User] /\ \A q \in Request \ {r} : who'[q] = who[q]
  <2>1. CASE s = NoSocket
    BY <1>1, <1>3, <2>1 DEF Shape
  <2>2. CASE s # NoSocket
    <3>1. socketUser[s] \in User /\ who' = [who EXCEPT ![r] = socketUser[s]]
      BY <1>1, <1>3, <2>2 DEF TypeOK
    <3> QED BY <1>3, <3>1 DEF Shape
  <2> QED BY <2>1, <2>2
<1>6. /\ asked' \in [Request -> Conversation] /\ \A q \in Request \ {r} : asked'[q] = asked[q]
      /\ \E l \in {"findOne", "saveNew", "findById"} :
            pc' = [pc EXCEPT ![r] = l] /\ (l = "findOne" => asked'[r].type = "direct")
  <2>1. CASE o = "create"
    <3>1. PICK t \in Type, p \in SUBSET User :
              /\ asked' = [asked EXCEPT ![r] = [type |-> t, members |-> p \cup {who[r]}]]
              /\ Goto(r, IF t = "direct" THEN "findOne" ELSE "saveNew")
      BY <1>1, <2>1
    <3> DEFINE a == [type |-> t, members |-> p \cup {who[r]}]
    <3>2. a \in Conversation /\ a.type = t
      BY <1>3 DEF Conversation, Shape
    <3>3. asked' = [asked EXCEPT ![r] = a]
      BY <3>1
    <3> HIDE DEF a
    <3> QED BY <1>3, <3>1, <3>2, <3>3 DEF Shape, Goto
  <2>2. CASE o # "create"
    BY <1>1, <1>3, <2>2 DEF Shape, Goto
  <2> QED BY <2>1, <2>2
<1> HIDE DEF sent
<1>7. conv' \in [Request -> 0..Len(conversations)] /\ conv'[r] = IF o = "create" THEN 0 ELSE c
  BY <1>1, <1>3, Stored DEF TypeOK
<1>8. PICK l \in {"findOne", "saveNew", "findById"} :
          pc' = [pc EXCEPT ![r] = l] /\ (l = "findOne" => asked'[r].type = "direct")
  BY <1>6
<1>9. TypeOK'
  BY <1>2, <1>3, <1>7, <1>8 DEF TypeOK, registry
<1>10. Shape'
  BY <1>1, <1>2, <1>3, <1>4, <1>5, <1>6 DEF Shape
<1>11. AtPc(r)'
  BY <1>3, <1>8 DEF AtPc, TypeOK
<1>12. Grown
  BY <1>2, <1>3, SameGrown
<1>13. SendsInv'
  <2>1. \A m \in sent : m \in 1..Len(Earlier) \/ \E q \in Request : pc'[q] = "done" /\ msg[q] = m /\ m # 0
    BY <1>2, <1>3, <1>8 DEF sent, TypeOK
  <2>2. \A q \in Request : pc[q] = "done" => pc'[q] = "done"
    BY <1>2, <1>3, <1>8 DEF TypeOK
  <2>3. \A q \in Request : finished'[q] = IF q = r THEN sent ELSE finished[q]
    BY <1>2, <1>3 DEF Shape
  <2>4. \A q \in Request : \A m \in finished'[q] :
            m \in 1..Len(Earlier) \/ \E p \in Request : pc'[p] = "done" /\ msg[p] = m /\ m # 0
    BY <1>3, <2>1, <2>2, <2>3 DEF SendsInv
  <2> QED BY <1>2, <1>3, <2>4 DEF SendsInv
<1>14. DeliveredToMembers' /\ ReadUpdatedTrue' /\ ReadOnce'
  BY <1>2, <1>3, <1>9, <1>10, <1>12, DeliveredSame, ToldTrue DEF ReadOnce, registry
<1>15. \A q \in Request \ {r} :
          /\ pc'[q] = pc[q] /\ op'[q] = op[q] /\ who'[q] = who[q] /\ conv'[q] = conv[q]
          /\ asked'[q] = asked[q] /\ msg'[q] = msg[q] /\ senders'[q] = senders[q]
  BY <1>1, <1>2, <1>3, <1>5, <1>6, <1>8 DEF TypeOK, Shape
<1>16. (op'[r] = "create" /\ conv'[r] # 0) => conversations'[conv'[r]] = asked'[r]
  BY <1>1, <1>3, <1>7 DEF Shape
<1> QED BY <1>2, <1>9, <1>10, <1>11, <1>12, <1>13, <1>14, <1>15, <1>16, RequestStep

LEMMA SaveNewStep ==
    ASSUME ChatIInv, NEW r \in Request, SaveNew(r)
    PROVE  ChatIInv'
<1>1. /\ pc[r] = "saveNew" /\ pc' = [pc EXCEPT ![r] = "done"]
      /\ UNCHANGED registry /\ messages' = messages
      /\ inbox' = inbox /\ told' = told /\ op' = op /\ who' = who /\ from' = from
      /\ asked' = asked /\ msg' = msg /\ senders' = senders /\ finished' = finished
  BY DEF SaveNew, call, Goto
<1>2. TypeOK /\ Shape /\ DirectIsExact /\ AtPc(r) /\ DeliveredToMembers /\ SendsInv
      /\ ReadUpdatedTrue /\ ReadOnce
  BY DEF ChatIInv
<1>3. CASE UNCHANGED <<conversations, last, conv>>
  <2>1. TypeOK' /\ Shape'
    BY <1>1, <1>2, <1>3 DEF TypeOK, Shape, registry
  <2>2. AtPc(r)'
    BY <1>1, <1>2, <1>3 DEF AtPc, TypeOK
  <2> QED BY <1>1, <1>2, <1>3, <2>1, <2>2, QuietStep DEF TypeOK, DirectIsExact
<1>4. CASE /\ conversations' = Append(conversations, asked[r])
           /\ last' = Append(last, 0)
           /\ conv' = [conv EXCEPT ![r] = Len(conversations) + 1] \/ conv' = conv
  <2> DEFINE n == Len(conversations)
  <2>1. conversations \in Seq(Conversation) /\ asked[r] \in Conversation /\ n \in Nat
        /\ last \in Seq(Nat) /\ Len(last) = n
    BY <1>2, Stored DEF Shape, TypeOK
  <2>2. /\ conversations' \in Seq(Conversation) /\ Len(conversations') = n + 1
        /\ \A c \in 1..n : conversations'[c] = conversations[c]
        /\ conversations'[n + 1] = asked[r]
    BY <1>4, <2>1
  <2>3. /\ last' \in Seq(Nat) /\ Len(last') = n + 1 /\ last'[n + 1] = 0
        /\ \A c \in 1..n : last'[c] = last[c]
    BY <1>4, <2>1
  <2>4. /\ conv'[r] = n + 1 \/ (conv'[r] = conv[r] /\ conv[r] \in 0..n)
        /\ conv' \in [Request -> 0..n + 1] /\ \A q \in Request \ {r} : conv'[q] = conv[q]
    <3>1. conv \in [Request -> 0..n + 1] /\ conv[r] \in 0..n
      BY <1>2, <2>1 DEF TypeOK
    <3> QED BY <1>4, <2>1, <3>1
  <2>5. /\ \A c \in 1..n + 1 : last'[c] \in 0..Len(messages)
        /\ \A m \in 1..Len(messages) :
              messages[m] \in [conv : 1..n + 1, sender : User, readBy : [User -> Nat]]
        /\ told \subseteq User \X (1..n + 1) \X User
    <3>1. \A c \in 1..n : last[c] \in 0..Len(messages)
      BY <1>2, <2>1 DEF TypeOK
    <3>2. Len(messages) \in Nat
      BY <1>2, Stored
    <3>3. \A c \in 1..n + 1 : last'[c] \in 0..Len(messages)
      BY <2>1, <2>3, <3>1, <3>2
    <3>4. 1..n \subseteq 1..n + 1
      BY <2>1
    <3>5. told \subseteq User \X (1..n + 1) \X User
      BY <1>2, <3>4 DEF TypeOK
    <3>6. \A m \in 1..Len(messages) :
              messages[m] \in [conv : 1..n + 1, sender : User, readBy : [User -> Nat]]
      BY <1>2, <3>4 DEF TypeOK
    <3> QED BY <3>3, <3>5, <3>6
  <2> HIDE DEF n
  <2>6. TypeOK'
    BY <1>1, <1>2, <2>2, <2>3, <2>4, <2>5 DEF TypeOK, registry, Conversation
  <2>7. Shape'
    BY <1>1, <1>2, <2>3 DEF Shape
  <2>8. Grown
    <3>1. \A m \in 1..Len(messages) : \A u \in User : messages[m].readBy[u] \in Nat
      BY <1>2, Stored
    <3>2. Len(messages) \in Nat
      BY <1>2, Stored
    <3> QED BY <1>1, <2>1, <2>2, <3>1, <3>2 DEF Grown, n
  <2>9. AtPc(r)'
    BY <1>1, <1>2 DEF AtPc, TypeOK
  <2>10. DeliveredToMembers' /\ ReadUpdatedTrue' /\ ReadOnce'
    BY <1>1, <1>2, <2>6, <2>7, <2>8, DeliveredSame, ToldTrue DEF ReadOnce, registry
  <2>11. SendsInv'
    BY <1>1, <1>2, <2>6, <2>7, <2>8, SendsSame DEF TypeOK
  <2>12. (op'[r] = "create" /\ conv'[r] # 0) => conversations'[conv'[r]] = asked'[r]
    <3>1. CASE conv'[r] = n + 1
      BY <1>1, <2>2, <3>1
    <3>2. CASE conv'[r] = conv[r] /\ conv[r] \in 0..n
      BY <1>1, <1>2, <2>1, <2>2, <3>2 DEF DirectIsExact
    <3> QED BY <2>4, <3>1, <3>2
  <2> QED BY <1>1, <1>2, <2>4, <2>6, <2>7, <2>8, <2>9, <2>10, <2>11, <2>12, RequestStep DEF TypeOK
<1> QED BY <1>3, <1>4 DEF SaveNew

LEMMA SaveMessageStep ==
    ASSUME ChatIInv, NEW r \in Request, SaveMessage(r)
    PROVE  ChatIInv'
<1> DEFINE w == [conv |-> conv[r], sender |-> who[r],
                 readBy |-> [u \in User |-> IF u = who[r] THEN 1 ELSE 0]]
           n == Len(messages)
<1>1. /\ pc[r] = "saveMessage" /\ \E l \in {"saveLast", "done"} : pc' = [pc EXCEPT ![r] = l]
      /\ messages' = Append(messages, w) /\ msg' = [msg EXCEPT ![r] = n + 1]
      /\ UNCHANGED registry /\ conversations' = conversations /\ last' = last
      /\ inbox' = inbox /\ told' = told /\ op' = op /\ who' = who /\ from' = from /\ conv' = conv
      /\ asked' = asked /\ senders' = senders /\ finished' = finished
  BY DEF SaveMessage, Saved, call, Goto
<1>2. TypeOK /\ Shape /\ DirectIsExact /\ AtPc(r) /\ DeliveredToMembers /\ SendsInv
      /\ ReadUpdatedTrue /\ ReadOnce
  BY DEF ChatIInv
<1>3. conv[r] \in 1..Len(conversations) /\ Len(conversations) \in Nat /\ who[r] \in User /\ n \in Nat
      /\ messages \in Seq(Message)
  BY <1>1, <1>2, Stored DEF AtPc, TypeOK, Shape
<1>4. /\ w \in [conv : 1..Len(conversations), sender : User, readBy : [User -> Nat]]
      /\ w \in Message /\ w.conv = conv[r] /\ w.sender = who[r]
      /\ \A u \in User : w.readBy[u] <= 1
  <2> DEFINE f == [u \in User |-> IF u = who[r] THEN 1 ELSE 0]
  <2>1. f \in [User -> Nat] /\ \A u \in User : f[u] <= 1
    OBVIOUS
  <2> HIDE DEF f
  <2> SUFFICES LET v == [conv |-> conv[r], sender |-> who[r], readBy |-> f]
               IN  /\ v \in [conv : 1..Len(conversations), sender : User, readBy : [User -> Nat]]
                   /\ v \in Message /\ v.conv = conv[r] /\ v.sender = who[r]
                   /\ \A u \in User : v.readBy[u] <= 1
    BY DEF f
  <2> QED BY <1>3, <2>1 DEF Message
<1> HIDE DEF w
<1>5. /\ messages' \in Seq(Message) /\ Len(messages') = n + 1 /\ messages'[n + 1] = w
      /\ \A m \in 1..n : messages'[m] = messages[m]
  BY <1>1, <1>3, <1>4
<1>6. msg' \in [Request -> 0..n + 1] /\ msg'[r] = n + 1 /\ \A q \in Request \ {r} : msg'[q] = msg[q]
  <2>1. msg \in [Request -> 0..n + 1]
    BY <1>2, <1>3 DEF TypeOK
  <2> QED BY <1>1, <1>3, <2>1
<1>7. /\ \A m \in 1..n + 1 :
            messages'[m] \in [conv : 1..Len(conversations), sender : User, readBy : [User -> Nat]]
      /\ \A m \in 1..n + 1 : \A u \in User : messages'[m].readBy[u] <= 1
  <2>1. \A m \in 1..n :
            messages[m] \in [conv : 1..Len(conversations), sender : User, readBy : [User -> Nat]]
    BY <1>2 DEF TypeOK
  <2>2. \A m \in 1..n : \A u \in User : messages[m].readBy[u] <= 1
    BY <1>2 DEF ReadOnce
  <2>3. \A m \in 1..n + 1 : m \in 1..n \/ m = n + 1
    BY <1>3
  <2> QED BY <1>4, <1>5, <2>1, <2>2, <2>3
<1>8. \A k \in 0..n : k \in 0..n + 1
  BY <1>3
<1>9. TypeOK'
  <2>1. \A c \in 1..Len(last) : last[c] \in 0..n + 1
    BY <1>2, <1>8 DEF TypeOK
  <2>2. 1..n \subseteq 1..n + 1
    BY <1>3
  <2>3. inbox \in [Socket -> SUBSET (1..n + 1)]
    BY <1>2, <2>2 DEF TypeOK
  <2>4. pc' \in [Request -> Pcs]
    BY <1>1, <1>2 DEF TypeOK, Pcs
  <2> HIDE DEF n
  <2> QED BY <1>1, <1>2, <1>5, <1>6, <1>7, <2>1, <2>3, <2>4 DEF TypeOK, registry, Pcs
<1> HIDE DEF n
<1>10. Shape'
  BY <1>1, <1>2, <1>5 DEF Shape
<1>11. Grown
  <2>1. \A m \in 1..n : \A u \in User : messages[m].readBy[u] \in Nat
    BY <1>2, Stored DEF n
  <2> QED BY <1>1, <1>3, <1>5, <2>1 DEF Grown, n
<1>12. AtPc(r)'
  <2>1. pc'[r] \in {"saveLast", "done"} /\ conv'[r] # 0 /\ msg'[r] = n + 1 /\ n + 1 # 0
    BY <1>1, <1>2, <1>3, <1>6 DEF TypeOK
  <2>2. Wrote(who[r], conv[r], msg[r])'
    BY <1>1, <1>4, <1>5, <1>6 DEF Wrote
  <2> QED BY <2>1, <2>2 DEF AtPc
<1>13. DeliveredToMembers' /\ ReadUpdatedTrue' /\ ReadOnce'
  <2>1. ReadOnce'
    BY <1>5, <1>7 DEF ReadOnce
  <2> QED BY <1>1, <1>2, <1>9, <1>10, <1>11, <2>1, DeliveredSame, ToldTrue DEF registry
<1>14. SendsInv'
  <2>1. \A q \in Request : msg[q] \in 0..n
    BY <1>2 DEF TypeOK, n
  <2>2. Len(Earlier) <= n /\ Len(Earlier) \in Nat
    BY <1>2, EarlierIs DEF SendsInv, n
  <2>3. Len(Earlier) <= Len(messages')
    BY <1>3, <1>5, <2>2
  <2>4. \A p, q \in Request : msg'[p] = msg'[q] /\ msg'[p] # 0 => p = q
    <3>1. \A p, q \in Request : msg[p] = msg[q] /\ msg[p] # 0 => p = q
      BY <1>2 DEF SendsInv
    <3>2. \A q \in Request : msg[q] # n + 1
      BY <1>3, <2>1
    <3> QED BY <1>6, <3>1, <3>2
  <2>5. \A q \in Request : msg'[q] # 0 => msg'[q] > Len(Earlier)
    <3>1. \A q \in Request : msg[q] # 0 => msg[q] > Len(Earlier)
      BY <1>2 DEF SendsInv
    <3> QED BY <1>3, <1>6, <2>2, <3>1
  <2>6. \A q \in Request : \A m \in finished'[q] :
            m \in 1..Len(Earlier) \/ \E p \in Request : pc'[p] = "done" /\ msg'[p] = m /\ m # 0
    <3>1. \A p \in Request : pc[p] = "done" => pc'[p] = "done" /\ msg'[p] = msg[p]
      BY <1>1, <1>2, <1>6 DEF TypeOK
    <3> QED BY <1>1, <1>2, <3>1 DEF SendsInv
  <2> QED BY <2>3, <2>4, <2>5, <2>6 DEF SendsInv
<1>15. \A q \in Request \ {r} : pc'[q] = pc[q]
  BY <1>1, <1>2 DEF TypeOK
<1>16. (op'[r] = "create" /\ conv'[r] # 0) => conversations'[conv'[r]] = asked'[r]
  BY <1>1, <1>2 DEF DirectIsExact
<1> QED BY <1>1, <1>6, <1>9, <1>10, <1>11, <1>12, <1>13, <1>14, <1>15, <1>16, RequestStep

\* What updateMany does to one message.
LEMMA MarkedIs ==
    ASSUME NEW C, NEW w \in [conv : C, sender : User, readBy : [User -> Nat]], NEW u \in User
    PROVE  LET v == [w EXCEPT !.readBy[u] = @ + 1]
           IN  /\ v \in [conv : C, sender : User, readBy : [User -> Nat]]
               /\ v.conv = w.conv /\ v.sender = w.sender
               /\ v.readBy = [w.readBy EXCEPT ![u] = @ + 1]
<1> DEFINE f == [w.readBy EXCEPT ![u] = @ + 1]
           v == [w EXCEPT !.readBy = f]
<1>1. f \in [User -> Nat]
  OBVIOUS
<1>2. [w EXCEPT !.readBy[u] = @ + 1] = v
  OBVIOUS
<1> HIDE DEF f
<1>3. /\ v \in [conv : C, sender : User, readBy : [User -> Nat]]
      /\ v.conv = w.conv /\ v.sender = w.sender /\ v.readBy = f
  BY <1>1
<1> HIDE DEF v
<1> QED BY <1>2, <1>3 DEF f

\* UpdateMany: only the messages that the user has not read are marked, so none
\* is marked twice; and of every sender found before, one is read now.
LEMMA UpdateManyStep ==
    ASSUME ChatIInv, NEW r \in Request, UpdateMany(r)
    PROVE  ChatIInv'
<1> DEFINE x == who[r]
           n == Len(messages)
<1>0. PICK M \in SUBSET Unread(x, conv[r]) :
          /\ messages' = [m \in 1..n |->
                  IF m \in M THEN [messages[m] EXCEPT !.readBy[x] = @ + 1] ELSE messages[m]]
          /\ \E l \in {"done", "notify"} :
                pc' = [pc EXCEPT ![r] = l] /\ (l = "notify" => M = Unread(x, conv[r]))
  BY DEF UpdateMany, Updated, Goto
<1>1. /\ pc[r] = "update"
      /\ messages' = [m \in 1..n |->
              IF m \in M THEN [messages[m] EXCEPT !.readBy[x] = @ + 1] ELSE messages[m]]
      /\ UNCHANGED registry /\ conversations' = conversations /\ last' = last
      /\ inbox' = inbox /\ told' = told /\ op' = op /\ who' = who /\ from' = from /\ conv' = conv
      /\ asked' = asked /\ msg' = msg /\ senders' = senders /\ finished' = finished
  BY <1>0 DEF UpdateMany, call
<1>2. PICK l \in {"done", "notify"} :
          pc' = [pc EXCEPT ![r] = l] /\ (l = "notify" => M = Unread(x, conv[r]))
  BY <1>0
<1>3. TypeOK /\ Shape /\ DirectIsExact /\ AtPc(r) /\ DeliveredToMembers /\ SendsInv
      /\ ReadUpdatedTrue /\ ReadOnce
  BY DEF ChatIInv
<1>4. x \in User /\ n \in Nat /\ conv[r] # 0
  BY <1>1, <1>3, Stored DEF AtPc, Shape
<1>5. \A m \in M : m \in 1..n /\ messages[m].readBy[x] = 0 /\ messages[m].sender # x
  BY DEF Unread
<1>6. l = "notify" => \A m \in 1..n :
          Wrote(messages[m].sender, conv[r], m) /\ messages[m].sender # x /\ m \notin M
              => messages[m].readBy[x] # 0
  BY <1>2 DEF Unread, Wrote
<1> DEFINE C == 1..Len(conversations)
<1> HIDE DEF x, n, C
<1>7. \A m \in 1..n : messages[m] \in [conv : C, sender : User, readBy : [User -> Nat]]
  BY <1>3 DEF TypeOK, n, C
<1>8. \A m \in 1..n :
          /\ messages'[m] \in [conv : C, sender : User, readBy : [User -> Nat]]
          /\ messages'[m].conv = messages[m].conv /\ messages'[m].sender = messages[m].sender
          /\ messages'[m].readBy = IF m \in M THEN [messages[m].readBy EXCEPT ![x] = @ + 1]
                                              ELSE messages[m].readBy
  <2> TAKE m \in 1..n
  <2>1. CASE m \in M
    <3> DEFINE v == [messages[m] EXCEPT !.readBy[x] = @ + 1]
    <3>1. messages'[m] = v
      BY <1>1, <2>1
    <3>2. /\ v \in [conv : C, sender : User, readBy : [User -> Nat]]
          /\ v.conv = messages[m].conv /\ v.sender = messages[m].sender
          /\ v.readBy = [messages[m].readBy EXCEPT ![x] = @ + 1]
      BY <1>4, <1>7, MarkedIs
    <3> HIDE DEF v
    <3> QED BY <2>1, <3>1, <3>2
  <2>2. CASE m \notin M
    BY <1>1, <1>7, <2>2
  <2> QED BY <2>1, <2>2
<1>9. messages' \in Seq(Message) /\ Len(messages') = n
  <2>1. C \subseteq Nat
    BY DEF C
  <2>2. \A m \in 1..n : messages'[m] \in Message
    BY <1>8, <2>1 DEF Message
  <2>3. messages' \in [1..n -> Message]
    BY <1>1, <2>2
  <2> QED BY <1>4, <2>3
<1>10. \A m \in 1..n : \A u \in User :
          /\ messages[m].readBy[u] \in Nat /\ messages'[m].readBy[u] \in Nat
          /\ messages[m].readBy[u] <= messages'[m].readBy[u]
          /\ messages'[m].readBy[u] =
                IF m \in M /\ u = x THEN messages[m].readBy[u] + 1 ELSE messages[m].readBy[u]
  <2> TAKE m \in 1..n
  <2> TAKE u \in User
  <2>1. messages[m].readBy \in [User -> Nat] /\ messages[m].readBy[u] \in Nat
    BY <1>7
  <2>2. messages'[m].readBy = IF m \in M THEN [messages[m].readBy EXCEPT ![x] = @ + 1]
                                          ELSE messages[m].readBy
    BY <1>8
  <2>3. messages'[m].readBy[u] =
            IF m \in M /\ u = x THEN messages[m].readBy[u] + 1 ELSE messages[m].readBy[u]
    BY <2>1, <2>2
  <2> QED BY <2>1, <2>3
<1>11. TypeOK'
  <2>1. pc' \in [Request -> Pcs]
    BY <1>2, <1>3 DEF TypeOK, Pcs
  <2>2. \A m \in 1..Len(messages') :
            messages'[m] \in [conv : 1..Len(conversations), sender : User, readBy : [User -> Nat]]
    BY <1>8, <1>9 DEF C
  <2> QED BY <1>1, <1>3, <1>9, <2>1, <2>2 DEF TypeOK, registry, Pcs, n
<1>12. Shape'
  BY <1>1, <1>3, <1>9 DEF Shape
<1>13. Grown
  <2>1. Len(conversations) \in Nat
    BY <1>3, Stored
  <2> QED BY <1>1, <1>4, <1>8, <1>9, <1>10, <2>1 DEF Grown, n
<1>14. ReadOnce'
  <2> SUFFICES ASSUME NEW m \in 1..n, NEW u \in User
               PROVE  messages'[m].readBy[u] <= 1
    BY <1>9 DEF ReadOnce
  <2>1. messages[m].readBy[u] <= 1
    BY <1>3 DEF ReadOnce, n
  <2> QED BY <1>5, <1>10, <2>1
<1>15. AtPc(r)'
  <2>1. pc'[r] = l
    BY <1>2, <1>3 DEF TypeOK
  <2>2. l = "notify" => \A v \in senders[r] : \E m \in 1..n :
            Wrote(v, conv[r], m)' /\ messages'[m].readBy[x] > 0
    <3> SUFFICES ASSUME l = "notify", NEW v \in senders[r]
                 PROVE  \E m \in 1..n : Wrote(v, conv[r], m)' /\ messages'[m].readBy[x] > 0
      OBVIOUS
    <3>1. PICK m \in 1..n : Wrote(v, conv[r], m) /\ v # x
      BY <1>1, <1>3 DEF AtPc, n, x
    <3>2. Wrote(v, conv[r], m)'
      BY <1>1, <1>8, <3>1 DEF Wrote
    <3>3. m \in M \/ messages[m].readBy[x] # 0
      BY <1>6, <3>1 DEF Wrote
    <3>4. messages'[m].readBy[x] > 0
      BY <1>4, <1>10, <3>3
    <3> QED BY <3>2, <3>4
  <2> QED BY <1>1, <1>4, <1>9, <2>1, <2>2 DEF AtPc, x
<1>16. DeliveredToMembers' /\ ReadUpdatedTrue'
  BY <1>1, <1>3, <1>11, <1>12, <1>13, DeliveredSame, ToldTrue DEF registry
<1>17. SendsInv'
  BY <1>1, <1>2, <1>3, <1>11, <1>12, <1>13, SendsSame DEF TypeOK
<1>18. \A q \in Request \ {r} : pc'[q] = pc[q]
  BY <1>2, <1>3 DEF TypeOK
<1>19. (op'[r] = "create" /\ conv'[r] # 0) => conversations'[conv'[r]] = asked'[r]
  BY <1>1, <1>3 DEF DirectIsExact
<1> QED BY <1>1, <1>11, <1>12, <1>13, <1>14, <1>15, <1>16, <1>17, <1>18, <1>19, RequestStep

-----------------------------------------------------------------------------
(* The invariant.                                                          *)

NatLess == {p \in Nat \X Nat : p[1] < p[2]}

\* A nonempty set of naturals with an upper bound has a greatest element: the
\* distances of its elements from the bound have a least one.
LEMMA MaxIs ==
    ASSUME NEW n \in Nat, NEW S \in SUBSET (0..n), S # {}
    PROVE  Max(S) \in S
<1> DEFINE T == {t \in 0..n : n - t \in S}
<1>1. T \subseteq Nat
  OBVIOUS
<1>2. T # {}
  <2>1. PICK x \in S : TRUE
    OBVIOUS
  <2>2. n - x \in 0..n /\ n - (n - x) = x
    OBVIOUS
  <2>3. n - x \in T
    BY <2>1, <2>2
  <2> QED BY <2>3
<1>3. PICK t \in T : \A y \in T : ~(<<y, t>> \in NatLess)
  <2>1. IsWellFoundedOn(NatLess, Nat)
    BY NatLessThanWellFounded DEF NatLess, OpToRel
  <2> HIDE DEF T
  <2> QED BY <1>1, <1>2, <2>1, WFMin
<1>4. \A y \in T : t <= y
  <2> TAKE y \in T
  <2>1. t \in Nat /\ y \in Nat /\ <<y, t>> \notin NatLess
    BY <1>1, <1>3
  <2>2. ~(y < t)
    BY <2>1 DEF NatLess
  <2> QED BY <2>1, <2>2
<1>5. n - t \in S
  OBVIOUS
<1>6. \A y \in S : n - t >= y
  <2> TAKE y \in S
  <2>1. n - y \in 0..n /\ n - (n - y) = y
    OBVIOUS
  <2>2. t <= n - y
    BY <1>4, <2>1
  <2> QED BY <2>2
<1> QED BY <1>5, <1>6 DEF Max

LEMMA ChatInit == Init => ChatIInv
<1> SUFFICES ASSUME Init
             PROVE  ChatIInv
  OBVIOUS
<1> DEFINE n == Len(Earlier)
           L(c) == {0} \cup {m \in 1..n : Earlier[m].conv = c}
<1>1. /\ n \in Nat /\ Len(First) \in Nat /\ First \in Seq(Conversation) /\ Earlier \in Seq(Message)
      /\ \A m \in 1..n :
            Earlier[m] \in [conv : 1..Len(First), sender : User, readBy : [User -> 0..1]]
  BY EarlierIs
<1>2. conversations = First /\ messages = Earlier /\ last = [c \in 1..Len(First) |-> Max(L(c))]
  BY DEF Init
<1>3. \A c \in 1..Len(First) : Max(L(c)) \in 0..n
  <2> TAKE c \in 1..Len(First)
  <2>1. L(c) \in SUBSET (0..n) /\ L(c) # {}
    BY <1>1
  <2> HIDE DEF L
  <2> QED BY <1>1, <2>1, MaxIs
<1> HIDE DEF L
<1>4. last \in Seq(Nat) /\ Len(last) = Len(First) /\ \A c \in 1..Len(last) : last[c] \in 0..n
  <2>1. last \in [1..Len(First) -> Nat]
    BY <1>1, <1>2, <1>3
  <2>2. last \in Seq(Nat) /\ Len(last) = Len(First)
    BY <1>1, <2>1
  <2> QED BY <1>2, <1>3, <2>2
<1>5. \A m \in 1..n :
          /\ Earlier[m] \in [conv : 1..Len(First), sender : User, readBy : [User -> Nat]]
          /\ \A u \in User : Earlier[m].readBy[u] <= 1
  <2> TAKE m \in 1..n
  <2>1. Earlier[m] \in [conv : 1..Len(First), sender : User, readBy : [User -> 0..1]]
    BY <1>1
  <2>2. Earlier[m].readBy \in [User -> Nat]
    BY <2>1
  <2>3. \A u \in User : Earlier[m].readBy[u] <= 1
    BY <2>1
  <2> QED BY <2>1, <2>2, <2>3
<1> HIDE DEF n
<1>6. TypeOK
  <2>1. /\ conv \in [Request -> 0..Len(First)] /\ msg \in [Request -> 0..n]
    BY <1>1 DEF Init
  <2>2. /\ socketUser \in [Socket -> User \cup {Nobody}] /\ userSockets \in [User -> SUBSET Socket]
        /\ inbox \in [Socket -> SUBSET (1..n)] /\ told \subseteq User \X (1..Len(First)) \X User
        /\ pc \in [Request -> Pcs] /\ senders \in [Request -> SUBSET User]
    BY DEF Init, Pcs
  <2> QED BY <1>1, <1>2, <1>4, <1>5, <2>1, <2>2 DEF TypeOK, Pcs, Conversation, n
<1>7. Shape
  <2>1. NoQuery \in Conversation
    BY DEF NoQuery, Conversation, Type
  <2> QED BY <1>1, <1>2, <1>4, <2>1 DEF Init, Shape
<1>8. ReadOnce
  BY <1>2, <1>5 DEF ReadOnce, n
<1>9. RegistryInv
  BY ChatAssumption DEF Init, RegistryInv
<1>10. SendsInv
  BY <1>1, <1>2 DEF Init, SendsInv, n
<1>11. DeliveredToMembers /\ DirectIsExact /\ ReadUpdatedTrue
  BY DEF Init, DeliveredToMembers, DirectIsExact, ReadUpdatedTrue
<1>12. \A r \in Request : AtPc(r)
  BY DEF Init, AtPc
<1> QED BY <1>6, <1>7, <1>8, <1>9, <1>10, <1>11, <1>12 DEF ChatIInv

LEMMA ChatStep == ChatIInv /\ [Next]_vars => ChatIInv'
<1> SUFFICES ASSUME ChatIInv, [Next]_vars
             PROVE  ChatIInv'
  OBVIOUS
<1>1. ASSUME NEW s \in Socket, Connect(s) \/ Disconnect(s)
      PROVE  ChatIInv'
  BY <1>1, ConnectStep, DisconnectStep
<1>2. ASSUME NEW r \in Request, Arrive(r) \/ Step(r) \/ DatabaseError(r)
      PROVE  ChatIInv'
  BY <1>2, ArriveStep, DatabaseErrorStep, FindByIdStep, FindOneStep, SaveNewStep, SaveMessageStep,
     SaveLastStep, EmitStep, FindUnreadStep, UpdateManyStep, NotifyStep DEF Step
<1>3. CASE UNCHANGED vars
  <2>1. TypeOK' /\ RegistryInv' /\ DeliveredToMembers'
    BY <1>3 DEF ChatIInv, vars, registry, store, call, TypeOK, RegistryInv, DeliveredToMembers, Members
  <2> QED BY <1>3, <2>1, RegistryStep DEF vars
<1> QED BY <1>1, <1>2, <1>3 DEF Next

\* The store, the two maps of the WebSocket registry and every request in
\* progress hang together, whatever handlers interleave.
THEOREM ChatInvariance == Spec => []ChatIInv
BY ChatInit, ChatStep, PTL DEF Spec

\* The store is well formed, and a message has each reader once, however the
\* query and the update of two marks by one user interleave.
THEOREM ReadersOnce == Spec => []ChatInv
<1>1. ChatIInv => ChatInv
  BY DEF ChatIInv, ChatInv
<1> QED BY <1>1, ChatInvariance, PTL

\* Whatever sockets come and go while a message is saved, it is emitted only to
\* sockets of other participants, and none keeps it for its next user.
THEOREM OnlyMembersReceive == Spec => []DeliveredToMembers
<1>1. ChatIInv => DeliveredToMembers
  BY DEF ChatIInv
<1> QED BY <1>1, ChatInvariance, PTL

\* The answer to a request for a direct conversation is one between exactly those
\* asked for; that the users are finitely many is what makes $all and $size
\* together an equality.
THEOREM DirectExact == Spec => []DirectIsExact
<1>1. ChatIInv => DirectIsExact
  BY DEF ChatIInv
<1> QED BY <1>1, ChatInvariance, PTL

\* markRead has a sender told that a conversation was read only when something of
\* theirs in it is read by then: its updateMany is evaluated anew, after the query
\* that found whom to tell, and what the query saw unread it has marked.
THEOREM NotificationsTrue == Spec => []ReadUpdatedTrue
<1>1. ChatIInv => ReadUpdatedTrue
  BY DEF ChatIInv
<1> QED BY <1>1, ChatInvariance, PTL

\* The last message of a conversation is replaced in sendMessage only, by that of a
\* send which is under way: never by one that was sent in full before the send
\* of the present one began, though the two saves of a send are apart.
THEOREM LastIsForward == Spec => LastNeverGoesBack
<1>1. ChatIInv /\ [Next]_vars =>
        [\A c \in 1..Len(last) :
            last'[c] # last[c] =>
                \A r \in Request : (msg[r] # 0 /\ msg[r] = last[c]) => last'[c] \notin finished[r]]_vars
  <2> SUFFICES ASSUME ChatIInv, Next, NEW c \in 1..Len(last), last'[c] # last[c],
                      NEW p \in Request
               PROVE  last'[c] \notin finished[p]
    OBVIOUS
  <2>1. TypeOK /\ Shape /\ SendsInv /\ last \in Seq(Nat)
    BY DEF ChatIInv, Shape
  <2>2. ASSUME NEW r \in Request, SaveLast(r)
        PROVE  last'[c] \notin finished[p]
    <3>1. pc[r] = "saveLast" /\ last' = [last EXCEPT ![conv[r]] = msg[r]]
      BY <2>2 DEF SaveLast
    <3>2. last'[c] = msg[r]
      BY <2>1, <3>1
    <3>3. msg[r] # 0 /\ msg[r] > Len(Earlier) /\ Len(Earlier) \in Nat /\ msg[r] \in Nat
      <4>1. msg[r] # 0 /\ msg[r] \in 0..Len(messages)
        BY <2>1, <3>1 DEF ChatIInv, AtPc, TypeOK
      <4> QED BY <2>1, <4>1, EarlierIs DEF SendsInv
    <3>4. \A q \in Request : msg[q] = msg[r] => q = r
      BY <2>1, <3>3 DEF SendsInv
    <3>5. msg[r] \notin finished[p]
      BY <2>1, <3>1, <3>3, <3>4 DEF SendsInv
    <3> QED BY <3>2, <3>5
  <2>3. ASSUME NEW r \in Request, SaveNew(r)
        PROVE  FALSE
    <3>1. last' = last \/ last' = Append(last, 0)
      BY <2>3 DEF SaveNew
    <3>2. Append(last, 0)[c] = last[c]
      BY <2>1
    <3> QED BY <3>1, <3>2
  <2>4. CASE \E s \in Socket : Connect(s) \/ Disconnect(s)
    BY <2>4 DEF Connect, Disconnect, store
  <2>5. ASSUME NEW r \in Request,
               \/ Arrive(r) \/ DatabaseError(r) \/ FindById(r) \/ FindOne(r) \/ SaveMessage(r)
               \/ Emit(r) \/ FindUnread(r) \/ UpdateMany(r) \/ Notify(r)
        PROVE  FALSE
    BY <2>5 DEF Arrive, DatabaseError, FindById, FindOne, SaveMessage, Emit, FindUnread, UpdateMany,
                Notify, store
  <2> QED BY <2>2, <2>3, <2>4, <2>5 DEF Next, Step
<1> QED BY <1>1, ChatInvariance, PTL DEF Spec, LastNeverGoesBack
=============================================================================
