--------------------------- MODULE OtpVaultProofs ---------------------------
(***************************************************************************)
(* Proofs about OtpVault, for any requests, users, names and failures.     *)
(* The invariant is about the table and its history alone (TableInv), and  *)
(* about each request and the one change it makes (RequestInv).            *)
(***************************************************************************)
EXTENDS OtpVault, TLAPS

Early == {"idle", "insert", "update", "remove"}

Telling == {"sync", "otpCreated"}

\* The name of a row is that of an update or, if there was none, of its creation.
NameWritten ==
    \A id \in Live : \E h \in history :
        /\ h.id = id /\ h.action # "deleted" /\ h.name = otp[id].name
        /\ h.action = "updated" \/ \A g \in history : g.id = id => g.action # "updated"

\* Ids come from the sequence, and rows go only by being deleted.
IdsKnown ==
    /\ \A id \in Live : id <= lastId
    /\ \A h \in history : h.id <= lastId
    /\ \A id \in 1..lastId : id \notin Live => \E h \in history : h.action = "deleted" /\ h.id = id

TableInv == IdsKnown /\ NamesUnique /\ DeletedIsGone /\ NameWritten

OneChange == \A g, h \in history : g.req = h.req => g = h

\* What is known of a request at its pc.
AtPc(r) ==
    /\ pc[r] \in {"insert", "update", "remove"} => seen[r] \in Seen /\ caller[r] \in User
    /\ pc[r] \in Early => \A h \in history : h.req # r
    /\ pc[r] \in Telling => change[r] \in history /\ change[r].req = r
    /\ pc[r] = "otpCreated" => /\ change[r].action = "created"
                               /\ change[r] \in sync \/ r \in faulted \cup late

RequestInv == OneChange /\ (\A r \in Request : AtPc(r)) /\ LossesExplained

VaultIInv == TypeOK /\ TableInv /\ RequestInv
-----------------------------------------------------------------------------
(* The table and its history.                                              *)

LEMMA TableFrame ==
    ASSUME TableInv, UNCHANGED table
    PROVE  TableInv'
<1>1. otp' = otp /\ lastId' = lastId /\ history' = history
  BY DEF table
<1>2. IdsKnown'
  BY <1>1 DEF TableInv, IdsKnown, Live
<1>3. NamesUnique' /\ DeletedIsGone' /\ NameWritten'
  BY <1>1 DEF TableInv, NamesUnique, DeletedIsGone, NameWritten, Live
<1> QED BY <1>2, <1>3 DEF TableInv

\* Insert: a new id, a name that the user has nowhere, and an event of its own.
LEMMA TableInsert ==
    ASSUME TypeOK, TableInv, NEW u \in User, NEW n \in Name, NEW e \in Event,
           lastId + 1 <= MaxOtps, lastId' = lastId + 1,
           otp' = [otp EXCEPT ![lastId + 1] = [user |-> u, name |-> n]],
           history' = history \cup {e},
           e.action = "created", e.id = lastId + 1, e.name = n,
           Named(u, n) = {}
    PROVE  TableInv'
<1> DEFINE new == lastId + 1
           row == [user |-> u, name |-> n]
<1>1. new \in Id /\ lastId \in Nat /\ new \notin Live
  BY VaultAssumption DEF TypeOK, Id, TableInv, IdsKnown
<1>2. row \in Row /\ row # None
  BY VaultAssumption DEF Row
<1>3. Live' = Live \cup {new} /\ otp'[new] = row /\ \A id \in Live : otp'[id] = otp[id]
  BY <1>1, <1>2 DEF TypeOK, Live
<1>4. \A h \in history : h.id # new
  BY <1>1 DEF TypeOK, TableInv, IdsKnown, Event, Id
<1>5. IdsKnown'
  BY <1>1, <1>3 DEF TableInv, IdsKnown, TypeOK, Event, Id, Live
<1>6. NamesUnique'
  BY <1>3 DEF TableInv, NamesUnique, Named
<1>7. DeletedIsGone'
  BY <1>3, <1>4 DEF TableInv, DeletedIsGone
<1>8. NameWritten'
  <2> SUFFICES ASSUME NEW id \in Live'
               PROVE  \E h \in history' :
                        /\ h.id = id /\ h.action # "deleted" /\ h.name = otp'[id].name
                        /\ h.action = "updated" \/ \A g \in history' : g.id = id => g.action # "updated"
    BY DEF NameWritten
  <2>1. CASE id = new
    BY <1>3, <1>4, <2>1
  <2>2. CASE id \in Live
    <3>1. id # new /\ otp'[id] = otp[id]
      BY <1>1, <1>3, <2>2
    <3> QED BY <2>2, <3>1 DEF TableInv, NameWritten
  <2> QED BY <1>3, <2>1, <2>2
<1> QED BY <1>5, <1>6, <1>7, <1>8 DEF TableInv

\* UpdateWrite: a name that the user has at most in this row.
LEMMA TableUpdate ==
    ASSUME TypeOK, TableInv, NEW u \in User, NEW n \in Name, NEW id \in Live, NEW e \in Event,
           lastId' = lastId,
           otp' = [otp EXCEPT ![id] = [user |-> u, name |-> n]],
           history' = history \cup {e},
           e.action = "updated", e.id = id, e.name = n,
           Named(u, n) \subseteq {id}
    PROVE  TableInv'
<1> DEFINE row == [user |-> u, name |-> n]
<1>1. row \in Row /\ row # None
  BY VaultAssumption DEF Row
<1>2. Live' = Live /\ otp'[id] = row /\ \A i \in Live \ {id} : otp'[i] = otp[i]
  BY <1>1 DEF TypeOK, Live
<1>3. IdsKnown'
  BY <1>2 DEF TableInv, IdsKnown
<1>4. NamesUnique'
  BY <1>2 DEF TableInv, NamesUnique, Named
<1>5. DeletedIsGone'
  BY <1>2 DEF TableInv, DeletedIsGone
<1>6. NameWritten'
  <2> SUFFICES ASSUME NEW i \in Live'
               PROVE  \E h \in history' :
                        /\ h.id = i /\ h.action # "deleted" /\ h.name = otp'[i].name
                        /\ h.action = "updated" \/ \A g \in history' : g.id = i => g.action # "updated"
    BY DEF NameWritten
  <2>1. CASE i = id
    BY <1>2, <2>1
  <2>2. CASE i \in Live \ {id}
    <3>1. otp'[i] = otp[i]
      BY <1>2, <2>2
    <3> QED BY <2>2, <3>1 DEF TableInv, NameWritten
  <2> QED BY <1>2, <2>1, <2>2
<1> QED BY <1>3, <1>4, <1>5, <1>6 DEF TableInv

\* Remove: a row that was there had not been deleted.
LEMMA TableRemove ==
    ASSUME TypeOK, TableInv, NEW id \in Live, NEW e \in Event,
           lastId' = lastId,
           otp' = [otp EXCEPT ![id] = None],
           history' = history \cup {e},
           e.action = "deleted", e.id = id
    PROVE  TableInv'
<1>1. Live' = Live \ {id} /\ \A i \in Live \ {id} : otp'[i] = otp[i]
  BY DEF TypeOK, Live
<1>2. \A h \in history : ~(h.action = "deleted" /\ h.id = id)
  BY DEF TableInv, DeletedIsGone
<1>3. IdsKnown'
  BY <1>1 DEF TableInv, IdsKnown
<1>4. NamesUnique'
  BY <1>1 DEF TableInv, NamesUnique
<1>5. DeletedIsGone'
  BY <1>1, <1>2 DEF TableInv, DeletedIsGone
<1>6. NameWritten'
  <2> SUFFICES ASSUME NEW i \in Live'
               PROVE  \E h \in history' :
                        /\ h.id = i /\ h.action # "deleted" /\ h.name = otp'[i].name
                        /\ h.action = "updated" \/ \A g \in history' : g.id = i => g.action # "updated"
    BY DEF NameWritten
  <2>1. i \in Live /\ i # id /\ otp'[i] = otp[i]
    BY <1>1
  <2> QED BY <2>1 DEF TableInv, NameWritten
<1> QED BY <1>3, <1>4, <1>5, <1>6 DEF TableInv

-----------------------------------------------------------------------------
(* Steps of one request, as what they do to the state.                     *)

\* r alone moves, to l, and keeps who made it.
Moves(r, l) == Leave(r, l) /\ Forget(r) /\ UNCHANGED caller

\* Nothing is written: the request goes on to its statement, or ends.
Quiet(r) ==
    /\ pc[r] \in Early
    /\ pc'[r] \in {"insert", "update", "remove", "done"}
    /\ pc'[r] # "done" => seen'[r] \in Seen /\ caller'[r] \in User
    /\ \A q \in Request \ {r} : pc'[q] = pc[q] /\ seen'[q] = seen[q] /\ caller'[q] = caller[q]
    /\ pc' \in [Request -> Early \cup Telling \cup {"done"}]
    /\ caller' \in [Request -> User \cup {None}] /\ seen' \in [Request -> Seen \cup {None}]
    /\ busy' \subseteq Request
    /\ UNCHANGED <<table, change, topics, phase, faulted, late>>

\* A change e is written.
Made(r, e) ==
    /\ pc[r] \in {"insert", "update", "remove"}
    /\ e.req = r
    /\ history' = history \cup {e}
    /\ \/ change' = [change EXCEPT ![r] = e] /\ Moves(r, "sync") /\ UNCHANGED faulted
       \/ faulted' = faulted \cup {r} /\ Moves(r, "done") /\ UNCHANGED change
    /\ UNCHANGED <<topics, phase, late>>

LEMMA FindIsQuiet ==
    ASSUME TypeOK, NEW r \in Request, NEW u \in User, NEW id \in Id,
           NEW next \in {"update", "remove"}, Find(r, u, id, next)
    PROVE  Quiet(r)
<1>1. CASE id \in Live /\ otp[id].user = u
  <2>1. [id |-> id, name |-> otp[id].name] \in Seen
    BY <1>1 DEF TypeOK, Live, Seen, Row
  <2> DEFINE s == [id |-> id, name |-> otp[id].name]
  <2>2. seen' = [seen EXCEPT ![r] = s] /\ Leave(r, next)
    BY <1>1 DEF Find
  <2> HIDE DEF s
  <2> QED BY <2>1, <2>2 DEF s, Find, Leave, Quiet, Early, Telling, TypeOK
<1>2. CASE ~(id \in Live /\ otp[id].user = u)
  BY <1>2 DEF Find, Leave, Quiet, Early, Telling, TypeOK
<1> QED BY <1>1, <1>2

LEMMA CreateFindIsQuiet ==
    ASSUME TypeOK, NEW r \in Request, NEW u \in User, NEW n \in Name, CreateFind(r, u, n)
    PROVE  Quiet(r)
<1>1. CASE Named(u, n) = {}
  <2> DEFINE s == [id |-> 1, name |-> n]
  <2>1. s \in Seen
    BY VaultAssumption DEF Seen, Id
  <2>2. seen' = [seen EXCEPT ![r] = s] /\ Leave(r, "insert")
    BY <1>1 DEF CreateFind
  <2> HIDE DEF s
  <2> QED BY <2>1, <2>2 DEF CreateFind, Leave, Quiet, Early, Telling, TypeOK
<1>2. CASE Named(u, n) # {}
  BY <1>2 DEF CreateFind, Leave, Quiet, Early, Telling, TypeOK
<1> QED BY <1>1, <1>2

LEMMA FailureIsQuiet ==
    ASSUME TypeOK, NEW r \in Request, DbError(r) \/ NoConnection(r)
    PROVE  Quiet(r)
BY DEF DbError, NoConnection, Leave, Forget, Quiet, Early, Telling, TypeOK

\* A statement that is refused writes nothing, and ends its request; any other
\* makes one change, which the table takes.
LEMMA InsertDoes ==
    ASSUME TypeOK, TableInv, RequestInv, NEW r \in Request, Insert(r)
    PROVE  TableInv' /\ (Quiet(r) \/ \E e \in Event : Made(r, e))
           /\ otp' \in [Id -> Row \cup {None}] /\ lastId' \in 0..MaxOtps
<1> DEFINE n == seen[r].name
           u == caller[r]
           e == Change(r, "created", lastId + 1, n)
<1>1. pc[r] = "insert" /\ u \in User /\ n \in Name
  BY DEF Insert, RequestInv, AtPc, Seen
<1>2. CASE Named(u, n) = {}
  <2>1. /\ lastId + 1 <= MaxOtps /\ lastId' = lastId + 1
        /\ Commit(r, lastId + 1, [user |-> u, name |-> n], e)
        /\ Forget(r) /\ UNCHANGED <<caller, topics, phase, late>>
    BY <1>2 DEF Insert
  <2>2. lastId + 1 \in Id /\ e \in Event /\ e.action = "created" /\ e.id = lastId + 1
        /\ e.name = n /\ e.req = r
    BY <1>1, <2>1 DEF TypeOK, Id, Change, Event
  <2> HIDE DEF e
  <2>3. Made(r, e)
    BY <1>1, <2>1, <2>2 DEF Commit, Fault, Made, Moves, Early
  <2>4. otp' = [otp EXCEPT ![lastId + 1] = [user |-> u, name |-> n]] /\ history' = history \cup {e}
    BY <2>1 DEF Commit
  <2>5. TableInv'
    BY <1>1, <1>2, <2>1, <2>2, <2>4, TableInsert
  <2>6. otp' \in [Id -> Row \cup {None}] /\ lastId' \in 0..MaxOtps
    <3>1. [user |-> u, name |-> n] \in Row /\ otp \in [Id -> Row \cup {None}]
      BY <1>1 DEF TypeOK, Row
    <3>2. lastId + 1 \in 0..MaxOtps
      BY <2>1, <2>2 DEF Id
    <3> QED BY <2>1, <2>4, <3>1, <3>2
  <2> QED BY <2>2, <2>3, <2>5, <2>6
<1>3. CASE Named(u, n) # {}
  <2>1. Leave(r, "done") /\ Forget(r) /\ UNCHANGED <<table, change, faulted, caller, topics, phase, late>>
    BY <1>3 DEF Insert
  <2> QED BY <1>1, <2>1, TableFrame DEF Leave, Forget, Quiet, Early, Telling, TypeOK, table
<1> QED BY <1>2, <1>3

LEMMA UpdateDoes ==
    ASSUME TypeOK, TableInv, RequestInv, NEW r \in Request, NEW n \in Name, UpdateWrite(r, n)
    PROVE  TableInv' /\ (Quiet(r) \/ \E e \in Event : Made(r, e))
           /\ otp' \in [Id -> Row \cup {None}] /\ lastId' \in 0..MaxOtps
<1> DEFINE id == seen[r].id
           u == caller[r]
           e == Change(r, "updated", id, n)
           ok == Hit(r) /\ Named(u, n) \subseteq {id}
<1>1. pc[r] = "update" /\ u \in User /\ id \in Id
  BY DEF UpdateWrite, RequestInv, AtPc, Seen
<1>2. CASE ok
  <2>1. /\ lastId' = lastId
        /\ Commit(r, id, [user |-> u, name |-> n], e)
        /\ Forget(r) /\ UNCHANGED <<caller, topics, phase, late>>
    BY <1>2 DEF UpdateWrite
  <2>2. id \in Live /\ e \in Event /\ e.action = "updated" /\ e.id = id
        /\ e.name = n /\ e.req = r
    BY <1>1, <1>2 DEF Hit, Change, Event
  <2> HIDE DEF e, id
  <2>3. Made(r, e)
    BY <1>1, <2>1, <2>2 DEF Commit, Fault, Made, Moves, Early
  <2>4. otp' = [otp EXCEPT ![id] = [user |-> u, name |-> n]] /\ history' = history \cup {e}
    BY <2>1 DEF Commit
  <2>5. TableInv'
    BY <1>1, <1>2, <2>1, <2>2, <2>4, TableUpdate
  <2>6. otp' \in [Id -> Row \cup {None}] /\ lastId' \in 0..MaxOtps
    BY <1>1, <2>1, <2>4 DEF TypeOK, Row
  <2> QED BY <2>2, <2>3, <2>5, <2>6
<1>3. CASE ~ok
  <2>1. Leave(r, "done") /\ Forget(r) /\ UNCHANGED <<table, change, faulted, caller, topics, phase, late>>
    BY <1>3 DEF UpdateWrite, table
  <2> QED BY <1>1, <2>1, TableFrame DEF Leave, Forget, Quiet, Early, Telling, TypeOK, table
<1> QED BY <1>2, <1>3

LEMMA RemoveDoes ==
    ASSUME TypeOK, TableInv, RequestInv, NEW r \in Request, Remove(r)
    PROVE  TableInv' /\ (Quiet(r) \/ \E e \in Event : Made(r, e))
           /\ otp' \in [Id -> Row \cup {None}] /\ lastId' \in 0..MaxOtps
<1> DEFINE id == seen[r].id
           e == Change(r, "deleted", id, seen[r].name)
<1>1. pc[r] = "remove" /\ id \in Id /\ seen[r].name \in Name
  BY DEF Remove, RequestInv, AtPc, Seen
<1>2. CASE Hit(r)
  <2>1. /\ lastId' = lastId
        /\ Commit(r, id, None, e)
        /\ Forget(r) /\ UNCHANGED <<caller, topics, phase, late>>
    BY <1>2 DEF Remove
  <2>2. id \in Live /\ e \in Event /\ e.action = "deleted" /\ e.id = id /\ e.req = r
    BY <1>1, <1>2 DEF Hit, Change, Event
  <2> HIDE DEF e, id
  <2>3. Made(r, e)
    BY <1>1, <2>1, <2>2 DEF Commit, Fault, Made, Moves, Early
  <2>4. otp' = [otp EXCEPT ![id] = None] /\ history' = history \cup {e}
    BY <2>1 DEF Commit
  <2>5. TableInv'
    BY <2>1, <2>2, <2>4, TableRemove
  <2>6. otp' \in [Id -> Row \cup {None}] /\ lastId' \in 0..MaxOtps
    BY <2>1, <2>4 DEF TypeOK
  <2> QED BY <2>2, <2>3, <2>5, <2>6
<1>3. CASE ~Hit(r)
  <2>1. Leave(r, "done") /\ Forget(r) /\ UNCHANGED <<table, change, faulted, caller, topics, phase, late>>
    BY <1>3 DEF Remove, table
  <2> QED BY <1>1, <2>1, TableFrame DEF Leave, Forget, Quiet, Early, Telling, TypeOK, table
<1> QED BY <1>2, <1>3

-----------------------------------------------------------------------------
(* What such steps preserve of the requests.                               *)

\* What TypeOK says of anything but the table.
RequestTypes ==
    /\ pc \in [Request -> Early \cup Telling \cup {"done"}]
    /\ busy \subseteq Request
    /\ caller \in [Request -> User \cup {None}]
    /\ seen \in [Request -> Seen \cup {None}]
    /\ change \in [Request -> Event \cup {None}]
    /\ sync \subseteq history /\ created \subseteq history
    /\ history \subseteq Event
    /\ phase \in Phases
    /\ faulted \subseteq Request /\ late \subseteq Request

LEMMA TypesSplit ==
    TypeOK <=> RequestTypes /\ otp \in [Id -> Row \cup {None}] /\ lastId \in 0..MaxOtps
BY DEF TypeOK, RequestTypes, Early, Telling

LEMMA QuietKeeps ==
    ASSUME RequestTypes, RequestInv, NEW r \in Request, Quiet(r)
    PROVE  RequestTypes' /\ RequestInv'
<1>1. /\ history' = history /\ change' = change /\ sync' = sync /\ created' = created
      /\ phase' = phase /\ late' = late /\ faulted \subseteq faulted' /\ faulted' \subseteq Request
  BY DEF Quiet, table, topics, RequestTypes
<1>2. RequestTypes'
  BY <1>1 DEF Quiet, RequestTypes
<1>3. OneChange'
  BY <1>1 DEF RequestInv, OneChange
<1>4. ASSUME NEW q \in Request
      PROVE  AtPc(q)'
  <2>1. CASE q = r
    <3>1. \A h \in history : h.req # r
      BY DEF RequestInv, AtPc, Quiet
    <3> QED BY <1>1, <2>1, <3>1 DEF AtPc, Quiet, Early, Telling
  <2>2. CASE q # r
    <3>1. pc'[q] = pc[q] /\ seen'[q] = seen[q] /\ caller'[q] = caller[q]
      BY <2>2 DEF Quiet
    <3> QED BY <1>1, <3>1 DEF RequestInv, AtPc
  <2> QED BY <2>1, <2>2
<1>5. LossesExplained'
  <2> SUFFICES ASSUME NEW h \in history
               PROVE  (Announced(h) \/ Pending(h) \/ h.req \in faulted \cup late)'
    BY <1>1 DEF LossesExplained
  <2>1. h.req \in Request /\ h.req # r
    BY DEF RequestInv, AtPc, Quiet, RequestTypes, Event
  <2>2. pc'[h.req] = pc[h.req]
    BY <2>1 DEF Quiet
  <2>3. Announced(h) \/ Pending(h) \/ h.req \in faulted \cup late
    BY DEF RequestInv, LossesExplained
  <2> QED BY <1>1, <2>2, <2>3 DEF Announced, Pending
<1> QED BY <1>2, <1>3, <1>4, <1>5 DEF RequestInv

LEMMA MadeKeeps ==
    ASSUME RequestTypes, RequestInv, NEW r \in Request, NEW e \in Event, Made(r, e)
    PROVE  RequestTypes' /\ RequestInv'
<1>1. /\ history' = history \cup {e} /\ sync' = sync /\ created' = created
      /\ phase' = phase /\ late' = late /\ caller' = caller
      /\ seen' = [seen EXCEPT ![r] = None] /\ busy' = busy \ {r}
      /\ e.req = r /\ \A h \in history : h.req # r
  BY DEF Made, Moves, Leave, Forget, topics, RequestInv, AtPc, Early
<1>2. \/ change' = [change EXCEPT ![r] = e] /\ pc' = [pc EXCEPT ![r] = "sync"] /\ faulted' = faulted
      \/ faulted' = faulted \cup {r} /\ pc' = [pc EXCEPT ![r] = "done"] /\ change' = change
  BY DEF Made, Moves, Leave
<1>3. RequestTypes'
  BY <1>1, <1>2 DEF RequestTypes, Telling
<1>4. OneChange'
  BY <1>1 DEF RequestInv, OneChange
<1>5. ASSUME NEW q \in Request
      PROVE  AtPc(q)'
  <2>1. CASE q = r
    BY <1>1, <1>2, <2>1 DEF AtPc, Early, Telling, RequestTypes
  <2>2. CASE q # r
    <3>1. /\ pc'[q] = pc[q] /\ change'[q] = change[q] /\ faulted \subseteq faulted'
          /\ seen'[q] = seen[q]
      BY <1>1, <1>2, <2>2 DEF RequestTypes
    <3> QED BY <1>1, <2>2, <3>1 DEF RequestInv, AtPc
  <2> QED BY <2>1, <2>2
<1>6. LossesExplained'
  <2> SUFFICES ASSUME NEW h \in history'
               PROVE  (Announced(h) \/ Pending(h) \/ h.req \in faulted \cup late)'
    BY DEF LossesExplained
  <2>1. CASE h = e
    BY <1>1, <1>2, <2>1 DEF Pending, RequestTypes
  <2>2. CASE h # e
    <3>1. h \in history /\ h.req \in Request /\ h.req # r
      BY <1>1, <2>2 DEF RequestTypes, Event
    <3>2. pc'[h.req] = pc[h.req] /\ faulted \subseteq faulted'
      BY <1>2, <3>1 DEF RequestTypes
    <3>3. Announced(h) \/ Pending(h) \/ h.req \in faulted \cup late
      BY <3>1 DEF RequestInv, LossesExplained
    <3> QED BY <1>1, <3>2, <3>3 DEF Announced, Pending
  <2> QED BY <2>1, <2>2
<1> QED BY <1>3, <1>4, <1>5, <1>6 DEF RequestInv

\* What a publish does: the change is on the topic, or its request is accounted for.
LEMMA PublishDoes ==
    ASSUME RequestTypes, RequestInv, NEW r \in Request, pc[r] \in Telling, NEW now, NEW then,
           \/ then = now \cup {change[r]} /\ UNCHANGED <<faulted, late>>
           \/ Fault(r, "kafka") /\ then = now /\ UNCHANGED late
           \/ late' = late \cup {r} /\ then = now /\ UNCHANGED faulted,
           now \subseteq history
    PROVE  /\ now \subseteq then /\ then \subseteq history
           /\ faulted \subseteq faulted' /\ faulted' \subseteq Request
           /\ late \subseteq late' /\ late' \subseteq Request
           /\ change[r] \in then \/ r \in faulted' \cup late'
           /\ change[r] \in history /\ change[r].req = r
           /\ \A h \in history : h.req = r => h = change[r]
<1>1. change[r] \in history /\ change[r].req = r
  BY DEF RequestInv, AtPc
<1>2. \A h \in history : h.req = r => h = change[r]
  BY <1>1 DEF RequestInv, OneChange
<1> QED BY <1>1, <1>2 DEF Fault, RequestTypes

LEMMA PublishSyncKeeps ==
    ASSUME RequestTypes, RequestInv, NEW r \in Request, PublishSync(r)
    PROVE  RequestTypes' /\ RequestInv' /\ UNCHANGED table
<1>1. /\ otp' = otp /\ lastId' = lastId /\ history' = history /\ caller' = caller /\ seen' = seen
      /\ change' = change /\ created' = created /\ phase' = phase
      /\ pc[r] = "sync" /\ pc' = [pc EXCEPT ![r] = AfterSync(r)]
      /\ busy' = busy \ {r}
  BY DEF PublishSync, Publish, table, Leave
<1>2. /\ sync \subseteq sync' /\ sync' \subseteq history
      /\ faulted \subseteq faulted' /\ faulted' \subseteq Request
      /\ late \subseteq late' /\ late' \subseteq Request
      /\ change[r] \in sync' \/ r \in faulted' \cup late'
      /\ change[r] \in history /\ change[r].req = r
      /\ \A h \in history : h.req = r => h = change[r]
  <2>1. pc[r] \in Telling /\ sync \subseteq history /\ Publish(r, sync, AfterSync(r))
    BY <1>1 DEF Telling, RequestTypes, PublishSync
  <2>2. \/ sync' = sync \cup {change[r]} /\ UNCHANGED <<faulted, late>>
        \/ Fault(r, "kafka") /\ sync' = sync /\ UNCHANGED late
        \/ late' = late \cup {r} /\ sync' = sync /\ UNCHANGED faulted
    BY <2>1 DEF Publish
  <2> QED BY <2>1, <2>2, PublishDoes
<1>3. \/ AfterSync(r) = "otpCreated" /\ change[r].action = "created"
      \/ AfterSync(r) = "done" /\ change[r].action # "created"
  BY DEF AfterSync
<1>4. RequestTypes'
  BY <1>1, <1>2, <1>3 DEF RequestTypes, Telling
<1>5. OneChange'
  BY <1>1 DEF RequestInv, OneChange
<1>6. ASSUME NEW q \in Request
      PROVE  AtPc(q)'
  <2>1. CASE q = r
    BY <1>1, <1>2, <1>3, <2>1 DEF AtPc, Early, Telling, RequestTypes
  <2>2. CASE q # r
    <3>1. pc'[q] = pc[q]
      BY <1>1, <2>2 DEF RequestTypes
    <3> QED BY <1>1, <1>2, <3>1 DEF RequestInv, AtPc
  <2> QED BY <2>1, <2>2
<1>7. LossesExplained'
  <2> SUFFICES ASSUME NEW h \in history
               PROVE  (Announced(h) \/ Pending(h) \/ h.req \in faulted \cup late)'
    BY <1>1 DEF LossesExplained
  <2>1. CASE h.req = r
    <3>1. h = change[r]
      BY <1>2, <2>1
    <3> QED BY <1>1, <1>2, <1>3, <2>1, <3>1 DEF Announced, Pending, RequestTypes
  <2>2. CASE h.req # r
    <3>1. pc'[h.req] = pc[h.req]
      BY <1>1, <2>2 DEF RequestTypes, Event
    <3>2. Announced(h) \/ Pending(h) \/ h.req \in faulted \cup late
      BY DEF RequestInv, LossesExplained
    <3> QED BY <1>1, <1>2, <3>1, <3>2 DEF Announced, Pending
  <2> QED BY <2>1, <2>2
<1> QED BY <1>1, <1>4, <1>5, <1>6, <1>7 DEF RequestInv, table

LEMMA PublishCreatedKeeps ==
    ASSUME RequestTypes, RequestInv, NEW r \in Request, PublishCreated(r)
    PROVE  RequestTypes' /\ RequestInv' /\ UNCHANGED table
<1>1. /\ otp' = otp /\ lastId' = lastId /\ history' = history /\ caller' = caller /\ seen' = seen
      /\ change' = change /\ sync' = sync /\ phase' = phase
      /\ pc[r] = "otpCreated" /\ pc' = [pc EXCEPT ![r] = "done"]
      /\ busy' = busy \ {r}
  BY DEF PublishCreated, Publish, table, Leave
<1>2. /\ created \subseteq created' /\ created' \subseteq history
      /\ faulted \subseteq faulted' /\ faulted' \subseteq Request
      /\ late \subseteq late' /\ late' \subseteq Request
      /\ change[r] \in created' \/ r \in faulted' \cup late'
      /\ change[r] \in history /\ change[r].req = r
      /\ \A h \in history : h.req = r => h = change[r]
  <2>1. pc[r] \in Telling /\ created \subseteq history /\ Publish(r, created, "done")
    BY <1>1 DEF Telling, RequestTypes, PublishCreated
  <2>2. \/ created' = created \cup {change[r]} /\ UNCHANGED <<faulted, late>>
        \/ Fault(r, "kafka") /\ created' = created /\ UNCHANGED late
        \/ late' = late \cup {r} /\ created' = created /\ UNCHANGED faulted
    BY <2>1 DEF Publish
  <2> QED BY <2>1, <2>2, PublishDoes
<1>3. change[r] \in sync \/ r \in faulted \cup late
  BY <1>1 DEF RequestInv, AtPc
<1>4. RequestTypes'
  BY <1>1, <1>2 DEF RequestTypes
<1>5. OneChange'
  BY <1>1 DEF RequestInv, OneChange
<1>6. ASSUME NEW q \in Request
      PROVE  AtPc(q)'
  <2>1. CASE q = r
    BY <1>1, <2>1 DEF AtPc, Early, Telling, RequestTypes
  <2>2. CASE q # r
    <3>1. pc'[q] = pc[q]
      BY <1>1, <2>2 DEF RequestTypes
    <3> QED BY <1>1, <1>2, <3>1 DEF RequestInv, AtPc
  <2> QED BY <2>1, <2>2
<1>7. LossesExplained'
  <2> SUFFICES ASSUME NEW h \in history
               PROVE  (Announced(h) \/ Pending(h) \/ h.req \in faulted \cup late)'
    BY <1>1 DEF LossesExplained
  <2>1. CASE h.req = r
    <3>1. h = change[r]
      BY <1>2, <2>1
    <3> QED BY <1>1, <1>2, <1>3, <2>1, <3>1 DEF Announced
  <2>2. CASE h.req # r
    <3>1. pc'[h.req] = pc[h.req]
      BY <1>1, <2>2 DEF RequestTypes, Event
    <3>2. Announced(h) \/ Pending(h) \/ h.req \in faulted \cup late
      BY DEF RequestInv, LossesExplained
    <3> QED BY <1>1, <1>2, <3>1, <3>2 DEF Announced, Pending
  <2> QED BY <2>1, <2>2
<1> QED BY <1>1, <1>4, <1>5, <1>6, <1>7 DEF RequestInv, table

\* The service ends with requests in flight: each of them is accounted for.
LEMMA CutOffKeeps ==
    ASSUME RequestTypes, RequestInv, CutOff, phase' \in Phases
    PROVE  RequestTypes' /\ RequestInv' /\ UNCHANGED table
<1>1. /\ otp' = otp /\ lastId' = lastId /\ history' = history /\ caller' = caller
      /\ change' = change /\ sync' = sync /\ created' = created /\ late' = late
      /\ seen' = [r \in Request |-> None] /\ busy' = {}
      /\ faulted' = faulted \cup {r \in Request : pc[r] \in {"sync", "otpCreated"}}
      /\ pc' = [r \in Request |-> IF r \in InFlight THEN "done" ELSE pc[r]]
  BY DEF CutOff, table, topics
<1>2. InFlight \subseteq Request
  BY DEF InFlight, RequestTypes
<1>3. RequestTypes'
  BY <1>1, <1>2 DEF RequestTypes
<1>4. OneChange'
  BY <1>1 DEF RequestInv, OneChange
<1>5. ASSUME NEW q \in Request
      PROVE  AtPc(q)'
  BY <1>1 DEF RequestInv, AtPc, Early, Telling, InFlight
<1>6. LossesExplained'
  <2> SUFFICES ASSUME NEW h \in history
               PROVE  (Announced(h) \/ Pending(h) \/ h.req \in faulted \cup late)'
    BY <1>1 DEF LossesExplained
  <2>1. h.req \in Request
    BY DEF RequestTypes, Event
  <2>2. Pending(h) => h.req \in {r \in Request : pc[r] \in {"sync", "otpCreated"}}
    BY <2>1 DEF Pending
  <2>3. Announced(h) \/ Pending(h) \/ h.req \in faulted \cup late
    BY DEF RequestInv, LossesExplained
  <2> QED BY <1>1, <2>2, <2>3 DEF Announced
<1> QED BY <1>1, <1>3, <1>4, <1>5, <1>6 DEF RequestInv, table

\* main goes on, or a call begins.
LEMMA FrameKeeps ==
    ASSUME RequestTypes, RequestInv, phase' \in Phases, busy' \subseteq Request,
           UNCHANGED <<table, pc, caller, seen, change, topics, faulted, late>>
    PROVE  RequestTypes' /\ RequestInv' /\ UNCHANGED table
<1>1. /\ history' = history /\ caller' = caller /\ seen' = seen /\ pc' = pc
      /\ change' = change /\ sync' = sync /\ created' = created /\ late' = late
      /\ faulted' = faulted /\ table' = table
  BY DEF table, topics
<1>2. RequestTypes'
  BY <1>1 DEF RequestTypes
<1>3. OneChange' /\ LossesExplained' /\ \A q \in Request : AtPc(q)'
  BY <1>1 DEF RequestInv, OneChange, LossesExplained, Announced, Pending, AtPc
<1> QED BY <1>1, <1>2, <1>3 DEF RequestInv

-----------------------------------------------------------------------------
(* The invariant.                                                          *)

LEMMA InvInit == Init => VaultIInv
<1> SUFFICES ASSUME Init
             PROVE  VaultIInv
  OBVIOUS
<1>1. Live = {}
  BY DEF Init, Live
<1>2. TypeOK
  BY VaultAssumption DEF Init, TypeOK, Phases
<1>3. TableInv
  BY <1>1 DEF Init, TableInv, IdsKnown, NamesUnique, DeletedIsGone, NameWritten
<1>4. RequestInv
  BY DEF Init, RequestInv, OneChange, AtPc, LossesExplained, Telling
<1> QED BY <1>2, <1>3, <1>4 DEF VaultIInv

LEMMA InvStep == VaultIInv /\ [Next]_vars => VaultIInv'
<1> SUFFICES ASSUME VaultIInv, [Next]_vars
             PROVE  VaultIInv'
  OBVIOUS
<1>1. TypeOK /\ TableInv /\ RequestInv /\ RequestTypes
      /\ otp \in [Id -> Row \cup {None}] /\ lastId \in 0..MaxOtps
  BY TypesSplit DEF VaultIInv
\* It suffices that a step keeps what is said of requests, and the table.
<1>2. ASSUME RequestTypes' /\ RequestInv', UNCHANGED table
      PROVE  VaultIInv'
  <2>1. TableInv'
    BY <1>1, <1>2, TableFrame
  <2>2. otp' = otp /\ lastId' = lastId
    BY <1>2 DEF table
  <2>3. TypeOK'
    BY <1>1, <1>2, <2>2 DEF TypeOK, RequestTypes, Early, Telling
  <2> QED BY <1>2, <2>1, <2>3 DEF VaultIInv
<1>3. ASSUME NEW r \in Request, Quiet(r)
      PROVE  VaultIInv'
  <2>1. UNCHANGED table
    BY <1>3 DEF Quiet
  <2> QED BY <1>1, <1>2, <1>3, <2>1, QuietKeeps
<1>4. ASSUME NEW r \in Request, Statement(r)
      PROVE  VaultIInv'
  <2>1. /\ TableInv' /\ otp' \in [Id -> Row \cup {None}] /\ lastId' \in 0..MaxOtps
        /\ Quiet(r) \/ \E e \in Event : Made(r, e)
    BY <1>1, <1>4, InsertDoes, UpdateDoes, RemoveDoes DEF Statement
  <2>2. RequestTypes' /\ RequestInv'
    BY <1>1, <2>1, QuietKeeps, MadeKeeps
  <2>3. TypeOK'
    BY <2>1, <2>2 DEF TypeOK, RequestTypes, Early, Telling
  <2> QED BY <2>1, <2>2, <2>3 DEF VaultIInv
<1>5. ASSUME NEW r \in Request,
             \/ \E u \in User, n \in Name : CreateFind(r, u, n)
             \/ \E u \in User, id \in Id : Find(r, u, id, "update") \/ Find(r, u, id, "remove")
             \/ DbError(r) \/ NoConnection(r)
      PROVE  VaultIInv'
  <2>1. Quiet(r)
    BY <1>1, <1>5, CreateFindIsQuiet, FindIsQuiet, FailureIsQuiet
  <2> QED BY <1>3, <2>1
<1>6. ASSUME NEW r \in Request, PublishSync(r) \/ PublishCreated(r)
      PROVE  VaultIInv'
  BY <1>1, <1>2, <1>6, PublishSyncKeeps, PublishCreatedKeeps
<1>7. CASE Crash \/ Exit
  <2>1. phase' \in Phases /\ CutOff
    BY <1>7 DEF Crash, Exit, Phases
  <2> QED BY <1>1, <1>2, <2>1, CutOffKeeps
<1>8. CASE /\ Signal \/ CloseSync \/ CloseEvents \/ Shutdown \/ ClosePool
           /\ UNCHANGED <<table, pc, busy, caller, seen, change, topics, faulted, late>>
  <2>1. phase' \in Phases /\ busy' \subseteq Request
    BY <1>1, <1>8 DEF Signal, CloseSync, CloseEvents, Shutdown, ClosePool, Phases, RequestTypes
  <2> QED BY <1>1, <1>2, <1>8, <2>1, FrameKeeps
<1>9. CASE UNCHANGED vars
  <2>1. phase' \in Phases /\ busy' \subseteq Request
    BY <1>1, <1>9 DEF vars, RequestTypes
  <2>2. UNCHANGED <<table, pc, caller, seen, change, topics, faulted, late>>
    BY <1>9 DEF vars
  <2> QED BY <1>1, <1>2, <2>1, <2>2, FrameKeeps
<1>10. ASSUME NEW r \in Request, Begin(r)
       PROVE  VaultIInv'
  <2>1. /\ phase' \in Phases /\ busy' \subseteq Request
        /\ UNCHANGED <<table, pc, caller, seen, change, topics, faulted, late>>
    BY <1>1, <1>10 DEF Begin, RequestTypes
  <2> QED BY <1>1, <1>2, <2>1, FrameKeeps
<1> QED BY <1>4, <1>5, <1>6, <1>7, <1>8, <1>9, <1>10 DEF Next, Act, Main

\* The table, the requests and what they have announced hang together, up to and
\* after the end of main.
LEMMA VaultInvariance == Spec => []VaultIInv
BY InvInit, InvStep, PTL DEF Spec

\* Types, and that no user ever has two OTPs of one name: the inserts and renames
\* that the UNIQUE constraint lets through keep names apart (otp_repo.go Create, Update).
THEOREM OtpNamesUnique == Spec => []OtpInv
<1>1. VaultIInv => OtpInv
  BY DEF VaultIInv, TableInv, OtpInv
<1> QED BY <1>1, VaultInvariance, PTL

\* A deleted OTP is deleted once, and no update of a request that had read it
\* brings it back (the WHERE clauses of otp_repo.go Update and Delete).
THEOREM OtpRemovalFinal == Spec => []DeletedIsGone
<1>1. VaultIInv => DeletedIsGone
  BY DEF VaultIInv, TableInv
<1> QED BY <1>1, VaultInvariance, PTL

\* A committed change is announced, is about to be, or its request met a failure
\* or a closed producer (publishEvents, and the order in which main stops).
THEOREM OtpLossesExplained == Spec => []LossesExplained
<1>1. VaultIInv => LossesExplained
  BY DEF VaultIInv, RequestInv
<1> QED BY <1>1, VaultInvariance, PTL

\* The events of an OTP, once all of them are on sync-events, in any order, tell
\* whether it is there and which names it can have.
THEOREM OtpFollowersKnow == Spec => []FollowersKnow
<1>1. VaultIInv => FollowersKnow
  <2> SUFFICES ASSUME VaultIInv, NEW id \in 1..lastId, {h \in history : h.id = id} \subseteq sync
               PROVE  LET updates == {e \in Told(id) : e.action = "updated"}
                          names == {e.name : e \in IF updates = {} THEN Told(id) ELSE updates}
                      IN  IF \E e \in Told(id) : e.action = "deleted"
                          THEN id \notin Live
                          ELSE id \in Live /\ otp[id].name \in names
    BY DEF FollowersKnow
  <2> DEFINE updates == {e \in Told(id) : e.action = "updated"}
             names == {e.name : e \in IF updates = {} THEN Told(id) ELSE updates}
  <2>1. Told(id) = {h \in history : h.id = id}
    BY DEF Told, VaultIInv, TypeOK
  <2>2. CASE \E e \in Told(id) : e.action = "deleted"
    BY <2>1, <2>2 DEF VaultIInv, TableInv, DeletedIsGone
  <2>3. CASE ~\E e \in Told(id) : e.action = "deleted"
    <3>1. id \in Live
      BY <2>1, <2>3 DEF VaultIInv, TableInv, IdsKnown
    <3>2. PICK h \in history :
              /\ h.id = id /\ h.action # "deleted" /\ h.name = otp[id].name
              /\ h.action = "updated" \/ \A g \in history : g.id = id => g.action # "updated"
      BY <3>1 DEF VaultIInv, TableInv, NameWritten
    <3>3. h \in IF updates = {} THEN Told(id) ELSE updates
      BY <2>1, <3>2
    <3>4. otp[id].name \in names
      BY <3>2, <3>3
    <3> QED BY <2>3, <3>1, <3>4
  <2> QED BY <2>2, <2>3
<1> QED BY <1>1, VaultInvariance, PTL
=============================================================================
