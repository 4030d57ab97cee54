------------------------- MODULE NoteServiceProofs -------------------------
(***************************************************************************)
(* Proofs about NoteService, for every number of requests, users, titles   *)
(* and ids and every choice of Faults.                                     *)
(*                                                                         *)
(* The argument: IndInv is inductive.  Its half about the table needs only *)
(* to know what a committed statement does, and there are two kinds: one   *)
(* that writes a row (WriteKeepsTable) and one that deletes it             *)
(* (RemovalKeepsTable).  Its half about requests is checked action by      *)
(* action.  What a follower of the events believes, and what an Import     *)
(* counts, need an invariant of their own each, on top of IndInv.          *)
(***************************************************************************)
EXTENDS NoteService, FiniteSetTheorems, TLAPS

\* None is told apart from everything it stands in for.
LEMMA NoneIsOther ==
    /\ None \notin User
    /\ None \notin Row
    /\ None \notin Seen
    /\ None \notin Event
BY NoteAssumption

\* A committed write of row id by request r: the row gets the next version
\* and a title its owner has nowhere else.
WriteOf(r, a, u, t, id) ==
    /\ a \in {"created", "updated"}
    /\ \/ /\ id = lastId + 1
          /\ lastId' = lastId + 1
       \/ /\ id \in Live
          /\ row[id].user = u
          /\ lastId' = lastId
    /\ Titled(u, t) \subseteq {id}
    /\ Commit(id, [user |-> u, title |-> t, version |-> NextVersion(id)],
              Change(r, a, id, NextVersion(id), t))

\* A committed write keeps the table consistent with its history.
LEMMA WriteKeepsTable ==
    ASSUME TypeOK, TableInv,
           NEW r \in Request, NEW a, NEW u \in User, NEW t \in Title, NEW id \in Id,
           WriteOf(r, a, u, t, id)
    PROVE  TableInv'
<1> DEFINE n == [user |-> u, title |-> t, version |-> NextVersion(id)]
           h == Change(r, a, id, NextVersion(id), t)
<1>1. /\ row' = [row EXCEPT ![id] = n]
      /\ history' = history \cup {h}
  BY DEF WriteOf, Commit
<1>2. /\ row \in [Id -> Row \cup {None}]
      /\ lastId \in Nat
      /\ history \subseteq Event
      /\ Id \subseteq Nat
  BY NoteAssumption DEF TypeOK, Id
<1>3. NextVersion(id) \in Nat /\ n \in Row /\ h \in Event
  BY <1>2 DEF NextVersion, Live, Row, Event, Change, Action, WriteOf
<1>4. n # None
  BY <1>3, NoneIsOther
<1>5. Live' = Live \cup {id}
  BY <1>1, <1>2, <1>4 DEF Live
<1>6. \A g \in history : g.id = id => g.action # "deleted" /\ id \in Live
  BY <1>2 DEF TableInv, RemovedOnce, IdsAllocated, WriteOf, Event
<1>7. \A g \in Writes : g.id = id => g.version < NextVersion(id)
  <2> SUFFICES ASSUME NEW g \in Writes, g.id = id
               PROVE  g.version < NextVersion(id)
    OBVIOUS
  <2>1. id \in Live /\ g.version <= row[id].version
    BY <1>6 DEF TableInv, WritesBelowRow, Writes
  <2>2. row[id].version \in Nat /\ g.version \in Nat
    BY <2>1, <1>2 DEF Live, Row, Writes, Event
  <2> QED BY <2>1, <2>2 DEF NextVersion
<1>8. Writes' = Writes \cup {h}
  BY <1>1 DEF Writes, WriteOf, Change
<1>9. h.id = id /\ h.version = NextVersion(id) /\ h.action # "deleted"
  BY DEF Change, WriteOf
<1>10. UniqueTitles'
  <2> SUFFICES ASSUME NEW i \in Live', NEW j \in Live',
                      row'[i].user = row'[j].user, row'[i].title = row'[j].title
               PROVE  i = j
    BY DEF UniqueTitles
  <2>1. CASE i # id /\ j # id
    BY <2>1, <1>1, <1>2, <1>5 DEF TableInv, UniqueTitles, Live
  <2>2. CASE i = id /\ j # id
    <3>1. j \in Live /\ row[j].user = u /\ row[j].title = t
      BY <2>2, <1>1, <1>2, <1>5 DEF Live
    <3> QED BY <3>1, <2>2 DEF WriteOf, Titled
  <2>3. CASE i # id /\ j = id
    <3>1. i \in Live /\ row[i].user = u /\ row[i].title = t
      BY <2>3, <1>1, <1>2, <1>5 DEF Live
    <3> QED BY <3>1, <2>3 DEF WriteOf, Titled
  <2> QED BY <2>1, <2>2, <2>3
<1>11. StampsUnique'
  <2> SUFFICES ASSUME NEW f \in Writes', NEW g \in Writes',
                      f.id = g.id, f.version = g.version
               PROVE  f = g
    BY DEF StampsUnique
  <2>1. \A k \in Writes : k.version \in Nat
    BY <1>2 DEF Writes, Event
  <2> QED BY <2>1, <1>3, <1>7, <1>8, <1>9 DEF TableInv, StampsUnique
<1>12. VersionsCountWrites'
  <2> SUFFICES ASSUME NEW i \in Live', NEW v \in 0..row'[i].version
               PROVE  \E g \in Writes' : g.id = i /\ g.version = v
    BY DEF VersionsCountWrites
  <2>1. CASE i # id
    BY <2>1, <1>1, <1>2, <1>5, <1>8 DEF TableInv, VersionsCountWrites, Live
  <2>2. CASE i = id
    <3>1. v \in 0..NextVersion(id)
      BY <2>2, <1>1, <1>2
    <3>2. CASE v = NextVersion(id)
      BY <3>2, <2>2, <1>8, <1>9
    <3>3. CASE v # NextVersion(id)
      <4>1. id \in Live /\ v \in 0..row[id].version
        BY <3>1, <3>3, <1>2 DEF NextVersion, Live, Row
      <4> QED BY <4>1, <2>2, <1>8 DEF TableInv, VersionsCountWrites
    <3> QED BY <3>2, <3>3
  <2> QED BY <2>1, <2>2
<1>13. RemovedOnce'
  BY <1>1, <1>2, <1>5, <1>6, <1>9 DEF TableInv, RemovedOnce
<1>14. IdsAllocated'
  <2>1. lastId' \in {lastId, lastId + 1} /\ id <= lastId'
    BY <1>2 DEF WriteOf, TableInv, IdsAllocated
  <2>2. \A i \in 1..lastId' : i = id \/ i \in 1..lastId
    BY <1>2 DEF WriteOf
  <2>3. \A i \in Live : i <= lastId'
    BY <2>1, <1>2 DEF TableInv, IdsAllocated, Live
  <2>4. \A g \in history' : g.id <= lastId'
    <3> SUFFICES ASSUME NEW g \in history' PROVE g.id <= lastId'
      OBVIOUS
    <3>1. CASE g \in history
      <4>1. g.id \in Nat /\ g.id <= lastId
        BY <3>1, <1>2 DEF TableInv, IdsAllocated, Event
      <4> QED BY <4>1, <2>1, <1>2
    <3>2. CASE g = h
      BY <3>2, <2>1, <1>9
    <3> QED BY <3>1, <3>2, <1>1
  <2>5. \A i \in 1..lastId' :
           i \in Live' \/ \E g \in history' : g.id = i /\ g.action = "deleted"
    <3> SUFFICES ASSUME NEW i \in 1..lastId', i \notin Live'
                 PROVE  \E g \in history' : g.id = i /\ g.action = "deleted"
      OBVIOUS
    <3>1. i \in 1..lastId /\ i \notin Live
      BY <2>2, <1>5
    <3>2. \E g \in history : g.id = i /\ g.action = "deleted"
      BY <3>1 DEF TableInv, IdsAllocated
    <3> QED BY <3>2, <1>1
  <2> QED BY <2>1, <2>3, <2>4, <2>5, <1>5 DEF IdsAllocated
<1>15. WritesBelowRow'
  <2> SUFFICES ASSUME NEW g \in Writes', g.id \in Live'
               PROVE  g.version <= row'[g.id].version
    BY DEF WritesBelowRow
  <2>1. CASE g.id # id
    BY <2>1, <1>1, <1>2, <1>5, <1>8, <1>9 DEF TableInv, WritesBelowRow, Live
  <2>2. CASE g.id = id
    <3>1. row'[g.id].version = NextVersion(id)
      BY <2>2, <1>1, <1>2
    <3>2. g \in Writes => g.version \in Nat
      BY <1>2 DEF Writes, Event
    <3> QED BY <3>1, <3>2, <2>2, <1>3, <1>7, <1>8, <1>9
  <2> QED BY <2>1, <2>2
<1> QED BY <1>10, <1>11, <1>12, <1>13, <1>14, <1>15 DEF TableInv

\* A committed removal of row id by request r.
RemovalOf(r, id) ==
    /\ id \in Live
    /\ lastId' = lastId
    /\ Commit(id, None, Change(r, "deleted", id, row[id].version, row[id].title))

\* A committed removal keeps the table consistent with its history.
LEMMA RemovalKeepsTable ==
    ASSUME TypeOK, TableInv, NEW r \in Request, NEW id \in Id, RemovalOf(r, id)
    PROVE  TableInv'
<1> DEFINE h == Change(r, "deleted", id, row[id].version, row[id].title)
<1>1. /\ row' = [row EXCEPT ![id] = None]
      /\ history' = history \cup {h}
      /\ lastId' = lastId
      /\ id \in Live
  BY DEF RemovalOf, Commit
<1>2. /\ row \in [Id -> Row \cup {None}]
      /\ lastId \in Nat
      /\ history \subseteq Event
      /\ Id \subseteq Nat
  BY NoteAssumption DEF TypeOK, Id
<1>3. Live' = Live \ {id}
  BY <1>1, <1>2 DEF Live
<1>4. row[id] \in Row /\ h.id = id /\ h.version = row[id].version /\ h.action = "deleted"
  BY <1>1, <1>2 DEF Live, Change
<1>5. Writes' = Writes
  BY <1>1, <1>4 DEF Writes
<1>6. \A i \in Live' : row'[i] = row[i]
  BY <1>1, <1>2, <1>3 DEF Live
<1>7. UniqueTitles'
  BY <1>3, <1>6 DEF TableInv, UniqueTitles
<1>8. StampsUnique'
  BY <1>5 DEF TableInv, StampsUnique
<1>9. VersionsCountWrites'
  BY <1>3, <1>5, <1>6 DEF TableInv, VersionsCountWrites
<1>10. RemovedOnce'
  <2>1. \A g \in history : g.id = id => g.action # "deleted"
    BY <1>1 DEF TableInv, RemovedOnce
  <2>2. \A g \in history : g.id = id => g.version <= h.version
    BY <2>1, <1>1, <1>4 DEF TableInv, WritesBelowRow, Writes
  <2>3. h.version <= h.version
    BY <1>4 DEF Row
  <2> QED BY <2>1, <2>2, <2>3, <1>1, <1>3, <1>4 DEF TableInv, RemovedOnce
<1>11. IdsAllocated'
  <2>1. \A g \in history' : g.id <= lastId'
    BY <1>1, <1>4 DEF TableInv, IdsAllocated
  <2>2. \A i \in 1..lastId' :
           i \in Live' \/ \E g \in history' : g.id = i /\ g.action = "deleted"
    BY <1>1, <1>3, <1>4 DEF TableInv, IdsAllocated
  <2> QED BY <2>1, <2>2, <1>1, <1>3 DEF TableInv, IdsAllocated
<1>12. WritesBelowRow'
  BY <1>3, <1>5, <1>6 DEF TableInv, WritesBelowRow
<1> QED BY <1>7, <1>8, <1>9, <1>10, <1>11, <1>12 DEF TableInv

\* A statement that changes nothing keeps the table consistent.
LEMMA NoChangeKeepsTable ==
    ASSUME TableInv, UNCHANGED <<row, lastId, history>>
    PROVE  TableInv'
BY DEF TableInv, UniqueTitles, StampsUnique, VersionsCountWrites, RemovedOnce,
       IdsAllocated, WritesBelowRow, Live, Writes

\* How a step may change the table: one write, one removal, or nothing.
TableStep(r) ==
    \/ \E a \in Action, u \in User, t \in Title, id \in Id : WriteOf(r, a, u, t, id)
    \/ \E id \in Id : RemovalOf(r, id)
    \/ UNCHANGED <<row, lastId, history>>

LEMMA TableStepKeepsTable ==
    ASSUME TypeOK, TableInv, NEW r \in Request, TableStep(r)
    PROVE  TableInv'
BY WriteKeepsTable, RemovalKeepsTable, NoChangeKeepsTable DEF TableStep

\* What a step of the table means to a request that has read a note: the note
\* keeps its owner and does not go back to an older version.
LEMMA TableStepKeepsSeen ==
    ASSUME TypeOK, TableInv, NEW r \in Request, TableStep(r),
           NEW i \in Id, i <= lastId, i \in Live'
    PROVE  /\ i \in Live
           /\ row'[i].user = row[i].user
           /\ row[i].version <= row'[i].version
<1>1. /\ row \in [Id -> Row \cup {None}]
      /\ lastId \in Nat
      /\ Id \subseteq Nat
  BY NoteAssumption DEF TypeOK, Id
<1>2. CASE \E a \in Action, u \in User, t \in Title, id \in Id : WriteOf(r, a, u, t, id)
  <2>1. PICK a \in Action, u \in User, t \in Title, id \in Id : WriteOf(r, a, u, t, id)
    BY <1>2
  <2>2. row' = [row EXCEPT ![id] = [user |-> u, title |-> t, version |-> NextVersion(id)]]
    BY <2>1 DEF WriteOf, Commit
  <2>3. CASE i = id
    <3>1. id \in Live /\ row[id].user = u
      BY <2>1, <2>3, <1>1 DEF WriteOf
    <3>2. row[id].version \in Nat
      BY <3>1, <1>1 DEF Live, Row
    <3> QED BY <2>2, <2>3, <3>1, <3>2, <1>1 DEF NextVersion
  <2>4. CASE i # id
    <3>1. row'[i] = row[i]
      BY <2>2, <2>4, <1>1
    <3> QED BY <3>1, <1>1 DEF Live, Row
  <2> QED BY <2>3, <2>4
<1>3. CASE \E id \in Id : RemovalOf(r, id)
  BY <1>1, <1>3 DEF RemovalOf, Commit, Live, Row
<1>4. CASE UNCHANGED <<row, lastId, history>>
  BY <1>1, <1>4 DEF Live, Row
<1> QED BY <1>2, <1>3, <1>4 DEF TableStep

\* The table part keeps its types.
LEMMA TableStepKeepsTypes ==
    ASSUME TypeOK, TableInv, NEW r \in Request, TableStep(r)
    PROVE  /\ row' \in [Id -> Row \cup {None}]
           /\ history' \subseteq Event
           /\ history \subseteq history'
           /\ \A h \in history' \ history : h.req = r
<1>1. /\ row \in [Id -> Row \cup {None}]
      /\ history \subseteq Event
  BY DEF TypeOK
<1>2. CASE \E a \in Action, u \in User, t \in Title, id \in Id : WriteOf(r, a, u, t, id)
  <2>1. PICK a \in Action, u \in User, t \in Title, id \in Id : WriteOf(r, a, u, t, id)
    BY <1>2
  <2>2. NextVersion(id) \in Nat
    BY <1>1 DEF NextVersion, Live, Row
  <2> QED BY <2>1, <2>2, <1>1 DEF WriteOf, Commit, Change, Row, Event
<1>3. CASE \E id \in Id : RemovalOf(r, id)
  BY <1>1, <1>3 DEF RemovalOf, Commit, Change, Live, Row, Event, Action
<1>4. CASE UNCHANGED <<row, lastId, history>>
  BY <1>1, <1>4
<1> QED BY <1>2, <1>3, <1>4 DEF TableStep

-----------------------------------------------------------------------------
(* Requests.                                                               *)

\* An upsert is a write of the table.
LEMMA UpsertIsWrite ==
    ASSUME TypeOK, TableInv, NEW r \in Request, NEW u \in User, NEW t \in Title,
           NEW id \in Id, Upsert(r, u, t, id)
    PROVE  WriteOf(r, "created", u, t, id)
<1>1. CASE Titled(u, t) = {} /\ id = lastId + 1 /\ lastId' = id
  BY <1>1 DEF Upsert, WriteOf, Created
<1>2. CASE id \in Titled(u, t) /\ UNCHANGED lastId
  <2>1. Titled(u, t) \subseteq {id}
    BY <1>2 DEF Titled, TableInv, UniqueTitles
  <2> QED BY <1>2, <2>1 DEF Upsert, WriteOf, Created, Titled
<1> QED BY <1>1, <1>2 DEF Upsert

\* The event of a write or a removal is well typed.
LEMMA ChangeType ==
    ASSUME NEW r \in Request, NEW a \in Action, NEW id \in Id, NEW v \in Nat, NEW t \in Title
    PROVE  /\ Change(r, a, id, v, t) \in Event
           /\ Change(r, a, id, v, t) # None
           /\ Tells(Change(r, a, id, v, t), Change(r, a, id, v, t))
BY NoneIsOther DEF Change, Event, Tells

\* A request that has not moved is still in step.
LEMMA OthersInStep ==
    ASSUME NEW q \in Request, InStep(q),
           pc'[q] = pc[q], seen'[q] = seen[q], caller'[q] = caller[q],
           outbox'[q] = outbox[q], outcome'[q] = outcome[q], tally'[q] = tally[q],
           history \subseteq history',
           \A h \in history' \ history : h.req # q
    PROVE  InStep(q)'
BY DEF InStep, Tells

\* Whatever a step does to the table, what a request has read stays its
\* caller's and does not become newer than the row.
LEMMA SeenKept ==
    ASSUME TypeOK, TableInv, NEW r \in Request, TableStep(r),
           NEW q \in Request, SeenOwned(q),
           seen'[q] = seen[q], caller'[q] = caller[q]
    PROVE  SeenOwned(q)'
<1> SUFFICES ASSUME seen[q] # None
             PROVE  SeenOwned(q)'
  BY DEF SeenOwned
<1> DEFINE i == seen[q].id
<1>1. /\ seen[q] \in Seen
      /\ row \in [Id -> Row \cup {None}]
      /\ lastId \in Nat
      /\ Id \subseteq Nat
  BY NoteAssumption DEF TypeOK, Id
<1>2. i \in Id /\ i <= lastId /\ seen[q].version \in Nat /\ caller[q] \in User
  BY <1>1 DEF Seen, SeenOwned
<1>3. lastId' = lastId \/ lastId' = lastId + 1
  BY DEF TableStep, WriteOf, RemovalOf
<1>4. i <= lastId'
  <2>1. i \in Nat /\ lastId \in Nat /\ i <= lastId
    BY <1>1, <1>2
  <2> HIDE DEF i
  <2> QED BY ONLY <2>1, <1>3
<1>5. ASSUME i \in Live'
      PROVE  row'[i].user = caller[q] /\ seen[q].version <= row'[i].version
  <2>1. /\ i \in Live
        /\ row'[i].user = row[i].user
        /\ row[i].version <= row'[i].version
    BY <1>2, <1>5, TableStepKeepsSeen
  <2>2. row[i].user = caller[q] /\ seen[q].version <= row[i].version
    BY <2>1 DEF SeenOwned
  <2>3. row[i].version \in Nat /\ row'[i].version \in Nat
    <3>1. row' \in [Id -> Row \cup {None}]
      BY TableStepKeepsTypes
    <3> QED BY <3>1, <2>1, <1>1, <1>2, <1>5 DEF Live, Row
  <2> QED BY <2>1, <2>2, <2>3, <1>2
<1> QED BY <1>2, <1>4, <1>5 DEF SeenOwned

\* The bookkeeping of announcements through a step of request r: what r
\* changes it holds in its outbox or answers for as a failure, and what it
\* drops from its outbox it has published or answers for.
LEMMA EventsKept ==
    ASSUME EventsTellHistory, RequestsInStep, history \subseteq Event, NEW r \in Request,
           history \subseteq history',
           events' \subseteq events \cup {outbox[r]},
           events \subseteq events',
           outbox[r] = None => events' = events,
           faulted \subseteq faulted',
           \A h \in history' \ history : h.req = r,
           \A q \in Request \ {r} : outbox'[q] = outbox[q],
           \/ r \in faulted'
           \/ /\ \/ outbox[r] = None
                 \/ outbox[r] \in events'
                 \/ outbox'[r] = outbox[r]
              /\ \A h \in history' \ history : outbox'[r] # None /\ Tells(outbox'[r], h)
    PROVE  EventsTellHistory'
<1>1. ASSUME NEW e \in events'
      PROVE  \E h \in history' : Tells(e, h)
  <2>1. CASE e \in events
    BY <2>1 DEF EventsTellHistory
  <2>2. CASE e = outbox[r] /\ outbox[r] # None
    BY <2>2 DEF RequestsInStep, InStep
  <2> QED BY <2>1, <2>2
<1>2. ASSUME NEW h \in history'
      PROVE  \/ \E e \in events' : Tells(e, h)
             \/ outbox'[h.req] # None /\ Tells(outbox'[h.req], h)
             \/ h.req \in faulted'
  <2>1. CASE h \in history' \ history
    BY <2>1
  <2>2. CASE h \in history
    <3>1. \/ \E e \in events : Tells(e, h)
          \/ outbox[h.req] # None /\ Tells(outbox[h.req], h)
          \/ h.req \in faulted
      BY <2>2 DEF EventsTellHistory
    <3>2. h.req \in Request
      BY <2>2 DEF Event
    <3> QED BY <3>1, <3>2
  <2> QED BY <2>1, <2>2
<1> QED BY <1>1, <1>2 DEF EventsTellHistory, Tells

\* A step moves no request but r.
Moves(r) ==
    /\ pc' = [pc EXCEPT ![r] = pc'[r]]
    /\ caller' = [caller EXCEPT ![r] = caller'[r]]
    /\ seen' = [seen EXCEPT ![r] = seen'[r]]
    /\ tally' = [tally EXCEPT ![r] = tally'[r]]
    /\ outcome' = [outcome EXCEPT ![r] = outcome'[r]]
    /\ outbox' = [outbox EXCEPT ![r] = outbox'[r]]

\* Request r answers for a commit of h: it goes on to publish an event that
\* tells of h, or fails after the commit.
Answers(r, h) ==
    \/ /\ pc'[r] = "publish"
       /\ outbox'[r] \in Event
       /\ Tells(outbox'[r], h)
       /\ faulted' = faulted
    \/ /\ pc'[r] \in {"import", "done"}
       /\ pc'[r] = "import" => outcome'[r] = "imported"
       /\ outbox'[r] = outbox[r]
       /\ faulted' = faulted \cup {r}

\* A request that commits a change and answers for it keeps the invariant.
\* Create, Update, Delete and the items of an Import are of this form.
LEMMA CommitKeeps ==
    ASSUME IndInv, NEW r \in Request, TableStep(r), Moves(r),
           NEW h \in Event, h.req = r, history' = history \cup {h}, Answers(r, h),
           lastId' \in 0..MaxNotes,
           UNCHANGED <<seen, events>>,
           caller'[r] \in User, seen[r] = None \/ caller'[r] = caller[r],
           tally'[r] \in Tally,
           ItemsLeft(tally'[r]) > 0 => outcome'[r] = "imported",
           outcome'[r] \in {"ok", "error", "imported"},
           h.action = "updated" => /\ seen[r] # None
                                   /\ h.id = seen[r].id
                                   /\ h.version = seen[r].version + 1,
           pc[r] \in {"idle", "update", "delete", "import"}
    PROVE  IndInv'
<1> USE DEF IndInv, RequestInv, Moves, Answers
<1>1. None \notin Event
  BY NoneIsOther
<1>2. TableInv'
  BY TableStepKeepsTable
<1>3. TypeOK'
  <2>1. row' \in [Id -> Row \cup {None}] /\ history' \subseteq Event
    BY TableStepKeepsTypes
  <2> QED BY <2>1 DEF TypeOK
<1>4. UpdatesWhatWasRead'
  BY DEF UpdatesWhatWasRead
<1>5. ConflictJustified'
  BY DEF ConflictJustified, TypeOK
<1>6. EventsTellHistory'
  BY <1>1, EventsKept DEF RequestsInStep, InStep, TypeOK
<1>7. SeenStillOwned'
  <2> SUFFICES ASSUME NEW q \in Request PROVE SeenOwned(q)'
    BY DEF SeenStillOwned
  <2>1. CASE q = r /\ seen[r] = None
    BY <2>1 DEF SeenOwned
  <2>2. CASE q # r \/ caller'[r] = caller[r]
    <3>1. caller'[q] = caller[q]
      BY <2>2 DEF TypeOK
    <3> QED BY <3>1, SeenKept DEF SeenStillOwned
  <2> QED BY <2>1, <2>2
<1>8. RequestsInStep'
  <2> SUFFICES ASSUME NEW q \in Request PROVE InStep(q)'
    BY DEF RequestsInStep
  <2>1. CASE q = r
    BY <2>1, <1>1 DEF RequestsInStep, InStep, TypeOK
  <2>2. CASE q # r
    BY <2>2, OthersInStep DEF RequestsInStep, TypeOK
  <2> QED BY <2>1, <2>2
<1> QED BY <1>2, <1>3, <1>4, <1>5, <1>6, <1>7, <1>8

\* A request that moves without touching table, outbox or topic keeps the
\* invariant if its own part of it holds afterwards.
LEMMA MoveKeeps ==
    ASSUME IndInv, NEW r \in Request, Moves(r),
           UNCHANGED <<row, lastId, history, outbox, events>>,
           faulted \subseteq faulted', faulted' \subseteq Request,
           pc'[r] \in {"update", "delete", "import", "done"},
           caller'[r] \in User \cup {None},
           seen'[r] \in Seen \cup {None},
           tally'[r] \in Tally,
           outcome'[r] \in {"none", "notFound", "conflict", "error", "imported"},
           seen'[r] = seen[r] \/ pc[r] = "idle",
           outcome'[r] = "conflict" => \E h \in history :
                                          /\ h.req # r
                                          /\ h.id = seen'[r].id
                                          /\ h.version > seen'[r].version \/ h.action = "deleted",
           SeenOwned(r)', InStep(r)'
    PROVE  IndInv'
<1> USE DEF IndInv, RequestInv, Moves
<1>1. TableInv'
  BY NoChangeKeepsTable
<1>2. TypeOK'
  BY DEF TypeOK
<1>3. UpdatesWhatWasRead'
  <2> SUFFICES ASSUME NEW h \in history, h.action = "updated"
               PROVE  seen'[h.req] = seen[h.req]
    BY DEF UpdatesWhatWasRead
  <2>1. h.req \in Request /\ pc[h.req] # "idle"
    BY DEF RequestsInStep, InStep, TypeOK, Event
  <2> QED BY <2>1 DEF TypeOK
<1>4. ConflictJustified'
  BY DEF ConflictJustified, TypeOK
<1>5. EventsTellHistory'
  BY DEF EventsTellHistory, Tells
<1>6. SeenStillOwned'
  BY DEF SeenStillOwned, SeenOwned, TypeOK, Live
<1>7. RequestsInStep'
  BY OthersInStep DEF RequestsInStep, TypeOK
<1> QED BY <1>1, <1>2, <1>3, <1>4, <1>5, <1>6, <1>7

\* The two ways a write goes on, in the terms of Answers.
LEMMA ReplyAnswers ==
    ASSUME TypeOK, NEW r \in Request, NEW h, NEW e \in Event, Tells(e, h),
           \/ Acknowledged(r, e) /\ Answer(r, "ok")
           \/ Fault(r, "db") /\ Finish(r, "error")
    PROVE  /\ Answers(r, h)
           /\ UNCHANGED events
           /\ outcome'[r] \in {"ok", "error"}
           /\ pc' = [pc EXCEPT ![r] = pc'[r]]
           /\ outcome' = [outcome EXCEPT ![r] = outcome'[r]]
           /\ outbox' = [outbox EXCEPT ![r] = outbox'[r]]
<1>1. CASE Acknowledged(r, e) /\ Answer(r, "ok")
  BY <1>1 DEF Acknowledged, Answer, Goto, Answers, TypeOK
<1>2. CASE Fault(r, "db") /\ Finish(r, "error")
  BY <1>2 DEF Fault, Finish, Answer, Goto, Answers, TypeOK
<1> QED BY <1>1, <1>2

-----------------------------------------------------------------------------
(* One lemma per action.                                                   *)

\* Create.
LEMMA CreateKeeps ==
    ASSUME IndInv, NEW r \in Request, NEW u \in User, NEW t \in Title, Create(r, u, t)
    PROVE  IndInv'
<1> USE DEF IndInv, RequestInv
<1>1. PICK id \in Id :
         /\ Upsert(r, u, t, id)
         /\ \/ Acknowledged(r, Created(r, t, id)) /\ Answer(r, "ok")
            \/ Fault(r, "db") /\ Finish(r, "error")
  BY DEF Create
<1> DEFINE h == Created(r, t, id)
<1>2. TableStep(r)
  BY <1>1, UpsertIsWrite DEF TableStep, Action
<1>3. h \in Event /\ h.req = r /\ h.action = "created" /\ Tells(h, h)
  <2>1. NextVersion(id) \in Nat
    BY DEF TypeOK, NextVersion, Live, Row
  <2> QED BY <2>1, ChangeType DEF Created, Change, Action
<1>4. history' = history \cup {h} /\ lastId' \in 0..MaxNotes
  BY <1>1, NoteAssumption DEF Upsert, Commit, TypeOK, Id
<1> HIDE DEF h
<1>5. /\ pc[r] = "idle"
      /\ caller' = [caller EXCEPT ![r] = u]
      /\ UNCHANGED <<seen, tally>>
  BY DEF Create
<1>6. seen[r] = None /\ ~(ItemsLeft(tally[r]) > 0)
  BY <1>5 DEF RequestsInStep, InStep
<1>7. /\ Answers(r, h)
      /\ UNCHANGED events
      /\ outcome'[r] \in {"ok", "error"}
      /\ Moves(r)
  <2>1. \/ Acknowledged(r, h) /\ Answer(r, "ok")
        \/ Fault(r, "db") /\ Finish(r, "error")
    BY <1>1 DEF h
  <2> QED BY <2>1, <1>3, <1>5, ReplyAnswers DEF Moves, TypeOK
<1>8. caller'[r] \in User /\ tally'[r] = tally[r] /\ tally[r] \in Tally
  BY <1>5 DEF TypeOK
<1> QED BY <1>2, <1>3, <1>4, <1>5, <1>6, <1>7, <1>8, CommitKeeps

\* FindByID and the ownership test.
LEMMA FindKeeps ==
    ASSUME IndInv, NEW r \in Request, NEW u \in User, NEW id \in Id,
           NEW next \in {"update", "delete"}, Find(r, u, id, next)
    PROVE  IndInv'
<1> USE DEF IndInv, RequestInv
<1>1. /\ pc[r] = "idle"
      /\ caller' = [caller EXCEPT ![r] = u]
      /\ UNCHANGED <<row, lastId, tally, history, faulted, outbox, events>>
  BY DEF Find, Finish
<1>2. /\ seen[r] = None
      /\ outcome[r] = "none"
      /\ outbox[r] = None
      /\ ~(ItemsLeft(tally[r]) > 0)
      /\ \A h \in history : h.req # r
  BY <1>1 DEF RequestsInStep, InStep
<1>3. /\ caller'[r] = u
      /\ tally'[r] = tally[r] /\ tally[r] \in Tally
      /\ outbox'[r] = None
      /\ faulted' \subseteq Request
  BY <1>1, <1>2 DEF TypeOK
<1>4. CASE id \in Live /\ row[id].user = u
  <2> DEFINE s == [id |-> id, title |-> row[id].title, version |-> row[id].version]
  <2>1. row[id] \in Row /\ s \in Seen
    BY <1>4 DEF TypeOK, Live, Row, Seen
  <2>2. s # None
    BY <2>1, NoneIsOther
  <2>3. seen' = [seen EXCEPT ![r] = s] /\ pc' = [pc EXCEPT ![r] = next] /\ outcome' = outcome
    BY <1>4 DEF Find, Goto
  <2>4. seen'[r] = s /\ pc'[r] = next /\ outcome'[r] = "none" /\ Moves(r)
    BY <1>1, <1>2, <2>3 DEF Moves, TypeOK
  <2>5. SeenOwned(r)'
    <3>1. id <= lastId
      BY <1>4 DEF TableInv, IdsAllocated
    <3>2. row[id].version <= row[id].version
      BY <2>1 DEF Row
    <3> QED BY <3>1, <3>2, <2>4, <1>1, <1>3, <1>4 DEF SeenOwned, Live
  <2> HIDE DEF s
  <2>6. InStep(r)'
    BY <1>1, <1>2, <1>3, <2>2, <2>4 DEF InStep
  <2> QED BY <1>1, <1>3, <2>1, <2>4, <2>5, <2>6, MoveKeeps
<1>5. CASE ~(id \in Live /\ row[id].user = u)
  <2>1. /\ UNCHANGED seen
        /\ pc' = [pc EXCEPT ![r] = "done"]
        /\ outcome' = [outcome EXCEPT ![r] = "notFound"]
    BY <1>5 DEF Find, Finish, Goto, Answer
  <2>2. seen'[r] = None /\ pc'[r] = "done" /\ outcome'[r] = "notFound" /\ Moves(r)
    BY <1>1, <1>2, <2>1 DEF Moves, TypeOK
  <2>3. SeenOwned(r)'
    BY <2>2 DEF SeenOwned
  <2>4. InStep(r)'
    BY <1>1, <1>2, <1>3, <2>2 DEF InStep
  <2> QED BY <1>1, <1>2, <1>3, <2>2, <2>3, <2>4, MoveKeeps
<1> QED BY <1>4, <1>5

\* The conditional UPDATE, applied or refused.
LEMMA UpdateWriteKeeps ==
    ASSUME IndInv, NEW r \in Request, NEW t \in Title, UpdateWrite(r, t)
    PROVE  IndInv'
<1> USE DEF IndInv, RequestInv
<1> DEFINE id == seen[r].id
           u  == caller[r]
           h  == Change(r, "updated", id, NextVersion(id), t)
<1>1. pc[r] = "update" /\ UNCHANGED <<lastId, caller, seen, tally>>
  BY DEF UpdateWrite
<1>2. /\ seen[r] \in Seen
      /\ seen[r] # None
      /\ outbox[r] = None
      /\ outcome[r] = "none"
      /\ ~(ItemsLeft(tally[r]) > 0)
      /\ \A g \in history : g.req # r
  BY <1>1 DEF RequestsInStep, InStep, TypeOK
<1>3. id \in Id /\ u \in User /\ id <= lastId
  BY <1>2 DEF Seen, SeenStillOwned, SeenOwned
<1>4. /\ tally'[r] = tally[r] /\ tally[r] \in Tally
      /\ caller'[r] = caller[r]
      /\ seen'[r] = seen[r]
      /\ lastId' \in 0..MaxNotes
  BY <1>1 DEF TypeOK
<1>5. CASE UpdateApply(r, t)
  <2>1. /\ id \in Live
        /\ row[id].user = u
        /\ row[id].version = seen[r].version
        /\ Titled(u, t) \subseteq {id}
        /\ Commit(id, [user |-> u, title |-> t, version |-> NextVersion(id)], h)
        /\ \/ Acknowledged(r, h) /\ Answer(r, "ok")
           \/ Fault(r, "db") /\ Finish(r, "error")
    BY <1>5 DEF UpdateApply, Matches
  <2>2. TableStep(r)
    <3>1. WriteOf(r, "updated", u, t, id)
      BY <1>1, <2>1 DEF WriteOf
    <3> QED BY <3>1, <1>3 DEF TableStep, Action
  <2>3. NextVersion(id) = seen[r].version + 1 /\ NextVersion(id) \in Nat
    BY <2>1, <1>2 DEF NextVersion, Seen
  <2>4. /\ h \in Event
        /\ h.req = r
        /\ Tells(h, h)
    BY <1>3, <2>3, ChangeType DEF Change, Action
  <2>5. h.action = "updated" => /\ seen[r] # None
                                /\ h.id = seen[r].id
                                /\ h.version = seen[r].version + 1
    BY <1>2, <2>3 DEF Change
  <2>6. history' = history \cup {h}
    BY <2>1 DEF Commit
  <2> HIDE DEF h, id
  <2>7. /\ Answers(r, h)
        /\ UNCHANGED events
        /\ outcome'[r] \in {"ok", "error"}
        /\ Moves(r)
    BY <2>1, <2>4, <1>1, ReplyAnswers DEF Moves, TypeOK
  <2> QED BY <1>1, <1>2, <1>3, <1>4, <2>2, <2>4, <2>5, <2>6, <2>7, CommitKeeps
<1>6. CASE UpdateRefused(r, t)
  <2>1. UNCHANGED <<row, lastId, history, outbox, events, faulted, caller, seen>>
    BY <1>1, <1>6 DEF UpdateRefused, Finish
  <2>2. PICK o \in {"conflict", "error"} :
           /\ Finish(r, o)
           /\ o = "conflict" => ~Matches(r)
    BY <1>6 DEF UpdateRefused
  <2>3. pc'[r] = "done" /\ outcome'[r] = o /\ Moves(r)
    BY <1>1, <2>1, <2>2 DEF Finish, Goto, Answer, Moves, TypeOK
  <2>4. ASSUME o = "conflict"
        PROVE  \E g \in history :
                  /\ g.req # r
                  /\ g.id = seen[r].id
                  /\ g.version > seen[r].version \/ g.action = "deleted"
    <3>1. CASE id \notin Live
      BY <3>1, <1>2, <1>3 DEF TableInv, IdsAllocated, Id
    <3>2. CASE id \in Live
      <4>1. row[id].user = u /\ seen[r].version <= row[id].version
        BY <3>2, <1>2 DEF SeenStillOwned, SeenOwned
      <4>2. row[id].version # seen[r].version
        BY <2>2, <2>4, <3>2, <4>1 DEF Matches
      <4>3. row[id].version \in Nat /\ seen[r].version \in Nat
        BY <3>2, <1>2 DEF TypeOK, Live, Row, Seen
      <4>4. PICK g \in Writes : g.id = id /\ g.version = row[id].version
        BY <3>2, <4>3 DEF TableInv, VersionsCountWrites
      <4>5. g \in history /\ g.version > seen[r].version
        BY <4>1, <4>2, <4>3, <4>4 DEF Writes
      <4> QED BY <4>4, <4>5, <1>2
    <3> QED BY <3>1, <3>2
  <2>5. SeenOwned(r)'
    BY <2>1 DEF SeenStillOwned, SeenOwned, Live
  <2>6. InStep(r)'
    BY <1>1, <1>2, <1>4, <2>1, <2>3 DEF InStep
  <2>7. faulted' \subseteq Request
    BY <2>1 DEF TypeOK
  <2> HIDE DEF id
  <2> QED BY <1>2, <1>3, <1>4, <2>1, <2>3, <2>4, <2>5, <2>6, <2>7, MoveKeeps
<1> QED BY <1>5, <1>6 DEF UpdateWrite

\* DELETE WHERE id AND user_id.
LEMMA DeleteWriteKeeps ==
    ASSUME IndInv, NEW r \in Request, DeleteWrite(r)
    PROVE  IndInv'
<1> USE DEF IndInv, RequestInv
<1> DEFINE s == seen[r]
           h == Change(r, "deleted", s.id, row[s.id].version, row[s.id].title)
           e == Change(r, "deleted", s.id, s.version, s.title)
<1>1. pc[r] = "delete" /\ UNCHANGED <<lastId, caller, seen, tally>>
  BY DEF DeleteWrite
<1>2. /\ s \in Seen
      /\ s # None
      /\ outbox[r] = None
      /\ outcome[r] = "none"
      /\ ~(ItemsLeft(tally[r]) > 0)
      /\ \A g \in history : g.req # r
  BY <1>1 DEF RequestsInStep, InStep, TypeOK
<1>3. s.id \in Id /\ s.version \in Nat /\ s.title \in Title /\ caller[r] \in User
  BY <1>2 DEF Seen, SeenStillOwned, SeenOwned
<1>4. /\ tally'[r] = tally[r] /\ tally[r] \in Tally
      /\ caller'[r] = caller[r]
      /\ seen'[r] = seen[r]
      /\ lastId' \in 0..MaxNotes
  BY <1>1 DEF TypeOK
<1>5. CASE s.id \in Live /\ row[s.id].user = caller[r]
  <2>1. /\ Commit(s.id, None, h)
        /\ \/ Acknowledged(r, e) /\ Answer(r, "ok")
           \/ Fault(r, "db") /\ Finish(r, "error")
    BY <1>5 DEF DeleteWrite
  <2>2. TableStep(r)
    <3>1. RemovalOf(r, s.id)
      BY <1>1, <1>5, <2>1 DEF RemovalOf
    <3> QED BY <3>1, <1>3 DEF TableStep
  <2>3. row[s.id].version \in Nat /\ row[s.id].title \in Title
    BY <1>3, <1>5 DEF TypeOK, Live, Row
  <2>4. /\ h \in Event /\ e \in Event
        /\ h.req = r /\ h.action = "deleted"
        /\ Tells(e, h)
    <3>1. h \in Event /\ e \in Event
      BY <1>3, <2>3, ChangeType DEF Action
    <3> QED BY <3>1 DEF Change, Tells
  <2>5. history' = history \cup {h}
    BY <2>1 DEF Commit
  <2> HIDE DEF h, e, s
  <2>6. /\ Answers(r, h)
        /\ UNCHANGED events
        /\ outcome'[r] \in {"ok", "error"}
        /\ Moves(r)
    BY <2>1, <2>4, <1>1, ReplyAnswers DEF Moves, TypeOK
  <2> QED BY <1>1, <1>2, <1>3, <1>4, <2>2, <2>4, <2>5, <2>6, CommitKeeps
<1>6. CASE ~(s.id \in Live /\ row[s.id].user = caller[r])
  <2>1. /\ UNCHANGED <<row, lastId, history, outbox, events, faulted, caller, seen>>
        /\ Finish(r, "notFound")
    BY <1>1, <1>6 DEF DeleteWrite, Finish
  <2>2. pc'[r] = "done" /\ outcome'[r] = "notFound" /\ Moves(r)
    BY <1>1, <2>1 DEF Finish, Goto, Answer, Moves, TypeOK
  <2>3. SeenOwned(r)'
    BY <2>1 DEF SeenStillOwned, SeenOwned, Live
  <2>4. InStep(r)'
    BY <1>1, <1>2, <1>4, <2>1, <2>2 DEF InStep
  <2>5. faulted' \subseteq Request
    BY <2>1 DEF TypeOK
  <2> QED BY <1>2, <1>3, <1>4, <2>1, <2>2, <2>3, <2>4, <2>5, MoveKeeps
<1> QED BY <1>5, <1>6

\* Import, its begin.
LEMMA ImportBeginKeeps ==
    ASSUME IndInv, NEW r \in Request, NEW u \in User, NEW n \in 0..MaxItems,
           ImportBegin(r, u, n)
    PROVE  IndInv'
<1> USE DEF IndInv, RequestInv
<1>1. PICK l \in {"import", "done"} : pc' = [pc EXCEPT ![r] = l]
  BY DEF ImportBegin, AfterItem, Goto
<1>2. /\ pc[r] = "idle"
      /\ caller' = [caller EXCEPT ![r] = u]
      /\ outcome' = [outcome EXCEPT ![r] = "imported"]
      /\ UNCHANGED <<row, lastId, seen, outbox, events, history, faulted>>
  BY DEF ImportBegin, Answer
<1>3. PICK m \in Tally : tally' = [tally EXCEPT ![r] = m]
  <2>1. [total |-> n, imported |-> 0, errors |-> 0] \in Tally
    BY NoteAssumption DEF Tally
  <2> QED BY <2>1 DEF ImportBegin
<1>4. /\ seen[r] = None
      /\ outbox[r] = None
      /\ \A h \in history : h.req # r
  BY <1>2 DEF RequestsInStep, InStep
<1>5. /\ Moves(r)
      /\ pc'[r] \in {"import", "done"}
      /\ caller'[r] = u
      /\ seen'[r] = None
      /\ tally'[r] \in Tally
      /\ outcome'[r] = "imported"
      /\ outbox'[r] = None
      /\ faulted' \subseteq Request
  BY <1>1, <1>2, <1>3, <1>4 DEF Moves, TypeOK
<1>6. SeenOwned(r)'
  BY <1>5 DEF SeenOwned
<1>7. InStep(r)'
  BY <1>2, <1>4, <1>5 DEF InStep
<1> QED BY <1>2, <1>4, <1>5, <1>6, <1>7, MoveKeeps

\* Import, one item.
LEMMA ImportItemKeeps ==
    ASSUME IndInv, NEW r \in Request, NEW t \in Title, ImportItem(r, t)
    PROVE  IndInv'
<1> USE DEF IndInv, RequestInv
<1> DEFINE good == Counted(tally[r])
           bad  == Failed(tally[r])
<1>1. pc[r] = "import" /\ UNCHANGED <<caller, seen, outcome>>
  BY DEF ImportItem
<1>2. /\ caller[r] \in User
      /\ outcome[r] = "imported"
      /\ outbox[r] = None
      /\ caller'[r] = caller[r]
      /\ outcome'[r] = "imported"
      /\ seen'[r] = seen[r]
      /\ seen[r] \in Seen \cup {None}
  BY <1>1 DEF RequestsInStep, InStep, TypeOK
<1>3. good \in Tally /\ bad \in Tally
  BY DEF TypeOK, Tally, Counted, Failed
<1>4. \/ /\ Fault(r, "db")
         /\ tally' = [tally EXCEPT ![r] = bad]
         /\ AfterItem(r, bad)
         /\ UNCHANGED <<row, lastId, outbox, events, history>>
      \/ \E id \in Id : /\ Upsert(r, caller[r], t, id)
                        /\ UNCHANGED events
                        /\ \/ /\ Acknowledged(r, Created(r, t, id))
                              /\ tally' = [tally EXCEPT ![r] = good]
                           \/ /\ Fault(r, "db")
                              /\ tally' = [tally EXCEPT ![r] = bad]
                              /\ AfterItem(r, bad)
                              /\ UNCHANGED outbox
  BY DEF ImportItem, Acknowledged
<1> HIDE DEF good, bad
<1>5. tally' = [tally EXCEPT ![r] = tally'[r]] /\ tally'[r] \in Tally
  BY <1>3, <1>4 DEF TypeOK
<1>6. ASSUME NEW id \in Id, Upsert(r, caller[r], t, id), UNCHANGED events,
             \/ Acknowledged(r, Created(r, t, id))
             \/ Fault(r, "db") /\ AfterItem(r, bad) /\ UNCHANGED outbox
      PROVE  IndInv'
  <2> DEFINE h == Created(r, t, id)
  <2>1. TableStep(r)
    BY <1>2, <1>6, UpsertIsWrite DEF TableStep, Action
  <2>2. h \in Event /\ h.req = r /\ h.action = "created" /\ Tells(h, h)
    <3>1. NextVersion(id) \in Nat
      BY DEF TypeOK, NextVersion, Live, Row
    <3> QED BY <3>1, ChangeType DEF Created, Change, Action
  <2>3. history' = history \cup {h} /\ lastId' \in 0..MaxNotes
    BY <1>6, NoteAssumption DEF Upsert, Commit, TypeOK, Id
  <2> HIDE DEF h
  <2>4. Answers(r, h) /\ Moves(r)
    <3>1. CASE Acknowledged(r, h)
      BY <3>1, <1>1, <1>5, <2>2 DEF Acknowledged, Goto, Answers, Moves, TypeOK
    <3>2. CASE Fault(r, "db") /\ AfterItem(r, bad) /\ UNCHANGED outbox
      BY <3>2, <1>1, <1>2, <1>5 DEF Fault, AfterItem, Goto, Answers, Moves, TypeOK
    <3> QED BY <1>6, <3>1, <3>2 DEF h
  <2> QED BY <1>1, <1>2, <1>5, <1>6, <2>1, <2>2, <2>3, <2>4, CommitKeeps
<1>7. ASSUME Fault(r, "db"), AfterItem(r, bad), tally' = [tally EXCEPT ![r] = bad],
             UNCHANGED <<row, lastId, outbox, events, history>>
      PROVE  IndInv'
  <2>1. Moves(r) /\ pc'[r] \in {"import", "done"}
    BY <1>1, <1>5, <1>7 DEF AfterItem, Goto, Moves, TypeOK
  <2>2. faulted \subseteq faulted' /\ faulted' \subseteq Request /\ outbox'[r] = None
    BY <1>2, <1>7 DEF Fault, TypeOK
  <2>3. SeenOwned(r)'
    BY <1>1, <1>7 DEF SeenStillOwned, SeenOwned, Live
  <2>4. InStep(r)'
    BY <1>1, <1>2, <1>7, <2>1, <2>2 DEF RequestsInStep, InStep
  <2> QED BY <1>1, <1>2, <1>5, <1>7, <2>1, <2>2, <2>3, <2>4, MoveKeeps
<1> QED BY <1>4, <1>6, <1>7

\* publishEvent.
LEMMA PublishKeeps ==
    ASSUME IndInv, NEW r \in Request, Publish(r)
    PROVE  IndInv'
<1> USE DEF IndInv, RequestInv
<1>1. /\ pc[r] = "publish"
      /\ outbox' = [outbox EXCEPT ![r] = None]
      /\ UNCHANGED <<row, lastId, caller, seen, tally, outcome, history>>
      /\ \/ events' = events \cup {outbox[r]} /\ faulted' = faulted
         \/ events' = events /\ faulted' = faulted \cup {r}
  BY DEF Publish, Fault
<1>2. outbox[r] # None /\ outbox[r] \in Event
  BY <1>1 DEF RequestsInStep, InStep, TypeOK
<1>3. PICK l \in {"import", "done"} :
         /\ pc' = [pc EXCEPT ![r] = l]
         /\ l = "import" => caller[r] \in User /\ outcome[r] = "imported"
  BY <1>1 DEF Publish, AfterItem, Goto, RequestsInStep, InStep
<1>4. TableInv'
  BY <1>1, NoChangeKeepsTable
<1>5. TypeOK'
  BY <1>1, <1>2, <1>3 DEF TypeOK
<1>6. UpdatesWhatWasRead' /\ ConflictJustified'
  BY <1>1 DEF UpdatesWhatWasRead, ConflictJustified
<1>7. EventsTellHistory'
  BY <1>1, <1>2, EventsKept DEF TypeOK
<1>8. SeenStillOwned'
  BY <1>1 DEF SeenStillOwned, SeenOwned, Live
<1>9. RequestsInStep'
  <2> SUFFICES ASSUME NEW q \in Request PROVE InStep(q)'
    BY DEF RequestsInStep
  <2>1. CASE q = r
    BY <2>1, <1>1, <1>3 DEF RequestsInStep, InStep, TypeOK
  <2>2. CASE q # r
    BY <2>2, <1>1, <1>3, OthersInStep DEF RequestsInStep, TypeOK
  <2> QED BY <2>1, <2>2
<1> QED BY <1>4, <1>5, <1>6, <1>7, <1>8, <1>9

\* A statement that fails without effect.
LEMMA DbErrorKeeps ==
    ASSUME IndInv, NEW r \in Request, DbError(r)
    PROVE  IndInv'
<1> USE DEF IndInv, RequestInv
<1>1. /\ pc[r] \in {"idle", "update", "delete"}
      /\ pc' = [pc EXCEPT ![r] = "done"]
      /\ outcome' = [outcome EXCEPT ![r] = "error"]
      /\ faulted' = faulted \cup {r}
      /\ UNCHANGED <<row, lastId, caller, seen, tally, history, outbox, events>>
  BY DEF DbError, Fault, Finish, Goto, Answer
<1>2. /\ Moves(r)
      /\ pc'[r] = "done"
      /\ outcome'[r] = "error"
      /\ caller'[r] \in User \cup {None}
      /\ seen'[r] = seen[r] /\ seen[r] \in Seen \cup {None}
      /\ tally'[r] \in Tally
      /\ faulted \subseteq faulted' /\ faulted' \subseteq Request
  BY <1>1 DEF Moves, TypeOK
<1>3. SeenOwned(r)'
  BY <1>1 DEF SeenStillOwned, SeenOwned, Live
<1>4. InStep(r)'
  BY <1>1, <1>2 DEF RequestsInStep, InStep
<1> QED BY <1>1, <1>2, <1>3, <1>4, MoveKeeps

\* The process dies.
LEMMA CrashKeeps ==
    ASSUME IndInv, Crash
    PROVE  IndInv'
<1> USE DEF IndInv, RequestInv
<1>1. /\ faulted' = faulted \cup InFlight
      /\ pc' = [r \in Request |-> IF r \in InFlight THEN "done" ELSE pc[r]]
      /\ outcome' = [r \in Request |-> IF r \in InFlight THEN "crashed" ELSE outcome[r]]
      /\ outbox' = [r \in Request |-> None]
      /\ UNCHANGED <<row, lastId, caller, seen, tally, events, history>>
  BY DEF Crash
<1>2. TableInv'
  BY <1>1, NoChangeKeepsTable
<1>3. TypeOK'
  BY <1>1 DEF TypeOK, InFlight
<1>4. UpdatesWhatWasRead' /\ ConflictJustified'
  BY <1>1 DEF UpdatesWhatWasRead, ConflictJustified
<1>5. EventsTellHistory'
  <2>1. ASSUME NEW q \in Request, outbox[q] # None
        PROVE  q \in InFlight
    BY <2>1 DEF RequestsInStep, InStep, InFlight
  <2>2. \A h \in history : h.req \in Request
    BY DEF TypeOK, Event
  <2> QED BY <2>1, <2>2, <1>1 DEF EventsTellHistory, Tells
<1>6. SeenStillOwned'
  BY <1>1 DEF SeenStillOwned, SeenOwned, Live
<1>7. RequestsInStep'
  BY <1>1 DEF RequestsInStep, InStep, InFlight, TypeOK
<1> QED BY <1>2, <1>3, <1>4, <1>5, <1>6, <1>7

-----------------------------------------------------------------------------
(* The theorems.                                                           *)

LEMMA InitEstablishes == Init => IndInv
<1> SUFFICES ASSUME Init PROVE IndInv
  OBVIOUS
<1>1. TypeOK
  BY NoteAssumption DEF Init, TypeOK, Tally
<1>2. TableInv
  <2>1. Live = {} /\ history = {} /\ Writes = {} /\ lastId = 0
    BY DEF Init, Live, Writes
  <2> QED BY <2>1 DEF TableInv, UniqueTitles, StampsUnique, VersionsCountWrites,
                      RemovedOnce, IdsAllocated, WritesBelowRow
<1>3. RequestInv
  BY DEF Init, RequestInv, UpdatesWhatWasRead, ConflictJustified, EventsTellHistory,
         SeenStillOwned, SeenOwned, RequestsInStep, InStep, ItemsLeft
<1> QED BY <1>1, <1>2, <1>3 DEF IndInv

LEMMA NextKeeps == IndInv /\ [Next]_vars => IndInv'
<1> SUFFICES ASSUME IndInv, [Next]_vars PROVE IndInv'
  OBVIOUS
<1>1. ASSUME NEW r \in Request, NEW u \in User, Arrive(r, u)
      PROVE  IndInv'
  BY <1>1, CreateKeeps, FindKeeps, ImportBeginKeeps DEF Arrive, UpdateFind, DeleteFind
<1>2. ASSUME NEW r \in Request, Step(r)
      PROVE  IndInv'
  BY <1>2, UpdateWriteKeeps, ImportItemKeeps, DeleteWriteKeeps, PublishKeeps DEF Step
<1>3. CASE UNCHANGED vars
  <2>1. TableInv'
    BY <1>3, NoChangeKeepsTable DEF vars, IndInv
  <2>2. TypeOK'
    BY <1>3 DEF vars, IndInv, TypeOK
  <2>3. UpdatesWhatWasRead' /\ ConflictJustified' /\ EventsTellHistory'
    BY <1>3 DEF vars, IndInv, RequestInv, UpdatesWhatWasRead, ConflictJustified,
       EventsTellHistory, Tells
  <2>4. SeenStillOwned'
    BY <1>3 DEF vars, IndInv, RequestInv, SeenStillOwned, SeenOwned, Live
  <2>5. RequestsInStep'
    BY <1>3, OthersInStep DEF vars, IndInv, RequestInv, RequestsInStep
  <2> QED BY <2>1, <2>2, <2>3, <2>4, <2>5 DEF IndInv, RequestInv
<1> QED BY <1>1, <1>2, <1>3, DbErrorKeeps, CrashKeeps DEF Next

\* IndInv holds of every reachable state.
THEOREM Invariance == Spec => []IndInv
BY InitEstablishes, NextKeeps, PTL DEF Spec

\* The variables keep their types, whatever the interleaving and the failures.
THEOREM TypeCorrect == Spec => []TypeOK
BY Invariance, PTL DEF IndInv

\* No caller ever has two notes with one title.
THEOREM TitlesUnique == Spec => []UniqueTitles
BY Invariance, PTL DEF IndInv, TableInv

\* Update never overwrites a write it has not read, and no two writes of a
\* note carry the same version.
THEOREM NoUpdateLost == Spec => []NoLostUpdate
BY Invariance, PTL DEF IndInv, TableInv, RequestInv, NoLostUpdate

\* The version of a note counts its writes without a gap.
THEOREM VersionsGapless == Spec => []VersionsCountWrites
BY Invariance, PTL DEF IndInv, TableInv

\* A note leaves the table once and its id never comes back.
THEOREM RemovalFinal == Spec => []RemovedOnce
BY Invariance, PTL DEF IndInv, TableInv

\* "conflict" is answered only when another request has changed the note.
THEOREM ConflictHasCause == Spec => []ConflictJustified
BY Invariance, PTL DEF IndInv, RequestInv

\* Nothing is announced before it is committed, and every change is
\* announced, about to be, or lost to a recorded failure.
THEOREM EventsFaithful == Spec => []EventsTellHistory
BY Invariance, PTL DEF IndInv, RequestInv

-----------------------------------------------------------------------------
(* What a step may do to the table, and the abstract table it implements.  *)

\* A write or a removal belongs to a request of the row's owner.
LEMMA StepOwners ==
    ASSUME IndInv, [Next]_vars, NEW id \in Live, row'[id] # row[id]
    PROVE  \E h \in history' \ history :
              /\ h.id = id
              /\ caller'[h.req] = row[id].user
              /\ row'[id] # None => row'[id].user = row[id].user
<1> USE DEF IndInv, RequestInv
<1>1. id \in Id
  BY DEF Live
<1>2. ASSUME NEW r \in Request, NEW a \in Action, NEW u \in User, NEW t \in Title,
             NEW i \in Id, WriteOf(r, a, u, t, i), caller'[r] = u
      PROVE  \E h \in history' \ history :
                /\ h.id = id
                /\ caller'[h.req] = row[id].user
                /\ row'[id] # None => row'[id].user = row[id].user
  <2> DEFINE h == Change(r, a, i, NextVersion(i), t)
  <2>1. /\ row' = [row EXCEPT ![i] = [user |-> u, title |-> t, version |-> NextVersion(i)]]
        /\ history' = history \cup {h}
    BY <1>2 DEF WriteOf, Commit
  <2>2. i = id
    BY <1>1, <2>1 DEF TypeOK
  <2>3. row[id].user = u
    BY <1>2, <2>2 DEF WriteOf, TableInv, IdsAllocated, TypeOK
  <2>4. h \notin history
    <3>1. h.id = id /\ h.version = row[id].version + 1 /\ h.action # "deleted"
      BY <1>2, <2>2 DEF Change, NextVersion, WriteOf
    <3>2. row[id].version \in Nat
      BY <1>1 DEF TypeOK, Live, Row
    <3> QED BY <3>1, <3>2 DEF TableInv, WritesBelowRow, Writes
  <2>5. h.id = id /\ h.req = r
    BY <2>2 DEF Change
  <2>6. row'[id].user = u
    BY <1>1, <2>1, <2>2 DEF TypeOK
  <2> QED BY <1>2, <2>1, <2>3, <2>4, <2>5, <2>6
<1>3. ASSUME NEW r \in Request, NEW u \in User, NEW t \in Title, Create(r, u, t)
      PROVE  \E i \in Id : WriteOf(r, "created", u, t, i) /\ caller'[r] = u
  BY <1>3, UpsertIsWrite DEF Create, TypeOK
<1>4. ASSUME NEW r \in Request, NEW t \in Title, ImportItem(r, t)
      PROVE  \/ row' = row
             \/ \E i \in Id : WriteOf(r, "created", caller[r], t, i) /\ caller'[r] = caller[r]
  <2>1. caller[r] \in User
    BY <1>4 DEF ImportItem, RequestsInStep, InStep
  <2> QED BY <1>4, <2>1, UpsertIsWrite DEF ImportItem
<1>5. ASSUME NEW r \in Request, NEW t \in Title, UpdateWrite(r, t)
      PROVE  \/ row' = row
             \/ \E i \in Id : WriteOf(r, "updated", caller[r], t, i) /\ caller'[r] = caller[r]
  <2>1. CASE UpdateApply(r, t)
    <3>1. seen[r].id \in Id
      BY <1>5 DEF UpdateWrite, RequestsInStep, InStep, TypeOK, Seen
    <3> QED BY <2>1, <3>1, <1>5 DEF UpdateApply, UpdateWrite, Matches, WriteOf
  <2>2. CASE UpdateRefused(r, t)
    BY <2>2 DEF UpdateRefused
  <2> QED BY <2>1, <2>2, <1>5 DEF UpdateWrite
<1>6. ASSUME NEW r \in Request, DeleteWrite(r)
      PROVE  \E h \in history' \ history :
                /\ h.id = id
                /\ caller'[h.req] = row[id].user
                /\ row'[id] # None => row'[id].user = row[id].user
  <2> DEFINE i == seen[r].id
             h == Change(r, "deleted", i, row[i].version, row[i].title)
  <2>1. /\ i \in Live
        /\ row[i].user = caller[r]
        /\ Commit(i, None, h)
        /\ caller' = caller
        /\ pc[r] = "delete"
    BY <1>6 DEF DeleteWrite
  <2>2. i = id
    BY <1>1, <2>1 DEF Commit, TypeOK
  <2>3. h.req = r /\ h.id = id
    BY <2>2 DEF Change
  <2>4. h \notin history
    BY <2>1, <2>3 DEF RequestsInStep, InStep
  <2>5. row'[id] = None
    BY <1>1, <2>1, <2>2 DEF Commit, TypeOK
  <2> QED BY <2>1, <2>2, <2>3, <2>4, <2>5 DEF Commit
<1>7. ASSUME row' = row PROVE FALSE
  BY <1>7
<1>8. ASSUME NEW r \in Request, pc[r] = "import"
      PROVE  caller[r] \in User
  BY <1>8 DEF RequestsInStep, InStep
<1>9. ASSUME NEW r \in Request, pc[r] = "update"
      PROVE  caller[r] \in User
  BY <1>9 DEF RequestsInStep, InStep, SeenStillOwned, SeenOwned
<1>10. CASE \E r \in Request, u \in User : Arrive(r, u)
  BY <1>10, <1>2, <1>3, <1>7 DEF Arrive, UpdateFind, DeleteFind, Find, ImportBegin, Action
<1>11. CASE \E r \in Request : Step(r)
  <2>1. PICK r \in Request : Step(r)
    BY <1>11
  <2>2. CASE \E t \in Title : UpdateWrite(r, t)
    BY <2>2, <1>2, <1>5, <1>7, <1>9 DEF UpdateWrite, Action
  <2>3. CASE \E t \in Title : ImportItem(r, t)
    BY <2>3, <1>2, <1>4, <1>7, <1>8 DEF ImportItem, Action
  <2>4. CASE DeleteWrite(r)
    BY <2>4, <1>6
  <2>5. CASE Publish(r)
    BY <2>5, <1>7 DEF Publish
  <2> QED BY <2>1, <2>2, <2>3, <2>4, <2>5 DEF Step
<1>12. CASE (\E r \in Request : DbError(r)) \/ Crash \/ UNCHANGED vars
  BY <1>12, <1>7 DEF DbError, Crash, vars
<1> QED BY <1>10, <1>11, <1>12 DEF Next

\* A row is changed or removed only by a request of the user who owns it.
THEOREM RowsOwned == Spec => OwnersOnly
<1>1. IndInv /\ [Next]_vars =>
        [\A id \in Live : row'[id] # row[id] =>
            \E h \in history' \ history :
               /\ h.id = id
               /\ caller'[h.req] = row[id].user
               /\ row'[id] # None => row'[id].user = row[id].user]_vars
  BY StepOwners
<1> QED BY <1>1, Invariance, PTL DEF Spec, OwnersOnly

-----------------------------------------------------------------------------
(* Each step implements one step of NoteBook or leaves its variables alone. *)

\* A write of the table is a Put or an Edit of NoteBook, a removal a Remove,
\* as long as the request is answered at that moment.
LEMMA PutRefines ==
    ASSUME TypeOK, TableInv, NEW r \in Request, NEW u \in User, NEW t \in Title,
           NEW id \in Id, Upsert(r, u, t, id),
           Book!Effective(r) \/ (outcome[r] = "imported" /\ UNCHANGED outcome)
    PROVE  Book!Put(r, u, t)
<1>1. row' = [row EXCEPT ![id] = [user |-> u, title |-> t, version |-> NextVersion(id)]]
  BY DEF Upsert, Commit
<1>2. CASE Titled(u, t) = {} /\ lastId < MaxNotes /\ id = lastId + 1 /\ lastId' = id
  <2>1. id \notin Live
    BY <1>2, NoteAssumption DEF TableInv, IdsAllocated, TypeOK
  <2>2. \A i \in Id : ~Book!Holds(i, u, t)
    BY <1>2 DEF Titled, Live, Book!Holds, Book!Owns
  <2> QED BY <1>1, <1>2, <2>1, <2>2 DEF NextVersion, Book!Put, Book!Id, Id
<1>3. CASE id \in Titled(u, t) /\ UNCHANGED lastId
  <2>1. Book!Holds(id, u, t) /\ NextVersion(id) = row[id].version + 1
    BY <1>3 DEF Titled, NextVersion, Live, Book!Holds, Book!Owns
  <2> QED BY <1>1, <1>3, <2>1 DEF Book!Put, Book!Id, Id
<1> QED BY <1>2, <1>3 DEF Upsert

LEMMA StepRefines == IndInv /\ [Next]_vars => [Book!Next]_(Book!vars)
<1> SUFFICES ASSUME IndInv, [Next]_vars
             PROVE  Book!Next \/ UNCHANGED Book!vars
  OBVIOUS
<1> USE DEF IndInv, RequestInv
<1>1. ASSUME NEW r \in Request, outcome[r] = "none",
             NEW e, \/ Acknowledged(r, e) /\ Answer(r, "ok")
                    \/ Fault(r, "db") /\ Finish(r, "error")
      PROVE  Book!Effective(r)
  BY <1>1 DEF Acknowledged, Answer, Fault, Finish, Book!Effective, Book!Told
<1>2. ASSUME NEW r \in Request, outcome[r] = "none", UNCHANGED <<row, lastId>>,
             NEW o \in {"notFound", "conflict", "error", "imported"}, Answer(r, o)
      PROVE  Book!Next
  BY <1>2 DEF Answer, Book!Decline, Book!Told, Book!Next
<1>3. ASSUME NEW r \in Request, pc[r] \in {"idle", "update", "delete"}
      PROVE  outcome[r] = "none"
  BY <1>3 DEF RequestsInStep, InStep
<1>4. ASSUME NEW r \in Request, NEW u \in User, NEW t \in Title, Create(r, u, t)
      PROVE  Book!Next
  <2>1. PICK id \in Id :
           /\ Upsert(r, u, t, id)
           /\ \/ Acknowledged(r, Created(r, t, id)) /\ Answer(r, "ok")
              \/ Fault(r, "db") /\ Finish(r, "error")
    BY <1>4 DEF Create
  <2>2. Book!Effective(r)
    BY <1>1, <1>3, <1>4, <2>1 DEF Create
  <2> QED BY <2>1, <2>2, PutRefines DEF Book!Next
<1>5. ASSUME NEW r \in Request, NEW u \in User, NEW id \in Id, NEW next,
             Find(r, u, id, next)
      PROVE  Book!Next \/ UNCHANGED Book!vars
  BY <1>2, <1>3, <1>5 DEF Find, Finish, Book!vars
<1>6. ASSUME NEW r \in Request, NEW u \in User, NEW n \in 0..MaxItems, ImportBegin(r, u, n)
      PROVE  Book!Next
  BY <1>2, <1>3, <1>6 DEF ImportBegin
<1>7. ASSUME NEW r \in Request, NEW t \in Title, UpdateWrite(r, t)
      PROVE  Book!Next
  <2>1. pc[r] = "update" /\ outcome[r] = "none" /\ lastId' = lastId
    BY <1>3, <1>7 DEF UpdateWrite
  <2>2. CASE UpdateApply(r, t)
    <3> DEFINE id == seen[r].id
               u  == caller[r]
               h  == Change(r, "updated", id, NextVersion(id), t)
    <3>1. /\ id \in Live
          /\ row[id].user = u
          /\ Titled(u, t) \subseteq {id}
          /\ Commit(id, [user |-> u, title |-> t, version |-> NextVersion(id)], h)
          /\ \/ Acknowledged(r, h) /\ Answer(r, "ok")
             \/ Fault(r, "db") /\ Finish(r, "error")
      BY <2>2 DEF UpdateApply, Matches
    <3>2. u \in User /\ id \in Id
      BY <2>1, <3>1 DEF RequestsInStep, InStep, SeenStillOwned, SeenOwned, Live
    <3>3. Book!Effective(r)
      <4> HIDE DEF h
      <4> QED BY <1>1, <2>1, <3>1
    <3>4. Book!Owns(u, id)
      BY <3>1 DEF Live, Book!Owns
    <3>5. \A other \in Id \ {id} : ~Book!Holds(other, u, t)
      BY <3>1 DEF Titled, Live, Book!Holds, Book!Owns
    <3>6. row' = [row EXCEPT ![id] =
                    [user |-> u, title |-> t, version |-> row[id].version + 1]]
      BY <3>1 DEF Commit, NextVersion
    <3>7. Book!Edit(r, u, t, id)
      BY <2>1, <3>3, <3>4, <3>5, <3>6 DEF Book!Edit, Book!Id, Id
    <3> QED BY <3>2, <3>7 DEF Book!Next, Book!Id, Id
  <2>3. CASE UpdateRefused(r, t)
    BY <1>2, <2>1, <2>3 DEF UpdateRefused, Finish
  <2> QED BY <1>7, <2>2, <2>3 DEF UpdateWrite
<1>8. ASSUME NEW r \in Request, NEW t \in Title, ImportItem(r, t)
      PROVE  Book!Next \/ UNCHANGED Book!vars
  <2>1. caller[r] \in User /\ outcome[r] = "imported" /\ outcome' = outcome
    BY <1>8 DEF ImportItem, RequestsInStep, InStep
  <2>2. CASE \E id \in Id : Upsert(r, caller[r], t, id)
    BY <2>1, <2>2, PutRefines DEF Book!Next
  <2>3. CASE UNCHANGED <<row, lastId>>
    BY <2>1, <2>3 DEF Book!vars
  <2> QED BY <1>8, <2>2, <2>3 DEF ImportItem
<1>9. ASSUME NEW r \in Request, DeleteWrite(r)
      PROVE  Book!Next
  <2> DEFINE id == seen[r].id
             u  == caller[r]
             e  == Change(r, "deleted", id, seen[r].version, seen[r].title)
  <2>1. pc[r] = "delete" /\ outcome[r] = "none" /\ lastId' = lastId
    BY <1>3, <1>9 DEF DeleteWrite
  <2>2. u \in User
    BY <2>1 DEF RequestsInStep, InStep, SeenStillOwned, SeenOwned
  <2>3. CASE id \in Live /\ row[id].user = u
    <3>1. /\ row' = [row EXCEPT ![id] = None]
          /\ \/ Acknowledged(r, e) /\ Answer(r, "ok")
             \/ Fault(r, "db") /\ Finish(r, "error")
      BY <1>9, <2>3 DEF DeleteWrite, Commit
    <3>2. Book!Effective(r)
      <4> HIDE DEF e
      <4> QED BY <1>1, <2>1, <3>1
    <3>3. Book!Remove(r, u, id)
      BY <2>1, <2>3, <3>1, <3>2 DEF Live, Book!Remove, Book!Owns
    <3> QED BY <2>2, <2>3, <3>3 DEF Book!Next, Book!Id, Id, Live
  <2>4. CASE ~(id \in Live /\ row[id].user = u)
    BY <1>2, <1>9, <2>1, <2>4 DEF DeleteWrite, Finish
  <2> QED BY <2>3, <2>4
<1>10. ASSUME NEW r \in Request, Publish(r)
       PROVE  UNCHANGED Book!vars
  BY <1>10 DEF Publish, Book!vars
<1>11. ASSUME NEW r \in Request, DbError(r)
       PROVE  Book!Next
  BY <1>2, <1>3, <1>11 DEF DbError, Finish
<1>12. CASE Crash
  BY <1>12 DEF Crash, InFlight, Book!Lose, Book!Next
<1>13. CASE UNCHANGED vars
  BY <1>13 DEF vars, Book!vars
<1>14. CASE \E r \in Request, u \in User : Arrive(r, u)
  BY <1>4, <1>5, <1>6, <1>14 DEF Arrive, UpdateFind, DeleteFind
<1>15. CASE \E r \in Request : Step(r)
  BY <1>7, <1>8, <1>9, <1>10, <1>15 DEF Step
<1> QED BY <1>11, <1>12, <1>13, <1>14, <1>15 DEF Next

\* Whatever the interleaving and the failures, the service behaves as a table
\* in which every request takes effect at one instant.
THEOREM Refinement == Spec => ImplementsNoteBook
<1>1. Init => Book!Init
  BY DEF Init, Book!Init, Book!Id, Id
<1> QED BY <1>1, Invariance, StepRefines, PTL DEF Spec, ImplementsNoteBook, Book!Spec

-----------------------------------------------------------------------------
(* What a client that replays the events believes.                         *)

\* A change that a write commits is not yet in the history.
LEMMA WriteIsNew ==
    ASSUME TypeOK, TableInv, NEW r \in Request, NEW a, NEW u \in User, NEW t \in Title,
           NEW id \in Id, WriteOf(r, a, u, t, id)
    PROVE  Change(r, a, id, NextVersion(id), t) \notin history
<1> DEFINE h == Change(r, a, id, NextVersion(id), t)
<1>1. h.id = id /\ h.version = NextVersion(id) /\ h.action # "deleted"
  BY DEF Change, WriteOf
<1>2. SUFFICES ASSUME h \in history PROVE FALSE
  OBVIOUS
<1>3. id \in Live
  BY <1>1, <1>2 DEF WriteOf, TableInv, IdsAllocated, TypeOK
<1>4. row[id].version \in Nat
  BY <1>3 DEF TypeOK, Live, Row
<1> QED BY <1>1, <1>2, <1>3, <1>4 DEF NextVersion, TableInv, WritesBelowRow, Writes

\* A step of request r, whatever it runs.
Runs(r) == (\E u \in User : Arrive(r, u)) \/ Step(r) \/ DbError(r)

\* It changes the table in one of the ways of TableStep, or not at all.
LEMMA RunIsTableStep ==
    ASSUME IndInv, NEW r \in Request, Runs(r)
    PROVE  TableStep(r)
<1> USE DEF IndInv, RequestInv
<1>1. ASSUME NEW u \in User, NEW t \in Title, Create(r, u, t)
      PROVE  TableStep(r)
  BY <1>1, UpsertIsWrite DEF Create, TableStep, Action
<1>2. ASSUME NEW t \in Title, ImportItem(r, t)
      PROVE  TableStep(r)
  <2>1. caller[r] \in User
    BY <1>2 DEF ImportItem, RequestsInStep, InStep
  <2> QED BY <1>2, <2>1, UpsertIsWrite DEF ImportItem, TableStep, Action
<1>3. ASSUME NEW t \in Title, UpdateWrite(r, t)
      PROVE  TableStep(r)
  <2>1. CASE UpdateApply(r, t)
    <3>1. seen[r].id \in Id /\ caller[r] \in User
      BY <1>3 DEF UpdateWrite, RequestsInStep, InStep, SeenStillOwned, SeenOwned,
                  TypeOK, Seen
    <3>2. WriteOf(r, "updated", caller[r], t, seen[r].id)
      BY <2>1, <3>1, <1>3 DEF UpdateApply, UpdateWrite, Matches, WriteOf
    <3> QED BY <3>1, <3>2 DEF TableStep, Action
  <2>2. CASE UpdateRefused(r, t)
    BY <2>2, <1>3 DEF UpdateRefused, UpdateWrite, TableStep
  <2> QED BY <2>1, <2>2, <1>3 DEF UpdateWrite
<1>4. ASSUME DeleteWrite(r)
      PROVE  TableStep(r)
  <2>1. seen[r].id \in Id
    BY <1>4 DEF DeleteWrite, RequestsInStep, InStep, TypeOK, Seen
  <2> QED BY <1>4, <2>1 DEF DeleteWrite, TableStep, RemovalOf
<1>5. CASE \E u \in User : Arrive(r, u)
  <2>1. PICK u \in User : Arrive(r, u)
    BY <1>5
  <2>2. CASE \E t \in Title : Create(r, u, t)
    BY <1>1, <2>2
  <2>3. CASE \E id \in Id : UpdateFind(r, u, id) \/ DeleteFind(r, u, id)
    BY <2>3 DEF UpdateFind, DeleteFind, Find, TableStep
  <2>4. CASE \E n \in 0..MaxItems : ImportBegin(r, u, n)
    BY <2>4 DEF ImportBegin, TableStep
  <2> QED BY <2>1, <2>2, <2>3, <2>4 DEF Arrive
<1>6. CASE Step(r)
  BY <1>6, <1>2, <1>3, <1>4 DEF Step, Publish, TableStep
<1>7. CASE DbError(r)
  BY <1>7 DEF DbError, TableStep
<1> QED BY <1>5, <1>6, <1>7 DEF Runs

LEMMA StepsAreTableSteps ==
    ASSUME IndInv, [Next]_vars
    PROVE  \/ UNCHANGED <<row, lastId, history>>
           \/ \E r \in Request : TableStep(r)
<1>1. CASE \E r \in Request : Runs(r)
  BY <1>1, RunIsTableStep
<1>2. CASE Crash \/ UNCHANGED vars
  BY <1>2 DEF Crash, vars
<1> QED BY <1>1, <1>2 DEF Next, Runs

\* The write that gave a row its version gave it its title.
LatestTitle ==
    \A h \in Writes :
        h.id \in Live /\ h.version = row[h.id].version => h.title = row[h.id].title

LEMMA LatestTitleKept ==
    ASSUME IndInv, LatestTitle, [Next]_vars
    PROVE  LatestTitle'
<1> USE DEF IndInv
<1>1. CASE UNCHANGED <<row, lastId, history>>
  BY <1>1 DEF LatestTitle, Writes, Live
<1>2. ASSUME NEW r \in Request, TableStep(r)
      PROVE  LatestTitle'
  <2>1. ASSUME NEW a \in Action, NEW u \in User, NEW t \in Title, NEW id \in Id,
               WriteOf(r, a, u, t, id)
        PROVE  LatestTitle'
    <3> DEFINE n == [user |-> u, title |-> t, version |-> NextVersion(id)]
               h == Change(r, a, id, NextVersion(id), t)
    <3>1. row' = [row EXCEPT ![id] = n] /\ history' = history \cup {h}
      BY <2>1 DEF WriteOf, Commit
    <3>2. row \in [Id -> Row \cup {None}]
      BY DEF TypeOK
    <3>3. SUFFICES ASSUME NEW g \in Writes', g.id \in Live',
                          g.version = row'[g.id].version
                   PROVE  g.title = row'[g.id].title
      BY DEF LatestTitle
    <3>4. CASE g = h
      BY <3>1, <3>2, <3>4 DEF Change
    <3>5. CASE g # h
      <4>1. g \in Writes
        BY <3>1, <3>5 DEF Writes
      <4>2. CASE g.id = id
        <5>1. g.version = NextVersion(id)
          BY <3>1, <3>2, <3>3, <4>2
        <5>2. id \in Live
          BY <2>1, <4>1, <4>2 DEF WriteOf, TableInv, IdsAllocated, TypeOK, Writes
        <5>3. row[id].version \in Nat
          BY <5>2, <3>2 DEF Live, Row
        <5> QED BY <5>1, <5>2, <5>3, <4>1, <4>2
                DEF NextVersion, TableInv, WritesBelowRow
      <4>3. CASE g.id # id
        <5>1. g.id \in Live /\ row'[g.id] = row[g.id]
          BY <3>1, <3>2, <3>3, <4>3 DEF Live
        <5> QED BY <5>1, <4>1, <3>3 DEF LatestTitle
      <4> QED BY <4>2, <4>3
    <3> QED BY <3>4, <3>5
  <2>2. ASSUME NEW id \in Id, RemovalOf(r, id)
        PROVE  LatestTitle'
    BY <2>2 DEF RemovalOf, Commit, Change, LatestTitle, Writes, Live, TypeOK
  <2> QED BY <1>1, <1>2, <2>1, <2>2 DEF TableStep
<1> QED BY <1>1, <1>2, StepsAreTableSteps

\* Once nothing is in flight and nothing has failed, the events alone tell
\* what is in the table.
LEMMA HistoryIsTold ==
    ASSUME IndInv, LatestTitle
    PROVE  ReplicaAgrees
<1> USE DEF IndInv
<1> SUFFICES ASSUME InFlight = {}, faulted = {}, NEW id \in 1..lastId
             PROVE  IF id \in Live
                    THEN /\ ~BelievedGone(id)
                         /\ \E e \in Told(id) :
                               /\ e.version = row[id].version
                               /\ e.title = row[id].title
                               /\ \A f \in Told(id) : f.version <= e.version
                    ELSE BelievedGone(id)
  BY DEF ReplicaAgrees
<1>1. \A h \in history : h.req \in Request /\ h.version \in Nat
  BY DEF TypeOK, Event
<1>2. \A r \in Request : outbox[r] = None
  BY DEF InFlight, RequestInv, RequestsInStep, InStep
<1>3. \A h \in history : \E e \in events : Tells(e, h)
  BY <1>1, <1>2 DEF RequestInv, EventsTellHistory
<1>4. \A e \in events : \E h \in history : Tells(e, h)
  BY DEF RequestInv, EventsTellHistory
<1>5. CASE id \in Live
  <2>1. \A h \in history : h.id = id => h \in Writes
    BY <1>5 DEF TableInv, RemovedOnce, Writes
  <2>2. ~BelievedGone(id)
    BY <1>4, <2>1 DEF BelievedGone, Told, Tells, Writes
  <2>3. row[id].version \in Nat
    BY <1>5 DEF TypeOK, Live, Row
  <2>4. PICK h \in Writes : h.id = id /\ h.version = row[id].version
    BY <1>5, <2>3 DEF TableInv, VersionsCountWrites
  <2>5. PICK e \in events : Tells(e, h)
    BY <1>3, <2>4 DEF Writes
  <2>6. e \in Told(id) /\ e.version = row[id].version /\ e.title = row[id].title
    BY <2>4, <2>5, <1>5 DEF Told, Tells, Writes, LatestTitle
  <2>7. \A f \in Told(id) : f.version <= e.version
    BY <2>1, <2>6, <1>4, <1>5 DEF Told, Tells, Writes, TableInv, WritesBelowRow
  <2> QED BY <1>5, <2>2, <2>6, <2>7
<1>6. CASE id \notin Live
  BY <1>3, <1>6 DEF TableInv, IdsAllocated, BelievedGone, Told, Tells
<1> QED BY <1>5, <1>6

\* A client that keeps the newest event of each note, and lets a removal win,
\* ends with the notes of the table, in whatever order the requests' events
\* reached the topic: the version publishEvent sends is the one the statement
\* returned, and no removal is announced for a note that is there.
THEOREM ReplicaConverges == Spec => []ReplicaAgrees
<1>1. Init => LatestTitle
  BY DEF Init, LatestTitle, Writes
<1>2. IndInv /\ LatestTitle /\ [Next]_vars => LatestTitle'
  BY LatestTitleKept
<1>3. IndInv /\ LatestTitle => ReplicaAgrees
  BY HistoryIsTold
<1> QED BY <1>1, <1>2, <1>3, Invariance, PTL DEF Spec

-----------------------------------------------------------------------------
(* What the reply to an Import counts.                                     *)

Stored(r) == {h \in history : h.req = r}

Accounted(t) == t.imported + t.errors

\* An Import goes on exactly while items are left, has stored what it counts
\* as imported, and has stored beyond that only what it counts as failed.
ImportExact(r) ==
    /\ IsFiniteSet(Stored(r))
    /\ ItemsLeft(tally[r]) >= 0
    /\ pc[r] = "import" => ItemsLeft(tally[r]) > 0
    /\ outcome[r] = "imported" =>
          /\ pc[r] = "done" => ItemsLeft(tally[r]) = 0
          /\ tally[r].imported <= Cardinality(Stored(r))
          /\ Cardinality(Stored(r)) <= Accounted(tally[r])
          /\ r \notin faulted => tally[r].errors = 0

ImportsExact == \A r \in Request : ImportExact(r)

\* A step in which only r moves and stores at most one change, its own.
Alone(r) ==
    /\ \A q \in Request \ {r} : /\ pc'[q] = pc[q]
                                /\ tally'[q] = tally[q]
                                /\ outcome'[q] = outcome[q]
    /\ \A h \in history' \ history : h.req = r
    /\ history \subseteq history'
    /\ faulted \subseteq faulted'

\* Such a step leaves the others' counts exact.
LEMMA OthersExact ==
    ASSUME ImportsExact, NEW r \in Request, Alone(r), ImportExact(r)'
    PROVE  ImportsExact'
<1> SUFFICES ASSUME NEW q \in Request PROVE ImportExact(q)'
  BY DEF ImportsExact
<1>1. CASE q = r
  BY <1>1
<1>2. CASE q # r
  <2>1. Stored(q)' = Stored(q)
    BY <1>2 DEF Alone, Stored
  <2>2. pc'[q] = pc[q] /\ tally'[q] = tally[q] /\ outcome'[q] = outcome[q]
    BY <1>2 DEF Alone
  <2> QED BY <2>1, <2>2 DEF ImportsExact, ImportExact, Alone
<1> QED BY <1>1, <1>2

\* A change that is new adds one to what its request has stored.
LEMMA StoredGrows ==
    ASSUME NEW r \in Request, IsFiniteSet(Stored(r)),
           NEW h, h \notin history, h.req = r, history' = history \cup {h}
    PROVE  /\ IsFiniteSet(Stored(r)')
           /\ Cardinality(Stored(r)) \in Nat
           /\ Cardinality(Stored(r)') = Cardinality(Stored(r)) + 1
<1>1. Stored(r)' = Stored(r) \cup {h} /\ h \notin Stored(r)
  BY DEF Stored
<1> QED BY <1>1, FS_AddElement, FS_CardinalityType

\* A request that is not an Import, or not one any more, owes nothing: its
\* step keeps the counts exact whatever it stores.
LEMMA NoImportExact ==
    ASSUME IndInv, ImportsExact, NEW r \in Request, TableStep(r),
           outcome'[r] # "imported", pc'[r] # "import", tally'[r] = tally[r]
    PROVE  ImportExact(r)'
<1>1. IsFiniteSet(Stored(r)')
  <2>1. CASE history' = history
    BY <2>1 DEF Stored, ImportsExact, ImportExact
  <2>2. ASSUME NEW h, history' = history \cup {h}
        PROVE  IsFiniteSet(Stored(r)')
    <3>1. Stored(r)' \subseteq Stored(r) \cup {h}
      BY <2>2 DEF Stored
    <3>2. IsFiniteSet(Stored(r) \cup {h})
      BY FS_AddElement DEF ImportsExact, ImportExact
    <3> QED BY <3>1, <3>2, FS_Subset
  <2> QED BY <2>1, <2>2 DEF TableStep, WriteOf, RemovalOf, Commit
<1> QED BY <1>1 DEF ImportsExact, ImportExact

\* What a step may do to the history, in the terms of Alone.
LEMMA TableStepAlone ==
    ASSUME IndInv, NEW r \in Request, TableStep(r), Moves(r), faulted \subseteq faulted'
    PROVE  Alone(r)
<1>1. history \subseteq history' /\ \A h \in history' \ history : h.req = r
  BY TableStepKeepsTypes DEF IndInv
<1> QED BY <1>1 DEF Moves, Alone, IndInv, TypeOK

\* Create, Find, UpdateWrite, DeleteWrite and DbError count nothing.
LEMMA OthersCountNothing ==
    ASSUME IndInv, ImportsExact, NEW r \in Request,
           \/ \E u \in User, t \in Title : Create(r, u, t)
           \/ \E u \in User, id \in Id : UpdateFind(r, u, id) \/ DeleteFind(r, u, id)
           \/ \E t \in Title : UpdateWrite(r, t)
           \/ DeleteWrite(r)
           \/ DbError(r)
    PROVE  ImportsExact'
<1> USE DEF Goto, Answer, Finish, Acknowledged, Fault
<1>1. /\ pc[r] \in {"idle", "update", "delete"}
      /\ outcome[r] = "none"
  BY DEF Create, UpdateFind, DeleteFind, Find, UpdateWrite, DeleteWrite, DbError,
         IndInv, RequestInv, RequestsInStep, InStep
<1>2. /\ tally' = tally
      /\ \A q \in Request \ {r} : pc'[q] = pc[q] /\ outcome'[q] = outcome[q]
      /\ faulted \subseteq faulted'
      /\ outcome'[r] # "imported"
      /\ pc'[r] # "import"
  <2>1. CASE \E u \in User, t \in Title : Create(r, u, t)
    BY <2>1 DEF Create, IndInv, TypeOK
  <2>2. CASE \E u \in User, id \in Id : UpdateFind(r, u, id) \/ DeleteFind(r, u, id)
    BY <2>2, <1>1 DEF UpdateFind, DeleteFind, Find, IndInv, TypeOK
  <2>3. CASE \E t \in Title : UpdateWrite(r, t)
    BY <2>3 DEF UpdateWrite, UpdateApply, UpdateRefused, IndInv, TypeOK
  <2>4. CASE DeleteWrite(r)
    BY <2>4 DEF DeleteWrite, IndInv, TypeOK
  <2>5. CASE DbError(r)
    BY <2>5 DEF DbError, IndInv, TypeOK
  <2> QED BY <2>1, <2>2, <2>3, <2>4, <2>5
<1>3. TableStep(r)
  <2>1. Runs(r)
    BY DEF Runs, Arrive, Step
  <2> QED BY <2>1, RunIsTableStep
<1> QED BY <1>2, <1>3, NoImportExact, OthersExact, TableStepKeepsTypes DEF Alone, IndInv

\* An Import begins with nothing stored and nothing counted.
LEMMA ImportBeginExact ==
    ASSUME IndInv, ImportsExact, NEW r \in Request, NEW u \in User,
           NEW n \in 0..MaxItems, ImportBegin(r, u, n)
    PROVE  ImportsExact'
<1> DEFINE t == [total |-> n, imported |-> 0, errors |-> 0]
<1>1. /\ pc[r] = "idle"
      /\ tally' = [tally EXCEPT ![r] = t]
      /\ outcome' = [outcome EXCEPT ![r] = "imported"]
      /\ pc' = [pc EXCEPT ![r] = IF ItemsLeft(t) > 0 THEN "import" ELSE "done"]
      /\ UNCHANGED <<history, faulted>>
  BY DEF ImportBegin, AfterItem, Goto, Answer
<1>2. Alone(r)
  BY <1>1 DEF Alone, IndInv, TypeOK
<1>3. Stored(r)' = {} /\ Stored(r) = {}
  BY <1>1 DEF Stored, IndInv, RequestInv, RequestsInStep, InStep
<1>4. ItemsLeft(t) = n /\ n >= 0 /\ t.imported = 0 /\ t.errors = 0 /\ Accounted(t) = 0
  BY NoteAssumption DEF ItemsLeft, Accounted
<1>5. /\ tally'[r] = t
      /\ outcome'[r] = "imported"
      /\ pc'[r] = IF n > 0 THEN "import" ELSE "done"
  BY <1>1, <1>4 DEF IndInv, TypeOK
<1>6. ImportExact(r)'
  <2> HIDE DEF t
  <2> QED BY <1>3, <1>4, <1>5, FS_EmptySet DEF ImportExact
<1> QED BY <1>2, <1>6, OthersExact

\* An item is counted as it was stored, or as an error when its reply was
\* lost.
LEMMA ImportItemExact ==
    ASSUME IndInv, ImportsExact, NEW r \in Request, NEW x \in Title, ImportItem(r, x)
    PROVE  ImportsExact'
<1> DEFINE good == Counted(tally[r])
           bad  == Failed(tally[r])
<1>1. /\ pc[r] = "import"
      /\ outcome' = outcome
      /\ outcome[r] = "imported"
      /\ tally[r] \in Tally
      /\ caller[r] \in User
  BY DEF ImportItem, IndInv, RequestInv, RequestsInStep, InStep, TypeOK
<1>2. /\ IsFiniteSet(Stored(r))
      /\ Cardinality(Stored(r)) \in Nat
      /\ ItemsLeft(tally[r]) > 0
      /\ tally[r].imported <= Cardinality(Stored(r))
      /\ Cardinality(Stored(r)) <= Accounted(tally[r])
      /\ r \notin faulted => tally[r].errors = 0
  BY <1>1, FS_CardinalityType DEF ImportsExact, ImportExact
<1>3. /\ good \in Tally
      /\ good.imported = tally[r].imported + 1
      /\ good.errors = tally[r].errors
      /\ ItemsLeft(good) >= 0
      /\ Accounted(good) = Accounted(tally[r]) + 1
  BY <1>1, <1>2 DEF Counted, Tally, ItemsLeft, Accounted
<1>4. /\ bad \in Tally
      /\ bad.imported = tally[r].imported
      /\ bad.errors = tally[r].errors + 1
      /\ ItemsLeft(bad) >= 0
      /\ Accounted(bad) = Accounted(tally[r]) + 1
  BY <1>1, <1>2 DEF Failed, Tally, ItemsLeft, Accounted
<1>5. Accounted(tally[r]) \in Nat /\ tally[r].imported \in Nat
  BY <1>1 DEF Accounted, Tally
<1> HIDE DEF good, bad
<1>6. ASSUME NEW id \in Id, Upsert(r, caller[r], x, id)
      PROVE  /\ IsFiniteSet(Stored(r)')
             /\ Cardinality(Stored(r)') = Cardinality(Stored(r)) + 1
             /\ history \subseteq history'
             /\ \A h \in history' \ history : h.req = r
  <2>1. WriteOf(r, "created", caller[r], x, id)
    BY <1>1, <1>6, UpsertIsWrite DEF IndInv
  <2> DEFINE h == Change(r, "created", id, NextVersion(id), x)
  <2>2. h \notin history
    BY <1>1, <2>1, WriteIsNew DEF IndInv
  <2>3. history' = history \cup {h} /\ h.req = r
    BY <2>1 DEF WriteOf, Commit, Change
  <2> HIDE DEF h
  <2> QED BY <1>2, <2>2, <2>3, StoredGrows
<1>7. CASE \E id \in Id : /\ Upsert(r, caller[r], x, id)
                          /\ Acknowledged(r, Created(r, x, id))
                          /\ tally' = [tally EXCEPT ![r] = good]
  <2>1. tally'[r] = good /\ pc'[r] = "publish" /\ faulted' = faulted
    BY <1>7 DEF Acknowledged, Goto, IndInv, TypeOK
  <2>2. Alone(r)
    BY <1>1, <1>6, <1>7, <2>1 DEF Acknowledged, Goto, Alone, IndInv, TypeOK
  <2>3. ImportExact(r)'
    BY <1>1, <1>2, <1>3, <1>5, <1>6, <1>7, <2>1 DEF ImportExact
  <2> QED BY <2>2, <2>3, OthersExact
<1>8. ASSUME tally' = [tally EXCEPT ![r] = bad], AfterItem(r, bad), Fault(r, "db"),
             \/ history' = history
             \/ \E id \in Id : Upsert(r, caller[r], x, id)
      PROVE  ImportsExact'
  <2>1. /\ tally'[r] = bad
        /\ pc'[r] = IF ItemsLeft(bad) > 0 THEN "import" ELSE "done"
        /\ r \in faulted' /\ faulted \subseteq faulted'
    BY <1>8 DEF AfterItem, Goto, Fault, IndInv, TypeOK
  <2>2. /\ IsFiniteSet(Stored(r)')
        /\ Cardinality(Stored(r)') \in {Cardinality(Stored(r)), Cardinality(Stored(r)) + 1}
        /\ history \subseteq history'
        /\ \A h \in history' \ history : h.req = r
    BY <1>2, <1>6, <1>8 DEF Stored
  <2>3. Alone(r)
    BY <1>1, <1>8, <2>1, <2>2 DEF AfterItem, Goto, Alone, IndInv, TypeOK
  <2>4. ItemsLeft(bad) \in Int
    BY <1>4 DEF ItemsLeft, Tally
  <2>5. ImportExact(r)'
    BY <1>1, <1>2, <1>4, <1>5, <2>1, <2>2, <2>4 DEF ImportExact
  <2> QED BY <2>3, <2>5, OthersExact
<1> QED BY <1>7, <1>8 DEF ImportItem, good, bad

\* Publishing counts nothing; it ends the Import when no item is left.
LEMMA PublishExact ==
    ASSUME IndInv, ImportsExact, NEW r \in Request, Publish(r)
    PROVE  ImportsExact'
<1>1. /\ pc' = [pc EXCEPT ![r] = IF ItemsLeft(tally[r]) > 0 THEN "import" ELSE "done"]
      /\ UNCHANGED <<tally, outcome, history>>
      /\ faulted \subseteq faulted'
  BY DEF Publish, AfterItem, Goto, Fault
<1>2. Alone(r)
  BY <1>1 DEF Alone, IndInv, TypeOK
<1>3. ItemsLeft(tally[r]) \in Int
  BY DEF ItemsLeft, IndInv, TypeOK, Tally
<1>4. pc'[r] = IF ItemsLeft(tally[r]) > 0 THEN "import" ELSE "done"
  BY <1>1 DEF IndInv, TypeOK
<1>5. Stored(r)' = Stored(r)
  BY <1>1 DEF Stored
<1>6. ImportExact(r)'
  BY <1>1, <1>3, <1>4, <1>5 DEF ImportsExact, ImportExact
<1> QED BY <1>2, <1>6, OthersExact

\* A crash ends the Imports in flight, which then answer nothing.
LEMMA CrashExact ==
    ASSUME IndInv, ImportsExact, Crash
    PROVE  ImportsExact'
<1>1. /\ faulted' = faulted \cup InFlight
      /\ pc' = [r \in Request |-> IF r \in InFlight THEN "done" ELSE pc[r]]
      /\ outcome' = [r \in Request |-> IF r \in InFlight THEN "crashed" ELSE outcome[r]]
      /\ UNCHANGED <<tally, history>>
  BY DEF Crash
<1> SUFFICES ASSUME NEW q \in Request PROVE ImportExact(q)'
  BY DEF ImportsExact
<1>2. Stored(q)' = Stored(q)
  BY <1>1 DEF Stored
<1>3. ImportExact(q)
  BY DEF ImportsExact
<1> QED BY <1>1, <1>2, <1>3 DEF ImportExact

LEMMA ImportsStayExact ==
    ASSUME IndInv, ImportsExact, [Next]_vars
    PROVE  ImportsExact'
<1>1. ASSUME NEW r \in Request, NEW u \in User, Arrive(r, u)
      PROVE  ImportsExact'
  BY <1>1, OthersCountNothing, ImportBeginExact DEF Arrive
<1>2. ASSUME NEW r \in Request, Step(r)
      PROVE  ImportsExact'
  BY <1>2, OthersCountNothing, ImportItemExact, PublishExact DEF Step
<1>3. ASSUME NEW r \in Request, DbError(r)
      PROVE  ImportsExact'
  BY <1>3, OthersCountNothing
<1>4. CASE UNCHANGED vars
  BY <1>4 DEF vars, ImportsExact, ImportExact, Stored
<1> QED BY <1>1, <1>2, <1>3, <1>4, CrashExact DEF Next

\* Whatever the reply to an Import counts as imported was stored, nothing was
\* stored twice, and without a failure everything it was sent was stored: the
\* count is of replies received, so it may only err by the replies lost.
THEOREM ImportsCounted == Spec => []ImportCounts
<1>1. Init => ImportsExact
  <2> SUFFICES ASSUME Init, NEW r \in Request PROVE ImportExact(r)
    BY DEF ImportsExact
  <2>1. Stored(r) = {} /\ ItemsLeft(tally[r]) = 0
    BY DEF Init, Stored, ItemsLeft
  <2> QED BY <2>1, FS_EmptySet DEF Init, ImportExact
<1>2. IndInv /\ ImportsExact /\ [Next]_vars => ImportsExact'
  BY ImportsStayExact
<1>3. IndInv /\ ImportsExact => ImportCounts
  <2> SUFFICES ASSUME IndInv, ImportsExact, NEW r \in Request,
                      outcome[r] = "imported", pc[r] = "done"
               PROVE  /\ tally[r].imported <= Cardinality(Stored(r))
                      /\ Cardinality(Stored(r)) <= tally[r].total
                      /\ r \notin faulted => Cardinality(Stored(r)) = tally[r].total
    BY DEF ImportCounts, Stored
  <2> DEFINE stored == Cardinality(Stored(r))
             n == tally[r].total
             i == tally[r].imported
             e == tally[r].errors
  <2>1. stored \in Nat
    BY FS_CardinalityType DEF ImportsExact, ImportExact
  <2>2. n \in Nat /\ i \in Nat /\ e \in Nat
    BY DEF IndInv, TypeOK, Tally
  <2>3. n - i - e = 0 /\ i <= stored /\ stored <= i + e /\ (r \notin faulted => e = 0)
    BY DEF ImportsExact, ImportExact, ItemsLeft, Accounted
  <2> HIDE DEF stored, n, i, e
  <2>4. stored <= n
    BY <2>1, <2>2, <2>3
  <2>5. r \notin faulted => stored = n
    BY <2>1, <2>2, <2>3
  <2> QED BY <2>3, <2>4, <2>5 DEF stored, n, i, e
<1> QED BY <1>1, <1>2, <1>3, Invariance, PTL DEF Spec
=============================================================================
