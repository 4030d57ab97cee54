---------------------------- MODULE NoteService ----------------------------
(***************************************************************************)
(* The note service: the requests that write notes (Create, Update,        *)
(* Delete, Import), the PostgreSQL table they share and the sync-events    *)
(* they publish.  One member of Request is one HTTP request, served once   *)
(* by its own goroutine; every database statement and every publish is a   *)
(* step of its own, so requests interleave wherever the code awaits.       *)
(*                                                                         *)
(* The content of a note is not kept: a row's version names the write that *)
(* stored its content.  Note ids are numbered without the gaps a BIGSERIAL *)
(* leaves when an INSERT turns into an UPDATE or fails; only their         *)
(* distinctness matters.                                                   *)
(*                                                                         *)
(* A definition X_... after a "Slip:" comment is what X would be with the  *)
(* slip that the comment names; nothing uses it but the sensitivity checks *)
(* listed in PROJECT.json, each of which puts it in the place of X.        *)
(***************************************************************************)
EXTENDS Integers, FiniteSets

CONSTANTS
    Request,    \* the requests served in a behaviour
    User,       \* the authenticated callers (the "sub" of the JWT)
    Title,      \* note titles
    MaxNotes,   \* bound: how many ids the table's sequence hands out
    MaxItems,   \* bound: the longest list given to Import
    Faults,     \* which of "db", "kafka" and "crash" may go wrong
    None        \* no row, no caller, no note read, nothing to publish

Id == 1..MaxNotes

Row    == [user : User, title : Title, version : Nat]
Seen   == [id : Id, title : Title, version : Nat]
Action == {"created", "updated", "deleted"}
Event  == [req : Request, action : Action, id : Id, version : Nat, title : Title]
Tally  == [total : Nat, imported : Nat, errors : Nat]

ASSUME NoteAssumption ==
    /\ MaxNotes \in Nat
    /\ MaxItems \in Nat
    /\ Faults \subseteq {"db", "kafka", "crash"}
    /\ None \notin User \cup Row \cup Seen \cup Event

VARIABLES
    row,        \* the notes table: row[id], or None when there is no such row
    lastId,     \* the last id handed out by the table's sequence
    pc,         \* the statement at which each request is about to run
    caller,     \* the user who made the request
    seen,       \* what FindByID returned to an Update or a Delete
    tally,      \* the ImportResult counted so far
    outbox,     \* the event a request has yet to publish
    outcome,    \* what the request will answer
    events,     \* the events on the sync-events topic
    history,    \* ghost: every change the table has committed
    faulted     \* ghost: the requests hit by a database, Kafka or process failure

vars == <<row, lastId, pc, caller, seen, tally, outbox, outcome, events,
          history, faulted>>

Init ==
    /\ row     = [id \in Id |-> None]
    /\ lastId  = 0
    /\ pc      = [r \in Request |-> "idle"]
    /\ caller  = [r \in Request |-> None]
    /\ seen    = [r \in Request |-> None]
    /\ tally   = [r \in Request |-> [total |-> 0, imported |-> 0, errors |-> 0]]
    /\ outbox  = [r \in Request |-> None]
    /\ outcome = [r \in Request |-> "none"]
    /\ events  = {}
    /\ history = {}
    /\ faulted = {}

-----------------------------------------------------------------------------
(* The table.                                                              *)

Live == {id \in Id : row[id] # None}

\* The rows that hold title t for user u: at most one, by uk_title_user.
Titled(u, t) == {id \in Live : row[id].user = u /\ row[id].title = t}

Change(r, a, id, v, t) ==
    [req |-> r, action |-> a, id |-> id, version |-> v, title |-> t]

\* A statement commits: it leaves row n at id and is recorded in the history.
Commit(id, n, change) ==
    /\ row' = [row EXCEPT ![id] = n]
    /\ history' = history \cup {change}

\* Slip: an upsert of a note that is there leaves its version.
NextVersion_Same(id) == IF id \in Live THEN row[id].version ELSE 0

NextVersion(id) == IF id \in Live THEN row[id].version + 1 ELSE 0

Created(r, t, id) == Change(r, "created", id, NextVersion(id), t)

\* Slip: a new note takes the first id that is free, not the sequence's next.
Upsert_FreeId(r, u, t, id) ==
    /\ \/ /\ Titled(u, t) = {}
          /\ id \notin Live /\ \A i \in 1..(id - 1) : i \in Live
          /\ lastId' = IF id > lastId THEN id ELSE lastId
       \/ id \in Titled(u, t) /\ UNCHANGED lastId
    /\ Commit(id, [user |-> u, title |-> t, version |-> NextVersion(id)],
              Created(r, t, id))

\* INSERT ... ON CONFLICT (title, user_id) DO UPDATE, which stores the note
\* as row id in one atomic statement.
Upsert(r, u, t, id) ==
    /\ \/ /\ Titled(u, t) = {}
          /\ lastId < MaxNotes
          /\ id = lastId + 1
          /\ lastId' = id
       \/ /\ id \in Titled(u, t)
          /\ UNCHANGED lastId
    /\ Commit(id, [user |-> u, title |-> t, version |-> NextVersion(id)],
              Created(r, t, id))

-----------------------------------------------------------------------------
(* How a request ends or goes on.                                          *)

Goto(r, l)  == pc' = [pc EXCEPT ![r] = l]

\* What the service returns: its handler makes an internal error of a conflict,
\* as of every error but "not found".
Answer(r, o) == outcome' = [outcome EXCEPT ![r] = o]

\* The request answers o and publishes nothing.
Finish(r, o) ==
    /\ Goto(r, "done")
    /\ Answer(r, o)
    /\ UNCHANGED <<outbox, events>>

\* Slip: the request is answered without publishing.
Acknowledged_Mute(r, event) == Goto(r, "done") /\ UNCHANGED <<outbox, events, faulted>>

\* Slip: the event of an update carries the version that was read, not the one
\* RETURNING gives.
Acknowledged_AsRead(r, event) ==
    /\ outbox' = [outbox EXCEPT ![r] =
          IF event.action = "updated" THEN [event EXCEPT !.version = seen[r].version] ELSE event]
    /\ Goto(r, "publish")
    /\ UNCHANGED <<events, faulted>>

\* The database acknowledged a change: the event is next.
Acknowledged(r, event) ==
    /\ outbox' = [outbox EXCEPT ![r] = event]
    /\ Goto(r, "publish")
    /\ UNCHANGED <<events, faulted>>

Fault(r, kind) ==
    /\ kind \in Faults
    /\ faulted' = faulted \cup {r}

ItemsLeft(t) == t.total - t.imported - t.errors

\* Where the request goes once the item at hand is dealt with.
AfterItem(r, t) == Goto(r, IF ItemsLeft(t) > 0 THEN "import" ELSE "done")

-----------------------------------------------------------------------------
(* Create.                                                                 *)

\* Create: the upsert and its reply.  The reply may be lost to a cancelled
\* request context or a broken connection although the row is stored.
Create(r, u, t) ==
    /\ pc[r] = "idle"
    /\ caller' = [caller EXCEPT ![r] = u]
    /\ \E id \in Id :
          /\ Upsert(r, u, t, id)
          /\ \/ /\ Acknowledged(r, Created(r, t, id))
                /\ Answer(r, "ok")
             \/ /\ Fault(r, "db")
                /\ Finish(r, "error")
    /\ UNCHANGED <<seen, tally>>

(* Update: FindByID, then a write conditional on the version found.        *)

\* FindByID followed by the ownership test of Update and Delete.
Find(r, u, id, next) ==
    /\ pc[r] = "idle"
    /\ caller' = [caller EXCEPT ![r] = u]
    /\ IF id \in Live /\ row[id].user = u
       THEN /\ seen' = [seen EXCEPT ![r] =
                  [id |-> id, title |-> row[id].title, version |-> row[id].version]]
            /\ Goto(r, next)
            /\ UNCHANGED <<outbox, outcome, events>>
       ELSE /\ Finish(r, "notFound")
            /\ UNCHANGED seen
    /\ UNCHANGED <<row, lastId, tally, history, faulted>>

UpdateFind(r, u, id) == Find(r, u, id, "update")

\* Slip: the UPDATE does not test the version.
Matches_AnyVersion(r) ==
    seen[r].id \in Live /\ row[seen[r].id].user = caller[r]

\* The WHERE clause of the UPDATE: same id, owner and version.
Matches(r) ==
    /\ seen[r].id \in Live
    /\ row[seen[r].id].user = caller[r]
    /\ row[seen[r].id].version = seen[r].version

UpdateApply(r, t) ==
    LET id     == seen[r].id
        change == Change(r, "updated", id, NextVersion(id), t)
    IN  /\ Matches(r)
        /\ Titled(caller[r], t) \subseteq {id}
        /\ Commit(id, [user |-> row[id].user, title |-> t,
                         version |-> NextVersion(id)], change)
        /\ \/ Acknowledged(r, change) /\ Answer(r, "ok")
           \/ Fault(r, "db") /\ Finish(r, "error")

\* Slips: a taken title is answered as a conflict; a conflict is answered as
\* success.
UpdateRefused_Confused(r, t) ==
    /\ ~Matches(r) \/ ~(Titled(caller[r], t) \subseteq {seen[r].id})
    /\ Finish(r, "conflict")
    /\ UNCHANGED <<row, history, faulted>>

UpdateRefused_Swallowed(r, t) ==
    /\ ~Matches(r)
    /\ Finish(r, "ok")
    /\ UNCHANGED <<row, history, faulted>>

\* No row matches: ErrConflict.  The new title is taken: unique violation.
UpdateRefused(r, t) ==
    /\ \/ ~Matches(r) /\ Finish(r, "conflict")
       \/ /\ Matches(r)
          /\ ~(Titled(caller[r], t) \subseteq {seen[r].id})
          /\ Finish(r, "error")
    /\ UNCHANGED <<row, history, faulted>>

UpdateWrite(r, t) ==
    /\ pc[r] = "update"
    /\ UpdateApply(r, t) \/ UpdateRefused(r, t)
    /\ UNCHANGED <<lastId, caller, seen, tally>>

(* Delete: FindByID, then DELETE WHERE id AND user_id, whatever the version. *)

DeleteFind(r, u, id) == Find(r, u, id, "delete")

\* The event carries the title and version FindByID returned.
DeleteWrite(r) ==
    LET s  == seen[r]
        hit == s.id \in Live /\ row[s.id].user = caller[r]
    IN  /\ pc[r] = "delete"
        /\ \/ /\ hit
              /\ Commit(s.id, None, Change(r, "deleted", s.id, row[s.id].version,
                                           row[s.id].title))
              /\ \/ /\ Acknowledged(r, Change(r, "deleted", s.id, s.version, s.title))
                    /\ Answer(r, "ok")
                 \/ Fault(r, "db") /\ Finish(r, "error")
           \/ /\ ~hit
              /\ Finish(r, "notFound")
              /\ UNCHANGED <<row, history, faulted>>
        /\ UNCHANGED <<lastId, caller, seen, tally>>

(* Import: Create for each item, counting; one reply for the whole list.   *)

ImportBegin(r, u, n) ==
    LET t == [total |-> n, imported |-> 0, errors |-> 0]
    IN  /\ pc[r] = "idle"
        /\ caller' = [caller EXCEPT ![r] = u]
        /\ tally' = [tally EXCEPT ![r] = t]
        /\ Answer(r, "imported")
        /\ AfterItem(r, t)
        /\ UNCHANGED <<row, lastId, seen, outbox, events, history, faulted>>

Counted(t) == [t EXCEPT !.imported = @ + 1]

\* Slip: an item that failed counts as imported.
Failed_AsImported(t) == Counted(t)

Failed(t) == [t EXCEPT !.errors = @ + 1]

\* One item: stored and acknowledged, stored with the reply lost, or refused
\* by the database.  An upsert raises no unique violation, so nothing is
\* ever counted as skipped.
ImportItem(r, t) ==
    LET good == Counted(tally[r])
        bad  == Failed(tally[r])
    IN  /\ pc[r] = "import"
        /\ \/ \E id \in Id :
                 /\ Upsert(r, caller[r], t, id)
                 /\ \/ /\ Acknowledged(r, Created(r, t, id))
                       /\ tally' = [tally EXCEPT ![r] = good]
                    \/ /\ Fault(r, "db")
                       /\ tally' = [tally EXCEPT ![r] = bad]
                       /\ AfterItem(r, bad)
                       /\ UNCHANGED <<outbox, events>>
           \/ /\ Fault(r, "db")
              /\ tally' = [tally EXCEPT ![r] = bad]
              /\ AfterItem(r, bad)
              /\ UNCHANGED <<row, lastId, outbox, events, history>>
        /\ UNCHANGED <<caller, seen, outcome>>

-----------------------------------------------------------------------------
(* Publishing and failures.                                                *)

\* publishEvent, and the return of the handler or of Import's loop to the
\* next item.  A publish that fails is only logged.
Publish(r) ==
    /\ pc[r] = "publish"
    /\ \/ events' = events \cup {outbox[r]} /\ UNCHANGED faulted
       \/ Fault(r, "kafka") /\ UNCHANGED events
    /\ outbox' = [outbox EXCEPT ![r] = None]
    /\ AfterItem(r, tally[r])
    /\ UNCHANGED <<row, lastId, caller, seen, tally, outcome, history>>

\* A statement fails before it takes effect, or encryption does.
DbError(r) ==
    /\ pc[r] \in {"idle", "update", "delete"}
    /\ Fault(r, "db")
    /\ Finish(r, "error")
    /\ UNCHANGED <<row, lastId, caller, seen, tally, history>>

InFlight == {r \in Request : pc[r] \notin {"idle", "done"}}

\* The process dies and restarts: the requests in flight are gone, with the
\* events they had yet to publish; the table and the topic stay.
Crash ==
    /\ "crash" \in Faults
    /\ InFlight # {}
    /\ faulted' = faulted \cup InFlight
    /\ pc' = [r \in Request |-> IF r \in InFlight THEN "done" ELSE pc[r]]
    /\ outcome' = [r \in Request |-> IF r \in InFlight THEN "crashed" ELSE outcome[r]]
    /\ outbox' = [r \in Request |-> None]
    /\ UNCHANGED <<row, lastId, caller, seen, tally, events, history>>

\* What a request in flight does next.
Step(r) ==
    \/ \E t \in Title : UpdateWrite(r, t) \/ ImportItem(r, t)
    \/ DeleteWrite(r)
    \/ Publish(r)

Arrive(r, u) ==
    \/ \E t \in Title : Create(r, u, t)
    \/ \E id \in Id : UpdateFind(r, u, id) \/ DeleteFind(r, u, id)
    \/ \E n \in 0..MaxItems : ImportBegin(r, u, n)

Next ==
    \/ \E r \in Request : \/ \E u \in User : Arrive(r, u)
                          \/ Step(r)
                          \/ DbError(r)
    \/ Crash

\* The goroutine of a request runs, and the database and Kafka answer or fail.
Fairness == \A r \in Request : WF_vars(Step(r))

Spec == Init /\ [][Next]_vars

FairSpec == Spec /\ Fairness
-----------------------------------------------------------------------------
(* Properties.                                                             *)

TypeOK ==
    /\ row \in [Id -> Row \cup {None}]
    /\ lastId \in 0..MaxNotes
    /\ pc \in [Request -> {"idle", "update", "delete", "import", "publish", "done"}]
    /\ caller \in [Request -> User \cup {None}]
    /\ seen \in [Request -> Seen \cup {None}]
    /\ tally \in [Request -> Tally]
    /\ outbox \in [Request -> Event \cup {None}]
    /\ outcome \in [Request -> {"none", "ok", "notFound", "conflict", "error",
                                "imported", "crashed"}]
    /\ events \subseteq Event
    /\ history \subseteq Event
    /\ faulted \subseteq Request

Writes == {h \in history : h.action # "deleted"}

\* No caller ever has two notes with the same title, whatever Creates,
\* Imports and renaming Updates run at the same time.
UniqueTitles ==
    \A i, j \in Live : row[i].user = row[j].user /\ row[i].title = row[j].title => i = j

\* An Update advances exactly the version it read: nobody else's write came
\* between its FindByID and its UPDATE.
UpdatesWhatWasRead ==
    \A h \in history :
        h.action = "updated" => /\ h.id = seen[h.req].id
                                /\ h.version = seen[h.req].version + 1

\* No two writes of one note, by whichever requests, carry the same version.
StampsUnique ==
    \A g, h \in Writes : g.id = h.id /\ g.version = h.version => g = h

\* No committed write is silently overwritten by a concurrent one.
NoLostUpdate == UpdatesWhatWasRead /\ StampsUnique

\* The version of a note counts its writes: every version up to the current
\* one was committed by some request.
VersionsCountWrites ==
    \A id \in Live : \A v \in 0..row[id].version :
        \E h \in Writes : h.id = id /\ h.version = v

\* A request is told "conflict" only when another request really changed or
\* removed the note after this one had read it.
ConflictJustified ==
    \A r \in Request : outcome[r] = "conflict" =>
        \E h \in history : /\ h.req # r
                           /\ h.id = seen[r].id
                           /\ h.version > seen[r].version \/ h.action = "deleted"

\* An id that has left the table never returns to it and is removed by one
\* request only, so a client that has applied the removal is never misled.
RemovedOnce ==
    \A g, h \in history : g.action = "deleted" /\ h.id = g.id =>
        /\ h.id \notin Live
        /\ h.action = "deleted" => h = g
        /\ h.version <= g.version

\* An event tells of change h: same request, note and kind of change, and for
\* a write the version and title committed.
Tells(e, h) ==
    /\ e.req = h.req /\ e.action = h.action /\ e.id = h.id
    /\ h.action # "deleted" => e.version = h.version /\ e.title = h.title

\* Nothing is announced that was not committed first, and every committed
\* change is announced, waits in its request's outbox, or was made by a
\* request that met a failure.
EventsTellHistory ==
    /\ \A e \in events : \E h \in history : Tells(e, h)
    /\ \A h \in history : \/ \E e \in events : Tells(e, h)
                          \/ outbox[h.req] # None /\ Tells(outbox[h.req], h)
                          \/ h.req \in faulted

\* What a client that keeps, per note, the event with the highest version and
\* lets a removal win believes of note id.
Told(id) == {e \in events : e.id = id}

BelievedGone(id) == \E e \in Told(id) : e.action = "deleted"

\* Once no request is in flight and none met a failure, such a client agrees
\* with the table, whatever the order in which the events were published.
ReplicaAgrees ==
    (InFlight = {} /\ faulted = {}) =>
        \A id \in 1..lastId :
            IF id \in Live
            THEN /\ ~BelievedGone(id)
                 /\ \E e \in Told(id) :
                       /\ e.version = row[id].version
                       /\ e.title = row[id].title
                       /\ \A f \in Told(id) : f.version <= e.version
            ELSE BelievedGone(id)

\* The reply to an Import counts what was stored: each imported item is a
\* committed write of that request, and a write it does not count was reported
\* as an error because its acknowledgement was lost.
ImportCounts ==
    \A r \in Request : outcome[r] = "imported" /\ pc[r] = "done" =>
        LET stored == Cardinality({h \in history : h.req = r})
        IN  /\ tally[r].imported <= stored
            /\ stored <= tally[r].total
            /\ r \notin faulted => stored = tally[r].total

\* A row is changed or removed only by a request of the user who owns it, and
\* never passes to another user.
OwnersOnly ==
    [][\A id \in Live : row'[id] # row[id] =>
          \E h \in history' \ history :
             /\ h.id = id
             /\ caller'[h.req] = row[id].user
             /\ row'[id] # None => row'[id].user = row[id].user]_vars

\* The requests implement NoteBook, where each takes effect at one instant.
Book == INSTANCE NoteBook

ImplementsNoteBook == Book!Spec

\* Whatever a request has changed is eventually announced in full, unless the
\* request met a failure.
ChangesAnnounced ==
    \A r \in Request :
        (\E h \in history : h.req = r)
            ~> \/ r \in faulted
               \/ \A h \in history : h.req = r => \E e \in events : Tells(e, h)
-----------------------------------------------------------------------------
(* The inductive invariant behind the safety properties.                   *)

\* Every id in the table or in the history came from the sequence, and one
\* that is no longer in the table was removed by a committed change.
IdsAllocated ==
    /\ \A id \in Live : id <= lastId
    /\ \A h \in history : h.id <= lastId
    /\ \A id \in 1..lastId : id \in Live \/ \E h \in history : h.id = id /\ h.action = "deleted"

\* A row is at least as new as every write of it.
WritesBelowRow == \A h \in Writes : h.id \in Live => h.version <= row[h.id].version

\* The note a request has found keeps its owner and never goes back to an
\* older version: what the WHERE clauses test is all that can have changed.
SeenOwned(r) ==
    seen[r] # None =>
        /\ caller[r] \in User
        /\ seen[r].id <= lastId
        /\ seen[r].id \in Live => /\ row[seen[r].id].user = caller[r]
                                  /\ seen[r].version <= row[seen[r].id].version

SeenStillOwned == \A r \in Request : SeenOwned(r)

\* A request is where its pc says: it has read a note before it writes it, has
\* changed nothing before its write, and holds an event, about a change of its
\* own, exactly while it publishes.
InStep(r) ==
    /\ pc[r] = "idle" => seen[r] = None
    /\ pc[r] = "import" => caller[r] \in User /\ outcome[r] = "imported"
    /\ pc[r] \in {"update", "delete"} => seen[r] # None
    /\ pc[r] \in {"idle", "update", "delete"} => outcome[r] = "none"
    /\ outcome[r] = "conflict" => seen[r] # None
    /\ ItemsLeft(tally[r]) > 0 => caller[r] \in User /\ outcome[r] \in {"imported", "crashed"}
    /\ pc[r] = "publish" => outcome[r] # "crashed"
    /\ (pc[r] = "publish") <=> (outbox[r] # None)
    /\ pc[r] = "publish" => \E h \in history : Tells(outbox[r], h)
    /\ \A h \in history : h.req = r =>
          /\ pc[r] \notin {"idle", "update", "delete"}
          /\ h.action = "updated" => seen[r] # None

RequestsInStep == \A r \in Request : InStep(r)

\* What holds of the table and its history, whoever runs.
TableInv ==
    /\ UniqueTitles
    /\ StampsUnique
    /\ VersionsCountWrites
    /\ RemovedOnce
    /\ IdsAllocated
    /\ WritesBelowRow

\* What holds of the requests relative to the table.
RequestInv ==
    /\ UpdatesWhatWasRead
    /\ ConflictJustified
    /\ EventsTellHistory
    /\ SeenStillOwned
    /\ RequestsInStep

IndInv == TypeOK /\ TableInv /\ RequestInv
=============================================================================
