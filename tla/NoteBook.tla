------------------------------ MODULE NoteBook ------------------------------
(***************************************************************************)
(* What the note service promises its callers: a table in which each       *)
(* request takes effect at one instant or not at all.  An edit replaces    *)
(* the note it names by its successor; there is no moment at which a       *)
(* request holds a note it has read and not yet written.                   *)
(***************************************************************************)
EXTENDS Integers

CONSTANTS Request, User, Title, MaxNotes, None

VARIABLES
    row,        \* the note stored under each id, or None
    lastId,     \* the last id given to a note
    outcome     \* what each request has been, or will be, told

vars == <<row, lastId, outcome>>

Id == 1..MaxNotes

Init ==
    /\ row = [id \in Id |-> None]
    /\ lastId = 0
    /\ outcome = [r \in Request |-> "none"]

Owns(u, id) == row[id] # None /\ row[id].user = u

Holds(id, u, t) == Owns(u, id) /\ row[id].title = t

Told(r, o) == outcome' = [outcome EXCEPT ![r] = o]

\* Request r is unanswered; its change takes effect now and it is told so, or
\* that something failed.
Effective(r) == outcome[r] = "none" /\ \E o \in {"ok", "error"} : Told(r, o)

\* Create, or one item of an import: the caller's note of that title advances
\* by one version, or a new note is numbered and stored.
Put(r, u, t) ==
    /\ Effective(r) \/ (outcome[r] = "imported" /\ UNCHANGED outcome)
    /\ \/ \E id \in Id :
             /\ Holds(id, u, t)
             /\ row' = [row EXCEPT ![id] =
                   [user |-> u, title |-> t, version |-> row[id].version + 1]]
             /\ UNCHANGED lastId
       \/ /\ lastId < MaxNotes
          /\ \A id \in Id : ~Holds(id, u, t)
          /\ lastId' = lastId + 1
          /\ row' = [row EXCEPT ![lastId + 1] =
                [user |-> u, title |-> t, version |-> 0]]

\* Update: the caller's note takes a title none of the caller's other notes has.
Edit(r, u, t, id) ==
    /\ Effective(r)
    /\ Owns(u, id)
    /\ \A other \in Id \ {id} : ~Holds(other, u, t)
    /\ row' = [row EXCEPT ![id] =
          [user |-> u, title |-> t, version |-> row[id].version + 1]]
    /\ UNCHANGED lastId

\* Delete: the caller's note is gone, and its id with it.
Remove(r, u, id) ==
    /\ Effective(r)
    /\ Owns(u, id)
    /\ row' = [row EXCEPT ![id] = None]
    /\ UNCHANGED lastId

\* A request that changes nothing; an import says so before its first item.
Decline(r) ==
    /\ outcome[r] = "none"
    /\ \E o \in {"notFound", "conflict", "error", "imported"} : Told(r, o)
    /\ UNCHANGED <<row, lastId>>

\* The service dies: the requests in R are never answered.
Lose(R) ==
    /\ outcome' = [r \in Request |-> IF r \in R THEN "crashed" ELSE outcome[r]]
    /\ UNCHANGED <<row, lastId>>

Next ==
    \/ \E r \in Request, u \in User :
          \/ \E t \in Title : Put(r, u, t) \/ \E id \in Id : Edit(r, u, t, id)
          \/ \E id \in Id : Remove(r, u, id)
    \/ \E r \in Request : Decline(r)
    \/ \E R \in SUBSET Request : Lose(R)

Spec == Init /\ [][Next]_vars
=============================================================================
