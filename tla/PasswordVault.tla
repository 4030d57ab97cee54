--------------------------- MODULE PasswordVault ---------------------------
(***************************************************************************)
(* The password service: create (an upsert in a transaction that locks the *)
(* rows it finds), update, delete, import, and the removal of duplicates,  *)
(* each request in the steps at which others may come between: a database  *)
(* statement, or the transaction's commit.                                 *)
(*                                                                         *)
(* A Place is a pair of a name and a website.  The constraint of migration *)
(* 003 allows a user one row per place; UniqueKey says whether it is       *)
(* installed.  Duplicates are looked for by a label put together from the  *)
(* place and the username, which may be the same for two places.  A secret *)
(* is what was encrypted; an unreadable one cannot be decrypted with the   *)
(* key of this process.                                                    *)
(*                                                                         *)
(* Definitions after a "Slip:" comment are plausible mistakes; the checks  *)
(* of sensitivity in PROJECT.json put them in the place of the original.   *)
(***************************************************************************)
EXTENDS Integers, Sequences, FiniteSetsExt

CONSTANTS
    Request, User, Place, Username,
    Secret,         \* what a password row may hold, encrypted
    Unreadable,     \* the secrets that do not decrypt
    Empty,          \* what an unreadable secret reads as
    Label,          \* Label[p][n]: the key of place p and username n
    UniqueKey,      \* whether migration 003 is installed
    Operations,     \* the operations clients use
    InitialTables,  \* the tables the service may find when it starts
    Faults,         \* a subset of {"statement", "answer"}: a statement or commit fails,
                    \* or is made and its answer lost
    MaxId,          \* bound: row ids
    MaxItems,       \* bound: items of an import
    NoRow, Free

Id == 1..MaxId
Body == [place : Place, username : Username, secret : Secret \ Unreadable]
Row == [user : User, place : Place, username : Username, secret : Secret]

ASSUME VaultAssumption ==
    /\ Unreadable \subseteq Secret
    /\ Empty \notin Secret
    /\ UniqueKey \in BOOLEAN
    /\ Operations \subseteq {"create", "update", "delete", "import", "dedup"}
    /\ MaxId \in Nat /\ MaxItems \in Nat
    /\ Free \notin Request
    /\ NoRow \notin Row
    /\ InitialTables \subseteq [Id -> Row \cup {NoRow}]

VARIABLES
    rows,       \* the table: rows[i] is a row or NoRow
    seq,        \* the last id given out
    locks,      \* the transaction that locks a row, or Free
    pc, op, user,
    body,       \* what a request writes
    target,     \* the row it is about
    left,       \* items an import has yet to begin
    tally,      \* an import's or removal's counts
    groups,     \* the groups a removal has yet to go through
    rest,       \* the ids left of the group it is at
    kept,       \* the row it keeps of that group, as read
    events,     \* sync-events: what was published
    asked,      \* ghost: every row a request has asked for, or was there before
    stored,     \* ghost: the items or entries a request has stored
    remover     \* ghost: the request that removed a row, or Free

request == <<op, user>>
dedup == <<groups, rest, kept>>
vars == <<rows, seq, locks, pc, request, body, target, left, tally, dedup, events, asked, stored, remover>>

Live == {i \in Id : rows[i] # NoRow}

At(u, p) == {i \in Live : rows[i].user = u /\ rows[i].place = p}

OnePerPlace == \A i, j \in Live : rows[i].user = rows[j].user /\ rows[i].place = rows[j].place => i = j

NoCounts == [imported |-> 0, skipped |-> 0, errors |-> 0, removed |-> 0]

Init ==
    /\ rows \in InitialTables
    /\ UniqueKey => OnePerPlace
    /\ seq = Max(Live \cup {0})
    /\ locks = [i \in Id |-> Free]
    /\ pc = [r \in Request |-> "new"]
    /\ op = [r \in Request |-> "none"]
    /\ user \in [Request -> User]
    /\ body = [r \in Request |-> NoRow]
    /\ target = [r \in Request |-> 0]
    /\ left = [r \in Request |-> 0]
    /\ tally = [r \in Request |-> NoCounts]
    /\ groups = [r \in Request |-> {}]
    /\ rest = [r \in Request |-> {}]
    /\ kept = [r \in Request |-> [id |-> 0, reads |-> Empty]]
    /\ events = {}
    /\ asked = {rows[i] : i \in Live}
    /\ stored = [r \in Request |-> 0]
    /\ remover = [i \in Id |-> Free]

-----------------------------------------------------------------------------
Goto(r, l) == pc' = [pc EXCEPT ![r] = l]

\* What the service reads when it decrypts: nothing, if it cannot.
Seen(s) == IF s \in Unreadable THEN Empty ELSE s

RowOf(u, b) == [user |-> u, place |-> b.place, username |-> b.username, secret |-> b.secret]

Filled(r) == RowOf(user[r], body[r])

\* The request asks for some contents.
Ask(r) ==
    \E b \in Body :
        /\ body' = [body EXCEPT ![r] = b]
        /\ asked' = asked \cup {RowOf(user[r], b)}

Arrive(r) ==
    /\ pc[r] = "new"
    /\ \E o \in Operations, i \in Id, n \in 0..MaxItems :
        /\ op' = [op EXCEPT ![r] = o]
        /\ target' = [target EXCEPT ![r] = IF o \in {"update", "delete"} THEN i ELSE 0]
        /\ left' = [left EXCEPT ![r] = IF o = "import" THEN n ELSE 0]
        /\ CASE o = "create" -> Ask(r) /\ Goto(r, "select")
             [] o = "update" -> Ask(r) /\ Goto(r, "find")
             [] o = "delete" -> UNCHANGED <<body, asked>> /\ Goto(r, "find")
             [] o = "import" -> UNCHANGED <<body, asked>> /\ Goto(r, "next")
             [] o = "dedup"  -> UNCHANGED <<body, asked>> /\ Goto(r, "analyze")
    /\ UNCHANGED <<rows, seq, locks, user, tally, dedup, events, stored, remover>>

\* Slip: the error is dropped, and the request goes on as if it had written.
Refused_Swallowed(r, why) == UNCHANGED tally /\ Goto(r, "publish")

\* Slip: any error counts as a duplicate.
Column_Skipped(why) == "skipped"

\* The count of an import that an error goes to.
Column(why) == IF why = "unique" THEN "skipped" ELSE "errors"

\* A request that failed or was refused: an import counts that and goes on, any
\* other request ends.
Refused(r, why) ==
    IF op[r] = "import"
    THEN /\ tally' = [tally EXCEPT ![r][Column(why)] = @ + 1]
         /\ Goto(r, "next")
    ELSE UNCHANGED tally /\ Goto(r, "done")

\* A write was made, and the request is told; or it is told of an error.
Acknowledged(r) ==
    \/ UNCHANGED tally /\ Goto(r, "publish")
    \/ "answer" \in Faults /\ Refused(r, "error")

-----------------------------------------------------------------------------
(* Create, and each item of an import: Upsert, then the event.             *)

NextItem(r) ==
    /\ pc[r] = "next"
    /\ \/ left[r] = 0 /\ Goto(r, "done") /\ UNCHANGED <<left, body, asked>>
       \/ /\ left[r] > 0
          /\ left' = [left EXCEPT ![r] = @ - 1]
          /\ Ask(r)
          /\ Goto(r, "select")
    /\ UNCHANGED <<rows, seq, locks, request, target, tally, dedup, events, stored, remover>>

\* Slip: SELECT without FOR UPDATE.
LockedBy_Nobody(r, found) == locks

LockedBy(r, found) == [i \in Id |-> IF i \in found THEN r ELSE locks[i]]

\* SELECT ... FOR UPDATE: waits until no other transaction holds a row of that
\* place, then locks all of them, and takes the first returned.
SelectForUpdate(r) ==
    LET found == At(user[r], body[r].place)
    IN  /\ pc[r] = "select"
        /\ \A i \in found : locks[i] = Free
        /\ locks' = LockedBy(r, found)
        /\ \E i \in IF found = {} THEN {0} ELSE found : target' = [target EXCEPT ![r] = i]
        /\ Goto(r, "upsert")
        /\ UNCHANGED <<rows, seq, request, body, left, tally, dedup, events, asked, stored, remover>>

\* Slip: a transaction is not rolled back unless it committed.
Unlocked_Committed(r) ==
    IF pc'[r] = "publish" THEN [i \in Id |-> IF locks[i] = r THEN Free ELSE locks[i]] ELSE locks

Unlocked(r) == [i \in Id |-> IF locks[i] = r THEN Free ELSE locks[i]]

\* A row of that place is there: its password and username are overwritten.
UpsertUpdate(r) ==
    /\ pc[r] = "upsert"
    /\ target[r] # 0
    /\ rows' = [i \in Id |->
          IF i = target[r] /\ i \in Live
          THEN [rows[i] EXCEPT !.secret = body[r].secret, !.username = body[r].username]
          ELSE rows[i]]
    /\ stored' = [stored EXCEPT ![r] = @ + 1]
    /\ Acknowledged(r)
    /\ locks' = Unlocked(r)
    /\ UNCHANGED <<seq, request, body, target, left, dedup, events, asked, remover>>

Insert(r) ==
    /\ seq < MaxId
    /\ seq' = seq + 1
    /\ rows' = [rows EXCEPT ![seq + 1] = Filled(r)]
    /\ target' = [target EXCEPT ![r] = seq + 1]
    /\ stored' = [stored EXCEPT ![r] = @ + 1]
    /\ Acknowledged(r)

\* Slip: the table has no unique constraint.
Taken_Never(r) == FALSE

Taken(r) == UniqueKey /\ At(user[r], body[r].place) # {}

\* None was there: a row is inserted, unless somebody inserted one since and
\* the constraint refuses another.  (The id that a refused insert burns is left
\* out: nothing depends on ids being consecutive.)
UpsertInsert(r) ==
    /\ pc[r] = "upsert"
    /\ target[r] = 0
    /\ IF Taken(r)
       THEN Refused(r, "unique") /\ UNCHANGED <<rows, seq, target, stored>>
       ELSE Insert(r)
    /\ locks' = Unlocked(r)
    /\ UNCHANGED <<request, body, left, dedup, events, asked, remover>>

\* The event goes out after the commit; a failure to publish it is logged, and
\* changes nothing else.
Publish(r) ==
    /\ pc[r] = "publish"
    /\ events' = events \cup {[req |-> r, id |-> target[r],
                               action |-> CASE op[r] = "update" -> "updated"
                                            [] op[r] = "delete" -> "deleted"
                                            [] OTHER -> "created"]}
    /\ IF op[r] = "import"
       THEN tally' = [tally EXCEPT ![r].imported = @ + 1] /\ Goto(r, "next")
       ELSE UNCHANGED tally /\ Goto(r, "done")
    /\ UNCHANGED <<rows, seq, locks, request, body, target, left, dedup, asked, stored, remover>>

-----------------------------------------------------------------------------
(* Update and Delete: the row is read, then written by id.                 *)

Mine(r) == target[r] \in Live /\ rows[target[r]].user = user[r]

Find(r) ==
    /\ pc[r] = "find"
    /\ IF Mine(r) THEN Goto(r, "write") ELSE Goto(r, "done")
    /\ UNCHANGED <<rows, seq, locks, request, body, target, left, tally, dedup, events, asked, stored, remover>>

\* A write waits for the transaction that holds the row.
UpdateWrite(r) ==
    LET i == target[r]
    IN  /\ pc[r] = "write" /\ op[r] = "update"
        /\ locks[i] = Free
        /\ IF /\ Mine(r)
              /\ UniqueKey => At(user[r], body[r].place) \subseteq {i}
           THEN rows' = [rows EXCEPT ![i] = Filled(r)] /\ Acknowledged(r)
           ELSE UNCHANGED rows /\ Refused(r, "not found or unique")
        /\ UNCHANGED <<seq, locks, request, body, target, left, dedup, events, asked, stored, remover>>

DeleteWrite(r) ==
    LET i == target[r]
    IN  /\ pc[r] = "write" /\ op[r] = "delete"
        /\ locks[i] = Free
        /\ IF Mine(r)
           THEN /\ rows' = [rows EXCEPT ![i] = NoRow]
                /\ remover' = [remover EXCEPT ![i] = r]
                /\ Acknowledged(r)
           ELSE UNCHANGED <<rows, remover>> /\ Refused(r, "not found")
        /\ UNCHANGED <<seq, locks, request, body, target, left, dedup, events, asked, stored>>

-----------------------------------------------------------------------------
(* RemoveDuplicates.                                                       *)

LabelOf(i) == Label[rows[i].place][rows[i].username]

\* The user's rows, grouped by label: the groups of more than one.
Duplicates(u) ==
    LET mine == {i \in Live : rows[i].user = u}
    IN  {g \in {{j \in mine : LabelOf(j) = LabelOf(i)} : i \in mine} : Cardinality(g) > 1}

Analyze(r) ==
    /\ pc[r] = "analyze"
    /\ groups' = [groups EXCEPT ![r] = Duplicates(user[r])]
    /\ Goto(r, "group")
    /\ UNCHANGED <<rows, seq, locks, request, body, target, left, tally, rest, kept, events, asked, stored, remover>>

\* The next group in the order of the table: its highest id is read, and kept.
\* The group is given up if that row has gone, or the read fails.
NextGroup(r) ==
    /\ pc[r] = "group"
    /\ \/ groups[r] = {} /\ Goto(r, "done") /\ UNCHANGED dedup
       \/ \E g \in groups[r] :
            LET k == Max(g)
            IN  /\ \A h \in groups[r] : Min(g) <= Min(h)
                /\ groups' = [groups EXCEPT ![r] = @ \ {g}]
                /\ \/ /\ k \in Live
                      /\ kept' = [kept EXCEPT ![r] = [id |-> k, reads |-> Seen(rows[k].secret)]]
                      /\ rest' = [rest EXCEPT ![r] = g \ {k}]
                      /\ Goto(r, "compare")
                   \/ (k \notin Live \/ "statement" \in Faults) /\ UNCHANGED <<kept, rest, pc>>
    /\ UNCHANGED <<rows, seq, locks, request, body, target, left, tally, events, asked, stored, remover>>

\* Slip: duplicates are removed by their label alone.
Copy_ByLabel(r, i) == i \in Live

Copy(r, i) == i \in Live /\ Seen(rows[i].secret) = kept[r].reads

\* The next lower id is read, and left alone if it has gone or reads
\* differently from the one kept, or cannot be read.
Compare(r) ==
    /\ pc[r] = "compare"
    /\ \/ rest[r] = {} /\ Goto(r, "group") /\ UNCHANGED <<rest, target>>
       \/ /\ rest[r] # {}
          /\ LET i == Max(rest[r])
             IN  /\ rest' = [rest EXCEPT ![r] = @ \ {i}]
                 /\ target' = [target EXCEPT ![r] = i]
                 /\ \/ Copy(r, i) /\ Goto(r, "remove")
                    \/ (~Copy(r, i) \/ "statement" \in Faults) /\ UNCHANGED pc
    /\ UNCHANGED <<rows, seq, locks, request, body, left, tally, groups, kept, events, asked, stored, remover>>

\* The row is deleted by its id, whatever it holds by now; nothing is published.
Remove(r) ==
    LET i == target[r]
    IN  /\ pc[r] = "remove"
        /\ locks[i] = Free
        /\ IF Mine(r)
           THEN /\ rows' = [rows EXCEPT ![i] = NoRow]
                /\ remover' = [remover EXCEPT ![i] = r]
                /\ \/ tally' = [tally EXCEPT ![r].removed = @ + 1]
                   \/ "answer" \in Faults /\ UNCHANGED tally
           ELSE UNCHANGED <<rows, remover, tally>>
        /\ Goto(r, "compare")
        /\ UNCHANGED <<seq, locks, request, body, target, left, dedup, events, asked, stored>>

-----------------------------------------------------------------------------
\* A statement or the commit fails, and nothing is written: Upsert rolls back, a
\* removal goes on with the next row.
StatementError(r) ==
    /\ "statement" \in Faults
    /\ \/ pc[r] \in {"select", "upsert", "find", "write"} /\ Refused(r, "error")
       \/ pc[r] = "analyze" /\ Goto(r, "done") /\ UNCHANGED tally
       \/ pc[r] = "remove" /\ Goto(r, "compare") /\ UNCHANGED tally
    /\ locks' = Unlocked(r)
    /\ UNCHANGED <<rows, seq, request, body, target, left, dedup, events, asked, stored, remover>>

Step(r) ==
    \/ NextItem(r) \/ SelectForUpdate(r) \/ UpsertUpdate(r) \/ UpsertInsert(r)
    \/ Publish(r) \/ Find(r) \/ UpdateWrite(r) \/ DeleteWrite(r)
    \/ Analyze(r) \/ NextGroup(r) \/ Compare(r) \/ Remove(r)

Next == \E r \in Request : Arrive(r) \/ Step(r) \/ StatementError(r)

Spec == Init /\ [][Next]_vars

\* A request that has arrived is worked on: by its handler's goroutine, and by
\* the database once no lock is in the way.  No failure is relied on.
Fairness == \A r \in Request : WF_vars(Step(r))

FairSpec == Spec /\ Fairness

-----------------------------------------------------------------------------
(* Properties.                                                             *)

TypeOK ==
    /\ rows \in [Id -> Row \cup {NoRow}]
    /\ seq \in 0..MaxId
    /\ locks \in [Id -> Request \cup {Free}]
    /\ pc \in [Request -> {"new", "next", "select", "upsert", "publish", "find", "write",
                          "analyze", "group", "compare", "remove", "done"}]
    /\ op \in [Request -> Operations \cup {"none"}]
    /\ user \in [Request -> User]
    /\ body \in [Request -> Body \cup {NoRow}]
    /\ target \in [Request -> 0..MaxId]
    /\ left \in [Request -> 0..MaxItems]
    /\ tally \in [Request -> [imported : Nat, skipped : Nat, errors : Nat, removed : Nat]]
    /\ groups \in [Request -> SUBSET SUBSET Id]
    /\ rest \in [Request -> SUBSET Id]
    /\ kept \in [Request -> [id : 0..MaxId, reads : Secret \cup {Empty}]]
    /\ events \subseteq [req : Request, id : Id, action : {"created", "updated", "deleted"}]
    /\ asked \subseteq Row
    /\ stored \in [Request -> Nat]
    /\ remover \in [Id -> Request \cup {Free}]

\* Behind the SELECT of an upsert, which finds nothing to lock where no row is
\* yet, the constraint keeps a user's places apart; and rows are locked only by
\* a request between that SELECT and the end of its transaction.
VaultInv ==
    /\ TypeOK
    /\ OnePerPlace
    /\ \A i \in Id : locks[i] # Free => pc[locks[i]] = "upsert"

\* Whatever creates, updates and deletes race, a row is as one request asked for
\* it: never the place of one and the password of another.
Untorn == \A i \in Live : rows[i] \in asked

\* Whatever deletes, removals and writes race, a deletion is announced only by the
\* request that itself removed the entry, which is not in the table ever again.
DeletedIsGone ==
    \A e \in events : e.action = "deleted" => e.id \notin Live /\ remover[e.id] = e.req

\* Of an import's items each one counted as imported was stored, and one that was
\* stored though its answer was lost is counted among the errors: never as
\* skipped, which tells the user that there was nothing to store.
ItemsCounted ==
    \A r \in Request : op[r] = "import" =>
        LET told == tally[r].imported + IF pc[r] = "publish" THEN 1 ELSE 0
        IN  told <= stored[r] /\ stored[r] <= told + tally[r].errors

\* Every request that arrived is answered: no lock is left behind that others
\* wait for.
RequestsFinish == \A r \in Request : (pc[r] # "new") ~> (pc[r] = "done")

\* When nobody else writes, removals of duplicates, however they overlap and
\* whatever they cannot read, leave a row that reads the same for every row
\* they remove.
LastCopyKept ==
    [][\A i \in Live : rows'[i] = NoRow =>
          \E j \in Live \ {i} : /\ rows'[j] # NoRow
                                /\ rows[j].user = rows[i].user
                                /\ LabelOf(j) = LabelOf(i)
                                /\ Seen(rows[j].secret) = Seen(rows[i].secret)]_vars

\* As the warning of RemoveDuplicates has it: a duplicate whose password
\* differs from that of the row kept is skipped.
RemovesOnlyCopies ==
    [][\A r \in Request : \A i \in Live :
          (pc[r] = "remove" /\ pc'[r] = "compare" /\ rows'[i] = NoRow) =>
              rows[kept[r].id] # NoRow /\ rows[i].secret = rows[kept[r].id].secret]_vars
=============================================================================
