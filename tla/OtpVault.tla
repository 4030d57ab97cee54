------------------------------ MODULE OtpVault ------------------------------
(***************************************************************************)
(* The otp service as a store of OTPs: Create, Update and Delete, the two  *)
(* topics they publish on, and how main stops the service.  A row has no   *)
(* version: Create looks for the name before it inserts, Update writes the *)
(* whole row whatever happened since it read it.  One member of Request is *)
(* one HTTP request.  Each database statement and each publish is a call   *)
(* that begins in one step and returns in another: while it runs it holds  *)
(* a connection of the pool, or is a write that its producer waits for.    *)
(*                                                                         *)
(* Of a row, the owner and the name (the column email) are kept: the other *)
(* columns are stored and overwritten together with the name.  Validate is *)
(* the subject of OtpLockout.                                              *)
(*                                                                         *)
(* Definitions after a "Slip:" comment are plausible mistakes; the checks  *)
(* of sensitivity in PROJECT.json put them in the place of the original.   *)
(***************************************************************************)
EXTENDS Integers, FiniteSets

CONSTANTS
    Request, User, Name,
    MaxOtps,    \* bound: the ids the table's sequence hands out
    Faults,     \* which of "db", "kafka" and "crash" may go wrong
    None        \* no row, no caller, nothing read

Id == 1..MaxOtps

Row   == [user : User, name : Name]
Seen  == [id : Id, name : Name]
Event == [req : Request, action : {"created", "updated", "deleted"}, id : Id, name : Name]

ASSUME VaultAssumption ==
    /\ MaxOtps \in Nat \ {0}
    /\ Faults \subseteq {"db", "kafka", "crash"}
    /\ None \notin User \cup Row \cup Seen

\* What main has done since the signal, in its order.
Phases == {"serving", "signalled", "closingSync", "closingEvents", "draining", "closingPool", "stopped"}

VARIABLES
    otp,        \* the table
    lastId,     \* the last id handed out
    pc,         \* the call each request is in or about to make
    busy,       \* the requests that are in that call
    caller,     \* the user who made it
    seen,       \* what FindByID returned, or the name a Create is about to insert
    change,     \* the change a request has made, which it has yet to publish
    sync,       \* the topic sync-events
    created,    \* the topic otp-events
    phase,      \* how far main is
    history,    \* ghost: the changes committed
    faulted,    \* ghost: the requests that failed, or were cut off, after their change
    late        \* ghost: the requests that published on a closed producer

table == <<otp, lastId, history>>
topics == <<sync, created>>
vars == <<table, pc, busy, caller, seen, change, topics, phase, faulted, late>>

Init ==
    /\ otp = [id \in Id |-> None]
    /\ lastId = 0
    /\ pc = [r \in Request |-> "idle"]
    /\ busy = {}
    /\ caller = [r \in Request |-> None]
    /\ seen = [r \in Request |-> None]
    /\ change = [r \in Request |-> None]
    /\ sync = {} /\ created = {}
    /\ phase = "serving"
    /\ history = {}
    /\ faulted = {} /\ late = {}

Live == {id \in Id : otp[id] # None}

\* Slip: there is no UNIQUE (user_id, email).
Named_None(u, n) == {}

Named(u, n) == {id \in Live : otp[id] = [user |-> u, name |-> n]}

\* Slip: where FindByID finds no row it returns without closing the rows.
Leave_KeepsRows(r, l) ==
    /\ pc' = [pc EXCEPT ![r] = l]
    /\ busy' = IF pc[r] = "idle" /\ l = "done" THEN busy ELSE busy \ {r}

\* The call of r returns, its connection with it, and r goes on to l.
Leave(r, l) == pc' = [pc EXCEPT ![r] = l] /\ busy' = busy \ {r}

\* What was read is not looked at once the statement has run.
Forget(r) == seen' = [seen EXCEPT ![r] = None]

Fault(r, kind) == kind \in Faults /\ faulted' = faulted \cup {r}

\* What a call needs to begin: a pool or a producer that is not closed.
PoolOpen == phase \notin {"closingPool", "stopped"}

SyncOpen == phase \in {"serving", "signalled"}

EventsOpen == SyncOpen \/ phase = "closingSync"

Open(l) ==
    \/ l \in {"idle", "insert", "update", "remove"} /\ PoolOpen
    \/ l = "sync" /\ SyncOpen
    \/ l = "otpCreated" /\ EventsOpen

\* A request arrives and looks for its row, or goes on to its next call.  One that
\* arrived before Shutdown may begin after it.  (The requests that only read hold
\* a connection as one does that finds nothing.)
Begin(r) ==
    /\ r \notin busy /\ Open(pc[r])
    /\ busy' = busy \cup {r}
    /\ UNCHANGED <<table, pc, caller, seen, change, topics, phase, faulted, late>>

\* Slip: the event tells of the row as it was read.
Change_AsRead(r, act, id, n) == [req |-> r, action |-> act, id |-> id, name |-> seen[r].name]

\* What publishEvents will tell of a change.
Change(r, act, id, n) == [req |-> r, action |-> act, id |-> id, name |-> n]

\* A statement commits and row n is at id.  Its answer reaches the service,
\* which goes on to publish; or it does not, and the request ends in an error.
Commit(r, id, n, event) ==
    /\ otp' = [otp EXCEPT ![id] = n]
    /\ history' = history \cup {event}
    /\ \/ /\ change' = [change EXCEPT ![r] = event]
          /\ Leave(r, "sync")
          /\ UNCHANGED faulted
       \/ Fault(r, "db") /\ Leave(r, "done") /\ UNCHANGED change

-----------------------------------------------------------------------------
(* Create.                                                                 *)

\* FindByUserIDAndEmail: a name that is there is an error.
CreateFind(r, u, n) ==
    /\ pc[r] = "idle" /\ r \in busy
    /\ caller' = [caller EXCEPT ![r] = u]
    /\ IF Named(u, n) # {}
       THEN Leave(r, "done") /\ UNCHANGED seen
       ELSE /\ seen' = [seen EXCEPT ![r] = [id |-> 1, name |-> n]]
            /\ Leave(r, "insert")
    /\ UNCHANGED <<table, change, topics, phase, faulted, late>>

\* INSERT: the name may have been taken since, which violates uq_otp_user_name.
Insert(r) ==
    LET n == seen[r].name
        id == lastId + 1
    IN  /\ pc[r] = "insert" /\ r \in busy
        /\ IF Named(caller[r], n) = {}
           THEN /\ id <= MaxOtps
                /\ lastId' = id
                /\ Commit(r, id, [user |-> caller[r], name |-> n],
                          Change(r, "created", id, n))
           ELSE Leave(r, "done") /\ UNCHANGED <<table, change, faulted>>
        /\ Forget(r)
        /\ UNCHANGED <<caller, topics, phase, late>>

-----------------------------------------------------------------------------
(* Update and Delete.                                                      *)

\* FindByID and the test of ownership.
Find(r, u, id, next) ==
    /\ pc[r] = "idle" /\ r \in busy
    /\ caller' = [caller EXCEPT ![r] = u]
    /\ IF id \in Live /\ otp[id].user = u
       THEN /\ seen' = [seen EXCEPT ![r] = [id |-> id, name |-> otp[id].name]]
            /\ Leave(r, next)
       ELSE Leave(r, "done") /\ UNCHANGED seen
    /\ UNCHANGED <<table, change, topics, phase, faulted, late>>

\* Slip: the number of rows affected is not looked at.
Hit_Always(r) == TRUE

\* The WHERE clause of UPDATE and DELETE: the id and the owner.
Hit(r) == seen[r].id \in Live /\ otp[seen[r].id].user = caller[r]

\* No row hit is ErrNotFound, a name that is taken a unique violation.
UpdateWrite(r, n) ==
    LET id == seen[r].id
    IN  /\ pc[r] = "update" /\ r \in busy
        /\ IF Hit(r) /\ Named(caller[r], n) \subseteq {id}
           THEN Commit(r, id, [user |-> caller[r], name |-> n],
                       Change(r, "updated", id, n))
           ELSE Leave(r, "done") /\ UNCHANGED <<otp, history, change, faulted>>
        /\ Forget(r)
        /\ UNCHANGED <<lastId, caller, topics, phase, late>>

\* The event has the name that was read, which another request may have changed.
Remove(r) ==
    LET id == seen[r].id
    IN  /\ pc[r] = "remove" /\ r \in busy
        /\ IF Hit(r)
           THEN Commit(r, id, None, Change(r, "deleted", id, seen[r].name))
           ELSE Leave(r, "done") /\ UNCHANGED <<otp, history, change, faulted>>
        /\ Forget(r)
        /\ UNCHANGED <<lastId, caller, topics, phase, late>>

-----------------------------------------------------------------------------
(* publishEvents: sync-events for every change, otp-events for a creation.  *)
(* A publish that fails is logged.                                         *)

\* A producer's answer, or its refusal for good once it was closed.
Publish(r, topic, next) ==
    /\ \/ r \in busy /\ topic' = topic \cup {change[r]} /\ UNCHANGED <<faulted, late>>
       \/ r \in busy /\ Fault(r, "kafka") /\ UNCHANGED <<topic, late>>
       \/ r \notin busy /\ ~Open(pc[r]) /\ late' = late \cup {r} /\ UNCHANGED <<topic, faulted>>
    /\ Leave(r, next)

\* Slip: the action is compared with the wrong one.
AfterSync_Updates(r) == IF change[r].action = "updated" THEN "otpCreated" ELSE "done"

AfterSync(r) == IF change[r].action = "created" THEN "otpCreated" ELSE "done"

PublishSync(r) ==
    /\ pc[r] = "sync"
    /\ Publish(r, sync, AfterSync(r))
    /\ UNCHANGED <<table, caller, seen, change, created, phase>>

PublishCreated(r) ==
    /\ pc[r] = "otpCreated"
    /\ Publish(r, created, "done")
    /\ UNCHANGED <<table, caller, seen, change, sync, phase>>

-----------------------------------------------------------------------------
(* Failures, and the end of main.                                          *)

\* A statement fails before it takes effect, or encryption does.
DbError(r) ==
    /\ pc[r] \in {"idle", "insert", "update", "remove"} /\ r \in busy
    /\ "db" \in Faults
    /\ Leave(r, "done") /\ Forget(r)
    /\ UNCHANGED <<table, caller, change, topics, phase, faulted, late>>

\* A closed pool hands out no connection.
NoConnection(r) ==
    /\ pc[r] \in {"insert", "update", "remove"} /\ r \notin busy /\ ~PoolOpen
    /\ Leave(r, "done") /\ Forget(r)
    /\ UNCHANGED <<table, caller, change, topics, phase, faulted, late>>

InFlight == busy \cup {r \in Request : pc[r] \notin {"idle", "done"}}

CutOff ==
    /\ faulted' = faulted \cup {r \in Request : pc[r] \in {"sync", "otpCreated"}}
    /\ pc' = [r \in Request |-> IF r \in InFlight THEN "done" ELSE pc[r]]
    /\ busy' = {}
    /\ seen' = [r \in Request |-> None]
    /\ UNCHANGED <<table, caller, change, topics, late>>

\* The process dies, and is started again unless it was stopping.
Crash ==
    /\ "crash" \in Faults
    /\ InFlight # {}
    /\ phase # "stopped"
    /\ phase' = IF phase = "serving" THEN "serving" ELSE "stopped"
    /\ CutOff

\* SIGINT or SIGTERM.
Signal == phase = "serving" /\ phase' = "signalled"

In(l) == {r \in busy : pc[r] = l}

\* consumer.Close, which waits for kafka-go's own goroutines and not for any
\* request, then syncProd.Close, which refuses writes from now on and waits for
\* those that have begun.
CloseSync == phase = "signalled" /\ phase' = "closingSync"

\* Then eventProd.Close, in the same way, and only then srv.Shutdown.
CloseEvents == phase = "closingSync" /\ In("sync") = {} /\ phase' = "closingEvents"

Shutdown == phase = "closingEvents" /\ In("otpCreated") = {} /\ phase' = "draining"

\* Shutdown waits for the requests in flight, ten seconds at most.  When main
\* returns, the deferred Close refuses connections from now on.
ClosePool == phase = "draining" /\ phase' = "closingPool"

\* It waits for the connections that are out, however long that is.  Requests
\* go on meanwhile; those that are left are cut off when the process ends.
Exit ==
    /\ phase = "closingPool"
    /\ busy \subseteq In("sync") \cup In("otpCreated")
    /\ phase' = "stopped"
    /\ CutOff

Main ==
    \/ /\ CloseSync \/ CloseEvents \/ Shutdown \/ ClosePool
       /\ UNCHANGED <<table, pc, busy, caller, seen, change, topics, faulted, late>>
    \/ Exit

Statement(r) ==
    \/ Insert(r)
    \/ \E n \in Name : UpdateWrite(r, n)
    \/ Remove(r)

\* The call of r returns, or is refused.
Act(r) ==
    \/ \E u \in User, n \in Name : CreateFind(r, u, n)
    \/ \E u \in User, id \in Id : Find(r, u, id, "update") \/ Find(r, u, id, "remove")
    \/ Statement(r)
    \/ PublishSync(r) \/ PublishCreated(r)
    \/ DbError(r) \/ NoConnection(r)

Next ==
    \/ \E r \in Request : Begin(r) \/ Act(r)
    \/ Signal /\ UNCHANGED <<table, pc, busy, caller, seen, change, topics, faulted, late>>
    \/ Main
    \/ Crash

Spec == Init /\ [][Next]_vars

\* main goes on, and as long as there are calls that have begun, one after the
\* other ends, well or badly.  Of a write that is kafka-go's own doing, which
\* counts its attempts and times each out.  Of a statement it is assumed:
\* nothing but the database ends it.
Fairness ==
    /\ WF_vars(Main)
    /\ WF_vars(\E r \in busy : Act(r))

FairSpec == Spec /\ Fairness

-----------------------------------------------------------------------------
(* Properties.                                                             *)

TypeOK ==
    /\ otp \in [Id -> Row \cup {None}]
    /\ lastId \in 0..MaxOtps
    /\ pc \in [Request -> {"idle", "insert", "update", "remove", "sync", "otpCreated", "done"}]
    /\ busy \subseteq Request
    /\ caller \in [Request -> User \cup {None}]
    /\ seen \in [Request -> Seen \cup {None}]
    /\ change \in [Request -> Event \cup {None}]
    /\ sync \subseteq history /\ created \subseteq history
    /\ history \subseteq Event
    /\ phase \in Phases
    /\ faulted \subseteq Request /\ late \subseteq Request

\* However Creates and renaming Updates interleave, a user has no two OTPs of
\* one name: Create's own look before its insert could not see to that.
NamesUnique == \A i, j \in Live : otp[i] = otp[j] => i = j

OtpInv == TypeOK /\ NamesUnique

\* An OTP that a request has deleted is deleted once and stays deleted, also
\* when an Update had read it before.
DeletedIsGone ==
    \A g \in history : g.action = "deleted" =>
        /\ g.id \notin Live
        /\ \A h \in history : h.action = "deleted" /\ h.id = g.id => h = g

Announced(h) == h \in sync /\ (h.action = "created" => h \in created)

Pending(h) == pc[h.req] \in {"sync", "otpCreated"}

\* Every change is announced on the topics it belongs on, is about to be, or
\* was made by a request that met a failure or found a producer closed.
LossesExplained ==
    \A h \in history : Announced(h) \/ Pending(h) \/ h.req \in faulted \cup late

Told(id) == {e \in sync : e.id = id}

\* Neither rows nor events have a version, but once all changes of an OTP are on
\* sync-events, in whatever order, they tell whether it is there, and its name
\* is that of an update or, if there was none, that of its creation.
FollowersKnow ==
    \A id \in 1..lastId : {h \in history : h.id = id} \subseteq sync =>
        LET updates == {e \in Told(id) : e.action = "updated"}
            names == {e.name : e \in IF updates = {} THEN Told(id) ELSE updates}
        IN  IF \E e \in Told(id) : e.action = "deleted"
            THEN id \notin Live
            ELSE id \in Live /\ otp[id].name \in names

\* Once it was signalled the service stops: main waits for the writes of two
\* producers, for requests and for connections, and none of these waits is for
\* something that is itself waiting for main, or that a request never gives back.
Stops == (phase = "signalled") ~> (phase = "stopped")
=============================================================================
