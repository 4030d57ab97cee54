---------------------------- MODULE LdapDirectory ----------------------------
(***************************************************************************)
(* The directory of LDAP users in the messaging service: a MongoDB         *)
(* document per user, written by the consumer of ldap-user-events and, for *)
(* the photo, by the user's own requests.  The consumer catches every      *)
(* error, so that an event is over once it was tried.  kafkajs commits how *)
(* far it came from time to time: a process that dies in between is        *)
(* started again at the last commit, and handles what follows once more.   *)
(*                                                                         *)
(* The topic has one partition, and the group one process.  An "other"     *)
(* event is one on which eachMessage returns without a call: no value, a   *)
(* signature that is there and wrong, no JSON, or an unknown action.  Of a *)
(* document, the domain and the photo are kept: the other columns are      *)
(* written together with the domain.                                       *)
(*                                                                         *)
(* Definitions after a "Slip:" comment are plausible mistakes; the checks  *)
(* of sensitivity in PROJECT.json put them in the place of the original.   *)
(***************************************************************************)
EXTENDS Integers, Sequences

CONSTANTS
    User, Domain, Photo,
    Absent,         \* no document for the user
    NoPhoto,        \* a document without a photo; a photo field that is undefined
    Faults,         \* a subset of {"database", "crash"}
    MaxLog,         \* bound: events produced
    MaxCrashes      \* bound: how often the process dies

ASSUME DirectoryAssumption ==
    /\ NoPhoto \notin Photo
    /\ Absent \notin Domain
    /\ Absent \notin [domain : Domain, photo : Photo \cup {NoPhoto}]
    /\ MaxLog \in Nat /\ MaxCrashes \in Nat

Document == [domain : Domain, photo : Photo \cup {NoPhoto}]

\* Of each kind of event, the fields that its handling reads.
Event ==
         [action : {"provisioned"}, user : User, domain : Domain]
    \cup [action : {"deleted"}, user : User]
    \cup [action : {"configChanged"}, domain : Domain]
    \cup [action : {"other"}]

VARIABLES
    topic,      \* the events of ldap-user-events
    committed,  \* the group's offset: the last event committed
    position,   \* the last event this run of the process is done with
    running,    \* whether the process runs
    crashes,    \* how often it died
    directory,  \* the collection: each user's document, or Absent
    high,       \* ghost: the last event any run began to handle
    once,       \* ghost: once[i] is the directory if each of the first i events was handled once
    failed      \* ghost: the events one of whose deliveries met an error

log == <<topic, once>>
offsets == <<committed, position, high>>
vars == <<log, offsets, running, crashes, directory, failed>>

Empty == [u \in User |-> Absent]

Init ==
    /\ topic = <<>>
    /\ committed = 0 /\ position = 0 /\ high = 0
    /\ running = TRUE
    /\ crashes = 0
    /\ directory = Empty
    /\ once = [i \in 0..MaxLog |-> Empty]
    /\ failed = {}

-----------------------------------------------------------------------------
(* What an event does to the directory dir.                                *)

\* findOneAndUpdate with upsert: the photo of a document that is there stays.
UpsertUser(dir, e) ==
    [dir EXCEPT ![e.user] =
        [domain |-> e.domain, photo |-> IF @ = Absent THEN NoPhoto ELSE @.photo]]

RemoveUser(dir, e) == [dir EXCEPT ![e.user] = Absent]

InDomain(dir, u, d) == dir[u] # Absent /\ dir[u].domain = d

ClearDomain(dir, e) ==
    [u \in User |-> IF InDomain(dir, u, e.domain) THEN Absent ELSE dir[u]]

\* The switch of eachMessage.
Handled(dir, e) ==
    CASE e.action = "provisioned"   -> UpsertUser(dir, e)
      [] e.action = "deleted"       -> RemoveUser(dir, e)
      [] e.action = "configChanged" -> ClearDomain(dir, e)
      [] e.action = "other"         -> dir

-----------------------------------------------------------------------------
(* The events.                                                             *)

Produce ==
    /\ Len(topic) < MaxLog
    /\ \E e \in Event :
        /\ topic' = Append(topic, e)
        /\ once' = [once EXCEPT ![Len(topic) + 1] = Handled(once[Len(topic)], e)]
    /\ UNCHANGED <<offsets, running, crashes, directory, failed>>

\* high once the next event is at hand.
Begun == IF position = high THEN high + 1 ELSE high

\* eachMessage is called with the next event, and returns.
Deliver ==
    /\ running
    /\ position < Len(topic)
    /\ position' = position + 1
    /\ high' = Begun
    /\ UNCHANGED <<log, committed, running, crashes>>

\* The call of MongoDB had its effect, none, or half of it, on a domain's users.
Partly(e) ==
    \E U \in SUBSET User :
        directory' = [u \in User |-> IF u \in U THEN Handled(directory, e)[u] ELSE directory[u]]

Handle ==
    /\ Deliver
    /\ directory' = Handled(directory, topic[position + 1])
    /\ UNCHANGED failed

\* The call of MongoDB fails; the error is logged.
HandleError ==
    LET e == topic[position + 1]
    IN  /\ "database" \in Faults
        /\ Deliver
        /\ e.action # "other"
        /\ Partly(e)
        /\ failed' = failed \cup {position + 1}

\* Slip: an event that failed is not committed.
Uncommitted_Handled == committed < position /\ position \notin failed

Uncommitted == committed < position

\* kafkajs commits at the end of a batch, of any length.
Commit ==
    /\ running
    /\ Uncommitted
    /\ committed' = position
    /\ UNCHANGED <<log, position, high, running, crashes, directory, failed>>

\* The process dies between two events, or while it handles one.
Crash ==
    /\ "crash" \in Faults
    /\ running
    /\ crashes < MaxCrashes
    /\ running' = FALSE
    /\ crashes' = crashes + 1
    /\ \/ UNCHANGED <<directory, high>>
       \/ position < Len(topic) /\ Partly(topic[position + 1]) /\ high' = Begun
    /\ UNCHANGED <<log, committed, position, failed>>

Start ==
    /\ ~running
    /\ running' = TRUE
    /\ position' = committed
    /\ UNCHANGED <<log, committed, high, crashes, directory, failed>>

-----------------------------------------------------------------------------
(* The photo: uploadPhoto with a photo, deletePhoto with NoPhoto, of the user *)
(* who asks.  The answer is the same whether or not a document matched.       *)

\* Slip: a document is made if none is there.
PhotoSet_Upsert(u, d, p) == [directory EXCEPT ![u] = [domain |-> d, photo |-> p]]

\* Mongoose leaves an undefined field out of $set: deletePhoto keeps the photo.
PhotoSet(u, d, p) ==
    IF InDomain(directory, u, d) /\ p # NoPhoto
    THEN [directory EXCEPT ![u].photo = p]
    ELSE directory

SetPhoto(u, d, p) ==
    /\ running
    /\ directory' = PhotoSet(u, d, p)
    /\ UNCHANGED <<log, offsets, running, crashes, failed>>

-----------------------------------------------------------------------------
Next ==
    \/ Produce \/ Handle \/ HandleError \/ Commit \/ Crash \/ Start
    \/ \E u \in User, d \in Domain, p \in Photo \cup {NoPhoto} : SetPhoto(u, d, p)

Spec == Init /\ [][Next]_vars

\* kafkajs goes on with the next event and commits, and docker starts the process
\* again.  That calls of MongoDB succeed is not relied on.
FairSpec == Spec /\ WF_vars(Handle \/ HandleError) /\ WF_vars(Commit) /\ WF_vars(Start)

-----------------------------------------------------------------------------
(* Properties.                                                             *)

TypeOK ==
    /\ topic \in Seq(Event) /\ Len(topic) <= MaxLog
    /\ committed \in Nat /\ position \in Nat /\ high \in Nat
    /\ committed <= position /\ position <= high /\ high <= Len(topic)
    /\ running \in BOOLEAN
    /\ crashes \in 0..MaxCrashes
    /\ directory \in [User -> Document \cup {Absent}]
    /\ once \in [0..MaxLog -> [User -> Document \cup {Absent}]]
    /\ failed \subseteq 1..high

\* The domain that dir has u in.
DomainOf(dir, u) == IF dir[u] = Absent THEN Absent ELSE dir[u].domain

\* The event decides by itself what becomes of u; and it has something to do with u.
Settles(e, u) == e.action \in {"provisioned", "deleted"} /\ e.user = u

Concerns(e, u) == e.action = "configChanged" \/ Settles(e, u)

Unharmed(u) == \A i \in failed : ~Concerns(topic[i], u)

\* Without an event that settles it, a user stays in the domain or goes.
OnceMonotone ==
    \A u \in User, i \in 0..Len(topic) : \A j \in i..Len(topic) :
        (\A k \in (i + 1)..j : ~Settles(topic[k], u)) =>
            DomainOf(once[j], u) \in {DomainOf(once[i], u), Absent}

\* While events are handled again, a user's document may be behind, or ahead of
\* the event at hand; or an event yet to be handled again will settle it.
Converging ==
    \A u \in User : Unharmed(u) =>
        \/ \E i \in (position + 1)..high : Settles(topic[i], u)
        \/ DomainOf(directory, u) \in {DomainOf(once[position], u), DomainOf(once[high], u)}

DirectoryInv == TypeOK /\ OnceMonotone /\ Converging

\* However often the process died and handled events again, in whatever state
\* the directory was by then: once it is where it was before, each user whom no
\* failed event concerned is where the topic, handled once, puts them.
FollowsTopic ==
    position = high =>
        \A u \in User : Unharmed(u) => DomainOf(directory, u) = DomainOf(once[high], u)

\* No event holds up those behind it: whatever fails, every event is tried and
\* committed in the end.
EventsCommitted == \A i \in 1..MaxLog : (i <= Len(topic)) ~> (committed >= i)
=============================================================================
