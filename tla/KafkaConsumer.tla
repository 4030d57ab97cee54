--------------------------- MODULE KafkaConsumer ---------------------------
(***************************************************************************)
(* Consumer.Run of pkg/kafka, as the otp service runs it on auth-events:   *)
(* fetch, verify the signature, handle, commit.  A message that fails      *)
(* verification or handling is passed over without a commit.  An error of  *)
(* the fetch or of the commit ends Run for good: main.go logs it and the   *)
(* process goes on without a consumer.                                     *)
(*                                                                         *)
(* The topic has one partition.  A Consumer is one process of the group;   *)
(* the group gives the partition to one of them, which then reads on from  *)
(* the committed offset.  Producers are other services: they append        *)
(* messages that are good, unsigned (or signed with another key), or       *)
(* signed but not decodable.  Offset i is the i-th message; the committed  *)
(* offset is that of the last message committed, 0 if there is none.       *)
(***************************************************************************)
EXTENDS Integers, Sequences, FiniteSets

CONSTANTS
    Consumer,   \* the processes that run the consumer
    Nobody,     \* the partition is assigned to no process
    Faults,     \* a subset of {"fetch", "commit", "crash"}
    MaxLog,     \* bound: messages produced
    MaxGenerations  \* bound: changes of the group

ASSUME ConsumerAssumption ==
    /\ Nobody \notin Consumer
    /\ MaxLog \in Nat
    /\ MaxGenerations \in Nat

Kind == {"good", "unsigned", "malformed"}

Offset == 1..MaxLog

VARIABLES
    log,        \* the partition: the kinds of its messages
    committed,  \* the group's committed offset
    owner,      \* the process that the partition is assigned to
    generation, \* how often the group's membership or assignment changed
    pc,         \* where Run is in each process
    position,   \* the last offset each process fetched, or was assigned to follow
    msg,        \* the offset of the message in hand
    handled,    \* ghost: how often the handler returned nil for an offset
    rejected    \* ghost: the offsets that were passed over

vars == <<log, committed, owner, generation, pc, position, msg, handled, rejected>>

Init ==
    /\ log = <<>>
    /\ committed = 0
    /\ owner = Nobody
    /\ generation = 0
    /\ pc = [c \in Consumer |-> "fetch"]
    /\ position = [c \in Consumer |-> 0]
    /\ msg = [c \in Consumer |-> 0]
    /\ handled = [i \in Offset |-> 0]
    /\ rejected = {}

Goto(c, l) == pc' = [pc EXCEPT ![c] = l]

\* verifySignature: a signature is there and is that of the payload.
Signed(i) == log[i] # "unsigned"

\* The handler fails exactly when the payload cannot be decoded.
Decodes(i) == log[i] # "malformed"

-----------------------------------------------------------------------------
Produce ==
    /\ Len(log) < MaxLog
    /\ \E kind \in Kind : log' = Append(log, kind)
    /\ UNCHANGED <<committed, owner, generation, pc, position, msg, handled, rejected>>

\* Messages of an assignment that has ended are never returned.
Fetch(c) ==
    /\ pc[c] = "fetch"
    /\ owner = c
    /\ position[c] < Len(log)
    /\ position' = [position EXCEPT ![c] = @ + 1]
    /\ msg' = [msg EXCEPT ![c] = position[c] + 1]
    /\ Goto(c, "verify")
    /\ UNCHANGED <<log, committed, owner, generation, handled, rejected>>

FetchError(c) ==
    /\ "fetch" \in Faults
    /\ pc[c] = "fetch"
    /\ Goto(c, "stopped")
    /\ UNCHANGED <<log, committed, owner, generation, position, msg, handled, rejected>>

\* continue: back to the next fetch, with nothing committed.
PassOver(c) ==
    /\ rejected' = rejected \cup {msg[c]}
    /\ Goto(c, "fetch")

Verify(c) ==
    /\ pc[c] = "verify"
    /\ \/ Signed(msg[c]) /\ Goto(c, "handle") /\ UNCHANGED rejected
       \/ ~Signed(msg[c]) /\ PassOver(c)
    /\ UNCHANGED <<log, committed, owner, generation, position, msg, handled>>

Handle(c) ==
    /\ pc[c] = "handle"
    /\ \/ /\ Decodes(msg[c])
          /\ handled' = [handled EXCEPT ![msg[c]] = @ + 1]
          /\ Goto(c, "commit")
          /\ UNCHANGED rejected
       \/ /\ ~Decodes(msg[c])
          /\ PassOver(c)
          /\ UNCHANGED handled
    /\ UNCHANGED <<log, committed, owner, generation, position, msg>>

\* Slip: the commit names the next offset to fetch.
Commit_Next(c) ==
    /\ pc[c] = "commit"
    /\ committed' = IF msg[c] < Len(log) THEN msg[c] + 1 ELSE msg[c]
    /\ Goto(c, "fetch")
    /\ UNCHANGED <<log, owner, generation, position, msg, handled, rejected>>

\* Slip: a commit that fails rewinds the reader, to try the message again.
Commit_Retries(c) ==
    /\ pc[c] = "commit"
    /\ \/ committed' = msg[c] /\ UNCHANGED position
       \/ position' = [position EXCEPT ![c] = msg[c] - 1] /\ UNCHANGED committed
    /\ Goto(c, "fetch")
    /\ UNCHANGED <<log, owner, generation, msg, handled, rejected>>

\* The commit names the message in hand, and takes the group's offset there
\* whether or not the partition is still this process's.
Commit(c) ==
    /\ pc[c] = "commit"
    /\ committed' = msg[c]
    /\ Goto(c, "fetch")
    /\ UNCHANGED <<log, owner, generation, position, msg, handled, rejected>>

\* The commit fails, perhaps after the broker recorded it.
CommitError(c) ==
    /\ "commit" \in Faults
    /\ pc[c] = "commit"
    /\ committed' \in {committed, msg[c]}
    /\ Goto(c, "stopped")
    /\ UNCHANGED <<log, owner, generation, position, msg, handled, rejected>>

\* A process dies, forgets what it had in hand, and leaves the group.  (The
\* bound leaves room for the assignment that follows.)
Crash(c) ==
    /\ "crash" \in Faults
    /\ generation + 1 < MaxGenerations
    /\ pc[c] # "down"
    /\ Goto(c, "down")
    /\ owner' = IF owner = c THEN Nobody ELSE owner
    /\ generation' = generation + 1
    /\ position' = [position EXCEPT ![c] = 0]
    /\ msg' = [msg EXCEPT ![c] = 0]
    /\ UNCHANGED <<log, committed, handled, rejected>>

Start(c) ==
    /\ pc[c] = "down"
    /\ Goto(c, "fetch")
    /\ UNCHANGED <<log, committed, owner, generation, position, msg, handled, rejected>>

\* Slip: the committed offset is taken for that of the next message.
Assign_Past(c) ==
    /\ generation < MaxGenerations
    /\ pc[c] # "down"
    /\ owner' = c
    /\ generation' = generation + 1
    /\ position' = [position EXCEPT ![c] = committed + 1]
    /\ UNCHANGED <<log, committed, pc, msg, handled, rejected>>

\* The group assigns the partition, to a process that may have stopped reading
\* but not left.  A message in hand stays in hand.
Assign(c) ==
    /\ generation < MaxGenerations
    /\ pc[c] # "down"
    /\ owner' = c
    /\ generation' = generation + 1
    /\ position' = [position EXCEPT ![c] = committed]
    /\ UNCHANGED <<log, committed, pc, msg, handled, rejected>>

Run(c) == Fetch(c) \/ Verify(c) \/ Handle(c) \/ Commit(c)

Next ==
    \/ Produce
    \/ \E c \in Consumer : \/ Run(c)
                           \/ FetchError(c)
                           \/ CommitError(c)
                           \/ Crash(c)
                           \/ Start(c)
                           \/ Assign(c)

Spec == Init /\ [][Next]_vars

\* Run never rests while it can go on, a process that died is started again,
\* and the group does not leave the partition unassigned.
Fairness ==
    /\ \A c \in Consumer : WF_vars(Run(c)) /\ WF_vars(Start(c))
    /\ WF_vars(owner = Nobody /\ \E c \in Consumer : Assign(c))

FairSpec == Spec /\ Fairness

-----------------------------------------------------------------------------
(* Properties.                                                             *)

TypeOK ==
    /\ log \in Seq(Kind) /\ Len(log) <= MaxLog
    /\ committed \in 0..Len(log)
    /\ owner \in Consumer \cup {Nobody}
    /\ generation \in 0..MaxGenerations
    /\ pc \in [Consumer -> {"fetch", "verify", "handle", "commit", "stopped", "down"}]
    /\ position \in [Consumer -> 0..Len(log)]
    /\ msg \in [Consumer -> 0..Len(log)]
    /\ handled \in [Offset -> Nat]
    /\ rejected \subseteq 1..Len(log)

Settled(i) == handled[i] > 0 \/ i \in rejected

\* No message is lost to a crash, a failed commit or a change of owner: the
\* group's offset only ever passes messages that some process handled, or
\* looked at and passed over.
AtLeastOnce == \A i \in 1..committed : Settled(i)

InHand(c) == pc[c] \in {"verify", "handle", "commit"}

\* Behind it: whatever a process fetched before what it has in hand is
\* settled, and so is what it is about to commit.
ReadersSettle ==
    \A c \in Consumer :
        /\ \A i \in 1..position[c] : Settled(i) \/ (InHand(c) /\ i = msg[c])
        /\ InHand(c) => msg[c] > 0 /\ \A i \in 1..(msg[c] - 1) : Settled(i)
        /\ pc[c] = "commit" => Settled(msg[c])

ConsumerInv == TypeOK /\ AtLeastOnce /\ ReadersSettle

\* The processes of the group, with their crashes, failures and reassignments,
\* amount to one consumer that goes through the log in order and marks only what
\* is behind it.
Partition == INSTANCE Delivery
    WITH produced <- Len(log),
         settled  <- {i \in Offset : Settled(i)},
         mark     <- committed

ImplementsDelivery == Partition!Spec

\* A message is handled again only because the partition was assigned again.
RepeatsBounded == \A i \in Offset : handled[i] <= generation

\* Every good message is handled in the end, though processes crash between any
\* two steps, unless an error of a fetch or a commit has ended Run in a process:
\* then that process may keep the partition and read no more of it.
GoodEventuallyHandled ==
    \A i \in Offset : (i <= Len(log) /\ log[i] = "good")
        ~> (handled[i] > 0 \/ \E c \in Consumer : pc[c] = "stopped")

\* As SECURITY.md has it: messages that fail verification or handling are not
\* committed, so a restart delivers them again.
RejectedRedelivered == \A i \in rejected : committed < i
=============================================================================
