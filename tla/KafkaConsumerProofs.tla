------------------------ MODULE KafkaConsumerProofs ------------------------
(***************************************************************************)
(* Proofs about KafkaConsumer, for every group of processes, every log and *)
(* every pattern of failures.  AtLeastOnce is not inductive alone: what a  *)
(* process commits is settled because of what it fetched before, which     *)
(* ReadersSettle records.  How often a message is handled is a count of    *)
(* its own: every change of the group pays for one handling (Paid).        *)
(***************************************************************************)
EXTENDS KafkaConsumer, FiniteSetTheorems, TLAPS

LEMMA ConsumerInit == Init => ConsumerInv
BY ConsumerAssumption
   DEF Init, ConsumerInv, TypeOK, AtLeastOnce, ReadersSettle, Settled, InHand, Kind, Offset

-----------------------------------------------------------------------------
(* Types.                                                                  *)

LEMMA ConsumerTypeStep ==
    ASSUME TypeOK, [Next]_vars, AtLeastOnce, ReadersSettle
    PROVE  TypeOK'
<1> USE ConsumerAssumption DEF TypeOK
<1>1. Len(log) \in Nat
  OBVIOUS
<1>2. CASE Produce
  <2>1. PICK kind \in Kind : log' = Append(log, kind)
    BY <1>2 DEF Produce
  <2>2. log' \in Seq(Kind) /\ Len(log') = Len(log) + 1
    BY <2>1
  <2>3. Len(log') <= MaxLog
    BY <1>1, <1>2, <2>2 DEF Produce
  <2>4. 0..Len(log) \subseteq 0..Len(log')
    BY <1>1, <2>2
  <2>5. position' \in [Consumer -> 0..Len(log')] /\ msg' \in [Consumer -> 0..Len(log')]
    BY <1>2, <2>4 DEF Produce
  <2> QED BY <1>2, <2>2, <2>3, <2>4, <2>5 DEF Produce
<1>3. ASSUME NEW c \in Consumer, Fetch(c) PROVE TypeOK'
  <2>1. position[c] + 1 \in 0..Len(log)
    BY <1>1, <1>3 DEF Fetch
  <2> QED BY <2>1, <1>3 DEF Fetch, Goto
<1>4. ASSUME NEW c \in Consumer, FetchError(c) PROVE TypeOK'
  BY <1>4 DEF FetchError, Goto
<1>5. ASSUME NEW c \in Consumer, Verify(c) PROVE TypeOK'
  <2>1. pc[c] = "verify" => msg[c] \in 1..Len(log)
    BY DEF ReadersSettle, InHand
  <2> QED BY <2>1, <1>5 DEF Verify, PassOver, Goto
<1>6. ASSUME NEW c \in Consumer, Handle(c) PROVE TypeOK'
  <2>1. msg[c] \in 1..Len(log)
    BY <1>6 DEF ReadersSettle, InHand, Handle
  <2>2. msg[c] \in Offset
    BY <2>1, <1>1 DEF Offset
  <2>3. handled' \in [Offset -> Nat]
    BY <2>2, <1>6 DEF Handle
  <2> QED BY <2>1, <2>3, <1>6 DEF Handle, PassOver, Goto
<1>7. ASSUME NEW c \in Consumer, Commit(c) PROVE TypeOK'
  BY <1>7 DEF Commit, Goto
<1>8. ASSUME NEW c \in Consumer, CommitError(c) PROVE TypeOK'
  BY <1>8 DEF CommitError, Goto
<1>9. ASSUME NEW c \in Consumer, Crash(c) PROVE TypeOK'
  BY <1>9 DEF Crash, Goto
<1>10. ASSUME NEW c \in Consumer, Start(c) PROVE TypeOK'
  BY <1>10 DEF Start, Goto
<1>11. ASSUME NEW c \in Consumer, Assign(c) PROVE TypeOK'
  BY <1>11 DEF Assign
<1>12. CASE UNCHANGED vars
  BY <1>12 DEF vars
<1> QED BY <1>2, <1>3, <1>4, <1>5, <1>6, <1>7, <1>8, <1>9, <1>10, <1>11, <1>12 DEF Next, Run

-----------------------------------------------------------------------------
(* What is settled stays settled, so a reader whose own state does not move *)
(* stays within what it has settled.                                        *)

Reader(c) ==
    /\ \A i \in 1..position[c] : Settled(i) \/ (InHand(c) /\ i = msg[c])
    /\ InHand(c) => msg[c] > 0 /\ \A i \in 1..(msg[c] - 1) : Settled(i)
    /\ pc[c] = "commit" => Settled(msg[c])

LEMMA SettledStays ==
    ASSUME TypeOK, ReadersSettle, [Next]_vars, NEW i \in Nat, i <= Len(log), Settled(i), i > 0
    PROVE  Settled(i)'
<1>1. i \in Offset
  BY ConsumerAssumption DEF TypeOK, Offset
<1>2. CASE UNCHANGED handled /\ rejected \subseteq rejected'
  BY <1>2 DEF Settled
<1>3. ASSUME NEW c \in Consumer, Verify(c) \/ Handle(c) PROVE Settled(i)'
  <2>1. CASE Verify(c)
    BY <1>2, <2>1 DEF Verify, PassOver
  <2>2. CASE Handle(c)
    <3>1. rejected \subseteq rejected'
      BY <2>2 DEF Handle, PassOver
    <3>2. handled[i] > 0 => handled'[i] > 0
      <4>1. \/ handled' = handled
            \/ handled' = [handled EXCEPT ![msg[c]] = handled[msg[c]] + 1]
        BY <2>2 DEF Handle
      <4>2. handled[i] \in Nat /\ handled \in [Offset -> Nat]
        BY <1>1 DEF TypeOK
      <4>3. CASE i = msg[c]
        BY <1>1, <4>1, <4>2, <4>3
      <4>4. CASE i # msg[c]
        BY <1>1, <4>1, <4>2, <4>4
      <4> QED BY <4>3, <4>4
    <3> QED BY <3>1, <3>2 DEF Settled
  <2> QED BY <1>3, <2>1, <2>2
<1>4. CASE Produce \/ UNCHANGED vars
  BY <1>2, <1>4 DEF Produce, vars
<1>5. ASSUME NEW c \in Consumer,
             \/ Fetch(c) \/ FetchError(c) \/ Commit(c) \/ CommitError(c)
             \/ Crash(c) \/ Start(c) \/ Assign(c)
      PROVE  Settled(i)'
  BY <1>2, <1>5 DEF Fetch, FetchError, Commit, CommitError, Crash, Start, Assign
<1> QED BY <1>3, <1>4, <1>5 DEF Next, Run

LEMMA ReaderStays ==
    ASSUME TypeOK, ReadersSettle, [Next]_vars, NEW c \in Consumer,
           pc'[c] = pc[c], position'[c] = position[c], msg'[c] = msg[c]
    PROVE  Reader(c)'
<1>1. Reader(c)
  BY DEF Reader, ReadersSettle
<1>2. position[c] \in 0..Len(log) /\ msg[c] \in 0..Len(log) /\ Len(log) \in Nat
  BY DEF TypeOK
<1>3. \A i \in 1..position[c] : Settled(i) => Settled(i)'
  BY <1>2, SettledStays
<1>4. \A i \in 1..msg[c] : Settled(i) => Settled(i)'
  BY <1>2, SettledStays
<1> QED BY <1>1, <1>2, <1>3, <1>4 DEF Reader, InHand

\* The steps of one reader, seen by that reader.
LEMMA ReaderMoves ==
    ASSUME TypeOK, AtLeastOnce, ReadersSettle, [Next]_vars, NEW c \in Consumer,
           \/ Fetch(c) \/ FetchError(c) \/ Verify(c) \/ Handle(c) \/ Commit(c)
           \/ CommitError(c) \/ Crash(c) \/ Start(c) \/ Assign(c)
    PROVE  Reader(c)'
<1>1. Reader(c)
  BY DEF Reader, ReadersSettle
<1>2. /\ position[c] \in 0..Len(log) /\ msg[c] \in 0..Len(log) /\ committed \in 0..Len(log)
      /\ Len(log) \in Nat
  BY DEF TypeOK
<1>3. /\ \A i \in 1..position[c] : Settled(i) => Settled(i)'
      /\ \A i \in 1..msg[c] : Settled(i) => Settled(i)'
      /\ \A i \in 1..committed : Settled(i) => Settled(i)'
  BY <1>2, SettledStays
<1>4. CASE Fetch(c)
  <2>1. /\ pc'[c] = "verify"
        /\ position'[c] = position[c] + 1
        /\ msg'[c] = position[c] + 1
        /\ ~InHand(c)
    BY <1>4 DEF Fetch, Goto, TypeOK, InHand
  <2> QED BY <1>1, <1>2, <1>3, <2>1 DEF Reader, InHand
<1>5. CASE FetchError(c)
  <2>1. pc[c] = "fetch" /\ pc'[c] = "stopped" /\ position' = position /\ msg' = msg
    BY <1>5 DEF FetchError, Goto, TypeOK
  <2> QED BY <1>1, <1>2, <1>3, <2>1 DEF Reader, InHand
<1>6. CASE Verify(c)
  <2>1. pc[c] = "verify" /\ position' = position /\ msg' = msg
    BY <1>6 DEF Verify
  <2>2. pc'[c] = "handle" \/ (pc'[c] = "fetch" /\ Settled(msg[c])')
    BY <1>6 DEF Verify, PassOver, Goto, TypeOK, Settled
  <2> QED BY <1>1, <1>2, <1>3, <2>1, <2>2 DEF Reader, InHand
<1>7. CASE Handle(c)
  <2>1. pc[c] = "handle" /\ position' = position /\ msg' = msg
    BY <1>7 DEF Handle
  <2>2. msg[c] \in Offset
    BY <1>1, <1>2, <2>1, ConsumerAssumption DEF Reader, InHand, Offset, TypeOK
  <2>3. pc'[c] \in {"commit", "fetch"} /\ Settled(msg[c])'
    BY <1>7, <2>2 DEF Handle, PassOver, Goto, TypeOK, Settled
  <2> QED BY <1>1, <1>2, <1>3, <2>1, <2>3 DEF Reader, InHand
<1>8. CASE Commit(c) \/ CommitError(c)
  <2>1. pc[c] = "commit" /\ pc'[c] \in {"fetch", "stopped"} /\ position' = position /\ msg' = msg
    BY <1>8 DEF Commit, CommitError, Goto, TypeOK
  <2> QED BY <1>1, <1>2, <1>3, <2>1 DEF Reader, InHand
<1>9. CASE Crash(c)
  <2>1. pc'[c] = "down" /\ position'[c] = 0 /\ msg'[c] = 0
    BY <1>9 DEF Crash, Goto, TypeOK
  <2> QED BY <2>1 DEF Reader, InHand
<1>10. CASE Start(c)
  <2>1. pc[c] = "down" /\ pc'[c] = "fetch" /\ position' = position /\ msg' = msg
    BY <1>10 DEF Start, Goto, TypeOK
  <2> QED BY <1>1, <1>2, <1>3, <2>1 DEF Reader, InHand
<1>11. CASE Assign(c)
  <2>1. pc' = pc /\ position'[c] = committed /\ msg' = msg
    BY <1>11 DEF Assign, TypeOK
  <2>2. \A i \in 1..committed : Settled(i)
    BY DEF AtLeastOnce
  <2> QED BY <1>1, <1>2, <1>3, <2>1, <2>2 DEF Reader, InHand
<1> QED BY <1>4, <1>5, <1>6, <1>7, <1>8, <1>9, <1>10, <1>11

\* Every step is one reader's, or moves no reader.
LEMMA ReadersStep ==
    ASSUME TypeOK, AtLeastOnce, ReadersSettle, [Next]_vars
    PROVE  ReadersSettle'
<1> SUFFICES ASSUME NEW c \in Consumer PROVE Reader(c)'
  BY DEF ReadersSettle, Reader
<1>1. CASE Produce \/ UNCHANGED vars
  BY <1>1, ReaderStays DEF Produce, vars
<1>2. ASSUME NEW d \in Consumer,
             \/ Fetch(d) \/ FetchError(d) \/ Verify(d) \/ Handle(d) \/ Commit(d)
             \/ CommitError(d) \/ Crash(d) \/ Start(d) \/ Assign(d)
      PROVE  Reader(c)'
  <2>1. CASE c = d
    BY <1>2, <2>1, ReaderMoves
  <2>2. CASE c # d
    <3>1. pc'[c] = pc[c] /\ position'[c] = position[c] /\ msg'[c] = msg[c]
      BY <1>2, <2>2 DEF TypeOK, Goto, Fetch, FetchError, Verify, PassOver, Handle, Commit,
                        CommitError, Crash, Start, Assign
    <3> QED BY <3>1, ReaderStays
  <2> QED BY <2>1, <2>2
<1> QED BY <1>1, <1>2 DEF Next, Run

\* The group's offset moves only where a reader that is about to commit is.
LEMMA CommittedStep ==
    ASSUME TypeOK, AtLeastOnce, ReadersSettle, [Next]_vars
    PROVE  AtLeastOnce'
<1>1. Len(log) \in Nat /\ committed \in 0..Len(log)
  BY DEF TypeOK
<1>2. \A i \in 1..committed : Settled(i)'
  BY <1>1, SettledStays DEF AtLeastOnce
<1>3. CASE committed' = committed
  BY <1>2, <1>3 DEF AtLeastOnce
<1>4. ASSUME NEW c \in Consumer, Commit(c) \/ CommitError(c) PROVE AtLeastOnce'
  <2>1. pc[c] = "commit" /\ msg[c] \in 0..Len(log)
    BY <1>4 DEF Commit, CommitError, TypeOK
  <2>2. msg[c] > 0 /\ \A i \in 1..(msg[c] - 1) : Settled(i)
    BY <2>1 DEF ReadersSettle, InHand
  <2>3. Settled(msg[c])
    BY <2>1 DEF ReadersSettle
  <2>4. \A i \in 1..msg[c] : Settled(i)
    BY <1>1, <2>1, <2>2, <2>3
  <2>5. \A i \in 1..msg[c] : Settled(i)'
    BY <1>1, <2>1, <2>4, SettledStays
  <2>6. committed' = committed \/ committed' = msg[c]
    BY <1>4 DEF Commit, CommitError
  <2> QED BY <1>2, <2>5, <2>6 DEF AtLeastOnce
<1>5. CASE Produce \/ UNCHANGED vars
  BY <1>3, <1>5 DEF Produce, vars
<1>6. ASSUME NEW c \in Consumer,
             \/ Fetch(c) \/ FetchError(c) \/ Verify(c) \/ Handle(c)
             \/ Crash(c) \/ Start(c) \/ Assign(c)
      PROVE  AtLeastOnce'
  BY <1>3, <1>6 DEF Fetch, FetchError, Verify, Handle, Crash, Start, Assign
<1> QED BY <1>4, <1>5, <1>6 DEF Next, Run

\* The state of the group and of every reader hangs together.
THEOREM ConsumerInvariance == Spec => []ConsumerInv
<1>1. ConsumerInv /\ [Next]_vars => ConsumerInv'
  BY ConsumerTypeStep, ReadersStep, CommittedStep DEF ConsumerInv
<1> QED BY <1>1, ConsumerInit, PTL DEF Spec

\* Whatever crashes, fails or is reassigned, the group's offset passes no
\* message that nobody looked at.
THEOREM NoMessageLost == Spec => []AtLeastOnce
<1>1. ConsumerInv => AtLeastOnce
  BY DEF ConsumerInv
<1> QED BY <1>1, ConsumerInvariance, PTL

-----------------------------------------------------------------------------
(* The processes of a group implement Delivery.                             *)

SettledSet == {i \in Offset : Settled(i)}

\* Looking at a message or handling it settles none but the one in hand.
LEMMA SettlesOne ==
    ASSUME TypeOK, ReadersSettle, [Next]_vars,
           NEW c \in Consumer, Verify(c) \/ Handle(c), NEW m, m = msg[c]
    PROVE  /\ m \in Offset /\ m <= Len(log)
           /\ 1..(m - 1) \subseteq SettledSet
           /\ SettledSet' = SettledSet \/ SettledSet' = SettledSet \cup {m}
<1>1. /\ Len(log) \in Nat /\ Len(log) <= MaxLog /\ MaxLog \in Nat
      /\ m \in 0..Len(log)
  BY ConsumerAssumption DEF TypeOK
<1>2. m > 0 /\ \A i \in 1..(m - 1) : Settled(i)
  BY DEF ReadersSettle, InHand, Verify, Handle
<1>3. m \in Offset /\ 1..(m - 1) \subseteq SettledSet
  BY <1>1, <1>2 DEF Offset, SettledSet
<1>4. \A i \in Offset : i # m => (Settled(i)' <=> Settled(i))
  <2> SUFFICES ASSUME NEW i \in Offset, i # m PROVE Settled(i)' <=> Settled(i)
    OBVIOUS
  <2>1. (i \in rejected') <=> (i \in rejected)
    BY DEF Verify, Handle, PassOver
  <2>2. handled'[i] = handled[i]
    BY <1>3 DEF Verify, Handle, TypeOK
  <2> QED BY <2>1, <2>2 DEF Settled
<1>5. Settled(m) => Settled(m)'
  BY <1>1, <1>2, SettledStays
<1>6. CASE Settled(m) \/ ~Settled(m)'
  <2>1. \A i \in Offset : Settled(i)' <=> Settled(i)
    <3> SUFFICES ASSUME NEW i \in Offset PROVE Settled(i)' <=> Settled(i)
      OBVIOUS
    <3>1. CASE i = m
      BY <1>5, <1>6, <3>1
    <3>2. CASE i # m
      BY <1>4, <3>2
    <3> QED BY <3>1, <3>2
  <2>2. SettledSet' = SettledSet
    BY <2>1 DEF SettledSet
  <2> QED BY <1>1, <1>3, <2>2
<1>7. CASE ~Settled(m) /\ Settled(m)'
  <2>1. \A i \in Offset : Settled(i)' <=> (Settled(i) \/ i = m)
    <3> SUFFICES ASSUME NEW i \in Offset PROVE Settled(i)' <=> (Settled(i) \/ i = m)
      OBVIOUS
    <3>1. CASE i = m
      BY <1>7, <3>1
    <3>2. CASE i # m
      BY <1>4, <3>2
    <3> QED BY <3>1, <3>2
  <2>2. SettledSet' = SettledSet \cup {m}
    BY <1>3, <2>1 DEF SettledSet
  <2> QED BY <1>1, <1>3, <2>2
<1> QED BY <1>6, <1>7

LEMMA DeliveryStep ==
    ASSUME ConsumerInv, [Next]_vars
    PROVE  [Partition!Next]_(Partition!vars)
<1> USE DEF ConsumerInv
<1>1. /\ Len(log) \in Nat /\ Len(log) <= MaxLog /\ MaxLog \in Nat
      /\ committed \in 0..Len(log)
  BY ConsumerAssumption DEF TypeOK
<1>2. ASSUME UNCHANGED <<log, committed, SettledSet>>
      PROVE  UNCHANGED Partition!vars
  BY <1>2 DEF Partition!vars, SettledSet
<1>3. (UNCHANGED <<handled, rejected>>) => SettledSet' = SettledSet
  BY DEF SettledSet, Settled
<1>4. CASE Produce
  <2>1. Len(log') = Len(log) + 1 /\ Len(log) < MaxLog /\ UNCHANGED <<committed, SettledSet>>
    BY <1>3, <1>4 DEF Produce, TypeOK
  <2>2. Partition!Produce
    BY <2>1 DEF Partition!Produce, SettledSet
  <2> QED BY <2>2 DEF Partition!Next
<1>5. ASSUME NEW c \in Consumer, Verify(c) \/ Handle(c)
      PROVE  [Partition!Next]_(Partition!vars)
  <2> DEFINE m == msg[c]
  <2>1. log' = log /\ committed' = committed
    BY <1>5 DEF Verify, Handle
  <2>2. /\ m \in Offset /\ m <= Len(log)
        /\ 1..(m - 1) \subseteq SettledSet
        /\ SettledSet' = SettledSet \/ SettledSet' = SettledSet \cup {m}
    BY <1>5, SettlesOne
  <2> HIDE DEF m
  <2>3. CASE SettledSet' = SettledSet
    BY <1>2, <2>1, <2>3
  <2>4. CASE SettledSet' = SettledSet \cup {m}
    <3>1. m \in 1..MaxLog /\ Partition!Settle(m)
      BY <2>1, <2>2, <2>4 DEF Partition!Settle, SettledSet, Offset
    <3> QED BY <3>1 DEF Partition!Next
  <2> QED BY <2>2, <2>3, <2>4
<1>6. ASSUME NEW c \in Consumer, Commit(c) \/ CommitError(c)
      PROVE  [Partition!Next]_(Partition!vars)
  <2>1. UNCHANGED <<log, SettledSet>>
    BY <1>3, <1>6 DEF Commit, CommitError
  <2>2. CASE committed' = committed
    BY <1>2, <2>1, <2>2
  <2>3. CASE committed' = msg[c]
    <3>1. msg[c] \in 1..Len(log) /\ \A i \in 1..msg[c] : Settled(i)
      BY <1>1, <1>6 DEF Commit, CommitError, TypeOK, ReadersSettle, InHand
    <3>2. msg[c] \in 1..MaxLog /\ 1..msg[c] \subseteq SettledSet
      BY <1>1, <3>1 DEF SettledSet, Offset
    <3>3. Partition!Mark(msg[c])
      BY <2>1, <2>3, <3>1, <3>2 DEF Partition!Mark, SettledSet
    <3> QED BY <3>2, <3>3 DEF Partition!Next
  <2> QED BY <1>6, <2>2, <2>3 DEF Commit, CommitError
<1>7. ASSUME NEW c \in Consumer, Fetch(c) \/ FetchError(c) \/ Crash(c) \/ Start(c) \/ Assign(c)
      PROVE  UNCHANGED Partition!vars
  BY <1>2, <1>3, <1>7 DEF Fetch, FetchError, Crash, Start, Assign
<1>8. CASE UNCHANGED vars
  BY <1>2, <1>3, <1>8 DEF vars
<1> QED BY <1>4, <1>5, <1>6, <1>7, <1>8 DEF Next, Run

\* The processes of a group, with all their failures and reassignments, do what
\* one consumer does that settles the messages in order and marks behind itself.
THEOREM Refinement == Spec => ImplementsDelivery
<1>1. Init => Partition!Init
  BY ConsumerAssumption DEF Init, Partition!Init, Settled, Offset
<1> QED BY <1>1, DeliveryStep, ConsumerInvariance, PTL DEF Spec, ImplementsDelivery, Partition!Spec

-----------------------------------------------------------------------------
(* Every assignment pays for one more handling of a message: the assignee   *)
(* may yet fetch it, or has it in hand, or has handled it.                  *)

\* The processes that may yet handle message i, which they have fetched.
Holders(i) == {c \in Consumer : pc[c] \in {"verify", "handle"} /\ msg[c] = i}

\* One, if the owner of the partition has yet to come to message i.
Ahead(i) == IF owner # Nobody /\ position[owner] < i THEN 1 ELSE 0

Paid(i) ==
    /\ IsFiniteSet(Holders(i))
    /\ handled[i] + Cardinality(Holders(i)) + Ahead(i) <= generation

RepeatsPaid == \A i \in Offset : Paid(i)

\* A reader that does not fetch holds no message it did not hold before.
LEMMA HoldersShrink ==
    ASSUME TypeOK, NEW i \in Offset, Paid(i), NEW D, D \subseteq Holders(i)
    PROVE  /\ IsFiniteSet(D)
           /\ Cardinality(D) \in Nat
           /\ Cardinality(Holders(i)) \in Nat
           /\ Cardinality(D) <= Cardinality(Holders(i))
           /\ D # Holders(i) => Cardinality(D) + 1 <= Cardinality(Holders(i))
<1>1. IsFiniteSet(Holders(i))
  BY DEF Paid
<1>2. /\ IsFiniteSet(D)
      /\ Cardinality(D) <= Cardinality(Holders(i))
      /\ Cardinality(D) = Cardinality(Holders(i)) => D = Holders(i)
  BY <1>1, FS_Subset
<1>3. Cardinality(D) \in Nat /\ Cardinality(Holders(i)) \in Nat
  BY <1>1, <1>2, FS_CardinalityType
<1> QED BY <1>2, <1>3

\* A step that takes no message in hand, handles none, and neither moves the
\* owner back nor changes the group, costs nothing.
LEMMA IdlePaid ==
    ASSUME TypeOK, TypeOK', NEW i \in Offset, Paid(i),
           Holders(i)' \subseteq Holders(i), handled'[i] = handled[i],
           \/ Ahead(i)' <= Ahead(i) /\ generation' = generation
           \/ generation' = generation + 1
    PROVE  Paid(i)'
<1>1. /\ IsFiniteSet(Holders(i)')
      /\ Cardinality(Holders(i)') \in Nat
      /\ Cardinality(Holders(i)) \in Nat
      /\ Cardinality(Holders(i)') <= Cardinality(Holders(i))
  BY HoldersShrink
<1>2. handled[i] \in Nat /\ generation \in Nat /\ Ahead(i) \in {0, 1} /\ Ahead(i)' \in {0, 1}
  BY ConsumerAssumption DEF TypeOK, Ahead
<1>3. handled[i] + Cardinality(Holders(i)) + Ahead(i) <= generation
  BY DEF Paid
<1>4. CASE Ahead(i)' <= Ahead(i) /\ generation' = generation
  <2>1. handled'[i] + Cardinality(Holders(i)') + Ahead(i)' <= generation'
    BY <1>1, <1>2, <1>3, <1>4
  <2> QED BY <1>1, <2>1 DEF Paid
<1>5. CASE generation' = generation + 1
  <2>1. handled'[i] + Cardinality(Holders(i)') + Ahead(i)' <= generation'
    BY <1>1, <1>2, <1>3, <1>5
  <2> QED BY <1>1, <2>1 DEF Paid
<1> QED BY <1>4, <1>5

\* Fetching a message turns the owner's chance to come to it into a message in
\* hand.
LEMMA FetchPaid ==
    ASSUME TypeOK, TypeOK', NEW i \in Offset, Paid(i), NEW c \in Consumer, Fetch(c)
    PROVE  Paid(i)'
<1>1. /\ pc[c] = "fetch" /\ owner = c /\ owner # Nobody
      /\ pc' = [pc EXCEPT ![c] = "verify"]
      /\ position' = [position EXCEPT ![c] = position[c] + 1]
      /\ msg' = [msg EXCEPT ![c] = position[c] + 1]
      /\ UNCHANGED <<owner, generation, handled>>
  BY ConsumerAssumption DEF Fetch, Goto
<1>2. position[c] \in Nat /\ i \in Nat
  BY DEF TypeOK, Offset
<1>3. position'[c] = position[c] + 1 /\ msg'[c] = position[c] + 1 /\ pc'[c] = "verify"
  BY <1>1 DEF TypeOK
<1>4. c \notin Holders(i)
  BY <1>1 DEF Holders
<1>5. CASE i # position[c] + 1
  <2>1. Holders(i)' \subseteq Holders(i)
    BY <1>1, <1>3, <1>5 DEF Holders, TypeOK
  <2>2. Ahead(i)' <= Ahead(i)
    BY <1>1, <1>2, <1>3 DEF Ahead
  <2> QED BY <1>1, <2>1, <2>2, IdlePaid
<1>6. CASE i = position[c] + 1
  <2>1. Holders(i)' = Holders(i) \cup {c}
    BY <1>1, <1>3, <1>6 DEF Holders, TypeOK
  <2>2. /\ IsFiniteSet(Holders(i)')
        /\ Cardinality(Holders(i)') = Cardinality(Holders(i)) + 1
        /\ Cardinality(Holders(i)) \in Nat
    BY <1>4, <2>1, FS_AddElement, FS_CardinalityType DEF Paid
  <2>3. Ahead(i) = 1 /\ Ahead(i)' = 0
    BY <1>1, <1>2, <1>3, <1>6 DEF Ahead
  <2>4. handled[i] \in Nat /\ generation \in Nat
    BY DEF TypeOK
  <2>5. handled'[i] + Cardinality(Holders(i)') + Ahead(i)' <= generation'
    BY <1>1, <2>2, <2>3, <2>4 DEF Paid
  <2> QED BY <2>2, <2>5 DEF Paid
<1> QED BY <1>5, <1>6

\* Handling a message takes it out of hand.
LEMMA HandlePaid ==
    ASSUME TypeOK, TypeOK', NEW i \in Offset, Paid(i), NEW c \in Consumer, Handle(c)
    PROVE  Paid(i)'
<1>1. /\ pc[c] = "handle"
      /\ \/ pc' = [pc EXCEPT ![c] = "commit"]
         \/ pc' = [pc EXCEPT ![c] = "fetch"]
      /\ \/ handled' = [handled EXCEPT ![msg[c]] = handled[msg[c]] + 1]
         \/ handled' = handled
      /\ UNCHANGED <<owner, generation, position, msg>>
  BY DEF Handle, Goto, PassOver
<1>2. Holders(i)' \subseteq Holders(i) \ {c}
  BY <1>1 DEF Holders, TypeOK
<1>3. Ahead(i)' = Ahead(i) /\ Ahead(i) \in {0, 1}
  BY <1>1 DEF Ahead
<1>4. CASE handled'[i] = handled[i]
  BY <1>1, <1>2, <1>3, <1>4, IdlePaid
<1>5. CASE handled'[i] # handled[i]
  <2>1. i = msg[c] /\ handled'[i] = handled[i] + 1
    BY <1>1, <1>5 DEF TypeOK
  <2>2. c \in Holders(i)
    BY <1>1, <2>1 DEF Holders
  <2>3. /\ IsFiniteSet(Holders(i)')
        /\ Cardinality(Holders(i)') \in Nat
        /\ Cardinality(Holders(i)) \in Nat
        /\ Cardinality(Holders(i)') + 1 <= Cardinality(Holders(i))
    <3>1. Holders(i)' \subseteq Holders(i) /\ Holders(i)' # Holders(i)
      BY <1>2, <2>2
    <3> QED BY <3>1, HoldersShrink
  <2>4. handled[i] \in Nat /\ generation \in Nat
    BY DEF TypeOK
  <2>5. handled'[i] + Cardinality(Holders(i)') + Ahead(i)' <= generation'
    BY <1>1, <1>3, <2>1, <2>3, <2>4 DEF Paid
  <2> QED BY <2>3, <2>5 DEF Paid
<1> QED BY <1>4, <1>5

LEMMA RepeatsStep ==
    ASSUME ConsumerInv, RepeatsPaid, [Next]_vars
    PROVE  RepeatsPaid'
<1> SUFFICES ASSUME NEW i \in Offset PROVE Paid(i)'
  BY DEF RepeatsPaid
<1>1. Paid(i)
  BY DEF RepeatsPaid
<1>2. TypeOK /\ TypeOK'
  BY ConsumerTypeStep DEF ConsumerInv
<1>3. Ahead(i) \in Nat
  BY DEF Ahead
<1>4. CASE Produce \/ UNCHANGED vars
  <2>1. UNCHANGED <<pc, msg, owner, position, handled, generation>>
    BY <1>4 DEF Produce, vars
  <2>2. Holders(i)' = Holders(i) /\ Ahead(i)' = Ahead(i)
    BY <2>1 DEF Holders, Ahead
  <2> QED BY <1>1, <2>1, <2>2 DEF Paid
<1>5. ASSUME NEW c \in Consumer,
             \/ FetchError(c) \/ Verify(c) \/ Commit(c) \/ CommitError(c) \/ Start(c)
      PROVE  Paid(i)'
  <2>1. UNCHANGED <<owner, position, handled, generation, msg>>
    BY <1>5 DEF FetchError, Verify, Commit, CommitError, Start
  <2>2. Holders(i)' \subseteq Holders(i)
    BY <1>2, <1>5, <2>1 DEF FetchError, Verify, PassOver, Commit, CommitError, Start,
                            Goto, Holders, TypeOK
  <2>3. Ahead(i)' <= Ahead(i)
    BY <1>3, <2>1 DEF Ahead
  <2> QED BY <1>1, <1>2, <2>1, <2>2, <2>3, IdlePaid
<1>6. ASSUME NEW c \in Consumer, Crash(c) \/ Assign(c)
      PROVE  Paid(i)'
  <2>1. handled' = handled /\ generation' = generation + 1
    BY <1>6 DEF Crash, Assign
  <2>2. Holders(i)' \subseteq Holders(i)
    BY <1>2, <1>6 DEF Crash, Assign, Goto, Holders, TypeOK
  <2> QED BY <1>1, <1>2, <2>1, <2>2, IdlePaid
<1> QED BY <1>1, <1>2, <1>4, <1>5, <1>6, FetchPaid, HandlePaid DEF Next, Run

\* A message is handled again only because the partition was assigned again or
\* a process died, whatever failed: Run passes a message to its handler once
\* for each time it fetches it, and never fetches behind itself.
THEOREM RepeatsPaidFor == Spec => []RepeatsBounded
<1>1. Init => RepeatsPaid
  <2> SUFFICES ASSUME Init, NEW i \in Offset PROVE Paid(i)
    BY DEF RepeatsPaid
  <2>1. Holders(i) = {} /\ Ahead(i) = 0 /\ handled[i] = 0 /\ generation = 0
    BY DEF Init, Holders, Ahead
  <2> QED BY <2>1, FS_EmptySet DEF Paid
<1>2. ConsumerInv /\ RepeatsPaid /\ [Next]_vars => RepeatsPaid'
  BY RepeatsStep
<1>3. ConsumerInv /\ RepeatsPaid => RepeatsBounded
  <2> SUFFICES ASSUME ConsumerInv, RepeatsPaid, NEW i \in Offset
               PROVE  handled[i] <= generation
    BY DEF RepeatsBounded
  <2>1. Cardinality(Holders(i)) \in Nat /\ Ahead(i) \in Nat
    BY FS_CardinalityType DEF RepeatsPaid, Paid, Ahead
  <2>2. handled[i] \in Nat /\ generation \in Nat
    BY DEF ConsumerInv, TypeOK
  <2>3. handled[i] + Cardinality(Holders(i)) + Ahead(i) <= generation
    BY DEF RepeatsPaid, Paid
  <2> QED BY <2>1, <2>2, <2>3
<1> QED BY <1>1, <1>2, <1>3, ConsumerInvariance, PTL DEF Spec
=============================================================================
