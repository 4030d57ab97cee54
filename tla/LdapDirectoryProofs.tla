------------------------ MODULE LdapDirectoryProofs ------------------------
(***************************************************************************)
(* Proofs about LdapDirectory, for any users, domains, photos, events and  *)
(* crashes.  Where a user's document goes depends on its domain alone.     *)
(* While events are handled again the directory may be behind or ahead;    *)
(* but an event that settles a user makes both agree, and between two such *)
(* events a user can only go, once and for all, so that handling an event  *)
(* again takes nothing that handling it once would have left.              *)
(***************************************************************************)
EXTENDS LdapDirectory, TLAPS

Directories == [User -> Document \cup {Absent}]

\* Each state of the directory in once is the one before it, and its event.
OnceChain == \A i \in 1..Len(topic) : once[i] = Handled(once[i - 1], topic[i])

LdapInv == TypeOK /\ OnceChain /\ OnceMonotone /\ Converging

\* Where the event takes a user who is in domain d, or Absent.
After(e, u, d) ==
    CASE e.action = "provisioned"   -> IF e.user = u THEN e.domain ELSE d
      [] e.action = "deleted"       -> IF e.user = u THEN Absent ELSE d
      [] e.action = "configChanged" -> IF e.domain = d THEN Absent ELSE d
      [] e.action = "other"         -> d

-----------------------------------------------------------------------------
(* What one event does.                                                    *)

LEMMA EventKinds ==
    ASSUME NEW e \in Event
    PROVE  \/ e.action = "provisioned" /\ e.user \in User /\ e.domain \in Domain
           \/ e.action = "deleted" /\ e.user \in User
           \/ e.action = "configChanged" /\ e.domain \in Domain
           \/ e.action = "other"
BY DEF Event

LEMMA DocumentPresent ==
    ASSUME NEW d \in Domain, NEW p \in Photo \cup {NoPhoto}
    PROVE  /\ [domain |-> d, photo |-> p] \in Document
           /\ [domain |-> d, photo |-> p] # Absent
BY DirectoryAssumption DEF Document

\* Every kind of event keeps the directory well formed, moves each user as After
\* has it, and leaves the documents of users it does not concern alone.
LEMMA HandledDoes ==
    ASSUME NEW dir \in Directories, NEW e \in Event
    PROVE  /\ Handled(dir, e) \in Directories
           /\ \A u \in User : /\ DomainOf(Handled(dir, e), u) = After(e, u, DomainOf(dir, u))
                              /\ ~Concerns(e, u) => Handled(dir, e)[u] = dir[u]
<1> DEFINE H == Handled(dir, e)
<1>1. CASE e.action = "provisioned"
  <2> DEFINE p == IF dir[e.user] = Absent THEN NoPhoto ELSE dir[e.user].photo
             doc == [domain |-> e.domain, photo |-> p]
  <2>1. e.user \in User /\ e.domain \in Domain
    BY <1>1, EventKinds
  <2>2. p \in Photo \cup {NoPhoto}
    BY <2>1 DEF Directories, Document
  <2>3. H = [dir EXCEPT ![e.user] = doc]
    BY <1>1 DEF Handled, UpsertUser
  <2> HIDE DEF p
  <2>4. doc \in Document /\ doc # Absent /\ doc.domain = e.domain
    BY <2>1, <2>2, DocumentPresent
  <2> HIDE DEF doc, H
  <2>5. H \in Directories
    BY <2>1, <2>3, <2>4 DEF Directories
  <2>6. ASSUME NEW u \in User
        PROVE  /\ DomainOf(H, u) = After(e, u, DomainOf(dir, u))
               /\ ~Concerns(e, u) => H[u] = dir[u]
    BY <1>1, <2>1, <2>3, <2>4 DEF Directories, DomainOf, After, Concerns, Settles
  <2> QED BY <2>5, <2>6 DEF H
<1>2. CASE e.action = "deleted"
  <2>1. e.user \in User
    BY <1>2, EventKinds
  <2>2. H = [dir EXCEPT ![e.user] = Absent]
    BY <1>2 DEF Handled, RemoveUser
  <2> HIDE DEF H
  <2>3. H \in Directories
    BY <2>1, <2>2 DEF Directories
  <2>4. ASSUME NEW u \in User
        PROVE  /\ DomainOf(H, u) = After(e, u, DomainOf(dir, u))
               /\ ~Concerns(e, u) => H[u] = dir[u]
    BY <1>2, <2>1, <2>2 DEF Directories, DomainOf, After, Concerns, Settles
  <2> QED BY <2>3, <2>4 DEF H
<1>3. CASE e.action = "configChanged"
  <2>1. H = [u \in User |-> IF InDomain(dir, u, e.domain) THEN Absent ELSE dir[u]]
    BY <1>3 DEF Handled, ClearDomain
  <2>2. e.domain # Absent
    BY <1>3, EventKinds, DirectoryAssumption
  <2> HIDE DEF H
  <2>3. H \in Directories
    BY <2>1 DEF Directories
  <2>4. ASSUME NEW u \in User
        PROVE  /\ DomainOf(H, u) = After(e, u, DomainOf(dir, u))
               /\ ~Concerns(e, u) => H[u] = dir[u]
    BY <1>3, <2>1, <2>2 DEF InDomain, DomainOf, After, Concerns
  <2> QED BY <2>3, <2>4 DEF H
<1>4. CASE e.action = "other"
  BY <1>4 DEF Handled, After, Concerns
<1> QED BY <1>1, <1>2, <1>3, <1>4, EventKinds

\* What an event leaves of a user that it does not settle.
LEMMA AfterStays ==
    ASSUME NEW e \in Event, NEW u \in User, NEW d, ~Settles(e, u)
    PROVE  /\ After(e, u, d) \in {d, Absent}
           /\ ~Concerns(e, u) => After(e, u, d) = d
BY EventKinds DEF After, Settles, Concerns

\* An event that settles a user takes no account of where the user is.
LEMMA AfterSettles ==
    ASSUME NEW e \in Event, NEW u \in User, NEW c, NEW d, Settles(e, u)
    PROVE  After(e, u, c) = After(e, u, d)
BY DEF After, Settles

\* A user that an event cleared away would not be in its domain afterwards.
LEMMA AfterLeaves ==
    ASSUME NEW e \in Event, NEW u \in User, NEW c, NEW d, ~Settles(e, u),
           After(e, u, d) # d
    PROVE  After(e, u, c) # d \/ d = Absent
BY EventKinds DEF After, Settles

-----------------------------------------------------------------------------
(* Types.                                                                  *)

LEMMA EmptyType == Empty \in Directories
BY DEF Empty, Directories

LEMMA TypeInit == Init => TypeOK
<1> SUFFICES ASSUME Init
             PROVE  TypeOK
  OBVIOUS
<1>1. topic \in Seq(Event) /\ Len(topic) = 0
  BY DEF Init
<1>2. once \in [0..MaxLog -> [User -> Document \cup {Absent}]]
  BY EmptyType DEF Init, Directories
<1>3. directory \in [User -> Document \cup {Absent}]
  BY EmptyType DEF Init, Directories
<1> QED BY <1>1, <1>2, <1>3, DirectoryAssumption DEF Init, TypeOK

\* The event at hand, and how far the process is with it.
LEMMA DeliverType ==
    ASSUME TypeOK, Deliver
    PROVE  /\ topic[position + 1] \in Event
           /\ position' \in Nat /\ high' \in Nat
           /\ committed <= position' /\ position' <= high' /\ high' <= Len(topic)
           /\ high <= high' /\ position + 1 \in 1..high'
BY DEF TypeOK, Deliver, Begun

LEMMA ProduceType ==
    ASSUME TypeOK, NEW e \in Event, Len(topic) < MaxLog,
           topic' = Append(topic, e),
           once' = [once EXCEPT ![Len(topic) + 1] = Handled(once[Len(topic)], e)]
    PROVE  /\ topic' \in Seq(Event) /\ Len(topic') = Len(topic) + 1
           /\ topic'[Len(topic) + 1] = e
           /\ \A i \in 1..Len(topic) : topic'[i] = topic[i]
           /\ once' \in [0..MaxLog -> Directories]
           /\ once'[Len(topic) + 1] = Handled(once[Len(topic)], e)
           /\ \A i \in 0..Len(topic) : once'[i] = once[i]
<1> DEFINE n == Len(topic)
<1>1. n \in 0..MaxLog /\ n + 1 \in 0..MaxLog
  BY DirectoryAssumption DEF TypeOK
<1>2. once[n] \in Directories
  BY <1>1 DEF TypeOK, Directories
<1>3. Handled(once[n], e) \in Directories
  BY <1>2, HandledDoes
<1>4. once \in [0..MaxLog -> Directories]
  BY DEF TypeOK, Directories
<1>5. /\ once' \in [0..MaxLog -> Directories]
      /\ once'[n + 1] = Handled(once[n], e)
      /\ \A i \in 0..n : once'[i] = once[i]
  <2> DEFINE H == Handled(once[n], e)
  <2>1. once' = [once EXCEPT ![n + 1] = H] /\ H \in Directories
    BY <1>3
  <2> HIDE DEF H, n
  <2>2. \A i \in 0..n : i \in 0..MaxLog /\ i # n + 1
    BY <1>1, DirectoryAssumption
  <2>3. once'[n + 1] = H /\ \A i \in 0..n : once'[i] = once[i]
    BY <1>1, <1>4, <2>1, <2>2
  <2> QED BY <1>1, <1>4, <2>1, <2>3 DEF H
<1>6. /\ topic' \in Seq(Event) /\ Len(topic') = n + 1 /\ topic'[n + 1] = e
      /\ \A i \in 1..n : topic'[i] = topic[i]
  BY DEF TypeOK
<1> QED BY <1>5, <1>6

\* The call of a handling that did not come to its end.
LEMMA PartlyDoes ==
    ASSUME directory \in Directories, NEW e \in Event, Partly(e)
    PROVE  /\ directory' \in Directories
           /\ \A u \in User : DomainOf(directory', u)
                 \in {DomainOf(directory, u), After(e, u, DomainOf(directory, u))}
<1>1. PICK U \in SUBSET User :
          directory' = [u \in User |-> IF u \in U THEN Handled(directory, e)[u] ELSE directory[u]]
  BY DEF Partly
<1>2. /\ Handled(directory, e) \in Directories
      /\ \A u \in User :
            DomainOf(Handled(directory, e), u) = After(e, u, DomainOf(directory, u))
  BY HandledDoes
<1> DEFINE H == Handled(directory, e)
<1> HIDE DEF H
<1>3. directory' = [u \in User |-> IF u \in U THEN H[u] ELSE directory[u]]
  BY <1>1 DEF H
<1>4. H \in Directories /\ \A u \in User : DomainOf(H, u) = After(e, u, DomainOf(directory, u))
  BY <1>2 DEF H
<1>5. directory' \in Directories
  BY <1>3, <1>4 DEF Directories
<1>6. \A u \in User : DomainOf(directory', u) \in {DomainOf(directory, u), DomainOf(H, u)}
  BY <1>3 DEF DomainOf
<1> QED BY <1>4, <1>5, <1>6

LEMMA TypeStep == TypeOK /\ [Next]_vars => TypeOK'
<1> SUFFICES ASSUME TypeOK, [Next]_vars
             PROVE  TypeOK'
  OBVIOUS
<1>1. CASE Produce
  <2>1. PICK e \in Event : /\ topic' = Append(topic, e)
                           /\ once' = [once EXCEPT ![Len(topic) + 1] = Handled(once[Len(topic)], e)]
    BY <1>1 DEF Produce
  <2>2. /\ topic' \in Seq(Event) /\ Len(topic') = Len(topic) + 1
        /\ once' \in [0..MaxLog -> [User -> Document \cup {Absent}]]
    BY <1>1, <2>1, ProduceType DEF Produce, Directories
  <2> QED BY <1>1, <2>2, DirectoryAssumption DEF Produce, TypeOK, offsets
<1>2. CASE Handle
  <2>1. Deliver
    BY <1>2 DEF Handle
  <2>2. directory' \in Directories
    BY <1>2, <2>1, DeliverType, HandledDoes DEF Handle, TypeOK, Directories
  <2> QED BY <1>2, <2>1, <2>2, DeliverType DEF Handle, Deliver, TypeOK, log, Directories
<1>3. CASE HandleError
  <2> DEFINE e == topic[position + 1]
  <2>1. Deliver /\ failed' = failed \cup {position + 1}
    BY <1>3 DEF HandleError
  <2>2. Partly(e)
    BY <1>3 DEF HandleError
  <2>3. e \in Event
    BY <2>1, DeliverType
  <2> HIDE DEF e
  <2>4. directory' \in Directories
    BY <2>2, <2>3, PartlyDoes DEF TypeOK, Directories
  <2>5. failed' \subseteq 1..high'
    BY <2>1, DeliverType DEF TypeOK
  <2> QED BY <2>1, <2>4, <2>5, DeliverType DEF Deliver, TypeOK, log, Directories
<1>4. CASE Commit
  <2>1. /\ committed' = position /\ position' = position /\ high' = high
        /\ topic' = topic /\ once' = once /\ failed' = failed
        /\ running' = running /\ crashes' = crashes /\ directory' = directory
    BY <1>4 DEF Commit, log
  <2> QED BY <2>1 DEF TypeOK
<1>5. CASE Crash
  <2>1. /\ committed' = committed /\ position' = position
        /\ topic' = topic /\ once' = once /\ failed' = failed
        /\ running' = FALSE /\ crashes' = crashes + 1 /\ crashes < MaxCrashes
    BY <1>5 DEF Crash, log
  <2>2. crashes' \in 0..MaxCrashes
    BY <2>1, DirectoryAssumption DEF TypeOK
  <2>3. CASE UNCHANGED <<directory, high>>
    BY <2>1, <2>2, <2>3 DEF TypeOK
  <2>4. CASE position < Len(topic) /\ Partly(topic[position + 1]) /\ high' = Begun
    <3>1. topic[position + 1] \in Event
      BY <2>4 DEF TypeOK
    <3>2. directory' \in [User -> Document \cup {Absent}]
      BY <2>4, <3>1, PartlyDoes DEF TypeOK, Directories
    <3>3. high' \in Nat /\ high <= high' /\ high' <= Len(topic)
      BY <2>4 DEF Begun, TypeOK
    <3>4. position <= high' /\ failed \subseteq 1..high'
      BY <3>3 DEF TypeOK
    <3> QED BY <2>1, <2>2, <3>2, <3>3, <3>4 DEF TypeOK
  <2> QED BY <1>5, <2>3, <2>4 DEF Crash
<1>6. CASE Start
  BY <1>6 DEF Start, TypeOK, log
<1>7. ASSUME NEW u \in User, NEW d \in Domain, NEW p \in Photo \cup {NoPhoto}, SetPhoto(u, d, p)
      PROVE  TypeOK'
  <2>1. directory \in Directories
    BY DEF TypeOK, Directories
  <2>2. directory' \in Directories
    <3>1. CASE InDomain(directory, u, d) /\ p # NoPhoto
      <4>1. directory[u] \in Document
        BY <2>1, <3>1 DEF Directories, InDomain
      <4>2. [directory[u] EXCEPT !.photo = p] \in Document
        BY <4>1 DEF Document
      <4>3. directory' = [directory EXCEPT ![u] = [directory[u] EXCEPT !.photo = p]]
        BY <1>7, <3>1 DEF SetPhoto, PhotoSet
      <4> QED BY <2>1, <4>2, <4>3 DEF Directories
    <3>2. CASE ~(InDomain(directory, u, d) /\ p # NoPhoto)
      BY <1>7, <2>1, <3>2 DEF SetPhoto, PhotoSet
    <3> QED BY <3>1, <3>2
  <2> QED BY <1>7, <2>2 DEF SetPhoto, TypeOK, log, offsets, Directories
<1>8. CASE UNCHANGED vars
  BY <1>8 DEF vars, log, offsets, TypeOK
<1> QED BY <1>1, <1>2, <1>3, <1>4, <1>5, <1>6, <1>7, <1>8 DEF Next

-----------------------------------------------------------------------------
(* The states that handling each event once goes through.                  *)

\* Where the directory of once has each user, event by event.
LEMMA OnceStep ==
    ASSUME TypeOK, OnceChain, NEW i \in 1..Len(topic), NEW u \in User
    PROVE  DomainOf(once[i], u) = After(topic[i], u, DomainOf(once[i - 1], u))
<1>1. topic[i] \in Event /\ i - 1 \in 0..MaxLog
  BY DirectoryAssumption DEF TypeOK
<1>2. once[i - 1] \in Directories
  BY <1>1 DEF TypeOK, Directories
<1> QED BY <1>1, <1>2, HandledDoes DEF OnceChain

\* Produce: a further event, handled once, takes a user whom it does not settle
\* nowhere but out of the directory.
LEMMA ProduceOnce ==
    ASSUME TypeOK, OnceChain, OnceMonotone, Produce
    PROVE  OnceChain' /\ OnceMonotone'
<1> DEFINE n == Len(topic)
<1>1. PICK e \in Event : /\ topic' = Append(topic, e)
                         /\ once' = [once EXCEPT ![Len(topic) + 1] = Handled(once[Len(topic)], e)]
  BY DEF Produce
<1>2. /\ topic' \in Seq(Event) /\ Len(topic') = n + 1 /\ topic'[n + 1] = e
      /\ \A i \in 1..n : topic'[i] = topic[i]
      /\ once'[n + 1] = Handled(once[n], e)
      /\ \A i \in 0..n : once'[i] = once[i]
  BY <1>1, ProduceType DEF Produce
<1>3. n \in Nat /\ once[n] \in Directories
  BY DirectoryAssumption DEF TypeOK, Directories
<1> HIDE DEF n
<1>4. OnceChain'
  <2> SUFFICES ASSUME NEW i \in 1..(n + 1)
               PROVE  once'[i] = Handled(once'[i - 1], topic'[i])
    BY <1>2 DEF OnceChain, Handled, UpsertUser, RemoveUser, ClearDomain, InDomain
  <2>1. CASE i = n + 1
    BY <1>2, <1>3, <2>1
  <2>2. CASE i # n + 1
    <3>1. i \in 1..n /\ i \in 0..n /\ i - 1 \in 0..n
      BY <1>3, <2>2
    <3> QED BY <1>2, <3>1 DEF OnceChain, n
  <2> QED BY <2>1, <2>2
<1>5. OnceMonotone'
  <2> SUFFICES ASSUME NEW u \in User, NEW i \in 0..(n + 1), NEW j \in i..(n + 1),
                      \A k \in (i + 1)..j : ~Settles(topic'[k], u)
               PROVE  DomainOf(once'[j], u) \in {DomainOf(once'[i], u), Absent}
    BY <1>2 DEF OnceMonotone, DomainOf, Settles
  <2>1. CASE i = j
    BY <2>1
  <2>2. CASE j # i /\ j \in 0..n
    <3>1. i \in 0..n /\ j \in i..n /\ \A k \in (i + 1)..j : ~Settles(topic[k], u)
      BY <1>2, <1>3, <2>2
    <3> QED BY <1>2, <1>3, <2>2, <3>1 DEF OnceMonotone, n
  <2>3. CASE j # i /\ j \notin 0..n
    <3>1. j = n + 1 /\ i \in 0..n /\ n \in i..n
      BY <1>3, <2>3
    <3>2. (\A k \in (i + 1)..n : ~Settles(topic[k], u)) /\ ~Settles(e, u)
      BY <1>2, <1>3, <3>1
    <3>3. DomainOf(once[n], u) \in {DomainOf(once[i], u), Absent}
      BY <3>1, <3>2 DEF OnceMonotone, n
    <3>4. DomainOf(once'[n + 1], u) \in {DomainOf(once[n], u), Absent}
      BY <1>2, <1>3, <3>2, HandledDoes, AfterStays
    <3> QED BY <1>2, <3>1, <3>3, <3>4
  <2> QED BY <2>1, <2>2, <2>3
<1> QED BY <1>4, <1>5

-----------------------------------------------------------------------------
(* One user, between position and high.                                    *)

\* The part of Converging that is about one user.
OnTheWay(u) ==
    \/ \E i \in (position + 1)..high : Settles(topic[i], u)
    \/ DomainOf(directory, u) \in {DomainOf(once[position], u), DomainOf(once[high], u)}

\* Handle: the event is a new one, and handled in the place of once; or it settles
\* the user; or, handled again, it takes nothing that the events after it need.
LEMMA HandleOnTheWay ==
    ASSUME LdapInv, Handle, NEW u \in User, OnTheWay(u)
    PROVE  OnTheWay(u)'
<1> DEFINE e == topic[position + 1]
           c == DomainOf(directory, u)
           b == DomainOf(once[position], u)
           t == DomainOf(once[high], u)
<1>1. /\ position \in Nat /\ high \in Nat /\ position <= high /\ high <= Len(topic)
      /\ position < Len(topic) /\ Len(topic) \in Nat
      /\ position' = position + 1
      /\ high' = IF position = high THEN high + 1 ELSE high
      /\ topic' = topic /\ once' = once /\ directory' = Handled(directory, e)
  BY DEF LdapInv, TypeOK, Handle, Deliver, Begun, log
<1>2. e \in Event /\ directory \in Directories
  BY <1>1 DEF LdapInv, TypeOK, Directories
<1>3. DomainOf(directory', u) = After(e, u, c)
  BY <1>1, <1>2, HandledDoes
<1>4. DomainOf(once[position + 1], u) = After(e, u, b)
  <2>1. position + 1 \in 1..Len(topic) /\ (position + 1) - 1 = position
    BY <1>1
  <2> QED BY <2>1, OnceStep DEF LdapInv
<1>5. \/ \E i \in (position + 1)..high : Settles(topic[i], u)
      \/ c \in {b, t}
  BY DEF OnTheWay
<1> SUFFICES \/ \E i \in (position + 2)..high' : Settles(topic[i], u)
             \/ After(e, u, c) \in {After(e, u, b), DomainOf(once[high'], u)}
  <2>1. DomainOf(directory, u)' = DomainOf(directory', u)
    BY DEF DomainOf
  <2>2. DomainOf(once[position], u)' = After(e, u, b)
    BY <1>1, <1>4 DEF DomainOf
  <2>3. DomainOf(once[high], u)' = DomainOf(once[high'], u)
    BY <1>1 DEF DomainOf
  <2>4. (\E i \in (position + 2)..high' : Settles(topic[i], u)) =>
            (\E i \in (position + 1)..high : Settles(topic[i], u))'
    BY <1>1 DEF Settles
  <2> HIDE DEF e, c, b, t
  <2> QED BY <1>3, <2>1, <2>2, <2>3, <2>4 DEF OnTheWay
<1>6. CASE position = high
  <2>1. c = b
    BY <1>1, <1>5, <1>6
  <2> QED BY <2>1
<1>7. CASE position # high /\ Settles(e, u)
  BY <1>2, <1>7, AfterSettles
<1>8. CASE position # high /\ ~Settles(e, u)
  <2>1. high' = high /\ position + 1 \in 0..Len(topic) /\ high \in (position + 1)..Len(topic)
    BY <1>1, <1>8
  <2> SUFFICES ASSUME \A i \in (position + 2)..high : ~Settles(topic[i], u)
               PROVE  After(e, u, c) \in {After(e, u, b), t}
    BY <2>1
  <2>2. c \in {b, t}
    <3>1. \A i \in (position + 1)..high : i = position + 1 \/ i \in (position + 2)..high
      BY <1>1
    <3> QED BY <1>5, <1>8, <3>1
  <2>3. t \in {After(e, u, b), Absent}
    <3>1. \A i \in ((position + 1) + 1)..high : ~Settles(topic[i], u)
      BY <1>1
    <3> QED BY <1>4, <2>1, <3>1 DEF LdapInv, OnceMonotone
  <2> HIDE DEF e, c, b, t
  <2>4. CASE c = b
    BY <2>4
  <2>5. CASE c = t /\ After(e, u, t) = t
    BY <2>5
  <2>6. CASE c = t /\ After(e, u, t) # t
    <3>1. After(e, u, t) = Absent
      BY <1>2, <1>8, <2>6, AfterStays
    <3>2. After(e, u, b) # t \/ t = Absent
      BY <1>2, <1>8, <2>6, AfterLeaves
    <3> QED BY <2>3, <2>6, <3>1, <3>2
  <2> QED BY <2>2, <2>4, <2>5, <2>6
<1> QED BY <1>6, <1>7, <1>8

\* HandleError: the calls that failed are those of a user the event concerned, or
\* the event did nothing to the user.
LEMMA ErrorOnTheWay ==
    ASSUME LdapInv, HandleError, NEW u \in User, OnTheWay(u), Unharmed(u)'
    PROVE  OnTheWay(u)'
<1> DEFINE e == topic[position + 1]
           b == DomainOf(once[position], u)
<1>1. /\ position \in Nat /\ high \in Nat /\ position <= high /\ high <= Len(topic)
      /\ position < Len(topic) /\ Len(topic) \in Nat
      /\ position' = position + 1
      /\ high' = IF position = high THEN high + 1 ELSE high
      /\ topic' = topic /\ once' = once /\ failed' = failed \cup {position + 1}
  BY DEF LdapInv, TypeOK, HandleError, Deliver, Begun, log
<1>2. e \in Event /\ directory \in Directories
  BY <1>1 DEF LdapInv, TypeOK, Directories
<1>3. ~Concerns(e, u) /\ ~Settles(e, u)
  BY <1>1 DEF Unharmed, Concerns, Settles
<1>4. directory'[u] = directory[u]
  <2>1. Handled(directory, e)[u] = directory[u]
    BY <1>2, <1>3, HandledDoes
  <2>2. PICK U \in SUBSET User :
            directory' = [v \in User |-> IF v \in U THEN Handled(directory, e)[v] ELSE directory[v]]
    BY DEF HandleError, Partly
  <2> HIDE DEF e
  <2> QED BY <2>1, <2>2
<1>5. DomainOf(once[position + 1], u) = b
  <2>1. position + 1 \in 1..Len(topic) /\ (position + 1) - 1 = position
    BY <1>1
  <2>2. DomainOf(once[position + 1], u) = After(e, u, b)
    BY <2>1, OnceStep DEF LdapInv
  <2> QED BY <1>2, <1>3, <2>2, AfterStays
<1>6. CASE \E i \in (position + 1)..high : Settles(topic[i], u)
  <2>1. PICK i \in (position + 1)..high : Settles(topic[i], u)
    BY <1>6
  <2>2. i \in (position' + 1)..high'
    BY <1>1, <1>3, <2>1
  <2> QED BY <1>1, <2>1, <2>2 DEF OnTheWay, Settles
<1>7. CASE DomainOf(directory, u) \in {b, DomainOf(once[high], u)}
  <2>1. DomainOf(directory, u)' = DomainOf(directory, u)
    BY <1>4 DEF DomainOf
  <2>2. DomainOf(once[position], u)' = b
    BY <1>1, <1>5 DEF DomainOf
  <2>3. CASE position = high
    BY <1>7, <2>1, <2>2, <2>3 DEF OnTheWay
  <2>4. CASE position # high
    <3>1. DomainOf(once[high], u)' = DomainOf(once[high], u)
      BY <1>1, <2>4 DEF DomainOf
    <3> QED BY <1>7, <2>1, <2>2, <3>1 DEF OnTheWay
  <2> QED BY <2>3, <2>4
<1> QED BY <1>6, <1>7 DEF OnTheWay

\* Crash: what was done of the event at hand will be done again, and what it takes
\* of a user whom no event is yet to settle, once has taken in the end.
LEMMA CrashOnTheWay ==
    ASSUME LdapInv, Crash, NEW u \in User, OnTheWay(u)
    PROVE  OnTheWay(u)'
<1> DEFINE e == topic[position + 1]
           c == DomainOf(directory, u)
           b == DomainOf(once[position], u)
           t == DomainOf(once[high], u)
<1>1. topic' = topic /\ once' = once /\ position' = position
  BY DEF Crash, log
<1>2. CASE UNCHANGED <<directory, high>>
  BY <1>1, <1>2 DEF OnTheWay, DomainOf, Settles
<1>3. CASE position < Len(topic) /\ Partly(e) /\ high' = Begun
  <2>1. /\ position \in Nat /\ high \in Nat /\ position <= high /\ high <= Len(topic)
        /\ Len(topic) \in Nat /\ high' = IF position = high THEN high + 1 ELSE high
        /\ e \in Event
    BY <1>3 DEF LdapInv, TypeOK, Begun
  <2>2. DomainOf(directory', u) \in {c, After(e, u, c)}
    BY <1>3, <2>1, PartlyDoes DEF LdapInv, TypeOK, Directories
  <2>3. DomainOf(once[position + 1], u) = After(e, u, b)
    <3>1. position + 1 \in 1..Len(topic) /\ (position + 1) - 1 = position
      BY <1>3, <2>1
    <3> QED BY <3>1, OnceStep DEF LdapInv
  <2> SUFFICES ASSUME \A i \in (position + 1)..high' : ~Settles(topic[i], u)
               PROVE  DomainOf(directory', u) \in {b, DomainOf(once[high'], u)}
    <3>1. DomainOf(directory, u)' = DomainOf(directory', u)
      BY DEF DomainOf
    <3>2. DomainOf(once[position], u)' = b /\ DomainOf(once[high], u)' = DomainOf(once[high'], u)
      BY <1>1 DEF DomainOf
    <3>3. (\E i \in (position + 1)..high' : Settles(topic[i], u)) =>
              (\E i \in (position + 1)..high : Settles(topic[i], u))'
      BY <1>1 DEF Settles
    <3> QED BY <3>1, <3>2, <3>3 DEF OnTheWay
  <2>4. ~Settles(e, u) /\ c \in {b, t}
    BY <2>1 DEF OnTheWay
  <2>5. CASE position = high
    BY <2>1, <2>2, <2>3, <2>4, <2>5
  <2>6. CASE position # high
    <3>1. /\ high' = high /\ position + 1 \in 0..Len(topic)
          /\ high \in (position + 1)..Len(topic)
          /\ \A i \in ((position + 1) + 1)..high : ~Settles(topic[i], u)
      BY <2>1, <2>6
    <3>2. t \in {After(e, u, b), Absent}
      BY <2>3, <3>1 DEF LdapInv, OnceMonotone
    <3>3. After(e, u, c) \in {c, Absent}
      BY <2>1, <2>4, AfterStays
    <3>4. After(e, u, c) # c /\ c = t => After(e, u, b) # t \/ t = Absent
      BY <2>1, <2>4, AfterLeaves
    <3> HIDE DEF b, c, t, e
    <3>5. DomainOf(directory', u) \in {b, t}
      BY <2>2, <2>4, <3>2, <3>3, <3>4
    <3> QED BY <3>1, <3>5 DEF t
  <2> QED BY <2>5, <2>6
<1> QED BY <1>2, <1>3 DEF Crash

\* Start: what is between the last commit and position is handled again, and may
\* settle the user; if nothing there does, the user's way out is monotone.
LEMMA StartOnTheWay ==
    ASSUME LdapInv, Start, NEW u \in User, OnTheWay(u)
    PROVE  OnTheWay(u)'
<1> DEFINE c == DomainOf(directory, u)
           a == DomainOf(once[committed], u)
           b == DomainOf(once[position], u)
           t == DomainOf(once[high], u)
<1>1. /\ committed \in Nat /\ position \in Nat /\ high \in Nat /\ Len(topic) \in Nat
      /\ committed <= position /\ position <= high /\ high <= Len(topic)
      /\ position' = committed /\ high' = high
      /\ topic' = topic /\ once' = once /\ directory' = directory
  BY DEF LdapInv, TypeOK, Start, log
<1> SUFFICES ASSUME \A i \in (committed + 1)..high : ~Settles(topic[i], u)
             PROVE  c \in {a, t}
  BY <1>1 DEF OnTheWay, DomainOf, Settles
<1>2. /\ committed \in 0..Len(topic) /\ position \in committed..Len(topic)
      /\ position \in 0..Len(topic) /\ high \in position..Len(topic)
      /\ \A k \in (committed + 1)..position : ~Settles(topic[k], u)
      /\ \A k \in (position + 1)..high : ~Settles(topic[k], u)
  BY <1>1
<1>3. c \in {b, t}
  BY <1>2 DEF OnTheWay
<1>4. b \in {a, Absent}
  BY <1>2 DEF LdapInv, OnceMonotone
<1>5. t \in {b, Absent}
  BY <1>2 DEF LdapInv, OnceMonotone
<1> HIDE DEF a, b, c, t
<1> QED BY <1>3, <1>4, <1>5

\* SetPhoto: a photo moves nobody.
LEMMA PhotoMovesNobody ==
    ASSUME TypeOK, NEW u \in User, NEW d \in Domain, NEW p \in Photo \cup {NoPhoto},
           SetPhoto(u, d, p), NEW v \in User
    PROVE  DomainOf(directory', v) = DomainOf(directory, v)
<1>1. directory \in Directories
  BY DEF TypeOK, Directories
<1>2. CASE InDomain(directory, u, d) /\ p # NoPhoto
  <2>1. directory[u] \in Document /\ directory[u] # Absent
    BY <1>1, <1>2 DEF Directories, InDomain
  <2>2. [directory[u] EXCEPT !.photo = p] = [domain |-> directory[u].domain, photo |-> p]
    BY <2>1 DEF Document
  <2>3. directory' = [directory EXCEPT ![u] = [directory[u] EXCEPT !.photo = p]]
    BY <1>2 DEF SetPhoto, PhotoSet
  <2>4. directory[u].domain \in Domain
    BY <2>1 DEF Document
  <2>5. [domain |-> directory[u].domain, photo |-> p] # Absent
    BY <2>4, DocumentPresent
  <2> QED BY <1>1, <2>1, <2>2, <2>3, <2>5 DEF Directories, DomainOf
<1>3. CASE ~(InDomain(directory, u, d) /\ p # NoPhoto)
  BY <1>3 DEF SetPhoto, PhotoSet
<1> QED BY <1>2, <1>3

-----------------------------------------------------------------------------
(* The invariant.                                                          *)

\* All users of Converging.
LEMMA ConvergingIs == Converging <=> \A u \in User : Unharmed(u) => OnTheWay(u)
BY DEF Converging, OnTheWay

\* An event that failed stays failed.
LEMMA UnharmedStays ==
    ASSUME TypeOK, [Next]_vars, NEW u \in User, Unharmed(u)'
    PROVE  Unharmed(u)
<1>1. failed \subseteq failed' /\ \A i \in failed : topic'[i] = topic[i]
  <2>1. CASE Produce
    <3>1. PICK e \in Event : topic' = Append(topic, e)
      BY <2>1 DEF Produce
    <3>2. \A i \in 1..Len(topic) : topic'[i] = topic[i]
      BY <3>1 DEF TypeOK
    <3>3. \A i \in failed : i \in 1..Len(topic)
      BY DEF TypeOK
    <3> QED BY <2>1, <3>2, <3>3 DEF Produce
  <2>2. CASE Handle \/ HandleError \/ Commit \/ Crash \/ Start
    BY <2>2 DEF Handle, HandleError, Deliver, Commit, Crash, Start, log
  <2>3. ASSUME NEW v \in User, NEW d \in Domain, NEW p \in Photo \cup {NoPhoto}, SetPhoto(v, d, p)
        PROVE  failed \subseteq failed' /\ \A i \in failed : topic'[i] = topic[i]
    BY <2>3 DEF SetPhoto, log
  <2>4. CASE UNCHANGED vars
    BY <2>4 DEF vars, log
  <2> QED BY <2>1, <2>2, <2>3, <2>4 DEF Next
<1> QED BY <1>1 DEF Unharmed, Concerns, Settles

LEMMA InvInit == Init => LdapInv
<1> SUFFICES ASSUME Init
             PROVE  LdapInv
  OBVIOUS
<1>1. Len(topic) = 0 /\ position = 0 /\ high = 0 /\ directory = Empty /\ once[0] = Empty
  BY DirectoryAssumption DEF Init
<1>2. OnceChain
  BY <1>1 DEF OnceChain
<1>3. OnceMonotone
  BY <1>1 DEF OnceMonotone
<1>4. Converging
  BY <1>1 DEF Converging
<1> QED BY <1>2, <1>3, <1>4, TypeInit DEF LdapInv

\* The topic and once are those before it, but for what Produce adds at their ends.
LEMMA OnceInvStep == LdapInv /\ [Next]_vars => OnceChain' /\ OnceMonotone'
<1> SUFFICES ASSUME LdapInv, [Next]_vars
             PROVE  OnceChain' /\ OnceMonotone'
  OBVIOUS
<1>1. CASE Produce
  BY <1>1, ProduceOnce DEF LdapInv
<1>2. CASE UNCHANGED log
  <2>1. topic' = topic /\ once' = once
    BY <1>2 DEF log
  <2>2. OnceChain'
    BY <2>1 DEF LdapInv, OnceChain, Handled, UpsertUser, RemoveUser, ClearDomain, InDomain
  <2>3. OnceMonotone'
    BY <2>1 DEF LdapInv, OnceMonotone, DomainOf, Settles
  <2> QED BY <2>2, <2>3
<1>3. Produce \/ UNCHANGED log
  BY DEF Next, vars, Handle, HandleError, Deliver, Commit, Crash, Start, SetPhoto
<1> QED BY <1>1, <1>2, <1>3

LEMMA InvStep == LdapInv /\ [Next]_vars => LdapInv'
<1> SUFFICES ASSUME LdapInv, [Next]_vars
             PROVE  LdapInv'
  OBVIOUS
<1>1. TypeOK /\ TypeOK'
  BY TypeStep DEF LdapInv
<1>2. ASSUME NEW u \in User, Unharmed(u)'
      PROVE  OnTheWay(u)'
  <2>1. OnTheWay(u)
    BY <1>1, <1>2, UnharmedStays, ConvergingIs DEF LdapInv
  <2>2. CASE Produce
    <3>1. PICK e \in Event : /\ topic' = Append(topic, e)
                             /\ once' = [once EXCEPT ![Len(topic) + 1] = Handled(once[Len(topic)], e)]
      BY <2>2 DEF Produce
    <3>2. /\ \A i \in 1..Len(topic) : topic'[i] = topic[i]
          /\ \A i \in 0..Len(topic) : once'[i] = once[i]
      BY <1>1, <2>2, <3>1, ProduceType DEF Produce
    <3>3. /\ position \in 0..Len(topic) /\ high \in 0..Len(topic)
          /\ \A i \in (position + 1)..high : i \in 1..Len(topic)
      BY <1>1 DEF TypeOK
    <3>4. position' = position /\ high' = high /\ directory' = directory
      BY <2>2 DEF Produce, offsets
    <3> QED BY <2>1, <3>2, <3>3, <3>4 DEF OnTheWay, DomainOf, Settles
  <2>3. CASE Handle
    BY <2>1, <2>3, HandleOnTheWay
  <2>4. CASE HandleError
    BY <1>2, <2>1, <2>4, ErrorOnTheWay
  <2>5. CASE Start
    BY <2>1, <2>5, StartOnTheWay
  <2>6. CASE UNCHANGED <<log, position, high, directory>>
    BY <2>1, <2>6 DEF OnTheWay, DomainOf, Settles, log
  <2>7. CASE Commit \/ UNCHANGED vars
    BY <2>6, <2>7 DEF Commit, vars, offsets
  <2>8. ASSUME NEW v \in User, NEW d \in Domain, NEW p \in Photo \cup {NoPhoto}, SetPhoto(v, d, p)
        PROVE  OnTheWay(u)'
    <3>1. DomainOf(directory', u) = DomainOf(directory, u)
      BY <1>1, <2>8, PhotoMovesNobody
    <3>2. topic' = topic /\ once' = once /\ position' = position /\ high' = high
      BY <2>8 DEF SetPhoto, log, offsets
    <3>3. DomainOf(directory, u)' = DomainOf(directory', u)
      BY DEF DomainOf
    <3>4. /\ DomainOf(once[position], u)' = DomainOf(once[position], u)
          /\ DomainOf(once[high], u)' = DomainOf(once[high], u)
      BY <3>2 DEF DomainOf
    <3>5. (\E i \in (position + 1)..high : Settles(topic[i], u))
              => (\E i \in (position + 1)..high : Settles(topic[i], u))'
      BY <3>2 DEF Settles
    <3> QED BY <2>1, <3>1, <3>3, <3>4, <3>5 DEF OnTheWay
  <2>9. CASE Crash
    BY <2>1, <2>9, CrashOnTheWay
  <2> QED BY <2>2, <2>3, <2>4, <2>5, <2>7, <2>8, <2>9 DEF Next
<1>3. Converging'
  <2>1. Converging' <=> \A u \in User : Unharmed(u)' => OnTheWay(u)'
    BY DEF Converging, OnTheWay
  <2> QED BY <1>2, <2>1
<1> QED BY <1>1, <1>3, OnceInvStep DEF LdapInv

LEMMA LdapInvariance == Spec => []LdapInv
<1> QED BY InvInit, InvStep, PTL DEF Spec

\* Whatever is handled again and whatever fails: types, and each user whom no
\* failed event concerned is where handling once has them, now or at high, or an
\* event yet to be handled again settles them (ldap.service.ts upsertUser,
\* removeUser and clearDomain, under the offsets of ldap.consumer.ts).
THEOREM DirectoryInvariance == Spec => []DirectoryInv
<1>1. LdapInv => DirectoryInv
  BY DEF LdapInv, DirectoryInv
<1> QED BY <1>1, LdapInvariance, PTL

\* A directory that has caught up, after any number of crashes, has each user
\* whom no failed event concerned where the topic, handled once, puts them.
THEOREM RedeliveryHarmless == Spec => []FollowsTopic
<1>1. LdapInv => FollowsTopic
  <2> SUFFICES ASSUME LdapInv, position = high, NEW u \in User, Unharmed(u)
               PROVE  DomainOf(directory, u) = DomainOf(once[high], u)
    BY DEF FollowsTopic
  <2>1. OnTheWay(u)
    BY ConvergingIs DEF LdapInv
  <2>2. ~\E i \in (position + 1)..high : Settles(topic[i], u)
    BY DEF LdapInv, TypeOK
  <2> QED BY <2>1, <2>2 DEF OnTheWay
<1> QED BY <1>1, LdapInvariance, PTL

=============================================================================
