------------------------ MODULE PasswordVaultProofs ------------------------
(***************************************************************************)
(* Proofs about PasswordVault, for any requests, places and failures.      *)
(*                                                                         *)
(* The first half is about writes.  What keeps a row in one piece is that  *)
(* an upsert holds the lock of the row it is about to overwrite, and that  *)
(* the other writers wait for it; what keeps places apart is the           *)
(* constraint, where it is installed.  The second half is about removals   *)
(* of duplicates when nobody else writes: the row with the highest id of a *)
(* label is never removed, and is the one that every removal keeps.        *)
(***************************************************************************)
EXTENDS PasswordVault, WellFoundedInduction, TLAPS

Counts == [imported : Nat, skipped : Nat, errors : Nat, removed : Nat]

\* The request has contents that it may write.
Writing(r) == pc[r] \in {"select", "upsert"} \/ (pc[r] \in {"find", "write"} /\ op[r] = "update")

\* An upsert that found a row holds it, and it is still that row.
Holds(r) ==
    /\ locks[target[r]] = r
    /\ target[r] \in Live
    /\ rows[target[r]].user = user[r] /\ rows[target[r]].place = body[r].place

\* What is known of a request at its pc.
AtPc(r) ==
    /\ pc[r] \in {"select", "upsert"} => op[r] \in {"create", "import"}
    /\ pc[r] = "next" => op[r] = "import"
    /\ pc[r] \in {"find", "write"} => op[r] \in {"update", "delete"} /\ target[r] \in Id
    /\ pc[r] = "remove" => target[r] \in Id
    /\ Writing(r) => body[r] \in Body /\ Filled(r) \in asked
    /\ pc[r] = "upsert" /\ target[r] # 0 => Holds(r)
    /\ pc[r] = "write" => target[r] <= seq
    /\ pc[r] = "publish" =>
          /\ target[r] \in 1..seq
          /\ op[r] = "delete" => target[r] \notin Live /\ remover[target[r]] = r

LocksHeld == \A i \in Id : locks[i] # Free => pc[locks[i]] = "upsert"

\* What was removed had an id, and is not there.
RemovedStay == \A i \in Id : remover[i] # Free => i <= seq /\ i \notin Live

TableInv ==
    /\ UniqueKey => OnePerPlace
    /\ \A i \in Live : i <= seq
    /\ Untorn
    /\ LocksHeld
    /\ \A e \in events : e.id <= seq
    /\ RemovedStay
    /\ DeletedIsGone

WritesInv == TypeOK /\ TableInv /\ \A r \in Request : AtPc(r)

\* Of the rows with its user and label, k has the highest id.
Top(k) ==
    /\ k \in Live
    /\ \A j \in Live : rows[j].user = rows[k].user /\ LabelOf(j) = LabelOf(k) => j <= k

\* Row i, if it is still there, is of the user and label of row k.
Alike(i, k) == i \in Live => rows[i].user = rows[k].user /\ LabelOf(i) = LabelOf(k)

\* What is known of a removal when there are only removals.
AtDedup(r) ==
    /\ pc[r] \in {"new", "analyze", "group", "compare", "remove", "done"}
    /\ \A g \in groups[r] : /\ g # {} /\ Top(Max(g))
                            /\ \A i \in g : Alike(i, Max(g))
    /\ pc[r] \in {"compare", "remove"} =>
          /\ Top(kept[r].id)
          /\ kept[r].reads = Seen(rows[kept[r].id].secret)
          /\ \A i \in rest[r] : i < kept[r].id /\ Alike(i, kept[r].id)
    /\ pc[r] = "remove" =>
          /\ target[r] \in Id /\ target[r] < kept[r].id
          /\ Alike(target[r], kept[r].id)
          /\ target[r] \in Live => Seen(rows[target[r]].secret) = kept[r].reads

DedupInv == \A r \in Request : AtDedup(r)

-----------------------------------------------------------------------------
(* The greatest element of a set of ids.                                   *)

NatLess == {p \in Nat \X Nat : p[1] < p[2]}

LEMMA NatLessWellFounded == IsWellFoundedOn(NatLess, Nat)
BY NatLessThanWellFounded DEF NatLess, OpToRel

\* A nonempty set of naturals with an upper bound has a greatest element: the
\* distances of its elements from the bound have a least one.
LEMMA MaxIs ==
    ASSUME NEW n \in Nat, NEW S \in SUBSET (0..n), S # {}
    PROVE  Max(S) \in S /\ \A y \in S : y <= Max(S)
<1> DEFINE T == {t \in 0..n : n - t \in S}
<1>1. T \subseteq Nat
  OBVIOUS
<1>2. T # {}
  <2>1. PICK x \in S : TRUE
    OBVIOUS
  <2>2. n - x \in 0..n /\ n - (n - x) = x
    OBVIOUS
  <2>3. n - x \in T
    BY <2>1, <2>2
  <2> QED BY <2>3
<1>3. PICK t \in T : \A y \in T : ~(<<y, t>> \in NatLess)
  <2> HIDE DEF T
  <2> QED BY <1>1, <1>2, NatLessWellFounded, WFMin
<1>4. \A y \in T : t <= y
  <2> TAKE y \in T
  <2>1. t \in Nat /\ y \in Nat /\ <<y, t>> \notin NatLess
    BY <1>1, <1>3
  <2>2. ~(y < t)
    BY <2>1 DEF NatLess
  <2> QED BY <2>1, <2>2
<1>5. n - t \in S
  OBVIOUS
<1>6. \A y \in S : n - t >= y
  <2> TAKE y \in S
  <2>1. n - y \in 0..n /\ n - (n - y) = y
    OBVIOUS
  <2>2. t <= n - y
    BY <1>4, <2>1
  <2> QED BY <2>2
<1>7. Max(S) \in S /\ \A y \in S : Max(S) >= y
  BY <1>5, <1>6 DEF Max
<1>8. S \subseteq Int
  OBVIOUS
<1> QED BY <1>7, <1>8

LEMMA MaxOfIds ==
    ASSUME NEW S \in SUBSET Id, S # {}
    PROVE  Max(S) \in S /\ Max(S) \in Id /\ \A y \in S : y <= Max(S)
<1>1. MaxId \in Nat /\ S \subseteq 0..MaxId
  BY VaultAssumption DEF Id
<1> QED BY <1>1, MaxIs

-----------------------------------------------------------------------------
(* Pieces of steps.                                                        *)

Pcs == {"new", "next", "select", "upsert", "publish", "find", "write",
        "analyze", "group", "compare", "remove", "done"}

\* Which requests a failed or refused one goes on to.
LEMMA RefusedDoes ==
    ASSUME TypeOK, NEW r \in Request, NEW why, Refused(r, why)
    PROVE  /\ tally' \in [Request -> Counts]
           /\ \/ pc' = [pc EXCEPT ![r] = "next"] /\ op[r] = "import"
              \/ pc' = [pc EXCEPT ![r] = "done"]
<1>1. tally \in [Request -> Counts]
  BY DEF TypeOK, Counts
<1>2. CASE op[r] = "import"
  <2>1. tally' = [tally EXCEPT ![r] = [tally[r] EXCEPT ![Column(why)] = @ + 1]] /\ Goto(r, "next")
    BY <1>2 DEF Refused
  <2>2. [tally[r] EXCEPT ![Column(why)] = @ + 1] \in Counts
    <3>1. tally[r] \in Counts
      BY <1>1
    <3>2. CASE why = "unique"
      <4>1. [tally[r] EXCEPT ![Column(why)] = @ + 1] = [tally[r] EXCEPT !.skipped = @ + 1]
        BY <3>2 DEF Column
      <4> QED BY <3>1, <4>1 DEF Counts
    <3>3. CASE why # "unique"
      <4>1. [tally[r] EXCEPT ![Column(why)] = @ + 1] = [tally[r] EXCEPT !.errors = @ + 1]
        BY <3>3 DEF Column
      <4> QED BY <3>1, <4>1 DEF Counts
    <3> QED BY <3>2, <3>3
  <2> QED BY <1>1, <1>2, <2>1, <2>2 DEF Goto
<1>3. CASE op[r] # "import"
  BY <1>1, <1>3 DEF Refused, Goto
<1> QED BY <1>2, <1>3

LEMMA AcknowledgedDoes ==
    ASSUME TypeOK, NEW r \in Request, Acknowledged(r)
    PROVE  /\ tally' \in [Request -> Counts]
           /\ \/ pc' = [pc EXCEPT ![r] = "next"] /\ op[r] = "import"
              \/ pc' = [pc EXCEPT ![r] = "done"]
              \/ pc' = [pc EXCEPT ![r] = "publish"]
BY RefusedDoes DEF Acknowledged, Goto, TypeOK, Counts

LEMMA FilledIsRow ==
    ASSUME TypeOK, NEW r \in Request, body[r] \in Body
    PROVE  Filled(r) \in Row /\ Filled(r) # NoRow
           /\ Filled(r).user = user[r] /\ Filled(r).place = body[r].place
BY VaultAssumption DEF TypeOK, Filled, RowOf, Body, Row
-----------------------------------------------------------------------------
(* What a step of r leaves alone.                                          *)

OthersKept(r) ==
    /\ user' = user
    /\ \A q \in Request \ {r} :
          pc'[q] = pc[q] /\ op'[q] = op[q] /\ body'[q] = body[q] /\ target'[q] = target[q]
    /\ seq <= seq' /\ asked \subseteq asked'
    /\ \A i \in Id, q \in Request \ {r} : locks[i] = q =>
          /\ locks'[i] = q
          /\ i \in Live => /\ i \in Live'
                           /\ rows'[i].user = rows[i].user /\ rows'[i].place = rows[i].place
    /\ \A i \in 1..seq : i \notin Live => i \notin Live' /\ remover'[i] = remover[i]

LEMMA OthersAtPc ==
    ASSUME TypeOK, seq' \in 0..MaxId, NEW r \in Request, OthersKept(r),
           NEW q \in Request \ {r}, AtPc(q)
    PROVE  AtPc(q)'
<1>1. pc'[q] = pc[q] /\ op'[q] = op[q] /\ body'[q] = body[q] /\ target'[q] = target[q] /\ user'[q] = user[q]
  BY DEF OthersKept
<1>2. seq \in Nat /\ seq' \in Nat /\ target[q] \in Nat /\ seq <= seq'
  BY DEF TypeOK, OthersKept
<1>3. Writing(q)' => body'[q] \in Body /\ Filled(q)' \in asked'
  BY <1>1 DEF AtPc, Writing, Filled, RowOf, OthersKept
<1>4. pc'[q] = "upsert" /\ target'[q] # 0 => Holds(q)'
  <2> SUFFICES ASSUME pc[q] = "upsert", target[q] # 0
               PROVE  Holds(q)'
    BY <1>1
  <2>1. Holds(q) /\ target[q] \in Id
    BY DEF AtPc, Holds, Live
  <2>2. /\ locks'[target[q]] = q /\ target[q] \in Live'
        /\ rows'[target[q]].user = rows[target[q]].user
        /\ rows'[target[q]].place = rows[target[q]].place
    BY <2>1 DEF Holds, OthersKept
  <2> QED BY <1>1, <2>1, <2>2 DEF Holds
<1>5. pc'[q] = "publish" =>
          /\ target'[q] \in 1..seq'
          /\ op'[q] = "delete" => target'[q] \notin Live' /\ remover'[target'[q]] = q
  <2> SUFFICES ASSUME pc[q] = "publish"
               PROVE  /\ target[q] \in 1..seq'
                      /\ op[q] = "delete" => target[q] \notin Live' /\ remover'[target[q]] = q
    BY <1>1
  <2>1. target[q] \in 1..seq
        /\ (op[q] = "delete" => target[q] \notin Live /\ remover[target[q]] = q)
    BY DEF AtPc
  <2>2. target[q] \notin Live => target[q] \notin Live' /\ remover'[target[q]] = remover[target[q]]
    <3>1. \A i \in 1..seq : i \notin Live => i \notin Live' /\ remover'[i] = remover[i]
      BY DEF OthersKept
    <3> QED BY <2>1, <3>1
  <2> QED BY <1>2, <2>1, <2>2
<1> QED BY <1>1, <1>2, <1>3, <1>4, <1>5 DEF AtPc

\* A lock stays with a request that is between its SELECT and the end of its
\* transaction, and a transaction that ends leaves none.
LEMMA LocksSame ==
    ASSUME TypeOK, LocksHeld, NEW r \in Request, pc[r] # "upsert", locks' = locks,
           \A q \in Request \ {r} : pc'[q] = pc[q]
    PROVE  LocksHeld'
BY DEF LocksHeld, TypeOK

LEMMA LocksFreed ==
    ASSUME TypeOK, LocksHeld, NEW r \in Request, locks' = Unlocked(r),
           \A q \in Request \ {r} : pc'[q] = pc[q]
    PROVE  /\ LocksHeld' /\ locks' \in [Id -> Request \cup {Free}]
           /\ \A i \in Id, q \in Request \ {r} : locks[i] = q => locks'[i] = q
BY DEF LocksHeld, Unlocked, TypeOK

LEMMA TableSame ==
    ASSUME TableInv, rows' = rows, seq' = seq, events' = events, remover' = remover,
           asked \subseteq asked', LocksHeld'
    PROVE  TableInv'
<1>1. Live' = Live
  BY DEF Live
<1>2. (UniqueKey => OnePerPlace)' /\ Untorn' /\ DeletedIsGone' /\ RemovedStay'
  BY <1>1 DEF TableInv, OnePerPlace, Untorn, DeletedIsGone, RemovedStay
<1> QED BY <1>1, <1>2 DEF TableInv

\* All that one step owes to the invariant.
Keeps(r) == TypeOK' /\ TableInv' /\ AtPc(r)' /\ OthersKept(r)

LEMMA KeepsAll ==
    ASSUME WritesInv, NEW r \in Request, Keeps(r)
    PROVE  WritesInv'
<1>1. seq' \in 0..MaxId
  BY DEF Keeps, TypeOK
<1> QED BY <1>1, OthersAtPc DEF WritesInv, Keeps

-----------------------------------------------------------------------------
(* Steps that leave the table alone.                                       *)

LEMMA QuietKeeps ==
    ASSUME WritesInv, NEW r \in Request, TypeOK', AtPc(r)', pc[r] # "upsert",
           rows' = rows, seq' = seq, locks' = locks, events' = events, remover' = remover,
           user' = user, asked \subseteq asked',
           \A q \in Request \ {r} :
              pc'[q] = pc[q] /\ op'[q] = op[q] /\ body'[q] = body[q] /\ target'[q] = target[q]
    PROVE  Keeps(r)
<1>1. LocksHeld'
  BY LocksSame DEF WritesInv, TableInv
<1>2. TableInv'
  BY <1>1, TableSame DEF WritesInv
<1>3. OthersKept(r)
  <2>1. Live' = Live
    BY DEF Live
  <2> QED BY <2>1 DEF OthersKept, WritesInv, TypeOK
<1> QED BY <1>2, <1>3 DEF Keeps

LEMMA ArriveKeeps ==
    ASSUME WritesInv, NEW r \in Request, Arrive(r)
    PROVE  Keeps(r)
<1>1. PICK o \in Operations, i \in Id, n \in 0..MaxItems :
        /\ op' = [op EXCEPT ![r] = o]
        /\ target' = [target EXCEPT ![r] = IF o \in {"update", "delete"} THEN i ELSE 0]
        /\ left' = [left EXCEPT ![r] = IF o = "import" THEN n ELSE 0]
        /\ CASE o = "create" -> Ask(r) /\ Goto(r, "select")
             [] o = "update" -> Ask(r) /\ Goto(r, "find")
             [] o = "delete" -> UNCHANGED <<body, asked>> /\ Goto(r, "find")
             [] o = "import" -> UNCHANGED <<body, asked>> /\ Goto(r, "next")
             [] o = "dedup"  -> UNCHANGED <<body, asked>> /\ Goto(r, "analyze")
  BY DEF Arrive
<1>2. /\ pc[r] = "new" /\ rows' = rows /\ seq' = seq /\ locks' = locks /\ user' = user /\ tally' = tally
      /\ groups' = groups /\ rest' = rest /\ kept' = kept /\ events' = events
      /\ stored' = stored /\ remover' = remover
  BY DEF Arrive, dedup
<1>3. o \in {"create", "update", "delete", "import", "dedup"}
  BY VaultAssumption
<1>4. TypeOK
  BY DEF WritesInv
<1>5. /\ op' \in [Request -> Operations \cup {"none"}]
      /\ target' \in [Request -> 0..MaxId]
      /\ left' \in [Request -> 0..MaxItems]
  BY <1>1, <1>4, VaultAssumption DEF TypeOK, Id
<1>6. CASE o \in {"create", "update"}
  <2>1. PICK b \in Body : body' = [body EXCEPT ![r] = b] /\ asked' = asked \cup {RowOf(user[r], b)}
    BY <1>1, <1>6 DEF Ask
  <2>2. PICK l \in {"select", "find"} : pc' = [pc EXCEPT ![r] = l] /\ (l = "find" <=> o = "update")
    BY <1>1, <1>6 DEF Goto
  <2>3. RowOf(user[r], b) \in Row
    BY <1>4 DEF TypeOK, RowOf, Body, Row
  <2>4. TypeOK'
    <3>1. /\ pc' \in [Request -> Pcs]
          /\ body' \in [Request -> Body \cup {NoRow}]
          /\ asked' \subseteq Row
      BY <1>4, <2>1, <2>2, <2>3 DEF TypeOK, Pcs
    <3> QED BY <1>2, <1>4, <1>5, <3>1 DEF TypeOK, Pcs
  <2>5. AtPc(r)'
    BY <1>1, <1>2, <1>4, <1>6, <2>1, <2>2 DEF AtPc, Writing, Filled, TypeOK
  <2> QED BY <1>1, <1>2, <1>4, <2>1, <2>2, <2>4, <2>5, QuietKeeps DEF TypeOK
<1>7. CASE o \in {"delete", "import", "dedup"}
  <2>1. body' = body /\ asked' = asked
    BY <1>1, <1>7
  <2>2. PICK l \in {"next", "find", "analyze"} :
            pc' = [pc EXCEPT ![r] = l] /\ (l = "find" <=> o = "delete") /\ (l = "next" <=> o = "import")
    BY <1>1, <1>7 DEF Goto
  <2>3. TypeOK'
    BY <1>2, <1>4, <1>5, <2>1, <2>2 DEF TypeOK
  <2>4. AtPc(r)'
    BY <1>1, <1>2, <1>4, <1>7, <2>1, <2>2 DEF AtPc, Writing, TypeOK
  <2> QED BY <1>1, <1>2, <1>4, <2>1, <2>2, <2>3, <2>4, QuietKeeps DEF TypeOK
<1> QED BY <1>3, <1>6, <1>7

LEMMA NextItemKeeps ==
    ASSUME WritesInv, NEW r \in Request, NextItem(r)
    PROVE  Keeps(r)
<1>1. /\ pc[r] = "next" /\ rows' = rows /\ seq' = seq /\ locks' = locks /\ user' = user /\ op' = op
      /\ target' = target /\ tally' = tally
      /\ groups' = groups /\ rest' = rest /\ kept' = kept /\ events' = events
      /\ stored' = stored /\ remover' = remover
  BY DEF NextItem, dedup, request
<1>2. TypeOK /\ op[r] = "import"
  BY <1>1 DEF WritesInv, AtPc
<1>3. CASE left[r] = 0 /\ Goto(r, "done") /\ UNCHANGED <<left, body, asked>>
  <2>1. TypeOK'
    BY <1>1, <1>2, <1>3 DEF TypeOK, Goto
  <2>2. AtPc(r)'
    BY <1>1, <1>2, <1>3 DEF AtPc, Writing, TypeOK, Goto
  <2> QED BY <1>1, <1>2, <1>3, <2>1, <2>2, QuietKeeps DEF TypeOK, Goto
<1>4. CASE /\ left[r] > 0
           /\ left' = [left EXCEPT ![r] = @ - 1]
           /\ Ask(r)
           /\ Goto(r, "select")
  <2>1. PICK b \in Body : body' = [body EXCEPT ![r] = b] /\ asked' = asked \cup {RowOf(user[r], b)}
    BY <1>4 DEF Ask
  <2>2. RowOf(user[r], b) \in Row
    BY <1>2 DEF TypeOK, RowOf, Body, Row
  <2>3. TypeOK'
    BY <1>1, <1>2, <1>4, <2>1, <2>2, VaultAssumption DEF TypeOK, Goto
  <2>4. AtPc(r)'
    BY <1>1, <1>2, <1>4, <2>1 DEF AtPc, Writing, Filled, TypeOK, Goto
  <2> QED BY <1>1, <1>2, <1>4, <2>1, <2>3, <2>4, QuietKeeps DEF TypeOK, Goto
<1> QED BY <1>3, <1>4 DEF NextItem

LEMMA FindKeeps ==
    ASSUME WritesInv, NEW r \in Request, Find(r)
    PROVE  Keeps(r)
<1>1. /\ pc[r] = "find" /\ rows' = rows /\ seq' = seq /\ locks' = locks /\ user' = user /\ op' = op
      /\ target' = target /\ tally' = tally /\ body' = body /\ left' = left /\ asked' = asked
      /\ groups' = groups /\ rest' = rest /\ kept' = kept /\ events' = events
      /\ stored' = stored /\ remover' = remover
  BY DEF Find, dedup, request
<1>2. TypeOK /\ AtPc(r)
  BY DEF WritesInv
<1>3. PICK l \in {"write", "done"} : pc' = [pc EXCEPT ![r] = l] /\ (l = "write" => target[r] \in Live)
  BY DEF Find, Goto, Mine
<1>4. TypeOK'
  BY <1>1, <1>2, <1>3 DEF TypeOK
<1>5. AtPc(r)'
  BY <1>1, <1>2, <1>3 DEF AtPc, Writing, Filled, TypeOK, WritesInv, TableInv
<1> QED BY <1>1, <1>3, <1>4, <1>5, QuietKeeps DEF TypeOK

LEMMA PublishKeeps ==
    ASSUME WritesInv, NEW r \in Request, Publish(r)
    PROVE  Keeps(r)
<1> DEFINE e == [req |-> r, id |-> target[r], action |-> CASE op[r] = "update" -> "updated"
                                                [] op[r] = "delete" -> "deleted"
                                                [] OTHER -> "created"]
<1>1. /\ pc[r] = "publish" /\ rows' = rows /\ seq' = seq /\ locks' = locks /\ user' = user /\ op' = op
      /\ target' = target /\ body' = body /\ left' = left /\ asked' = asked
      /\ groups' = groups /\ rest' = rest /\ kept' = kept /\ events' = events \cup {e}
      /\ stored' = stored /\ remover' = remover
  BY DEF Publish, dedup, request
<1>2. /\ TypeOK /\ TableInv /\ target[r] \in 1..seq
      /\ op[r] = "delete" => target[r] \notin Live /\ remover[target[r]] = r
  BY <1>1 DEF WritesInv, AtPc
<1>3. /\ e \in [req : Request, id : Id, action : {"created", "updated", "deleted"}]
      /\ e.id = target[r] /\ e.req = r
      /\ e.action = "deleted" => op[r] = "delete"
  <2>1. target[r] \in Id
    BY <1>2 DEF TypeOK, Id
  <2> DEFINE a == CASE op[r] = "update" -> "updated"
                    [] op[r] = "delete" -> "deleted"
                    [] OTHER -> "created"
  <2>2. a \in {"created", "updated", "deleted"} /\ (a = "deleted" => op[r] = "delete")
    OBVIOUS
  <2>3. e = [req |-> r, id |-> target[r], action |-> a]
    OBVIOUS
  <2> HIDE DEF a, e
  <2> QED BY <2>1, <2>2, <2>3
<1> HIDE DEF e
<1>4. /\ tally' \in [Request -> Counts]
      /\ \/ pc' = [pc EXCEPT ![r] = "next"] /\ op[r] = "import"
         \/ pc' = [pc EXCEPT ![r] = "done"]
  <2>1. CASE op[r] = "import"
    <3>1. tally' = [tally EXCEPT ![r] = [tally[r] EXCEPT !.imported = @ + 1]] /\ Goto(r, "next")
      BY <2>1 DEF Publish
    <3>2. tally \in [Request -> Counts]
      BY <1>2 DEF TypeOK, Counts
    <3>3. tally[r] \in Counts
      BY <3>2
    <3>4. [tally[r] EXCEPT !.imported = @ + 1] \in Counts
      BY <3>3 DEF Counts
    <3> QED BY <2>1, <3>1, <3>2, <3>4 DEF Goto
  <2>2. CASE op[r] # "import"
    <3>1. tally' = tally /\ Goto(r, "done")
      BY <2>2 DEF Publish
    <3>2. tally \in [Request -> Counts]
      BY <1>2 DEF TypeOK, Counts
    <3> QED BY <3>1, <3>2 DEF Goto
  <2> QED BY <2>1, <2>2
<1>5. TypeOK'
  BY <1>1, <1>2, <1>3, <1>4 DEF TypeOK, Counts
<1>6. AtPc(r)'
  BY <1>1, <1>2, <1>4 DEF AtPc, Writing, TypeOK
<1>7. Live' = Live /\ LocksHeld'
  BY <1>1, <1>2, <1>4, LocksSame DEF Live, TableInv, TypeOK
<1>8. TableInv'
  <2>1. (UniqueKey => OnePerPlace)' /\ Untorn'
    BY <1>1, <1>2, <1>7 DEF TableInv, OnePerPlace, Untorn
  <2>2. DeletedIsGone'
    BY <1>1, <1>2, <1>3, <1>7 DEF TableInv, DeletedIsGone
  <2>3. (\A f \in events' : f.id <= seq') /\ RemovedStay'
    BY <1>1, <1>2, <1>3, <1>7 DEF TableInv, RemovedStay
  <2> QED BY <1>1, <1>2, <1>7, <2>1, <2>2, <2>3 DEF TableInv
<1>9. OthersKept(r)
  BY <1>1, <1>2, <1>4, <1>7 DEF OthersKept, TypeOK
<1> QED BY <1>5, <1>6, <1>8, <1>9 DEF Keeps

LEMMA AnalyzeKeeps ==
    ASSUME WritesInv, NEW r \in Request, Analyze(r)
    PROVE  Keeps(r)
<1>1. /\ pc[r] = "analyze" /\ rows' = rows /\ seq' = seq /\ locks' = locks /\ user' = user /\ op' = op
      /\ target' = target /\ tally' = tally /\ body' = body /\ left' = left /\ asked' = asked
      /\ groups' = [groups EXCEPT ![r] = Duplicates(user[r])] /\ rest' = rest /\ kept' = kept
      /\ events' = events /\ stored' = stored /\ remover' = remover /\ pc' = [pc EXCEPT ![r] = "group"]
  BY DEF Analyze, request, Goto
<1>2. TypeOK /\ AtPc(r)
  BY DEF WritesInv
<1>3. Duplicates(user[r]) \in SUBSET SUBSET Id
  BY DEF Duplicates, Live
<1>4. TypeOK'
  BY <1>1, <1>2, <1>3 DEF TypeOK
<1>5. AtPc(r)'
  BY <1>1, <1>2 DEF AtPc, Writing, TypeOK
<1> QED BY <1>1, <1>2, <1>4, <1>5, QuietKeeps DEF TypeOK

LEMMA NextGroupKeeps ==
    ASSUME WritesInv, NEW r \in Request, NextGroup(r)
    PROVE  Keeps(r)
<1>1. /\ pc[r] = "group" /\ rows' = rows /\ seq' = seq /\ locks' = locks /\ user' = user /\ op' = op
      /\ target' = target /\ tally' = tally /\ body' = body /\ left' = left /\ asked' = asked
      /\ events' = events
      /\ stored' = stored /\ remover' = remover
  BY DEF NextGroup, request
<1>2. TypeOK
  BY DEF WritesInv
<1>3. /\ pc' = pc \/ \E l \in {"compare", "done"} : pc' = [pc EXCEPT ![r] = l]
      /\ groups' \in [Request -> SUBSET SUBSET Id]
      /\ rest' \in [Request -> SUBSET Id]
      /\ kept' \in [Request -> [id : 0..MaxId, reads : Secret \cup {Empty}]]
  <2>1. CASE Goto(r, "done") /\ UNCHANGED dedup
    BY <1>2, <2>1 DEF Goto, dedup, TypeOK
  <2>2. ASSUME NEW g \in groups[r], groups' = [groups EXCEPT ![r] = @ \ {g}],
               Max(g) \in Live,
               kept' = [kept EXCEPT ![r] = [id |-> Max(g), reads |-> Seen(rows[Max(g)].secret)]],
               rest' = [rest EXCEPT ![r] = g \ {Max(g)}],
               Goto(r, "compare")
        PROVE  /\ \E l \in {"compare", "done"} : pc' = [pc EXCEPT ![r] = l]
               /\ groups' \in [Request -> SUBSET SUBSET Id]
               /\ rest' \in [Request -> SUBSET Id]
               /\ kept' \in [Request -> [id : 0..MaxId, reads : Secret \cup {Empty}]]
    <3>1. Max(g) \in 0..MaxId /\ rows[Max(g)] \in Row
      BY <1>2, <2>2, VaultAssumption DEF Live, Id, TypeOK
    <3> DEFINE k == [id |-> Max(g), reads |-> Seen(rows[Max(g)].secret)]
    <3>2. k \in [id : 0..MaxId, reads : Secret \cup {Empty}]
      BY <3>1 DEF Seen, Row
    <3> HIDE DEF k
    <3>3. kept' = [kept EXCEPT ![r] = k]
      BY <2>2 DEF k
    <3>4. /\ groups' \in [Request -> SUBSET SUBSET Id]
          /\ rest' \in [Request -> SUBSET Id]
          /\ kept' \in [Request -> [id : 0..MaxId, reads : Secret \cup {Empty}]]
      BY <1>2, <2>2, <3>2, <3>3 DEF TypeOK
    <3> QED BY <2>2, <3>4 DEF Goto
  <2>3. ASSUME NEW g \in groups[r], groups' = [groups EXCEPT ![r] = @ \ {g}],
               UNCHANGED <<kept, rest, pc>>
        PROVE  /\ pc' = pc
               /\ groups' \in [Request -> SUBSET SUBSET Id]
               /\ rest' \in [Request -> SUBSET Id]
               /\ kept' \in [Request -> [id : 0..MaxId, reads : Secret \cup {Empty}]]
    BY <1>2, <2>3 DEF TypeOK
  <2> QED BY <2>1, <2>2, <2>3 DEF NextGroup
<1>4. TypeOK'
  BY <1>1, <1>2, <1>3 DEF TypeOK
<1>5. AtPc(r)'
  BY <1>1, <1>2, <1>3 DEF AtPc, Writing, TypeOK
<1> QED BY <1>1, <1>2, <1>3, <1>4, <1>5, QuietKeeps DEF TypeOK

LEMMA CompareKeeps ==
    ASSUME WritesInv, NEW r \in Request, Compare(r)
    PROVE  Keeps(r)
<1>1. /\ pc[r] = "compare" /\ rows' = rows /\ seq' = seq /\ locks' = locks /\ user' = user /\ op' = op
      /\ tally' = tally /\ body' = body /\ left' = left /\ asked' = asked
      /\ groups' = groups /\ kept' = kept /\ events' = events
      /\ stored' = stored /\ remover' = remover
  BY DEF Compare, request
<1>2. TypeOK
  BY DEF WritesInv
<1>3. /\ rest' \in [Request -> SUBSET Id]
      /\ \/ pc' = [pc EXCEPT ![r] = "group"] /\ target' = target
         \/ /\ \E i \in Id : target' = [target EXCEPT ![r] = i]
            /\ pc' = pc \/ pc' = [pc EXCEPT ![r] = "remove"]
  <2>1. CASE rest[r] = {}
    BY <1>2, <2>1 DEF Compare, Goto, TypeOK
  <2>2. CASE rest[r] # {}
    <3> DEFINE i == Max(rest[r])
    <3>1. i \in Id
      BY <1>2, <2>2, MaxOfIds DEF TypeOK
    <3>2. /\ rest' = [rest EXCEPT ![r] = @ \ {i}]
          /\ target' = [target EXCEPT ![r] = i]
          /\ pc' = pc \/ Goto(r, "remove")
      BY <2>2 DEF Compare
    <3> HIDE DEF i
    <3> QED BY <1>2, <3>1, <3>2 DEF Goto, TypeOK
  <2> QED BY <2>1, <2>2
<1>4. TypeOK'
  <2>1. target' \in [Request -> 0..MaxId]
    <3>1. Id \subseteq 0..MaxId /\ target \in [Request -> 0..MaxId]
      BY <1>2, VaultAssumption DEF TypeOK, Id
    <3>2. CASE target' = target
      BY <3>1, <3>2
    <3>3. ASSUME NEW i \in Id, target' = [target EXCEPT ![r] = i]
          PROVE  target' \in [Request -> 0..MaxId]
      BY <3>1, <3>3
    <3> QED BY <1>3, <3>2, <3>3
  <2>2. pc' \in [Request -> Pcs]
    BY <1>2, <1>3 DEF TypeOK, Pcs
  <2> QED BY <1>1, <1>2, <1>3, <2>1, <2>2 DEF TypeOK, Pcs
<1>5. AtPc(r)'
  BY <1>1, <1>2, <1>3 DEF AtPc, Writing, TypeOK
<1> QED BY <1>1, <1>2, <1>3, <1>4, <1>5, QuietKeeps DEF TypeOK

-----------------------------------------------------------------------------
(* The steps of a transaction, and those of update and delete.             *)

LEMMA SelectKeeps ==
    ASSUME WritesInv, NEW r \in Request, SelectForUpdate(r)
    PROVE  Keeps(r)
<1> DEFINE found == At(user[r], body[r].place)
<1>1. /\ pc[r] = "select" /\ pc' = [pc EXCEPT ![r] = "upsert"] /\ locks' = LockedBy(r, found)
      /\ \A i \in found : locks[i] = Free
      /\ rows' = rows /\ seq' = seq /\ user' = user /\ op' = op
      /\ tally' = tally /\ body' = body /\ left' = left /\ asked' = asked
      /\ groups' = groups /\ rest' = rest /\ kept' = kept /\ events' = events
      /\ stored' = stored /\ remover' = remover
  BY DEF SelectForUpdate, request, dedup, Goto
<1>2. PICK t \in IF found = {} THEN {0} ELSE found : target' = [target EXCEPT ![r] = t]
  BY DEF SelectForUpdate
<1>3. TypeOK /\ AtPc(r) /\ TableInv
  BY DEF WritesInv
<1>4. found \subseteq Live /\ \A i \in found : rows[i].user = user[r] /\ rows[i].place = body[r].place
  BY DEF At
<1> HIDE DEF found
<1>5. t = 0 \/ t \in found
  BY <1>2
<1>6. /\ locks' \in [Id -> Request \cup {Free}]
      /\ \A i \in Id : locks'[i] = IF i \in found THEN r ELSE locks[i]
  BY <1>1, <1>3 DEF LockedBy, TypeOK
<1>7. Live' = Live
  BY <1>1 DEF Live
<1>8. TypeOK'
  <2>1. target' \in [Request -> 0..MaxId]
    BY <1>2, <1>3, <1>4, <1>5, VaultAssumption DEF TypeOK, Live, Id
  <2> QED BY <1>1, <1>3, <1>6, <2>1 DEF TypeOK
<1>9. AtPc(r)'
  <2>1. Writing(r)' => body'[r] \in Body /\ Filled(r)' \in asked'
    BY <1>1, <1>3 DEF AtPc, Writing, Filled
  <2>2. target'[r] # 0 => Holds(r)'
    BY <1>1, <1>2, <1>3, <1>4, <1>5, <1>6, <1>7 DEF Holds, TypeOK, Live
  <2> QED BY <1>1, <1>3, <2>1, <2>2 DEF AtPc, TypeOK
<1>10. LocksHeld'
  BY <1>1, <1>3, <1>6, VaultAssumption DEF LocksHeld, TableInv, TypeOK
<1>11. TableInv'
  BY <1>1, <1>3, <1>10, TableSame
<1>12. OthersKept(r)
  BY <1>1, <1>2, <1>3, <1>6, <1>7, VaultAssumption DEF OthersKept, TypeOK
<1> QED BY <1>8, <1>9, <1>11, <1>12 DEF Keeps

LEMMA OverwrittenIs ==
    ASSUME NEW w \in Row, NEW s, NEW n
    PROVE  [w EXCEPT !.secret = s, !.username = n]
               = [user |-> w.user, place |-> w.place, username |-> n, secret |-> s]
<1> DEFINE v == [w EXCEPT !.secret = s]
<1>1. v = [user |-> w.user, place |-> w.place, username |-> w.username, secret |-> s]
  BY DEF Row
<1>2. [w EXCEPT !.secret = s, !.username = n] = [v EXCEPT !.username = n]
  OBVIOUS
<1> HIDE DEF v
<1>3. [v EXCEPT !.username = n] = [user |-> w.user, place |-> w.place, username |-> n, secret |-> s]
  BY <1>1
<1> QED BY <1>2, <1>3

\* A row that is there is overwritten with what a request has asked for, at a
\* place that the user has nowhere else.
LEMMA Overwritten ==
    ASSUME TypeOK, TableInv, NEW r \in Request, NEW t \in Live,
           body[r] \in Body, Filled(r) \in asked,
           UniqueKey => At(user[r], body[r].place) \subseteq {t},
           rows' = [rows EXCEPT ![t] = Filled(r)], seq' = seq, events' = events, asked' = asked,
           remover' = remover
    PROVE  /\ rows' \in [Id -> Row \cup {NoRow}] /\ Live' = Live
           /\ (UniqueKey => OnePerPlace)' /\ Untorn' /\ DeletedIsGone' /\ RemovedStay'
           /\ (\A i \in Live : i <= seq)' /\ (\A e \in events : e.id <= seq)'
<1>1. Filled(r) \in Row /\ Filled(r) # NoRow
      /\ Filled(r).user = user[r] /\ Filled(r).place = body[r].place
  BY FilledIsRow
<1>2. rows' \in [Id -> Row \cup {NoRow}] /\ Live' = Live
      /\ rows'[t] = Filled(r) /\ \A i \in Id \ {t} : rows'[i] = rows[i]
  BY <1>1 DEF TypeOK, Live
<1>3. (UniqueKey => OnePerPlace)'
  BY <1>1, <1>2 DEF TableInv, OnePerPlace, At, Live
<1>4. Untorn' /\ DeletedIsGone' /\ RemovedStay'
  BY <1>2 DEF TableInv, Untorn, DeletedIsGone, RemovedStay, Live
<1> QED BY <1>2, <1>3, <1>4 DEF TableInv

LEMMA Deleted ==
    ASSUME TypeOK, TableInv, NEW t \in Live,
           rows' = [rows EXCEPT ![t] = NoRow], seq' = seq, events' = events, asked' = asked,
           NEW r \in Request, remover' = [remover EXCEPT ![t] = r]
    PROVE  /\ rows' \in [Id -> Row \cup {NoRow}] /\ Live' = Live \ {t}
           /\ remover' \in [Id -> Request \cup {Free}]
           /\ remover'[t] = r /\ \A i \in Id \ {t} : remover'[i] = remover[i]
           /\ \A i \in Live' : rows'[i] = rows[i]
           /\ (UniqueKey => OnePerPlace)' /\ Untorn' /\ DeletedIsGone' /\ RemovedStay'
           /\ (\A i \in Live : i <= seq)' /\ (\A e \in events : e.id <= seq)'
<1>1. rows' \in [Id -> Row \cup {NoRow}] /\ Live' = Live \ {t} /\ \A i \in Live' : rows'[i] = rows[i]
  BY DEF TypeOK, Live
<1>2. /\ remover' \in [Id -> Request \cup {Free}] /\ t \in Id
      /\ remover'[t] = r /\ \A i \in Id \ {t} : remover'[i] = remover[i]
  BY DEF TypeOK, Live
<1>3. (UniqueKey => OnePerPlace)' /\ Untorn'
  BY <1>1 DEF TableInv, OnePerPlace, Untorn
<1>4. DeletedIsGone' /\ RemovedStay'
  BY <1>1, <1>2 DEF TableInv, DeletedIsGone, RemovedStay, TypeOK
<1> QED BY <1>1, <1>2, <1>3, <1>4 DEF TableInv

\* UpsertUpdate: the row is the one that was locked, and no other writer could
\* have moved it to another place since.
LEMMA UpsertUpdateKeeps ==
    ASSUME WritesInv, NEW r \in Request, UpsertUpdate(r)
    PROVE  Keeps(r)
<1> DEFINE t == target[r]
<1>1. /\ pc[r] = "upsert" /\ t # 0 /\ Acknowledged(r) /\ locks' = Unlocked(r)
      /\ seq' = seq /\ user' = user /\ op' = op /\ target' = target
      /\ body' = body /\ left' = left /\ asked' = asked
      /\ groups' = groups /\ rest' = rest /\ kept' = kept /\ events' = events
      /\ remover' = remover
  BY DEF UpsertUpdate, request, dedup
<1>2. TypeOK /\ TableInv /\ AtPc(r)
  BY DEF WritesInv
<1>3. /\ t \in Live /\ locks[t] = r /\ rows[t] \in Row
      /\ rows[t].user = user[r] /\ rows[t].place = body[r].place
      /\ body[r] \in Body /\ Filled(r) \in asked /\ op[r] \in {"create", "import"}
  BY <1>1, <1>2 DEF AtPc, Holds, Writing, Live, TypeOK
<1>4. rows' = [rows EXCEPT ![t] = Filled(r)]
  <2> DEFINE w == [rows[t] EXCEPT !.secret = body[r].secret, !.username = body[r].username]
  <2>1. w = Filled(r)
    <3>1. w = [user |-> rows[t].user, place |-> rows[t].place,
               username |-> body[r].username, secret |-> body[r].secret]
      <4> DEFINE b == body[r]
                 v == rows[t]
      <4>1. v \in Row
        BY <1>3
      <4> HIDE DEF b, v
      <4>2. [v EXCEPT !.secret = b.secret, !.username = b.username]
                = [user |-> v.user, place |-> v.place, username |-> b.username, secret |-> b.secret]
        BY <4>1, OverwrittenIs
      <4> QED BY <4>2 DEF b, v
    <3> QED BY <1>3, <3>1 DEF Filled, RowOf
  <2>2. rows' = [i \in Id |-> IF i = t THEN w ELSE rows[i]]
    BY <1>3 DEF UpsertUpdate
  <2> HIDE DEF w
  <2> QED BY <1>2, <1>3, <2>1, <2>2 DEF TypeOK, Live
<1>5. UniqueKey => At(user[r], body[r].place) \subseteq {t}
  BY <1>2, <1>3 DEF TableInv, OnePerPlace, At
<1> HIDE DEF t
<1>6. /\ rows' \in [Id -> Row \cup {NoRow}] /\ Live' = Live
      /\ (UniqueKey => OnePerPlace)' /\ Untorn' /\ DeletedIsGone' /\ RemovedStay'
      /\ (\A i \in Live : i <= seq)' /\ (\A e \in events : e.id <= seq)'
      /\ stored' \in [Request -> Nat]
  <2>1. stored' = [stored EXCEPT ![r] = @ + 1]
    BY DEF UpsertUpdate
  <2>2. stored' \in [Request -> Nat]
    BY <1>2, <2>1 DEF TypeOK
  <2> QED BY <1>1, <1>2, <1>3, <1>4, <1>5, <2>2, Overwritten
<1>7. /\ tally' \in [Request -> Counts]
      /\ \/ pc' = [pc EXCEPT ![r] = "next"] /\ op[r] = "import"
         \/ pc' = [pc EXCEPT ![r] = "done"]
         \/ pc' = [pc EXCEPT ![r] = "publish"]
  BY <1>1, <1>2, AcknowledgedDoes
<1>8. \A q \in Request \ {r} : pc'[q] = pc[q]
  BY <1>2, <1>7 DEF TypeOK
<1>9. /\ LocksHeld' /\ locks' \in [Id -> Request \cup {Free}]
      /\ \A i \in Id, q \in Request \ {r} : locks[i] = q => locks'[i] = q
  BY <1>1, <1>2, <1>8, LocksFreed DEF TableInv
<1>10. TypeOK'
  BY <1>1, <1>2, <1>6, <1>7, <1>9 DEF TypeOK, Counts
<1>11. AtPc(r)'
  BY <1>1, <1>2, <1>3, <1>7 DEF AtPc, Writing, TypeOK, TableInv, t, Live, Id
<1>12. TableInv'
  BY <1>6, <1>9 DEF TableInv
<1>13. OthersKept(r)
  <2>1. \A i \in Live \ {t} : rows'[i] = rows[i]
    BY <1>2, <1>4 DEF TypeOK, Live
  <2>2. \A i \in Id, q \in Request \ {r} : locks[i] = q => i # t
    BY <1>3
  <2>3. \A i \in Id, q \in Request \ {r} : locks[i] = q => (i \in Live => rows'[i] = rows[i])
    BY <2>1, <2>2
  <2>4. seq \in Nat
    BY <1>2 DEF TypeOK
  <2> QED BY <1>1, <1>6, <1>8, <1>9, <2>3, <2>4 DEF OthersKept
<1> QED BY <1>10, <1>11, <1>12, <1>13 DEF Keeps

\* UpsertInsert: if the place was taken meanwhile the constraint refuses it.
LEMMA UpsertInsertKeeps ==
    ASSUME WritesInv, NEW r \in Request, UpsertInsert(r)
    PROVE  Keeps(r)
<1>1. /\ pc[r] = "upsert" /\ target[r] = 0 /\ locks' = Unlocked(r)
      /\ user' = user /\ op' = op /\ body' = body /\ left' = left /\ asked' = asked
      /\ groups' = groups /\ rest' = rest /\ kept' = kept /\ events' = events
      /\ remover' = remover
  BY DEF UpsertInsert, request, dedup
<1>2. TypeOK /\ TableInv /\ AtPc(r)
  BY DEF WritesInv
<1>3. body[r] \in Body /\ Filled(r) \in asked /\ op[r] \in {"create", "import"}
  BY <1>1, <1>2 DEF AtPc, Writing
<1>4. /\ tally' \in [Request -> Counts]
      /\ \/ pc' = [pc EXCEPT ![r] = "next"] /\ op[r] = "import"
         \/ pc' = [pc EXCEPT ![r] = "done"]
         \/ pc' = [pc EXCEPT ![r] = "publish"] /\ ~Taken(r)
  BY <1>2, AcknowledgedDoes, RefusedDoes DEF UpsertInsert, Insert
<1>5. \A q \in Request \ {r} : pc'[q] = pc[q]
  BY <1>2, <1>4 DEF TypeOK
<1>6. /\ LocksHeld' /\ locks' \in [Id -> Request \cup {Free}]
      /\ \A i \in Id, q \in Request \ {r} : locks[i] = q => locks'[i] = q
  BY <1>1, <1>2, <1>5, LocksFreed DEF TableInv
<1>7. CASE Taken(r)
  <2>1. rows' = rows /\ seq' = seq /\ target' = target /\ stored' = stored
    BY <1>7 DEF UpsertInsert
  <2>2. Live' = Live
    BY <2>1 DEF Live
  <2>3. TypeOK'
    BY <1>1, <1>2, <1>4, <1>6, <2>1 DEF TypeOK, Counts
  <2>4. AtPc(r)'
    BY <1>1, <1>2, <1>4, <1>7, <2>1 DEF AtPc, Writing, TypeOK
  <2>5. TableInv'
    BY <1>1, <1>2, <1>6, <2>1, TableSame
  <2>6. OthersKept(r)
    BY <1>1, <1>2, <1>5, <1>6, <2>1, <2>2 DEF OthersKept, TypeOK
  <2> QED BY <2>3, <2>4, <2>5, <2>6 DEF Keeps
<1>8. CASE ~Taken(r)
  <2> DEFINE new == seq + 1
  <2>1. /\ seq < MaxId /\ seq' = new /\ rows' = [rows EXCEPT ![new] = Filled(r)]
        /\ target' = [target EXCEPT ![r] = new] /\ stored' = [stored EXCEPT ![r] = @ + 1]
    BY <1>8 DEF UpsertInsert, Insert
  <2>2. new \in Id /\ new \notin Live /\ seq \in Nat /\ MaxId \in Nat
    BY <1>2, <2>1, VaultAssumption DEF TypeOK, TableInv, Id
  <2>3. Filled(r) \in Row /\ Filled(r) # NoRow
        /\ Filled(r).user = user[r] /\ Filled(r).place = body[r].place
    BY <1>2, <1>3, FilledIsRow
  <2>4. /\ rows' \in [Id -> Row \cup {NoRow}] /\ Live' = Live \cup {new}
        /\ rows'[new] = Filled(r) /\ \A i \in Live : rows'[i] = rows[i]
    BY <1>2, <2>1, <2>2, <2>3 DEF TypeOK, Live
  <2>5. (UniqueKey => OnePerPlace)'
    BY <1>2, <1>8, <2>3, <2>4 DEF TableInv, OnePerPlace, Taken, At
  <2>6. Untorn'
    BY <1>1, <1>2, <1>3, <2>4 DEF TableInv, Untorn
  <2>7. DeletedIsGone' /\ RemovedStay' /\ (\A e \in events : e.id <= seq)'
    BY <1>1, <1>2, <2>1, <2>2, <2>4 DEF TableInv, DeletedIsGone, RemovedStay, TypeOK, Id
  <2>8. (\A i \in Live : i <= seq)'
    BY <1>2, <2>1, <2>2, <2>4 DEF TableInv, Live, Id
  <2>9. TypeOK'
    <3>1. /\ seq' \in 0..MaxId /\ target' \in [Request -> 0..MaxId]
          /\ stored' \in [Request -> Nat]
      BY <1>2, <2>1, <2>2 DEF TypeOK, Id
    <3> QED BY <1>1, <1>2, <1>4, <1>6, <2>4, <3>1 DEF TypeOK, Counts
  <2>10. AtPc(r)'
    BY <1>1, <1>2, <1>3, <1>4, <2>1, <2>2 DEF AtPc, Writing, TypeOK, Id
  <2>11. TableInv'
    BY <1>6, <2>5, <2>6, <2>7, <2>8 DEF TableInv
  <2>12. OthersKept(r)
    <3>1. \A q \in Request \ {r} : target'[q] = target[q]
      BY <1>2, <2>1 DEF TypeOK
    <3>2. seq <= seq' /\ \A i \in 1..seq : i # new
      BY <2>1, <2>2
    <3> QED BY <1>1, <1>5, <1>6, <2>4, <3>1, <3>2 DEF OthersKept
  <2> QED BY <2>9, <2>10, <2>11, <2>12 DEF Keeps
<1> QED BY <1>7, <1>8

\* UpdateWrite: the row is not locked, so no transaction is about to overwrite
\* it, and it may move to a place that nothing else is at.
LEMMA UpdateWriteKeeps ==
    ASSUME WritesInv, NEW r \in Request, UpdateWrite(r)
    PROVE  Keeps(r)
<1> DEFINE t == target[r]
<1>1. /\ pc[r] = "write" /\ op[r] = "update" /\ locks[t] = Free /\ locks' = locks
      /\ seq' = seq /\ user' = user /\ op' = op /\ target' = target
      /\ body' = body /\ left' = left /\ asked' = asked
      /\ groups' = groups /\ rest' = rest /\ kept' = kept /\ events' = events
      /\ stored' = stored /\ remover' = remover
  BY DEF UpdateWrite, request, dedup
<1>2. TypeOK /\ TableInv /\ AtPc(r)
  BY DEF WritesInv
<1>3. t \in Id /\ t <= seq /\ body[r] \in Body /\ Filled(r) \in asked
  BY <1>1, <1>2 DEF AtPc, Writing
<1>4. \/ /\ Mine(r) /\ (UniqueKey => At(user[r], body[r].place) \subseteq {t})
         /\ rows' = [rows EXCEPT ![t] = Filled(r)] /\ Acknowledged(r)
      \/ rows' = rows /\ Refused(r, "not found or unique")
  BY DEF UpdateWrite
<1>5. /\ tally' \in [Request -> Counts]
      /\ \/ pc' = [pc EXCEPT ![r] = "done"]
         \/ pc' = [pc EXCEPT ![r] = "publish"]
  BY <1>1, <1>2, <1>4, AcknowledgedDoes, RefusedDoes
<1>6. \A q \in Request \ {r} : pc'[q] = pc[q]
  BY <1>2, <1>5 DEF TypeOK
<1>7. LocksHeld'
  BY <1>1, <1>2, <1>6, LocksSame DEF TableInv
<1> HIDE DEF t
<1>8. /\ rows' \in [Id -> Row \cup {NoRow}] /\ Live' = Live
      /\ (UniqueKey => OnePerPlace)' /\ Untorn' /\ DeletedIsGone' /\ RemovedStay'
      /\ (\A i \in Live : i <= seq)' /\ (\A e \in events : e.id <= seq)'
      /\ \A i \in Id \ {t} : rows'[i] = rows[i]
  <2>1. CASE Mine(r) /\ (UniqueKey => At(user[r], body[r].place) \subseteq {t})
               /\ rows' = [rows EXCEPT ![t] = Filled(r)]
    <3>1. t \in Live
      BY <2>1 DEF Mine, t
    <3>2. \A i \in Id \ {t} : rows'[i] = rows[i]
      BY <1>2, <2>1 DEF TypeOK
    <3> QED BY <1>1, <1>2, <1>3, <2>1, <3>1, <3>2, Overwritten
  <2>2. CASE rows' = rows
    <3>1. TableInv'
      BY <1>1, <1>2, <1>7, <2>2, TableSame
    <3> QED BY <1>2, <2>2, <3>1 DEF TableInv, TypeOK, Live
  <2> QED BY <1>4, <2>1, <2>2
<1>9. TypeOK'
  BY <1>1, <1>2, <1>5, <1>8 DEF TypeOK, Counts
<1>10. AtPc(r)'
  <2>1. t \in 1..seq
    BY <1>2, <1>3 DEF TypeOK, Id
  <2> QED BY <1>1, <1>2, <1>5, <2>1 DEF AtPc, Writing, TypeOK, t
<1>11. TableInv'
  BY <1>7, <1>8 DEF TableInv
<1>12. OthersKept(r)
  <2>1. \A i \in Id, q \in Request \ {r} : locks[i] = q => (i \in Live => rows'[i] = rows[i])
    BY <1>1, <1>8, VaultAssumption
  <2>2. seq \in Nat
    BY <1>2 DEF TypeOK
  <2> QED BY <1>1, <1>6, <1>8, <2>1, <2>2 DEF OthersKept
<1> QED BY <1>9, <1>10, <1>11, <1>12 DEF Keeps

\* What a deletion of an unlocked row owes to the invariant, by request or as a
\* duplicate.
LEMMA DeletionKeeps ==
    ASSUME WritesInv, NEW r \in Request, pc[r] \in {"write", "remove"},
           locks[target[r]] = Free, locks' = locks, Mine(r),
           rows' = [rows EXCEPT ![target[r]] = NoRow], seq' = seq, user' = user, op' = op,
           target' = target, body' = body, left' = left, asked' = asked, groups' = groups,
           rest' = rest, kept' = kept, events' = events, stored' = stored,
           remover' = [remover EXCEPT ![target[r]] = r],
           tally' \in [Request -> Counts],
           NEW l \in {"publish", "compare", "done"}, pc' = [pc EXCEPT ![r] = l],
           l = "publish" => op[r] = "delete"
    PROVE  Keeps(r) /\ Live' = Live \ {target[r]}
<1> DEFINE t == target[r]
<1>1. TypeOK /\ TableInv /\ AtPc(r) /\ t \in Live
  BY DEF WritesInv, Mine
<1>2. \A q \in Request \ {r} : pc'[q] = pc[q]
  BY <1>1 DEF TypeOK
<1>3. LocksHeld'
  BY <1>1, <1>2, LocksSame DEF TableInv
<1>4. /\ locks[t] = Free /\ rows' = [rows EXCEPT ![t] = NoRow]
      /\ remover' = [remover EXCEPT ![t] = r]
  OBVIOUS
<1> HIDE DEF t
<1>5. /\ rows' \in [Id -> Row \cup {NoRow}] /\ Live' = Live \ {t}
      /\ \A i \in Live' : rows'[i] = rows[i]
      /\ remover' \in [Id -> Request \cup {Free}]
      /\ remover'[t] = r /\ \A i \in Id \ {t} : remover'[i] = remover[i]
      /\ (UniqueKey => OnePerPlace)' /\ Untorn' /\ DeletedIsGone' /\ RemovedStay'
      /\ (\A i \in Live : i <= seq)' /\ (\A e \in events : e.id <= seq)'
  BY <1>1, <1>4, Deleted
<1>6. TypeOK'
  BY <1>1, <1>5 DEF TypeOK, Counts
<1>7. AtPc(r)'
  <2>1. t \in 1..seq
    BY <1>1 DEF TypeOK, TableInv, Live, Id
  <2> QED BY <1>1, <1>5, <2>1 DEF AtPc, Writing, TypeOK, t
<1>8. TableInv'
  BY <1>3, <1>5 DEF TableInv
<1>9. OthersKept(r)
  <2>1. \A i \in Id, q \in Request \ {r} :
            locks[i] = q => (i \in Live => i \in Live' /\ rows'[i] = rows[i])
    BY <1>4, <1>5, VaultAssumption
  <2>2. seq \in Nat /\ \A i \in 1..seq : i \in Id
    BY <1>1, VaultAssumption DEF TypeOK, Id
  <2> QED BY <1>1, <1>2, <1>5, <2>1, <2>2 DEF OthersKept
<1> QED BY <1>5, <1>6, <1>7, <1>8, <1>9 DEF Keeps, t

\* A request that ends, or goes on with its next item or row, having changed
\* nothing but counts.
LEMMA EndKeeps ==
    ASSUME WritesInv, NEW r \in Request, pc[r] # "upsert", rows' = rows, seq' = seq,
           locks' = locks, user' = user, op' = op, target' = target, body' = body,
           left' = left, asked' = asked, groups' = groups, rest' = rest, kept' = kept,
           events' = events, stored' = stored, remover' = remover,
           tally' \in [Request -> Counts],
           NEW l \in {"next", "compare", "done"}, pc' = [pc EXCEPT ![r] = l],
           l = "next" => op[r] = "import"
    PROVE  Keeps(r)
<1>1. TypeOK
  BY DEF WritesInv
<1>2. TypeOK'
  BY <1>1 DEF TypeOK, Counts
<1>3. AtPc(r)'
  BY <1>1 DEF AtPc, Writing, TypeOK
<1> QED BY <1>1, <1>2, <1>3, QuietKeeps DEF TypeOK

LEMMA DeleteWriteKeeps ==
    ASSUME WritesInv, NEW r \in Request, DeleteWrite(r)
    PROVE  Keeps(r)
<1>1. /\ pc[r] = "write" /\ op[r] = "delete" /\ locks[target[r]] = Free /\ locks' = locks
      /\ seq' = seq /\ user' = user /\ op' = op /\ target' = target
      /\ body' = body /\ left' = left /\ asked' = asked
      /\ groups' = groups /\ rest' = rest /\ kept' = kept /\ events' = events
      /\ stored' = stored
  BY DEF DeleteWrite, request, dedup
<1>2. TypeOK
  BY DEF WritesInv
<1>3. CASE /\ Mine(r) /\ rows' = [rows EXCEPT ![target[r]] = NoRow] /\ Acknowledged(r)
           /\ remover' = [remover EXCEPT ![target[r]] = r]
  <2>1. /\ tally' \in [Request -> Counts]
        /\ \E l \in {"publish", "done"} : pc' = [pc EXCEPT ![r] = l]
    BY <1>1, <1>2, <1>3, AcknowledgedDoes
  <2> QED BY <1>1, <1>3, <2>1, DeletionKeeps
<1>4. CASE rows' = rows /\ remover' = remover /\ Refused(r, "not found")
  <2>1. tally' \in [Request -> Counts] /\ pc' = [pc EXCEPT ![r] = "done"]
    BY <1>1, <1>2, <1>4, RefusedDoes
  <2> QED BY <1>1, <1>4, <2>1, EndKeeps
<1> QED BY <1>3, <1>4 DEF DeleteWrite

LEMMA RemoveKeeps ==
    ASSUME WritesInv, NEW r \in Request, Remove(r)
    PROVE  Keeps(r)
<1>1. /\ pc[r] = "remove" /\ locks[target[r]] = Free /\ locks' = locks
      /\ pc' = [pc EXCEPT ![r] = "compare"]
      /\ seq' = seq /\ user' = user /\ op' = op /\ target' = target
      /\ body' = body /\ left' = left /\ asked' = asked
      /\ groups' = groups /\ rest' = rest /\ kept' = kept /\ events' = events
      /\ stored' = stored
  BY DEF Remove, request, dedup, Goto
<1>2. TypeOK /\ tally \in [Request -> Counts]
  BY DEF WritesInv, TypeOK, Counts
<1>3. tally' \in [Request -> Counts]
  <2>1. CASE tally' = [tally EXCEPT ![r].removed = @ + 1]
    <3>1. [tally[r] EXCEPT !.removed = @ + 1] \in Counts
      BY <1>2 DEF Counts
    <3> QED BY <1>2, <2>1, <3>1
  <2>2. CASE tally' = tally
    BY <1>2, <2>2
  <2> QED BY <2>1, <2>2 DEF Remove
<1>4. CASE Mine(r)
  <2>1. rows' = [rows EXCEPT ![target[r]] = NoRow] /\ remover' = [remover EXCEPT ![target[r]] = r]
    BY <1>4 DEF Remove
  <2> QED BY <1>1, <1>3, <1>4, <2>1, DeletionKeeps
<1>5. CASE ~Mine(r)
  <2>1. rows' = rows /\ remover' = remover
    BY <1>5 DEF Remove
  <2> QED BY <1>1, <1>3, <2>1, EndKeeps
<1> QED BY <1>4, <1>5

\* StatementError: a transaction that is rolled back gives up its locks.
LEMMA StatementErrorKeeps ==
    ASSUME WritesInv, NEW r \in Request, StatementError(r)
    PROVE  Keeps(r)
<1>1. /\ locks' = Unlocked(r) /\ rows' = rows
      /\ seq' = seq /\ user' = user /\ op' = op /\ target' = target
      /\ body' = body /\ left' = left /\ asked' = asked
      /\ groups' = groups /\ rest' = rest /\ kept' = kept /\ events' = events
      /\ stored' = stored /\ remover' = remover
  BY DEF StatementError, request, dedup
<1>2. TypeOK /\ TableInv /\ AtPc(r)
  BY DEF WritesInv
<1>3. /\ tally' \in [Request -> Counts]
      /\ \E l \in {"next", "compare", "done"} :
            pc' = [pc EXCEPT ![r] = l] /\ (l = "next" => op[r] = "import")
  <2>1. CASE Refused(r, "error")
    BY <1>2, <2>1, RefusedDoes
  <2>2. CASE Goto(r, "done") /\ UNCHANGED tally
    BY <1>2, <2>2 DEF Goto, TypeOK, Counts
  <2>3. CASE Goto(r, "compare") /\ UNCHANGED tally
    BY <1>2, <2>3 DEF Goto, TypeOK, Counts
  <2> QED BY <2>1, <2>2, <2>3 DEF StatementError
<1>4. PICK l \in {"next", "compare", "done"} :
          pc' = [pc EXCEPT ![r] = l] /\ (l = "next" => op[r] = "import")
  BY <1>3
<1>5. \A q \in Request \ {r} : pc'[q] = pc[q]
  BY <1>2, <1>4 DEF TypeOK
<1>6. /\ LocksHeld' /\ locks' \in [Id -> Request \cup {Free}]
      /\ \A i \in Id, q \in Request \ {r} : locks[i] = q => locks'[i] = q
  BY <1>1, <1>2, <1>5, LocksFreed DEF TableInv
<1>7. TypeOK'
  BY <1>1, <1>2, <1>3, <1>4, <1>6 DEF TypeOK, Counts
<1>8. AtPc(r)'
  BY <1>1, <1>2, <1>4 DEF AtPc, Writing, TypeOK
<1>9. TableInv'
  BY <1>1, <1>2, <1>6, TableSame
<1>10. OthersKept(r)
  <2>1. Live' = Live /\ seq \in Nat
    BY <1>1, <1>2 DEF Live, TypeOK
  <2> QED BY <1>1, <1>5, <1>6, <2>1 DEF OthersKept
<1> QED BY <1>7, <1>8, <1>9, <1>10 DEF Keeps

-----------------------------------------------------------------------------
(* The invariant of writes, and what follows from it.                      *)

LEMMA WritesInit == Init => WritesInv
<1> SUFFICES ASSUME Init
             PROVE  WritesInv
  OBVIOUS
<1>1. rows \in [Id -> Row \cup {NoRow}] /\ Live \subseteq Id
  BY VaultAssumption DEF Init, Live
<1>2. seq \in 0..MaxId /\ \A i \in Live : i <= seq
  <2>1. MaxId \in Nat /\ Live \cup {0} \in SUBSET (0..MaxId)
    BY <1>1, VaultAssumption DEF Id
  <2>2. seq = Max(Live \cup {0})
    BY DEF Init
  <2>3. seq \in Live \cup {0} /\ \A y \in Live \cup {0} : y <= seq
    BY <2>1, <2>2, MaxIs
  <2> QED BY <2>1, <2>3
<1>3. \A i \in Live : rows[i] \in Row
  BY <1>1 DEF Live
<1>4. TypeOK
  <2>1. /\ tally \in [Request -> [imported : Nat, skipped : Nat, errors : Nat, removed : Nat]]
        /\ kept \in [Request -> [id : 0..MaxId, reads : Secret \cup {Empty}]]
    BY VaultAssumption DEF Init, NoCounts
  <2>2. /\ target \in [Request -> 0..MaxId] /\ left \in [Request -> 0..MaxItems]
    BY VaultAssumption DEF Init
  <2> QED BY <1>1, <1>2, <1>3, <2>1, <2>2 DEF Init, TypeOK
<1>5. TableInv
  BY <1>2 DEF Init, TableInv, Untorn, LocksHeld, DeletedIsGone, RemovedStay
<1>6. \A r \in Request : AtPc(r)
  BY DEF Init, AtPc, Writing
<1> QED BY <1>4, <1>5, <1>6 DEF WritesInv

LEMMA WritesStep == WritesInv /\ [Next]_vars => WritesInv'
<1> SUFFICES ASSUME WritesInv, [Next]_vars
             PROVE  WritesInv'
  OBVIOUS
<1>1. ASSUME NEW r \in Request, Arrive(r) \/ Step(r) \/ StatementError(r)
      PROVE  WritesInv'
  <2>1. CASE Arrive(r)
    BY <2>1, ArriveKeeps, KeepsAll
  <2>2. CASE NextItem(r)
    BY <2>2, NextItemKeeps, KeepsAll
  <2>3. CASE SelectForUpdate(r)
    BY <2>3, SelectKeeps, KeepsAll
  <2>4. CASE UpsertUpdate(r)
    BY <2>4, UpsertUpdateKeeps, KeepsAll
  <2>5. CASE UpsertInsert(r)
    BY <2>5, UpsertInsertKeeps, KeepsAll
  <2>6. CASE Publish(r)
    BY <2>6, PublishKeeps, KeepsAll
  <2>7. CASE Find(r)
    BY <2>7, FindKeeps, KeepsAll
  <2>8. CASE UpdateWrite(r)
    BY <2>8, UpdateWriteKeeps, KeepsAll
  <2>9. CASE DeleteWrite(r)
    BY <2>9, DeleteWriteKeeps, KeepsAll
  <2>10. CASE Analyze(r)
    BY <2>10, AnalyzeKeeps, KeepsAll
  <2>11. CASE NextGroup(r)
    BY <2>11, NextGroupKeeps, KeepsAll
  <2>12. CASE Compare(r)
    BY <2>12, CompareKeeps, KeepsAll
  <2>13. CASE Remove(r)
    BY <2>13, RemoveKeeps, KeepsAll
  <2>14. CASE StatementError(r)
    BY <2>14, StatementErrorKeeps, KeepsAll
  <2> QED BY <1>1, <2>1, <2>2, <2>3, <2>4, <2>5, <2>6, <2>7, <2>8, <2>9, <2>10, <2>11, <2>12, <2>13, <2>14 DEF Step
<1>2. CASE UNCHANGED vars
  <2>1. /\ rows' = rows /\ seq' = seq /\ locks' = locks /\ pc' = pc /\ op' = op /\ user' = user
        /\ body' = body /\ target' = target /\ left' = left /\ tally' = tally /\ groups' = groups
        /\ rest' = rest /\ kept' = kept /\ events' = events /\ asked' = asked
        /\ stored' = stored /\ remover' = remover
    BY <1>2 DEF vars, request, dedup
  <2>2. TypeOK' /\ Live' = Live
    BY <2>1 DEF WritesInv, TypeOK, Live
  <2>3. LocksHeld'
    BY <2>1 DEF WritesInv, TableInv, LocksHeld
  <2>4. TableInv'
    BY <2>1, <2>3, TableSame DEF WritesInv
  <2>5. \A r \in Request : AtPc(r)'
    BY <2>1, <2>2 DEF WritesInv, AtPc, Writing, Holds, Filled, RowOf
  <2> QED BY <2>2, <2>4, <2>5 DEF WritesInv
<1> QED BY <1>1, <1>2 DEF Next

\* The table's rows, locks and open transactions hang together at every
\* statement of the repository, with or without the constraint.
THEOREM WritesInvariance == Spec => []WritesInv
BY WritesInit, WritesStep, PTL DEF Spec

\* The row that SELECT ... FOR UPDATE locks is let go with the transaction of its
\* upsert, committed or failed, with or without the constraint: no lock outlives
\* the request that took it.
THEOREM LocksLetGo == Spec => []LocksHeld
<1>1. WritesInv => LocksHeld
  BY DEF WritesInv, TableInv
<1> QED BY <1>1, WritesInvariance, PTL

\* With migration 003 installed a user has one row per place at any time, and a
\* lock is held only by a transaction that is open, whichever upserts, imports,
\* updates and removals overlap and whichever statements and commits fail.
THEOREM PlacesAndLocks ==
    ASSUME UniqueKey
    PROVE  Spec => []VaultInv
<1>1. WritesInv => VaultInv
  BY DEF WritesInv, TableInv, LocksHeld, VaultInv
<1> QED BY <1>1, WritesInvariance, PTL

\* A row is never torn: whether or not the constraint is there, it holds a place,
\* a username and a password that one request asked for together.
THEOREM RowsUntorn == Spec => []Untorn
<1>1. WritesInv => Untorn
  BY DEF WritesInv, TableInv
<1> QED BY <1>1, WritesInvariance, PTL

\* A deletion is announced only by the request that removed the entry, which has
\* gone for good: ids are not used again, and what overwrites a row finds it live.
THEOREM RemovalFinal == Spec => []DeletedIsGone
<1>1. WritesInv => DeletedIsGone
  BY DEF WritesInv, TableInv
<1> QED BY <1>1, WritesInvariance, PTL

-----------------------------------------------------------------------------
(* What an import counts.                                                  *)

\* The items an import has counted, or is about to count, as imported.
Told(r) == tally[r].imported + IF pc[r] = "publish" THEN 1 ELSE 0

Counted(r) ==
    /\ pc[r] = "new" => stored[r] = 0 /\ tally[r].imported = 0 /\ tally[r].errors = 0
    /\ op[r] = "import" => Told(r) <= stored[r] /\ stored[r] <= Told(r) + tally[r].errors

CountsInv == \A r \in Request : Counted(r)

\* What a step that leaves op alone does to the counts of an import: nothing but
\* perhaps an error; an item stored, and to be told or an error; an item told.
CountsMove(r) ==
    \/ /\ stored'[r] = stored[r] /\ pc[r] # "publish" /\ pc'[r] # "publish"
       /\ tally'[r].imported = tally[r].imported
       /\ tally'[r].errors \in {tally[r].errors, tally[r].errors + 1}
    \/ /\ stored'[r] = stored[r] + 1 /\ pc[r] # "publish"
       /\ tally'[r].imported = tally[r].imported
       /\ \/ pc'[r] = "publish" /\ tally'[r].errors = tally[r].errors
          \/ pc'[r] # "publish" /\ tally'[r].errors = tally[r].errors + 1
    \/ /\ stored'[r] = stored[r] /\ pc[r] = "publish" /\ pc'[r] # "publish"
       /\ tally'[r].imported = tally[r].imported + 1
       /\ tally'[r].errors = tally[r].errors

CountsElsewhere(r) ==
    \A q \in Request \ {r} :
        pc'[q] = pc[q] /\ op'[q] = op[q] /\ tally'[q] = tally[q] /\ stored'[q] = stored[q]

LEMMA CountsKept ==
    ASSUME TypeOK, CountsInv, NEW r \in Request, CountsElsewhere(r),
           op'[r] = op[r], pc'[r] # "new", op[r] = "import" => CountsMove(r)
    PROVE  CountsInv'
<1>1. Counted(r)'
  <2>1. stored[r] \in Nat /\ tally[r].imported \in Nat /\ tally[r].errors \in Nat
    BY DEF TypeOK
  <2> QED BY <2>1 DEF CountsInv, Counted, Told, CountsMove
<1>2. \A q \in Request \ {r} : Counted(q)'
  BY DEF CountsInv, Counted, Told, CountsElsewhere
<1> QED BY <1>1, <1>2 DEF CountsInv

LEMMA RefusedCounts ==
    ASSUME TypeOK, NEW r \in Request, NEW why, Refused(r, why)
    PROVE  /\ pc'[r] \in {"next", "done"} /\ \A q \in Request \ {r} : pc'[q] = pc[q] /\ tally'[q] = tally[q]
           /\ op[r] = "import" =>
                 /\ tally'[r].imported = tally[r].imported
                 /\ tally'[r].errors = IF why = "unique" THEN tally[r].errors ELSE tally[r].errors + 1
<1>1. /\ tally \in [Request -> Counts] /\ tally[r] \in Counts
      /\ pc \in [Request -> Pcs]
  BY DEF TypeOK, Counts, Pcs
<1>2. CASE op[r] = "import"
  <2>1. /\ tally' = [tally EXCEPT ![r] = [tally[r] EXCEPT ![Column(why)] = @ + 1]]
        /\ pc' = [pc EXCEPT ![r] = "next"]
    BY <1>2 DEF Refused, Goto
  <2>2. /\ tally'[r] = [tally[r] EXCEPT ![Column(why)] = @ + 1]
        /\ pc'[r] = "next"
        /\ \A q \in Request \ {r} : pc'[q] = pc[q] /\ tally'[q] = tally[q]
    BY <1>1, <2>1
  <2>3. CASE why = "unique"
    <3>1. tally'[r] = [tally[r] EXCEPT !.skipped = @ + 1]
      BY <2>2, <2>3 DEF Column
    <3> QED BY <1>1, <2>2, <2>3, <3>1 DEF Counts
  <2>4. CASE why # "unique"
    <3>1. tally'[r] = [tally[r] EXCEPT !.errors = @ + 1]
      BY <2>2, <2>4 DEF Column
    <3> QED BY <1>1, <2>2, <2>4, <3>1 DEF Counts
  <2> QED BY <2>3, <2>4
<1>3. CASE op[r] # "import"
  BY <1>1, <1>3 DEF Refused, Goto
<1> QED BY <1>2, <1>3

\* An item stored: its transaction committed, and the import is told, or not.
LEMMA AcknowledgedCounts ==
    ASSUME TypeOK, CountsInv, NEW r \in Request, pc[r] # "publish", Acknowledged(r), op' = op,
           stored' = [stored EXCEPT ![r] = @ + 1]
    PROVE  CountsInv'
<1>1. stored'[r] = stored[r] + 1 /\ \A q \in Request \ {r} : stored'[q] = stored[q]
  BY DEF TypeOK
<1>2. CASE tally' = tally /\ pc' = [pc EXCEPT ![r] = "publish"]
  <2>1. CountsMove(r) /\ CountsElsewhere(r) /\ pc'[r] # "new"
    BY <1>1, <1>2 DEF CountsMove, CountsElsewhere, TypeOK
  <2> QED BY <2>1, CountsKept
<1>3. CASE Refused(r, "error")
  <2>1. (op[r] = "import" => CountsMove(r)) /\ CountsElsewhere(r) /\ pc'[r] # "new"
    BY <1>1, <1>3, RefusedCounts DEF CountsMove, CountsElsewhere
  <2> QED BY <2>1, CountsKept
<1> QED BY <1>2, <1>3 DEF Acknowledged, Goto

LEMMA RefusalCounts ==
    ASSUME TypeOK, CountsInv, NEW r \in Request, pc[r] # "publish", NEW why, Refused(r, why),
           op' = op, stored' = stored
    PROVE  CountsInv'
<1>1. (op[r] = "import" => CountsMove(r)) /\ CountsElsewhere(r) /\ pc'[r] # "new"
  BY RefusedCounts DEF CountsMove, CountsElsewhere, TypeOK
<1> QED BY <1>1, CountsKept

\* A step of a request that is neither new nor about to publish, and counts nothing.
LEMMA QuietCounts ==
    ASSUME TypeOK, CountsInv, NEW r \in Request, pc[r] # "publish", NEW l \in Pcs \ {"new", "publish"},
           pc' = [pc EXCEPT ![r] = l] \/ (pc' = pc /\ pc[r] # "new"), op' = op, tally' = tally, stored' = stored
    PROVE  CountsInv'
<1>1. CountsMove(r) /\ CountsElsewhere(r) /\ pc'[r] # "new"
  BY DEF CountsMove, CountsElsewhere, TypeOK, Pcs
<1> QED BY <1>1, CountsKept

LEMMA CountsInit == Init => CountsInv
BY DEF Init, CountsInv, Counted, Told, NoCounts

LEMMA ArriveCounts ==
    ASSUME TypeOK, CountsInv, NEW r \in Request, Arrive(r)
    PROVE  CountsInv'
<1>1. PICK o \in Operations, l \in Pcs \ {"new", "publish"} :
          pc' = [pc EXCEPT ![r] = l] /\ op' = [op EXCEPT ![r] = o]
  <2>1. PICK o \in Operations :
          /\ op' = [op EXCEPT ![r] = o]
          /\ CASE o = "create" -> Ask(r) /\ Goto(r, "select")
               [] o = "update" -> Ask(r) /\ Goto(r, "find")
               [] o = "delete" -> UNCHANGED <<body, asked>> /\ Goto(r, "find")
               [] o = "import" -> UNCHANGED <<body, asked>> /\ Goto(r, "next")
               [] o = "dedup"  -> UNCHANGED <<body, asked>> /\ Goto(r, "analyze")
    BY DEF Arrive
  <2>2. o \in {"create", "update", "delete", "import", "dedup"}
    BY VaultAssumption
  <2> QED BY <2>1, <2>2 DEF Goto, Pcs
<1>2. pc[r] = "new" /\ tally' = tally /\ stored' = stored
  BY DEF Arrive
<1>3. /\ pc'[r] = l /\ stored[r] = 0 /\ tally[r].imported = 0 /\ tally[r].errors = 0
      /\ CountsElsewhere(r)
  BY <1>1, <1>2 DEF TypeOK, CountsInv, Counted, CountsElsewhere
<1>4. Counted(r)'
  BY <1>2, <1>3 DEF Counted, Told
<1> QED BY <1>3, <1>4 DEF CountsInv, Counted, Told, CountsElsewhere

LEMMA PublishCounts ==
    ASSUME TypeOK, CountsInv, NEW r \in Request, Publish(r)
    PROVE  CountsInv'
<1>1. pc[r] = "publish" /\ op' = op /\ stored' = stored
  BY DEF Publish, request
<1>2. CASE op[r] = "import"
  <2>1. /\ tally' = [tally EXCEPT ![r] = [tally[r] EXCEPT !.imported = @ + 1]]
        /\ pc' = [pc EXCEPT ![r] = "next"]
    BY <1>2 DEF Publish, Goto
  <2>2. tally \in [Request -> Counts] /\ tally[r] \in Counts
    BY DEF TypeOK, Counts
  <2>3. tally'[r].imported = tally[r].imported + 1 /\ tally'[r].errors = tally[r].errors
    BY <2>1, <2>2 DEF Counts
  <2>4. CountsMove(r) /\ CountsElsewhere(r) /\ pc'[r] # "new"
    BY <1>1, <2>1, <2>2, <2>3 DEF CountsMove, CountsElsewhere, TypeOK
  <2> QED BY <1>1, <2>4, CountsKept
<1>3. CASE op[r] # "import"
  <2>1. tally' = tally /\ pc' = [pc EXCEPT ![r] = "done"]
    BY <1>3 DEF Publish, Goto
  <2>2. CountsElsewhere(r) /\ pc'[r] # "new"
    BY <1>1, <2>1 DEF CountsElsewhere, TypeOK
  <2> QED BY <1>1, <1>3, <2>2, CountsKept
<1> QED BY <1>2, <1>3

\* Remove counts in a column of its own.
LEMMA RemoveCounts ==
    ASSUME TypeOK, CountsInv, NEW r \in Request, Remove(r)
    PROVE  CountsInv'
<1>1. pc[r] = "remove" /\ pc' = [pc EXCEPT ![r] = "compare"] /\ op' = op /\ stored' = stored
  BY DEF Remove, request, Goto
<1>2. tally \in [Request -> Counts] /\ tally[r] \in Counts
  BY DEF TypeOK, Counts
<1>3. /\ tally'[r].imported = tally[r].imported /\ tally'[r].errors = tally[r].errors
      /\ \A q \in Request \ {r} : tally'[q] = tally[q]
  <2>1. CASE tally' = [tally EXCEPT ![r].removed = @ + 1]
    <3>1. tally' = [tally EXCEPT ![r] = [tally[r] EXCEPT !.removed = @ + 1]]
      BY <2>1
    <3> QED BY <1>2, <3>1 DEF Counts
  <2>2. CASE tally' = tally
    BY <2>2
  <2> QED BY <2>1, <2>2 DEF Remove
<1>4. CountsMove(r) /\ CountsElsewhere(r) /\ pc'[r] # "new"
  BY <1>1, <1>3 DEF CountsMove, CountsElsewhere, TypeOK
<1> QED BY <1>1, <1>4, CountsKept

LEMMA CountsStep == WritesInv /\ CountsInv /\ [Next]_vars => CountsInv'
<1> SUFFICES ASSUME WritesInv, CountsInv, [Next]_vars
             PROVE  CountsInv'
  OBVIOUS
<1>1. TypeOK
  BY DEF WritesInv
<1>2. ASSUME NEW r \in Request, Arrive(r) \/ Step(r) \/ StatementError(r)
      PROVE  CountsInv'
  <2>1. CASE Arrive(r)
    BY <1>1, <2>1, ArriveCounts
  <2>2. CASE NextItem(r)
    <3>1. /\ pc[r] = "next" /\ op' = op /\ tally' = tally /\ stored' = stored
          /\ \E l \in Pcs \ {"new", "publish"} : pc' = [pc EXCEPT ![r] = l]
      BY <2>2 DEF NextItem, request, Goto, Pcs
    <3> QED BY <1>1, <3>1, QuietCounts
  <2>3. CASE SelectForUpdate(r)
    <3>1. /\ pc[r] = "select" /\ op' = op /\ tally' = tally /\ stored' = stored
          /\ \E l \in Pcs \ {"new", "publish"} : pc' = [pc EXCEPT ![r] = l]
      BY <2>3 DEF SelectForUpdate, request, Goto, Pcs
    <3> QED BY <1>1, <3>1, QuietCounts
  <2>4. CASE UpsertUpdate(r)
    <3>1. /\ pc[r] = "upsert" /\ op' = op /\ Acknowledged(r)
          /\ stored' = [stored EXCEPT ![r] = @ + 1]
      BY <2>4 DEF UpsertUpdate, request
    <3> QED BY <1>1, <3>1, AcknowledgedCounts
  <2>5. CASE UpsertInsert(r)
    <3>1. pc[r] = "upsert" /\ op' = op
      BY <2>5 DEF UpsertInsert, request
    <3>2. CASE Taken(r)
      <4>1. Refused(r, "unique") /\ stored' = stored
        BY <2>5, <3>2 DEF UpsertInsert
      <4> QED BY <1>1, <3>1, <4>1, RefusalCounts
    <3>3. CASE ~Taken(r)
      <4>1. Acknowledged(r) /\ stored' = [stored EXCEPT ![r] = @ + 1]
        BY <2>5, <3>3 DEF UpsertInsert, Insert
      <4> QED BY <1>1, <3>1, <4>1, AcknowledgedCounts
    <3> QED BY <3>2, <3>3
  <2>6. CASE Publish(r)
    BY <1>1, <2>6, PublishCounts
  <2>7. CASE Find(r)
    <3>1. /\ pc[r] = "find" /\ op' = op /\ tally' = tally /\ stored' = stored
          /\ \E l \in Pcs \ {"new", "publish"} : pc' = [pc EXCEPT ![r] = l]
      BY <2>7 DEF Find, request, Goto, Pcs
    <3> QED BY <1>1, <3>1, QuietCounts
  <2>8. CASE UpdateWrite(r) \/ DeleteWrite(r)
    <3>1. pc[r] = "write" /\ op[r] # "import" /\ op' = op /\ stored' = stored
      BY <2>8 DEF UpdateWrite, DeleteWrite, request
    <3>2. Acknowledged(r) \/ Refused(r, "not found or unique") \/ Refused(r, "not found")
      BY <2>8 DEF UpdateWrite, DeleteWrite
    <3>3. tally' = tally /\ \E l \in {"publish", "done"} : pc' = [pc EXCEPT ![r] = l]
      BY <3>1, <3>2 DEF Acknowledged, Refused, Goto
    <3>4. CountsElsewhere(r) /\ pc'[r] # "new"
      BY <1>1, <3>1, <3>3 DEF CountsElsewhere, TypeOK
    <3> QED BY <1>1, <3>1, <3>4, CountsKept
  <2>9. CASE Analyze(r)
    <3>1. /\ pc[r] = "analyze" /\ op' = op /\ tally' = tally /\ stored' = stored
          /\ \E l \in Pcs \ {"new", "publish"} : pc' = [pc EXCEPT ![r] = l]
      BY <2>9 DEF Analyze, request, Goto, Pcs
    <3> QED BY <1>1, <3>1, QuietCounts
  <2>10. CASE NextGroup(r)
    <3>1. /\ pc[r] = "group" /\ op' = op /\ tally' = tally /\ stored' = stored
          /\ \E l \in Pcs \ {"new", "publish"} : pc' = [pc EXCEPT ![r] = l] \/ pc' = pc
      BY <2>10 DEF NextGroup, request, Goto, Pcs
    <3> QED BY <1>1, <3>1, QuietCounts
  <2>11. CASE Compare(r)
    <3>1. /\ pc[r] = "compare" /\ op' = op /\ tally' = tally /\ stored' = stored
          /\ \E l \in Pcs \ {"new", "publish"} : pc' = [pc EXCEPT ![r] = l] \/ pc' = pc
      BY <2>11 DEF Compare, request, Goto, Pcs
    <3> QED BY <1>1, <3>1, QuietCounts
  <2>12. CASE Remove(r)
    BY <1>1, <2>12, RemoveCounts
  <2>13. CASE StatementError(r)
    <3>1. op' = op /\ stored' = stored
      BY <2>13 DEF StatementError, request
    <3>2. CASE pc[r] \in {"select", "upsert", "find", "write"} /\ Refused(r, "error")
      BY <1>1, <3>1, <3>2, RefusalCounts
    <3>3. CASE pc[r] = "analyze" /\ Goto(r, "done") /\ UNCHANGED tally
      BY <1>1, <3>1, <3>3, QuietCounts DEF Goto, Pcs
    <3>4. CASE pc[r] = "remove" /\ Goto(r, "compare") /\ UNCHANGED tally
      BY <1>1, <3>1, <3>4, QuietCounts DEF Goto, Pcs
    <3> QED BY <2>13, <3>2, <3>3, <3>4 DEF StatementError
  <2> QED BY <1>2, <2>1, <2>2, <2>3, <2>4, <2>5, <2>6, <2>7, <2>8, <2>9, <2>10, <2>11, <2>12, <2>13 DEF Step
<1>3. CASE UNCHANGED vars
  <2>1. pc' = pc /\ op' = op /\ tally' = tally /\ stored' = stored
    BY <1>3 DEF vars, request
  <2> QED BY <2>1 DEF CountsInv, Counted, Told
<1> QED BY <1>2, <1>3 DEF Next

\* Import (password_service.go) counts an item as imported only behind the commit
\* of its upsert, and a commit whose answer was lost as an error: an item that was
\* stored is never counted as skipped alone, whichever requests overlap and
\* whichever statements and commits fail.
THEOREM ImportsCountTruly == Spec => []ItemsCounted
<1>1. CountsInv => ItemsCounted
  BY DEF CountsInv, Counted, Told, ItemsCounted
<1> QED BY <1>1, WritesInvariance, CountsInit, CountsStep, PTL DEF Spec

-----------------------------------------------------------------------------
(* Removals among themselves.                                              *)

\* The table loses rows, but none that is the highest of its label.
Shrinks ==
    /\ Live' \subseteq Live
    /\ \A j \in Live' : rows'[j] = rows[j]
    /\ \A k \in Live : Top(k) => k \in Live'

LEMMA TopStays ==
    ASSUME Shrinks, NEW k, Top(k)
    PROVE  Top(k)' /\ rows'[k] = rows[k] /\ \A i : Alike(i, k) => Alike(i, k)'
<1>1. k \in Live /\ k \in Live' /\ rows'[k] = rows[k]
  BY DEF Shrinks, Top
<1>2. \A j \in Live' : j \in Live /\ rows'[j] = rows[j]
  BY DEF Shrinks
<1>3. \A i : Alike(i, k) => Alike(i, k)'
  BY <1>1, <1>2 DEF Alike, LabelOf
<1>4. Top(k)'
  BY <1>1, <1>2 DEF Top, LabelOf
<1> QED BY <1>1, <1>3, <1>4

\* What is known of a request stays known whatever another one removes.
LEMMA OthersAtDedup ==
    ASSUME Shrinks, NEW q \in Request, AtDedup(q),
           pc'[q] = pc[q], groups'[q] = groups[q], rest'[q] = rest[q], kept'[q] = kept[q],
           target'[q] = target[q]
    PROVE  AtDedup(q)'
<1>1. \A k : Top(k) => /\ Top(k)' /\ rows'[k] = rows[k]
                       /\ \A i : Alike(i, k) => Alike(i, k)'
  BY TopStays
<1>2. \A g \in groups'[q] : g # {} /\ Top(Max(g))' /\ \A i \in g : Alike(i, Max(g))'
  BY <1>1 DEF AtDedup
<1>3. pc[q] \in {"compare", "remove"} =>
          /\ Top(kept[q].id)'
          /\ kept[q].reads = Seen(rows'[kept[q].id].secret)
          /\ \A i \in rest[q] : i < kept[q].id /\ Alike(i, kept[q].id)'
  BY <1>1 DEF AtDedup
<1>4. pc[q] = "remove" =>
          /\ target[q] \in Id /\ target[q] < kept[q].id
          /\ Alike(target[q], kept[q].id)'
          /\ target[q] \in Live' => Seen(rows'[target[q]].secret) = kept[q].reads
  <2>1. \A j \in Live' : j \in Live /\ rows'[j] = rows[j]
    BY DEF Shrinks
  <2> QED BY <1>1, <2>1 DEF AtDedup
<1> QED BY <1>2, <1>3, <1>4 DEF AtDedup

LEMMA SameShrinks ==
    ASSUME rows' = rows
    PROVE  Shrinks
BY DEF Shrinks, Live

\* A copy is removed: a higher row of its user and label is there, so it is not
\* the highest.
LEMMA RemovalShrinks ==
    ASSUME TypeOK, NEW t \in Live, NEW k, Top(k), t < k, Alike(t, k),
           rows' = [rows EXCEPT ![t] = NoRow]
    PROVE  Shrinks /\ Live' = Live \ {t}
<1>1. Live' = Live \ {t} /\ \A j \in Live' : rows'[j] = rows[j]
  BY DEF TypeOK, Live
<1>2. ~Top(t)
  <2> SUFFICES ASSUME Top(t)
               PROVE  FALSE
    OBVIOUS
  <2>1. k \in Live /\ rows[k].user = rows[t].user /\ LabelOf(k) = LabelOf(t)
    BY DEF Top, Alike
  <2>2. k <= t
    BY <2>1 DEF Top
  <2>3. k \in Int /\ t \in Int
    BY <2>1 DEF Live, Id
  <2> QED BY <2>2, <2>3
<1> QED BY <1>1, <1>2 DEF Shrinks

\* The groups a removal is about to go through: each has its highest row at the
\* top of the user's rows of that label.
LEMMA GroupsAlike ==
    ASSUME NEW u, NEW g \in Duplicates(u)
    PROVE  /\ g # {} /\ Top(Max(g))
           /\ \A i \in g : Alike(i, Max(g))
<1> DEFINE mine == {i \in Live : rows[i].user = u}
<1>1. PICK i \in mine : g = {j \in mine : LabelOf(j) = LabelOf(i)}
  BY DEF Duplicates
<1>2. i \in g /\ g \subseteq Live /\ g \subseteq Id
  BY <1>1 DEF Live
<1> DEFINE k == Max(g)
<1>3. k \in g /\ \A j \in g : j <= k
  BY <1>2, MaxOfIds
<1> HIDE DEF k
<1>4. k \in Live /\ rows[k].user = u /\ LabelOf(k) = LabelOf(i)
  BY <1>1, <1>3
<1>5. Top(k)
  <2> SUFFICES ASSUME NEW j \in Live, rows[j].user = rows[k].user, LabelOf(j) = LabelOf(k)
               PROVE  j <= k
    BY <1>4 DEF Top
  <2>1. j \in g
    BY <1>1, <1>4
  <2> QED BY <1>3, <2>1
<1>6. \A j \in g : Alike(j, k)
  BY <1>1, <1>4 DEF Alike
<1> QED BY <1>2, <1>5, <1>6 DEF k

LEMMA DedupInit == Init => \A r \in Request : AtDedup(r)
BY DEF Init, AtDedup

\* The steps that leave the table alone.
LEMMA DedupQuiet ==
    ASSUME TypeOK, TypeOK', \A q \in Request : AtDedup(q), NEW r \in Request, AtDedup(r)', rows' = rows,
           \A q \in Request \ {r} :
               /\ pc'[q] = pc[q] /\ groups'[q] = groups[q] /\ rest'[q] = rest[q]
               /\ kept'[q] = kept[q] /\ target'[q] = target[q]
    PROVE  \A q \in Request : AtDedup(q)'
BY SameShrinks, OthersAtDedup

LEMMA DedupAnalyze ==
    ASSUME TypeOK, TypeOK', \A q \in Request : AtDedup(q), NEW r \in Request, Analyze(r)
    PROVE  \A q \in Request : AtDedup(q)'
<1>1. /\ rows' = rows /\ rest' = rest /\ kept' = kept /\ target' = target
      /\ groups' = [groups EXCEPT ![r] = Duplicates(user[r])]
      /\ pc' = [pc EXCEPT ![r] = "group"]
  BY DEF Analyze, Goto
<1>2. pc'[r] = "group" /\ groups'[r] = Duplicates(user[r])
  BY <1>1 DEF TypeOK
<1>3. \A g \in groups'[r] : g # {} /\ Top(Max(g)) /\ \A i \in g : Alike(i, Max(g))
  BY <1>2, GroupsAlike
<1>4. \A k : Top(k) => Top(k)' /\ \A i : Alike(i, k) => Alike(i, k)'
  BY <1>1, SameShrinks, TopStays
<1>5. AtDedup(r)'
  BY <1>2, <1>3, <1>4 DEF AtDedup
<1> QED BY <1>1, <1>5, DedupQuiet DEF TypeOK

LEMMA DedupNextGroup ==
    ASSUME TypeOK, TypeOK', \A q \in Request : AtDedup(q), NEW r \in Request, NextGroup(r)
    PROVE  \A q \in Request : AtDedup(q)'
<1>1. pc[r] = "group" /\ rows' = rows /\ target' = target
  BY DEF NextGroup
<1>2. \A k : Top(k) => Top(k)' /\ \A i : Alike(i, k) => Alike(i, k)'
  BY <1>1, SameShrinks, TopStays
<1>3. \A g \in groups[r] : g # {} /\ Top(Max(g))' /\ \A i \in g : Alike(i, Max(g))'
  BY <1>2 DEF AtDedup
<1>4. CASE groups[r] = {} /\ Goto(r, "done") /\ UNCHANGED dedup
  <2>1. /\ pc' = [pc EXCEPT ![r] = "done"]
        /\ groups' = groups /\ rest' = rest /\ kept' = kept
    BY <1>4 DEF Goto, dedup
  <2>2. AtDedup(r)'
    BY <1>3, <2>1 DEF AtDedup, TypeOK
  <2> QED BY <1>1, <2>1, <2>2, DedupQuiet DEF TypeOK
<1>5. ASSUME NEW g \in groups[r], groups' = [groups EXCEPT ![r] = @ \ {g}],
             Max(g) \in Live,
             kept' = [kept EXCEPT ![r] = [id |-> Max(g), reads |-> Seen(rows[Max(g)].secret)]],
             rest' = [rest EXCEPT ![r] = g \ {Max(g)}],
             Goto(r, "compare")
      PROVE  \A q \in Request : AtDedup(q)'
  <2> DEFINE k == Max(g)
             w == [id |-> k, reads |-> Seen(rows[k].secret)]
  <2>1. g # {} /\ Top(k)' /\ \A i \in g : Alike(i, k)'
    BY <1>3
  <2>2. g \subseteq Id
    BY DEF TypeOK
  <2>3. k \in Id /\ \A i \in g : i <= k
    BY <2>1, <2>2, MaxOfIds
  <2>4. w.id = k /\ w.reads = Seen(rows[k].secret)
    OBVIOUS
  <2>5. /\ groups' = [groups EXCEPT ![r] = @ \ {g}]
        /\ kept' = [kept EXCEPT ![r] = w] /\ rest' = [rest EXCEPT ![r] = g \ {k}]
        /\ pc' = [pc EXCEPT ![r] = "compare"]
    BY <1>5 DEF Goto
  <2> HIDE DEF w, k
  <2>6. /\ groups'[r] = groups[r] \ {g} /\ kept'[r] = w /\ rest'[r] = g \ {k}
        /\ pc'[r] = "compare"
    BY <2>5 DEF TypeOK
  <2>7. \A i \in g \ {k} : i < k
    BY <2>2, <2>3 DEF Id
  <2>8. AtDedup(r)'
    BY <1>1, <1>3, <2>1, <2>4, <2>6, <2>7 DEF AtDedup
  <2> QED BY <1>1, <2>5, <2>8, DedupQuiet DEF TypeOK
<1>6. ASSUME NEW g \in groups[r], groups' = [groups EXCEPT ![r] = @ \ {g}],
             UNCHANGED <<kept, rest, pc>>
      PROVE  \A q \in Request : AtDedup(q)'
  <2>1. groups'[r] = groups[r] \ {g} /\ pc'[r] = "group"
    BY <1>1, <1>6 DEF TypeOK
  <2>2. AtDedup(r)'
    BY <1>3, <2>1 DEF AtDedup
  <2> QED BY <1>1, <1>6, <2>2, DedupQuiet DEF TypeOK
<1> QED BY <1>4, <1>5, <1>6 DEF NextGroup

LEMMA DedupCompare ==
    ASSUME TypeOK, TypeOK', \A q \in Request : AtDedup(q), NEW r \in Request, Compare(r)
    PROVE  \A q \in Request : AtDedup(q)'
<1>1. pc[r] = "compare" /\ rows' = rows /\ groups' = groups /\ kept' = kept
  BY DEF Compare
<1>2. Live' = Live /\ \A k : Top(k) => Top(k)' /\ \A i : Alike(i, k) => Alike(i, k)'
  BY <1>1, SameShrinks, TopStays DEF Live
<1>3. /\ \A g \in groups[r] : g # {} /\ Top(Max(g))' /\ \A i \in g : Alike(i, Max(g))'
      /\ Top(kept[r].id)' /\ kept[r].reads = Seen(rows[kept[r].id].secret)
      /\ \A i \in rest[r] : i < kept[r].id /\ Alike(i, kept[r].id)'
  BY <1>1, <1>2 DEF AtDedup
<1>4. CASE rest[r] = {}
  <2>1. pc' = [pc EXCEPT ![r] = "group"] /\ rest' = rest /\ target' = target
    BY <1>4 DEF Compare, Goto
  <2>2. AtDedup(r)'
    BY <1>1, <1>3, <2>1 DEF AtDedup, TypeOK
  <2> QED BY <1>1, <2>1, <2>2, DedupQuiet DEF TypeOK
<1>5. CASE rest[r] # {}
  <2> DEFINE i == Max(rest[r])
  <2>1. i \in rest[r] /\ i \in Id
    BY <1>5, MaxOfIds DEF TypeOK
  <2>2. /\ rest' = [rest EXCEPT ![r] = @ \ {i}] /\ target' = [target EXCEPT ![r] = i]
        /\ (pc' = [pc EXCEPT ![r] = "remove"] /\ Copy(r, i)) \/ pc' = pc
    BY <1>5 DEF Compare, Goto
  <2> HIDE DEF i
  <2>3. /\ rest'[r] = rest[r] \ {i} /\ target'[r] = i
        /\ (pc'[r] = "remove" /\ Copy(r, i)) \/ pc'[r] = "compare"
    BY <1>1, <2>2 DEF TypeOK
  <2>4. AtDedup(r)'
    BY <1>1, <1>2, <1>3, <2>1, <2>3 DEF AtDedup, Copy
  <2> QED BY <1>1, <2>2, <2>4, DedupQuiet DEF TypeOK
<1> QED BY <1>4, <1>5

\* Remove: what it deletes is below the row that its group keeps.
LEMMA DedupRemove ==
    ASSUME TypeOK, TypeOK', \A q \in Request : AtDedup(q), NEW r \in Request, Remove(r)
    PROVE  \A q \in Request : AtDedup(q)'
<1>1. /\ pc[r] = "remove" /\ pc' = [pc EXCEPT ![r] = "compare"] /\ target' = target
      /\ groups' = groups /\ rest' = rest /\ kept' = kept
  BY DEF Remove, Goto, dedup
<1>2. /\ Top(kept[r].id) /\ target[r] < kept[r].id /\ Alike(target[r], kept[r].id)
      /\ kept[r].reads = Seen(rows[kept[r].id].secret)
      /\ \A i \in rest[r] : i < kept[r].id /\ Alike(i, kept[r].id)
      /\ \A g \in groups[r] : g # {} /\ Top(Max(g)) /\ \A i \in g : Alike(i, Max(g))
  BY <1>1 DEF AtDedup
<1>3. Shrinks
  <2>1. CASE Mine(r)
    <3>1. target[r] \in Live /\ rows' = [rows EXCEPT ![target[r]] = NoRow]
      BY <2>1 DEF Remove, Mine
    <3> QED BY <1>2, <3>1, RemovalShrinks
  <2>2. CASE ~Mine(r)
    BY <2>2, SameShrinks DEF Remove
  <2> QED BY <2>1, <2>2
<1>4. \A k : Top(k) => /\ Top(k)' /\ rows'[k] = rows[k]
                       /\ \A i : Alike(i, k) => Alike(i, k)'
  BY <1>3, TopStays
<1>5. pc'[r] = "compare"
  BY <1>1 DEF TypeOK
<1>6. AtDedup(r)'
  BY <1>1, <1>2, <1>4, <1>5 DEF AtDedup
<1>7. \A q \in Request \ {r} : pc'[q] = pc[q]
  BY <1>1 DEF TypeOK
<1> QED BY <1>1, <1>3, <1>6, <1>7, OthersAtDedup

LEMMA DedupStep ==
    ASSUME Operations \subseteq {"dedup"}, TypeOK, TypeOK', \A q \in Request : AtDedup(q), [Next]_vars
    PROVE  \A q \in Request : AtDedup(q)'
<1>1. ASSUME NEW r \in Request, Arrive(r)
      PROVE  \A q \in Request : AtDedup(q)'
  <2>1. PICK o \in Operations, i \in Id :
          /\ target' = [target EXCEPT ![r] = IF o \in {"update", "delete"} THEN i ELSE 0]
          /\ CASE o = "create" -> Ask(r) /\ Goto(r, "select")
               [] o = "update" -> Ask(r) /\ Goto(r, "find")
               [] o = "delete" -> UNCHANGED <<body, asked>> /\ Goto(r, "find")
               [] o = "import" -> UNCHANGED <<body, asked>> /\ Goto(r, "next")
               [] o = "dedup"  -> UNCHANGED <<body, asked>> /\ Goto(r, "analyze")
    BY <1>1 DEF Arrive
  <2>2. o = "dedup"
    OBVIOUS
  <2>3. /\ target' = [target EXCEPT ![r] = 0] /\ pc' = [pc EXCEPT ![r] = "analyze"]
        /\ rows' = rows /\ groups' = groups /\ rest' = rest /\ kept' = kept
    BY <1>1, <2>1, <2>2 DEF Arrive, Goto, dedup
  <2>4. \A k : Top(k) => Top(k)' /\ \A j : Alike(j, k) => Alike(j, k)'
    BY <2>3, SameShrinks, TopStays
  <2>5. AtDedup(r)'
    BY <2>3, <2>4 DEF AtDedup, TypeOK
  <2> QED BY <2>3, <2>5, DedupQuiet DEF TypeOK
<1>2. ASSUME NEW r \in Request, StatementError(r)
      PROVE  \A q \in Request : AtDedup(q)'
  <2>1. pc[r] \notin {"select", "upsert", "find", "write"}
    BY DEF AtDedup
  <2>2. /\ (pc[r] = "analyze" /\ pc' = [pc EXCEPT ![r] = "done"])
           \/ (pc[r] = "remove" /\ pc' = [pc EXCEPT ![r] = "compare"])
        /\ rows' = rows /\ groups' = groups /\ rest' = rest /\ kept' = kept /\ target' = target
    BY <1>2, <2>1 DEF StatementError, Goto, dedup
  <2>3. \A k : Top(k) => Top(k)' /\ \A j : Alike(j, k) => Alike(j, k)'
    BY <2>2, SameShrinks, TopStays
  <2>4. AtDedup(r)'
    BY <2>2, <2>3 DEF AtDedup, TypeOK
  <2> QED BY <2>2, <2>4, DedupQuiet DEF TypeOK
<1>3. ASSUME NEW r \in Request, Step(r)
      PROVE  \A q \in Request : AtDedup(q)'
  <2>1. pc[r] \in {"new", "analyze", "group", "compare", "remove", "done"}
    BY DEF AtDedup
  <2>2. Analyze(r) \/ NextGroup(r) \/ Compare(r) \/ Remove(r)
    BY <1>3, <2>1 DEF Step, NextItem, SelectForUpdate, UpsertUpdate, UpsertInsert, Publish,
                      Find, UpdateWrite, DeleteWrite
  <2> QED BY <2>2, DedupAnalyze, DedupNextGroup, DedupCompare, DedupRemove
<1>4. CASE UNCHANGED vars
  <2>1. /\ rows' = rows /\ pc' = pc /\ groups' = groups /\ rest' = rest /\ kept' = kept
        /\ target' = target
    BY <1>4 DEF vars, dedup
  <2> QED BY <2>1, SameShrinks, OthersAtDedup
<1> QED BY <1>1, <1>2, <1>3, <1>4 DEF Next

\* Between removals, only Remove takes a row from the table.
LEMMA OnlyRemoveRemoves ==
    ASSUME Operations \subseteq {"dedup"}, TypeOK, \A q \in Request : AtDedup(q), Next,
           NEW i \in Live, rows'[i] = NoRow
    PROVE  \E r \in Request : Remove(r) /\ Mine(r) /\ i = target[r]
<1>1. rows[i] # NoRow /\ i \in Id
  BY DEF Live
<1>2. PICK r \in Request : Arrive(r) \/ Step(r) \/ StatementError(r)
  BY DEF Next
<1>3. pc[r] \in {"new", "analyze", "group", "compare", "remove", "done"}
  BY DEF AtDedup
<1>4. Remove(r)
  <2>1. CASE Arrive(r) \/ StatementError(r)
    BY <1>1, <2>1 DEF Arrive, StatementError
  <2>2. CASE Step(r)
    BY <1>1, <1>3, <2>2 DEF Step, NextItem, SelectForUpdate, UpsertUpdate, UpsertInsert, Publish,
                      Find, UpdateWrite, DeleteWrite, Analyze, NextGroup, Compare
  <2> QED BY <1>2, <2>1, <2>2
<1>5. Mine(r) /\ i = target[r]
  BY <1>1, <1>4 DEF Remove, TypeOK
<1> QED BY <1>4, <1>5

\* However removals of duplicates overlap (dedup_service.go), and whatever they
\* fail to read or to delete, a row that reads the same is left for each that
\* they remove.  That nobody else writes is needed: an update between the
\* comparison and the deletion gives the row another secret.
THEOREM CopiesKept ==
    ASSUME Operations \subseteq {"dedup"}
    PROVE  Spec => LastCopyKept
<1>1. TypeOK /\ DedupInv /\ [Next]_vars =>
        [\A i \in Live : rows'[i] = NoRow =>
            \E j \in Live \ {i} : /\ rows'[j] # NoRow
                                  /\ rows[j].user = rows[i].user
                                  /\ LabelOf(j) = LabelOf(i)
                                  /\ Seen(rows[j].secret) = Seen(rows[i].secret)]_vars
  <2> SUFFICES ASSUME TypeOK, \A q \in Request : AtDedup(q), Next,
                      NEW i \in Live, rows'[i] = NoRow
               PROVE  \E j \in Live \ {i} : /\ rows'[j] # NoRow
                                            /\ rows[j].user = rows[i].user
                                            /\ LabelOf(j) = LabelOf(i)
                                            /\ Seen(rows[j].secret) = Seen(rows[i].secret)
    BY DEF DedupInv
  <2>1. PICK r \in Request : Remove(r) /\ Mine(r) /\ i = target[r]
    BY OnlyRemoveRemoves
  <2> DEFINE k == kept[r].id
  <2>2. /\ Top(k) /\ i < k /\ Alike(i, k)
        /\ Seen(rows[i].secret) = Seen(rows[k].secret)
    BY <2>1 DEF AtDedup, Remove
  <2>3. rows' = [rows EXCEPT ![i] = NoRow]
    BY <2>1 DEF Remove
  <2> HIDE DEF k
  <2>4. k \in Live \ {i} /\ rows'[k] # NoRow
    BY <2>2, <2>3 DEF Top, TypeOK, Live, Id
  <2>5. rows[k].user = rows[i].user /\ LabelOf(k) = LabelOf(i)
    BY <2>2 DEF Alike
  <2> QED BY <2>2, <2>4, <2>5
<1>2. Init => DedupInv
  BY DedupInit DEF DedupInv
<1>3. TypeOK /\ TypeOK' /\ DedupInv /\ [Next]_vars => DedupInv'
  BY DedupStep DEF DedupInv
<1>4. WritesInv => TypeOK
  BY DEF WritesInv
<1> QED BY <1>1, <1>2, <1>3, <1>4, WritesInvariance, PTL DEF Spec, LastCopyKept
=============================================================================
