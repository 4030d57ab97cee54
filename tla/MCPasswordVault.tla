-------------------------- MODULE MCPasswordVault --------------------------
(***************************************************************************)
(* Instances of PasswordVault for TLC.  The places p1 and p2 share a label *)
(* whatever the username, as ("a::b", "c") and ("a", "b::c") do.           *)
(***************************************************************************)
EXTENDS PasswordVault, TLC

CONSTANTS r1, r2, u1, p1, p2, p3, n1, s1, s2, bad

TwoRequests == {r1, r2}
OneUser     == {u1}
TwoPlaces   == {p1, p2}
ThreePlaces == {p1, p2, p3}
OneUsername == {n1}
TwoSecrets  == {s1, s2}
Secrets     == {s1, s2, bad}
NoSecret    == {}
BadSecret   == {bad}

NoFaults  == {}
AllFaults == {"statement", "answer"}

Writes           == {"create", "import", "update", "delete"}
Removal          == {"dedup"}
RemovalAndUpdate == {"dedup", "update"}

Labels == [p \in {p1, p2, p3} |-> [n \in Username |-> IF p = p3 THEN p3 ELSE p1]]

\* An empty table, and one with a row: which place and secret it has makes no
\* difference where nothing is looked for by label.
OneRowOrNone ==
    {[i \in Id |-> IF i = 1 THEN first ELSE NoRow] :
        first \in {NoRow, [user |-> u1, place |-> p1, username |-> n1, secret |-> s1]}}

\* Every full table.
AnyRows == [Id -> Row]

\* Two requests may be named in the order in which they arrive.
Numbered == pc[r2] # "new" => pc[r1] # "new"

\* Bound: only the first of them may import more than one entry.
OneLongImport == pc[r2] = "next" => left[r2] <= 1

Symmetry == Permutations(Request)
=============================================================================
