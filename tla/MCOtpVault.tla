----------------------------- MODULE MCOtpVault -----------------------------
(***************************************************************************)
(* An instance of OtpVault for TLC.  MaxOtps is as many as there are       *)
(* requests, so that it never disables an insert.  Requests are names that *)
(* may be given in the order of arrival: symmetry would make less of them, *)
(* but is not sound for liveness.                                          *)
(***************************************************************************)
EXTENDS OtpVault

CONSTANTS r1, r2, r3, u1, n1, n2

ThreeRequests == {r1, r2, r3}
OneUser       == {u1}
TwoNames      == {n1, n2}

AllFaults == {"db", "kafka", "crash"}

Arrived(r) == r \in busy \/ pc[r] # "idle"

Numbered == (Arrived(r2) => Arrived(r1)) /\ (Arrived(r3) => Arrived(r2))

\* Names are as good as each other: the one that comes first may be called n1.
Renamed ==
    lastId = 0 /\ (\A r \in Request : seen[r] = None)
        => \A r \in Request : seen'[r] # None => seen'[r].name = n1

\* Bound: of the three requests at most two are left when main is signalled.
TwoLeft == phase = "signalled" => Cardinality({r \in Request : pc[r] # "done"}) <= 2
=============================================================================
