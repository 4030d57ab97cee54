--------------------------- MODULE MCNoteService ---------------------------
(***************************************************************************)
(* An instance of NoteService for TLC.  MaxNotes is as many ids as its     *)
(* requests can use, so that it never disables an insert.                  *)
(***************************************************************************)
EXTENDS NoteService

CONSTANTS r1, r2, r3, u1, t1, t2

ThreeRequests == {r1, r2, r3}
OneUser       == {u1}
TwoTitles     == {t1, t2}

AllFaults == {"db", "kafka", "crash"}

\* Requests are names that may be given in the order of arrival.  Symmetry would
\* make less of them, but is not sound for liveness.
Numbered ==
    /\ pc[r1] = "idle" => pc[r2] = "idle"
    /\ pc[r2] = "idle" => pc[r3] = "idle"

\* Bound: only the first request may import more than one note.
OneLongImport == \A r \in {r2, r3} : tally[r].total <= 1
=============================================================================
