----------------------------- MODULE OtpLockout -----------------------------
(***************************************************************************)
(* Validate of the otp service and its in-memory table of failed attempts. *)
(*                                                                         *)
(* A validation looks at the table, lets go of the mutex, reads the OTP    *)
(* from the database and only then records its failure or success: what it *)
(* saw in the table may be stale by then.  A member of Validator is a slot *)
(* for one validation at a time, so the size of Validator is the number of *)
(* validations that may run at once.  A Key is one user's attempts on one  *)
(* OTP id.                                                                 *)
(*                                                                         *)
(* The OTP row itself (owner, valid flag, expiry, secret) is abstracted to *)
(* what Validate finds there: unusable, or usable and the code right or    *)
(* wrong.                                                                  *)
(***************************************************************************)
EXTENDS Integers, FiniteSets

CONSTANTS
    Validator,  \* the validations that may be in progress at once
    Key,        \* pairs of a user and an OTP id
    Limit,      \* failures after which a key is locked: 5 in the code
    Window,     \* how long an entry counts, in clock ticks: 5 minutes in the code
    MaxTime,    \* bound: the last tick of the clock
    NoEntry     \* the key has no entry in the table

ASSUME LockoutAssumption ==
    /\ IsFiniteSet(Validator)
    /\ Limit \in Nat \ {0}
    /\ Window \in Nat
    /\ MaxTime \in Nat
    /\ NoEntry \notin [count : Nat, firstFail : Nat]

Entry == [count : Nat, firstFail : Nat]

VARIABLES
    failed,     \* the table: failed[k] is k's entry, or NoEntry
    pc,         \* where each validation is
    key,        \* the key it validates
    now,        \* the clock
    wrong,      \* ghost: wrong codes answered for k since the last success
    since       \* ghost: when k was last validated successfully

vars == <<failed, pc, key, now, wrong, since>>

Init ==
    /\ failed = [k \in Key |-> NoEntry]
    /\ pc = [v \in Validator |-> "idle"]
    /\ key \in [Validator -> Key]
    /\ now = 0
    /\ wrong = [k \in Key |-> 0]
    /\ since = [k \in Key |-> 0]

Count(k) == IF failed[k] = NoEntry THEN 0 ELSE failed[k].count

Expired(k) == failed[k] # NoEntry /\ now - failed[k].firstFail > Window

Locked(k) == failed[k] # NoEntry /\ failed[k].count >= Limit

-----------------------------------------------------------------------------
Goto(v, l) == pc' = [pc EXCEPT ![v] = l]

\* Slip: the limit is tested with > for >=.
Check_OneMore(v, k) ==
    /\ pc[v] = "idle"
    /\ key' = [key EXCEPT ![v] = k]
    /\ IF Expired(k)
       THEN failed' = [failed EXCEPT ![k] = NoEntry] /\ Goto(v, "lookup")
       ELSE /\ UNCHANGED failed
            /\ Goto(v, IF Count(k) > Limit THEN "idle" ELSE "lookup")
    /\ UNCHANGED <<now, wrong, since>>

\* Slip: a locked entry is dropped at the next attempt, whatever its age.
Check_Forgets(v, k) ==
    /\ pc[v] = "idle"
    /\ key' = [key EXCEPT ![v] = k]
    /\ IF Expired(k) \/ Locked(k)
       THEN failed' = [failed EXCEPT ![k] = NoEntry]
       ELSE UNCHANGED failed
    /\ Goto(v, "lookup")
    /\ UNCHANGED <<now, wrong, since>>

\* The first critical section: an expired entry is dropped; a locked key is
\* refused at once.
Check(v, k) ==
    /\ pc[v] = "idle"
    /\ key' = [key EXCEPT ![v] = k]
    /\ IF Expired(k)
       THEN failed' = [failed EXCEPT ![k] = NoEntry] /\ Goto(v, "lookup")
       ELSE /\ UNCHANGED failed
            /\ Goto(v, IF Locked(k) THEN "idle" ELSE "lookup")
    /\ UNCHANGED <<now, wrong, since>>

\* The row is read and the code compared, with no lock held.  An OTP that is
\* missing, foreign, not valid, out of date or unreadable ends the validation
\* and counts as nothing.
Lookup(v) ==
    /\ pc[v] = "lookup"
    /\ \E found \in {"idle", "wrong", "right"} : Goto(v, found)
    /\ UNCHANGED <<failed, key, now, wrong, since>>

\* Slip: every failure moves firstFail, and restarts the count.
Fail_Restarts(v) ==
    LET k == key[v]
    IN  /\ pc[v] = "wrong"
        /\ failed' = [failed EXCEPT ![k] = [count |-> 1, firstFail |-> now]]
        /\ wrong' = [wrong EXCEPT ![k] = @ + 1]
        /\ Goto(v, "idle")
        /\ UNCHANGED <<key, now, since>>

\* The entry of k with one more failure.
OneMore(k) ==
    IF failed[k] = NoEntry
    THEN [count |-> 1, firstFail |-> now]
    ELSE [count |-> failed[k].count + 1, firstFail |-> failed[k].firstFail]

\* A wrong code: counted in the entry now in the table, which may not be the
\* one Check looked at, or in a new one.
Fail(v) ==
    LET k == key[v]
    IN  /\ pc[v] = "wrong"
        /\ failed' = [failed EXCEPT ![k] = OneMore(k)]
        /\ wrong' = [wrong EXCEPT ![k] = @ + 1]
        /\ Goto(v, "idle")
        /\ UNCHANGED <<key, now, since>>

\* The right code: the entry is dropped.
Succeed(v) ==
    LET k == key[v]
    IN  /\ pc[v] = "right"
        /\ failed' = [failed EXCEPT ![k] = NoEntry]
        /\ wrong' = [wrong EXCEPT ![k] = 0]
        /\ since' = [since EXCEPT ![k] = now]
        /\ Goto(v, "idle")
        /\ UNCHANGED <<key, now>>

\* The table lives in memory only: a restart forgets it and the validations in
\* progress.
Restart ==
    /\ failed' = [k \in Key |-> NoEntry]
    /\ pc' = [v \in Validator |-> "idle"]
    /\ wrong' = [k \in Key |-> 0]
    /\ since' = [k \in Key |-> now]
    /\ UNCHANGED <<key, now>>

Tick ==
    /\ now < MaxTime
    /\ now' = now + 1
    /\ UNCHANGED <<failed, pc, key, wrong, since>>

Next ==
    \/ \E v \in Validator : \/ \E k \in Key : Check(v, k)
                            \/ Lookup(v)
                            \/ Fail(v)
                            \/ Succeed(v)
    \/ Restart
    \/ Tick

Spec == Init /\ [][Next]_vars

-----------------------------------------------------------------------------
(* Properties.                                                             *)

TypeOK ==
    /\ failed \in [Key -> Entry \cup {NoEntry}]
    /\ pc \in [Validator -> {"idle", "lookup", "wrong", "right"}]
    /\ key \in [Validator -> Key]
    /\ now \in 0..MaxTime
    /\ wrong \in [Key -> Nat]
    /\ since \in [Key -> 0..MaxTime]

N == Cardinality(Validator)

\* The validations of k that got past the check and may yet count a failure.
Admitted(k) == {v \in Validator : key[v] = k /\ pc[v] \in {"lookup", "wrong", "right"}}

\* The check and the count are two critical sections, so validations that
\* passed the check together may all fail: but never more of them than run at
\* once, whatever expires, succeeds or restarts in between.
OvershootBounded == \A k \in Key : Count(k) + Cardinality(Admitted(k)) < Limit + N

LockoutInv == TypeOK /\ OvershootBounded

\* What the lock is for: without a success, the wrong codes answered for a key
\* grow by at most Limit - 1 + N per window, however attempts are timed.
GuessRateBounded ==
    \A k \in Key :
        wrong[k] <= (Limit - 1 + N) * (1 + ((now - since[k]) \div (Window + 1)))

\* Behind it: the wrong codes of k are those of the entry in the table and
\* those of m entries dropped since the last success, each of which stayed in
\* the table for more than Window.
Paced(k) ==
    \E m \in 0..now :
        /\ wrong[k] <= (Limit - 1 + N) * m + Count(k)
        /\ since[k] + m * (Window + 1) <=
               (IF failed[k] = NoEntry THEN now ELSE failed[k].firstFail)

EntriesPaced ==
    \A k \in Key : /\ Paced(k)
                   /\ since[k] <= now
                   /\ failed[k] # NoEntry => failed[k].firstFail <= now

\* A locked key is unlocked by nothing but the end of its window, the success
\* of a validation admitted before, or a restart.
LockHolds ==
    [][\A k \in Key : Locked(k) /\ ~Locked(k)' =>
          \/ Expired(k)
          \/ \E v \in Validator : pc[v] = "right" /\ key[v] = k /\ pc'[v] = "idle"
          \/ \A v \in Validator : pc'[v] = "idle"]_vars
=============================================================================
