---------------------------- MODULE MCOtpLockout ----------------------------
(***************************************************************************)
(* Instances of OtpLockout for TLC.  Limit is lowered from 5 and Window to *)
(* one tick so that several windows fit in MaxTime.  The count of an entry *)
(* is bounded by OvershootBounded itself; wrong and since by the clock.    *)
(***************************************************************************)
EXTENDS OtpLockout, TLC

CONSTANTS v1, v2, v3, k1

ThreeValidators == {v1, v2, v3}
OneKey          == {k1}

Symmetry == Permutations(Validator) \cup Permutations(Key)
=============================================================================
