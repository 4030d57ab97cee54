--------------------------- MODULE MCChatService ---------------------------
(* Instances of ChatService for TLC.                                       *)
EXTENDS ChatService, TLC

CONSTANTS ann, bob, cyd, s1, s2, r1, r2

ThreeUsers == {ann, bob, cyd}
TwoSockets == {s1, s2}
TwoRequests == {r1, r2}

Symmetry == Permutations(Request) \cup Permutations(Socket)

AllOperations == {"create", "send", "mark"}

AllFaults == {"database", "answer"}

\* A pair that has not written yet, and a trio with a message of bob's.
PairAndTrio == <<[type |-> "direct", members |-> {ann, bob}],
                 [type |-> "group", members |-> {ann, bob, cyd}]>>

FromBob == <<[conv |-> 2, sender |-> bob,
              readBy |-> [u \in ThreeUsers |-> IF u = bob THEN 1 ELSE 0]]>>
=============================================================================
