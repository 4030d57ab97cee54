------------------------------ MODULE Delivery ------------------------------
(***************************************************************************)
(* What a consumer group promises of one partition, whatever processes run *)
(* the consumer and however often they die: a message is settled, that is  *)
(* handled or turned down for good, only after all that were produced      *)
(* before it, and the group's mark only ever stands at a message up to     *)
(* which everything is settled.  The mark may go back: then messages are   *)
(* delivered again, and settled already.                                   *)
(***************************************************************************)
EXTENDS Integers

CONSTANT MaxLog     \* bound: messages produced

VARIABLES
    produced,   \* how many messages there are
    settled,    \* the messages that were settled
    mark        \* where the group would go on: after this message

vars == <<produced, settled, mark>>

Init == produced = 0 /\ settled = {} /\ mark = 0

Produce ==
    /\ produced < MaxLog
    /\ produced' = produced + 1
    /\ UNCHANGED <<settled, mark>>

Settle(i) ==
    /\ i <= produced
    /\ 1..(i - 1) \subseteq settled
    /\ settled' = settled \cup {i}
    /\ UNCHANGED <<produced, mark>>

Mark(i) ==
    /\ i <= produced
    /\ 1..i \subseteq settled
    /\ mark' = i
    /\ UNCHANGED <<produced, settled>>

Next == Produce \/ \E i \in 1..MaxLog : Settle(i) \/ Mark(i)

Spec == Init /\ [][Next]_vars
=============================================================================
