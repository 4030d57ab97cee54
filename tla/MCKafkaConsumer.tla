-------------------------- MODULE MCKafkaConsumer --------------------------
(* Instances of KafkaConsumer for TLC.                                     *)
EXTENDS KafkaConsumer

CONSTANTS c1, c2

OneConsumer  == {c1}
TwoConsumers == {c1, c2}

AllFaults == {"fetch", "commit", "crash"}
=============================================================================
