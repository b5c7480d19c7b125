--------------------------- MODULE MCKafkaConsumer ---------------------------
(* Model-checking instance of KafkaConsumer. *)
EXTENDS KafkaConsumer, TLC

CONSTANTS i1, i2        \* two service instances of one consumer group

Symmetry == Permutations({i1, i2})
==============================================================================
