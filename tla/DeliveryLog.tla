----------------------------- MODULE DeliveryLog -----------------------------
(***************************************************************************)
(* What common/kafka promises to every consumer service of the platform,   *)
(* stripped of readers, retries and rebalances: a log of messages, the set *)
(* of messages some handler call has been made for, and the group offset.  *)
(*                                                                         *)
(* The promise is deliberately weak.  A message below the group offset has *)
(* been ATTEMPTED; it has not necessarily succeeded, and a message whose   *)
(* handler failed may never be attempted again.  KafkaConsumer is shown to *)
(* implement this module, and the service modules only rely on this much.  *)
(***************************************************************************)
EXTENDS Naturals

CONSTANT MaxOffset      \* messages the producers ever append (bound)

VARIABLES
  end,                  \* log end offset: messages 0 .. end-1 exist
  attempted,            \* offsets some handler call has completed for
  committed             \* the group's committed offset: next one to deliver

vars == << end, attempted, committed >>

Offsets == 0 .. MaxOffset - 1

Init == /\ end = 0
        /\ attempted = {}
        /\ committed = 0

Append == /\ end < MaxOffset
          /\ end' = end + 1
          /\ UNCHANGED << attempted, committed >>

Attempt(o) == /\ o < end
              /\ attempted' = attempted \cup {o}
              /\ UNCHANGED << end, committed >>

(* The offset may also move backwards: a consumer that lost its partition  *)
(* still commits the message it was working on.                            *)
Commit(n) == /\ \A o \in Offsets : o < n => o \in attempted
             /\ committed' = n
             /\ UNCHANGED << end, attempted >>

Next == \/ Append
        \/ \E o \in Offsets : Attempt(o)
        \/ \E n \in 1 .. MaxOffset : Commit(n)

Spec == Init /\ [][Next]_vars
==============================================================================
