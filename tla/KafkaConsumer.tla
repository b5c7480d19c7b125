---------------------------- MODULE KafkaConsumer ----------------------------
(***************************************************************************)
(* common/kafka: the consumption loop Consumer.Consume shared by the       *)
(* alarm, dispatch, workorder, parking, notice, device, video and          *)
(* dashboard services, over one partition of a topic read by one consumer  *)
(* group of several service instances.                                     *)
(*                                                                         *)
(* External (segmentio/kafka-go and the broker, modelled from their use):  *)
(* FetchMessage hands out the next message of the reader's own position    *)
(* and never the same one twice in a session; a newly assigned reader      *)
(* starts at the group's committed offset; CommitMessages writes           *)
(* offset + 1, also for a reader that has meanwhile lost the partition.    *)
(***************************************************************************)
EXTENDS Naturals

CONSTANTS
  Instances,            \* service instances of the consumer group
  NoOwner,              \* the partition is currently assigned to nobody
  MaxOffset,            \* messages the producers ever append (bound)
  MaxHandlerRetries,    \* maxHandlerRetries, 5 in the code
  MaxFaults,            \* crashes, broker errors and rebalances (bound)
  HandlerMayFail        \* can the service's handler return an error at all

ASSUME KafkaAssumption ==
  /\ NoOwner \notin Instances
  /\ MaxOffset \in Nat \ {0}
  /\ MaxHandlerRetries \in Nat \ {0}
  /\ MaxFaults \in Nat
  /\ HandlerMayFail \in BOOLEAN

VARIABLES
  end,                  \* log end offset: messages 0 .. end-1 exist
  committed,            \* committed offset of the group
  owner,                \* instance the partition is assigned to
  pc,                   \* where each instance is in Consume
  pos,                  \* position of each instance's reader
  cur,                  \* m.Offset of the message each instance works on
  retries,              \* the loop variable "retries" of each instance
  faults,               \* crashes, errors and rebalances so far
  succeeded,            \* history: offsets whose handler returned nil
  failures,             \* history: number of failed handler calls per offset
  skipped               \* history: offsets given up as poison

vars == << end, committed, owner, pc, pos, cur, retries, faults,
           succeeded, failures, skipped >>

history == << succeeded, failures, skipped >>

Offsets   == 0 .. MaxOffset - 1
Positions == 0 .. MaxOffset
Stages    == { "down", "fetch", "handle", "backoff", "commit" }

Attempted == succeeded \cup { o \in Offsets : failures[o] > 0 }

TypeOK ==
  /\ end \in Positions
  /\ committed \in Positions
  /\ owner \in Instances \cup {NoOwner}
  /\ pc \in [Instances -> Stages]
  /\ pos \in [Instances -> Positions]
  /\ cur \in [Instances -> Offsets]
  /\ retries \in [Instances -> 0 .. MaxHandlerRetries - 1]
  /\ faults \in 0 .. MaxFaults
  /\ succeeded \subseteq Offsets
  /\ failures \in [Offsets -> Nat]
  /\ skipped \subseteq Offsets

Init ==
  /\ end = 0
  /\ committed = 0                             \* StartOffset: FirstOffset
  /\ owner = NoOwner
  /\ pc = [i \in Instances |-> "down"]
  /\ pos = [i \in Instances |-> 0]
  /\ cur = [i \in Instances |-> 0]
  /\ retries = [i \in Instances |-> 0]
  /\ faults = 0
  /\ succeeded = {}
  /\ failures = [o \in Offsets |-> 0]
  /\ skipped = {}

------------------------------------------------------------------------------
(* Producer.Publish: append one message. *)
Publish ==
  /\ end < MaxOffset
  /\ end' = end + 1
  /\ UNCHANGED << committed, owner, pc, pos, cur, retries, faults, history >>

(* Mutant: a runner that does not rebuild a session that ended in an error. *)
NewConsumerOnce(i) ==
  /\ pc[i] = "down"
  /\ faults = 0
  /\ pc' = [pc EXCEPT ![i] = "fetch"]
  /\ retries' = [retries EXCEPT ![i] = 0]
  /\ UNCHANGED << end, committed, owner, pos, cur, faults, history >>

(* The service's runner builds a reader (NewConsumer) and enters Consume.  *)
(* "var retries int" starts at zero in every session.                      *)
NewConsumer(i) ==
  /\ pc[i] = "down"
  /\ pc' = [pc EXCEPT ![i] = "fetch"]
  /\ retries' = [retries EXCEPT ![i] = 0]
  /\ UNCHANGED << end, committed, owner, pos, cur, faults, history >>

(* The coordinator assigns the partition to a live instance, whose reader  *)
(* starts from the committed offset.                                       *)
AssignTo(i) ==
  /\ pc[i] # "down"
  /\ owner' = i
  /\ pos' = [pos EXCEPT ![i] = committed]
  /\ UNCHANGED << end, committed, pc, cur, retries, history >>

Acquire(i) == owner = NoOwner /\ AssignTo(i) /\ UNCHANGED faults

Rebalance(i) ==
  /\ faults < MaxFaults
  /\ owner \notin {i, NoOwner}
  /\ AssignTo(i)
  /\ faults' = faults + 1

(* Mutant: ReadMessage instead of FetchMessage, committing on delivery. *)
ReadMessage(i) ==
  /\ pc[i] = "fetch"
  /\ owner = i
  /\ pos[i] < end
  /\ cur' = [cur EXCEPT ![i] = pos[i]]
  /\ pos' = [pos EXCEPT ![i] = pos[i] + 1]
  /\ pc' = [pc EXCEPT ![i] = "handle"]
  /\ committed' = pos[i] + 1
  /\ UNCHANGED << end, owner, retries, faults, history >>

(* c.reader.FetchMessage: the reader's position advances past the message. *)
Fetch(i) ==
  /\ pc[i] = "fetch"
  /\ owner = i
  /\ pos[i] < end
  /\ cur' = [cur EXCEPT ![i] = pos[i]]
  /\ pos' = [pos EXCEPT ![i] = pos[i] + 1]
  /\ pc' = [pc EXCEPT ![i] = "handle"]
  /\ UNCHANGED << end, committed, owner, retries, faults, history >>

(* handler(ctx, m) returned nil. *)
HandleOk(i) ==
  /\ pc[i] = "handle"
  /\ succeeded' = succeeded \cup {cur[i]}
  /\ retries' = [retries EXCEPT ![i] = 0]
  /\ pc' = [pc EXCEPT ![i] = "commit"]
  /\ UNCHANGED << end, committed, owner, pos, cur, faults, failures, skipped >>

(* Mutant: the retry limit is compared with > instead of >=. *)
HandleFailLate(i) ==
  /\ HandlerMayFail
  /\ pc[i] = "handle"
  /\ failures' = [failures EXCEPT ![cur[i]] = @ + 1]
  /\ \/ /\ retries[i] + 1 > MaxHandlerRetries
        /\ skipped' = skipped \cup {cur[i]}
        /\ retries' = [retries EXCEPT ![i] = 0]
        /\ pc' = [pc EXCEPT ![i] = "commit"]
     \/ /\ retries[i] + 1 <= MaxHandlerRetries
        /\ retries' = [retries EXCEPT ![i] = @ + 1]
        /\ pc' = [pc EXCEPT ![i] = "backoff"]
        /\ UNCHANGED skipped
  /\ UNCHANGED << end, committed, owner, pos, cur, faults, succeeded >>

(* handler(ctx, m) returned an error: back off and "continue", which goes  *)
(* on with the NEXT message, or - at the limit - commit it as poison.      *)
HandleFail(i) ==
  /\ HandlerMayFail
  /\ pc[i] = "handle"
  /\ failures' = [failures EXCEPT ![cur[i]] = @ + 1]
  /\ \/ /\ retries[i] + 1 >= MaxHandlerRetries
        /\ skipped' = skipped \cup {cur[i]}
        /\ retries' = [retries EXCEPT ![i] = 0]
        /\ pc' = [pc EXCEPT ![i] = "commit"]
     \/ /\ retries[i] + 1 < MaxHandlerRetries
        /\ retries' = [retries EXCEPT ![i] = @ + 1]
        /\ pc' = [pc EXCEPT ![i] = "backoff"]
        /\ UNCHANGED skipped
  /\ UNCHANGED << end, committed, owner, pos, cur, faults, succeeded >>

(* sleepBackoff returned true. *)
BackoffOver(i) ==
  /\ pc[i] = "backoff"
  /\ pc' = [pc EXCEPT ![i] = "fetch"]
  /\ UNCHANGED << end, committed, owner, pos, cur, retries, faults, history >>

(* c.reader.CommitMessages(ctx, m): the group offset becomes m.Offset + 1. *)
Commit(i) ==
  /\ pc[i] = "commit"
  /\ committed' = cur[i] + 1
  /\ pc' = [pc EXCEPT ![i] = "fetch"]
  /\ UNCHANGED << end, owner, pos, cur, retries, faults, history >>

(* The session ends: Consume returns and the partition is given up. *)
EndSession(i) ==
  /\ faults < MaxFaults
  /\ faults' = faults + 1
  /\ pc' = [pc EXCEPT ![i] = "down"]
  /\ owner' = IF owner = i THEN NoOwner ELSE owner
  /\ UNCHANGED << end, pos, cur, retries, history >>

(* CommitMessages returned an error; the broker may have applied it. *)
CommitError(i) ==
  /\ pc[i] = "commit"
  /\ committed' \in {committed, cur[i] + 1}
  /\ EndSession(i)

(* FetchMessage failed, the context was cancelled while fetching, handling *)
(* or backing off, or the process was killed.                              *)
Crash(i) ==
  /\ pc[i] # "down"
  /\ EndSession(i)
  /\ UNCHANGED committed

Step(i) == \/ NewConsumer(i) \/ Acquire(i)  \/ Fetch(i)
           \/ HandleOk(i)    \/ HandleFail(i) \/ BackoffOver(i) \/ Commit(i)

Next == \/ Publish
        \/ \E i \in Instances :
             Step(i) \/ Rebalance(i) \/ CommitError(i) \/ Crash(i)

(* Every instance keeps running its loop and its runner rebuilds an ended  *)
(* session after three seconds; publishing, faults and rebalances are the  *)
(* environment's and are never required to happen.                         *)
Fairness == \A i \in Instances : WF_vars(Step(i))

Spec == Init /\ [][Next]_vars /\ Fairness

------------------------------------------------------------------------------
(* Whatever crashes, rebalances and late commits of a former owner do to   *)
(* the group offset, no message is ever passed over without a handler call *)
(* having been made for it (FetchMessage / CommitMessages pairing in       *)
(* Consume).                                                               *)
AttemptedBeforeCommit == \A o \in Offsets : o < committed => o \in Attempted

(* Every published message reaches a handler, whatever its predecessors in *)
(* the partition do: a failing handler never blocks the partition.         *)
EventuallyAttempted ==
  \A o \in Offsets : (o < end) ~> (o \in Attempted)

(* kafka.go:80 "the offset is committed only when handler returns nil" and *)
(* kafka.go:14 "a message still failing after maxHandlerRetries is treated *)
(* as poison": what lies below the group offset was handled, or isolated   *)
(* after it itself failed that often.                                      *)
CommittedAreHandled ==
  \A o \in Offsets : o < committed =>
    \/ o \in succeeded
    \/ o \in skipped /\ failures[o] >= MaxHandlerRetries

Abstract == INSTANCE DeliveryLog WITH attempted <- Attempted

(* The consumption loop implements the delivery promise of DeliveryLog.    *)
DeliversLog == Abstract!Spec
==============================================================================
