------------------------- MODULE KafkaConsumerProofs -------------------------
(***************************************************************************)
(* Proofs about what every service builds on.  For any number of           *)
(* instances, messages, retries and faults, of the consumption loop: its   *)
(* type invariant, the delivery guarantee AttemptedBeforeCommit, and that  *)
(* it implements DeliveryLog.  For any number of contenders and faults: a  *)
(* lock whose watchdog keeps up is owned by its holder (Lock).  And of the *)
(* run MCProgress, in which they are checked together with the overview,   *)
(* the cameras, sessions and the escalation of work orders: that every     *)
(* variable keeps its type.                                                *)
(*                                                                         *)
(* AttemptedBeforeCommit is not inductive: what an instance commits        *)
(* depends on where its reader started.  Delivery adds, per instance, that *)
(* everything before the position of the owner's reader has been           *)
(* attempted, except the message it is handling right now, and that the    *)
(* message an instance handles or commits has no unattempted predecessor,  *)
(* whether or not the instance still owns the partition.                   *)
(***************************************************************************)
EXTENDS MCProgress, Sequences, FiniteSetTheorems, TLAPS

ReaderClean(i) ==
  owner = i => \A o \in Offsets :
    o < pos[i] => o \in Attempted \/ (pc[i] = "handle" /\ o = cur[i])

MessageClean(i) ==
  pc[i] \in {"handle", "commit"} =>
    cur[i] < end /\ \A o \in Offsets : o < cur[i] => o \in Attempted

CommitClean(i) == pc[i] = "commit" => cur[i] \in Attempted

Clean(i) == ReaderClean(i) /\ MessageClean(i) /\ CommitClean(i)

Delivery == /\ TypeOK
            /\ AttemptedBeforeCommit
            /\ \A i \in Instances : Clean(i)

(* Every step keeps the variables in their types (all of Consume's moves). *)
LEMMA TypeStep == TypeOK /\ [Next]_vars => TypeOK'
<1>0. SUFFICES ASSUME TypeOK, [Next]_vars PROVE TypeOK'
  OBVIOUS
<1> DEFINE PcOK      == pc' \in [Instances -> Stages]
           PosOK     == pos' \in [Instances -> Positions]
           RetriesOK == retries' \in [Instances -> 0 .. MaxHandlerRetries - 1]
           FaultsOK  == faults' \in 0 .. MaxFaults
<1>1. CASE UNCHANGED vars
  BY <1>0, <1>1 DEF TypeOK, vars
<1>2. CASE Publish
  BY <1>0, <1>2, KafkaAssumption DEF TypeOK, Publish, Positions, history
<1>3. ASSUME NEW i \in Instances, NewConsumer(i) PROVE TypeOK'
  <2>1. PcOK /\ RetriesOK
    BY <1>0, <1>3, KafkaAssumption DEF TypeOK, NewConsumer, Stages
  <2> QED
    BY <1>0, <1>3, <2>1 DEF TypeOK, NewConsumer, history
<1>4. ASSUME NEW i \in Instances, AssignTo(i), FaultsOK PROVE TypeOK'
  BY <1>0, <1>4 DEF TypeOK, AssignTo, history
<1>5. ASSUME NEW i \in Instances, Acquire(i) PROVE TypeOK'
  BY <1>0, <1>4, <1>5 DEF TypeOK, Acquire
<1>6. ASSUME NEW i \in Instances, Rebalance(i) PROVE TypeOK'
  <2>1. FaultsOK
    BY <1>0, <1>6, KafkaAssumption DEF TypeOK, Rebalance
  <2> QED
    BY <1>4, <1>6, <2>1 DEF Rebalance
<1>7. ASSUME NEW i \in Instances, Fetch(i) PROVE TypeOK'
  <2>1. PcOK
    BY <1>0, <1>7 DEF TypeOK, Fetch, Stages
  <2>2. PosOK /\ cur' \in [Instances -> Offsets]
    BY <1>0, <1>7, KafkaAssumption DEF TypeOK, Fetch, Offsets, Positions
  <2> QED
    BY <1>0, <1>7, <2>1, <2>2 DEF TypeOK, Fetch, history
<1>8. ASSUME NEW i \in Instances, HandleOk(i) PROVE TypeOK'
  <2>1. PcOK /\ succeeded' \subseteq Offsets
    BY <1>0, <1>8 DEF TypeOK, HandleOk, Stages
  <2>2. RetriesOK
    BY <1>0, <1>8, KafkaAssumption DEF TypeOK, HandleOk
  <2> QED
    BY <1>0, <1>8, <2>1, <2>2 DEF TypeOK, HandleOk
<1>9. ASSUME NEW i \in Instances, HandleFail(i) PROVE TypeOK'
  <2>1. failures' \in [Offsets -> Nat]
    BY <1>0, <1>9 DEF TypeOK, HandleFail
  <2>2. RetriesOK
    BY <1>0, <1>9, KafkaAssumption DEF TypeOK, HandleFail
  <2>3. PcOK
    BY <1>0, <1>9 DEF TypeOK, HandleFail, Stages
  <2>4. skipped' \subseteq Offsets
    BY <1>0, <1>9 DEF TypeOK, HandleFail
  <2> QED
    BY <1>0, <1>9, <2>1, <2>2, <2>3, <2>4 DEF TypeOK, HandleFail
<1>10. ASSUME NEW i \in Instances, BackoffOver(i) PROVE TypeOK'
  BY <1>0, <1>10 DEF TypeOK, BackoffOver, Stages, history
<1>11. \A i \in Instances : cur[i] + 1 \in Positions
  BY <1>0, KafkaAssumption DEF TypeOK, Offsets, Positions
<1>12. ASSUME NEW i \in Instances, Commit(i) PROVE TypeOK'
  <2>1. PcOK
    BY <1>0, <1>12 DEF TypeOK, Commit, Stages
  <2> QED
    BY <1>0, <1>11, <1>12, <2>1 DEF TypeOK, Commit, history
<1>13. ASSUME NEW i \in Instances, EndSession(i), committed' \in Positions PROVE TypeOK'
  <2>1. PcOK /\ owner' \in Instances \cup {NoOwner}
    BY <1>0, <1>13 DEF TypeOK, EndSession, Stages
  <2>2. FaultsOK
    BY <1>0, <1>13, KafkaAssumption DEF TypeOK, EndSession
  <2> QED
    BY <1>0, <1>13, <2>1, <2>2 DEF TypeOK, EndSession, history
<1>14. ASSUME NEW i \in Instances, CommitError(i) \/ Crash(i) PROVE TypeOK'
  BY <1>0, <1>11, <1>13, <1>14 DEF TypeOK, CommitError, Crash
<1> QED
  BY <1>0, <1>1, <1>2, <1>3, <1>5, <1>6, <1>7, <1>8, <1>9, <1>10, <1>12, <1>14
     DEF Next, Step

LEMMA TypeInit == Init => TypeOK
  BY KafkaAssumption DEF Init, TypeOK, Offsets, Positions, Stages

(* The variables of Consume keep their types. *)
THEOREM TypeCorrect == Spec => []TypeOK
  BY TypeInit, TypeStep, PTL DEF Spec

(* A message that has been attempted stays attempted. *)
LEMMA AttemptedGrows ==
  ASSUME TypeOK, [Next]_vars
  PROVE  Attempted \subseteq Attempted'
<1>1. ASSUME NEW i \in Instances, HandleFail(i) PROVE Attempted \subseteq Attempted'
  <2>1. \A o \in Offsets : failures[o] > 0 => failures'[o] > 0
    BY <1>1 DEF HandleFail, TypeOK
  <2>2. succeeded' = succeeded
    BY <1>1 DEF HandleFail
  <2> QED
    BY <2>1, <2>2 DEF Attempted, Offsets
<1>2. ASSUME NEW i \in Instances, HandleOk(i) PROVE Attempted \subseteq Attempted'
  BY <1>2 DEF HandleOk, Attempted, Offsets
<1>3. ASSUME ~ \E i \in Instances : HandleFail(i) \/ HandleOk(i)
      PROVE  succeeded' = succeeded /\ failures' = failures
  BY <1>3 DEF Next, Step, Publish, NewConsumer, Acquire, Rebalance, AssignTo,
     Fetch, BackoffOver, Commit, CommitError, Crash, EndSession, history, vars
<1>4. (succeeded' = succeeded /\ failures' = failures) => Attempted' = Attempted
  BY DEF Attempted, Offsets
<1> QED
  BY <1>1, <1>2, <1>3, <1>4

(* A handler call, successful or not, counts as an attempt. *)
LEMMA HandledIsAttempted ==
  ASSUME TypeOK, TypeOK', NEW i \in Instances, HandleOk(i) \/ HandleFail(i)
  PROVE  cur[i] \in Attempted'
<1>1. CASE HandleOk(i)
  BY <1>1 DEF HandleOk, Attempted
<1>2. CASE HandleFail(i)
  BY <1>2 DEF HandleFail, Attempted, TypeOK, Offsets
<1> QED
  BY <1>1, <1>2

LEMMA DeliveryInit == Init => Delivery
  BY TypeInit, KafkaAssumption DEF Init, Delivery, AttemptedBeforeCommit, ReaderClean,
     MessageClean, CommitClean, Clean, Offsets

LEMMA DeliveryStep == Delivery /\ [Next]_vars => Delivery'
<1>0. SUFFICES ASSUME Delivery, [Next]_vars PROVE Delivery'
  OBVIOUS
<1>t. TypeOK /\ TypeOK'
  BY <1>0, TypeStep DEF Delivery
<1>g. Attempted \subseteq Attempted'
  BY <1>0, AttemptedGrows DEF Delivery
<1>a. AttemptedBeforeCommit
  BY <1>0 DEF Delivery
<1>c. \A i \in Instances : Clean(i)
  BY <1>0 DEF Delivery
<1> DEFINE Good == AttemptedBeforeCommit' /\ \A j \in Instances : Clean(j)'
<1>1. ASSUME UNCHANGED vars PROVE Good
  BY <1>1, <1>a, <1>c, <1>g
     DEF vars, Attempted, AttemptedBeforeCommit, Clean, ReaderClean, MessageClean, CommitClean
<1>2. ASSUME Publish PROVE Good
  <2>1. end < end' /\ UNCHANGED << committed, owner, pc, pos, cur >>
    BY <1>2, <1>t DEF Publish, TypeOK, Positions
  <2>2. \A j \in Instances : cur[j] < end => cur[j] < end'
    BY <2>1, <1>t DEF TypeOK, Positions, Offsets
  <2> QED
    BY <2>1, <2>2, <1>a, <1>c, <1>g
       DEF AttemptedBeforeCommit, Clean, ReaderClean, MessageClean, CommitClean
<1>3. ASSUME NEW i \in Instances, NewConsumer(i) PROVE Good
  <2>1. /\ UNCHANGED << end, committed, owner, pos, cur >>
        /\ \A j \in Instances : pc'[j] = pc[j] \/ (pc[j] = "down" /\ pc'[j] = "fetch")
    BY <1>3, <1>t DEF NewConsumer, TypeOK
  <2> QED
    BY <2>1, <1>a, <1>c, <1>g
       DEF AttemptedBeforeCommit, Clean, ReaderClean, MessageClean, CommitClean
<1>4. ASSUME NEW i \in Instances, AssignTo(i) PROVE Good
  <2>1. /\ UNCHANGED << end, committed, pc, cur >>
        /\ \A j \in Instances : owner' = j => pos'[j] = committed
    BY <1>4, <1>t DEF AssignTo, TypeOK
  <2> QED
    BY <2>1, <1>a, <1>c, <1>g
       DEF AttemptedBeforeCommit, Clean, ReaderClean, MessageClean, CommitClean
<1>5. ASSUME NEW i \in Instances, Fetch(i) PROVE Good
  <2>1. /\ UNCHANGED << end, committed, owner >>
        /\ owner = i /\ pos[i] < end /\ pc[i] = "fetch"
        /\ cur'[i] = pos[i] /\ pos'[i] = pos[i] + 1 /\ pc'[i] = "handle"
        /\ \A j \in Instances : j # i => cur'[j] = cur[j] /\ pos'[j] = pos[j] /\ pc'[j] = pc[j]
    BY <1>5, <1>t DEF Fetch, TypeOK
  <2>2. \A o \in Offsets : o < pos[i] => o \in Attempted'
    BY <2>1, <1>c, <1>g DEF Clean, ReaderClean
  <2>3. Clean(i)'
    <3>1. \A o \in Offsets : o < pos[i] + 1 => o < pos[i] \/ o = pos[i]
      BY <1>t DEF TypeOK, Offsets, Positions
    <3> QED
      BY <2>1, <2>2, <3>1 DEF Clean, ReaderClean, MessageClean, CommitClean
  <2>4. ASSUME NEW j \in Instances, j # i PROVE Clean(j)'
    BY <2>1, <2>4, <1>c, <1>g DEF Clean, ReaderClean, MessageClean, CommitClean
  <2> QED
    BY <2>1, <2>3, <2>4, <1>a, <1>g DEF AttemptedBeforeCommit
<1>6. ASSUME NEW i \in Instances, cur[i] \in Attempted',
             pc[i] = "handle",
             pc' = [pc EXCEPT ![i] = "commit"] \/ pc' = [pc EXCEPT ![i] = "backoff"],
             UNCHANGED << end, committed, owner, pos, cur >>
      PROVE  Good
  <2>1. \A j \in Instances : pc'[j] = pc[j] \/ (j = i /\ pc'[j] \in {"commit", "backoff"})
    BY <1>6, <1>t DEF TypeOK
  <2> QED
    BY <1>6, <2>1, <1>a, <1>c, <1>g
       DEF AttemptedBeforeCommit, Clean, ReaderClean, MessageClean, CommitClean
<1>7. ASSUME NEW i \in Instances, HandleOk(i) \/ HandleFail(i) PROVE Good
  <2>1. cur[i] \in Attempted'
    BY <1>7, <1>t, HandledIsAttempted
  <2> QED
    BY <1>6, <1>7, <2>1 DEF HandleOk, HandleFail
<1>8. ASSUME NEW i \in Instances, BackoffOver(i) PROVE Good
  <2>1. /\ UNCHANGED << end, committed, owner, pos, cur >>
        /\ \A j \in Instances : pc'[j] = pc[j] \/ (pc[j] = "backoff" /\ pc'[j] = "fetch")
    BY <1>8, <1>t DEF BackoffOver, TypeOK
  <2> QED
    BY <2>1, <1>a, <1>c, <1>g
       DEF AttemptedBeforeCommit, Clean, ReaderClean, MessageClean, CommitClean
<1>9. ASSUME NEW i \in Instances, pc[i] = "commit", committed' \in {committed, cur[i] + 1}
      PROVE  AttemptedBeforeCommit'
  <2>1. \A o \in Offsets : o < cur[i] + 1 => o < cur[i] \/ o = cur[i]
    BY <1>t DEF TypeOK, Offsets, Positions
  <2> QED
    BY <1>9, <2>1, <1>a, <1>c, <1>g
       DEF AttemptedBeforeCommit, Clean, MessageClean, CommitClean
<1>10. ASSUME NEW i \in Instances, Commit(i) PROVE Good
  <2>1. /\ UNCHANGED << end, owner, pos, cur >>
        /\ \A j \in Instances : pc'[j] = pc[j] \/ (pc[j] = "commit" /\ pc'[j] = "fetch")
    BY <1>10, <1>t DEF Commit, TypeOK
  <2>2. AttemptedBeforeCommit'
    BY <1>9, <1>10 DEF Commit
  <2> QED
    BY <2>1, <2>2, <1>c, <1>g DEF Clean, ReaderClean, MessageClean, CommitClean
<1>11. ASSUME NEW i \in Instances, EndSession(i) PROVE \A j \in Instances : Clean(j)'
  <2>1. /\ UNCHANGED << end, pos, cur >>
        /\ \A j \in Instances : owner' = j => owner = j /\ j # i
        /\ \A j \in Instances : pc'[j] = pc[j] \/ (j = i /\ pc'[j] = "down")
    BY <1>11, <1>t, KafkaAssumption DEF EndSession, TypeOK
  <2> QED
    BY <2>1, <1>c, <1>g DEF Clean, ReaderClean, MessageClean, CommitClean
<1>12. ASSUME NEW i \in Instances, CommitError(i) PROVE Good
  BY <1>9, <1>11, <1>12 DEF CommitError
<1>13. ASSUME NEW i \in Instances, Crash(i) PROVE Good
  BY <1>11, <1>13, <1>a, <1>g DEF Crash, AttemptedBeforeCommit
<1> QED
  <2>1. Good
    BY <1>0, <1>1, <1>2, <1>3, <1>4, <1>5, <1>7, <1>8, <1>10, <1>12, <1>13
       DEF Next, Step, Acquire, Rebalance
  <2> QED
    BY <2>1, <1>t DEF Delivery

(* No message is passed over by the group offset without a handler call.   *)
THEOREM AttemptedCorrect == Spec => []AttemptedBeforeCommit
<1>1. Spec => []Delivery
  BY DeliveryInit, DeliveryStep, PTL DEF Spec
<1>2. Delivery => AttemptedBeforeCommit
  BY DEF Delivery
<1> QED
  BY <1>1, <1>2, PTL

------------------------------------------------------------------------------
(* Each move of Consume is a move of DeliveryLog, or invisible to it. *)
LEMMA StepSimulates == Delivery /\ Delivery' /\ [Next]_vars => [Abstract!Next]_(Abstract!vars)
<1>0. SUFFICES ASSUME Delivery, Delivery', [Next]_vars
               PROVE  Abstract!Next \/ UNCHANGED Abstract!vars
  OBVIOUS
<1>t. TypeOK /\ TypeOK'
  BY <1>0 DEF Delivery
<1>1. CASE UNCHANGED vars
  BY <1>1 DEF vars, Attempted, Abstract!vars
<1>2. CASE Publish
  BY <1>2, <1>t DEF Publish, history, Attempted, Abstract!Next, Abstract!Append
<1>3. ASSUME NEW i \in Instances,
             \/ NewConsumer(i) \/ Acquire(i) \/ Rebalance(i) \/ Fetch(i)
             \/ BackoffOver(i) \/ Crash(i)
      PROVE  UNCHANGED Abstract!vars
  BY <1>3 DEF NewConsumer, Acquire, Rebalance, AssignTo, Fetch, BackoffOver, Crash,
     EndSession, history, Attempted, Abstract!vars
<1>4. ASSUME NEW i \in Instances, HandleOk(i) \/ HandleFail(i) PROVE Abstract!Next
  <2>1. cur[i] \in Offsets /\ cur[i] < end
    BY <1>0, <1>4 DEF Delivery, Clean, MessageClean, HandleOk, HandleFail, TypeOK
  <2>2. Attempted' = Attempted \cup {cur[i]}
    <3>1. CASE HandleOk(i)
      BY <3>1, <1>t DEF HandleOk, Attempted
    <3>2. CASE HandleFail(i)
      <4>1. succeeded' = succeeded
        BY <3>2 DEF HandleFail
      <4>2. \A o \in Offsets : failures'[o] > 0 <=> failures[o] > 0 \/ o = cur[i]
        BY <3>2, <1>t DEF HandleFail, TypeOK
      <4> QED
        BY <2>1, <4>1, <4>2 DEF Attempted, Offsets
    <3> QED
      BY <1>4, <3>1, <3>2
  <2>3. UNCHANGED << end, committed >>
    BY <1>4 DEF HandleOk, HandleFail
  <2> QED
    BY <2>1, <2>2, <2>3 DEF Abstract!Next, Abstract!Attempt, Abstract!Offsets, Offsets
<1>5. ASSUME NEW i \in Instances, Commit(i) \/ CommitError(i)
      PROVE  Abstract!Next \/ UNCHANGED Abstract!vars
  <2>1. end' = end /\ Attempted' = Attempted /\ committed' \in {committed, cur[i] + 1}
    BY <1>5 DEF Commit, CommitError, EndSession, history, Attempted
  <2>2. CASE committed' = committed
    BY <2>1, <2>2 DEF Abstract!vars
  <2>3. CASE committed' = cur[i] + 1
    <3>1. cur[i] + 1 \in 1 .. MaxOffset
      <4>1. cur[i] \in Offsets
        BY <1>t DEF TypeOK
      <4> QED
        BY <4>1, KafkaAssumption DEF Offsets
    <3>2. \A o \in Offsets : o < committed' => o \in Attempted
      BY <1>0, <2>1 DEF Delivery, AttemptedBeforeCommit
    <3> QED
      BY <2>1, <2>3, <3>1, <3>2 DEF Abstract!Next, Abstract!Commit, Abstract!Offsets, Offsets
  <2> QED
    BY <2>1, <2>2, <2>3
<1> QED
  BY <1>0, <1>1, <1>2, <1>3, <1>4, <1>5 DEF Next, Step

(* The consumption loop, with its crashes and rebalances, implements the   *)
(* delivery promise the service modules rely on.                           *)
THEOREM ImplementsDeliveryLog == Spec => DeliversLog
<1>1. Init => Abstract!Init
  BY DEF Init, Abstract!Init, Attempted, Offsets
<1>2. Spec => []Delivery
  BY DeliveryInit, DeliveryStep, PTL DEF Spec
<1> QED
  BY <1>1, <1>2, StepSimulates, PTL DEF Spec, DeliversLog, Abstract!Spec

------------------------------------------------------------------------------
(* The lock.                                                               *)

\* A renewal of h is under way, or due.
Pending(h) == h \in due \/ watchdog[h] = "renewing"

\* HeldIsOwned speaks of the token only.  It lasts because the watchdog of such a
\* holder is at work, and the key outlives the period in which he renews it.
Kept(h) ==
    /\ token = h
    /\ watchdog[h] \in {"on", "renewing"}
    /\ ttl >= 1
    /\ ~Pending(h) => ttl >= 2

LockIInv == LockTypeOK /\ \A h \in Handles : holder[h] = "held" /\ h \notin disturbed => Kept(h)

------------------------------------------------------------------------------
LEMMA LockStarts == ASSUME LockInit PROVE LockIInv
BY LockAssumption DEF LockInit, LockIInv, LockTypeOK, HolderStates, WatchdogStates

LEMMA LockTypeHolds == ASSUME LockTypeOK, [LockNext]_lockVars PROVE LockTypeOK'
<1> USE LockAssumption DEF LockTypeOK, HolderStates, WatchdogStates, Fault
<1>1. ASSUME NEW h \in Handles, TryLock(h) PROVE LockTypeOK'
  BY <1>1 DEF TryLock
<1>2. ASSUME NEW h \in Handles, TryLockRefused(h) PROVE LockTypeOK'
  BY <1>2 DEF TryLockRefused
<1>3. ASSUME NEW h \in Handles, TryLockFails(h) PROVE LockTypeOK'
  BY <1>3 DEF TryLockFails
<1>4. ASSUME NEW h \in Handles, RenewSend(h) PROVE LockTypeOK'
  BY <1>4 DEF RenewSend
<1>5. ASSUME NEW h \in Handles, Renew(h) PROVE LockTypeOK'
  BY <1>5 DEF Renew, RenewedFor
<1>6. ASSUME NEW h \in Handles, RenewFails(h) PROVE LockTypeOK'
  BY <1>6 DEF RenewFails, RenewedFor
<1>7. ASSUME NEW h \in Handles, Unlock(h) PROVE LockTypeOK'
  BY <1>7 DEF Unlock, Cancelled, Deletes
<1>8. ASSUME NEW h \in Handles, UnlockFails(h) PROVE LockTypeOK'
  BY <1>8 DEF UnlockFails, Cancelled
<1>9. ASSUME NEW h \in Handles, HolderDies(h) PROVE LockTypeOK'
  BY <1>9 DEF HolderDies
<1>10. CASE Tick
  BY <1>10 DEF Tick, Pass, Expires
<1>11. CASE TickLate
  BY <1>11 DEF TickLate, Pass, Expires, Late
<1>12. CASE UNCHANGED lockVars
  BY <1>12 DEF lockVars
<1>13. QED
  BY <1>1, <1>2, <1>3, <1>4, <1>5, <1>6, <1>7, <1>8, <1>9, <1>10, <1>11, <1>12 DEF LockNext

LEMMA KeptHolds ==
  ASSUME LockIInv, [LockNext]_lockVars,
         NEW g \in Handles, (holder[g] = "held")', (g \notin disturbed)'
  PROVE  Kept(g)'
<1> USE LockAssumption DEF LockIInv, LockTypeOK, HolderStates, WatchdogStates, Fault, Kept,
                           Pending
<1>1. ASSUME NEW h \in Handles, TryLock(h) PROVE Kept(g)'
  BY <1>1 DEF TryLock
<1>2. ASSUME NEW h \in Handles, TryLockRefused(h) PROVE Kept(g)'
  BY <1>2 DEF TryLockRefused
<1>3. ASSUME NEW h \in Handles, TryLockFails(h) PROVE Kept(g)'
  BY <1>3 DEF TryLockFails
<1>4. ASSUME NEW h \in Handles, RenewSend(h) PROVE Kept(g)'
  BY <1>4 DEF RenewSend
<1>5. ASSUME NEW h \in Handles, Renew(h) PROVE Kept(g)'
  BY <1>5 DEF Renew, RenewedFor, Owns
<1>6. ASSUME NEW h \in Handles, RenewFails(h) PROVE Kept(g)'
  BY <1>6 DEF RenewFails, RenewedFor, Owns
<1>7. ASSUME NEW h \in Handles, Unlock(h) PROVE Kept(g)'
  BY <1>7 DEF Unlock, Cancelled, Deletes, Owns
<1>8. ASSUME NEW h \in Handles, UnlockFails(h) PROVE Kept(g)'
  BY <1>8 DEF UnlockFails, Cancelled
<1>9. ASSUME NEW h \in Handles, HolderDies(h) PROVE Kept(g)'
  BY <1>9 DEF HolderDies
\* Nobody is late, so g was not, and its key had two periods left.
<1>10. CASE Tick
  BY <1>10 DEF Tick, Pass, Expires, Late
<1>11. CASE TickLate
  BY <1>11 DEF TickLate, Pass, Expires, Late
<1>12. CASE UNCHANGED lockVars
  BY <1>12 DEF lockVars
<1>13. QED
  BY <1>1, <1>2, <1>3, <1>4, <1>5, <1>6, <1>7, <1>8, <1>9, <1>10, <1>11, <1>12 DEF LockNext

LEMMA LockKeeps == ASSUME LockIInv, [LockNext]_lockVars PROVE LockIInv'
BY LockTypeHolds, KeptHolds DEF LockIInv

\* Every reachable state is typed (lock.go).
THEOREM LockTypeCorrect == LockSpec => []LockTypeOK
<1>1. LockInit => LockIInv
  BY LockStarts
<1>2. LockIInv /\ [LockNext]_lockVars => LockIInv'
  BY LockKeeps
<1>3. LockIInv => LockTypeOK
  BY DEF LockIInv
<1>4. QED
  BY <1>1, <1>2, <1>3, PTL DEF LockSpec

\* A holder none of whose renewals failed or came late has the lock, whatever the
\* others do and however many of them there are (startWatchdog, lock.go:118).
THEOREM OwnedCorrect == LockSpec => []HeldIsOwned
<1>1. LockInit => LockIInv
  BY LockStarts
<1>2. LockIInv /\ [LockNext]_lockVars => LockIInv'
  BY LockKeeps
<1>3. LockIInv => HeldIsOwned
  BY DEF LockIInv, HeldIsOwned, Kept
<1>4. QED
  BY <1>1, <1>2, <1>3, PTL DEF LockSpec

------------------------------------------------------------------------------
(***************************************************************************)
(* The run MCProgress: a step of it is a step of each part or leaves it    *)
(* alone, so what is proved of the loop and of the lock holds of the run.  *)
(***************************************************************************)
LEMMA ProgressStep ==
  [ProgressNext]_allVars =>
    /\ [Next]_vars /\ [LockNext]_lockVars /\ [O!Next]_viewVars /\ [V!Next]_camVars
    /\ [W!Next]_orderVars /\ [U!Next]_sessionVars
BY DEF ProgressNext, allVars, KafkaTakes, LockTakes, TasksTake, DevicesTake, DashboardTakes,
       CamerasTake, OrdersTake, SessionsTake

LEMMA ProgressStarts ==
  ProgressInit => Init /\ LockInit /\ O!Init /\ V!Init /\ W!Init /\ U!Init
BY DEF ProgressInit

------------------------------------------------------------------------------
(* The overview.                                                           *)
LEMMA ViewStarts == O!Init => O!TypeOK
BY BoundsFit DEF BoundsFit, O!Init, O!TypeOK, O!Degraded

LEMMA ViewKeeps == ASSUME O!TypeOK, [O!Next]_viewVars PROVE O!TypeOK'
<1> USE BoundsFit DEF BoundsFit, O!TypeOK, O!Degraded
<1>1. CASE O!Change \/ O!Mark
  <2>1. /\ version' \in 1..MaxVersion /\ marked' \in 1..version'
        /\ UNCHANGED <<cached, at, flight, fetched, shown>>
    BY <1>1 DEF O!Change, O!Mark
  <2> QED  BY <2>1
<1>2. CASE O!Loop
  BY <1>2 DEF O!Loop, O!Take, O!Invalidate, O!NoFault, O!Fault
<1>3. ASSUME NEW u \in Users, O!Ask(u) PROVE O!TypeOK'
  BY <1>3 DEF O!Ask
<1>4. ASSUME NEW r \in O!Requests, O!Goes(r) PROVE O!TypeOK'
  BY <1>4 DEF O!Goes, O!Hit, O!Miss, O!Do, O!Answer
<1>5. CASE O!ReadSources \/ O!LeaderGone
  BY <1>5 DEF O!ReadSources, O!LeaderGone
<1>6. CASE O!WriteCache
  BY <1>6 DEF O!WriteCache
<1>7. CASE O!Return
  BY <1>7 DEF O!Return, O!Answer
<1>8. CASE O!Expire
  BY <1>8 DEF O!Expire
<1>9. CASE UNCHANGED viewVars
  BY <1>9 DEF viewVars
<1> QED
  BY <1>1, <1>2, <1>3, <1>4, <1>5, <1>6, <1>7, <1>8, <1>9 DEF O!Next, O!Compute

------------------------------------------------------------------------------
(* The cameras: a row has been heard of at one age at most.                *)
CamRows == [status : V!Statuses, heard : {{}} \cup {{k} : k \in V!Ages}]
Beats   == {V!NoBeat} \cup
           [at : {"touch", "mark"}, device : {d1}, camera : Cameras, age : V!Ages]

CamShape ==
  /\ cam \in [Cameras -> CamRows \cup {NoCamera}]
  /\ beat \in Beats
  /\ left \in [{d1} -> 0..OfflineAfter]
  /\ beats \in 0..MaxBeats /\ changes \in 0..MaxChanges /\ camFaults \in 0..MaxCameraFaults

\* The shape is the type.
LEMMA CamTyped ==
  CamShape => V!TypeOK
<1> SUFFICES ASSUME CamShape PROVE V!TypeOK
  OBVIOUS
<1> USE DEF CamShape
<1>1. ASSUME NEW c \in Cameras, cam[c] # NoCamera
      PROVE  /\ cam[c].status \in V!Statuses
             /\ cam[c].heard \subseteq V!Ages /\ V!Cardinality(cam[c].heard) <= 1
  <2>1. /\ cam[c].status \in V!Statuses
        /\ cam[c].heard = {} \/ \E k \in V!Ages : cam[c].heard = {k}
    BY <1>1 DEF CamRows
  <2>2. Cardinality({}) = 0 /\ \A k \in V!Ages : Cardinality({k}) = 1
    BY FS_EmptySet, FS_Singleton
  <2>3. Cardinality(cam[c].heard) <= 1
    BY <2>1, <2>2
  <2> QED
    BY <2>1, <2>3 DEF V!Cardinality, Cardinality
<1>2. /\ beat.at \in {"idle", "touch", "mark"}
      /\ beat.at # "idle" => beat.device \in {d1} /\ beat.age \in V!Ages
  BY DEF Beats, V!NoBeat
<1> QED
  BY <1>1, <1>2 DEF V!TypeOK

LEMMA CamStarts == V!Init => CamShape
BY BoundsFit DEF BoundsFit, V!Init, CamShape, Beats

LEMMA CamKeeps == ASSUME CamShape, [V!Next]_camVars PROVE CamShape'
<1> USE BoundsFit DEF BoundsFit, CamShape, V!Fault, V!Request
<1>a. 0 \in V!Ages /\ \A k \in V!Ages : V!Older(k) \in V!Ages
  BY DEF V!Ages, V!Older
<1>1. ASSUME V!OnHeartbeat(d1) PROVE CamShape'
  <2>1. (beat \in Beats)'
    BY <1>1, <1>a DEF V!OnHeartbeat, Beats, V!Registered
  <2> QED  BY <1>1, <2>1 DEF V!OnHeartbeat
<1>2. ASSUME V!TouchHeartbeat PROVE CamShape'
  <2>1. /\ beat \in [at : {"touch", "mark"}, device : {d1}, camera : Cameras, age : V!Ages]
        /\ beat.age \in V!Ages
    BY <1>2 DEF V!TouchHeartbeat, Beats, V!NoBeat
  <2>2. (beat \in Beats)'
    BY <1>2, <2>1 DEF V!TouchHeartbeat, Beats
  <2>3. [status |-> "online", heard |-> {beat.age}] \in CamRows
    BY <2>1 DEF CamRows, V!Statuses
  <2>4. (cam \in [Cameras -> CamRows \cup {NoCamera}])'
    BY <1>2, <2>3 DEF V!TouchHeartbeat
  <2> QED  BY <1>2, <2>2, <2>4 DEF V!TouchHeartbeat
<1>3. ASSUME V!Mark \/ V!HeartbeatFails PROVE CamShape'
  <2>1. camFaults' \in 0..MaxCameraFaults /\ (beat \in Beats)'
    BY <1>3 DEF V!Mark, V!HeartbeatFails, Beats
  <2> QED  BY <1>3, <2>1 DEF V!Mark, V!HeartbeatFails
<1>4. ASSUME V!MarkOffline PROVE CamShape'
  <2>1. ASSUME NEW c \in V!Swept PROVE [cam[c] EXCEPT !.status = "offline"] \in CamRows
    BY DEF V!Swept, CamRows, V!Statuses
  <2> QED  BY <1>4, <2>1 DEF V!MarkOffline
<1>5. ASSUME NEW c \in Cameras, NEW s \in V!Statuses, V!AddCamera(c, s) PROVE CamShape'
  <2>1. [status |-> s, heard |-> {}] \in CamRows
    BY DEF CamRows
  <2> QED  BY <1>5, <2>1 DEF V!AddCamera
<1>6. ASSUME NEW c \in Cameras, NEW s \in V!Statuses, V!UpdateCamera(c, s) PROVE CamShape'
  <2>1. cam' = [cam EXCEPT ![c] = [cam[c] EXCEPT !.status = s]] /\ cam[c] \in CamRows
    BY <1>6 DEF V!UpdateCamera
  <2>2. [cam[c] EXCEPT !.status = s] \in CamRows
    BY <2>1 DEF CamRows
  <2> QED  BY <1>6, <2>1, <2>2 DEF V!UpdateCamera
<1>7. ASSUME NEW c \in Cameras, V!DeleteCamera(c) PROVE CamShape'
  BY <1>7 DEF V!DeleteCamera
<1>8. ASSUME V!TimePasses PROVE CamShape'
  <2>1. ASSUME NEW c \in Cameras, cam[c] # NoCamera
        PROVE  [cam[c] EXCEPT !.heard = {V!Older(k) : k \in @}] \in CamRows
    <3>1. cam[c] \in CamRows /\ (cam[c].heard = {} \/ \E k \in V!Ages : cam[c].heard = {k})
      BY <2>1 DEF CamRows
    <3>2. {V!Older(k) : k \in cam[c].heard} \in {{}} \cup {{k} : k \in V!Ages}
      <4>1. CASE cam[c].heard = {}
        BY <4>1
      <4>2. ASSUME NEW a \in V!Ages, cam[c].heard = {a}
            PROVE  {V!Older(k) : k \in cam[c].heard} = {V!Older(a)}
        BY <4>2
      <4> QED  BY <3>1, <4>1, <4>2, <1>a
    <3> QED  BY <3>1, <3>2 DEF CamRows
  <2>2. (cam \in [Cameras -> CamRows \cup {NoCamera}])'
    BY <1>8, <2>1 DEF V!TimePasses
  <2>3. (beat \in Beats)'
    <3>1. CASE beat.at = "idle"
      BY <3>1, <1>8 DEF V!TimePasses
    <3>2. CASE beat.at # "idle"
      <4>1. /\ beat \in [at : {"touch", "mark"}, device : {d1}, camera : Cameras, age : V!Ages]
            /\ beat' = [beat EXCEPT !.age = V!Older(@)]
        BY <3>2, <1>8 DEF V!TimePasses, Beats, V!NoBeat
      <4> QED  BY <4>1, <1>a DEF Beats
    <3> QED  BY <3>1, <3>2
  <2>4. left' \in [{d1} -> 0..OfflineAfter]
    BY <1>8 DEF V!TimePasses
  <2> QED  BY <1>8, <2>2, <2>3, <2>4 DEF V!TimePasses
<1>9. ASSUME UNCHANGED camVars PROVE CamShape'
  BY <1>9 DEF camVars
<1> QED
  BY <1>1, <1>2, <1>3, <1>4, <1>5, <1>6, <1>7, <1>8, <1>9 DEF V!Next

------------------------------------------------------------------------------
(* Sessions.                                                               *)
Tokens == [access : 0..AccessLife, refresh : 0..RefreshLife, roles : SUBSET Roles,
           held : BOOLEAN]

LEMMA SpentIs == U!Spent \in Tokens
BY LivesFit DEF U!SessionParameters, U!Spent, Tokens

\* A call that answers has made a pair.
SessionInv ==
  /\ U!TypeOK
  /\ \A c \in Calls : call[c].at \in {"revoke", "store"} => call[c].new \in Pairs

LEMMA SessionStarts == U!Init => SessionInv
BY SpentIs DEF SessionInv, U!Init, U!TypeOK, U!Done, Tokens

LEMMA SessionKeeps == ASSUME SessionInv, [U!Next]_sessionVars PROVE SessionInv'
<1> USE LivesFit DEF U!SessionParameters, SessionInv, U!TypeOK
<1>1. ASSUME NEW s, U!UserCreate(s) \/ U!UserUpdate(s) PROVE SessionInv'
  BY <1>1 DEF U!UserCreate, U!UserUpdate
<1>2. ASSUME NEW r \in Roles, U!RoleAssign(r) PROVE SessionInv'
  BY <1>2 DEF U!RoleAssign
<1>3. CASE U!UserDelete \/ U!RedisTurns
  BY <1>3 DEF U!UserDelete, U!RedisTurns
<1>4. ASSUME NEW c \in Calls, U!Login(c) PROVE SessionInv'
  BY <1>4 DEF U!Login
<1>5. ASSUME NEW c \in Calls, NEW p \in Pairs, U!Refresh(c, p) PROVE SessionInv'
  <2>1. call' = [call EXCEPT ![c] = [call[c] EXCEPT !.at = "account", !.old = p]]
    BY <1>5 DEF U!Refresh
  <2> QED  BY <1>5, <2>1 DEF U!Refresh
<1>6. ASSUME NEW c \in Calls, U!ReadAccount(c) \/ U!ReadRoles(c) PROVE SessionInv'
  BY <1>6 DEF U!ReadAccount, U!ReadRoles, U!Done
<1>7. ASSUME NEW c \in Calls, U!Issue(c) PROVE SessionInv'
  <2>1. PICK p \in Pairs :
          /\ pair' = [pair EXCEPT ![p] = [access |-> AccessLife, refresh |-> RefreshLife,
                                          roles |-> call[c].roles, held |-> FALSE]]
          /\ call' = [call EXCEPT ![c].new = p,
                        ![c].at = IF call[c].old = NoPair THEN "store" ELSE "revoke"]
    BY <1>7 DEF U!Issue
  <2>2. (pair \in [Pairs -> Tokens])'
    BY <2>1 DEF Tokens
  <2> QED  BY <1>7, <2>1, <2>2 DEF U!Issue, Tokens
<1>8. ASSUME NEW c \in Calls, U!RevokeOld(c) PROVE SessionInv'
  BY <1>8 DEF U!RevokeOld
<1>9. ASSUME NEW c \in Calls, U!Store(c) PROVE SessionInv'
  <2> DEFINE p == call[c].new  good == pair[p] # U!Spent
  <2>1. pair' = [pair EXCEPT ![p].held = good] /\ good \in BOOLEAN /\ p \in Pairs
    BY <1>9 DEF U!Store
  <2>2. (pair \in [Pairs -> Tokens])'
    <3>1. pair' = [pair EXCEPT ![p] = [pair[p] EXCEPT !.held = good]] /\ pair[p] \in Tokens
      BY <2>1 DEF Tokens
    <3>2. [pair[p] EXCEPT !.held = good] \in Tokens
      BY <2>1, <3>1 DEF Tokens
    <3>3. PICK t \in Tokens : pair' = [pair EXCEPT ![p] = t]
      BY <3>1, <3>2
    <3>4. pair' \in [Pairs -> Tokens]
      BY <3>3 DEF Tokens
    <3> QED  BY <3>4 DEF Tokens
  <2>3. listed' \subseteq Pairs
    BY <1>9, <2>1 DEF U!Store
  <2> QED  BY <1>9, <2>2, <2>3 DEF U!Store, U!Done, Tokens
<1>10. ASSUME NEW c \in Calls, U!GiveUp(c) PROVE SessionInv'
  BY <1>10 DEF U!GiveUp, U!Done
<1>11. ASSUME NEW p \in Pairs, U!Logout(p) PROVE SessionInv'
  BY <1>11 DEF U!Logout
<1>12. CASE U!Tick
  <2>1. ASSUME NEW p \in Pairs PROVE U!Older(pair[p]) \in Tokens
    <3>1. pair[p] \in Tokens /\ pair[p].access \in 0..AccessLife /\ pair[p].refresh \in 0..RefreshLife
      BY <2>1 DEF Tokens
    <3>2. /\ U!Less(pair[p].access) \in 0..AccessLife
          /\ U!Less(pair[p].refresh) \in 0..RefreshLife
      <4>1. ASSUME NEW n \in Nat, NEW m \in 0..n PROVE U!Less(m) \in 0..n
        BY <4>1 DEF U!Less
      <4> QED  BY <3>1, <4>1
    <3>3. [pair[p] EXCEPT !.access = U!Less(@), !.refresh = U!Less(@)] \in Tokens
      BY <3>1, <3>2 DEF Tokens
    <3> QED  BY <3>3, SpentIs DEF U!Older
  <2>2. (pair \in [Pairs -> Tokens])'
    BY <1>12, <2>1 DEF U!Tick, Tokens
  <2> QED  BY <1>12, <2>2 DEF U!Tick, Tokens
<1>13. CASE UNCHANGED sessionVars
  BY <1>13 DEF sessionVars
<1> QED
  BY <1>1, <1>2, <1>3, <1>4, <1>5, <1>6, <1>7, <1>8, <1>9, <1>10, <1>11, <1>12, <1>13
     DEF U!Next, U!CallStep

------------------------------------------------------------------------------
(* Work orders: no request of this run brings a key, so no order is        *)
(* created by a client, and whoever writes has an order to write.          *)
OrderJobs ==
  \A p \in W!Procs : /\ orderPc[p] \notin {"acquire", "insert", "cache"}
                     /\ orderPc[p] \in {"write", "flow"} => orderJob[p] \in Orders

OrderInv == W!TypeOK /\ OrderJobs

LEMMA OrderRows ==
  /\ W!NoRow \in W!Rows /\ W!NoAsk \in W!Asks
  /\ \A u \in BOOLEAN, a \in Alarms \cup {NoAlarm} : W!NewRow(u, a) \in W!Rows
BY DEF W!Rows, W!NoRow, W!NewRow, W!Statuses, W!Asks, W!NoAsk

LEMMA OrderStarts == W!Init => OrderInv
<1> SUFFICES ASSUME W!Init PROVE OrderInv
  OBVIOUS
<1> USE BoundsFit, OrderRows DEF BoundsFit, W!Init, W!ClientStages, W!ScanStages
<1>1. order \in [Orders -> W!Rows] /\ orderSeen \in [W!Procs -> [Orders -> W!Rows]]
  OBVIOUS
<1>2. << >> \in Seq(W!Flows)
  OBVIOUS
<1>3. doubling \in BOOLEAN
  OBVIOUS
<1>4. W!TypeOK
  BY <1>1, <1>2, <1>3 DEF W!TypeOK
<1> QED  BY <1>4 DEF OrderInv, OrderJobs

LEMMA OrderFault ==
  ASSUME W!TypeOK, NEW kind, W!Fault(kind)
  PROVE  orderFaults' \in 0..MaxOrderFaults /\ doubling' \in BOOLEAN
<1>1. orderFaults' \in 0..MaxOrderFaults
  BY BoundsFit DEF BoundsFit, W!TypeOK, W!Fault
<1>2. doubling' \in BOOLEAN
  BY Zenon DEF W!Fault
<1> QED  BY <1>1, <1>2

OrderProcesses ==
  /\ orderPc \in [W!Procs -> W!ClientStages \cup W!ScanStages]
  /\ orderJob \in [W!Procs -> Orders \cup {NoOrder}]
  /\ orderSeen \in [W!Procs -> [Orders -> W!Rows]]
  /\ ask \in [W!Procs -> W!Asks]

LEMMA OrderDone ==
  ASSUME OrderInv, NEW p \in W!Procs, W!Done(p)
  PROVE  OrderProcesses' /\ OrderJobs'
BY OrderRows DEF OrderInv, OrderJobs, W!TypeOK, W!Done, W!Goto, OrderProcesses,
                 W!ClientStages, W!ScanStages

\* Assigning and closing.
LEMMA OrderRead ==
  ASSUME OrderInv, NEW c \in Clients, NEW o \in Orders, NEW action \in W!Actions,
         NEW to \in Staff \cup {Nobody}, W!Read(c, o, action, to)
  PROVE  OrderInv'
<1> USE BoundsFit DEF BoundsFit, OrderInv, OrderJobs, W!TypeOK, W!Read, W!Request, W!Goto,
                      W!Procs, W!audit, W!failures
<1>1. [action |-> action, to |-> to, key |-> NoKey] \in W!Asks
  BY DEF W!Asks
<1>2. orderRequests' \in 0..MaxOrderRequests /\ ask' \in [W!Procs -> W!Asks]
  BY <1>1
<1>3. orderJob' \in [W!Procs -> Orders \cup {NoOrder}]
  OBVIOUS
<1>4. orderSeen' \in [W!Procs -> [Orders -> W!Rows]]
  OBVIOUS
<1>5. orderPc' \in [W!Procs -> W!ClientStages \cup W!ScanStages]
  BY DEF W!ClientStages
<1>6. W!TypeOK'
  BY <1>2, <1>3, <1>4, <1>5
<1> QED  BY <1>6

LEMMA OrderWrite ==
  ASSUME OrderInv, NEW c \in Clients, W!Write(c)
  PROVE  OrderInv'
<1> DEFINE o == orderJob[c]
<1>1. /\ o \in Orders /\ order[o] \in W!Rows /\ orderSeen[c][o] \in W!Rows
      /\ ask[c] \in W!Asks
  BY DEF OrderInv, OrderJobs, W!TypeOK, W!Write, W!Procs
<1>2. PICK next \in W!Statuses :
        /\ order' = [order EXCEPT ![o].status = next, ![o].assignee = W!NewAssignee(c, o),
                                  ![o].finished = @ \/ W!SetsFinishedAt(next),
                                  ![o].version = @ + 1]
        /\ flow' = [flow EXCEPT ![o] = Append(@, W!Flow(orderSeen[c][o].status, next))]
  BY DEF W!Write
<1>3. flow' \in [Orders -> Seq(W!Flows)]
  <2>1. W!Flow(orderSeen[c][o].status, next) \in W!Flows
    BY <1>1 DEF W!Flow, W!Flows, W!Rows
  <2> QED  BY <1>1, <1>2, <2>1 DEF OrderInv, W!TypeOK
<1>4. order' \in [Orders -> W!Rows]
  <2> DEFINE new == [order[o] EXCEPT !.status = next, !.assignee = W!NewAssignee(c, o),
                                     !.finished = @ \/ W!SetsFinishedAt(next),
                                     !.version = @ + 1]
  <2>1. order' = [order EXCEPT ![o] = new]
    BY <1>1, <1>2
  <2>2. W!NewAssignee(c, o) \in Staff \cup {Nobody} /\ order[o].version + 1 \in Nat
    BY <1>1 DEF W!NewAssignee, W!Asks, W!Rows
  <2>3. (order[o].finished \/ W!SetsFinishedAt(next)) \in BOOLEAN
    BY DEF W!SetsFinishedAt
  <2>4. new \in W!Rows
    BY <1>1, <2>2, <2>3 DEF W!Rows
  <2> HIDE DEF new
  <2> QED  BY <2>1, <2>4 DEF OrderInv, W!TypeOK
<1>5. OrderProcesses' /\ OrderJobs'
  BY OrderDone DEF W!Write, W!Procs
<1>6. W!TypeOK'
  BY <1>3, <1>4, <1>5 DEF OrderInv, OrderProcesses, W!TypeOK, W!Write, W!failures
<1> QED  BY <1>5, <1>6 DEF OrderInv

LEMMA OrderEscalates ==
  ASSUME OrderInv, NEW r \in Scans, NEW o \in Orders, W!Escalate(r, o) \/ W!Skip(r, o)
  PROVE  OrderInv'
<1>1. W!TypeOK /\ OrderJobs /\ W!Passed(r, o)
  BY DEF OrderInv, W!Escalate, W!Skip
<1>2. overdueOrders' \in [Scans -> SUBSET Orders]
  BY <1>1 DEF W!Passed, W!TypeOK
<1>3. orderSeen' \in [W!Procs -> [Orders -> W!Rows]]
  <2>1. orderSeen[r] \in [Orders -> W!Rows]
    BY <1>1 DEF W!TypeOK, W!Procs
  <2>2. [orderSeen[r] EXCEPT ![o] = W!NoRow] \in [Orders -> W!Rows]
    BY <2>1, OrderRows
  <2>3. orderSeen' = [orderSeen EXCEPT ![r] = [orderSeen[r] EXCEPT ![o] = W!NoRow]]
    BY <1>1 DEF W!Passed
  <2> QED  BY <1>1, <2>2, <2>3 DEF W!TypeOK
<1>4. CASE W!Escalate(r, o)
  <2> DEFINE new == [order[o] EXCEPT !.urgent = TRUE, !.version = @ + 1]
  <2>1. order' = [order EXCEPT ![o] = new] /\ order[o] \in W!Rows
    BY <1>1, <1>4 DEF W!Escalate, W!TypeOK
  <2>2. order[o].version + 1 \in Nat /\ TRUE \in BOOLEAN
    BY <2>1 DEF W!Rows
  <2>3. new \in W!Rows
    BY <2>1, <2>2 DEF W!Rows
  <2> HIDE DEF new
  <2>4. order' \in [Orders -> W!Rows]
    BY <1>1, <2>1, <2>3 DEF W!TypeOK
  <2>5. /\ orderPc' \in [W!Procs -> W!ClientStages \cup W!ScanStages]
        /\ orderJob' \in [W!Procs -> Orders \cup {NoOrder}]
        /\ OrderJobs'
    BY <1>1, <1>4 DEF W!Escalate, W!Goto, W!TypeOK, W!ScanStages, OrderJobs
  <2>6. W!TypeOK'
    BY <1>1, <1>2, <1>3, <1>4, <2>4, <2>5 DEF W!Escalate, W!TypeOK, W!audit, W!failures
  <2> QED  BY <2>5, <2>6 DEF OrderInv
<1>5. CASE W!Skip(r, o)
  BY <1>1, <1>2, <1>3, <1>5 DEF W!Skip, W!TypeOK, OrderInv, OrderJobs, W!audit, W!failures
<1> QED  BY <1>4, <1>5

LEMMA OrderKeeps == ASSUME OrderInv, [W!Next]_orderVars PROVE OrderInv'
<1> USE DEF W!failures, W!audit
<1>0. W!TypeOK /\ OrderJobs
  BY DEF OrderInv
<1>1. ASSUME NEW c \in Clients, W!Acquire(c) \/ W!Insert(c) \/ W!Cache(c) \/ W!ClientDies(c)
      PROVE  FALSE
  BY <1>0, <1>1 DEF OrderJobs, W!Procs, W!Acquire, W!Insert, W!Cache, W!ClientDies
<1>2. ASSUME NEW c \in Clients, W!Refused(c) PROVE OrderInv'
  <2>1. OrderProcesses' /\ OrderJobs'
    BY <1>2, OrderDone DEF W!Refused, W!Procs
  <2> QED
    BY <1>0, <1>2, <2>1, OrderFault DEF W!Refused, W!TypeOK, OrderProcesses, OrderInv
<1>3. ASSUME NEW c \in Clients, W!ClientStep(c) PROVE OrderInv'
  <2>1. ASSUME NEW o \in Orders, NEW s \in Staff, W!AssignWorkOrder(c, o, s) PROVE OrderInv'
    BY <2>1, OrderRead DEF W!AssignWorkOrder, W!Actions
  <2>2. ASSUME NEW o \in Orders, W!UpdateStatus(c, o, "close") PROVE OrderInv'
    <3>1. order[o].assignee \in Staff \cup {Nobody} /\ "close" \in W!Actions
      BY <1>0 DEF W!TypeOK, W!Rows, W!Actions
    <3> QED  BY <2>2, <3>1, OrderRead DEF W!UpdateStatus
  <2> QED  BY <1>1, <1>2, <1>3, <2>1, <2>2, OrderWrite DEF W!ClientStep
<1>4. ASSUME NEW a \in Alarms, W!CreateFromAlarm(a) PROVE OrderInv'
  <2>1. PICK o \in Orders, urgent \in BOOLEAN : W!NewOrder(o, urgent, a)
    BY <1>4 DEF W!CreateFromAlarm
  <2>2. W!NewRow(urgent, a) \in W!Rows /\ W!Flow("none", "pending") \in W!Flows
    BY OrderRows DEF W!Flow, W!Flows, W!Statuses
  <2>3. order' \in [Orders -> W!Rows] /\ flow' \in [Orders -> Seq(W!Flows)]
    BY <1>0, <2>1, <2>2 DEF W!TypeOK, W!NewOrder
  <2> QED  BY <1>0, <1>4, <2>3 DEF W!CreateFromAlarm, W!TypeOK, OrderInv, OrderJobs
<1>5. ASSUME NEW o \in Orders, W!Age(o) PROVE OrderInv'
  BY <1>0, <1>5 DEF W!Age, W!TypeOK, OrderInv, OrderJobs
<1>6. ASSUME NEW r \in Scans, W!TryLock(r) PROVE OrderInv'
  BY <1>0, <1>6 DEF W!TryLock, W!Goto, W!TypeOK, W!ScanStages, OrderInv, OrderJobs
<1>7. ASSUME NEW r \in Scans, W!List(r) PROVE OrderInv'
  BY <1>0, <1>7, OrderRows DEF W!List, W!Goto, W!TypeOK, W!ScanStages, OrderInv, OrderJobs
<1>8. ASSUME NEW r \in Scans, W!LogEscalation(r) PROVE OrderInv'
  <2>1. escalations' \in [Orders -> Nat]
    BY <1>0, <1>8 DEF W!LogEscalation, W!TypeOK
  <2>2. /\ orderPc' \in [W!Procs -> W!ClientStages \cup W!ScanStages]
        /\ orderJob' \in [W!Procs -> Orders \cup {NoOrder}]
        /\ OrderJobs'
    BY <1>0, <1>8 DEF W!LogEscalation, W!Goto, W!TypeOK, W!ScanStages, OrderJobs
  <2> QED
    BY <1>0, <1>8, <2>1, <2>2, OrderFault DEF W!LogEscalation, W!TypeOK, OrderInv
<1>9. ASSUME NEW r \in Scans, W!ScanDone(r) \/ W!ScanFails(r) PROVE OrderInv'
  <2>1. OrderProcesses' /\ OrderJobs'
    BY <1>9, OrderDone DEF W!ScanDone, W!ScanFails, W!EndScan, W!Procs
  <2>2. scanLock' \in Scans \cup {Unlocked} /\ overdueOrders' \in [Scans -> SUBSET Orders]
    BY <1>0, <1>9 DEF W!ScanDone, W!ScanFails, W!EndScan, W!Unlock, W!TypeOK
  <2> QED
    BY <1>0, <1>9, <2>1, <2>2, OrderFault
       DEF W!ScanDone, W!ScanFails, W!EndScan, W!TypeOK, OrderProcesses, OrderInv
<1>10. ASSUME NEW r \in Scans, W!LockExpires(r) PROVE OrderInv'
  BY <1>0, <1>10, OrderFault DEF W!LockExpires, W!TypeOK, OrderInv, OrderJobs
<1>11. CASE UNCHANGED orderVars
  BY <1>0, <1>11 DEF orderVars, W!TypeOK, OrderInv, OrderJobs
<1> QED
  BY <1>1, <1>3, <1>4, <1>5, <1>6, <1>7, <1>8, <1>9, <1>10, <1>11, OrderEscalates
     DEF W!Next, W!ScanStep

------------------------------------------------------------------------------
(* The loop, the lock, the overview and its cache, cameras with their      *)
(* heartbeats, orders with their scans, and sessions with their tokens     *)
(* keep their types, whichever of them takes the steps.                    *)
THEOREM LibraryTyped == ProgressSpec => []LibraryTypes
<1>1. ProgressInit => /\ TypeOK /\ LockIInv /\ O!TypeOK /\ CamShape /\ OrderInv /\ SessionInv
  BY ProgressStarts, TypeInit, LockStarts, ViewStarts, CamStarts, OrderStarts, SessionStarts
<1>2. /\ TypeOK /\ LockIInv /\ O!TypeOK /\ CamShape /\ OrderInv /\ SessionInv
      /\ [ProgressNext]_allVars
      => (/\ TypeOK /\ LockIInv /\ O!TypeOK /\ CamShape /\ OrderInv /\ SessionInv)'
  BY ProgressStep, TypeStep, LockKeeps, ViewKeeps, CamKeeps, OrderKeeps, SessionKeeps
<1>3. /\ TypeOK /\ LockIInv /\ O!TypeOK /\ CamShape /\ OrderInv /\ SessionInv => LibraryTypes
  BY CamTyped DEF LibraryTypes, LockIInv, OrderInv, SessionInv
<1> QED
  BY <1>1, <1>2, <1>3, PTL DEF ProgressSpec

(* In the run too the loop delivers, and a lock is owned by its holder:    *)
(* what the other parts do touches neither.                                *)
THEOREM LibraryKeepsPromises == ProgressSpec => DeliversLog /\ []HeldIsOwned
<1>1. Init => Abstract!Init
  BY DEF Init, Abstract!Init, Attempted, Offsets
<1>2. LockIInv => HeldIsOwned
  BY DEF LockIInv, HeldIsOwned, Kept
<1>3. ProgressSpec => []Delivery
  BY ProgressStarts, ProgressStep, DeliveryInit, DeliveryStep, PTL DEF ProgressSpec
<1>4. ProgressSpec => []HeldIsOwned
  BY ProgressStarts, ProgressStep, LockStarts, LockKeeps, <1>2, PTL DEF ProgressSpec
<1>5. ProgressSpec => DeliversLog
  BY ProgressStarts, ProgressStep, <1>1, <1>3, StepSimulates, PTL
     DEF ProgressSpec, DeliversLog, Abstract!Spec
<1> QED
  BY <1>4, <1>5, PTL
==================================================================================
