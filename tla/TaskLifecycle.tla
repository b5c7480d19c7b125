---------------------------- MODULE TaskLifecycle ----------------------------
(***************************************************************************)
(* What dispatch-service promises about its tasks, seen from outside: a    *)
(* task moves along the transition table of internal/state/fsm.go only; an *)
(* assigned task has an owner and a deadline to accept it; work that was   *)
(* accepted is never taken away; and a task whose deadline passed is       *)
(* passed on to somebody else at most MaxReassign times before it returns  *)
(* to the pool.  Nothing here reads a row now and writes it later.         *)
(***************************************************************************)
EXTENDS Naturals

CONSTANTS Tasks, Staff, Nobody, MaxReassign

VARIABLES
  status,     \* where each task is in its life
  owner,      \* who it is assigned to
  lease,      \* the time to accept: "none", "running" or "over"
  passed      \* how often it was passed on since somebody assigned it

life == << status, owner, lease, passed >>

Init ==
  /\ status = [t \in Tasks |-> "none"]
  /\ owner = [t \in Tasks |-> Nobody]
  /\ lease = [t \in Tasks |-> "none"]
  /\ passed = [t \in Tasks |-> 0]

Create(t) ==
  /\ status[t] = "none"
  /\ status' = [status EXCEPT ![t] = "pending"]
  /\ UNCHANGED << owner, lease, passed >>

Assign(t, h) ==
  /\ status[t] \in {"pending", "assigned"}
  /\ status' = [status EXCEPT ![t] = "assigned"]
  /\ owner' = [owner EXCEPT ![t] = h]
  /\ lease' = [lease EXCEPT ![t] = "running"]
  /\ passed' = [passed EXCEPT ![t] = 0]

LeaseOver(t) ==
  /\ lease[t] = "running"
  /\ lease' = [lease EXCEPT ![t] = "over"]
  /\ UNCHANGED << status, owner, passed >>

PassOn(t, h) ==
  /\ status[t] = "assigned" /\ lease[t] = "over"
  /\ h # owner[t]
  /\ passed[t] < MaxReassign
  /\ owner' = [owner EXCEPT ![t] = h]
  /\ lease' = [lease EXCEPT ![t] = "running"]
  /\ passed' = [passed EXCEPT ![t] = @ + 1]
  /\ UNCHANGED status

Release(t) ==
  /\ status[t] = "assigned" /\ lease[t] = "over"
  /\ status' = [status EXCEPT ![t] = "pending"]
  /\ owner' = [owner EXCEPT ![t] = Nobody]
  /\ lease' = [lease EXCEPT ![t] = "none"]
  /\ UNCHANGED passed

\* The owner starts or finishes the work, or somebody closes the task.
Work(t) ==
  /\ \/ /\ status[t] = "assigned"
        /\ status' = [status EXCEPT ![t] = "processing"]
     \/ /\ status[t] = "processing"
        /\ status' = [status EXCEPT ![t] = "completed"]
     \/ /\ status[t] \in {"pending", "assigned", "processing", "completed"}
        /\ status' = [status EXCEPT ![t] = "closed"]
  /\ lease' = [lease EXCEPT ![t] = "none"]
  /\ UNCHANGED << owner, passed >>

Next ==
  \E t \in Tasks :
    \/ Create(t) \/ LeaseOver(t) \/ Release(t) \/ Work(t)
    \/ \E h \in Staff : Assign(t, h) \/ PassOn(t, h)

Spec == Init /\ [][Next]_life
==============================================================================
