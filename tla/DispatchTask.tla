----------------------------- MODULE DispatchTask -----------------------------
(***************************************************************************)
(* dispatch-service: the life of a task row (table dispatch_task) under    *)
(* API requests (TaskAssign, TaskStatus) and the runs of the overdue scan  *)
(* (cron/reassign.go), which all read the row first and write it later     *)
(* under "WHERE id = ? AND version = ?", and the audit rows                *)
(* (dispatch_task_log) they leave.                                         *)
(*                                                                         *)
(* A step is one statement against MySQL or Redis.  Abstracted: titles,    *)
(* zones, skills and loads (assign.Pick is any choice among the            *)
(* candidates), the tenant of a row, and the clock: assign_expire_at is    *)
(* "null", "open" (in the future) or "past".                               *)
(***************************************************************************)
EXTENDS Naturals, FiniteSets

CONSTANTS
  Tasks,                \* task rows that can be created
  Staff,                \* ids of people
  Nobody,               \* assignee_id = 0
  Clients,              \* concurrent API requests
  Runs,                 \* concurrent runs of RunReassignOnce, of all instances
  NoRun,                \* the lock key is absent
  NoTask,               \* the process works on no task
  StatusActions,        \* values of TaskStatusReq.Action that callers send
  MaxReassign,          \* maxReassign
  MaxRequests,          \* API requests in a behaviour (bound)
  MaxUpserts,           \* changes of the staff table (bound)
  MaxFaults             \* database errors, crashes, early lock expiries (bound)

ASSUME DispatchAssumption ==
  /\ Nobody \notin Staff
  /\ NoRun \notin Runs
  /\ NoTask \notin Tasks
  /\ Clients \cap Runs = {}
  /\ MaxReassign \in Nat \ {0}
  /\ MaxRequests \in Nat /\ MaxUpserts \in Nat /\ MaxFaults \in Nat

Statuses == {"none", "pending", "assigned", "processing", "completed", "closed"}
Actions  == {"create", "assign", "release", "start", "finish", "close"}

ASSUME StatusActionsAssumption == StatusActions \subseteq Actions

\* The map "transitions" of internal/state/fsm.go.
Transitions ==
  { << "none",       "create",  "pending"    >>,
    << "pending",    "assign",  "assigned"   >>,
    << "pending",    "close",   "closed"     >>,
    << "assigned",   "assign",  "assigned"   >>,
    << "assigned",   "release", "pending"    >>,
    << "assigned",   "start",   "processing" >>,
    << "assigned",   "close",   "closed"     >>,
    << "processing", "finish",  "completed"  >>,
    << "processing", "close",   "closed"     >>,
    << "completed",  "close",   "closed"     >> }

\* state.Next(from, action): the target of a legal transition.
FsmNext(from, action, to) == << from, action, to >> \in Transitions

Rows == [ status : Statuses, assignee : Staff \cup {Nobody},
          due : {"null", "open", "past"}, count : Nat, version : Nat ]

NoRow == [ status |-> "none", assignee |-> Nobody, due |-> "null",
           count |-> 0, version |-> 0 ]

\* One audit row; "at" is the version of the task row it speaks of.
Entries == [ task : Tasks, at : Nat, from : Statuses, to : Statuses,
             action : Actions ]

Entry(t, row, action, to) ==
  [ task |-> t, at |-> row.version, from |-> row.status, to |-> to,
    action |-> action ]

Requests  == [ action : Actions, to : Staff \cup {Nobody} ]
NoRequest == [ action |-> "create", to |-> Nobody ]

ClientStages == {"idle", "assign", "status", "log"}
RunStages    == {"idle", "list", "pool", "scan", "log"}

VARIABLES
  row,                  \* dispatch_task
  onDuty,               \* dispatch_staff rows that are on duty and enabled
  lock,                 \* whose token the Redis lock key holds
  pc,                   \* where each request and each run is
  job,                  \* task a request or a run works on
  seen,                 \* task rows as each of them read them
  request,              \* the action and the assignee a request asks for
  batch,                \* per run: listed tasks still to be handled
  pool,                 \* per run: the candidates it loaded
  log,                  \* dispatch_task_log
  requests, upserts, faults,
  moves                 \* history: the transitions the rows really made

vars == << row, onDuty, lock, pc, job, seen, request, batch, pool, log,
           requests, upserts, faults, moves >>

counters == << requests, upserts, faults >>

Procs == Clients \cup Runs

TypeOK ==
  /\ row \in [Tasks -> Rows]
  /\ onDuty \subseteq Staff
  /\ lock \in Runs \cup {NoRun}
  /\ pc \in [Procs -> ClientStages \cup RunStages]
  /\ \A c \in Clients : pc[c] \in ClientStages
  /\ \A r \in Runs : pc[r] \in RunStages
  /\ job \in [Procs -> Tasks \cup {NoTask}]
  /\ seen \in [Procs -> [Tasks -> Rows]]
  /\ request \in [Procs -> Requests]
  /\ batch \in [Runs -> SUBSET Tasks]
  /\ pool \in [Runs -> SUBSET Staff]
  /\ log \subseteq Entries
  /\ moves \subseteq Entries
  /\ requests \in 0 .. MaxRequests
  /\ upserts \in 0 .. MaxUpserts
  /\ faults \in 0 .. MaxFaults

Init ==
  /\ row = [t \in Tasks |-> NoRow]
  /\ onDuty \in SUBSET Staff
  /\ lock = NoRun
  /\ pc = [p \in Procs |-> "idle"]
  /\ job = [p \in Procs |-> NoTask]
  /\ seen = [p \in Procs |-> [t \in Tasks |-> NoRow]]
  /\ request = [p \in Procs |-> NoRequest]
  /\ batch = [r \in Runs |-> {}]
  /\ pool = [r \in Runs |-> {}]
  /\ log = {}
  /\ moves = {}
  /\ requests = 0 /\ upserts = 0 /\ faults = 0

Goto(p, stage) == pc' = [pc EXCEPT ![p] = stage]

\* The request or the run is over; its local variables are gone.
Done(p) ==
  /\ Goto(p, "idle")
  /\ job' = [job EXCEPT ![p] = NoTask]
  /\ seen' = [seen EXCEPT ![p] = [t \in Tasks |-> NoRow]]
  /\ request' = [request EXCEPT ![p] = NoRequest]

\* ... and those of a run.
RunDone(r) ==
  /\ Done(r)
  /\ batch' = [batch EXCEPT ![r] = {}]
  /\ pool' = [pool EXCEPT ![r] = {}]

Fault == faults < MaxFaults /\ faults' = faults + 1

\* Mutant: Optimistic locking by status instead of version.
UnmodifiedStatus(p, t) == row[t].status = seen[p][t].status

\* UPDATE ... WHERE id = ? AND version = ?: the row is still the one p read.
Unmodified(p, t) == row[t].version = seen[p][t].version

(***************************************************************************)
(* A row is created, by the API (the audit row is in the transaction) or   *)
(* by the alarm consumer (the audit row follows and may fail).             *)
(* Versions count from 1 here, so that 0 can stand for no row.             *)
(***************************************************************************)
TaskCreate(t) ==
  \E to \in Statuses :
    /\ row[t].status = "none"
    /\ FsmNext("none", "create", to)
    /\ row' = [row EXCEPT ![t].status = to, ![t].version = 1]
    /\ moves' = moves \cup {Entry(t, row[t], "create", to)}
    /\ log' \in {log, log \cup {Entry(t, row[t], "create", to)}}
    /\ UNCHANGED << onDuty, lock, pc, job, seen, request, batch, pool, counters >>

\* StaffUpsert puts somebody on duty or takes him off.
StaffUpsert(s) ==
  /\ upserts < MaxUpserts
  /\ upserts' = upserts + 1
  /\ onDuty' = IF s \in onDuty THEN onDuty \ {s} ELSE onDuty \cup {s}
  /\ UNCHANGED << row, lock, pc, job, seen, request, batch, pool, log,
                  requests, faults, moves >>

\* The accept window of an assigned task runs out.
WindowPasses(t) ==
  /\ row[t].due = "open"
  /\ row' = [row EXCEPT ![t].due = "past"]
  /\ UNCHANGED << onDuty, lock, pc, job, seen, request, batch, pool, log,
                  counters, moves >>

\* Mutant: The history pool without "WHERE assignee_id > 0".
CandidatesAll ==
  IF onDuty # {} THEN onDuty ELSE { row[t].assignee : t \in Tasks }

\* assign.Pool: the people on duty or, when there are none, everybody a task
\* was ever assigned to (and still is).
Candidates ==
  IF onDuty # {} THEN onDuty
  ELSE { s \in Staff : \E t \in Tasks : row[t].assignee = s }

(***************************************************************************)
(* TaskAssign: read the row, choose, write it back, append the audit row.  *)
(* The assignee s is whomever the caller names, or one of the Candidates   *)
(* (pickAutoAssignee), which is no other step.                             *)
(***************************************************************************)
ReadForAssign(c, t, s) ==
  /\ pc[c] = "idle" /\ requests < MaxRequests
  /\ requests' = requests + 1
  /\ FsmNext(row[t].status, "assign", "assigned")
  /\ job' = [job EXCEPT ![c] = t]
  /\ seen' = [seen EXCEPT ![c][t] = row[t]]
  /\ request' = [request EXCEPT ![c] = [action |-> "assign", to |-> s]]
  /\ Goto(c, "assign")
  /\ UNCHANGED << row, onDuty, lock, batch, pool, log, upserts, faults, moves >>

Assigned(t, s, count) ==
  [ status |-> "assigned", assignee |-> s, due |-> "open", count |-> count,
    version |-> row[t].version + 1 ]

TaskAssign(c) ==
  LET t == job[c] IN
  /\ pc[c] = "assign"
  /\ Unmodified(c, t)
  /\ row' = [row EXCEPT ![t] = Assigned(t, request[c].to, 0)]
  /\ moves' = moves \cup {Entry(t, row[t], "assign", "assigned")}
  /\ Goto(c, "log")
  /\ UNCHANGED << onDuty, lock, job, seen, request, batch, pool, log, counters >>

\* writeLog of TaskAssign; a failure is only logged.
LogAssign(c) ==
  LET t == job[c] IN
  /\ pc[c] = "log"
  /\ \/ /\ log' = log \cup {Entry(t, seen[c][t], "assign", "assigned")}
        /\ UNCHANGED faults
     \/ Fault /\ UNCHANGED log
  /\ Done(c)
  /\ UNCHANGED << row, onDuty, lock, batch, pool, requests, upserts, moves >>

(***************************************************************************)
(* TaskStatus: the action of the request goes to the state machine as it   *)
(* is; row and audit row change in one transaction.                        *)
(***************************************************************************)
ReadForStatus(c, t, a) ==
  /\ pc[c] = "idle" /\ requests < MaxRequests
  /\ requests' = requests + 1
  /\ \E to \in Statuses \ {"none"} :
       row[t].status # "none" /\ FsmNext(row[t].status, a, to)
  /\ job' = [job EXCEPT ![c] = t]
  /\ seen' = [seen EXCEPT ![c][t] = row[t]]
  /\ request' = [request EXCEPT ![c] = [action |-> a, to |-> Nobody]]
  /\ Goto(c, "status")
  /\ UNCHANGED << row, onDuty, lock, batch, pool, log, upserts, faults, moves >>

TaskStatus(c) ==
  LET t == job[c]
      a == request[c].action
  IN  /\ pc[c] = "status"
      /\ Unmodified(c, t)
      /\ \E to \in Statuses :
           /\ FsmNext(seen[c][t].status, a, to)
           /\ row' = [row EXCEPT ![t].status = to, ![t].version = @ + 1]
           /\ moves' = moves \cup {Entry(t, row[t], a, to)}
           /\ log' = log \cup {Entry(t, seen[c][t], a, to)}
      /\ Done(c)
      /\ UNCHANGED << onDuty, lock, batch, pool, counters >>

\* No row matched, or the statement failed: the request ends with an error.
RequestRefused(c) ==
  /\ pc[c] \in {"assign", "status"}
  /\ \/ ~Unmodified(c, job[c]) /\ UNCHANGED faults
     \/ Fault
  /\ Done(c)
  /\ UNCHANGED << row, onDuty, lock, batch, pool, log, requests, upserts, moves >>

(***************************************************************************)
(* RunReassignOnce: lock, list the overdue tasks, load the pool, decide    *)
(* and write task by task, release the lock if the token is still ours.    *)
(***************************************************************************)
TryLock(r) ==
  /\ pc[r] = "idle" /\ lock = NoRun
  /\ lock' = r
  /\ Goto(r, "list")
  /\ UNCHANGED << row, onDuty, job, seen, request, batch, pool, log, counters, moves >>

Overdue(t) == row[t].status = "assigned" /\ row[t].due = "past"

\* releaseLockScript, the deferred end of every run.
Unlock(r) == lock' = IF lock = r THEN NoRun ELSE lock

\* When nothing is overdue the run ends here.
List(r) ==
  LET overdue == { t \in Tasks : Overdue(t) } IN
  /\ pc[r] = "list"
  /\ \/ /\ overdue # {}
        /\ seen' = [seen EXCEPT ![r] = row]
        /\ batch' = [batch EXCEPT ![r] = overdue]
        /\ Goto(r, "pool")
        /\ UNCHANGED << lock, job, request, pool >>
     \/ overdue = {} /\ Unlock(r) /\ RunDone(r)
  /\ UNCHANGED << row, onDuty, log, counters, moves >>

LoadPool(r) ==
  /\ pc[r] = "pool"
  /\ pool' = [pool EXCEPT ![r] = Candidates]
  /\ Goto(r, "scan")
  /\ UNCHANGED << row, onDuty, lock, job, seen, request, batch, log, counters, moves >>

\* decideReassign: whom the run may pass task t on to.
Successors(r, t) ==
  IF seen[r][t].count >= MaxReassign THEN {}
  ELSE pool[r] \ {seen[r][t].assignee}

\* Mutant: The scan's UPDATEs without "AND version = ?".
StillAssignedOnly(r, t) == row[t].status = "assigned"

\* The condition of both UPDATEs of the run.
StillAssigned(r, t) == Unmodified(r, t) /\ row[t].status = "assigned"

Reassign(r, t) ==
  /\ pc[r] = "scan" /\ t \in batch[r]
  /\ StillAssigned(r, t)
  /\ \E s \in Successors(r, t) :
       row' = [row EXCEPT ![t] = Assigned(t, s, row[t].count + 1)]
  /\ moves' = moves \cup {Entry(t, row[t], "assign", "assigned")}
  /\ job' = [job EXCEPT ![r] = t]
  /\ batch' = [batch EXCEPT ![r] = @ \ {t}]
  /\ Goto(r, "log")
  /\ UNCHANGED << onDuty, lock, seen, request, pool, log, counters >>

Released(t) ==
  [ status |-> "pending", assignee |-> Nobody, due |-> "null",
    count |-> row[t].count, version |-> row[t].version + 1 ]

Release(r, t) ==
  /\ pc[r] = "scan" /\ t \in batch[r]
  /\ StillAssigned(r, t)
  /\ Successors(r, t) = {}
  /\ row' = [row EXCEPT ![t] = Released(t)]
  /\ moves' = moves \cup {Entry(t, row[t], "release", "pending")}
  /\ job' = [job EXCEPT ![r] = t]
  /\ batch' = [batch EXCEPT ![r] = @ \ {t}]
  /\ Goto(r, "log")
  /\ UNCHANGED << onDuty, lock, seen, request, pool, log, counters >>

\* No row matched (somebody handled the task meanwhile) or the statement
\* failed: the run goes on with the next task.
SkipTask(r, t) ==
  /\ pc[r] = "scan" /\ t \in batch[r]
  /\ \/ ~StillAssigned(r, t) /\ UNCHANGED faults
     \/ Fault
  /\ batch' = [batch EXCEPT ![r] = @ \ {t}]
  /\ UNCHANGED << row, onDuty, lock, pc, job, seen, request, pool, log,
                  requests, upserts, moves >>

\* The audit row of what the run has just done to task t.
ScanEntry(r, t) ==
  IF Successors(r, t) = {} THEN Entry(t, seen[r][t], "release", "pending")
  ELSE Entry(t, seen[r][t], "assign", "assigned")

\* writeLog of the run; a failure is only logged.
LogScan(r) ==
  /\ pc[r] = "log"
  /\ \/ log' = log \cup {ScanEntry(r, job[r])} /\ UNCHANGED faults
     \/ Fault /\ UNCHANGED log
  /\ Goto(r, "scan")
  /\ job' = [job EXCEPT ![r] = NoTask]
  /\ UNCHANGED << row, onDuty, lock, seen, request, batch, pool,
                  requests, upserts, moves >>

EndRun(r) ==
  /\ pc[r] = "scan" /\ batch[r] = {}
  /\ Unlock(r)
  /\ RunDone(r)
  /\ UNCHANGED << row, onDuty, log, counters, moves >>

\* A query fails, or the process dies: the run is over and, in the latter
\* case, its lock stays until the TTL.
RunFails(r) ==
  /\ Fault
  /\ \/ pc[r] \in {"list", "pool"} /\ Unlock(r)
     \/ pc[r] # "idle" /\ UNCHANGED lock
  /\ RunDone(r)
  /\ UNCHANGED << row, onDuty, log, requests, upserts, moves >>

\* Mutant: SET NX without a TTL.
LockStays(r) == lock = r /\ UNCHANGED vars

\* The lock's TTL: it ends the lock of a dead run, and overtakes a slow one.
LockExpires(r) ==
  /\ lock = r
  /\ IF pc[r] = "idle" THEN UNCHANGED faults ELSE Fault
  /\ lock' = NoRun
  /\ UNCHANGED << row, onDuty, pc, job, seen, request, batch, pool, log,
                  requests, upserts, moves >>

------------------------------------------------------------------------------

ClientStep(c) ==
  \/ \E t \in Tasks, s \in Staff : ReadForAssign(c, t, s)
  \/ \E t \in Tasks, a \in StatusActions : ReadForStatus(c, t, a)
  \/ TaskAssign(c) \/ LogAssign(c) \/ TaskStatus(c) \/ RequestRefused(c)

RunStep(r) ==
  \/ TryLock(r) \/ List(r) \/ LoadPool(r) \/ LogScan(r) \/ EndRun(r)
  \/ \E t \in Tasks : Reassign(r, t) \/ Release(r, t) \/ SkipTask(r, t)

Next ==
  \/ \E t \in Tasks : TaskCreate(t) \/ WindowPasses(t)
  \/ \E s \in Staff : StaffUpsert(s)
  \/ \E c \in Clients : ClientStep(c)
  \/ \E r \in Runs : RunStep(r) \/ RunFails(r) \/ LockExpires(r)

Spec == Init /\ [][Next]_vars

\* Time passes, a dead run's lock expires, and a run that can go on goes on:
\* cron.Start triggers one every IntervalSec on every instance.  Nothing is
\* assumed of the callers.
Fairness ==
  /\ \A t \in Tasks : WF_vars(WindowPasses(t))
  /\ \A r \in Runs : WF_vars(RunStep(r))
  /\ \A r \in Runs : WF_vars(LockExpires(r) /\ pc[r] = "idle")

FairSpec == Spec /\ Fairness
------------------------------------------------------------------------------

(***************************************************************************)
(* The audit rows of a task tell what happened to it: each one names a     *)
(* transition the row really made, no two transitions start from the same  *)
(* version, and none made through TaskStatus is missing.  (TaskAssign, the *)
(* scan and the alarm consumer may lose theirs, as the code says.)         *)
(***************************************************************************)
AuditTruthful ==
  /\ log \subseteq moves
  /\ \A m, n \in moves : m.task = n.task /\ m.at = n.at => m = n
  /\ { m \in moves : m.action \in {"start", "finish", "close"} } \subseteq log

(***************************************************************************)
(* Somebody is in charge of every task in flight, and the overdue scan     *)
(* will find it: an assigned or running task has an assignee, an assigned  *)
(* one a deadline, and a pending one neither.                              *)
(***************************************************************************)
AssignedIsOwned ==
  \A t \in Tasks :
    /\ row[t].status \in {"assigned", "processing"} => row[t].assignee # Nobody
    /\ row[t].status = "assigned" => row[t].due # "null"
    /\ row[t].status = "pending" => row[t].assignee = Nobody /\ row[t].due = "null"

(***************************************************************************)
(* Rows read under a lock that may be lost, and written later, behave like *)
(* the atomic operations of TaskLifecycle: in particular no run passes on  *)
(* a task that was accepted, reassigned or closed after the run read it,   *)
(* none passes a task on more than MaxReassign times.                      *)
(***************************************************************************)
LeaseOf(x) ==
  IF x.status # "assigned" \/ x.due = "null" THEN "none"
  ELSE IF x.due = "open" THEN "running" ELSE "over"

StatusOfTask == [t \in Tasks |-> row[t].status]
OwnerOfTask  == [t \in Tasks |-> row[t].assignee]
LeaseOfTask  == [t \in Tasks |-> LeaseOf(row[t])]
PassedOfTask == [t \in Tasks |-> row[t].count]

Lifecycle == INSTANCE TaskLifecycle WITH
  status <- StatusOfTask, owner <- OwnerOfTask, lease <- LeaseOfTask, passed <- PassedOfTask

ImplementsTaskLifecycle == Lifecycle!Spec

(***************************************************************************)
(* "三层兜底, 保证工单最终一定有人管" (cron/reassign.go:39): a task does   *)
(* not stay assigned to somebody who never accepts it; it is started or    *)
(* closed, or goes back to the pool.                                       *)
(***************************************************************************)
LeasesEnd ==
  \A t \in Tasks : row[t].status = "assigned" ~> row[t].status # "assigned"
==============================================================================
