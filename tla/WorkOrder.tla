------------------------------- MODULE WorkOrder -------------------------------
(***************************************************************************)
(* workorder-service: creation of work orders by the API (with an optional *)
(* idempotency key) and from alarms, their transitions, and the scan that  *)
(* escalates old ones (cron/escalate.go).  Requests and scans read a row   *)
(* first and write it later under "WHERE version = ?"; the transition and  *)
(* its row in work_order_flow are one transaction.                         *)
(*                                                                         *)
(* A step is one statement or transaction against MySQL or Redis.          *)
(* Abstracted: roles, the content of an order, its number (unique, drawn   *)
(* again on a clash), tenants, attachments and the published events.  An   *)
(* order is "old" when it was created before the scan's threshold.         *)
(***************************************************************************)
EXTENDS Naturals, Sequences, FiniteSets

CONSTANTS
  Orders,               \* work_order rows that can be created
  Staff, Nobody,        \* people, and assignee_id = 0
  Alarms, NoAlarm,      \* alarms to repair, and alarm_id = NULL
  Keys, NoKey,          \* idempotency keys of create requests, and none
  Clients,              \* concurrent API requests
  Scans, NoScan,        \* concurrent scans, and the lock key is absent
  NoOrder,              \* the process works on no order
  StatusActions,        \* values of UpdateWorkOrderStatusReq.Action
  MaxRequests,          \* API requests in a behaviour (bound)
  FaultKinds,           \* kinds of faults that happen (bound)
  MaxFaults             \* number of faults (bound)

AllKinds == {"redis", "insert", "insertUnanswered", "cache", "write", "flow", "scan",
             "crash", "slow", "expire", "lock"}

\* Faults after which a create request may be carried out twice: Redis does not
\* answer, the transaction is committed but its answer is lost, the answer is not
\* cached (or the process dies first), the insert takes longer than the
\* placeholder lives, or the cached answer is a day old and expires.
Doubling == {"redis", "insertUnanswered", "cache", "crash", "slow", "expire"}

ASSUME WorkOrderAssumption ==
  /\ Nobody \notin Staff /\ NoAlarm \notin Alarms /\ NoKey \notin Keys
  /\ NoScan \notin Scans /\ NoOrder \notin Orders
  /\ Clients \cap Scans = {}
  /\ Orders \cap {"none", "lock"} = {}
  /\ FaultKinds \subseteq AllKinds
  /\ MaxRequests \in Nat /\ MaxFaults \in Nat

Statuses == {"none", "pending", "processing", "verify", "completed", "closed"}
Open     == {"pending", "processing", "verify"}       \* openStatuses of the scan
Actions  == {"assign", "submit", "approve", "reject", "close"}

ASSUME StatusActionsAssumption == StatusActions \subseteq Actions

\* The map "transitions" of internal/state/fsm.go.
Transitions ==
  { << "pending",    "assign",  "processing" >>,
    << "pending",    "close",   "closed"     >>,
    << "processing", "submit",  "verify"     >>,
    << "processing", "close",   "closed"     >>,
    << "verify",     "approve", "completed"  >>,
    << "verify",     "reject",  "processing" >>,
    << "verify",     "close",   "closed"     >>,
    << "completed",  "close",   "closed"     >> }

\* state.NextStatus
NextStatus(from, action, to) == << from, action, to >> \in Transitions

Rows == [ status : Statuses, assignee : Staff \cup {Nobody}, urgent : BOOLEAN,
          finished : BOOLEAN, alarm : Alarms \cup {NoAlarm}, version : Nat ]

NoRow == [ status |-> "none", assignee |-> Nobody, urgent |-> FALSE,
           finished |-> FALSE, alarm |-> NoAlarm, version |-> 0 ]

NewRow(urgent, alarm) ==
  [ status |-> "pending", assignee |-> Nobody, urgent |-> urgent,
    finished |-> FALSE, alarm |-> alarm, version |-> 1 ]

Flows == [ from : Statuses, to : Statuses ]

Flow(from, to) == [ from |-> from, to |-> to ]

Asks == [ action : Actions \cup {"create"}, to : Staff \cup {Nobody},
          key : Keys \cup {NoKey} ]

NoAsk == [ action |-> "create", to |-> Nobody, key |-> NoKey ]

ClientStages == {"idle", "acquire", "insert", "cache", "write"}
ScanStages   == {"idle", "list", "scan", "flow"}

VARIABLES
  row,                  \* work_order
  flow,                 \* work_order_flow per order, in the order of the rows' ids,
                        \* without the escalations
  escalations,          \* ... and how many of those it has
  old,                  \* orders created before the threshold
  idem,                 \* Redis: idempotency key -> none, lock or the order created
  lock,                 \* Redis: whose token the scan's lock holds
  pc, job, seen,        \* where each process is, its order, the rows it read
  ask,                  \* what a request asks for
  batch,                \* per scan: orders still to be escalated
  keyOf,                \* history: the key an order was created under
  doubling,             \* history: a fault of Doubling has happened
  requests, faults

vars == << row, flow, escalations, old, idem, lock, pc, job, seen, ask, batch,
           keyOf, doubling, requests, faults >>

Procs    == Clients \cup Scans
failures == << faults, doubling >>
audit    == << flow, escalations >>

TypeOK ==
  /\ row \in [Orders -> Rows]
  /\ flow \in [Orders -> Seq(Flows)]
  /\ escalations \in [Orders -> Nat]
  /\ old \subseteq Orders
  /\ idem \in [Keys -> {"none", "lock"} \cup Orders]
  /\ lock \in Scans \cup {NoScan}
  /\ pc \in [Procs -> ClientStages \cup ScanStages]
  /\ job \in [Procs -> Orders \cup {NoOrder}]
  /\ seen \in [Procs -> [Orders -> Rows]]
  /\ ask \in [Procs -> Asks]
  /\ batch \in [Scans -> SUBSET Orders]
  /\ keyOf \in [Orders -> Keys \cup {NoKey}]
  /\ requests \in 0 .. MaxRequests
  /\ faults \in 0 .. MaxFaults
  /\ doubling \in BOOLEAN

Init ==
  /\ row = [o \in Orders |-> NoRow]
  /\ flow = [o \in Orders |-> << >>]
  /\ escalations = [o \in Orders |-> 0]
  /\ old = {}
  /\ idem = [k \in Keys |-> "none"]
  /\ lock = NoScan
  /\ pc = [p \in Procs |-> "idle"]
  /\ job = [p \in Procs |-> NoOrder]
  /\ seen = [p \in Procs |-> [o \in Orders |-> NoRow]]
  /\ ask = [p \in Procs |-> NoAsk]
  /\ batch = [r \in Scans |-> {}]
  /\ keyOf = [o \in Orders |-> NoKey]
  /\ requests = 0 /\ faults = 0 /\ doubling = FALSE

Goto(p, stage) == pc' = [pc EXCEPT ![p] = stage]

Fault(kind) ==
  /\ kind \in FaultKinds /\ faults < MaxFaults
  /\ faults' = faults + 1
  /\ doubling' = (doubling \/ kind \in Doubling)

\* The request or the scan is over; its local variables are gone.
Done(p) ==
  /\ Goto(p, "idle")
  /\ job' = [job EXCEPT ![p] = NoOrder]
  /\ seen' = [seen EXCEPT ![p] = [o \in Orders |-> NoRow]]
  /\ ask' = [ask EXCEPT ![p] = NoAsk]

Request(c, o, action, to, key) ==
  /\ pc[c] = "idle" /\ requests < MaxRequests
  /\ requests' = requests + 1
  /\ job' = [job EXCEPT ![c] = o]
  /\ ask' = [ask EXCEPT ![c] = [action |-> action, to |-> to, key |-> key]]

(***************************************************************************)
(* CreateWorkOrder under a key: an answer that is cached is returned (a    *)
(* request answered at once is no step; a cached answer may go unread);    *)
(* otherwise take the key as a lock, insert order and flow in one          *)
(* transaction, and put the answer in the place of the lock.               *)
(***************************************************************************)
AskCreate(c, k) ==
  /\ Request(c, NoOrder, "create", Nobody, k)
  /\ Goto(c, "acquire")
  /\ UNCHANGED << row, audit, old, idem, lock, seen, batch, keyOf, failures >>

\* Mutant: SET instead of SETNX.
Vacant(k) == TRUE

Free(k) == idem[k] = "none"

\* SETNX
TakeKey(k) == Free(k) /\ idem' = [idem EXCEPT ![k] = "lock"]

\* acquireCreateIdempotentLock.  When Redis does not answer, the key may be set
\* all the same: the request goes on unprotected, or the client's own second
\* attempt meets the first one's lock.
Acquire(c) ==
  LET k == ask[c].key IN
  /\ pc[c] = "acquire"
  /\ \/ /\ TakeKey(k)
        /\ Goto(c, "insert")
        /\ UNCHANGED << job, seen, ask, failures >>
     \/ ~Free(k) /\ Done(c) /\ UNCHANGED << idem, failures >>
     \/ /\ Fault("redis")
        /\ TakeKey(k) \/ UNCHANGED idem
        /\ Goto(c, "insert")
        /\ UNCHANGED << job, seen, ask >>
     \/ Fault("redis") /\ TakeKey(k) /\ Done(c)
  /\ UNCHANGED << row, audit, old, lock, batch, keyOf, requests >>

\* The next row: which one is immaterial.
Fresh == CHOOSE o \in Orders : row[o].status = "none"

NewOrder(o, urgent, alarm) ==
  /\ row[o].status = "none" /\ o = Fresh
  /\ row' = [row EXCEPT ![o] = NewRow(urgent, alarm)]
  /\ flow' = [flow EXCEPT ![o] = << Flow("none", "pending") >>]

\* The transaction; it may be committed though the request is answered an error.
Insert(c) ==
  /\ pc[c] = "insert"
  /\ \/ \E o \in Orders, urgent \in BOOLEAN :
          /\ NewOrder(o, urgent, NoAlarm)
          /\ keyOf' = [keyOf EXCEPT ![o] = ask[c].key]
          /\ \/ /\ job' = [job EXCEPT ![c] = o]
                /\ Goto(c, "cache")
                /\ UNCHANGED << seen, ask, failures >>
             \/ Fault("insertUnanswered") /\ Done(c)
     \/ Fault("insert") /\ Done(c) /\ UNCHANGED << row, flow, keyOf >>
  /\ UNCHANGED << escalations, old, idem, lock, batch, requests >>

\* setCreateIdempotent; a failure is only logged (unanswered, it may be cached).
Cache(c) ==
  /\ pc[c] = "cache"
  /\ \/ idem' = [idem EXCEPT ![ask[c].key] = job[c]] /\ UNCHANGED failures
     \/ Fault("cache") /\ UNCHANGED idem
  /\ Done(c)
  /\ UNCHANGED << row, audit, old, lock, batch, keyOf, requests >>

Creating(k) == \E c \in Clients : pc[c] \in {"insert", "cache"} /\ ask[c].key = k

\* The TTL of the placeholder (30 s): it ends the lock of a request that
\* failed, and overtakes a slow one.
PlaceholderExpires(k) ==
  /\ idem[k] = "lock"
  /\ IF Creating(k) THEN Fault("slow") ELSE UNCHANGED failures
  /\ idem' = [idem EXCEPT ![k] = "none"]
  /\ UNCHANGED << row, audit, old, lock, pc, job, seen, ask, batch, keyOf, requests >>

\* The TTL of the cached answer (24 h).
AnswerExpires(k) ==
  /\ idem[k] \in Orders
  /\ Fault("expire")
  /\ idem' = [idem EXCEPT ![k] = "none"]
  /\ UNCHANGED << row, audit, old, lock, pc, job, seen, ask, batch, keyOf, requests >>

\* AlarmHandler.Handle; a repeated alarm meets uk_alarm_id and changes nothing.
CreateFromAlarm(a) ==
  /\ \A o \in Orders : row[o].alarm # a
  /\ \E o \in Orders, urgent \in BOOLEAN : NewOrder(o, urgent, a)
  /\ UNCHANGED << escalations, old, idem, lock, pc, job, seen, ask, batch, keyOf,
                  requests, failures >>

(***************************************************************************)
(* AssignWorkOrder and UpdateWorkOrderStatus: read the row, check the      *)
(* transition, write row and flow.  Assigning an order in processing       *)
(* answers success and changes nothing, which is no step.                  *)
(***************************************************************************)
Read(c, o, action, to) ==
  /\ \E next \in Statuses : NextStatus(row[o].status, action, next)
  /\ Request(c, o, action, to, NoKey)
  /\ seen' = [seen EXCEPT ![c][o] = row[o]]
  /\ Goto(c, "write")
  /\ UNCHANGED << row, audit, old, idem, lock, batch, keyOf, failures >>

AssignWorkOrder(c, o, s) == Read(c, o, "assign", s)

\* The status endpoint leaves the assignee as it is.
UpdateStatus(c, o, action) == Read(c, o, action, row[o].assignee)

SetsFinishedAt(status) == status \in {"completed", "closed"}

\* Mutant: UPDATE ... WHERE id = ?
AnyVersion(p, o) == row[o].status # "none"

Unmodified(p, o) == row[o].version = seen[p][o].version

\* Mutant: the columns are mixed up.
KeyAsAssignee(c, o) == ask[c].key

NewAssignee(c, o) == ask[c].to

Write(c) ==
  LET o == job[c] IN
  /\ pc[c] = "write"
  /\ Unmodified(c, o)
  /\ \E next \in Statuses :
       /\ NextStatus(seen[c][o].status, ask[c].action, next)
       /\ row' = [row EXCEPT ![o].status = next, ![o].assignee = NewAssignee(c, o),
                             ![o].finished = @ \/ SetsFinishedAt(next),
                             ![o].version = @ + 1]
       /\ flow' = [flow EXCEPT ![o] = Append(@, Flow(seen[c][o].status, next))]
  /\ Done(c)
  /\ UNCHANGED << escalations, old, idem, lock, batch, keyOf, requests, failures >>

\* No row matched, or the transaction failed and is rolled back (committed with
\* its answer lost, it is a Write: the answer is nothing a later step reads).
Refused(c) ==
  /\ pc[c] = "write"
  /\ \/ ~Unmodified(c, job[c]) /\ UNCHANGED failures
     \/ Fault("write")
  /\ Done(c)
  /\ UNCHANGED << row, audit, old, idem, lock, batch, keyOf, requests >>

\* A process dies while it creates an order (in Write, as if it were Refused).
ClientDies(c) ==
  /\ pc[c] \in {"insert", "cache"}
  /\ Fault("crash") /\ Done(c)
  /\ UNCHANGED << row, audit, old, idem, lock, batch, keyOf, requests >>

(***************************************************************************)
(* RunEscalationOnce: lock, list, raise the priority order by order with   *)
(* an audit row each, unlock if the token is still ours.                   *)
(***************************************************************************)
\* An order gets old; those that can never be escalated are left out.
Age(o) ==
  /\ o \notin old /\ row[o].status \in Open /\ ~row[o].urgent
  /\ old' = old \cup {o}
  /\ UNCHANGED << row, audit, idem, lock, pc, job, seen, ask, batch, keyOf,
                  requests, failures >>

TryLock(r) ==
  /\ pc[r] = "idle" /\ lock = NoScan
  /\ lock' = r
  /\ Goto(r, "list")
  /\ UNCHANGED << row, audit, old, idem, job, seen, ask, batch, keyOf, requests, failures >>

Overdue(o) == o \in old /\ row[o].status \in Open /\ ~row[o].urgent

List(r) ==
  /\ pc[r] = "list"
  /\ seen' = [seen EXCEPT ![r] = [o \in Orders |-> IF Overdue(o) THEN row[o] ELSE NoRow]]
  /\ batch' = [batch EXCEPT ![r] = { o \in Orders : Overdue(o) }]
  /\ Goto(r, "scan")
  /\ UNCHANGED << row, audit, old, idem, lock, job, ask, keyOf, requests, failures >>

\* The condition of the UPDATE.
StillOverdue(r, o) == Unmodified(r, o) /\ row[o].status \in Open /\ ~row[o].urgent

\* The loop goes on: the copy of order o is no longer needed.
Passed(r, o) ==
  /\ batch' = [batch EXCEPT ![r] = @ \ {o}]
  /\ seen' = [seen EXCEPT ![r][o] = NoRow]

Escalate(r, o) ==
  /\ pc[r] = "scan" /\ o \in batch[r]
  /\ StillOverdue(r, o)
  /\ row' = [row EXCEPT ![o].urgent = TRUE, ![o].version = @ + 1]
  /\ Passed(r, o)
  /\ job' = [job EXCEPT ![r] = o]
  /\ Goto(r, "flow")
  /\ UNCHANGED << audit, old, idem, lock, ask, keyOf, requests, failures >>

\* Somebody changed the order meanwhile.
Skip(r, o) ==
  /\ pc[r] = "scan" /\ o \in batch[r]
  /\ ~StillOverdue(r, o)
  /\ Passed(r, o)
  /\ UNCHANGED << row, audit, old, idem, lock, pc, job, ask, keyOf, requests, failures >>

\* The audit row of an escalation; a failure is only logged (unanswered, the row
\* may be there).
LogEscalation(r) ==
  /\ pc[r] = "flow"
  /\ \/ escalations' = [escalations EXCEPT ![job[r]] = @ + 1] /\ UNCHANGED failures
     \/ Fault("flow") /\ UNCHANGED escalations
  /\ job' = [job EXCEPT ![r] = NoOrder]
  /\ Goto(r, "scan")
  /\ UNCHANGED << row, flow, old, idem, lock, seen, ask, batch, keyOf, requests >>

\* releaseLockScript
Unlock(r) == lock' = IF lock = r THEN NoScan ELSE lock

EndScan(r) ==
  /\ Done(r)
  /\ batch' = [batch EXCEPT ![r] = {}]
  /\ UNCHANGED << row, audit, old, idem, keyOf, requests >>

ScanDone(r) == pc[r] = "scan" /\ batch[r] = {} /\ Unlock(r) /\ EndScan(r) /\ UNCHANGED failures

\* A statement fails and ends the scan (at "flow": the UPDATE was carried out, its
\* answer lost), or the process dies with the lock, which is also what an
\* unanswered SETNX or release leaves behind.
ScanFails(r) ==
  /\ \/ pc[r] \in {"list", "scan", "flow"} /\ Fault("scan") /\ Unlock(r)
     \/ pc[r] # "idle" /\ Fault("crash") /\ UNCHANGED lock
  /\ EndScan(r)

\* Mutant: a lock without a TTL.
LockStays(r) == lock = r /\ UNCHANGED vars

\* Its TTL: it ends the lock of a dead scan, and overtakes a slow one.
LockExpires(r) ==
  /\ lock = r
  /\ IF pc[r] = "idle" THEN UNCHANGED failures ELSE Fault("lock")
  /\ lock' = NoScan
  /\ UNCHANGED << row, audit, old, idem, pc, job, seen, ask, batch, keyOf, requests >>
------------------------------------------------------------------------------

ClientStep(c) ==
  \/ \E k \in Keys : AskCreate(c, k)
  \/ Acquire(c) \/ Insert(c) \/ Cache(c)
  \/ \E o \in Orders, s \in Staff : AssignWorkOrder(c, o, s)
  \/ \E o \in Orders, a \in StatusActions : UpdateStatus(c, o, a)
  \/ Write(c) \/ Refused(c)

ScanStep(r) ==
  \/ TryLock(r) \/ List(r) \/ LogEscalation(r) \/ ScanDone(r)
  \/ \E o \in Orders : Escalate(r, o) \/ Skip(r, o)

Next ==
  \/ \E c \in Clients : ClientStep(c) \/ ClientDies(c)
  \/ \E k \in Keys : PlaceholderExpires(k) \/ AnswerExpires(k)
  \/ \E a \in Alarms : CreateFromAlarm(a)
  \/ \E o \in Orders : Age(o)
  \/ \E r \in Scans : ScanStep(r) \/ ScanFails(r) \/ LockExpires(r)

Spec == Init /\ [][Next]_vars

\* cron.Start runs a scan again and again, on one instance at least; a dead
\* one's lock expires.  Nothing is assumed of the callers.
Fairness == /\ WF_vars(\E r \in Scans : ScanStep(r))
            /\ WF_vars(\E r \in Scans : LockExpires(r) /\ pc[r] = "idle")

FairSpec == Spec /\ Fairness
------------------------------------------------------------------------------

(***************************************************************************)
(* The flow rows of an order tell its life without a gap: it begins with   *)
(* its creation, each row starts where the one before ended, and the last  *)
(* one ends where the order is ("状态已变但无审计流水" is what the         *)
(* transaction is to prevent).  finished_at, which the statistics read, is  *)
(* there exactly for orders that are completed or closed.  However scans    *)
(* overlap, an order has at most one row of an escalation, which made it    *)
(* urgent ("一张工单只留一条升级流水", cron/escalate.go:41).                 *)
(***************************************************************************)
FlowTellsLife ==
  \A o \in Orders :
    LET f == flow[o] IN
    /\ row[o].status = IF f = << >> THEN "none" ELSE f[Len(f)].to
    /\ \A i \in DOMAIN f : f[i].from = IF i = 1 THEN "none" ELSE f[i - 1].to
    /\ row[o].finished <=> row[o].status \in {"completed", "closed"}
    /\ escalations[o] <= 1
    /\ escalations[o] = 1 => row[o].urgent

(***************************************************************************)
(* Two orders are created under one key, by concurrent requests or by      *)
(* repeated ones (createworkorderlogic.go:61), only after one of the faults *)
(* of Doubling; a transaction that failed, whatever else did, is repeated   *)
(* safely.                                                                 *)
(***************************************************************************)
OneOrderPerKey ==
  \A o, u \in Orders : keyOf[o] = keyOf[u] /\ keyOf[o] # NoKey /\ o # u =>
    doubling

(***************************************************************************)
(* Orders that are old and still open become urgent in the end, or are not *)
(* open any more, whatever happens to the scans.                           *)
(***************************************************************************)
EventuallyUrgent == []<>(\A o \in Orders : ~Overdue(o))
==============================================================================
