-------------------------- MODULE DispatchTaskProofs --------------------------
(***************************************************************************)
(* Theorems about DispatchTask, for any number of tasks, people, requests  *)
(* and runs: types, audit, ownership, and that reading rows early and      *)
(* writing them late implements the atomic TaskLifecycle.                  *)
(***************************************************************************)
EXTENDS DispatchTask, TLAPS

------------------------------------------------------------------------------
(* Types.  A process that writes a row or an audit row has a task to do it *)
(* for, without which the audit rows would have no type.                   *)

Working == \A p \in Procs : pc[p] \in {"assign", "status", "log"} => job[p] \in Tasks

LEMMA AssignedType ==
  ASSUME TypeOK, NEW t \in Tasks, NEW s \in Staff \cup {Nobody}, NEW n \in Nat
  PROVE  Assigned(t, s, n) \in Rows
BY DEF TypeOK, Assigned, Rows, Statuses

LEMMA RowExcept ==
  ASSUME NEW x \in Rows, NEW s \in Statuses, NEW n \in Nat
  PROVE  /\ [x EXCEPT !.status = s, !.version = n] \in Rows
         /\ [x EXCEPT !.due = "past"] \in Rows
BY DEF Rows

LEMMA EntryType ==
  ASSUME NEW t \in Tasks, NEW x \in Rows, NEW a \in Actions, NEW to \in Statuses
  PROVE  Entry(t, x, a, to) \in Entries
BY DEF Entry, Entries, Rows

\* The local variables of a process that is done.
LEMMA DoneType ==
  ASSUME TypeOK, NEW p \in Procs, Done(p)
  PROVE  /\ pc' \in [Procs -> ClientStages \cup RunStages]
         /\ \A c \in Clients : pc'[c] \in ClientStages
         /\ \A r \in Runs : pc'[r] \in RunStages
         /\ job' \in [Procs -> Tasks \cup {NoTask}]
         /\ seen' \in [Procs -> [Tasks -> Rows]]
         /\ request' \in [Procs -> Requests]
<1>1. NoRow \in Rows /\ NoRequest \in Requests
  BY DEF NoRow, Rows, Statuses, NoRequest, Requests, Actions
<1>2. [t \in Tasks |-> NoRow] \in [Tasks -> Rows]
  BY <1>1
<1>3. /\ pc' \in [Procs -> ClientStages \cup RunStages]
      /\ \A c \in Clients : pc'[c] \in ClientStages
      /\ \A r \in Runs : pc'[r] \in RunStages
  BY DEF Done, Goto, TypeOK, ClientStages, RunStages, Procs
<1>4. job' \in [Procs -> Tasks \cup {NoTask}]
  BY DEF Done, TypeOK
<1>5. seen' \in [Procs -> [Tasks -> Rows]]
  BY <1>2 DEF Done, TypeOK
<1>6. request' \in [Procs -> Requests]
  BY <1>1 DEF Done, TypeOK
<1> QED
  BY <1>3, <1>4, <1>5, <1>6

\* A client or a run moves to another of its stages.
LEMMA GotoType ==
  ASSUME TypeOK, NEW p \in Procs, NEW stage,
         p \in Clients => stage \in ClientStages,
         p \in Runs => stage \in RunStages,
         Goto(p, stage)
  PROVE  /\ pc' \in [Procs -> ClientStages \cup RunStages]
         /\ \A c \in Clients : pc'[c] \in ClientStages
         /\ \A r \in Runs : pc'[r] \in RunStages
BY DEF Goto, TypeOK, Procs

\* pc after Goto, for a task that p has at hand.
LEMMA GotoWorking ==
  ASSUME TypeOK, Working, NEW p \in Procs, NEW stage, Goto(p, stage),
         stage \in {"assign", "status", "log"} => job'[p] \in Tasks,
         \A q \in Procs \ {p} : job'[q] = job[q]
  PROVE  Working'
BY DEF Goto, Working, TypeOK

LEMMA DoneWorking ==
  ASSUME TypeOK, Working, NEW p \in Procs, Done(p)
  PROVE  Working'
BY DEF Done, Goto, Working, TypeOK

\* The row of an existing task is replaced by another row.
LEMMA RowChange ==
  ASSUME TypeOK, NEW t \in Tasks, NEW x \in Rows, row' = [row EXCEPT ![t] = x]
  PROVE  row' \in [Tasks -> Rows]
BY DEF TypeOK

LEMMA TypeStep ==
  ASSUME TypeOK, Working, [Next]_vars
  PROVE  TypeOK' /\ Working'
<1> DEFINE Good == TypeOK' /\ Working'
<1> USE DispatchAssumption, StatusActionsAssumption
<1>1. ASSUME NEW t \in Tasks, TaskCreate(t) PROVE Good
  <2>1. PICK to \in Statuses : /\ row' = [row EXCEPT ![t].status = to, ![t].version = 1]
                               /\ moves' = moves \cup {Entry(t, row[t], "create", to)}
                               /\ log' \in {log, log \cup {Entry(t, row[t], "create", to)}}
    BY <1>1 DEF TaskCreate
  <2>2. row' \in [Tasks -> Rows]
    <3>1. [row[t] EXCEPT !.status = to, !.version = 1] \in Rows
      BY RowExcept DEF TypeOK
    <3>2. row' = [row EXCEPT ![t] = [row[t] EXCEPT !.status = to, !.version = 1]]
      BY <2>1 DEF TypeOK
    <3> QED
      BY <3>1, <3>2, RowChange
  <2>3. Entry(t, row[t], "create", to) \in Entries
    BY EntryType DEF TypeOK, Actions
  <2>4. log' \subseteq Entries /\ moves' \subseteq Entries
    BY <2>1, <2>3 DEF TypeOK
  <2>5. UNCHANGED << onDuty, lock, pc, job, seen, request, batch, pool,
                     requests, upserts, faults >>
    BY <1>1 DEF TaskCreate, counters
  <2> QED
    BY <2>2, <2>4, <2>5 DEF TypeOK, Working
<1>2. ASSUME NEW s \in Staff, StaffUpsert(s) PROVE Good
  BY <1>2 DEF TypeOK, Working, StaffUpsert
<1>3. ASSUME NEW t \in Tasks, WindowPasses(t) PROVE Good
  <2>1. row' \in [Tasks -> Rows]
    <3>1. [row[t] EXCEPT !.due = "past"] \in Rows
      BY RowExcept DEF TypeOK, Statuses
    <3>2. row' = [row EXCEPT ![t] = [row[t] EXCEPT !.due = "past"]]
      BY <1>3 DEF TypeOK, WindowPasses
    <3> QED
      BY <3>1, <3>2, RowChange
  <2>2. UNCHANGED << onDuty, lock, pc, job, seen, request, batch, pool, log,
                    requests, upserts, faults, moves >>
    BY <1>3 DEF WindowPasses, counters
  <2> QED
    BY <2>1, <2>2 DEF TypeOK, Working
<1>4. ASSUME NEW c \in Clients, NEW t \in Tasks, NEW s \in Staff, ReadForAssign(c, t, s)
      PROVE  Good
  <2>1. seen' \in [Procs -> [Tasks -> Rows]]
    BY <1>4 DEF TypeOK, ReadForAssign, Procs
  <2>2. request' \in [Procs -> Requests]
    BY <1>4 DEF TypeOK, ReadForAssign, Procs, Requests, Actions
  <2>3. /\ pc' \in [Procs -> ClientStages \cup RunStages]
        /\ \A d \in Clients : pc'[d] \in ClientStages
        /\ \A r \in Runs : pc'[r] \in RunStages
    BY <1>4, GotoType DEF ReadForAssign, ClientStages, Procs
  <2>4. job' \in [Procs -> Tasks \cup {NoTask}]
    BY <1>4 DEF TypeOK, ReadForAssign, Procs
  <2>5. Working'
    BY <1>4, GotoWorking DEF ReadForAssign, Procs, TypeOK
  <2> QED
    BY <1>4, <2>1, <2>2, <2>3, <2>4, <2>5 DEF TypeOK, ReadForAssign
<1>5. ASSUME NEW c \in Clients, NEW t \in Tasks, NEW a \in StatusActions,
             ReadForStatus(c, t, a)
      PROVE  Good
  <2>1. seen' \in [Procs -> [Tasks -> Rows]]
    BY <1>5 DEF TypeOK, ReadForStatus, Procs
  <2>2. request' \in [Procs -> Requests]
    BY <1>5 DEF TypeOK, ReadForStatus, Procs, Requests
  <2>3. /\ pc' \in [Procs -> ClientStages \cup RunStages]
        /\ \A d \in Clients : pc'[d] \in ClientStages
        /\ \A r \in Runs : pc'[r] \in RunStages
    BY <1>5, GotoType DEF ReadForStatus, ClientStages, Procs
  <2>4. job' \in [Procs -> Tasks \cup {NoTask}]
    BY <1>5 DEF TypeOK, ReadForStatus, Procs
  <2>5. UNCHANGED << row, onDuty, lock, batch, pool, log, upserts, faults, moves >>
    BY <1>5 DEF ReadForStatus
  <2>6. requests' \in 0 .. MaxRequests
    BY <1>5 DEF ReadForStatus, TypeOK
  <2>7. Working'
    BY <1>5, GotoWorking DEF ReadForStatus, Procs, TypeOK
  <2> QED
    BY <2>1, <2>2, <2>3, <2>4, <2>5, <2>6, <2>7 DEF TypeOK
<1>6. ASSUME NEW c \in Clients, TaskAssign(c) PROVE Good
  <2>1. job[c] \in Tasks /\ request[c].to \in Staff \cup {Nobody}
    BY <1>6 DEF Working, TaskAssign, Procs, TypeOK, Requests
  <2>2. row' \in [Tasks -> Rows] /\ moves' \subseteq Entries
    BY <1>6, <2>1, AssignedType, EntryType, RowChange DEF TypeOK, TaskAssign, Actions, Statuses
  <2>3. /\ pc' \in [Procs -> ClientStages \cup RunStages]
        /\ \A d \in Clients : pc'[d] \in ClientStages
        /\ \A r \in Runs : pc'[r] \in RunStages
    BY <1>6, GotoType DEF TaskAssign, ClientStages, Procs
  <2>4. UNCHANGED << onDuty, lock, job, seen, request, batch, pool, log,
                     requests, upserts, faults >>
    BY <1>6 DEF TaskAssign, counters
  <2>5. Working'
    BY <1>6, <2>1, <2>4, GotoWorking DEF TaskAssign, Procs
  <2> QED
    BY <2>2, <2>3, <2>4, <2>5 DEF TypeOK
<1>7. ASSUME NEW c \in Clients, LogAssign(c) PROVE Good
  <2>1. job[c] \in Tasks
    BY <1>7 DEF Working, LogAssign, Procs
  <2>2. Entry(job[c], seen[c][job[c]], "assign", "assigned") \in Entries
    BY <2>1, EntryType DEF TypeOK, Procs, Actions, Statuses
  <2>3. log' \subseteq Entries /\ faults' \in 0 .. MaxFaults
    BY <1>7, <2>2 DEF LogAssign, Fault, TypeOK
  <2>4. UNCHANGED << row, onDuty, lock, batch, pool, requests, upserts, moves >>
    BY <1>7 DEF LogAssign
  <2> QED
    BY <1>7, <2>3, <2>4, DoneType, DoneWorking DEF TypeOK, LogAssign, Procs
<1>8. ASSUME NEW c \in Clients, TaskStatus(c) PROVE Good
  <2>1. job[c] \in Tasks
    BY <1>8 DEF Working, TaskStatus, Procs
  <2> DEFINE t == job[c]  a == request[c].action
  <2>2. PICK to \in Statuses :
          /\ row' = [row EXCEPT ![t].status = to, ![t].version = @ + 1]
          /\ moves' = moves \cup {Entry(t, row[t], a, to)}
          /\ log' = log \cup {Entry(t, seen[c][t], a, to)}
    BY <1>8 DEF TaskStatus
  <2>3. a \in Actions
    BY DEF TypeOK, Requests, Procs
  <2>4. Entry(t, row[t], a, to) \in Entries /\ Entry(t, seen[c][t], a, to) \in Entries
    BY <2>1, <2>3, EntryType DEF TypeOK, Procs
  <2>5. row' \in [Tasks -> Rows]
    <3>1. row[t].version + 1 \in Nat
      BY <2>1 DEF TypeOK, Rows
    <3>2. [row[t] EXCEPT !.status = to, !.version = row[t].version + 1] \in Rows
      BY <2>1, <3>1, RowExcept DEF TypeOK
    <3>3. row' = [row EXCEPT ![t] = [row[t] EXCEPT !.status = to, !.version = row[t].version + 1]]
      BY <2>1, <2>2 DEF TypeOK
    <3> QED
      BY <2>1, <3>2, <3>3, RowChange
  <2>6. UNCHANGED << onDuty, lock, batch, pool, requests, upserts, faults >>
    BY <1>8 DEF TaskStatus, counters
  <2>7. Done(c) /\ c \in Procs
    BY <1>8 DEF TaskStatus, Procs
  <2> QED
    BY <2>2, <2>4, <2>5, <2>6, <2>7, DoneType, DoneWorking DEF TypeOK
<1>9. ASSUME NEW c \in Clients, RequestRefused(c) PROVE Good
  <2>1. faults' \in 0 .. MaxFaults
    BY <1>9 DEF RequestRefused, Fault, TypeOK
  <2>2. UNCHANGED << row, onDuty, lock, batch, pool, log, requests, upserts, moves >>
    BY <1>9 DEF RequestRefused
  <2> QED
    BY <1>9, <2>1, <2>2, DoneType, DoneWorking DEF TypeOK, RequestRefused, Procs
<1>10. ASSUME NEW r \in Runs, TryLock(r) PROVE Good
  <2>1. /\ pc' \in [Procs -> ClientStages \cup RunStages]
        /\ \A d \in Clients : pc'[d] \in ClientStages
        /\ \A q \in Runs : pc'[q] \in RunStages
    BY <1>10, GotoType DEF TryLock, RunStages, Procs
  <2>2. UNCHANGED << row, onDuty, job, seen, request, batch, pool, log,
                     requests, upserts, faults, moves >>
    BY <1>10 DEF TryLock, counters
  <2>3. Working'
    BY <1>10, <2>2, GotoWorking DEF TryLock, Procs
  <2> QED
    BY <1>10, <2>1, <2>2, <2>3 DEF TypeOK, TryLock
<1>11. ASSUME NEW r \in Runs, List(r) PROVE Good
  <2> DEFINE overdue == { t \in Tasks : Overdue(t) }
  <2>1. ASSUME overdue # {}, seen' = [seen EXCEPT ![r] = row],
               batch' = [batch EXCEPT ![r] = overdue],
               Goto(r, "pool"), UNCHANGED << lock, job, request, pool >>
        PROVE  Good
    <3>1. /\ pc' \in [Procs -> ClientStages \cup RunStages]
          /\ \A d \in Clients : pc'[d] \in ClientStages
          /\ \A q \in Runs : pc'[q] \in RunStages
      BY <2>1, GotoType DEF RunStages, Procs
    <3>2. seen' \in [Procs -> [Tasks -> Rows]] /\ batch' \in [Runs -> SUBSET Tasks]
      BY <2>1 DEF TypeOK
    <3>3. UNCHANGED << row, onDuty, log, requests, upserts, faults, moves >>
      BY <1>11 DEF List, counters
    <3>4. Working'
      BY <2>1, GotoWorking DEF Procs
    <3> QED
      BY <2>1, <3>1, <3>2, <3>3, <3>4 DEF TypeOK
  <2>2. ASSUME Unlock(r), RunDone(r) PROVE Good
    <3>1. /\ lock' \in Runs \cup {NoRun}
          /\ batch' \in [Runs -> SUBSET Tasks] /\ pool' \in [Runs -> SUBSET Staff]
      BY <2>2 DEF Unlock, RunDone, TypeOK
    <3>2. UNCHANGED << row, onDuty, log, requests, upserts, faults, moves >>
      BY <1>11 DEF List, counters
    <3>3. Done(r) /\ r \in Procs
      BY <2>2 DEF RunDone, Procs
    <3> QED
      BY <3>1, <3>2, <3>3, DoneType, DoneWorking DEF TypeOK
  <2> QED
    BY <1>11, <2>1, <2>2 DEF List
<1>12. ASSUME NEW r \in Runs, LoadPool(r) PROVE Good
  <2>1. Candidates \subseteq Staff
    BY DEF Candidates, TypeOK
  <2>2. /\ pc' \in [Procs -> ClientStages \cup RunStages]
        /\ \A d \in Clients : pc'[d] \in ClientStages
        /\ \A q \in Runs : pc'[q] \in RunStages
    BY <1>12, GotoType DEF LoadPool, RunStages, Procs
  <2>3. UNCHANGED << row, onDuty, lock, job, seen, request, batch, log,
                     requests, upserts, faults, moves >>
    BY <1>12 DEF LoadPool, counters
  <2>4. Working'
    BY <1>12, <2>3, GotoWorking DEF LoadPool, Procs
  <2>5. pool' \in [Runs -> SUBSET Staff]
    BY <1>12, <2>1 DEF LoadPool, TypeOK
  <2> QED
    BY <2>2, <2>3, <2>4, <2>5 DEF TypeOK
<1>13. ASSUME NEW r \in Runs, NEW t \in Tasks, Reassign(r, t) PROVE Good
  <2>1. PICK s \in Successors(r, t) :
          row' = [row EXCEPT ![t] = Assigned(t, s, row[t].count + 1)]
    BY <1>13 DEF Reassign
  <2>2. s \in Staff /\ row[t].count + 1 \in Nat
    BY DEF Successors, TypeOK, Rows
  <2>3. row' \in [Tasks -> Rows]
    BY <2>1, <2>2, AssignedType, RowChange
  <2>4. Entry(t, row[t], "assign", "assigned") \in Entries
    BY EntryType DEF TypeOK, Actions, Statuses
  <2>5. /\ moves' \subseteq Entries
        /\ batch' \in [Runs -> SUBSET Tasks]
        /\ job' \in [Procs -> Tasks \cup {NoTask}]
    BY <1>13, <2>4 DEF Reassign, TypeOK
  <2>6. /\ pc' \in [Procs -> ClientStages \cup RunStages]
        /\ \A d \in Clients : pc'[d] \in ClientStages
        /\ \A q \in Runs : pc'[q] \in RunStages
    BY <1>13, GotoType DEF Reassign, RunStages, Procs
  <2>7. UNCHANGED << onDuty, lock, seen, request, pool, log, requests, upserts, faults >>
    BY <1>13 DEF Reassign, counters
  <2>8. Working'
    BY <1>13, GotoWorking DEF Reassign, Procs, TypeOK
  <2> QED
    BY <2>3, <2>5, <2>6, <2>7, <2>8 DEF TypeOK
<1>14. ASSUME NEW r \in Runs, NEW t \in Tasks, Release(r, t) PROVE Good
  <2>1. row' \in [Tasks -> Rows]
    <3>1. Released(t) \in Rows
      BY DEF TypeOK, Rows, Statuses, Released
    <3> QED
      BY <1>14, <3>1, RowChange DEF Release
  <2>2. Entry(t, row[t], "release", "pending") \in Entries
    BY EntryType DEF TypeOK, Actions, Statuses
  <2>3. /\ moves' \subseteq Entries
        /\ batch' \in [Runs -> SUBSET Tasks]
        /\ job' \in [Procs -> Tasks \cup {NoTask}]
    BY <1>14, <2>2 DEF Release, TypeOK
  <2>4. /\ pc' \in [Procs -> ClientStages \cup RunStages]
        /\ \A d \in Clients : pc'[d] \in ClientStages
        /\ \A q \in Runs : pc'[q] \in RunStages
    BY <1>14, GotoType DEF Release, RunStages, Procs
  <2>5. UNCHANGED << onDuty, lock, seen, request, pool, log, requests, upserts, faults >>
    BY <1>14 DEF Release, counters
  <2>6. Working'
    BY <1>14, GotoWorking DEF Release, Procs, TypeOK
  <2> QED
    BY <2>1, <2>3, <2>4, <2>5, <2>6 DEF TypeOK
<1>15. ASSUME NEW r \in Runs, NEW t \in Tasks, SkipTask(r, t) PROVE Good
  <2>1. faults' \in 0 .. MaxFaults /\ batch' \in [Runs -> SUBSET Tasks]
    BY <1>15 DEF SkipTask, Fault, TypeOK
  <2>2. UNCHANGED << row, onDuty, lock, pc, job, seen, request, pool, log,
                     requests, upserts, moves >>
    BY <1>15 DEF SkipTask
  <2> QED
    BY <2>1, <2>2 DEF TypeOK, Working
<1>16. ASSUME NEW r \in Runs, LogScan(r) PROVE Good
  <2>1. job[r] \in Tasks
    BY <1>16 DEF Working, LogScan, Procs
  <2>2. ScanEntry(r, job[r]) \in Entries
    BY <2>1, EntryType DEF ScanEntry, TypeOK, Procs, Actions, Statuses
  <2>3. /\ log' \subseteq Entries /\ faults' \in 0 .. MaxFaults
        /\ job' \in [Procs -> Tasks \cup {NoTask}]
    <3>1. log' \subseteq Entries
      BY <1>16, <2>2 DEF LogScan, TypeOK
    <3>2. faults' \in 0 .. MaxFaults
      BY <1>16 DEF LogScan, Fault, TypeOK
    <3>3. job' \in [Procs -> Tasks \cup {NoTask}]
      BY <1>16 DEF LogScan, TypeOK
    <3> QED
      BY <3>1, <3>2, <3>3
  <2>4. /\ pc' \in [Procs -> ClientStages \cup RunStages]
        /\ \A d \in Clients : pc'[d] \in ClientStages
        /\ \A q \in Runs : pc'[q] \in RunStages
    BY <1>16, GotoType DEF LogScan, RunStages, Procs
  <2>5. UNCHANGED << row, onDuty, lock, seen, request, batch, pool,
                     requests, upserts, moves >>
    BY <1>16 DEF LogScan
  <2>6. Working'
    BY <1>16, GotoWorking DEF LogScan, Procs
  <2> QED
    BY <2>3, <2>4, <2>5, <2>6 DEF TypeOK
<1>17. ASSUME NEW r \in Runs, EndRun(r) PROVE Good
  <2>1. /\ lock' \in Runs \cup {NoRun}
        /\ batch' \in [Runs -> SUBSET Tasks] /\ pool' \in [Runs -> SUBSET Staff]
    BY <1>17 DEF EndRun, Unlock, RunDone, TypeOK
  <2>2. UNCHANGED << row, onDuty, log, requests, upserts, faults, moves >>
    BY <1>17 DEF EndRun, counters
  <2>3. Done(r) /\ r \in Procs
    BY <1>17 DEF EndRun, RunDone, Procs
  <2> QED
    BY <2>1, <2>2, <2>3, DoneType, DoneWorking DEF TypeOK
<1>18. ASSUME NEW r \in Runs, RunFails(r) PROVE Good
  <2>1. /\ lock' \in Runs \cup {NoRun} /\ faults' \in 0 .. MaxFaults
        /\ batch' \in [Runs -> SUBSET Tasks] /\ pool' \in [Runs -> SUBSET Staff]
    BY <1>18 DEF RunFails, Fault, Unlock, RunDone, TypeOK
  <2>2. UNCHANGED << row, onDuty, log, requests, upserts, moves >>
    BY <1>18 DEF RunFails
  <2>3. Done(r) /\ r \in Procs
    BY <1>18 DEF RunFails, RunDone, Procs
  <2> QED
    BY <2>1, <2>2, <2>3, DoneType, DoneWorking DEF TypeOK
<1>19. ASSUME NEW r \in Runs, LockExpires(r) PROVE Good
  <2>1. lock' \in Runs \cup {NoRun} /\ faults' \in 0 .. MaxFaults
    BY <1>19 DEF LockExpires, Fault, TypeOK
  <2>2. UNCHANGED << row, onDuty, pc, job, seen, request, batch, pool, log,
                     requests, upserts, moves >>
    BY <1>19 DEF LockExpires
  <2> QED
    BY <2>1, <2>2 DEF TypeOK, Working
<1>20. CASE UNCHANGED vars
  BY <1>20 DEF vars, TypeOK, Working
<1> QED
  BY <1>1, <1>2, <1>3, <1>4, <1>5, <1>6, <1>7, <1>8, <1>9, <1>10, <1>11, <1>12,
     <1>13, <1>14, <1>15, <1>16, <1>17, <1>18, <1>19, <1>20
     DEF Next, ClientStep, RunStep

LEMMA InitType == ASSUME Init PROVE TypeOK /\ Working
<1>1. NoRow \in Rows /\ NoRequest \in Requests
  BY DEF NoRow, Rows, Statuses, NoRequest, Requests, Actions
<1>2. row \in [Tasks -> Rows] /\ seen \in [Procs -> [Tasks -> Rows]]
  BY <1>1 DEF Init
<1>3. pc \in [Procs -> ClientStages \cup RunStages]
  BY DEF Init, ClientStages, RunStages
<1>4. requests \in 0 .. MaxRequests /\ upserts \in 0 .. MaxUpserts
      /\ faults \in 0 .. MaxFaults
  BY DispatchAssumption DEF Init
<1> QED
  BY <1>1, <1>2, <1>3, <1>4 DEF Init, TypeOK, Working, Procs, ClientStages, RunStages

\* Every variable keeps its type, whatever requests, scans, faults and lost
\* locks do.
THEOREM TypeCorrect == Spec => []TypeOK
<1>1. Init => TypeOK /\ Working
  BY InitType
<1>2. TypeOK /\ Working /\ [Next]_vars => (TypeOK /\ Working)'
  BY TypeStep
<1> QED
  BY <1>1, <1>2, PTL DEF Spec
------------------------------------------------------------------------------
(* What optimistic locking rests on: a row only ever becomes a later one,  *)
(* and a row of the same version is the same but for its accept window,    *)
(* which may have run out.                                                 *)

SameRow(x, y) ==
  /\ x.status = y.status /\ x.assignee = y.assignee /\ x.count = y.count
  /\ x.due = "past" => y.due = "past"

Later(x, y) ==
  \/ x.version < y.version
  \/ x.version = y.version /\ SameRow(x, y)

LEMMA LaterReflexive == ASSUME NEW x PROVE Later(x, x)
BY DEF Later, SameRow

LEMMA LaterTransitive ==
  ASSUME NEW x \in Rows, NEW y \in Rows, NEW z \in Rows, Later(x, y), Later(y, z)
  PROVE  Later(x, z)
BY DEF Later, SameRow, Rows

\* Version 0 is no row, and only that.
RowOK == \A t \in Tasks : /\ row[t].version = 0 => row[t] = NoRow
                          /\ row[t].status = "none" => row[t].version = 0

SeenOK == \A p \in Procs, t \in Tasks : Later(seen[p][t], row[t])

BatchOK == \A r \in Runs : \A t \in batch[r] :
             seen[r][t].status = "assigned" /\ seen[r][t].due = "past"

AskOK ==
  \A c \in Clients :
    /\ pc[c] = "assign" => /\ request[c].to \in Staff
                           /\ seen[c][job[c]].status \in {"pending", "assigned"}
    /\ pc[c] = "status" => /\ request[c].action \in StatusActions
                           /\ seen[c][job[c]].status # "none"

LockInv == TypeOK /\ Working /\ RowOK /\ SeenOK /\ BatchOK /\ AskOK

\* How a step can change the row of a task: not at all, its window runs
\* out, it is created, or its version grows by one.
LEMMA RowSteps ==
  ASSUME LockInv, [Next]_vars, NEW t \in Tasks
  PROVE  \/ row'[t] = row[t]
         \/ row[t].due = "open" /\ row'[t] = [row[t] EXCEPT !.due = "past"]
         \/ /\ row'[t].version = row[t].version + 1
            /\ row'[t].status # "none"
<1> DEFINE Good == \/ row'[t] = row[t]
                   \/ row[t].due = "open" /\ row'[t] = [row[t] EXCEPT !.due = "past"]
                   \/ /\ row'[t].version = row[t].version + 1
                      /\ row'[t].status # "none"
<1>1. ASSUME NEW u \in Tasks, TaskCreate(u) PROVE Good
  <2>1. PICK to \in Statuses : FsmNext("none", "create", to)
                               /\ row' = [row EXCEPT ![u].status = to, ![u].version = 1]
    BY <1>1 DEF TaskCreate
  <2>2. to # "none"
    BY <2>1 DEF FsmNext, Transitions
  <2>3. row[u].version = 0
    BY <1>1 DEF TaskCreate, LockInv, RowOK
  <2>4. row[u] \in Rows
    BY DEF LockInv, TypeOK
  <2> QED
    BY <2>1, <2>2, <2>3, <2>4 DEF LockInv, TypeOK, Rows
<1>2. ASSUME NEW u \in Tasks, WindowPasses(u) PROVE Good
  BY <1>2 DEF WindowPasses, LockInv, TypeOK
<1>3. ASSUME NEW c \in Clients, TaskAssign(c) PROVE Good
  BY <1>3 DEF TaskAssign, LockInv, TypeOK, Assigned
<1>4. ASSUME NEW c \in Clients, TaskStatus(c) PROVE Good
  <2>1. PICK to \in Statuses : FsmNext(seen[c][job[c]].status, request[c].action, to)
           /\ row' = [row EXCEPT ![job[c]].status = to, ![job[c]].version = @ + 1]
    BY <1>4 DEF TaskStatus
  <2>2. to # "none"
    BY <2>1 DEF FsmNext, Transitions
  <2>3. row[t] \in Rows
    BY DEF LockInv, TypeOK
  <2> QED
    BY <2>1, <2>2, <2>3 DEF LockInv, TypeOK, Rows
<1>5. ASSUME NEW r \in Runs, NEW u \in Tasks, Reassign(r, u) PROVE Good
  BY <1>5 DEF Reassign, LockInv, TypeOK, Assigned
<1>6. ASSUME NEW r \in Runs, NEW u \in Tasks, Release(r, u) PROVE Good
  BY <1>6 DEF Release, LockInv, TypeOK, Released
<1>7. ASSUME row' = row PROVE Good
  BY <1>7
<1> QED
  BY <1>1, <1>2, <1>3, <1>4, <1>5, <1>6, <1>7
     DEF Next, ClientStep, RunStep, StaffUpsert, ReadForAssign, ReadForStatus, LogAssign,
         RequestRefused, TryLock, List, LoadPool, SkipTask, LogScan, EndRun, RunFails,
         LockExpires, vars

\* ... and what a process can have read: what it read before, the row as it
\* is, or nothing any more.
LEMMA SeenSteps ==
  ASSUME LockInv, [Next]_vars, NEW p \in Procs, NEW t \in Tasks
  PROVE  seen'[p][t] \in {seen[p][t], row[t], NoRow}
<1> DEFINE Good == seen'[p][t] \in {seen[p][t], row[t], NoRow}
<1>1. ASSUME NEW q \in Procs, Done(q) PROVE Good
  BY <1>1 DEF Done, LockInv, TypeOK
<1>2. ASSUME NEW c \in Clients, NEW u \in Tasks, seen' = [seen EXCEPT ![c][u] = row[u]]
      PROVE Good
  BY <1>2 DEF LockInv, TypeOK, Procs
<1>3. ASSUME NEW r \in Runs, seen' = [seen EXCEPT ![r] = row] PROVE Good
  BY <1>3 DEF LockInv, TypeOK, Procs
<1>4. ASSUME seen' = seen PROVE Good
  BY <1>4
<1> QED
  BY <1>1, <1>2, <1>3, <1>4
     DEF Next, ClientStep, RunStep, TaskCreate, StaffUpsert, WindowPasses, ReadForAssign,
         ReadForStatus, TaskAssign, LogAssign, TaskStatus, RequestRefused, TryLock, List,
         LoadPool, Reassign, Release, SkipTask, LogScan, EndRun, RunFails, LockExpires,
         RunDone, Procs, vars

LEMMA LaterRow ==
  ASSUME LockInv, [Next]_vars, TypeOK', NEW t \in Tasks
  PROVE  Later(row[t], row'[t])
<1>1. row[t] \in Rows /\ row'[t] \in Rows
  BY DEF LockInv, TypeOK
<1>2. CASE row'[t] = row[t]
  BY <1>2, LaterReflexive
<1>3. CASE row[t].due = "open" /\ row'[t] = [row[t] EXCEPT !.due = "past"]
  BY <1>1, <1>3 DEF Later, SameRow, Rows
<1>4. CASE row'[t].version = row[t].version + 1
  <2>1. row[t].version \in Nat
    BY <1>1 DEF Rows
  <2> QED
    BY <1>4, <2>1 DEF Later
<1> QED
  BY <1>2, <1>3, <1>4, RowSteps

LEMMA LockStep ==
  ASSUME LockInv, [Next]_vars
  PROVE  LockInv'
<1> USE DispatchAssumption
<1>1. TypeOK' /\ Working'
  BY TypeStep DEF LockInv
<1>2. RowOK'
  <2> SUFFICES ASSUME NEW t \in Tasks
               PROVE  /\ row'[t].version = 0 => row'[t] = NoRow
                      /\ row'[t].status = "none" => row'[t].version = 0
    BY DEF RowOK
  <2>1. row[t] \in Rows /\ row'[t] \in Rows
    BY <1>1 DEF LockInv, TypeOK
  <2>2. row[t].due = "open" => row[t].version # 0
    BY DEF LockInv, RowOK, NoRow
  <2>3. CASE row'[t] = row[t]
    BY <2>3 DEF LockInv, RowOK
  <2>4. CASE row[t].due = "open" /\ row'[t] = [row[t] EXCEPT !.due = "past"]
    BY <2>1, <2>2, <2>4 DEF LockInv, RowOK, Rows
  <2>5. CASE row'[t].version = row[t].version + 1 /\ row'[t].status # "none"
    <3>1. row[t].version \in Nat
      BY <2>1 DEF Rows
    <3> QED
      BY <2>5, <3>1
  <2> QED
    BY <2>3, <2>4, <2>5, RowSteps
<1>3. SeenOK'
  <2>1. SUFFICES ASSUME NEW p \in Procs, NEW t \in Tasks
                 PROVE  Later(seen'[p][t], row'[t])
    BY DEF SeenOK
  <2>2. row[t] \in Rows /\ row'[t] \in Rows /\ seen[p][t] \in Rows
    BY <1>1 DEF LockInv, TypeOK
  <2>3. Later(row[t], row'[t])
    BY <1>1, LaterRow
  <2>4. Later(seen[p][t], row'[t])
    BY <2>2, <2>3, LaterTransitive DEF LockInv, SeenOK
  <2>5. Later(NoRow, row'[t])
    <3>1. CASE row'[t].version = 0
      BY <1>2, <3>1, LaterReflexive DEF RowOK
    <3>2. CASE row'[t].version # 0
      BY <2>2, <3>2 DEF Later, NoRow, Rows
    <3> QED
      BY <3>1, <3>2
  <2> QED
    BY <2>3, <2>4, <2>5, SeenSteps
<1>4. BatchOK'
  <2>1. SUFFICES ASSUME NEW r \in Runs, NEW t \in batch'[r]
                 PROVE  seen'[r][t].status = "assigned" /\ seen'[r][t].due = "past"
    BY DEF BatchOK
  <2> DEFINE Good == seen'[r][t].status = "assigned" /\ seen'[r][t].due = "past"
  <2>2. ASSUME batch'[r] \subseteq batch[r], seen'[r] = seen[r] PROVE Good
    BY <2>1, <2>2 DEF LockInv, BatchOK
  <2>3. ASSUME NEW q \in Runs, RunDone(q) PROVE Good
    <3>1. q # r
      BY <2>1, <2>3 DEF RunDone, LockInv, TypeOK
    <3>2. batch'[r] = batch[r] /\ seen'[r] = seen[r]
      BY <2>3, <3>1 DEF RunDone, Done, LockInv, TypeOK, Procs
    <3> QED
      BY <2>2, <3>2
  <2>4. ASSUME NEW q \in Runs, seen' = [seen EXCEPT ![q] = row],
               batch' = [batch EXCEPT ![q] = { u \in Tasks : Overdue(u) }]
        PROVE Good
    <3>1. CASE q = r
      BY <2>1, <2>4, <3>1 DEF Overdue, LockInv, TypeOK, Procs
    <3>2. CASE q # r
      BY <2>2, <2>4, <3>2 DEF LockInv, TypeOK, Procs
    <3> QED
      BY <3>1, <3>2
  <2>5. ASSUME NEW q \in Runs, NEW u \in Tasks,
               batch' = [batch EXCEPT ![q] = @ \ {u}], seen' = seen
        PROVE Good
    BY <2>2, <2>5 DEF LockInv, TypeOK
  <2>6. ASSUME NEW c \in Clients, Done(c), batch' = batch PROVE Good
    BY <2>2, <2>6 DEF Done, LockInv, TypeOK, Procs
  <2>7. ASSUME NEW c \in Clients, NEW u \in Tasks, seen' = [seen EXCEPT ![c][u] = row[u]],
               batch' = batch
        PROVE Good
    BY <2>2, <2>7 DEF LockInv, TypeOK, Procs
  <2>8. ASSUME batch' = batch, seen' = seen PROVE Good
    BY <2>2, <2>8
  <2> QED
    BY <2>3, <2>4, <2>5, <2>6, <2>7, <2>8
       DEF Next, ClientStep, RunStep, TaskCreate, StaffUpsert, WindowPasses, ReadForAssign,
           ReadForStatus, TaskAssign, LogAssign, TaskStatus, RequestRefused, TryLock, List,
           LoadPool, Reassign, Release, SkipTask, LogScan, EndRun, RunFails, LockExpires, vars
<1>5. AskOK'
  <2>1. SUFFICES ASSUME NEW c \in Clients
                 PROVE  /\ pc'[c] = "assign" =>
                             /\ request'[c].to \in Staff
                             /\ seen'[c][job'[c]].status \in {"pending", "assigned"}
                        /\ pc'[c] = "status" =>
                             /\ request'[c].action \in StatusActions
                             /\ seen'[c][job'[c]].status # "none"
    BY DEF AskOK
  <2> DEFINE Good == /\ pc'[c] = "assign" =>
                             /\ request'[c].to \in Staff
                             /\ seen'[c][job'[c]].status \in {"pending", "assigned"}
                     /\ pc'[c] = "status" =>
                             /\ request'[c].action \in StatusActions
                             /\ seen'[c][job'[c]].status # "none"
  <2>2. ASSUME pc'[c] \notin {"assign", "status"} PROVE Good
    BY <2>2
  <2>3. ASSUME pc'[c] = pc[c], request'[c] = request[c], seen'[c] = seen[c], job'[c] = job[c]
        PROVE Good
    BY <2>3 DEF LockInv, AskOK
  <2>4. ASSUME NEW d \in Clients, NEW t \in Tasks, NEW s \in Staff, ReadForAssign(d, t, s)
        PROVE Good
    <3>1. CASE d = c
      BY <2>4, <3>1 DEF ReadForAssign, Goto, LockInv, TypeOK, Procs, FsmNext, Transitions
    <3>2. CASE d # c
      BY <2>3, <2>4, <3>2 DEF ReadForAssign, Goto, LockInv, TypeOK, Procs
    <3> QED
      BY <3>1, <3>2
  <2>5. ASSUME NEW d \in Clients, NEW t \in Tasks, NEW a \in StatusActions,
               ReadForStatus(d, t, a)
        PROVE Good
    <3>1. CASE d = c
      BY <2>5, <3>1 DEF ReadForStatus, Goto, LockInv, TypeOK, Procs
    <3>2. CASE d # c
      BY <2>3, <2>5, <3>2 DEF ReadForStatus, Goto, LockInv, TypeOK, Procs
    <3> QED
      BY <3>1, <3>2
  <2>6. ASSUME NEW p \in Procs, Done(p) PROVE Good
    <3>1. CASE p = c
      BY <2>2, <2>6, <3>1 DEF Done, Goto, LockInv, TypeOK
    <3>2. CASE p # c
      BY <2>3, <2>6, <3>2 DEF Done, Goto, LockInv, TypeOK, Procs
    <3> QED
      BY <3>1, <3>2
  <2>7. ASSUME NEW d \in Clients, TaskAssign(d) PROVE Good
    <3>1. CASE d = c
      BY <2>2, <2>7, <3>1 DEF TaskAssign, Goto, LockInv, TypeOK, Procs
    <3>2. CASE d # c
      BY <2>3, <2>7, <3>2 DEF TaskAssign, Goto, LockInv, TypeOK, Procs
    <3> QED
      BY <3>1, <3>2
  <2>8. ASSUME NEW r \in Runs, RunStep(r) \/ RunFails(r) \/ LockExpires(r) PROVE Good
    <3>1. pc'[c] = pc[c] /\ request'[c] = request[c] /\ seen'[c] = seen[c] /\ job'[c] = job[c]
      BY <2>8 DEF RunStep, RunFails, LockExpires, TryLock, List, LoadPool, Reassign, Release,
                  SkipTask, LogScan, EndRun, RunDone, Done, Goto, LockInv, TypeOK, Procs
    <3> QED
      BY <2>3, <3>1
  <2> QED
    BY <2>3, <2>4, <2>5, <2>6, <2>7, <2>8
       DEF Next, ClientStep, TaskCreate, StaffUpsert, WindowPasses, LogAssign, TaskStatus,
           RequestRefused, Procs, vars
<1> QED
  BY <1>1, <1>2, <1>3, <1>4, <1>5 DEF LockInv

LEMMA LockInit == ASSUME Init PROVE LockInv
<1>1. TypeOK /\ Working
  BY InitType
<1>2. RowOK /\ SeenOK
  BY DEF Init, RowOK, SeenOK, Later, SameRow, NoRow
<1>3. BatchOK /\ AskOK
  BY DEF Init, BatchOK, AskOK, Procs
<1> QED
  BY <1>1, <1>2, <1>3 DEF LockInv

\* What the version in the WHERE clause is for: the row that is written is
\* the row that was read, but that its window may have run out meanwhile.
LEMMA UnmodifiedSame ==
  ASSUME LockInv, NEW p \in Procs, NEW t \in Tasks, Unmodified(p, t)
  PROVE  SameRow(seen[p][t], row[t])
<1>1. seen[p][t] \in Rows /\ row[t] \in Rows
  BY DEF LockInv, TypeOK
<1> QED
  BY <1>1 DEF Unmodified, LockInv, SeenOK, Later, Rows

------------------------------------------------------------------------------
(* Refinement.  The hypothesis is what dispatch.api:88 says the action of  *)
(* a TaskStatus request is; the run dispatch_any_action shows that the     *)
(* promise fails without it.                                               *)

Callers == StatusActions \subseteq {"start", "finish", "close"}

LEMMA OwnedStep ==
  ASSUME Callers, LockInv, AssignedIsOwned, [Next]_vars
  PROVE  AssignedIsOwned'
<1> USE DispatchAssumption
<1> DEFINE Owned(x) ==
      /\ x.status \in {"assigned", "processing"} => x.assignee # Nobody
      /\ x.status = "assigned" => x.due # "null"
      /\ x.status = "pending" => x.assignee = Nobody /\ x.due = "null"
<1>0. SUFFICES ASSUME NEW t \in Tasks PROVE Owned(row'[t])
  BY DEF AssignedIsOwned
<1>1. row[t] \in Rows /\ Owned(row[t])
  BY DEF LockInv, TypeOK, AssignedIsOwned
<1> DEFINE Good == Owned(row'[t])
<1>2. ASSUME NEW u \in Tasks, TaskCreate(u) PROVE Good
  <2>1. PICK to \in Statuses : FsmNext("none", "create", to)
                               /\ row' = [row EXCEPT ![u].status = to, ![u].version = 1]
    BY <1>2 DEF TaskCreate
  <2>2. to = "pending"
    BY <2>1 DEF FsmNext, Transitions
  <2>3. row[u] = NoRow
    BY <1>2 DEF TaskCreate, LockInv, RowOK
  <2>4. CASE u = t
    <3>1. row'[t] = [row[t] EXCEPT !.status = "pending", !.version = 1]
      BY <2>1, <2>2, <2>4 DEF LockInv, TypeOK
    <3> QED
      BY <2>3, <2>4, <3>1 DEF NoRow
  <2>5. CASE u # t
    BY <1>1, <2>1, <2>5 DEF LockInv, TypeOK
  <2> QED
    BY <2>4, <2>5
<1>3. ASSUME NEW u \in Tasks, WindowPasses(u) PROVE Good
  <2>1. \/ row'[t] = row[t]
        \/ row[t].due = "open" /\ row'[t] = [row[t] EXCEPT !.due = "past"]
    BY <1>3 DEF WindowPasses, LockInv, TypeOK
  <2> QED
    BY <1>1, <2>1 DEF Rows
<1>4. ASSUME NEW c \in Clients, TaskAssign(c) PROVE Good
  <2>1. request[c].to \in Staff
    BY <1>4 DEF TaskAssign, LockInv, AskOK
  <2>2. row'[t] = row[t] \/ row'[t] = Assigned(t, request[c].to, 0)
    BY <1>4 DEF TaskAssign, LockInv, TypeOK
  <2> QED
    BY <1>1, <2>1, <2>2 DEF Assigned
<1>5. ASSUME NEW c \in Clients, TaskStatus(c) PROVE Good
  <2>1. PICK to \in Statuses : FsmNext(seen[c][job[c]].status, request[c].action, to)
           /\ row' = [row EXCEPT ![job[c]].status = to, ![job[c]].version = @ + 1]
    BY <1>5 DEF TaskStatus
  <2>2. job[c] \in Tasks /\ request[c].action \in {"start", "finish", "close"}
    BY <1>5 DEF TaskStatus, LockInv, AskOK, Working, Procs, Callers
  <2>3. CASE job[c] = t
    <3>1. seen[c][t].status = row[t].status
      BY <1>5, <2>3, UnmodifiedSame DEF TaskStatus, SameRow, Procs
    <3>2. << row[t].status, to >> \in { << "assigned", "processing" >>,
             << "processing", "completed" >> } \/ to = "closed"
      BY <2>1, <2>2, <2>3, <3>1 DEF FsmNext, Transitions
    <3>3. row'[t] = [row[t] EXCEPT !.status = to, !.version = row[t].version + 1]
      BY <2>1, <2>2, <2>3 DEF LockInv, TypeOK
    <3>4. row'[t].status = to /\ row'[t].assignee = row[t].assignee
      BY <1>1, <3>3 DEF Rows
    <3> QED
      BY <1>1, <3>2, <3>4
  <2>4. CASE job[c] # t
    BY <1>1, <2>1, <2>4 DEF LockInv, TypeOK
  <2> QED
    BY <2>3, <2>4
<1>6. ASSUME NEW r \in Runs, NEW u \in Tasks, Reassign(r, u) PROVE Good
  <2>1. PICK s \in Successors(r, u) :
          row' = [row EXCEPT ![u] = Assigned(u, s, row[u].count + 1)]
    BY <1>6 DEF Reassign
  <2>2. s \in Staff
    BY DEF Successors, LockInv, TypeOK
  <2>3. row'[t] = row[t] \/ row'[t] = Assigned(u, s, row[u].count + 1)
    BY <2>1 DEF LockInv, TypeOK
  <2> QED
    BY <1>1, <2>2, <2>3 DEF Assigned
<1>7. ASSUME NEW r \in Runs, NEW u \in Tasks, Release(r, u) PROVE Good
  <2>1. row'[t] = row[t] \/ row'[t] = Released(u)
    BY <1>7 DEF Release, LockInv, TypeOK
  <2> QED
    BY <1>1, <2>1 DEF Released
<1>8. ASSUME row' = row PROVE Good
  BY <1>1, <1>8
<1> QED
  BY <1>2, <1>3, <1>4, <1>5, <1>6, <1>7, <1>8
     DEF Next, ClientStep, RunStep, StaffUpsert, ReadForAssign, ReadForStatus, LogAssign,
         RequestRefused, TryLock, List, LoadPool, SkipTask, LogScan, EndRun, RunFails,
         LockExpires, vars

\* A task in flight has somebody in charge and a deadline the scan will find,
\* as long as TaskStatus is only sent the documented actions.
THEOREM OwnedCorrect ==
  ASSUME Callers
  PROVE  Spec => []AssignedIsOwned
<1>1. Init => LockInv /\ AssignedIsOwned
  BY LockInit DEF Init, AssignedIsOwned, NoRow
<1>2. LockInv /\ AssignedIsOwned /\ [Next]_vars => (LockInv /\ AssignedIsOwned)'
  BY LockStep, OwnedStep
<1> QED
  BY <1>1, <1>2, PTL DEF Spec

\* A step that leaves the rows alone is none of TaskLifecycle.
LEMMA SameRowsSameLife ==
  ASSUME row' = row
  PROVE  UNCHANGED Lifecycle!life
BY DEF Lifecycle!life, StatusOfTask, OwnerOfTask, LeaseOfTask, PassedOfTask

\* When one row changes, so does its life, and nobody else's.
LEMMA OneLife ==
  ASSUME LockInv, NEW t \in Tasks, NEW x, row' = [row EXCEPT ![t] = x]
  PROVE  /\ StatusOfTask' = [StatusOfTask EXCEPT ![t] = x.status]
         /\ OwnerOfTask' = [OwnerOfTask EXCEPT ![t] = x.assignee]
         /\ PassedOfTask' = [PassedOfTask EXCEPT ![t] = x.count]
         /\ LeaseOfTask' = [LeaseOfTask EXCEPT ![t] = LeaseOf(x)]
<1>1. row \in [Tasks -> Rows]
  BY DEF LockInv, TypeOK
<1>2. \A u \in Tasks : row'[u] = IF u = t THEN x ELSE row[u]
  BY <1>1
<1>3. StatusOfTask' = [StatusOfTask EXCEPT ![t] = x.status]
  <2>1. \A u \in Tasks : row'[u].status = IF u = t THEN x.status ELSE row[u].status
    BY <1>2
  <2>2. StatusOfTask' = [u \in Tasks |-> IF u = t THEN x.status ELSE row[u].status]
    BY <2>1, Zenon DEF StatusOfTask
  <2>3. [StatusOfTask EXCEPT ![t] = x.status] = [u \in Tasks |-> IF u = t THEN x.status ELSE row[u].status]
    BY DEF StatusOfTask
  <2> QED
    BY <2>2, <2>3
<1>4. OwnerOfTask' = [OwnerOfTask EXCEPT ![t] = x.assignee]
  <2>1. \A u \in Tasks : row'[u].assignee = IF u = t THEN x.assignee ELSE row[u].assignee
    BY <1>2
  <2>2. OwnerOfTask' = [u \in Tasks |-> IF u = t THEN x.assignee ELSE row[u].assignee]
    BY <2>1, Zenon DEF OwnerOfTask
  <2>3. [OwnerOfTask EXCEPT ![t] = x.assignee] = [u \in Tasks |-> IF u = t THEN x.assignee ELSE row[u].assignee]
    BY DEF OwnerOfTask
  <2> QED
    BY <2>2, <2>3
<1>5. PassedOfTask' = [PassedOfTask EXCEPT ![t] = x.count]
  <2>1. \A u \in Tasks : row'[u].count = IF u = t THEN x.count ELSE row[u].count
    BY <1>2
  <2>2. PassedOfTask' = [u \in Tasks |-> IF u = t THEN x.count ELSE row[u].count]
    BY <2>1, Zenon DEF PassedOfTask
  <2>3. [PassedOfTask EXCEPT ![t] = x.count] = [u \in Tasks |-> IF u = t THEN x.count ELSE row[u].count]
    BY DEF PassedOfTask
  <2> QED
    BY <2>2, <2>3
<1>6. LeaseOfTask' = [LeaseOfTask EXCEPT ![t] = LeaseOf(x)]
  <2>1. \A u \in Tasks : LeaseOf(row'[u]) = IF u = t THEN LeaseOf(x) ELSE LeaseOf(row[u])
    BY <1>2
  <2>2. LeaseOfTask' = [u \in Tasks |-> IF u = t THEN LeaseOf(x) ELSE LeaseOf(row[u])]
    BY <2>1, Zenon DEF LeaseOfTask
  <2>3. [LeaseOfTask EXCEPT ![t] = LeaseOf(x)] = [u \in Tasks |-> IF u = t THEN LeaseOf(x) ELSE LeaseOf(row[u])]
    BY DEF LeaseOfTask
  <2> QED
    BY <2>2, <2>3
<1> QED
  BY <1>3, <1>4, <1>5, <1>6

\* A life reads as its row, and writing back what is there changes nothing.
LEMMA LifeReads ==
  ASSUME NEW t \in Tasks
  PROVE  /\ StatusOfTask[t] = row[t].status /\ OwnerOfTask[t] = row[t].assignee
         /\ PassedOfTask[t] = row[t].count /\ LeaseOfTask[t] = LeaseOf(row[t])
         /\ [StatusOfTask EXCEPT ![t] = row[t].status] = StatusOfTask
         /\ [OwnerOfTask EXCEPT ![t] = row[t].assignee] = OwnerOfTask
         /\ [PassedOfTask EXCEPT ![t] = row[t].count] = PassedOfTask
         /\ [LeaseOfTask EXCEPT ![t] = LeaseOf(row[t])] = LeaseOfTask
BY DEF StatusOfTask, OwnerOfTask, PassedOfTask, LeaseOfTask

LEMMA LifeStep ==
  ASSUME Callers, LockInv, AssignedIsOwned, [Next]_vars
  PROVE  [Lifecycle!Next]_(Lifecycle!life)
<1> USE DispatchAssumption
<1> DEFINE Good == [Lifecycle!Next]_(Lifecycle!life)
<1>1. ASSUME NEW t \in Tasks, TaskCreate(t) PROVE Good
  <2>1. PICK to \in Statuses : FsmNext("none", "create", to)
                               /\ row' = [row EXCEPT ![t].status = to, ![t].version = 1]
    BY <1>1 DEF TaskCreate
  <2>2. to = "pending" /\ row[t].status = "none" /\ row[t] = NoRow
    BY <1>1, <2>1 DEF FsmNext, Transitions, TaskCreate, LockInv, RowOK
  <2>3. PICK x : x = [row[t] EXCEPT !.status = to, !.version = 1] /\ row' = [row EXCEPT ![t] = x]
    BY <2>1 DEF LockInv, TypeOK
  <2>4. /\ x.status = "pending" /\ x.assignee = row[t].assignee /\ x.count = row[t].count
        /\ LeaseOf(x) = LeaseOf(row[t])
    BY <2>2, <2>3 DEF NoRow, LeaseOf
  <2>5. /\ StatusOfTask' = [StatusOfTask EXCEPT ![t] = "pending"] /\ OwnerOfTask' = OwnerOfTask
        /\ PassedOfTask' = PassedOfTask /\ LeaseOfTask' = LeaseOfTask
    <3>1. /\ StatusOfTask' = [StatusOfTask EXCEPT ![t] = x.status]
          /\ OwnerOfTask' = [OwnerOfTask EXCEPT ![t] = x.assignee]
          /\ PassedOfTask' = [PassedOfTask EXCEPT ![t] = x.count]
          /\ LeaseOfTask' = [LeaseOfTask EXCEPT ![t] = LeaseOf(x)]
      BY <2>3, <2>4, OneLife
    <3> QED
      BY <2>3, <2>4, <3>1, LifeReads
  <2>6. Lifecycle!Create(t)
    BY <2>2, <2>5, LifeReads DEF Lifecycle!Create
  <2> QED
    BY <2>6 DEF Lifecycle!Next
<1>2. ASSUME NEW t \in Tasks, WindowPasses(t) PROVE Good
  <2>1. PICK x : /\ x = [row[t] EXCEPT !.due = "past"]
                 /\ row' = [row EXCEPT ![t] = x] /\ row[t].due = "open"
    BY <1>2 DEF WindowPasses, LockInv, TypeOK
  <2>2. /\ x.status = row[t].status /\ x.assignee = row[t].assignee
        /\ x.count = row[t].count /\ x.due = "past"
    BY <2>1 DEF LockInv, TypeOK, Rows
  <2>3. StatusOfTask' = StatusOfTask /\ OwnerOfTask' = OwnerOfTask
        /\ PassedOfTask' = PassedOfTask /\ LeaseOfTask' = [LeaseOfTask EXCEPT ![t] = LeaseOf(x)]
    <3>1. /\ StatusOfTask' = [StatusOfTask EXCEPT ![t] = x.status]
          /\ OwnerOfTask' = [OwnerOfTask EXCEPT ![t] = x.assignee]
          /\ PassedOfTask' = [PassedOfTask EXCEPT ![t] = x.count]
          /\ LeaseOfTask' = [LeaseOfTask EXCEPT ![t] = LeaseOf(x)]
      BY <2>1, <2>2, OneLife
    <3> QED
      BY <2>1, <2>2, <3>1, LifeReads
  <2>4. CASE row[t].status = "assigned"
    <3>1. LeaseOf(row[t]) = "running" /\ LeaseOf(x) = "over"
      BY <2>1, <2>2, <2>4 DEF LeaseOf
    <3>2. Lifecycle!LeaseOver(t)
      BY <2>3, <3>1, LifeReads DEF Lifecycle!LeaseOver
    <3> QED
      BY <3>2 DEF Lifecycle!Next
  <2>5. CASE row[t].status # "assigned"
    <3>1. LeaseOf(row[t]) = LeaseOf(x)
      BY <2>2, <2>5 DEF LeaseOf
    <3>2. LeaseOfTask' = LeaseOfTask
      BY <2>3, <3>1, LifeReads
    <3> QED
      BY <2>3, <3>2 DEF Lifecycle!life
  <2> QED
    BY <2>4, <2>5
<1>3. ASSUME NEW c \in Clients, TaskAssign(c) PROVE Good
  <2>1. PICK t : t = job[c]
    OBVIOUS
  <2>2. PICK s : s = request[c].to
    OBVIOUS
  <2>3. t \in Tasks /\ s \in Staff
    BY <1>3, <2>1, <2>2 DEF TaskAssign, LockInv, Working, AskOK, Procs
  <2>4. row[t].status \in {"pending", "assigned"}
    BY <1>3, <2>1, <2>3, UnmodifiedSame DEF TaskAssign, LockInv, AskOK, SameRow, Procs
  <2>5. PICK x : x = Assigned(t, s, 0) /\ row' = [row EXCEPT ![t] = x]
    BY <1>3, <2>1, <2>2 DEF TaskAssign
  <2>6. x.status = "assigned" /\ x.assignee = s /\ x.count = 0 /\ LeaseOf(x) = "running"
    BY <2>5 DEF Assigned, LeaseOf
  <2>7. /\ StatusOfTask' = [StatusOfTask EXCEPT ![t] = "assigned"]
        /\ OwnerOfTask' = [OwnerOfTask EXCEPT ![t] = s]
        /\ PassedOfTask' = [PassedOfTask EXCEPT ![t] = 0]
        /\ LeaseOfTask' = [LeaseOfTask EXCEPT ![t] = "running"]
    <3>1. /\ StatusOfTask' = [StatusOfTask EXCEPT ![t] = x.status]
          /\ OwnerOfTask' = [OwnerOfTask EXCEPT ![t] = x.assignee]
          /\ PassedOfTask' = [PassedOfTask EXCEPT ![t] = x.count]
          /\ LeaseOfTask' = [LeaseOfTask EXCEPT ![t] = LeaseOf(x)]
      BY <2>3, <2>5, <2>6, OneLife
    <3> QED
      BY <2>3, <2>5, <2>6, <3>1
  <2>8. Lifecycle!Assign(t, s)
    BY <2>3, <2>4, <2>7, LifeReads DEF Lifecycle!Assign
  <2> QED
    BY <2>3, <2>8 DEF Lifecycle!Next
<1>4. ASSUME NEW c \in Clients, TaskStatus(c) PROVE Good
  <2>1. PICK t : t = job[c]
    OBVIOUS
  <2>2. PICK to \in Statuses : FsmNext(seen[c][t].status, request[c].action, to)
           /\ row' = [row EXCEPT ![t].status = to, ![t].version = @ + 1]
    BY <1>4, <2>1 DEF TaskStatus
  <2>3. t \in Tasks /\ request[c].action \in {"start", "finish", "close"}
    BY <1>4, <2>1 DEF TaskStatus, LockInv, AskOK, Working, Procs, Callers
  <2>4. seen[c][t].status = row[t].status
    BY <1>4, <2>1, <2>3, UnmodifiedSame DEF TaskStatus, SameRow, Procs
  <2>5. PICK x : /\ x = [row[t] EXCEPT !.status = to, !.version = row[t].version + 1]
                 /\ row' = [row EXCEPT ![t] = x]
    BY <2>2, <2>3 DEF LockInv, TypeOK
  <2>6. \/ row[t].status = "assigned" /\ to = "processing"
        \/ row[t].status = "processing" /\ to = "completed"
        \/ /\ row[t].status \in {"pending", "assigned", "processing", "completed"}
           /\ to = "closed"
    BY <2>2, <2>3, <2>4 DEF FsmNext, Transitions
  <2>7. /\ x.status = to /\ x.assignee = row[t].assignee /\ x.count = row[t].count
        /\ LeaseOf(x) = "none"
    BY <2>3, <2>5, <2>6 DEF LockInv, TypeOK, Rows, LeaseOf
  <2>8. /\ StatusOfTask' = [StatusOfTask EXCEPT ![t] = to] /\ OwnerOfTask' = OwnerOfTask
        /\ PassedOfTask' = PassedOfTask /\ LeaseOfTask' = [LeaseOfTask EXCEPT ![t] = "none"]
    <3>1. /\ StatusOfTask' = [StatusOfTask EXCEPT ![t] = x.status]
          /\ OwnerOfTask' = [OwnerOfTask EXCEPT ![t] = x.assignee]
          /\ PassedOfTask' = [PassedOfTask EXCEPT ![t] = x.count]
          /\ LeaseOfTask' = [LeaseOfTask EXCEPT ![t] = LeaseOf(x)]
      BY <2>3, <2>5, <2>7, OneLife
    <3> QED
      BY <2>3, <2>5, <2>7, <3>1, LifeReads
  <2>9. Lifecycle!Work(t)
    BY <2>3, <2>6, <2>8, LifeReads DEF Lifecycle!Work
  <2> QED
    BY <2>3, <2>9 DEF Lifecycle!Next
<1>5. ASSUME NEW r \in Runs, NEW t \in Tasks, Reassign(r, t) PROVE Good
  <2>1. PICK s \in Successors(r, t) :
          row' = [row EXCEPT ![t] = Assigned(t, s, row[t].count + 1)]
    BY <1>5 DEF Reassign
  <2>2. SameRow(seen[r][t], row[t]) /\ seen[r][t].due = "past"
    BY <1>5, UnmodifiedSame DEF Reassign, StillAssigned, LockInv, BatchOK, Procs
  <2>3. s \in Staff /\ s # row[t].assignee /\ ~(row[t].count >= MaxReassign)
    BY <2>2 DEF Successors, SameRow, LockInv, TypeOK
  <2>4. row[t].status = "assigned" /\ row[t].due = "past"
    BY <1>5, <2>2 DEF Reassign, StillAssigned, SameRow
  <2>5. LeaseOf(row[t]) = "over" /\ row[t].count < MaxReassign
    <3>1. row[t].count \in Nat
      BY DEF LockInv, TypeOK, Rows
    <3> QED
      BY <2>3, <2>4, <3>1 DEF LeaseOf
  <2>6. PICK x : x = Assigned(t, s, row[t].count + 1) /\ row' = [row EXCEPT ![t] = x]
    BY <2>1
  <2>7. /\ x.status = row[t].status /\ x.assignee = s /\ x.count = row[t].count + 1
        /\ LeaseOf(x) = "running"
    BY <2>4, <2>6 DEF Assigned, LeaseOf
  <2>8. /\ StatusOfTask' = StatusOfTask /\ OwnerOfTask' = [OwnerOfTask EXCEPT ![t] = s]
        /\ PassedOfTask' = [PassedOfTask EXCEPT ![t] = row[t].count + 1]
        /\ LeaseOfTask' = [LeaseOfTask EXCEPT ![t] = "running"]
    <3>1. /\ StatusOfTask' = [StatusOfTask EXCEPT ![t] = x.status]
          /\ OwnerOfTask' = [OwnerOfTask EXCEPT ![t] = x.assignee]
          /\ PassedOfTask' = [PassedOfTask EXCEPT ![t] = x.count]
          /\ LeaseOfTask' = [LeaseOfTask EXCEPT ![t] = LeaseOf(x)]
      BY <2>6, <2>7, OneLife
    <3> QED
      BY <2>6, <2>7, <3>1, LifeReads
  <2>9. Lifecycle!PassOn(t, s)
    BY <2>3, <2>4, <2>5, <2>8, LifeReads DEF Lifecycle!PassOn
  <2> QED
    BY <2>3, <2>9 DEF Lifecycle!Next
<1>6. ASSUME NEW r \in Runs, NEW t \in Tasks, Release(r, t) PROVE Good
  <2>1. SameRow(seen[r][t], row[t]) /\ seen[r][t].due = "past"
    BY <1>6, UnmodifiedSame DEF Release, StillAssigned, LockInv, BatchOK, Procs
  <2>2. row[t].status = "assigned" /\ row[t].due = "past"
    BY <1>6, <2>1 DEF Release, StillAssigned, SameRow
  <2>3. LeaseOf(row[t]) = "over"
    BY <2>2 DEF LeaseOf
  <2>4. PICK x : x = Released(t) /\ row' = [row EXCEPT ![t] = x]
    BY <1>6 DEF Release
  <2>5. /\ x.status = "pending" /\ x.assignee = Nobody /\ x.count = row[t].count
        /\ LeaseOf(x) = "none"
    BY <2>4 DEF Released, LeaseOf
  <2>6. /\ StatusOfTask' = [StatusOfTask EXCEPT ![t] = "pending"]
        /\ OwnerOfTask' = [OwnerOfTask EXCEPT ![t] = Nobody]
        /\ PassedOfTask' = PassedOfTask /\ LeaseOfTask' = [LeaseOfTask EXCEPT ![t] = "none"]
    <3>1. /\ StatusOfTask' = [StatusOfTask EXCEPT ![t] = x.status]
          /\ OwnerOfTask' = [OwnerOfTask EXCEPT ![t] = x.assignee]
          /\ PassedOfTask' = [PassedOfTask EXCEPT ![t] = x.count]
          /\ LeaseOfTask' = [LeaseOfTask EXCEPT ![t] = LeaseOf(x)]
      BY <2>4, <2>5, OneLife
    <3> QED
      BY <2>4, <2>5, <3>1, LifeReads
  <2>7. Lifecycle!Release(t)
    BY <2>2, <2>3, <2>6, LifeReads DEF Lifecycle!Release
  <2> QED
    BY <2>7 DEF Lifecycle!Next
<1>7. ASSUME row' = row PROVE Good
  BY <1>7, SameRowsSameLife
<1> QED
  BY <1>1, <1>2, <1>3, <1>4, <1>5, <1>6, <1>7
     DEF Next, ClientStep, RunStep, StaffUpsert, ReadForAssign, ReadForStatus, LogAssign,
         RequestRefused, TryLock, List, LoadPool, SkipTask, LogScan, EndRun, RunFails,
         LockExpires, vars

\* Optimistic locking under a lock that may be lost implements the atomic
\* life cycle: no accepted work is taken away, nobody is skipped while his
\* window is open, and no task is passed on more than MaxReassign times.
THEOREM ImplementsLifecycle ==
  ASSUME Callers
  PROVE  Spec => ImplementsTaskLifecycle
<1>1. Init => LockInv /\ AssignedIsOwned
  BY LockInit DEF Init, AssignedIsOwned, NoRow
<1>2. LockInv /\ AssignedIsOwned /\ [Next]_vars => (LockInv /\ AssignedIsOwned)'
  BY LockStep, OwnedStep
<1>3. Init => Lifecycle!Init
  BY DEF Init, Lifecycle!Init, NoRow, LeaseOf, StatusOfTask, OwnerOfTask, LeaseOfTask,
         PassedOfTask
<1>4. LockInv /\ AssignedIsOwned /\ [Next]_vars => [Lifecycle!Next]_(Lifecycle!life)
  BY LifeStep
<1> QED
  BY <1>1, <1>2, <1>3, <1>4, PTL DEF Spec, ImplementsTaskLifecycle, Lifecycle!Spec
------------------------------------------------------------------------------
(* The audit.  A process that has still to write its audit row knows the   *)
(* transition it made, and the transitions of a task start from versions   *)
(* that are all behind its row.                                            *)

PendingAudit ==
  /\ \A c \in Clients : pc[c] = "log" =>
       Entry(job[c], seen[c][job[c]], "assign", "assigned") \in moves
  /\ \A r \in Runs : pc[r] = "log" => ScanEntry(r, job[r]) \in moves

MovesBehind == \A m \in moves : m.at < row[m.task].version

AuditInv == LockInv /\ PendingAudit /\ MovesBehind /\ AuditTruthful

\* Two rows of one version make the same audit entry.
LEMMA SameEntry ==
  ASSUME NEW t, NEW x, NEW y, NEW a, NEW to,
         x.version = y.version, x.status = y.status
  PROVE  Entry(t, x, a, to) = Entry(t, y, a, to)
BY DEF Entry

\* A transition of task t from its present version, put down in moves, keeps
\* the transitions apart.
LEMMA OneMoreMove ==
  ASSUME AuditInv, TypeOK', NEW t \in Tasks, NEW x \in Rows, NEW a \in Actions, NEW to \in Statuses,
         row' = [row EXCEPT ![t] = x], row[t].version < x.version,
         moves' = moves \cup {Entry(t, row[t], a, to)}
  PROVE  /\ MovesBehind'
         /\ \A m, n \in moves' : m.task = n.task /\ m.at = n.at => m = n
<1>1. row \in [Tasks -> Rows] /\ moves \subseteq Entries
  BY DEF AuditInv, LockInv, TypeOK
<1> DEFINE e == Entry(t, row[t], a, to)
<1>2. e.task = t /\ e.at = row[t].version
  BY DEF Entry
<1>3. \A m \in moves : m.task \in Tasks /\ m.at < row[m.task].version /\ m.at \in Nat
  BY <1>1 DEF AuditInv, MovesBehind, Entries
<1>4. MovesBehind'
  <2> SUFFICES ASSUME NEW m \in moves' PROVE m.at < row'[m.task].version
    BY DEF MovesBehind
  <2>1. CASE m = e
    BY <1>1, <1>2, <2>1
  <2>2. CASE m \in moves /\ m.task = t
    <3>1. m.at \in Nat /\ row[t].version \in Nat /\ x.version \in Nat /\ row'[m.task] = x
      BY <1>1, <1>3, <2>2 DEF Rows
    <3> QED
      BY <1>3, <2>2, <3>1
  <2>3. CASE m \in moves /\ m.task # t
    BY <1>1, <1>3, <2>3
  <2> QED
    BY <2>1, <2>2, <2>3
<1>5. \A m \in moves : m.task = t => m.at # e.at
  <2>1. row[t].version \in Nat
    BY <1>1 DEF Rows
  <2> QED
    BY <1>2, <1>3, <2>1
<1>6. \A m, n \in moves : m.task = n.task /\ m.at = n.at => m = n
  BY DEF AuditInv, AuditTruthful
<1> QED
  BY <1>2, <1>4, <1>5, <1>6

\* A step of one process leaves the audit rows the others have still to write.
LEMMA OthersPending ==
  ASSUME PendingAudit, moves \subseteq moves', NEW p \in Procs,
         \A q \in Procs \ {p} : pc'[q] = pc[q] /\ job'[q] = job[q] /\ seen'[q] = seen[q],
         \A r \in Runs \ {p} : pool'[r] = pool[r],
         pc'[p] = "log" =>
           \/ /\ p \in Clients
              /\ Entry(job'[p], seen'[p][job'[p]], "assign", "assigned") \in moves'
           \/ p \in Runs /\ ScanEntry(p, job[p])' \in moves'
  PROVE  PendingAudit'
<1> USE DispatchAssumption
<1>1. ASSUME NEW c \in Clients, pc'[c] = "log"
      PROVE  Entry(job'[c], seen'[c][job'[c]], "assign", "assigned") \in moves'
  <2>1. CASE c = p
    BY <1>1, <2>1
  <2>2. CASE c # p
    <3>1. pc[c] = "log" /\ job'[c] = job[c] /\ seen'[c] = seen[c]
      BY <1>1, <2>2 DEF Procs
    <3>2. Entry(job[c], seen[c][job[c]], "assign", "assigned") \in moves
      BY <3>1 DEF PendingAudit
    <3> QED
      BY <3>1, <3>2
  <2> QED
    BY <2>1, <2>2
<1>2. ASSUME NEW r \in Runs, pc'[r] = "log"
      PROVE  ScanEntry(r, job[r])' \in moves'
  <2>1. CASE r = p
    BY <1>2, <2>1
  <2>2. CASE r # p
    <3>1. pc[r] = "log" /\ job'[r] = job[r] /\ seen'[r] = seen[r] /\ pool'[r] = pool[r]
      BY <1>2, <2>2 DEF Procs
    <3>2. ScanEntry(r, job[r]) \in moves
      BY <3>1 DEF PendingAudit
    <3>3. ScanEntry(r, job[r])' = ScanEntry(r, job[r])
      BY <3>1 DEF ScanEntry, Successors
    <3> QED
      BY <3>2, <3>3
  <2> QED
    BY <2>1, <2>2
<1> QED
  BY <1>1, <1>2 DEF PendingAudit

\* A process that is done has no audit row to write.
LEMMA DonePending ==
  ASSUME TypeOK, PendingAudit, moves \subseteq moves', NEW p \in Procs, Done(p),
         \A r \in Runs \ {p} : pool'[r] = pool[r]
  PROVE  PendingAudit'
<1>1. \A q \in Procs \ {p} : pc'[q] = pc[q] /\ job'[q] = job[q] /\ seen'[q] = seen[q]
  BY DEF Done, Goto, TypeOK
<1>2. pc'[p] = "idle"
  BY DEF Done, Goto, TypeOK
<1> QED
  BY <1>1, <1>2, OthersPending

LEMMA AuditStep ==
  ASSUME AuditInv, [Next]_vars
  PROVE  AuditInv'
<1> USE DispatchAssumption
<1>1. LockInv'
  BY LockStep DEF AuditInv
<1>2. /\ TypeOK' /\ LockInv /\ TypeOK /\ PendingAudit
      /\ row \in [Tasks -> Rows] /\ row' \in [Tasks -> Rows]
  BY <1>1 DEF AuditInv, LockInv, TypeOK
<1> DEFINE Apart == \A m, n \in moves' : m.task = n.task /\ m.at = n.at => m = n
           Kept  == { m \in moves' : m.action \in {"start", "finish", "close"} } \subseteq log'
           Good  == MovesBehind' /\ PendingAudit' /\ log' \subseteq moves' /\ Apart /\ Kept
<1>3. /\ log \subseteq moves
      /\ { m \in moves : m.action \in {"start", "finish", "close"} } \subseteq log
  BY DEF AuditInv, AuditTruthful
\* Steps that put down no transition.
<1>4. ASSUME moves' = moves, log \subseteq log', log' \subseteq moves, PendingAudit',
             \A t \in Tasks : row'[t].version = row[t].version
      PROVE  Good
  <2>1. MovesBehind'
    BY <1>2, <1>4 DEF AuditInv, MovesBehind, TypeOK, Entries
  <2> QED
    BY <1>3, <1>4, <2>1 DEF AuditInv, AuditTruthful
\* ... and those that do: what the row becomes has a greater version.
<1>5. ASSUME NEW t \in Tasks, NEW x \in Rows, NEW a \in Actions, NEW to \in Statuses,
             row' = [row EXCEPT ![t] = x], row[t].version < x.version,
             moves' = moves \cup {Entry(t, row[t], a, to)}, PendingAudit',
             \/ log' = log /\ a \notin {"start", "finish", "close"}
             \/ log' = log \cup {Entry(t, row[t], a, to)}
      PROVE  Good
  <2>1. MovesBehind' /\ Apart
    BY <1>2, <1>5, OneMoreMove
  <2>2. Entry(t, row[t], a, to).action = a
    BY DEF Entry
  <2>3. log' \subseteq moves' /\ Kept
    BY <1>3, <1>5, <2>2
  <2> QED
    BY <1>5, <2>1, <2>3
<1>6. ASSUME NEW t \in Tasks, TaskCreate(t) PROVE Good
  <2>1. PICK to \in Statuses :
          /\ row[t].status = "none"
          /\ row' = [row EXCEPT ![t].status = to, ![t].version = 1]
          /\ moves' = moves \cup {Entry(t, row[t], "create", to)}
          /\ log' \in {log, log \cup {Entry(t, row[t], "create", to)}}
          /\ FsmNext("none", "create", to)
    BY <1>6 DEF TaskCreate
  <2>2. PICK x : /\ x = [row[t] EXCEPT !.status = to, !.version = 1]
                 /\ row' = [row EXCEPT ![t] = x]
    BY <1>2, <2>1
  <2>3. row[t].version = 0
    BY <1>2, <2>1 DEF LockInv, RowOK
  <2>4. x \in Rows /\ x.version = 1
    BY <1>2, <2>2 DEF Rows
  <2>5. row[t].version < x.version
    BY <2>3, <2>4
  <2>6. PendingAudit'
    <3>1. UNCHANGED << pc, job, seen, pool >> /\ moves \subseteq moves'
      BY <1>6, <2>1 DEF TaskCreate
    <3> QED
      BY <1>2, <3>1 DEF PendingAudit, ScanEntry, Successors
  <2> QED
    BY <1>5, <2>1, <2>2, <2>4, <2>5, <2>6 DEF Actions
<1>7. ASSUME NEW c \in Clients, TaskAssign(c) PROVE Good
  <2>1. PICK t : t = job[c]
    OBVIOUS
  <2>2. /\ pc[c] = "assign" /\ Unmodified(c, t)
        /\ row' = [row EXCEPT ![t] = Assigned(t, request[c].to, 0)]
        /\ moves' = moves \cup {Entry(t, row[t], "assign", "assigned")}
        /\ pc' = [pc EXCEPT ![c] = "log"]
        /\ UNCHANGED << job, seen, pool, log >>
    BY <1>7, <2>1 DEF TaskAssign, Goto
  <2>3. t \in Tasks /\ c \in Procs /\ request[c].to \in Staff \cup {Nobody}
    BY <1>2, <2>1, <2>2 DEF LockInv, Working, TypeOK, Procs, Requests
  <2>4. PICK x : x = Assigned(t, request[c].to, 0) /\ row' = [row EXCEPT ![t] = x]
    BY <2>2
  <2>5. x \in Rows /\ row[t].version < x.version
    <3>1. x \in Rows
      BY <1>2, <2>3, <2>4, AssignedType
    <3>2. row[t].version \in Nat /\ x.version = row[t].version + 1
      BY <1>2, <2>3, <2>4 DEF Rows, Assigned
    <3> QED
      BY <3>1, <3>2
  <2>6. Entry(t, seen[c][t], "assign", "assigned") = Entry(t, row[t], "assign", "assigned")
    <3>1. seen[c][t].version = row[t].version /\ seen[c][t].status = row[t].status
      BY <1>2, <2>2, <2>3, UnmodifiedSame DEF Unmodified, SameRow
    <3> QED
      BY <3>1, SameEntry
  <2>7. PendingAudit'
    <3>1. \A q \in Procs \ {c} : pc'[q] = pc[q] /\ job'[q] = job[q] /\ seen'[q] = seen[q]
      BY <1>2, <2>2 DEF TypeOK
    <3>2. Entry(job'[c], seen'[c][job'[c]], "assign", "assigned") \in moves'
      BY <2>1, <2>2, <2>6
    <3> QED
      BY <1>2, <2>2, <2>3, <3>1, <3>2, OthersPending
  <2> QED
    BY <1>5, <2>2, <2>3, <2>4, <2>5, <2>7 DEF Actions, Statuses
<1>8. ASSUME NEW c \in Clients, LogAssign(c) PROVE Good
  <2>1. c \in Procs /\ Done(c) /\ UNCHANGED << row, pool, moves >>
    BY <1>8 DEF LogAssign, Procs
  <2>2. PendingAudit'
    BY <1>2, <2>1, DonePending
  <2>3. Entry(job[c], seen[c][job[c]], "assign", "assigned") \in moves
    BY <1>2, <1>8 DEF LogAssign, PendingAudit
  <2>4. log \subseteq log' /\ log' \subseteq moves
    BY <1>3, <1>8, <2>3 DEF LogAssign
  <2> QED
    BY <1>4, <2>1, <2>2, <2>4
<1>9. ASSUME NEW c \in Clients, TaskStatus(c) PROVE Good
  <2>1. PICK t : t = job[c]
    OBVIOUS
  <2>2. PICK a : a = request[c].action
    OBVIOUS
  <2>3. /\ pc[c] = "status" /\ Unmodified(c, t) /\ Done(c) /\ UNCHANGED pool
    BY <1>9, <2>1 DEF TaskStatus
  <2>4. PICK to \in Statuses :
          /\ row' = [row EXCEPT ![t].status = to, ![t].version = @ + 1]
          /\ moves' = moves \cup {Entry(t, row[t], a, to)}
          /\ log' = log \cup {Entry(t, seen[c][t], a, to)}
    BY <1>9, <2>1, <2>2 DEF TaskStatus
  <2>5. t \in Tasks /\ c \in Procs /\ a \in Actions
    BY <1>2, <2>1, <2>2, <2>3 DEF LockInv, Working, TypeOK, Procs, Requests
  <2>6. PICK x : /\ x = [row[t] EXCEPT !.status = to, !.version = row[t].version + 1]
                 /\ row' = [row EXCEPT ![t] = x]
    BY <1>2, <2>4, <2>5
  <2>7. x \in Rows /\ row[t].version < x.version
    BY <1>2, <2>5, <2>6 DEF Rows
  <2>8. Entry(t, seen[c][t], a, to) = Entry(t, row[t], a, to)
    <3>1. seen[c][t].version = row[t].version /\ seen[c][t].status = row[t].status
      BY <1>2, <2>3, <2>5, UnmodifiedSame DEF Unmodified, SameRow
    <3> QED
      BY <3>1, SameEntry
  <2>9. PendingAudit'
    BY <1>2, <2>3, <2>4, <2>5, DonePending
  <2> QED
    BY <1>5, <2>4, <2>5, <2>6, <2>7, <2>8, <2>9
<1>10. ASSUME NEW c \in Clients, RequestRefused(c) PROVE Good
  <2>1. c \in Procs /\ Done(c) /\ UNCHANGED << row, pool, log, moves >>
    BY <1>10 DEF RequestRefused, Procs
  <2>2. PendingAudit'
    BY <1>2, <2>1, DonePending
  <2> QED
    BY <1>3, <1>4, <2>1, <2>2
\* The scan's two UPDATEs: the audit row to come is the transition made.
<1>11. ASSUME NEW r \in Runs, NEW t \in Tasks, StillAssigned(r, t), pc'[r] = "log",
              pc' = [pc EXCEPT ![r] = "log"], job' = [job EXCEPT ![r] = t],
              NEW a \in Actions, NEW to \in Statuses,
              moves' = moves \cup {Entry(t, row[t], a, to)}, UNCHANGED << seen, pool >>,
              ScanEntry(r, t) = Entry(t, seen[r][t], a, to)
       PROVE  PendingAudit'
  <2>1. r \in Procs
    BY DEF Procs
  <2>2. \A q \in Procs \ {r} : pc'[q] = pc[q] /\ job'[q] = job[q] /\ seen'[q] = seen[q]
    BY <1>2, <1>11 DEF TypeOK
  <2>3. Entry(t, seen[r][t], a, to) = Entry(t, row[t], a, to)
    <3>1. seen[r][t].version = row[t].version /\ seen[r][t].status = row[t].status
      BY <1>2, <1>11, <2>1, UnmodifiedSame DEF StillAssigned, Unmodified, SameRow
    <3> QED
      BY <3>1, SameEntry
  <2>4. ScanEntry(r, job[r])' = ScanEntry(r, t)
    <3>1. job'[r] = t
      BY <1>2, <1>11, <2>1 DEF TypeOK
    <3> QED
      BY <1>11, <3>1 DEF ScanEntry, Successors
  <2>5. ScanEntry(r, job[r])' \in moves'
    BY <1>11, <2>3, <2>4
  <2> QED
    BY <1>2, <1>11, <2>1, <2>2, <2>5, OthersPending
<1>12. ASSUME NEW r \in Runs, NEW t \in Tasks, Reassign(r, t) PROVE Good
  <2>1. PICK s \in Successors(r, t) :
          row' = [row EXCEPT ![t] = Assigned(t, s, row[t].count + 1)]
    BY <1>12 DEF Reassign
  <2>2. /\ moves' = moves \cup {Entry(t, row[t], "assign", "assigned")} /\ log' = log
        /\ StillAssigned(r, t) /\ pc' = [pc EXCEPT ![r] = "log"]
        /\ job' = [job EXCEPT ![r] = t] /\ UNCHANGED << seen, pool >>
    BY <1>12 DEF Reassign, Goto
  <2>3. ScanEntry(r, t) = Entry(t, seen[r][t], "assign", "assigned")
    BY <2>1 DEF ScanEntry
  <2>4. pc'[r] = "log" /\ s \in Staff
    BY <1>2, <2>1, <2>2 DEF TypeOK, Procs, Successors
  <2>5. PICK x : x = Assigned(t, s, row[t].count + 1) /\ row' = [row EXCEPT ![t] = x]
    BY <2>1
  <2>6. x \in Rows /\ row[t].version < x.version
    <3>1. row[t].count \in Nat /\ row[t].version \in Nat
      BY <1>2 DEF Rows
    <3>2. x.version = row[t].version + 1
      BY <2>5 DEF Assigned
    <3>3. row[t].count + 1 \in Nat
      BY <3>1
    <3>4. x \in Rows
      BY <1>2, <2>4, <2>5, <3>3, AssignedType
    <3> QED
      BY <3>1, <3>2, <3>4
  <2>7. PendingAudit'
    BY <1>11, <2>2, <2>3, <2>4 DEF Actions, Statuses
  <2> QED
    BY <1>5, <2>2, <2>5, <2>6, <2>7 DEF Actions, Statuses
<1>13. ASSUME NEW r \in Runs, NEW t \in Tasks, Release(r, t) PROVE Good
  <2>1. /\ moves' = moves \cup {Entry(t, row[t], "release", "pending")} /\ log' = log
        /\ StillAssigned(r, t) /\ pc' = [pc EXCEPT ![r] = "log"]
        /\ job' = [job EXCEPT ![r] = t] /\ UNCHANGED << seen, pool >>
        /\ Successors(r, t) = {}
    BY <1>13 DEF Release, Goto
  <2>2. ScanEntry(r, t) = Entry(t, seen[r][t], "release", "pending")
    BY <2>1 DEF ScanEntry
  <2>3. pc'[r] = "log"
    BY <1>2, <2>1 DEF TypeOK, Procs
  <2>4. PICK x : x = Released(t) /\ row' = [row EXCEPT ![t] = x]
    BY <1>13 DEF Release
  <2>5. x \in Rows /\ row[t].version < x.version
    BY <1>2, <2>4 DEF Released, Rows, Statuses
  <2>6. PendingAudit'
    BY <1>11, <2>1, <2>2, <2>3 DEF Actions, Statuses
  <2> QED
    BY <1>5, <2>1, <2>4, <2>5, <2>6 DEF Actions, Statuses
<1>14. ASSUME NEW r \in Runs, LogScan(r) PROVE Good
  <2>1. /\ pc' = [pc EXCEPT ![r] = "scan"] /\ job' = [job EXCEPT ![r] = NoTask]
        /\ UNCHANGED << row, seen, pool, moves >> /\ pc[r] = "log" /\ r \in Procs
    BY <1>14 DEF LogScan, Goto, Procs
  <2>2. \A q \in Procs \ {r} : pc'[q] = pc[q] /\ job'[q] = job[q] /\ seen'[q] = seen[q]
    BY <1>2, <2>1 DEF TypeOK
  <2>3. PendingAudit'
    <3>1. pc'[r] # "log"
      BY <1>2, <2>1 DEF TypeOK
    <3> QED
      BY <1>2, <2>1, <2>2, <3>1, OthersPending
  <2>4. ScanEntry(r, job[r]) \in moves
    BY <1>2, <2>1 DEF PendingAudit
  <2>5. log \subseteq log' /\ log' \subseteq moves
    BY <1>3, <1>14, <2>4 DEF LogScan
  <2> QED
    BY <1>4, <2>1, <2>3, <2>5
\* The other steps of a process on its way to a write.
<1>15. ASSUME NEW p \in Procs, pc'[p] # "log", UNCHANGED << row, log, moves >>,
              \A q \in Procs \ {p} : pc'[q] = pc[q] /\ job'[q] = job[q] /\ seen'[q] = seen[q],
              \A r \in Runs \ {p} : pool'[r] = pool[r]
       PROVE  Good
  <2>1. PendingAudit'
    BY <1>2, <1>15, OthersPending
  <2> QED
    BY <1>3, <1>4, <1>15, <2>1
<1>16. ASSUME NEW c \in Clients, NEW t \in Tasks, NEW s \in Staff, ReadForAssign(c, t, s) PROVE Good
  <2>1. /\ c \in Procs /\ pc'[c] # "log" /\ UNCHANGED << row, log, moves, pool >>
        /\ \A q \in Procs \ {c} : pc'[q] = pc[q] /\ job'[q] = job[q] /\ seen'[q] = seen[q]
    BY <1>2, <1>16 DEF ReadForAssign, Goto, TypeOK, Procs
  <2> QED
    BY <1>15, <2>1
<1>17. ASSUME NEW c \in Clients, NEW t \in Tasks, NEW a \in StatusActions, ReadForStatus(c, t, a)
       PROVE  Good
  <2>1. /\ c \in Procs /\ pc'[c] # "log" /\ UNCHANGED << row, log, moves, pool >>
        /\ \A q \in Procs \ {c} : pc'[q] = pc[q] /\ job'[q] = job[q] /\ seen'[q] = seen[q]
    BY <1>2, <1>17 DEF ReadForStatus, Goto, TypeOK, Procs
  <2> QED
    BY <1>15, <2>1
<1>18. ASSUME NEW r \in Runs, TryLock(r) \/ List(r) \/ LoadPool(r) \/ EndRun(r) \/ RunFails(r)
       PROVE  Good
  <2>1. r \in Procs /\ UNCHANGED << row, log, moves >>
    BY <1>18 DEF TryLock, List, LoadPool, EndRun, RunFails, Procs
  <2>2. /\ pc'[r] # "log"
        /\ \A q \in Procs \ {r} : pc'[q] = pc[q] /\ job'[q] = job[q] /\ seen'[q] = seen[q]
        /\ \A q \in Runs \ {r} : pool'[q] = pool[q]
    <3>1. CASE TryLock(r)
      BY <1>2, <2>1, <3>1 DEF TryLock, Goto, TypeOK
    <3>2. CASE List(r)
      BY <1>2, <2>1, <3>2 DEF List, RunDone, Done, Goto, TypeOK
    <3>3. CASE LoadPool(r)
      BY <1>2, <2>1, <3>3 DEF LoadPool, Goto, TypeOK
    <3>4. CASE EndRun(r)
      BY <1>2, <2>1, <3>4 DEF EndRun, RunDone, Done, Goto, TypeOK
    <3>5. CASE RunFails(r)
      BY <1>2, <2>1, <3>5 DEF RunFails, RunDone, Done, Goto, TypeOK
    <3> QED
      BY <1>18, <3>1, <3>2, <3>3, <3>4, <3>5
  <2> QED
    BY <1>15, <2>1, <2>2
\* ... and those of no process.
<1>19. ASSUME UNCHANGED << pc, job, seen, pool, log, moves >>,
              \A t \in Tasks : row'[t].version = row[t].version
       PROVE  Good
  <2>1. PendingAudit'
    BY <1>2, <1>19 DEF PendingAudit, ScanEntry, Successors
  <2> QED
    BY <1>3, <1>4, <1>19, <2>1
<1>20. ASSUME NEW t \in Tasks, WindowPasses(t) PROVE Good
  <2>1. UNCHANGED << pc, job, seen, pool, log, moves >> /\ row' = [row EXCEPT ![t].due = "past"]
    BY <1>20 DEF WindowPasses
  <2>2. \A u \in Tasks : row'[u].version = row[u].version
    BY <1>2, <2>1 DEF Rows
  <2> QED
    BY <1>19, <2>1, <2>2
<1>21. ASSUME NEW r \in Runs, NEW t \in Tasks, SkipTask(r, t) PROVE Good
  BY <1>19, <1>21 DEF SkipTask
<1>22. ASSUME \/ \E s \in Staff : StaffUpsert(s)
              \/ \E r \in Runs : LockExpires(r)
              \/ UNCHANGED vars
       PROVE  Good
  BY <1>19, <1>22 DEF StaffUpsert, LockExpires, vars
<1>23. Good
  BY <1>6, <1>7, <1>8, <1>9, <1>10, <1>12, <1>13, <1>14, <1>16, <1>17, <1>18, <1>20, <1>21, <1>22
     DEF Next, ClientStep, RunStep
<1> QED
  BY <1>1, <1>23 DEF AuditInv, AuditTruthful

\* Each audit row names a transition its task really made, no two transitions
\* of a task start from one version, and those of TaskStatus all have theirs.
THEOREM AuditCorrect == Spec => []AuditTruthful
<1>1. Init => AuditInv
  <2>1. ASSUME Init PROVE PendingAudit /\ MovesBehind /\ AuditTruthful
    BY <2>1 DEF Init, PendingAudit, MovesBehind, AuditTruthful, Procs
  <2> QED
    BY <2>1, LockInit DEF AuditInv
<1>2. AuditInv /\ [Next]_vars => AuditInv'
  BY AuditStep
<1>3. AuditInv => AuditTruthful
  BY DEF AuditInv
<1> QED
  BY <1>1, <1>2, <1>3, PTL DEF Spec
==============================================================================
