---------------------------- MODULE WorkOrderProofs ----------------------------
(***************************************************************************)
(* Theorems about WorkOrder, for any orders, requests, scans and faults:   *)
(* types, that the flow rows tell the life of each order, with one         *)
(* escalation at most, and that a key has one order; about Notice, that an *)
(* announcement is made once and as stored; about NoticeInbox, that a      *)
(* badge counts what is unread; about IdGen, that identifiers are unique;  *)
(* about Agent, for any zones, meters and readings, late ones among them,  *)
(* any inspections, reviews, faults and thresholds above the average, that *)
(* every suggestion has a cause, and its review stays.                     *)
(*                                                                         *)
(* And about the run MCWorkOrder, which composes them with a worker of     *)
(* AlarmIngest: types, and that bad messages end in the ledger, which      *)
(* AlarmIngestProofs proves for any number of workers.                     *)
(***************************************************************************)
EXTENDS MCWorkOrder, FoldLemmas, FiniteSetTheorems, SequenceTheorems, TLAPS

\* The rows f of an order link up and lead to the status s.
Linked(f, s) ==
  /\ s = IF f = << >> THEN "none" ELSE f[Len(f)].to
  /\ \A i \in DOMAIN f : f[i].from = IF i = 1 THEN "none" ELSE f[i - 1].to

\* A row that does not exist has version 0 and is not urgent.
RowTold(o) ==
  /\ Linked(flow[o], row[o].status)
  /\ row[o].finished <=> row[o].status \in {"completed", "closed"}
  /\ row[o].version = 0 <=> row[o].status = "none"
  /\ row[o].status = "none" => ~row[o].urgent

\* A copy that a process read is of an earlier version, or says what the row says.
SeenWas(p, o) ==
  /\ seen[p][o].version <= row[o].version
  /\ seen[p][o].version = row[o].version => seen[p][o].status = row[o].status

EscalatedAtMostOnce(o) == escalations[o] <= 1 /\ (escalations[o] = 1 => row[o].urgent)

\* Between the escalation of an order and its audit row nobody else escalates it.
Escalating(r) ==
  pc[r] = "flow" =>
    /\ job[r] \in Orders
    /\ row[job[r]].urgent
    /\ escalations[job[r]] = 0
    /\ \A s \in Scans : pc[s] = "flow" /\ job[s] = job[r] => s = r

\* A request whose answer is cached, or that writes, has its order.
JobsAre == \A c \in Clients : pc[c] \in {"write", "cache"} => job[c] \in Orders

IInv ==
  /\ TypeOK
  /\ \A o \in Orders : RowTold(o) /\ EscalatedAtMostOnce(o)
  /\ \A p \in Procs, o \in Orders : SeenWas(p, o)
  /\ JobsAre
  /\ \A r \in Scans : Escalating(r)

------------------------------------------------------------------------------
LEMMA RowsAre == NoRow \in Rows /\ \A u \in BOOLEAN, a \in Alarms \cup {NoAlarm} : NewRow(u, a) \in Rows
BY DEF Rows, NoRow, NewRow, Statuses

LEMMA AsksAre == NoAsk \in Asks
BY DEF Asks, NoAsk

\* What the table of transitions says.
LEMMA TransitionFacts ==
  ASSUME NEW from, NEW action, NEW to, NextStatus(from, action, to)
  PROVE  /\ from \in Statuses \ {"none"} /\ to \in Statuses \ {"none"}
         /\ from \in {"completed", "closed"} => to \in {"completed", "closed"}
BY DEF NextStatus, Transitions, Statuses

LEMMA LinkedFirst == Linked(<< Flow("none", "pending") >>, "pending")
BY DEF Linked, Flow

LEMMA LinkedAppend ==
  ASSUME NEW f \in Seq(Flows), NEW s \in Statuses, Linked(f, s), NEW t \in Statuses
  PROVE  /\ Append(f, Flow(s, t)) \in Seq(Flows)
         /\ Linked(Append(f, Flow(s, t)), t)
<1>1. Flow(s, t) \in Flows
  BY DEF Flow, Flows
<1> DEFINE g == Append(f, Flow(s, t))
<1>2. /\ g \in Seq(Flows) /\ Len(g) = Len(f) + 1 /\ g[Len(g)] = Flow(s, t)
      /\ \A i \in 1..Len(f) : g[i] = f[i]
      /\ DOMAIN g = 1..Len(f) + 1 /\ DOMAIN f = 1..Len(f) /\ Len(f) \in Nat
      /\ g # << >>
  BY <1>1
<1>3. t = IF g = << >> THEN "none" ELSE g[Len(g)].to
  BY <1>2 DEF Flow
<1>4. ASSUME NEW i \in DOMAIN g PROVE g[i].from = IF i = 1 THEN "none" ELSE g[i - 1].to
  <2>1. CASE i \in 1..Len(f)
    BY <2>1, <1>2 DEF Linked
  <2>2. CASE i = Len(f) + 1 /\ f = << >>
    BY <2>2, <1>2 DEF Linked, Flow
  <2>3. CASE i = Len(f) + 1 /\ f # << >>
    <3>1. Len(f) >= 1
      BY <2>3, <1>2
    <3>2. g[i].from = s /\ g[i - 1] = f[Len(f)] /\ i # 1
      BY <2>3, <3>1, <1>2 DEF Flow
    <3>3. s = f[Len(f)].to
      BY <2>3 DEF Linked
    <3> QED
      BY <3>2, <3>3
  <2> QED
    BY <2>1, <2>2, <2>3, <1>2
<1> QED
  BY <1>2, <1>3, <1>4 DEF Linked

LEMMA InitHolds == Init => IInv
<1> SUFFICES ASSUME Init PROVE IInv
  OBVIOUS
<1>1. TypeOK
  <2>1. seen \in [Procs -> [Orders -> Rows]] /\ row \in [Orders -> Rows] /\ ask \in [Procs -> Asks]
    BY RowsAre, AsksAre DEF Init
  <2>2. pc \in [Procs -> ClientStages \cup ScanStages]
    BY DEF Init, ClientStages, ScanStages
  <2>3. flow \in [Orders -> Seq(Flows)]
    <3>1. << >> \in Seq(Flows)
      OBVIOUS
    <3> QED
      BY <3>1 DEF Init
  <2>4. doubling \in BOOLEAN /\ idem \in [Keys -> {"none", "lock"} \cup Orders]
    BY DEF Init
  <2>5. faults \in 0 .. MaxFaults /\ requests \in 0 .. MaxRequests
    BY WorkOrderAssumption DEF Init, WorkOrderAssumption
  <2> QED
    BY <2>1, <2>2, <2>3, <2>4, <2>5 DEF Init, TypeOK
<1>2. ASSUME NEW o \in Orders PROVE RowTold(o) /\ EscalatedAtMostOnce(o)
  BY DEF Init, RowTold, EscalatedAtMostOnce, Linked, NoRow
<1>3. ASSUME NEW p \in Procs, NEW o \in Orders PROVE SeenWas(p, o)
  BY <1>2 DEF Init, SeenWas, NoRow
<1>4. \A c \in Procs : pc[c] = "idle"
  BY DEF Init
<1> QED
  BY <1>1, <1>2, <1>3, <1>4 DEF IInv, Escalating, Procs, JobsAre

------------------------------------------------------------------------------
(***************************************************************************)
(* Types.  The parts several actions share come first.                     *)
(***************************************************************************)
LEMMA FaultFacts ==
  ASSUME TypeOK, NEW kind, Fault(kind)
  PROVE  faults' \in 0 .. MaxFaults /\ doubling' \in BOOLEAN
<1>1. faults' \in 0 .. MaxFaults
  BY WorkOrderAssumption DEF WorkOrderAssumption, TypeOK, Fault
<1>2. doubling' \in BOOLEAN
  BY Zenon DEF Fault
<1> QED
  BY <1>1, <1>2

ProcessTypes ==
  /\ pc \in [Procs -> ClientStages \cup ScanStages]
  /\ job \in [Procs -> Orders \cup {NoOrder}]
  /\ seen \in [Procs -> [Orders -> Rows]]
  /\ ask \in [Procs -> Asks]

LEMMA DoneFacts ==
  ASSUME TypeOK, NEW p \in Procs, Done(p)
  PROVE  ProcessTypes'
BY RowsAre, AsksAre DEF TypeOK, Done, Goto, ProcessTypes, ClientStages, ScanStages

LEMMA RequestFacts ==
  ASSUME TypeOK, NEW c \in Clients, NEW o \in Orders \cup {NoOrder},
         NEW action \in Actions \cup {"create"}, NEW to \in Staff \cup {Nobody},
         NEW key \in Keys \cup {NoKey}, Request(c, o, action, to, key)
  PROVE  /\ requests' \in 0 .. MaxRequests
         /\ job' \in [Procs -> Orders \cup {NoOrder}]
         /\ ask' \in [Procs -> Asks]
BY WorkOrderAssumption DEF WorkOrderAssumption, TypeOK, Request, Asks, Procs

LEMMA NewOrderFacts ==
  ASSUME TypeOK, NEW o \in Orders, NEW urgent \in BOOLEAN, NEW alarm \in Alarms \cup {NoAlarm},
         NewOrder(o, urgent, alarm)
  PROVE  row' \in [Orders -> Rows] /\ flow' \in [Orders -> Seq(Flows)]
<1>1. NewRow(urgent, alarm) \in Rows
  BY RowsAre
<1>2. Flow("none", "pending") \in Flows
  BY DEF Flow, Flows, Statuses
<1> QED
  BY <1>1, <1>2 DEF TypeOK, NewOrder

LEMMA TypeHolds == TypeOK /\ JobsAre /\ [Next]_vars => TypeOK'
<1> SUFFICES ASSUME TypeOK, JobsAre, [Next]_vars PROVE TypeOK'
  OBVIOUS
<1> USE DEF failures, audit
<1>1. ASSUME NEW c \in Clients, NEW k \in Keys, AskCreate(c, k) PROVE TypeOK'
  <2>1. "create" \in Actions \cup {"create"} /\ Nobody \in Staff \cup {Nobody}
        /\ NoOrder \in Orders \cup {NoOrder} /\ k \in Keys \cup {NoKey}
    OBVIOUS
  <2>2. /\ requests' \in 0 .. MaxRequests
        /\ job' \in [Procs -> Orders \cup {NoOrder}]
        /\ ask' \in [Procs -> Asks]
    BY <1>1, <2>1, RequestFacts DEF AskCreate
  <2> QED
    BY <1>1, <2>2 DEF AskCreate, Goto, TypeOK, ClientStages
<1>2. ASSUME NEW c \in Clients, Acquire(c) PROVE TypeOK'
  <2>1. idem' \in [Keys -> {"none", "lock"} \cup Orders]
    BY <1>2 DEF Acquire, TakeKey, TypeOK
  <2>2. ProcessTypes'
    <3>1. CASE Goto(c, "insert") /\ UNCHANGED << job, seen, ask >>
      BY <3>1 DEF Goto, TypeOK, ClientStages, ProcessTypes
    <3>2. CASE Done(c)
      BY <3>2, DoneFacts DEF Procs
    <3> QED
      BY <1>2, <3>1, <3>2 DEF Acquire
  <2>3. faults' \in 0 .. MaxFaults /\ doubling' \in BOOLEAN
    <3>1. CASE Fault("redis")
      BY <3>1, FaultFacts
    <3>2. CASE UNCHANGED failures
      BY <3>2 DEF TypeOK
    <3> QED
      BY <1>2, <3>1, <3>2 DEF Acquire
  <2> QED
    BY <1>2, <2>1, <2>2, <2>3 DEF Acquire, TypeOK, ProcessTypes
<1>3. ASSUME NEW c \in Clients, Insert(c) PROVE TypeOK'
  <2>1. CASE Fault("insert") /\ Done(c) /\ UNCHANGED << row, flow, keyOf >>
    BY <1>3, <2>1, FaultFacts, DoneFacts DEF Insert, TypeOK, ProcessTypes, Procs
  <2>2. ASSUME NEW o \in Orders, NEW urgent \in BOOLEAN, NewOrder(o, urgent, NoAlarm),
               keyOf' = [keyOf EXCEPT ![o] = ask[c].key],
               \/ /\ job' = [job EXCEPT ![c] = o]
                  /\ Goto(c, "cache")
                  /\ UNCHANGED << seen, ask, failures >>
               \/ Fault("insertUnanswered") /\ Done(c)
        PROVE  TypeOK'
    <3>1. row' \in [Orders -> Rows] /\ flow' \in [Orders -> Seq(Flows)]
      BY <2>2, NewOrderFacts
    <3>2. ask[c].key \in Keys \cup {NoKey}
      BY DEF TypeOK, Asks, Procs
    <3>3. keyOf' \in [Orders -> Keys \cup {NoKey}]
      BY <2>2, <3>2 DEF TypeOK
    <3>4. CASE Goto(c, "cache") /\ job' = [job EXCEPT ![c] = o] /\ UNCHANGED << seen, ask, failures >>
      BY <1>3, <3>1, <3>3, <3>4 DEF Insert, Goto, TypeOK, ClientStages
    <3>5. CASE Fault("insertUnanswered") /\ Done(c)
      BY <1>3, <3>1, <3>3, <3>5, FaultFacts, DoneFacts DEF Insert, TypeOK, ProcessTypes, Procs
    <3> QED
      BY <2>2, <3>4, <3>5
  <2> QED
    BY <1>3, <2>1, <2>2 DEF Insert
<1>4. ASSUME NEW c \in Clients, Cache(c) PROVE TypeOK'
  BY <1>4, FaultFacts, DoneFacts DEF Cache, TypeOK, ProcessTypes, Procs, JobsAre
<1>5. ASSUME NEW c \in Clients, NEW o \in Orders, NEW action \in Actions,
             NEW to \in Staff \cup {Nobody}, Read(c, o, action, to)
      PROVE  TypeOK'
  <2>1. /\ requests' \in 0 .. MaxRequests
        /\ job' \in [Procs -> Orders \cup {NoOrder}]
        /\ ask' \in [Procs -> Asks]
    BY <1>5, RequestFacts DEF Read
  <2> QED
    BY <1>5, <2>1 DEF Read, Goto, TypeOK, ClientStages
<1>6. ASSUME NEW c \in Clients, Write(c) PROVE TypeOK'
  <2> DEFINE o == job[c]
  <2>1. o \in Orders /\ row[o] \in Rows /\ seen[c][o] \in Rows /\ ask[c] \in Asks
    BY <1>6 DEF Write, JobsAre, TypeOK, Procs
  <2>2. PICK next \in Statuses :
          /\ row' = [row EXCEPT ![o].status = next, ![o].assignee = NewAssignee(c, o),
                                ![o].finished = @ \/ SetsFinishedAt(next),
                                ![o].version = @ + 1]
          /\ flow' = [flow EXCEPT ![o] = Append(@, Flow(seen[c][o].status, next))]
    BY <1>6 DEF Write
  <2>3. Flow(seen[c][o].status, next) \in Flows
    BY <2>1 DEF Flow, Flows, Rows
  <2>4. flow' \in [Orders -> Seq(Flows)]
    BY <2>1, <2>2, <2>3 DEF TypeOK
  <2>5. (row[o].finished \/ SetsFinishedAt(next)) \in BOOLEAN
    BY DEF SetsFinishedAt
  <2>6. row' \in [Orders -> Rows]
    <3> DEFINE new == [row[o] EXCEPT !.status = next, !.assignee = NewAssignee(c, o),
                                     !.finished = @ \/ SetsFinishedAt(next),
                                     !.version = @ + 1]
    <3>1. row' = [row EXCEPT ![o] = new]
      BY <2>1, <2>2
    <3>2. NewAssignee(c, o) \in Staff \cup {Nobody} /\ row[o].version + 1 \in Nat
      BY <2>1 DEF NewAssignee, Asks, Rows
    <3>3. new \in Rows
      BY <2>1, <2>5, <3>2 DEF Rows
    <3> HIDE DEF new
    <3> QED
      BY <3>1, <3>3 DEF TypeOK
  <2>7. ProcessTypes'
    BY <1>6, DoneFacts DEF Write, Procs
  <2> QED
    BY <1>6, <2>4, <2>6, <2>7 DEF Write, TypeOK, ProcessTypes
<1>7. ASSUME NEW c \in Clients, Refused(c) \/ ClientDies(c) PROVE TypeOK'
  <2>1. ProcessTypes'
    BY <1>7, DoneFacts DEF Refused, ClientDies, Procs
  <2> QED
    BY <1>7, <2>1, FaultFacts DEF Refused, ClientDies, TypeOK, ProcessTypes
<1>8. ASSUME NEW k \in Keys, PlaceholderExpires(k) \/ AnswerExpires(k) PROVE TypeOK'
  BY <1>8, FaultFacts DEF PlaceholderExpires, AnswerExpires, TypeOK
<1>9. ASSUME NEW a \in Alarms, CreateFromAlarm(a) PROVE TypeOK'
  <2>1. row' \in [Orders -> Rows] /\ flow' \in [Orders -> Seq(Flows)]
    BY <1>9, NewOrderFacts DEF CreateFromAlarm
  <2> QED
    BY <1>9, <2>1 DEF CreateFromAlarm, TypeOK
<1>10. ASSUME NEW o \in Orders, Age(o) PROVE TypeOK'
  BY <1>10 DEF Age, TypeOK
<1>11. ASSUME NEW r \in Scans, TryLock(r) \/ List(r) PROVE TypeOK'
  <2>1. CASE TryLock(r)
    BY <2>1 DEF TryLock, Goto, TypeOK, ScanStages
  <2>2. CASE List(r)
    BY <2>2, RowsAre DEF List, Goto, TypeOK, ScanStages
  <2> QED
    BY <1>11, <2>1, <2>2
<1>12. ASSUME NEW r \in Scans, NEW o \in Orders, Escalate(r, o) \/ Skip(r, o) PROVE TypeOK'
  <2>1. /\ batch' \in [Scans -> SUBSET Orders]
        /\ seen' \in [Procs -> [Orders -> Rows]]
    <3>1. Passed(r, o) /\ seen[r] \in [Orders -> Rows]
      BY <1>12 DEF Escalate, Skip, TypeOK, Procs
    <3>2. [seen[r] EXCEPT ![o] = NoRow] \in [Orders -> Rows]
      BY <3>1, RowsAre
    <3>3. seen' \in [Procs -> [Orders -> Rows]]
      BY <3>1, <3>2 DEF Passed, TypeOK
    <3> QED
      BY <3>1, <3>3 DEF Passed, TypeOK
  <2>2. CASE Escalate(r, o)
    <3>1. row' \in [Orders -> Rows]
      <4> DEFINE new == [row[o] EXCEPT !.urgent = TRUE, !.version = @ + 1]
      <4>1. row' = [row EXCEPT ![o] = new] /\ row[o] \in Rows
        BY <2>2 DEF Escalate, TypeOK
      <4>2. new \in Rows
        <5>1. row[o].version + 1 \in Nat /\ TRUE \in BOOLEAN
          BY <4>1 DEF Rows
        <5> QED
          BY <4>1, <5>1 DEF Rows
      <4> HIDE DEF new
      <4> QED
        BY <4>1, <4>2 DEF TypeOK
    <3> QED
      BY <2>1, <2>2, <3>1 DEF Escalate, Goto, TypeOK, ScanStages
  <2>3. CASE Skip(r, o)
    BY <2>1, <2>3 DEF Skip, TypeOK
  <2> QED
    BY <1>12, <2>2, <2>3
<1>13. ASSUME NEW r \in Scans, LogEscalation(r) PROVE TypeOK'
  <2>1. escalations' \in [Orders -> Nat]
    BY <1>13 DEF LogEscalation, TypeOK
  <2> QED
    BY <1>13, <2>1, FaultFacts DEF LogEscalation, Goto, TypeOK, ScanStages
<1>14. ASSUME NEW r \in Scans, ScanDone(r) \/ ScanFails(r) PROVE TypeOK'
  <2>1. ProcessTypes'
    BY <1>14, DoneFacts DEF ScanDone, ScanFails, EndScan, Procs
  <2>2. lock' \in Scans \cup {NoScan} /\ batch' \in [Scans -> SUBSET Orders]
    BY <1>14 DEF ScanDone, ScanFails, EndScan, Unlock, TypeOK
  <2> QED
    BY <1>14, <2>1, <2>2, FaultFacts DEF ScanDone, ScanFails, EndScan, TypeOK, ProcessTypes
<1>15. ASSUME NEW r \in Scans, LockExpires(r) PROVE TypeOK'
  BY <1>15, FaultFacts DEF LockExpires, TypeOK
<1>16. CASE UNCHANGED vars
  BY <1>16 DEF vars, TypeOK
<1>17. ASSUME NEW c \in Clients, ClientStep(c) PROVE TypeOK'
  <2>1. ASSUME NEW o \in Orders, NEW s \in Staff, AssignWorkOrder(c, o, s) PROVE TypeOK'
    BY <2>1, <1>5 DEF AssignWorkOrder, Actions
  <2>2. ASSUME NEW o \in Orders, NEW a \in StatusActions, UpdateStatus(c, o, a) PROVE TypeOK'
    <3>1. row[o].assignee \in Staff \cup {Nobody} /\ a \in Actions
      BY StatusActionsAssumption DEF StatusActionsAssumption, TypeOK, Rows
    <3> QED
      BY <2>2, <3>1, <1>5 DEF UpdateStatus
  <2> QED
    BY <1>17, <1>1, <1>2, <1>3, <1>4, <1>6, <1>7, <2>1, <2>2 DEF ClientStep
<1> QED
  BY <1>7, <1>8, <1>9, <1>10, <1>11, <1>12, <1>13, <1>14, <1>15, <1>16, <1>17
     DEF Next, ScanStep

------------------------------------------------------------------------------
(***************************************************************************)
(* Every step but Escalate and LogEscalation is a mild one.                *)
(***************************************************************************)
Mild ==
  /\ \A o \in Orders : \/ row'[o] = row[o]
                       \/ /\ row'[o].version = row[o].version + 1
                          /\ row[o].urgent => row'[o].urgent
  /\ \A o \in Orders : RowTold(o)'
  /\ \A p \in Procs, o \in Orders :
       \/ seen'[p][o] \in {seen[p][o], NoRow}
       \/ seen'[p][o] = row[o] /\ row'[o] = row[o]
  /\ escalations' = escalations
  /\ \A r \in Scans : pc'[r] = "flow" => pc[r] = "flow" /\ job'[r] = job[r]
  /\ JobsAre'

\* Copies stay copies of what a row is, or was in an earlier version.
LEMMA SeenKept ==
  ASSUME TypeOK, NEW p \in Procs, NEW o \in Orders, SeenWas(p, o), RowTold(o)',
         row'[o] = row[o] \/ row'[o].version = row[o].version + 1,
         \/ seen'[p][o] \in {seen[p][o], NoRow}
         \/ seen'[p][o] = row[o] /\ row'[o] = row[o],
         row' \in [Orders -> Rows]
  PROVE  SeenWas(p, o)'
<1>1. /\ row[o].version \in Nat /\ row'[o].version \in Nat /\ seen[p][o].version \in Nat
      /\ NoRow.version = 0 /\ NoRow.status = "none"
  BY DEF TypeOK, Rows, NoRow
<1>2. row'[o].version = 0 <=> row'[o].status = "none"
  BY DEF RowTold
<1>3. CASE seen'[p][o] = NoRow
  BY <1>1, <1>2, <1>3 DEF SeenWas
<1>4. CASE seen'[p][o] = row[o] /\ row'[o] = row[o]
  BY <1>1, <1>4 DEF SeenWas
<1>5. CASE seen'[p][o] = seen[p][o]
  BY <1>1, <1>5 DEF SeenWas
<1> QED
  BY <1>3, <1>4, <1>5

LEMMA MildStep == ASSUME IInv, TypeOK', Mild PROVE IInv'
<1>1. ASSUME NEW o \in Orders PROVE RowTold(o)' /\ EscalatedAtMostOnce(o)'
  BY DEF IInv, Mild, EscalatedAtMostOnce
<1>2. ASSUME NEW p \in Procs, NEW o \in Orders PROVE SeenWas(p, o)'
  <2>1. TypeOK /\ SeenWas(p, o) /\ row' \in [Orders -> Rows]
    BY DEF IInv, TypeOK
  <2>2. row'[o] = row[o] \/ row'[o].version = row[o].version + 1
    BY DEF Mild
  <2>3. \/ seen'[p][o] \in {seen[p][o], NoRow}
        \/ seen'[p][o] = row[o] /\ row'[o] = row[o]
    BY DEF Mild
  <2> QED
    BY <2>1, <2>2, <2>3, <1>1, SeenKept
<1>3. ASSUME NEW r \in Scans PROVE Escalating(r)'
  BY DEF IInv, Mild, Escalating
<1> QED
  BY <1>1, <1>2, <1>3 DEF IInv, Mild

\* In particular a step that leaves the rows and the audit alone.
LEMMA Untouched ==
  ASSUME IInv, UNCHANGED << row, audit >>
  PROVE  /\ \A o \in Orders : RowTold(o)'
         /\ \A o \in Orders : row'[o] = row[o]
         /\ escalations' = escalations
BY DEF IInv, RowTold, audit

\* A new row is mild: it was not urgent, and nothing is linked to it yet.
LEMMA NewOrderIsMild ==
  ASSUME IInv, NEW o \in Orders, NEW urgent \in BOOLEAN, NEW alarm, NewOrder(o, urgent, alarm),
         UNCHANGED escalations
  PROVE  /\ \A u \in Orders : RowTold(u)'
         /\ \A u \in Orders : \/ row'[u] = row[u]
                              \/ /\ row'[u].version = row[u].version + 1
                                 /\ row[u].urgent => row'[u].urgent
<1>1. /\ row' = [row EXCEPT ![o] = NewRow(urgent, alarm)]
      /\ flow' = [flow EXCEPT ![o] = << Flow("none", "pending") >>]
      /\ row \in [Orders -> Rows] /\ flow \in [Orders -> Seq(Flows)]
      /\ RowTold(o) /\ row[o].status = "none"
  BY DEF IInv, TypeOK, NewOrder
<1>2. /\ NewRow(urgent, alarm).status = "pending" /\ NewRow(urgent, alarm).version = 1
      /\ NewRow(urgent, alarm).finished = FALSE
  BY DEF NewRow
<1>3. RowTold(o)'
  BY <1>1, <1>2, LinkedFirst DEF RowTold
<1>4. ASSUME NEW u \in Orders, u # o PROVE RowTold(u)' /\ row'[u] = row[u]
  BY <1>1, <1>4 DEF IInv, RowTold
<1>5. row[o].version = 0 /\ ~row[o].urgent
  BY <1>1 DEF RowTold
<1>6. row'[o].version = row[o].version + 1
  BY <1>1, <1>2, <1>5
<1> QED
  BY <1>3, <1>4, <1>5, <1>6

\* What the end of a request or a scan does to the copies and the jobs.
LEMMA DoneIsMild ==
  ASSUME IInv, NEW p \in Procs, Done(p)
  PROVE  /\ \A q \in Procs, o \in Orders : seen'[q][o] \in {seen[q][o], NoRow}
         /\ \A r \in Scans : pc'[r] = "flow" => pc[r] = "flow" /\ job'[r] = job[r]
         /\ JobsAre'
BY DEF IInv, TypeOK, Done, Goto, JobsAre, Procs

LEMMA ClientIsMild ==
  ASSUME IInv, NEW c \in Clients, ClientStep(c) \/ ClientDies(c)
  PROVE  Mild
<1> USE DEF audit, Procs
<1>0. /\ TypeOK /\ JobsAre /\ Clients \cap Scans = {} /\ NoOrder \notin Orders
  BY WorkOrderAssumption DEF IInv, WorkOrderAssumption
<1>1. ASSUME NEW k \in Keys, AskCreate(c, k) PROVE Mild
  BY <1>0, <1>1, Untouched DEF AskCreate, Request, Goto, Mild, JobsAre, TypeOK
<1>2. ASSUME Acquire(c) PROVE Mild
  <2>1. UNCHANGED << row, audit >>
    BY <1>2 DEF Acquire
  <2>2. CASE Done(c)
    BY <2>1, <2>2, Untouched, DoneIsMild DEF Mild
  <2>3. CASE Goto(c, "insert") /\ UNCHANGED << job, seen, ask >>
    BY <1>0, <2>1, <2>3, Untouched DEF Goto, Mild, JobsAre, TypeOK
  <2> QED
    BY <1>2, <2>2, <2>3 DEF Acquire
<1>3. ASSUME Insert(c) PROVE Mild
  <2>1. CASE Fault("insert") /\ Done(c) /\ UNCHANGED << row, flow, keyOf >>
    BY <1>3, <2>1, Untouched, DoneIsMild DEF Insert, Mild
  <2>2. ASSUME NEW o \in Orders, NEW urgent \in BOOLEAN, NewOrder(o, urgent, NoAlarm),
               \/ /\ job' = [job EXCEPT ![c] = o]
                  /\ Goto(c, "cache")
                  /\ UNCHANGED seen
               \/ Done(c)
        PROVE  Mild
    <3>1. UNCHANGED escalations
      BY <1>3 DEF Insert
    <3>2. /\ JobsAre'
          /\ \A r \in Scans : pc'[r] = "flow" => pc[r] = "flow" /\ job'[r] = job[r]
          /\ \A q \in Procs, u \in Orders : seen'[q][u] \in {seen[q][u], NoRow}
      BY <1>0, <2>2, DoneIsMild DEF Goto, JobsAre, TypeOK
    <3> QED
      BY <2>2, <3>1, <3>2, NewOrderIsMild DEF Mild
  <2> QED
    BY <1>3, <2>1, <2>2 DEF Insert
<1>4. ASSUME Cache(c) \/ Refused(c) \/ ClientDies(c) PROVE Mild
  <2>1. Done(c) /\ UNCHANGED << row, audit >>
    BY <1>4 DEF Cache, Refused, ClientDies
  <2> QED
    BY <2>1, Untouched, DoneIsMild DEF Mild
<1>5. ASSUME NEW o \in Orders, NEW action, NEW to, Read(c, o, action, to) PROVE Mild
  <2>1. UNCHANGED << row, audit >>
    BY <1>5 DEF Read
  <2>2. \A p \in Procs, u \in Orders : seen'[p][u] = seen[p][u] \/ seen'[p][u] = row[u]
    BY <1>0, <1>5 DEF Read, TypeOK
  <2>3. /\ JobsAre'
        /\ \A r \in Scans : pc'[r] = "flow" => pc[r] = "flow" /\ job'[r] = job[r]
    BY <1>0, <1>5 DEF Read, Request, Goto, JobsAre, TypeOK
  <2> QED
    BY <2>1, <2>2, <2>3, Untouched DEF Mild
<1>6. ASSUME Write(c) PROVE Mild
  <2>0. PICK o \in Orders : o = job[c]
    BY <1>0, <1>6 DEF Write, JobsAre
  <2>1. /\ row[o] \in Rows /\ RowTold(o) /\ SeenWas(c, o)
        /\ Done(c) /\ UNCHANGED escalations
        /\ row \in [Orders -> Rows] /\ flow \in [Orders -> Seq(Flows)]
    BY <1>0, <1>6 DEF Write, JobsAre, TypeOK, IInv
  <2>2. seen[c][o].status = row[o].status
    BY <1>6, <2>0, <2>1 DEF Write, Unmodified, SeenWas
  <2>3. PICK next \in Statuses :
          /\ NextStatus(row[o].status, ask[c].action, next)
          /\ row' = [row EXCEPT ![o].status = next, ![o].assignee = NewAssignee(c, o),
                                ![o].finished = @ \/ SetsFinishedAt(next),
                                ![o].version = @ + 1]
          /\ flow' = [flow EXCEPT ![o] = Append(@, Flow(row[o].status, next))]
    BY <1>6, <2>0, <2>2 DEF Write
  <2>4. /\ next # "none" /\ row[o].status # "none"
        /\ row[o].status \in {"completed", "closed"} => next \in {"completed", "closed"}
    BY <2>3, TransitionFacts
  <2>5. /\ row'[o].status = next /\ row'[o].version = row[o].version + 1
        /\ row'[o].urgent = row[o].urgent
        /\ row'[o].finished = (row[o].finished \/ next \in {"completed", "closed"})
        /\ flow'[o] = Append(flow[o], Flow(row[o].status, next))
    BY <2>1, <2>3 DEF Rows, SetsFinishedAt
  <2>6. Linked(flow'[o], row'[o].status)
    BY <2>1, <2>5, LinkedAppend DEF RowTold, Rows
  <2>7. row'[o].finished <=> row'[o].status \in {"completed", "closed"}
    BY <2>1, <2>4, <2>5 DEF RowTold
  <2>8. row'[o].version # 0 /\ row'[o].status # "none"
    BY <2>1, <2>4, <2>5 DEF Rows
  <2>9. RowTold(o)'
    BY <2>6, <2>7, <2>8 DEF RowTold
  <2>10. ASSUME NEW u \in Orders, u # o PROVE RowTold(u)' /\ row'[u] = row[u]
    BY <2>1, <2>3, <2>10 DEF IInv, RowTold
  <2> QED
    BY <2>1, <2>5, <2>9, <2>10, DoneIsMild DEF Mild
<1> QED
  BY <1>1, <1>2, <1>3, <1>4, <1>5, <1>6 DEF ClientStep, AssignWorkOrder, UpdateStatus

LEMMA OthersAreMild ==
  ASSUME IInv,
         \/ \E k \in Keys : PlaceholderExpires(k) \/ AnswerExpires(k)
         \/ \E a \in Alarms : CreateFromAlarm(a)
         \/ \E o \in Orders : Age(o)
         \/ \E r \in Scans : \/ TryLock(r) \/ List(r) \/ ScanDone(r) \/ ScanFails(r)
                             \/ LockExpires(r) \/ \E o \in Orders : Skip(r, o)
         \/ UNCHANGED vars
  PROVE  Mild
<1> USE DEF audit, Procs
<1>0. /\ TypeOK /\ JobsAre /\ Clients \cap Scans = {}
  BY WorkOrderAssumption DEF IInv, WorkOrderAssumption
<1>1. CASE UNCHANGED << row, flow, escalations, pc, job, seen >>
  BY <1>0, <1>1, Untouched DEF Mild, JobsAre
<1>2. ASSUME NEW a \in Alarms, CreateFromAlarm(a) PROVE Mild
  <2>1. PICK o \in Orders, urgent \in BOOLEAN : NewOrder(o, urgent, a)
    BY <1>2 DEF CreateFromAlarm
  <2>2. UNCHANGED << escalations, pc, job, seen >>
    BY <1>2 DEF CreateFromAlarm
  <2> QED
    BY <1>0, <2>1, <2>2, NewOrderIsMild DEF Mild, JobsAre
<1>3. ASSUME NEW r \in Scans, TryLock(r) \/ List(r) PROVE Mild
  <2>1. /\ UNCHANGED << row, flow, escalations, job >>
        /\ \A s \in Scans : pc'[s] = "flow" => pc[s] = "flow"
        /\ JobsAre'
    BY <1>0, <1>3 DEF TryLock, List, Goto, TypeOK, JobsAre
  <2>2. \A p \in Procs, o \in Orders : seen'[p][o] \in {seen[p][o], NoRow, row[o]}
    <3>1. CASE TryLock(r)
      BY <3>1 DEF TryLock
    <3>2. ASSUME List(r), NEW o \in Orders PROVE seen'[r][o] \in {NoRow, row[o]}
      BY <1>0, <3>2 DEF List, TypeOK
    <3>3. ASSUME List(r), NEW p \in Procs, p # r PROVE seen'[p] = seen[p]
      BY <1>0, <3>3 DEF List, TypeOK
    <3> QED
      BY <1>3, <3>1, <3>2, <3>3
  <2> QED
    BY <2>1, <2>2, Untouched DEF Mild
<1>4. ASSUME NEW r \in Scans, ScanDone(r) \/ ScanFails(r) PROVE Mild
  <2>1. Done(r) /\ UNCHANGED << row, flow, escalations >>
    BY <1>4 DEF ScanDone, ScanFails, EndScan
  <2> QED
    BY <2>1, Untouched, DoneIsMild DEF Mild
<1>5. ASSUME NEW r \in Scans, NEW o \in Orders, Skip(r, o) PROVE Mild
  <2>1. \A p \in Procs, u \in Orders : seen'[p][u] \in {seen[p][u], NoRow}
    BY <1>0, <1>5 DEF Skip, Passed, TypeOK
  <2>2. UNCHANGED << row, flow, escalations, pc, job >>
    BY <1>5 DEF Skip
  <2> QED
    BY <1>0, <2>1, <2>2, Untouched DEF Mild, JobsAre
<1> QED
  BY <1>1, <1>2, <1>3, <1>4, <1>5 DEF PlaceholderExpires, AnswerExpires, Age, LockExpires, vars

------------------------------------------------------------------------------
(***************************************************************************)
(* The two steps of an escalation.                                         *)
(***************************************************************************)
LEMMA EscalateHolds ==
  ASSUME IInv, TypeOK', NEW r \in Scans, NEW o \in Orders, Escalate(r, o)
  PROVE  IInv'
<1> USE DEF audit, Procs
<1>1. /\ TypeOK /\ JobsAre /\ Clients \cap Scans = {} /\ row[o] \in Rows
      /\ RowTold(o) /\ EscalatedAtMostOnce(o) /\ ~row[o].urgent /\ row[o].status \in Open
      /\ UNCHANGED << flow, escalations >>
      /\ row' = [row EXCEPT ![o].urgent = TRUE, ![o].version = @ + 1]
      /\ row \in [Orders -> Rows] /\ escalations \in [Orders -> Nat]
  BY WorkOrderAssumption DEF IInv, TypeOK, WorkOrderAssumption, Escalate, StillOverdue
<1>2. /\ row'[o].status = row[o].status /\ row'[o].finished = row[o].finished
      /\ row'[o].urgent = TRUE /\ row'[o].version = row[o].version + 1
      /\ \A u \in Orders : u # o => row'[u] = row[u]
  BY <1>1 DEF Rows
<1>3. RowTold(o)'
  BY <1>1, <1>2 DEF RowTold, Open, Rows
<1>4. ASSUME NEW u \in Orders PROVE RowTold(u)' /\ EscalatedAtMostOnce(u)'
  BY <1>1, <1>2, <1>3 DEF IInv, RowTold, EscalatedAtMostOnce
<1>5. ASSUME NEW p \in Procs, NEW u \in Orders PROVE SeenWas(p, u)'
  <2>1. seen'[p][u] \in {seen[p][u], NoRow}
    BY <1>1 DEF Escalate, Passed, TypeOK
  <2>2. row'[u] = row[u] \/ row'[u].version = row[u].version + 1
    BY <1>2
  <2>3. SeenWas(p, u) /\ row' \in [Orders -> Rows]
    BY DEF IInv, TypeOK
  <2> QED
    BY <1>1, <1>4, <2>1, <2>2, <2>3, SeenKept
<1>6. JobsAre'
  BY <1>1 DEF Escalate, Goto, JobsAre, TypeOK
<1>7. /\ pc'[r] = "flow" /\ job'[r] = o
      /\ \A s \in Scans : s # r => pc'[s] = pc[s] /\ job'[s] = job[s]
  BY <1>1 DEF Escalate, Goto, TypeOK
<1>8. \A s \in Scans : pc[s] = "flow" => row[job[s]].urgent /\ job[s] \in Orders
  BY DEF IInv, Escalating
<1>9. escalations[o] = 0
  BY <1>1 DEF EscalatedAtMostOnce
<1>10. Escalating(r)'
  BY <1>1, <1>2, <1>7, <1>8, <1>9 DEF Escalating
<1>11. ASSUME NEW s \in Scans, s # r PROVE Escalating(s)'
  BY <1>1, <1>2, <1>7, <1>8, <1>11 DEF IInv, Escalating
<1> QED
  BY <1>4, <1>5, <1>6, <1>10, <1>11 DEF IInv

LEMMA LogHolds ==
  ASSUME IInv, TypeOK', NEW r \in Scans, LogEscalation(r)
  PROVE  IInv'
<1> USE DEF audit, Procs
<1>1. PICK o \in Orders : o = job[r]
  BY DEF LogEscalation, IInv, Escalating
<1>2. /\ TypeOK /\ JobsAre /\ Clients \cap Scans = {}
      /\ row[o].urgent /\ escalations[o] = 0 /\ pc[r] = "flow"
      /\ \A s \in Scans : pc[s] = "flow" /\ job[s] = o => s = r
      /\ UNCHANGED << row, flow, seen >>
  BY <1>1, WorkOrderAssumption
     DEF WorkOrderAssumption, LogEscalation, IInv, Escalating
<1>3. /\ escalations'[o] \in {0, 1}
      /\ \A u \in Orders : u # o => escalations'[u] = escalations[u]
  BY <1>1, <1>2 DEF LogEscalation, TypeOK
<1>4. /\ pc'[r] = "scan"
      /\ \A p \in Procs : p # r => pc'[p] = pc[p] /\ job'[p] = job[p]
  BY <1>2 DEF LogEscalation, Goto, TypeOK
<1>5. ASSUME NEW u \in Orders PROVE RowTold(u)' /\ EscalatedAtMostOnce(u)'
  BY <1>2, <1>3 DEF IInv, RowTold, EscalatedAtMostOnce
<1>6. \A p \in Procs, u \in Orders : SeenWas(p, u)'
  BY <1>2 DEF IInv, SeenWas
<1>7. JobsAre'
  BY <1>2, <1>4 DEF JobsAre
<1>8. ASSUME NEW s \in Scans PROVE Escalating(s)'
  BY <1>2, <1>3, <1>4 DEF IInv, Escalating
<1> QED
  BY <1>5, <1>6, <1>7, <1>8 DEF IInv

LEMMA StepHolds == IInv /\ [Next]_vars => IInv'
<1> SUFFICES ASSUME IInv, [Next]_vars PROVE IInv'
  OBVIOUS
<1>1. TypeOK'
  BY TypeHolds DEF IInv
<1>2. ASSUME NEW c \in Clients, ClientStep(c) \/ ClientDies(c) PROVE IInv'
  BY <1>1, <1>2, ClientIsMild, MildStep
<1>3. ASSUME NEW r \in Scans, LogEscalation(r) \/ \E o \in Orders : Escalate(r, o) PROVE IInv'
  BY <1>1, <1>3, EscalateHolds, LogHolds
<1>4. ASSUME \/ \E k \in Keys : PlaceholderExpires(k) \/ AnswerExpires(k)
             \/ \E a \in Alarms : CreateFromAlarm(a)
             \/ \E o \in Orders : Age(o)
             \/ \E r \in Scans : \/ TryLock(r) \/ List(r) \/ ScanDone(r) \/ ScanFails(r)
                                 \/ LockExpires(r) \/ \E o \in Orders : Skip(r, o)
             \/ UNCHANGED vars
      PROVE  IInv'
  BY <1>1, <1>4, OthersAreMild, MildStep
<1> QED
  BY <1>2, <1>3, <1>4 DEF Next, ScanStep

------------------------------------------------------------------------------
(* One order per key. *)

\* A request that creates an order for the key k.
Creator(c, k) == pc[c] \in {"insert", "cache"} /\ ask[c].key = k

Keyed(c) == pc[c] \in {"acquire", "insert", "cache"} => ask[c].key \in Keys

\* It holds the placeholder of its key, alone, ...
LockHeld(c) ==
  pc[c] \in {"insert", "cache"} =>
    /\ idem[ask[c].key] = "lock"
    /\ \A d \in Clients : Creator(d, ask[c].key) => d = c

\* ... and no order has that key before it inserts one.
Unborn(c) == pc[c] = "insert" => \A o \in Orders : keyOf[o] # ask[c].key

\* The key of an order leads to an order, or will.
Answered(o) ==
  keyOf[o] \in Keys =>
    \/ idem[keyOf[o]] \in Orders
    \/ \E c \in Clients : pc[c] = "cache" /\ ask[c].key = keyOf[o]

Alone(o) == \A u \in Orders : keyOf[o] = keyOf[u] /\ keyOf[o] # NoKey => o = u

KeyInv ==
  /\ \A c \in Clients : Keyed(c)
  /\ ~doubling =>
       /\ \A c \in Clients : LockHeld(c) /\ Unborn(c)
       /\ \A o \in Orders : Answered(o) /\ Alone(o)

\* A step that changes no key, no order's key, and takes no creation further.
Quiet ==
  /\ keyOf' = keyOf /\ idem' = idem
  /\ doubling => doubling'
  /\ \A c \in Clients :
       /\ pc'[c] \in {"acquire", "insert", "cache"} => pc'[c] = pc[c] /\ ask'[c] = ask[c]
       /\ pc[c] = "cache" /\ ~doubling' => pc'[c] = "cache" /\ ask'[c] = ask[c]

LEMMA QuietStep == ASSUME KeyInv, Quiet PROVE KeyInv'
<1>1. ASSUME NEW c \in Clients PROVE Keyed(c)'
  BY DEF KeyInv, Quiet, Keyed
<1>2. ASSUME ~doubling', NEW c \in Clients PROVE LockHeld(c)' /\ Unborn(c)'
  BY <1>2 DEF KeyInv, Quiet, LockHeld, Unborn, Creator
<1>3. ASSUME ~doubling', NEW o \in Orders PROVE Answered(o)' /\ Alone(o)'
  BY <1>3 DEF KeyInv, Quiet, Answered, Alone
<1> QED
  BY <1>1, <1>2, <1>3 DEF KeyInv

LEMMA FaultGrows == ASSUME NEW kind, Fault(kind) PROVE doubling => doubling'
BY Zenon DEF Fault

\* The steps of scans, of alarms and of other requests.
LEMMA OthersAreQuiet ==
  ASSUME TypeOK,
         \/ \E c \in Clients : \/ \E o \in Orders, s \in Staff : AssignWorkOrder(c, o, s)
                               \/ \E o \in Orders, a \in StatusActions : UpdateStatus(c, o, a)
                               \/ Write(c) \/ Refused(c)
         \/ \E a \in Alarms : CreateFromAlarm(a)
         \/ \E o \in Orders : Age(o)
         \/ \E r \in Scans : ScanStep(r) \/ ScanFails(r) \/ LockExpires(r)
         \/ UNCHANGED vars
  PROVE  Quiet
<1>a. /\ pc \in [Procs -> ClientStages \cup ScanStages] /\ ask \in [Procs -> Asks]
      /\ Clients \subseteq Procs /\ Scans \subseteq Procs /\ Clients \cap Scans = {}
  BY WorkOrderAssumption DEF TypeOK, Procs
<1> USE FaultGrows DEF Quiet, Goto, Done, audit, failures
<1>1. ASSUME NEW c \in Clients, NEW o \in Orders, NEW action, NEW to, Read(c, o, action, to)
      PROVE  Quiet
  BY <1>1, <1>a DEF Read, Request
<1>2. ASSUME NEW c \in Clients, Write(c) PROVE Quiet
  BY <1>2, <1>a DEF Write
<1>3. ASSUME NEW c \in Clients, Refused(c) PROVE Quiet
  BY <1>3, <1>a DEF Refused
<1>4. ASSUME NEW a \in Alarms, CreateFromAlarm(a) PROVE Quiet
  BY <1>4 DEF CreateFromAlarm
<1>5. ASSUME NEW o \in Orders, Age(o) PROVE Quiet
  BY <1>5 DEF Age
<1>6. ASSUME NEW r \in Scans, TryLock(r) \/ List(r) PROVE Quiet
  BY <1>6, <1>a DEF TryLock, List
<1>7. ASSUME NEW r \in Scans, NEW o \in Orders, Escalate(r, o) \/ Skip(r, o) PROVE Quiet
  BY <1>7, <1>a DEF Escalate, Skip, Passed
<1>8. ASSUME NEW r \in Scans, LogEscalation(r) PROVE Quiet
  BY <1>8, <1>a DEF LogEscalation
<1>9. ASSUME NEW r \in Scans, ScanDone(r) \/ ScanFails(r) PROVE Quiet
  BY <1>9, <1>a DEF ScanDone, ScanFails, EndScan
<1>10. ASSUME NEW r \in Scans, LockExpires(r) PROVE Quiet
  BY <1>10, <1>a DEF LockExpires
<1>11. CASE UNCHANGED vars
  BY <1>11 DEF vars
<1> QED
  BY <1>1, <1>2, <1>3, <1>4, <1>5, <1>6, <1>7, <1>8, <1>9, <1>10, <1>11
  DEF AssignWorkOrder, UpdateStatus, ScanStep

\* The steps of a creation under a key.
LEMMA CreationKeepsKeys ==
  ASSUME TypeOK, JobsAre, KeyInv,
         \/ \E c \in Clients : \/ \E k \in Keys : AskCreate(c, k)
                               \/ Acquire(c) \/ Insert(c) \/ Cache(c) \/ ClientDies(c)
         \/ \E k \in Keys : PlaceholderExpires(k) \/ AnswerExpires(k)
  PROVE  KeyInv'
<1>a. /\ pc \in [Procs -> ClientStages \cup ScanStages] /\ ask \in [Procs -> Asks]
      /\ keyOf \in [Orders -> Keys \cup {NoKey}] /\ job \in [Procs -> Orders \cup {NoOrder}]
      /\ idem \in [Keys -> {"none", "lock"} \cup Orders]
      /\ Clients \subseteq Procs /\ NoKey \notin Keys /\ "lock" \notin Orders /\ "none" \notin Orders
  BY WorkOrderAssumption DEF TypeOK, Procs
<1>b. /\ \A c \in Clients : Keyed(c)
      /\ ~doubling => /\ \A c \in Clients : LockHeld(c) /\ Unborn(c)
                      /\ \A o \in Orders : Answered(o) /\ Alone(o)
  BY DEF KeyInv
\* After a fault of Doubling only the requests' keys are claimed.
<1>c. ASSUME NEW kind \in Doubling, Fault(kind), \A c \in Clients : Keyed(c)' PROVE KeyInv'
  BY <1>c DEF Fault, KeyInv
<1> USE DEF Goto, Done, audit, failures, Fault, Doubling
<1>1. ASSUME NEW c \in Clients, NEW k \in Keys, AskCreate(c, k) PROVE KeyInv'
  <2>1. /\ pc' = [pc EXCEPT ![c] = "acquire"] /\ ask'[c].key = k
        /\ \A d \in Clients \ {c} : ask'[d] = ask[d]
        /\ keyOf' = keyOf /\ idem' = idem /\ doubling' = doubling /\ pc[c] = "idle"
    BY <1>1, <1>a DEF AskCreate, Request
  <2>2. ASSUME NEW d \in Clients PROVE Keyed(d)'
    BY <2>1, <1>a, <1>b DEF Keyed
  <2>3. ASSUME ~doubling', NEW d \in Clients PROVE LockHeld(d)' /\ Unborn(d)'
    BY <2>1, <2>3, <1>a, <1>b DEF LockHeld, Unborn, Creator
  <2>4. ASSUME ~doubling', NEW o \in Orders PROVE Answered(o)' /\ Alone(o)'
    BY <2>1, <2>4, <1>a, <1>b DEF Answered, Alone
  <2> QED
    BY <2>2, <2>3, <2>4 DEF KeyInv
<1>2. ASSUME NEW c \in Clients, Acquire(c) PROVE KeyInv'
  <2> DEFINE k == ask[c].key
  <2>1. k \in Keys /\ pc[c] = "acquire"
    BY <1>2, <1>b DEF Acquire, Keyed
  <2>2. ASSUME Free(k), idem' = [idem EXCEPT ![k] = "lock"], Goto(c, "insert"),
               UNCHANGED << job, seen, ask, failures, keyOf >>
        PROVE  KeyInv'
    <3>1. ASSUME NEW d \in Clients PROVE Keyed(d)'
      BY <2>1, <2>2, <1>a, <1>b DEF Keyed
    <3>2. ASSUME ~doubling PROVE /\ \A d \in Clients : ~Creator(d, k)
                                 /\ \A o \in Orders : keyOf[o] # k
      BY <3>2, <2>1, <2>2, <1>a, <1>b DEF Free, LockHeld, Answered, Creator
    <3>3. ASSUME ~doubling', NEW d \in Clients PROVE LockHeld(d)' /\ Unborn(d)'
      BY <3>2, <3>3, <2>1, <2>2, <1>a, <1>b DEF LockHeld, Unborn, Creator
    <3>4. ASSUME ~doubling', NEW o \in Orders PROVE Answered(o)' /\ Alone(o)'
      BY <3>2, <3>4, <2>1, <2>2, <1>a, <1>b DEF Answered, Alone
    <3> QED
      BY <3>1, <3>3, <3>4 DEF KeyInv
  <2>3. ASSUME Done(c), UNCHANGED << idem, failures, keyOf >> PROVE Quiet
    BY <2>1, <2>3, <1>a DEF Quiet
  <2>4. ASSUME Fault("redis"), (Goto(c, "insert") /\ UNCHANGED ask) \/ Done(c)
        PROVE  KeyInv'
    <3>1. ASSUME NEW d \in Clients PROVE Keyed(d)'
      BY <2>1, <2>4, <1>a, <1>b DEF Keyed
    <3> QED
      BY <2>4, <3>1, <1>c DEF Doubling
  <2> QED
    BY <1>2, <2>2, <2>3, <2>4, QuietStep DEF Acquire, TakeKey
<1>3. ASSUME NEW c \in Clients, Insert(c) PROVE KeyInv'
  <2> DEFINE k == ask[c].key
  <2>1. k \in Keys /\ pc[c] = "insert" /\ idem' = idem
    BY <1>3, <1>b DEF Insert, Keyed
  <2>2. ASSUME NEW o \in Orders, keyOf' = [keyOf EXCEPT ![o] = k], Goto(c, "cache"),
               UNCHANGED << ask, failures >>
        PROVE  KeyInv'
    <3>1. ASSUME NEW d \in Clients PROVE Keyed(d)'
      BY <2>1, <2>2, <1>a, <1>b DEF Keyed
    <3>2. ASSUME ~doubling', NEW d \in Clients PROVE LockHeld(d)' /\ Unborn(d)'
      BY <3>2, <2>1, <2>2, <1>a, <1>b DEF LockHeld, Unborn, Creator
    <3>3. ASSUME ~doubling', NEW u \in Orders PROVE Answered(u)'
      BY <3>3, <2>1, <2>2, <1>a, <1>b DEF Answered
    <3>4. ASSUME ~doubling', NEW u \in Orders PROVE Alone(u)'
      BY <3>4, <2>1, <2>2, <1>a, <1>b DEF Alone, Unborn
    <3> QED
      BY <3>1, <3>2, <3>3, <3>4 DEF KeyInv
  <2>3. ASSUME Fault("insert"), Done(c), UNCHANGED keyOf PROVE Quiet
    BY <2>1, <2>3, <1>a DEF Quiet
  <2>4. ASSUME Fault("insertUnanswered"), Done(c) PROVE KeyInv'
    <3>1. ASSUME NEW d \in Clients PROVE Keyed(d)'
      BY <2>1, <2>4, <1>a, <1>b DEF Keyed
    <3> QED
      BY <2>4, <3>1, <1>c DEF Doubling
  <2> QED
    BY <1>3, <2>2, <2>3, <2>4, QuietStep DEF Insert
<1>4. ASSUME NEW c \in Clients, Cache(c) PROVE KeyInv'
  <2> DEFINE k == ask[c].key
  <2>1. k \in Keys /\ pc[c] = "cache" /\ job[c] \in Orders /\ keyOf' = keyOf /\ Done(c)
    BY <1>4, <1>b DEF Cache, Keyed, JobsAre
  <2>2. ASSUME NEW d \in Clients PROVE Keyed(d)'
    BY <2>1, <1>a, <1>b DEF Keyed
  <2>3. ASSUME idem' = [idem EXCEPT ![k] = job[c]], UNCHANGED failures PROVE KeyInv'
    <3>1. ASSUME ~doubling', NEW d \in Clients PROVE LockHeld(d)' /\ Unborn(d)'
      BY <3>1, <2>1, <2>3, <1>a, <1>b DEF LockHeld, Unborn, Creator
    <3>2. ASSUME ~doubling', NEW u \in Orders PROVE Answered(u)' /\ Alone(u)'
      BY <3>2, <2>1, <2>3, <1>a, <1>b DEF Answered, Alone
    <3> QED
      BY <3>1, <3>2, <2>2 DEF KeyInv
  <2>4. ASSUME Fault("cache") PROVE KeyInv'
    BY <2>2, <2>4 DEF KeyInv
  <2> QED
    BY <1>4, <2>3, <2>4 DEF Cache
<1>5. ASSUME NEW c \in Clients, ClientDies(c) PROVE KeyInv'
  BY <1>5, <1>a, <1>b DEF ClientDies, KeyInv, Keyed
<1>6. ASSUME NEW k \in Keys, PlaceholderExpires(k) PROVE KeyInv'
  <2>1. /\ idem[k] = "lock" /\ idem' = [idem EXCEPT ![k] = "none"]
        /\ pc' = pc /\ ask' = ask /\ keyOf' = keyOf
    BY <1>6 DEF PlaceholderExpires
  <2>2. ASSUME NEW d \in Clients PROVE Keyed(d)'
    BY <2>1, <1>b DEF Keyed
  <2>3. CASE Creating(k)
    BY <1>6, <2>2, <2>3 DEF PlaceholderExpires, KeyInv
  <2>4. CASE ~Creating(k)
    <3>1. doubling' = doubling /\ \A d \in Clients : ~Creator(d, k)
      BY <1>6, <2>4 DEF PlaceholderExpires, Creating, Creator
    <3>2. ASSUME ~doubling', NEW d \in Clients PROVE LockHeld(d)' /\ Unborn(d)'
      BY <3>1, <3>2, <2>1, <1>a, <1>b DEF LockHeld, Unborn, Creator, Keyed
    <3>3. ASSUME ~doubling', NEW u \in Orders PROVE Answered(u)' /\ Alone(u)'
      BY <3>1, <3>3, <2>1, <1>a, <1>b DEF Answered, Alone, Creator
    <3> QED
      BY <2>2, <3>2, <3>3 DEF KeyInv
  <2> QED
    BY <2>3, <2>4
<1>7. ASSUME NEW k \in Keys, AnswerExpires(k) PROVE KeyInv'
  <2>1. ASSUME NEW d \in Clients PROVE Keyed(d)'
    BY <1>7, <1>b DEF AnswerExpires, Keyed
  <2> QED
    BY <1>7, <2>1, <1>c DEF AnswerExpires, Doubling
<1> QED
  BY <1>1, <1>2, <1>3, <1>4, <1>5, <1>6, <1>7

LEMMA KeyHolds == IInv /\ KeyInv /\ [Next]_vars => KeyInv'
BY OthersAreQuiet, QuietStep, CreationKeepsKeys DEF IInv, Next, ClientStep

------------------------------------------------------------------------------
(***************************************************************************)
(* Every variable keeps its type, for any orders, keys, requests, scans    *)
(* and faults (requests and scans of workorder-service).                   *)
(***************************************************************************)
THEOREM TypeCorrect == Spec => []TypeOK
<1>1. Spec => []IInv
  BY InitHolds, StepHolds, PTL DEF Spec
<1> QED
  BY <1>1, PTL DEF IInv

(***************************************************************************)
(* However requests and overlapping scans interleave and whatever fails,   *)
(* the flow rows of an order tell its life without a gap and an order has  *)
(* one audit row of an escalation at most (updateworkorderstatuslogic.go,  *)
(* cron/escalate.go).                                                      *)
(***************************************************************************)
THEOREM FlowCorrect == Spec => []FlowTellsLife
<1>1. IInv => FlowTellsLife
  BY DEF IInv, RowTold, Linked, EscalatedAtMostOnce, FlowTellsLife
<1>2. Spec => []IInv
  BY InitHolds, StepHolds, PTL DEF Spec
<1> QED
  BY <1>1, <1>2, PTL

(***************************************************************************)
(* Only after a fault of Doubling (Redis does not answer, a commit's answer *)
(* is lost, the answer is not cached, the insert outlives its placeholder,  *)
(* or a day has passed) are two orders created under one key, by any number *)
(* of requests at once or repeated (createworkorderlogic.go:61).            *)
(***************************************************************************)
THEOREM KeyCorrect == Spec => []OneOrderPerKey
<1>1. Init => KeyInv
  BY WorkOrderAssumption DEF Init, KeyInv, Keyed, LockHeld, Unborn, Answered, Alone, Procs
<1>2. IInv /\ KeyInv => OneOrderPerKey
  BY DEF KeyInv, Alone, OneOrderPerKey
<1>3. Spec => []IInv
  BY InitHolds, StepHolds, PTL DEF Spec
<1>4. Spec => []KeyInv
  BY <1>1, <1>3, KeyHolds, PTL DEF Spec
<1> QED
  BY <1>2, <1>3, <1>4, PTL

------------------------------------------------------------------------------
(* Announcements. *)

\* A creator is where its notice is; a recall that passed its check knows a notice that
\* was published, and tells of one that is withdrawn.
Created(n) ==
  /\ creator[n] = "new" => notice[n] = "none"
  /\ creator[n] = "tell" => notice[n] \in {"published", "withdrawn"}

Recalled(q) ==
  /\ recall[q].at \in {"update", "tell"} => recall[q].notice \in Notices
  /\ recall[q].at = "update" => notice[recall[q].notice] \in {"published", "withdrawn"}
  /\ recall[q].at = "tell" => notice[recall[q].notice] = "withdrawn"

NoticeIInv ==
  /\ NoticeTypeOK
  /\ \A n \in Notices : Created(n)
  /\ \A q \in Recalls : Recalled(q)
  /\ AnnouncedAsStored

SentAs(k, n, s) == k \in DOMAIN topic /\ topic[k] = Written(n, s, 1)
InTopic(k, n, s) == k \in DOMAIN topic /\ topic[k].notice = n /\ topic[k].status = s
Owes(r, n) == r \in PublishRuns /\ run[r].tell = n

\* One announcement at most, spelled out; and none.
Once(n) ==
  /\ \A j, k : SentAs(j, n, "published") /\ SentAs(k, n, "published") => j = k
  /\ \A r, s : Owes(r, n) /\ Owes(s, n) => r = s
  /\ \A k, r : ~(SentAs(k, n, "published") /\ Owes(r, n))
  /\ creator[n] = "tell" => (\A k : ~SentAs(k, n, "published")) /\ \A r : ~Owes(r, n)

Untold(n) ==
  /\ \A k : ~SentAs(k, n, "published") /\ ~InTopic(k, n, "published")
  /\ \A r : ~Owes(r, n)
  /\ creator[n] # "tell"

StoredAs(n) ==
  /\ Once(n)
  /\ notice[n] \in {"none", "draft"} => Untold(n) /\ n \notin banner
  /\ \A k : InTopic(k, n, "withdrawn") => notice[n] = "withdrawn"

LEMMA StoredMeans == AnnouncedAsStored <=> \A n \in Notices : StoredAs(n)
<1> SUFFICES ASSUME NEW n \in Notices
             PROVE  /\ Once(n) <=> \A x, y \in Announcements(n) : x = y
                    /\ Untold(n) <=> Announcements(n) = {} /\ ~Told(n, "published")
                    /\ Told(n, "withdrawn") <=> \E k : InTopic(k, n, "withdrawn")
  BY DEF AnnouncedAsStored, StoredAs
<1>1. \A x : x \in Announcements(n) <=>
           \/ \E k : SentAs(k, n, "published") /\ x = <<"sent", k>>
           \/ \E r : Owes(r, n) /\ x = <<"run", r>>
           \/ creator[n] = "tell" /\ x = <<"creator", n>>
  BY DEF Announcements, SentAs, Owes
<1>2. Once(n) => \A x, y \in Announcements(n) : x = y
  BY <1>1 DEF Once
<1>3. ASSUME \A x, y \in Announcements(n) : x = y  PROVE Once(n)
  <2>1. \A k : SentAs(k, n, "published") => <<"sent", k>> \in Announcements(n)
    BY <1>1
  <2>2. \A r : Owes(r, n) => <<"run", r>> \in Announcements(n)
    BY <1>1
  <2>3. creator[n] = "tell" => <<"creator", n>> \in Announcements(n)
    BY <1>1
  <2>4. /\ \A j, k : <<"sent", j>> = <<"sent", k>> => j = k
        /\ \A j, k : <<"run", j>> = <<"run", k>> => j = k
        /\ \A j, k : <<"sent", j>> # <<"run", k>>
        /\ \A j, k : <<"sent", j>> # <<"creator", k>>
        /\ \A j, k : <<"run", j>> # <<"creator", k>>
    OBVIOUS
  <2>5. ASSUME NEW j, NEW k, SentAs(j, n, "published"), SentAs(k, n, "published")  PROVE j = k
    <3>1. <<"sent", j>> = <<"sent", k>>
      BY <1>3, <2>1, <2>5
    <3> QED  BY <2>4, <3>1
  <2>6. ASSUME NEW r, NEW q, Owes(r, n), Owes(q, n)  PROVE r = q
    <3>1. <<"run", r>> = <<"run", q>>
      BY <1>3, <2>2, <2>6
    <3> QED  BY <2>4, <3>1
  <2>7. ASSUME NEW k, NEW r, SentAs(k, n, "published"), Owes(r, n)  PROVE FALSE
    <3>1. <<"sent", k>> = <<"run", r>>
      BY <1>3, <2>1, <2>2, <2>7
    <3> QED  BY <2>4, <3>1
  <2>8. creator[n] = "tell" => (\A k : ~SentAs(k, n, "published")) /\ \A r : ~Owes(r, n)
    BY <1>3, <2>1, <2>2, <2>3, <2>4
  <2> QED  BY <2>5, <2>6, <2>7, <2>8 DEF Once
<1>4. \A s : Told(n, s) <=> \E k : InTopic(k, n, s)
  BY DEF Told, InTopic
<1>5. Untold(n) <=> Announcements(n) = {} /\ ~Told(n, "published")
  BY <1>1, <1>4 DEF Untold
<1> QED  BY <1>2, <1>3, <1>4, <1>5

LEMMA NoticeStarts == ASSUME NoticeInit PROVE NoticeIInv
<1>1. NoticeTypeOK
  BY NoticeAssumption DEF NoticeInit, NoticeTypeOK, NoticeStatuses, Idle, Event
<1>2. \A n \in Notices : Announcements(n) = {} /\ (\A s : ~Told(n, s)) /\ n \notin banner
  BY NoticeAssumption DEF NoticeInit, Announcements, Told, Idle
<1>3. AnnouncedAsStored
  BY <1>2 DEF AnnouncedAsStored
<1>4. (\A n \in Notices : Created(n)) /\ (\A q \in Recalls : Recalled(q))
  BY DEF NoticeInit, Created, Recalled
<1> QED  BY <1>1, <1>3, <1>4 DEF NoticeIInv

LEMMA NoticeTypeHolds == ASSUME NoticeTypeOK, [NoticeNext]_noticeVars,
                         \A q \in Recalls : Recalled(q)
                         PROVE NoticeTypeOK'
<1> USE NoticeAssumption DEF NoticeTypeOK, NoticeStatuses
<1>0. Idle \in [todo : SUBSET Notices, tell : Notices \cup {NoNotice}]
  BY DEF Idle
<1>t. ASSUME NEW n \in Notices, NEW s \in {"published", "withdrawn"}, Tell(n, s)
      PROVE  topic' \in Seq(Event) /\ pushed \in 0..Len(topic') /\ noticeFaults' \in 0..MaxNoticeFaults
  <2>1. \A c \in {1, 2} : Written(n, s, c) \in Event
    BY DEF Event, Written
  <2>2. topic \in Seq(Event) /\ pushed \in 0..Len(topic) /\ Len(topic) \in Nat
    OBVIOUS
  <2>3. CASE topic' = Append(topic, Written(n, s, 1)) /\ UNCHANGED noticeFaults
    <3>1. topic' \in Seq(Event) /\ Len(topic') = Len(topic) + 1
      BY <2>1, <2>2, <2>3
    <3> QED  BY <2>2, <2>3, <3>1
  <2>4. CASE NoticeFault /\ UNCHANGED topic
    BY <2>2, <2>4 DEF NoticeFault
  <2>5. CASE NoticeFault /\ topic' = topic \o <<Written(n, s, 1), Written(n, s, 2)>>
    <3>1. topic' \in Seq(Event) /\ Len(topic') = Len(topic) + 2
      BY <2>1, <2>2, <2>5
    <3> QED  BY <2>2, <2>5, <3>1 DEF NoticeFault
  <2> QED  BY <1>t, <2>3, <2>4, <2>5 DEF Tell
<1>1. ASSUME NEW n \in Notices, CreateNow(n) \/ CreateLater(n) \/ TimeComes(n)
      PROVE NoticeTypeOK'
  <2>1. CASE CreateNow(n)
    BY <2>1 DEF CreateNow
  <2>2. CASE CreateLater(n)
    BY <2>2 DEF CreateLater
  <2>3. CASE TimeComes(n)
    BY <2>3 DEF TimeComes
  <2> QED  BY <1>1, <2>1, <2>2, <2>3
<1>2. ASSUME NEW n \in Notices, CreatorTells(n)  PROVE NoticeTypeOK'
  BY <1>2, <1>t DEF CreatorTells
<1>3. ASSUME NEW q \in Recalls, NEW n \in Notices, Load(q, n)  PROVE NoticeTypeOK'
  BY <1>3 DEF Load
<1>4. ASSUME NEW q \in Recalls, Withdraw(q)  PROVE NoticeTypeOK'
  <2>1. notice' \in [Notices -> NoticeStatuses] /\ noticeFaults' \in 0..MaxNoticeFaults
    BY <1>4 DEF Withdraw, NoticeFault
  <2>2. recall' \in [Recalls -> [at : {"new", "update", "tell", "done"},
                                notice : Notices \cup {NoNotice}]]
    <3>1. recall' = [recall EXCEPT ![q].at = "tell"] \/ recall' = [recall EXCEPT ![q].at = "done"]
      BY <1>4 DEF Withdraw
    <3>2. \A s \in {"tell", "done"} : [recall[q] EXCEPT !.at = s] \in
            [at : {"new", "update", "tell", "done"}, notice : Notices \cup {NoNotice}]
      <4>1. PICK c \in [at : {"new", "update", "tell", "done"}, notice : Notices \cup {NoNotice}] :
              c = recall[q]
        OBVIOUS
      <4>2. \A s \in {"tell", "done"} : [c EXCEPT !.at = s] = [at |-> s, notice |-> c.notice]
        OBVIOUS
      <4> QED  BY <4>1, <4>2
    <3>3. recall' = [recall EXCEPT ![q] = [recall[q] EXCEPT !.at = "tell"]]
          \/ recall' = [recall EXCEPT ![q] = [recall[q] EXCEPT !.at = "done"]]
      BY <3>1
    <3> QED  BY <3>2, <3>3
  <2> QED  BY <1>4, <2>1, <2>2 DEF Withdraw
<1>5. ASSUME NEW q \in Recalls, RecallTells(q)  PROVE NoticeTypeOK'
  <2>1. recall[q].notice \in Notices
    BY <1>5 DEF RecallTells, Recalled
  <2> QED  BY <1>5, <1>t, <2>1 DEF RecallTells
<1>6. ASSUME NEW r \in PublishRuns, ListDue(r)  PROVE NoticeTypeOK'
  BY <1>6 DEF ListDue, FirstDue, DueDrafts
<1>7. ASSUME NEW r \in PublishRuns, NEW n \in Notices, Publish(r, n)  PROVE NoticeTypeOK'
  BY <1>7 DEF Publish, NoticeFault
<1>8. ASSUME NEW r \in PublishRuns, RunTells(r)  PROVE NoticeTypeOK'
  <2>1. run[r].tell \in Notices
    BY <1>8 DEF RunTells
  <2> QED  BY <1>8, <1>t, <2>1 DEF RunTells
<1>9. ASSUME NEW r \in PublishRuns, RunDies(r)  PROVE NoticeTypeOK'
  BY <1>9, <1>0 DEF RunDies, NoticeFault
<1>10. ASSUME Push  PROVE NoticeTypeOK'
  <2>1. topic \in Seq(Event) /\ pushed \in 0..Len(topic) /\ Len(topic) \in Nat
    OBVIOUS
  <2>2. pushed < Len(topic) => topic[pushed + 1] \in Event
    BY <2>1
  <2>3. pushed < Len(topic) => topic[pushed + 1].notice \in Notices
    BY <2>2 DEF Event
  <2>4. pushed' \in 0..Len(topic') /\ banner' \subseteq Notices /\ noticeFaults' \in 0..MaxNoticeFaults
    <3>1. /\ pushed < Len(topic) /\ topic' = topic
          /\ pushed' \in {pushed, pushed + 1}
          /\ banner' \in {banner, banner \cup {topic[pushed + 1].notice}}
      BY <1>10 DEF Push
    <3>2. noticeFaults' = noticeFaults \/ NoticeFault
      BY <1>10 DEF Push
    <3> QED  BY <2>1, <2>3, <3>1, <3>2 DEF NoticeFault
  <2> QED  BY <1>10, <2>4 DEF Push
<1>11. ASSUME UNCHANGED noticeVars  PROVE NoticeTypeOK'
  BY <1>11 DEF noticeVars
<1> QED  BY <1>1, <1>2, <1>3, <1>4, <1>5, <1>6, <1>7, <1>8, <1>9, <1>10, <1>11 DEF NoticeNext

\* What a message adds.
LEMMA Telling ==
  ASSUME NoticeTypeOK, NEW m \in Notices, NEW s, Tell(m, s)
  PROVE  /\ \A k, n, t : SentAs(k, n, t)' =>
                SentAs(k, n, t) \/ (n = m /\ t = s /\ k = Len(topic) + 1)
         /\ \A k, n, t : InTopic(k, n, t)' => InTopic(k, n, t) \/ (n = m /\ t = s)
<1>1. CASE topic' = topic
  BY <1>1 DEF SentAs, InTopic
<1>2. CASE topic' = Append(topic, Written(m, s, 1))
  <2>1. /\ DOMAIN topic' = 1..(Len(topic) + 1) /\ DOMAIN topic = 1..Len(topic)
        /\ Len(topic) \in Nat
        /\ topic'[Len(topic) + 1] = Written(m, s, 1)
        /\ \A k \in 1..Len(topic) : topic'[k] = topic[k]
    BY <1>2 DEF NoticeTypeOK
  <2> QED  BY <2>1 DEF SentAs, InTopic, Written
<1>3. CASE topic' = topic \o <<Written(m, s, 1), Written(m, s, 2)>>
  <2>1. /\ DOMAIN topic' = 1..(Len(topic) + 2) /\ DOMAIN topic = 1..Len(topic)
        /\ Len(topic) \in Nat
        /\ topic'[Len(topic) + 1] = Written(m, s, 1)
        /\ topic'[Len(topic) + 2] = Written(m, s, 2)
        /\ \A k \in 1..Len(topic) : topic'[k] = topic[k]
    BY <1>3 DEF NoticeTypeOK
  <2>2. ASSUME NEW k \in DOMAIN topic'
        PROVE  k \in DOMAIN topic \/ k = Len(topic) + 1 \/ k = Len(topic) + 2
    BY <2>1
  <2> QED  BY <2>1, <2>2 DEF SentAs, InTopic, Written
<1> QED  BY <1>1, <1>2, <1>3 DEF Tell

\* A step that adds no announcement, and only such rows as may have been announced.
LEMMA QuietKeeps ==
  ASSUME NEW n \in Notices, StoredAs(n), topic' = topic,
         creator'[n] = "tell" => creator[n] = "tell",
         \A r \in PublishRuns : run'[r].tell = n => run[r].tell = n,
         notice'[n] \in {"none", "draft"} =>
           notice[n] \in {"none", "draft"} /\ (n \in banner' => n \in banner),
         notice[n] = "withdrawn" => notice'[n] = "withdrawn"
  PROVE  StoredAs(n)'
BY DEF StoredAs, Once, Untold, SentAs, InTopic, Owes

LEMMA NoticeKeeps == ASSUME NoticeIInv, [NoticeNext]_noticeVars PROVE NoticeIInv'
<1> USE NoticeAssumption
<1>0. NoticeTypeOK /\ NoticeTypeOK'
  BY NoticeTypeHolds DEF NoticeIInv
<1>s. \A n \in Notices : StoredAs(n) /\ Created(n)
  BY StoredMeans DEF NoticeIInv
<1>r. \A q \in Recalls : Recalled(q)
  BY DEF NoticeIInv
<1> DEFINE Good == /\ \A n \in Notices : StoredAs(n)' /\ Created(n)'
                   /\ \A q \in Recalls : Recalled(q)'
<1>1. ASSUME NEW m \in Notices, CreateNow(m)  PROVE Good
  <2>1. notice[m] = "none" /\ creator'[m] = "tell" /\ notice'[m] = "published"
    BY <1>0, <1>1, <1>s DEF CreateNow, Created, NoticeTypeOK
  <2>2. \A n \in Notices \ {m} : creator'[n] = creator[n] /\ notice'[n] = notice[n]
    BY <1>0, <1>1 DEF CreateNow, NoticeTypeOK
  <2>3. StoredAs(m)'
    <3>1. Untold(m) /\ \A k : ~InTopic(k, m, "withdrawn")
      BY <1>s, <2>1 DEF StoredAs
    <3> QED  BY <1>1, <2>1, <3>1 DEF StoredAs, Once, Untold, SentAs, InTopic, Owes, CreateNow
  <2>4. ASSUME NEW n \in Notices \ {m}  PROVE StoredAs(n)'
    BY <1>1, <1>s, <2>2, QuietKeeps DEF CreateNow
  <2>5. \A n \in Notices : Created(n)'
    BY <1>s, <2>1, <2>2 DEF Created
  <2>6. \A q \in Recalls : Recalled(q)'
    BY <1>1, <1>r, <2>1, <2>2 DEF Recalled, CreateNow
  <2> QED  BY <2>3, <2>4, <2>5, <2>6
<1>2. ASSUME NEW m \in Notices, CreateLater(m)  PROVE Good
  <2>1. notice[m] = "none" /\ creator'[m] = "done" /\ notice'[m] = "draft"
    BY <1>0, <1>2, <1>s DEF CreateLater, Created, NoticeTypeOK
  <2>2. \A n \in Notices \ {m} : creator'[n] = creator[n] /\ notice'[n] = notice[n]
    BY <1>0, <1>2 DEF CreateLater, NoticeTypeOK
  <2>3. ASSUME NEW n \in Notices  PROVE StoredAs(n)'
    BY <1>2, <1>s, <2>1, <2>2, QuietKeeps DEF CreateLater
  <2>5. \A n \in Notices : Created(n)'
    BY <1>s, <2>1, <2>2 DEF Created
  <2>6. \A q \in Recalls : Recalled(q)'
    BY <1>2, <1>r, <2>1, <2>2 DEF Recalled, CreateLater
  <2> QED  BY <2>3, <2>5, <2>6
<1>3. ASSUME NEW m \in Notices, CreatorTells(m)  PROVE Good
  <2>1. /\ creator[m] = "tell" /\ creator'[m] = "done"
        /\ \A n \in Notices \ {m} : creator'[n] = creator[n]
        /\ notice' = notice /\ banner' = banner /\ run' = run /\ recall' = recall
        /\ Tell(m, "published")
    BY <1>0, <1>3 DEF CreatorTells, NoticeTypeOK
  <2>2. \A k, n, t :
        /\ SentAs(k, n, t)' => SentAs(k, n, t) \/ (n = m /\ t = "published" /\ k = Len(topic) + 1)
        /\ InTopic(k, n, t)' => InTopic(k, n, t) \/ (n = m /\ t = "published")
    BY <1>0, <2>1, Telling
  <2>3. ASSUME NEW n \in Notices  PROVE StoredAs(n)'
    <3>1. CASE n = m
      <4>1. (\A k : ~SentAs(k, m, "published")) /\ (\A r : ~Owes(r, m))
            /\ notice'[m] \notin {"none", "draft"}
        BY <1>s, <2>1 DEF StoredAs, Once, Created
      <4>2. \A k : SentAs(k, m, "published")' => k = Len(topic) + 1
        BY <2>2, <4>1
      <4>3. \A k : InTopic(k, m, "withdrawn")' => notice'[m] = "withdrawn"
        BY <1>s, <2>1, <2>2 DEF StoredAs
      <4>4. (\A r : ~Owes(r, m)') /\ creator'[m] # "tell"
        BY <2>1, <4>1 DEF Owes
      <4> QED  BY <3>1, <4>1, <4>2, <4>3, <4>4 DEF StoredAs, Once
    <3>2. CASE n # m
      BY <1>s, <2>1, <2>2, <3>2 DEF StoredAs, Once, Untold, Owes
    <3> QED  BY <3>1, <3>2
  <2>5. \A n \in Notices : Created(n)'
    BY <1>s, <2>1 DEF Created
  <2>6. \A q \in Recalls : Recalled(q)'
    BY <1>r, <2>1 DEF Recalled
  <2> QED  BY <2>3, <2>5, <2>6
<1>4. ASSUME NEW m \in Notices, TimeComes(m)  PROVE Good
  <2>1. UNCHANGED <<notice, creator, recall, run, topic, banner>>
    BY <1>4 DEF TimeComes
  <2>3. ASSUME NEW n \in Notices  PROVE StoredAs(n)'
    BY <1>s, <2>1, QuietKeeps
  <2> QED  BY <1>s, <1>r, <2>1, <2>3 DEF Created, Recalled
<1>5. ASSUME NEW q \in Recalls, NEW m \in Notices, Load(q, m)  PROVE Good
  <2>1. UNCHANGED <<notice, creator, run, topic, banner>>
    BY <1>5 DEF Load
  <2>3. ASSUME NEW n \in Notices  PROVE StoredAs(n)'
    BY <1>s, <2>1, QuietKeeps
  <2>4. recall' = [recall EXCEPT ![q] = [at |-> IF notice[m] = "published" THEN "update" ELSE "done",
                                         notice |-> m]]
    BY <1>5 DEF Load
  <2>5. \A p \in Recalls : Recalled(p)'
    BY <1>0, <1>r, <2>1, <2>4 DEF Recalled, NoticeTypeOK
  <2> QED  BY <1>s, <2>1, <2>3, <2>5 DEF Created
<1>6. ASSUME NEW q \in Recalls, Withdraw(q)  PROVE Good
  <2>1. /\ recall[q].at = "update" /\ recall[q].notice \in Notices
        /\ notice[recall[q].notice] \in {"published", "withdrawn"}
        /\ UNCHANGED <<creator, run, topic, banner>>
    BY <1>6, <1>r DEF Withdraw, Recalled
  <2> DEFINE m == recall[q].notice
  <2>2. CASE notice' = [notice EXCEPT ![m] = "withdrawn"] /\ recall' = [recall EXCEPT ![q].at = "tell"]
    <3>1. notice'[m] = "withdrawn" /\ \A n \in Notices \ {m} : notice'[n] = notice[n]
      BY <1>0, <2>1, <2>2 DEF NoticeTypeOK
    <3> HIDE DEF m
    <3>2. ASSUME NEW n \in Notices  PROVE StoredAs(n)'
      BY <1>s, <2>1, <3>1, QuietKeeps DEF m
    <3>3. \A n \in Notices : Created(n)'
      BY <1>s, <2>1, <3>1 DEF Created, m
    <3>4. ASSUME NEW p \in Recalls  PROVE Recalled(p)'
      <4>1. recall'[p].notice = recall[p].notice
            /\ (p # q => recall'[p].at = recall[p].at) /\ recall'[q].at = "tell"
        BY <1>0, <2>2 DEF NoticeTypeOK
      <4> QED  BY <1>r, <2>1, <3>1, <4>1 DEF Recalled, m
    <3> QED  BY <3>2, <3>3, <3>4
  <2>3. CASE notice' = notice /\ recall' = [recall EXCEPT ![q].at = "done"]
    <3>1. ASSUME NEW n \in Notices  PROVE StoredAs(n)'
      BY <1>s, <2>1, <2>3, QuietKeeps
    <3>2. ASSUME NEW p \in Recalls  PROVE Recalled(p)'
      BY <1>0, <1>r, <2>3 DEF Recalled, NoticeTypeOK
    <3> QED  BY <1>s, <2>1, <2>3, <3>1, <3>2 DEF Created
  <2> QED  BY <1>6, <2>2, <2>3 DEF Withdraw
<1>7. ASSUME NEW q \in Recalls, RecallTells(q)  PROVE Good
  <2>1. /\ recall[q].notice \in Notices /\ notice[recall[q].notice] = "withdrawn"
        /\ UNCHANGED <<notice, creator, run, banner>>
        /\ Tell(recall[q].notice, "withdrawn")
    BY <1>7, <1>r DEF RecallTells, Recalled
  <2>2. \A k, n, t :
        /\ SentAs(k, n, t)' => SentAs(k, n, t) \/ (n = recall[q].notice /\ t = "withdrawn" /\ k = Len(topic) + 1)
        /\ InTopic(k, n, t)' => InTopic(k, n, t) \/ (n = recall[q].notice /\ t = "withdrawn")
    BY <1>0, <2>1, Telling
  <2>3. ASSUME NEW n \in Notices  PROVE StoredAs(n)'
    BY <1>s, <2>1, <2>2 DEF StoredAs, Once, Untold, Owes
  <2>4. recall' = [recall EXCEPT ![q].at = "done"]
    BY <1>7 DEF RecallTells
  <2>5. ASSUME NEW p \in Recalls  PROVE Recalled(p)'
    BY <1>0, <1>r, <2>1, <2>4 DEF Recalled, NoticeTypeOK
  <2> QED  BY <1>s, <2>1, <2>3, <2>5 DEF Created
<1>8. ASSUME NEW r \in PublishRuns, ListDue(r) \/ RunDies(r)  PROVE Good
  <2>1. UNCHANGED <<notice, creator, recall, topic, banner>>
    BY <1>8 DEF ListDue, RunDies
  <2>2. \A s \in PublishRuns : run'[s].tell = run[s].tell \/ run'[s].tell = NoNotice
    BY <1>0, <1>8 DEF ListDue, RunDies, Idle, NoticeTypeOK
  <2>3. ASSUME NEW n \in Notices  PROVE StoredAs(n)'
    BY <1>s, <2>1, <2>2, QuietKeeps
  <2> QED  BY <1>s, <1>r, <2>1, <2>3 DEF Created, Recalled
<1>9. ASSUME NEW r \in PublishRuns, NEW m \in Notices, Publish(r, m)  PROVE Good
  <2>1. UNCHANGED <<creator, recall, topic, banner>> /\ run[r].tell = NoNotice
    BY <1>9 DEF Publish
  <2>2. CASE WinsDraft(m) /\ notice' = [notice EXCEPT ![m] = "published"]
             /\ run' = [run EXCEPT ![r] = [todo |-> run[r].todo \ {m}, tell |-> m]]
    <3>1. /\ notice[m] = "draft" /\ notice'[m] = "published"
          /\ \A n \in Notices \ {m} : notice'[n] = notice[n]
          /\ run'[r].tell = m /\ \A s \in PublishRuns \ {r} : run'[s] = run[s]
      BY <1>0, <2>2 DEF NoticeTypeOK, WinsDraft
    <3>2. StoredAs(m)'
      <4>1. Untold(m) /\ \A k : ~InTopic(k, m, "withdrawn")
        BY <1>s, <3>1 DEF StoredAs
      <4> QED  BY <2>1, <3>1, <4>1 DEF StoredAs, Once, Untold, SentAs, InTopic, Owes
    <3>3. ASSUME NEW n \in Notices \ {m}  PROVE StoredAs(n)'
      BY <1>s, <2>1, <3>1, QuietKeeps
    <3>4. \A n \in Notices : Created(n)'
      BY <1>s, <2>1, <3>1 DEF Created
    <3>5. \A q \in Recalls : Recalled(q)'
      BY <1>r, <2>1, <3>1 DEF Recalled
    <3> QED  BY <3>2, <3>3, <3>4, <3>5
  <2>3. CASE notice' = notice
             /\ run' = [run EXCEPT ![r] = [todo |-> run[r].todo \ {m}, tell |-> NoNotice]]
    <3>1. \A s \in PublishRuns : run'[s].tell = run[s].tell
      BY <1>0, <2>1, <2>3 DEF NoticeTypeOK
    <3>2. ASSUME NEW n \in Notices  PROVE StoredAs(n)'
      BY <1>s, <2>1, <2>3, <3>1, QuietKeeps
    <3> QED  BY <1>s, <1>r, <2>1, <2>3, <3>2 DEF Created, Recalled
  <2> QED  BY <1>9, <2>2, <2>3 DEF Publish
<1>10. ASSUME NEW r \in PublishRuns, RunTells(r)  PROVE Good
  <2>0. PICK m : m = run[r].tell
    OBVIOUS
  <2>1. /\ m \in Notices /\ UNCHANGED <<notice, creator, recall, banner>>
        /\ Tell(m, "published") /\ run' = [run EXCEPT ![r].tell = NoNotice]
    BY <1>0, <1>10, <2>0 DEF RunTells, NoticeTypeOK
  <2>2. \A k, n, t :
        /\ SentAs(k, n, t)' => SentAs(k, n, t) \/ (n = m /\ t = "published" /\ k = Len(topic) + 1)
        /\ InTopic(k, n, t)' => InTopic(k, n, t) \/ (n = m /\ t = "published")
    BY <1>0, <2>1, Telling
  <2>3. Owes(r, m) /\ \A s, n : n \in Notices /\ Owes(s, n)' => s # r /\ Owes(s, n)
    BY <1>0, <2>0, <2>1 DEF Owes, NoticeTypeOK
  <2>4. ASSUME NEW n \in Notices  PROVE StoredAs(n)'
    <3>1. CASE n = m
      <4>1. /\ \A k : ~SentAs(k, m, "published")
            /\ \A s : ~Owes(s, m)'
            /\ creator[m] # "tell" /\ notice[m] \notin {"none", "draft"}
        BY <1>s, <2>1, <2>3 DEF StoredAs, Once, Untold
      <4> QED  BY <1>s, <2>1, <2>2, <3>1, <4>1 DEF StoredAs, Once, Untold
    <3>2. CASE n # m
      <4> QED  BY <1>s, <2>1, <2>2, <2>3, <3>2 DEF StoredAs, Once, Untold
    <3> QED  BY <3>1, <3>2
  <2> QED  BY <1>s, <1>r, <2>1, <2>4 DEF Created, Recalled
<1>11. ASSUME Push  PROVE Good
  <2>1. UNCHANGED <<notice, creator, recall, run, topic>>
    BY <1>11 DEF Push
  <2>2. ASSUME NEW n \in Notices, n \in banner', n \notin banner
        PROVE  notice[n] \notin {"none", "draft"}
    <3>1. pushed + 1 \in DOMAIN topic /\ topic[pushed + 1] \in Event /\ topic[pushed + 1].notice = n
      BY <1>0, <1>11, <2>2 DEF Push, NoticeTypeOK
    <3>2. InTopic(pushed + 1, n, "published") \/ InTopic(pushed + 1, n, "withdrawn")
      BY <3>1 DEF InTopic, Event
    <3> QED  BY <1>s, <2>2, <3>2 DEF StoredAs, Untold
  <2>3. ASSUME NEW n \in Notices  PROVE StoredAs(n)'
    BY <1>s, <2>1, <2>2, QuietKeeps
  <2> QED  BY <1>s, <1>r, <2>1, <2>3 DEF Created, Recalled
<1>12. ASSUME UNCHANGED noticeVars  PROVE Good
  <2>1. UNCHANGED <<notice, creator, recall, run, topic, banner>>
    BY <1>12 DEF noticeVars
  <2>3. ASSUME NEW n \in Notices  PROVE StoredAs(n)'
    BY <1>s, <2>1, QuietKeeps
  <2> QED  BY <1>s, <1>r, <2>1, <2>3 DEF Created, Recalled
<1> HIDE DEF Good
<1>13. Good
  BY <1>1, <1>2, <1>3, <1>4, <1>5, <1>6, <1>7, <1>8, <1>9, <1>10, <1>11, <1>12 DEF NoticeNext
<1>14. AnnouncedAsStored'
  <2>1. \A n \in Notices : StoredAs(n)'
    BY <1>13 DEF Good
  <2>2. (\A n \in Notices : StoredAs(n))'
    BY <2>1
  <2> HIDE DEF Good
  <2> QED  BY <2>2, StoredMeans, PTL
<1> QED  BY <1>0, <1>13, <1>14 DEF NoticeIInv, Good

\* For any number of instances that run the job, and of recalls: a notice has one
\* announcement at most (copies of it by the Writer aside), none while its row is not
\* published, and its recall is told of only when the row is withdrawn.  Nothing is said
\* of the order of the two in the topic (publish.go:96-107, recallnoticelogic.go:58-82).
THEOREM NoticeCorrect == NoticeSpec => []AnnouncedAsStored
<1>1. NoticeInit => NoticeIInv
  BY NoticeStarts
<1>2. NoticeIInv /\ [NoticeNext]_noticeVars => NoticeIInv'
  BY NoticeKeeps
<1>3. NoticeIInv => AnnouncedAsStored
  BY DEF NoticeIInv
<1> QED  BY <1>1, <1>2, <1>3, PTL DEF NoticeSpec

------------------------------------------------------------------------------
(* Letters and unread counts. *)

\* Who has counted and nothing was read since will not write too much.
Counted(a) ==
  /\ poll[a].at \in {"count", "fill"} => poll[a].user \in Readers
  /\ poll[a].at = "fill" /\ ~poll[a].old =>
       \A u \in Readers : u = poll[a].user => poll[a].count <= Unread(u)

Shown(u) ==
  cache[u] > Unread(u) =>
    \/ u \in excused
    \/ \E k \in Marks : mark[k] = [user |-> u, at |-> "forget"]

\* Who handles has a message, and who has marked or deletes has a user.
Handling == \A h \in Handlers : handler[h].at # "idle" => handler[h].event \in OrderEvents
Marking  == \A k \in Marks : mark[k].at = "forget" => mark[k].user \in Readers

InboxIInv ==
  /\ InboxTypeOK /\ Handling /\ Marking
  /\ \A a \in Polls : Counted(a)
  /\ \A u \in Readers : Shown(u)

LEMMA UnreadIs ==
  ASSUME NEW u
  PROVE  Unread(u) \in 0..Cardinality(OrderEvents) /\ Unread(u)' \in 0..Cardinality(OrderEvents)
<1> DEFINE Had == {e \in OrderEvents : letter[e][u] = "unread"}
           Has == {e \in OrderEvents : letter'[e][u] = "unread"}
<1>1. Had \subseteq OrderEvents /\ Has \subseteq OrderEvents /\ IsFiniteSet(OrderEvents)
  BY InboxAssumption
<1> HIDE DEF Had, Has
<1>2. /\ IsFiniteSet(Had) /\ IsFiniteSet(Has)
      /\ Cardinality(Had) <= Cardinality(OrderEvents) /\ Cardinality(Has) <= Cardinality(OrderEvents)
  BY <1>1, FS_Subset
<1>3. Cardinality(Had) \in Nat /\ Cardinality(Has) \in Nat /\ Cardinality(OrderEvents) \in Nat
  BY <1>1, <1>2, FS_CardinalityType
<1> QED  BY <1>2, <1>3 DEF Unread, Had, Has

\* More letters of u are unread than before, or the same.
LEMMA UnreadGrows ==
  ASSUME NEW u, \A e \in OrderEvents : letter[e][u] = "unread" => letter'[e][u] = "unread"
  PROVE  Unread(u) <= Unread(u)'
<1> DEFINE Had == {e \in OrderEvents : letter[e][u] = "unread"}
           Has == {e \in OrderEvents : letter'[e][u] = "unread"}
<1>1. Had \subseteq Has /\ Has \subseteq OrderEvents /\ IsFiniteSet(OrderEvents)
  BY InboxAssumption
<1> HIDE DEF Had, Has
<1>2. IsFiniteSet(Has)
  BY <1>1, FS_Subset
<1>3. Cardinality(Had) <= Cardinality(Has)
  BY <1>1, <1>2, FS_Subset
<1> QED  BY <1>3 DEF Unread, Had, Has

LEMMA InboxStarts == ASSUME InboxInit PROVE InboxIInv
<1>0. Cardinality(OrderEvents) \in Nat
  BY InboxAssumption, FS_CardinalityType
<1>1. InboxTypeOK /\ Handling /\ Marking
  BY <1>0, InboxAssumption DEF InboxInit, InboxTypeOK, LetterStates, NoCount, Handling, Marking
<1>2. ASSUME NEW a \in Polls  PROVE Counted(a)
  BY DEF InboxInit, Counted
<1>3. ASSUME NEW u \in Readers  PROVE Shown(u)
  <2>1. cache[u] = -1 /\ Unread(u) \in Nat
    BY UnreadIs, <1>0 DEF InboxInit, NoCount
  <2> QED  BY <2>1 DEF Shown
<1> QED  BY <1>1, <1>2, <1>3 DEF InboxIInv

\* A step that touches counts in no way, and no letter but to make one unread.
LEMMA LettersKeep ==
  ASSUME InboxTypeOK, \A a \in Polls : Counted(a), \A u \in Readers : Shown(u),
         UNCHANGED countVars,
         \A e \in OrderEvents, u \in Readers : letter[e][u] = "unread" => letter'[e][u] = "unread"
  PROVE  (\A a \in Polls : Counted(a)') /\ (\A u \in Readers : Shown(u)')
<1>1. ASSUME NEW u \in Readers
      PROVE  Unread(u) <= Unread(u)' /\ Unread(u) \in Int /\ Unread(u)' \in Int /\ cache[u] \in Int
  <2>1. cache[u] \in Int
    BY InboxAssumption, FS_CardinalityType DEF InboxTypeOK, NoCount
  <2>2. Unread(u) \in Int /\ Unread(u)' \in Int
    BY UnreadIs
  <2>3. Unread(u) <= Unread(u)'
    BY UnreadGrows
  <2> QED  BY <2>1, <2>2, <2>3
<1>2. ASSUME NEW u \in Readers  PROVE Shown(u)'
  <2>1. cache[u] > Unread(u)' => cache[u] > Unread(u)
    BY <1>1
  <2> QED  BY <2>1 DEF Shown, countVars
<1>3. ASSUME NEW a \in Polls  PROVE Counted(a)'
  <2>1. ASSUME poll[a].at = "fill", ~poll[a].old, NEW u \in Readers, u = poll[a].user
        PROVE  poll[a].count <= Unread(u)'
    <3>1. poll[a].count <= Unread(u) /\ poll[a].count \in Int
      BY <2>1 DEF Counted, InboxTypeOK
    <3> QED  BY <1>1, <3>1
  <2>2. poll' = poll
    BY DEF countVars
  <2> QED  BY <2>1, <2>2 DEF Counted
<1> QED  BY <1>2, <1>3

LEMMA InboxTypeHolds ==
  ASSUME InboxTypeOK, Handling, Marking, \A a \in Polls : Counted(a), [InboxNext]_inboxVars
  PROVE  InboxTypeOK' /\ Handling' /\ Marking'
<1>0. Cardinality(OrderEvents) \in Nat
  BY InboxAssumption, FS_CardinalityType
<1> DEFINE Good == InboxTypeOK' /\ Handling' /\ Marking'
<1>l. ASSUME UNCHANGED <<countVars, stored, letter, handled>>, InboxFault \/ UNCHANGED inboxFaults,
             NEW h \in Handlers, NEW e \in OrderEvents \cup {NoEvent}, NEW s \in {"idle", "notice", "letters", "commit"},
             handler' = [handler EXCEPT ![h] = [event |-> e, at |-> s]],
             s # "idle" => e \in OrderEvents
      PROVE  Good
  BY <1>0, <1>l, InboxAssumption DEF InboxTypeOK, Handling, Marking, countVars, InboxFault
<1>1. ASSUME NEW h \in Handlers, NEW e \in OrderEvents, Take(h, e)  PROVE Good
  BY <1>1, <1>l DEF Take
<1>2. ASSUME NEW h \in Handlers, StoreNotice(h)  PROVE Good
  <2>1. handler[h].event \in OrderEvents
    BY <1>2 DEF StoreNotice, Handling
  <2> QED  BY <1>2, <2>1 DEF StoreNotice, countVars, InboxTypeOK, Handling, Marking
<1>3. ASSUME NEW h \in Handlers, StoreLetters(h)  PROVE Good
  <2>1. handler[h].event \in OrderEvents
    BY <1>3 DEF StoreLetters, Handling
  <2> QED  BY <1>3, <2>1 DEF StoreLetters, countVars, InboxTypeOK, Handling, Marking, LetterStates
<1>4. ASSUME NEW h \in Handlers, HandlerReturns(h)  PROVE Good
  <2>1. handler[h].event \in OrderEvents
    BY <1>4 DEF HandlerReturns, Handling
  <2> QED  BY <1>4, <2>1 DEF HandlerReturns, countVars, InboxTypeOK, Handling, Marking
<1>5. ASSUME NEW h \in Handlers, GiveUp(h)  PROVE Good
  BY <1>5, <1>l DEF GiveUp
<1>p. ASSUME NEW a \in Polls, NEW p \in [user : Readers \cup {NoUser}, at : {"new", "count", "fill", "done"},
                                          count : 0..Cardinality(OrderEvents), old : BOOLEAN],
             poll' = [poll EXCEPT ![a] = p], UNCHANGED <<letterVars, mark>>,
             cache' \in [Readers -> {NoCount} \cup 0..Cardinality(OrderEvents)],
             excused' \subseteq Readers, InboxFault \/ UNCHANGED inboxFaults
      PROVE  Good
  BY <1>0, <1>p, InboxAssumption DEF InboxTypeOK, Handling, Marking, letterVars, InboxFault
<1>6. ASSUME NEW a \in Polls, NEW u \in Readers, Hit(a, u)  PROVE Good
  <2>1. poll' = [poll EXCEPT ![a] = [poll[a] EXCEPT !.user = u, !.at = "done"]]
    BY <1>6 DEF Hit, InboxTypeOK
  <2> QED  BY <1>6, <2>1, <1>p DEF Hit, InboxTypeOK
<1>7. ASSUME NEW a \in Polls, NEW u \in Readers, Miss(a, u)  PROVE Good
  <2>1. poll' = [poll EXCEPT ![a] = [poll[a] EXCEPT !.user = u, !.at = "count"]]
    BY <1>7 DEF Miss, InboxTypeOK
  <2> QED  BY <1>7, <2>1, <1>p DEF Miss, InboxTypeOK
<1>8. ASSUME NEW a \in Polls, Count(a)  PROVE Good
  <2>1. poll' = [poll EXCEPT ![a] = [poll[a] EXCEPT !.at = "fill", !.count = Unread(poll[a].user)]]
    BY <1>8 DEF Count, InboxTypeOK
  <2>2. Unread(poll[a].user) \in 0..Cardinality(OrderEvents)
    BY UnreadIs
  <2> QED  BY <1>8, <2>1, <2>2, <1>p DEF Count, InboxTypeOK
<1>9. ASSUME NEW a \in Polls, Fill(a)  PROVE Good
  <2>1. poll' = [poll EXCEPT ![a] = [poll[a] EXCEPT !.at = "done"]]
    BY <1>9 DEF Fill, InboxTypeOK
  <2>2. poll[a].user \in Readers
    BY <1>9 DEF Fill, Counted
  <2>3. /\ cache' \in [Readers -> {NoCount} \cup 0..Cardinality(OrderEvents)]
        /\ excused' \subseteq Readers
        /\ InboxFault \/ UNCHANGED inboxFaults
    BY <1>9, <2>2 DEF Fill, InboxTypeOK
  <2>4. [poll[a] EXCEPT !.at = "done"] \in [user : Readers \cup {NoUser},
          at : {"new", "count", "fill", "done"}, count : 0..Cardinality(OrderEvents), old : BOOLEAN]
    BY DEF InboxTypeOK
  <2>5. UNCHANGED <<letterVars, mark>>
    BY <1>9 DEF Fill
  <2> QED  BY <2>1, <2>3, <2>4, <2>5, <1>p
<1>10. ASSUME NEW k \in Marks, NEW e \in OrderEvents, NEW u \in Readers, Mark(k, e, u)  PROVE Good
  <2>1. /\ poll' \in [Polls -> [user : Readers \cup {NoUser}, at : {"new", "count", "fill", "done"},
                                count : 0..Cardinality(OrderEvents), old : BOOLEAN]]
    <3>1. \A b \in Polls : poll[b] \in [user : Readers \cup {NoUser},
            at : {"new", "count", "fill", "done"}, count : 0..Cardinality(OrderEvents), old : BOOLEAN]
      BY DEF InboxTypeOK
    <3>2. \A b \in Polls : [poll[b] EXCEPT !.old = TRUE] \in [user : Readers \cup {NoUser},
            at : {"new", "count", "fill", "done"}, count : 0..Cardinality(OrderEvents), old : BOOLEAN]
      BY <3>1
    <3>3. poll' = [b \in Polls |-> IF poll[b].user = u /\ poll[b].at = "fill" /\ letter[e][u] = "unread"
                                   THEN [poll[b] EXCEPT !.old = TRUE] ELSE poll[b]]
      BY <1>10 DEF Mark
    <3> QED  BY <3>1, <3>2, <3>3
  <2>2. letter' \in [OrderEvents -> [Readers -> LetterStates]]
    BY <1>10 DEF Mark, InboxTypeOK, LetterStates
  <2>3. mark' \in [Marks -> [user : Readers \cup {NoUser}, at : {"new", "forget", "done"}]] /\ Marking'
    BY <1>10 DEF Mark, InboxTypeOK, Marking
  <2> QED  BY <1>10, <2>1, <2>2, <2>3 DEF Mark, InboxTypeOK, Handling
<1>11. ASSUME NEW k \in Marks, Forget(k)  PROVE Good
  <2>1. mark[k].user \in Readers
    BY <1>11 DEF Forget, Marking
  <2>2. mark' \in [Marks -> [user : Readers \cup {NoUser}, at : {"new", "forget", "done"}]] /\ Marking'
    BY <1>11 DEF Forget, InboxTypeOK, Marking
  <2>3. cache' \in [Readers -> {NoCount} \cup 0..Cardinality(OrderEvents)] /\ excused' \subseteq Readers
    BY <1>11, <2>1 DEF Forget, Forgotten, InboxTypeOK
  <2>4. inboxFaults' \in 0..MaxInboxFaults
    BY <1>11, InboxAssumption DEF Forget, InboxFault, InboxTypeOK
  <2> QED  BY <1>11, <2>2, <2>3, <2>4 DEF Forget, letterVars, InboxTypeOK, Handling
<1>12. ASSUME NEW u \in Readers, Expire(u)  PROVE Good
  BY <1>12 DEF Expire, letterVars, InboxTypeOK, Handling, Marking
<1>13. ASSUME UNCHANGED inboxVars  PROVE Good
  BY <1>13 DEF inboxVars, InboxTypeOK, Handling, Marking
<1> HIDE DEF Good
<1>14. Good
  BY <1>1, <1>2, <1>3, <1>4, <1>5, <1>6, <1>7, <1>8, <1>9, <1>10, <1>11, <1>12, <1>13 DEF InboxNext
<1> QED  BY <1>14 DEF Good

LEMMA InboxKeeps == ASSUME InboxIInv, [InboxNext]_inboxVars PROVE InboxIInv'
<1>0. InboxTypeOK /\ InboxTypeOK' /\ Handling' /\ Marking'
  BY InboxTypeHolds DEF InboxIInv
<1>i. /\ \A a \in Polls : Counted(a)
      /\ \A u \in Readers : Shown(u)
      /\ Marking
  BY DEF InboxIInv
<1>n. /\ \A u : Unread(u) \in Nat /\ Unread(u)' \in Nat
      /\ \A u \in Readers : cache[u] \in Int
  <2>1. Cardinality(OrderEvents) \in Nat
    BY InboxAssumption, FS_CardinalityType
  <2> QED  BY <1>0, <2>1, UnreadIs DEF InboxTypeOK, NoCount
<1> DEFINE Good == (\A a \in Polls : Counted(a)') /\ (\A u \in Readers : Shown(u)')
<1>1. ASSUME UNCHANGED countVars,
             \A e \in OrderEvents, u \in Readers : letter[e][u] = "unread" => letter'[e][u] = "unread"
      PROVE  Good
  BY <1>0, <1>1, <1>i, LettersKeep
<1>2. ASSUME NEW h \in Handlers,
             (\E e \in OrderEvents : Take(h, e)) \/ StoreNotice(h) \/ HandlerReturns(h) \/ GiveUp(h)
      PROVE  Good
  BY <1>1, <1>2 DEF Take, StoreNotice, HandlerReturns, GiveUp
<1>3. ASSUME NEW h \in Handlers, StoreLetters(h)  PROVE Good
  <2>1. \A e \in OrderEvents, u \in Readers : letter[e][u] = "unread" => letter'[e][u] = "unread"
    BY <1>0, <1>3 DEF StoreLetters, InboxTypeOK
  <2> QED  BY <1>1, <1>3, <2>1 DEF StoreLetters
\* A request for the count that writes nothing.
<1>4. ASSUME UNCHANGED <<letter, cache, mark, excused>>, NEW a \in Polls,
             \A b \in Polls \ {a} : poll'[b] = poll[b], Counted(a)'
      PROVE  Good
  <2>1. \A u : Unread(u)' = Unread(u)
    BY <1>4 DEF Unread
  <2>2. ASSUME NEW u \in Readers  PROVE Shown(u)'
    BY <1>4, <1>i, <2>1 DEF Shown
  <2>3. ASSUME NEW b \in Polls \ {a}  PROVE Counted(b)'
    <3>1. Counted(b) /\ poll'[b] = poll[b]
      BY <1>4, <1>i
    <3> QED  BY <2>1, <3>1 DEF Counted
  <2> QED  BY <1>4, <2>2, <2>3
<1>5. ASSUME NEW a \in Polls, NEW u \in Readers, Hit(a, u) \/ Miss(a, u)  PROVE Good
  <2>1. /\ UNCHANGED <<letter, cache, mark, excused>>
        /\ \A b \in Polls \ {a} : poll'[b] = poll[b]
        /\ poll'[a].user = u /\ poll'[a].at # "fill"
    BY <1>0, <1>5 DEF Hit, Miss, letterVars, InboxTypeOK
  <2> QED  BY <1>4, <2>1 DEF Counted
<1>6. ASSUME NEW a \in Polls, Count(a)  PROVE Good
  <2>1. /\ UNCHANGED <<letter, cache, mark, excused>> /\ poll[a].user \in Readers
        /\ \A b \in Polls \ {a} : poll'[b] = poll[b]
        /\ poll'[a].user = poll[a].user /\ poll'[a].count = Unread(poll[a].user)
    BY <1>0, <1>6, <1>i DEF Count, letterVars, InboxTypeOK, Counted
  <2>2. ASSUME NEW v \in Readers, v = poll[a].user
        PROVE  poll'[a].count <= Unread(v)'
    <3>1. poll'[a].count = Unread(v) /\ Unread(v)' = Unread(v)
      BY <2>1, <2>2 DEF Unread
    <3> QED  BY <1>n, <3>1
  <2>3. Counted(a)'
    BY <2>1, <2>2 DEF Counted
  <2> QED  BY <1>4, <2>1, <2>3
<1>7. ASSUME NEW a \in Polls, Fill(a)  PROVE Good
  <2> DEFINE u == poll[a].user
  <2>1. /\ u \in Readers /\ poll'[a].at = "done" /\ letter' = letter /\ mark' = mark
        /\ ~poll[a].old => poll[a].count <= Unread(u)
        /\ \A b \in Polls \ {a} : poll'[b] = poll[b]
    BY <1>0, <1>7, <1>i DEF Fill, letterVars, InboxTypeOK, Counted
  <2>2. \A v : Unread(v)' = Unread(v)
    BY <2>1 DEF Unread
  <2>3. ASSUME NEW b \in Polls  PROVE Counted(b)'
    <3>1. CASE b = a
      BY <2>1, <3>1 DEF Counted
    <3>2. CASE b # a
      <4>1. Counted(b) /\ poll'[b] = poll[b]
        BY <1>i, <2>1, <3>2
      <4> QED  BY <2>2, <4>1 DEF Counted
    <3> QED  BY <3>1, <3>2
  <2>4. ASSUME NEW v \in Readers  PROVE Shown(v)'
    <3>1. CASE UNCHANGED <<cache, excused>>
      BY <1>i, <2>1, <2>2, <3>1 DEF Shown
    <3>2. CASE cache' = [cache EXCEPT ![u] = poll[a].count]
               /\ excused' = IF poll[a].old THEN excused \cup {u} ELSE excused \ {u}
      <4>1. cache'[u] = poll[a].count /\ (v # u => cache'[v] = cache[v]) /\ poll[a].count \in Nat
        BY <1>0, <2>1, <3>2, InboxAssumption, FS_CardinalityType DEF InboxTypeOK
      <4>2. CASE v = u
        <5>1. CASE poll[a].old
          BY <3>2, <4>2, <5>1 DEF Shown
        <5>2. CASE ~poll[a].old
          <6>1. ~(cache'[v] > Unread(v)')
            BY <1>n, <2>1, <2>2, <4>1, <4>2, <5>2
          <6> QED  BY <6>1 DEF Shown
        <5> QED  BY <5>1, <5>2
      <4>3. CASE v # u
        <5>1. v \in excused' <=> v \in excused
          BY <3>2, <4>3
        <5> QED  BY <1>i, <2>1, <2>2, <4>1, <4>3, <5>1 DEF Shown
      <4> QED  BY <4>2, <4>3
    <3> QED  BY <1>7, <3>1, <3>2 DEF Fill
  <2> QED  BY <2>3, <2>4
<1>8. ASSUME NEW k \in Marks, NEW e \in OrderEvents, NEW u \in Readers, Mark(k, e, u)  PROVE Good
  <2>1. /\ cache' = cache /\ excused' = excused /\ mark[k].at = "new"
        /\ mark'[k] = [user |-> u, at |-> "forget"]
        /\ \A j \in Marks \ {k} : mark'[j] = mark[j]
    BY <1>0, <1>8 DEF Mark, InboxTypeOK
  <2>2. /\ letter'[e][u] = "read"
        /\ \A d \in OrderEvents, v \in Readers : d # e \/ v # u => letter'[d][v] = letter[d][v]
    BY <1>0, <1>8 DEF Mark, InboxTypeOK
  <2>3. \A v \in Readers : v # u \/ letter[e][u] # "unread" => Unread(v)' = Unread(v)
    <3>1. ASSUME NEW v \in Readers, v # u \/ letter[e][u] # "unread"
          PROVE  \A d \in OrderEvents : letter'[d][v] = "unread" <=> letter[d][v] = "unread"
      BY <2>2, <3>1
    <3> QED  BY <3>1 DEF Unread
  <2>4. ASSUME NEW v \in Readers  PROVE Shown(v)'
    <3>1. CASE v = u
      BY <2>1, <3>1 DEF Shown
    <3>2. CASE v # u
      BY <1>i, <2>1, <2>3, <3>2 DEF Shown
    <3> QED  BY <3>1, <3>2
  <2>5. ASSUME NEW a \in Polls  PROVE Counted(a)'
    <3>1. /\ poll'[a].user = poll[a].user /\ poll'[a].at = poll[a].at /\ poll'[a].count = poll[a].count
          /\ ~poll'[a].old => ~poll[a].old
          /\ poll[a].user = u /\ poll[a].at = "fill" /\ letter[e][u] = "unread" => poll'[a].old
      BY <1>0, <1>8 DEF Mark, InboxTypeOK
    <3>2. ASSUME poll[a].at = "fill", ~poll'[a].old, NEW v \in Readers, v = poll[a].user
          PROVE  poll[a].count <= Unread(v)'
      <4>2. Unread(v)' = Unread(v)
        BY <2>3, <3>1, <3>2
      <4>3. poll[a].count <= Unread(v)
        BY <1>i, <3>1, <3>2 DEF Counted
      <4> QED  BY <4>2, <4>3
    <3>3. Counted(a)
      BY <1>i
    <3> QED  BY <3>1, <3>2, <3>3 DEF Counted
  <2> QED  BY <2>4, <2>5
\* A step that changes counts of one user only.
<1>9. ASSUME UNCHANGED <<letter, poll>>, NEW u \in Readers, Shown(u)',
             \A v \in Readers \ {u} : cache'[v] = cache[v] /\ (v \in excused' <=> v \in excused),
             \A v \in Readers \ {u}, k \in Marks :
               mark[k] = [user |-> v, at |-> "forget"] => mark'[k] = mark[k]
      PROVE  Good
  <2>1. \A v : Unread(v)' = Unread(v)
    BY <1>9 DEF Unread
  <2>2. ASSUME NEW v \in Readers \ {u}  PROVE Shown(v)'
    BY <1>9, <1>i, <2>1 DEF Shown
  <2>3. ASSUME NEW a \in Polls  PROVE Counted(a)'
    <3>1. Counted(a) /\ poll'[a] = poll[a]
      BY <1>9, <1>i
    <3> QED  BY <2>1, <3>1 DEF Counted
  <2> QED  BY <1>9, <2>2, <2>3
<1>10. ASSUME NEW k \in Marks, Forget(k)  PROVE Good
  <2>0. PICK u \in Readers : u = mark[k].user
    BY <1>10, <1>i DEF Forget, Marking
  <2>1. /\ UNCHANGED <<letter, poll>> /\ mark[k].at = "forget"
        /\ mark'[k].at = "done" /\ \A j \in Marks \ {k} : mark'[j] = mark[j]
    BY <1>0, <1>10 DEF Forget, letterVars, InboxTypeOK
  <2>2. /\ \A v \in Readers \ {u} : cache'[v] = cache[v] /\ (v \in excused' <=> v \in excused)
        /\ cache'[u] = NoCount \/ u \in excused'
    BY <1>0, <1>10, <2>0 DEF Forget, Forgotten, InboxTypeOK
  <2>3. cache'[u] = NoCount => ~(cache'[u] > Unread(u)')
    BY <1>n DEF NoCount
  <2>4. Shown(u)'
    BY <2>2, <2>3 DEF Shown
  <2>5. \A v \in Readers \ {u}, j \in Marks :
           mark[j] = [user |-> v, at |-> "forget"] => mark'[j] = mark[j]
    BY <2>0, <2>1
  <2> QED  BY <1>9, <2>1, <2>2, <2>4, <2>5
<1>11. ASSUME NEW u \in Readers, Expire(u)  PROVE Good
  <2>1. UNCHANGED <<letter, poll, mark>> /\ cache'[u] = NoCount
        /\ \A v \in Readers \ {u} : cache'[v] = cache[v] /\ (v \in excused' <=> v \in excused)
    BY <1>0, <1>11 DEF Expire, letterVars, InboxTypeOK
  <2>2. Shown(u)'
    <3>1. ~(cache'[u] > Unread(u)')
      BY <1>n, <2>1 DEF NoCount
    <3> QED  BY <3>1 DEF Shown
  <2> QED  BY <1>9, <2>1, <2>2
<1>12. ASSUME UNCHANGED inboxVars  PROVE Good
  BY <1>1, <1>12 DEF inboxVars, countVars
<1> HIDE DEF Good
<1>13. Good
  BY <1>2, <1>3, <1>5, <1>6, <1>7, <1>8, <1>10, <1>11, <1>12 DEF InboxNext
<1> QED  BY <1>0, <1>13 DEF InboxIInv, Good

\* A badge counts a letter that was read only for the reasons named, for any events,
\* users, requests and failures.
THEOREM InboxCorrect == InboxSpec => []ReadIsCounted
<1>1. InboxInit => InboxIInv
  BY InboxStarts
<1>2. InboxIInv /\ [InboxNext]_inboxVars => InboxIInv'
  BY InboxKeeps
<1>3. InboxIInv => ReadIsCounted
  BY DEF InboxIInv, Shown, ReadIsCounted
<1> QED  BY <1>1, <1>2, <1>3, PTL DEF InboxSpec
------------------------------------------------------------------------------
(* Identifiers.                                                            *)

\* The lower part of a number in mixed radix does not reach the upper one.
LEMMA Radix ==
  ASSUME NEW k \in Nat \ {0}, NEW p \in Nat, NEW q \in Nat, NEW r \in 0..(k - 1),
         NEW s \in 0..(k - 1), p < q
  PROVE  p * k + r < q * k + s
<1> DEFINE d == q - p - 1
<1>1. d \in Nat /\ q = p + 1 + d
  OBVIOUS
<1>2. d * k \in Nat
  BY <1>1
<1>3. q * k = p * k + k + d * k
  BY <1>1
<1> QED  BY <1>2, <1>3

\* Identifiers are ordered as their times, then as their sequence numbers; those of two
\* nodes differ.
LEMMA IdOrder ==
  ASSUME NEW ts \in Nat, NEW tt \in Nat, NEW m \in 0..MaxWorkerId, NEW n \in 0..MaxWorkerId,
         NEW r \in 0..SequenceMask, NEW s \in 0..SequenceMask
  PROVE  /\ Id(ts, n, r) \in Nat
         /\ ts < tt => Id(ts, n, r) < Id(tt, n, s)
         /\ r < s => Id(ts, n, r) < Id(ts, n, s)
         /\ m # n => Id(ts, m, r) # Id(tt, n, s)
<1> DEFINE w == MaxWorkerId + 1
           k == SequenceMask + 1
           p == ts * w + n
           q == tt * w + n
           o == ts * w + m
<1>1. w \in Nat \ {0} /\ k \in Nat \ {0} /\ r \in 0..(k - 1) /\ s \in 0..(k - 1)
      /\ m \in 0..(w - 1) /\ n \in 0..(w - 1)
  BY IdAssumption
<1>2. Id(ts, n, r) = p * k + r /\ Id(tt, n, s) = q * k + s /\ Id(ts, n, s) = p * k + s
      /\ Id(ts, m, r) = o * k + r
  BY DEF Id
<1>3. p \in Nat /\ q \in Nat /\ o \in Nat
  BY <1>1
<1>4. ts < tt => p < q
  BY <1>1, Radix
<1>5. m # n => o # q
  <2>1. ts < tt => o < q
    BY <1>1, Radix
  <2>2. tt < ts => q < o
    BY <1>1, Radix
  <2>3. ts = tt /\ m # n => o # q
    BY <1>1
  <2> QED  BY <1>3, <2>1, <2>2, <2>3
<1> HIDE DEF w, k, p, q, o
<1>6. p * k \in Nat /\ q * k \in Nat /\ o * k \in Nat
  BY <1>1, <1>3
<1>7. ts < tt => Id(ts, n, r) < Id(tt, n, s)
  BY <1>1, <1>2, <1>3, <1>4, Radix
<1>8. o < q \/ q < o => Id(ts, m, r) # Id(tt, n, s)
  <2>1. o < q => o * k + r < q * k + s
    BY <1>1, <1>3, Radix
  <2>2. q < o => q * k + s < o * k + r
    BY <1>1, <1>3, Radix
  <2> QED  BY <1>1, <1>2, <1>6, <2>1, <2>2
<1> QED  BY <1>1, <1>2, <1>3, <1>5, <1>6, <1>7, <1>8

LEMMA SeqWraps ==
  ASSUME NEW s \in 0..SequenceMask
  PROVE  (s + 1) % (SequenceMask + 1) = IF s = SequenceMask THEN 0 ELSE s + 1
  BY IdAssumption

------------------------------------------------------------------------------
Grows(ids) == \A i, j \in DOMAIN ids : i < j => ids[i] < ids[j]
AllBelow(ids, x) == \A i \in DOMAIN ids : ids[i] < x

\* What a node returned is a time, its number and a sequence number.
Stamped == \A n \in Nodes : \A i \in DOMAIN issued[n] :
    \E ts \in Nat, s \in 0..SequenceMask : issued[n][i] = Id(ts, n, s)

\* What the generator remembers bounds what the node returned; a new one remembers
\* nothing, and the clock bounds it.
Bounded(n) ==
    /\ lastTS[n] # 0 => /\ AllBelow(issued[n], Id(lastTS[n] + 1, n, 0))
                        /\ ~spins[n] => AllBelow(issued[n], Id(lastTS[n], n, seq[n]) + 1)
    /\ lastTS[n] = 0 => /\ n \notin restarted => issued[n] = <<>>
                        /\ n \in restarted => AllBelow(issued[n], Id(clock, n, 0))

IdIInv ==
    /\ IdTypeOK /\ Stamped
    /\ ~setBack => \A n \in Nodes : lastTS[n] <= clock
    /\ \A n \in Nodes : /\ spins[n] => lastTS[n] # 0
                        /\ (setBack /\ n \in restarted) \/ (Grows(issued[n]) /\ Bounded(n))

LEMMA IdStarts == IdInit => IdIInv
<1> SUFFICES ASSUME IdInit  PROVE IdIInv
  OBVIOUS
<1>1. <<>> \in Seq(Nat) /\ DOMAIN <<>> = {} /\ 0 \in 0..MaxClock /\ 0 \in 0..SequenceMask
      /\ Start \in Start..MaxClock /\ 0 \in 0..MaxSetBack /\ Start \in Nat
  BY IdAssumption
<1>2. IdTypeOK
  BY <1>1 DEF IdInit, IdTypeOK
<1>3. \A n \in Nodes : issued[n] = <<>> /\ lastTS[n] = 0 /\ ~spins[n] /\ n \notin restarted
  BY DEF IdInit
<1>4. Stamped /\ \A n \in Nodes : Grows(issued[n]) /\ Bounded(n)
  BY <1>1, <1>3 DEF Stamped, Grows, Bounded
<1> QED  BY <1>1, <1>2, <1>3, <1>4 DEF IdIInv, IdInit

\* What a step of node n must keep of the others, and the clock of all.
LEMMA OthersBounded ==
  ASSUME IdIInv, NEW m \in Nodes, clock <= clock' \/ setBack', clock' \in Nat,
         setBack => setBack', m \in restarted' <=> m \in restarted,
         lastTS'[m] = lastTS[m], seq'[m] = seq[m], spins'[m] = spins[m], issued'[m] = issued[m]
  PROVE  (setBack' /\ m \in restarted') \/ (Grows(issued'[m]) /\ Bounded(m)')
<1> SUFFICES ASSUME ~(setBack' /\ m \in restarted')
             PROVE  Grows(issued'[m]) /\ Bounded(m)'
  OBVIOUS
<1>1. Grows(issued[m]) /\ Bounded(m)
  BY DEF IdIInv
<1>2. clock \in Nat /\ issued[m] \in Seq(Nat) /\ m \in 0..MaxWorkerId /\ 0 \in 0..SequenceMask
  BY IdAssumption DEF IdIInv, IdTypeOK
<1>3. \A i \in DOMAIN issued[m] : issued[m][i] \in Nat
  BY <1>2
<1>0. m \in restarted => clock <= clock'
  OBVIOUS
<1>4. m \in restarted => Id(clock, m, 0) <= Id(clock', m, 0)
  <2>1. /\ Id(clock, m, 0) \in Nat /\ Id(clock', m, 0) \in Nat
        /\ clock < clock' => Id(clock, m, 0) < Id(clock', m, 0)
    BY <1>2, IdOrder
  <2>2. CASE clock = clock'
    BY <2>1, <2>2
  <2>3. CASE clock # clock' /\ m \in restarted
    <3>1. clock < clock'
      BY <1>0, <1>2, <2>3
    <3> QED  BY <2>1, <3>1
  <2> QED  BY <2>2, <2>3
<1>5. Id(clock, m, 0) \in Nat /\ Id(clock', m, 0) \in Nat
  BY <1>2, IdOrder
<1>6. m \in restarted /\ AllBelow(issued[m], Id(clock, m, 0))
        => AllBelow(issued[m], Id(clock', m, 0))
  BY <1>3, <1>4, <1>5 DEF AllBelow
<1> QED  BY <1>1, <1>6 DEF Bounded, AllBelow

\* A node returns an identifier that is above those it returned.
LEMMA ReturnKeeps ==
  ASSUME IdIInv, NEW n \in Nodes, NEW s \in 0..SequenceMask, Return(n, clock, s),
         spins' \in [Nodes -> BOOLEAN], ~spins'[n],
         \A m \in Nodes \ {n} : spins'[m] = spins[m],
         (setBack /\ n \in restarted) \/ AllBelow(issued[n], Id(clock, n, s))
  PROVE  IdIInv'
<1> DEFINE x == Id(clock, n, s)
<1>1. /\ clock \in Start..MaxClock /\ clock \in Nat /\ clock # 0 /\ n \in 0..MaxWorkerId
      /\ issued \in [Nodes -> Seq(Nat)] /\ issued[n] \in Seq(Nat) /\ 0 \in 0..SequenceMask
  BY IdAssumption DEF IdIInv, IdTypeOK
<1>2. x \in Nat /\ x < Id(clock + 1, n, 0) /\ Id(clock + 1, n, 0) \in Nat
  <2>1. clock + 1 \in Nat /\ clock < clock + 1
    BY <1>1
  <2> QED  BY <1>1, <2>1, IdOrder
<1> HIDE DEF x
<1>3. /\ lastTS' \in [Nodes -> 0..MaxClock] /\ seq' \in [Nodes -> 0..SequenceMask]
      /\ lastTS'[n] = clock /\ seq'[n] = s
      /\ \A m \in Nodes \ {n} : lastTS'[m] = lastTS[m] /\ seq'[m] = seq[m]
      /\ UNCHANGED <<clock, mishaps, restarted, setBack>>
  BY <1>1, IdAssumption DEF IdIInv, IdTypeOK, Return
<1>4. issued' = [issued EXCEPT ![n] = Append(issued[n], x)]
  BY <1>1 DEF Return, x
<1>5. Append(issued[n], x) \in Seq(Nat) /\ Len(Append(issued[n], x)) = Len(issued[n]) + 1
      /\ DOMAIN Append(issued[n], x) = 1..(Len(issued[n]) + 1)
      /\ Append(issued[n], x)[Len(issued[n]) + 1] = x /\ DOMAIN issued[n] = 1..Len(issued[n])
      /\ Len(issued[n]) \in Nat /\ (\A i \in 1..Len(issued[n]) : Append(issued[n], x)[i] = issued[n][i])
      /\ \A i \in DOMAIN issued[n] : issued[n][i] \in Nat
  BY <1>1, <1>2
<1>6. /\ issued' \in [Nodes -> Seq(Nat)] /\ issued'[n] = Append(issued[n], x)
      /\ \A m \in Nodes \ {n} : issued'[m] = issued[m]
  BY <1>1, <1>4, <1>5
<1>7. IdTypeOK'
  BY <1>3, <1>6 DEF IdIInv, IdTypeOK
<1>8. Stamped'
  <2> SUFFICES ASSUME NEW m \in Nodes, NEW i \in DOMAIN issued'[m]
               PROVE  \E ts \in Nat, r \in 0..SequenceMask : issued'[m][i] = Id(ts, m, r)
    BY DEF Stamped, Id
  <2>1. CASE m = n /\ i = Len(issued[n]) + 1
    BY <1>1, <1>5, <1>6, <2>1 DEF x
  <2>2. CASE m = n /\ i # Len(issued[n]) + 1
    <3>1. i \in DOMAIN issued[n] /\ issued'[m][i] = issued[n][i]
      BY <1>5, <1>6, <2>2
    <3> QED  BY <2>2, <3>1 DEF IdIInv, Stamped
  <2>3. CASE m # n
    <3>1. i \in DOMAIN issued[m] /\ issued'[m][i] = issued[m][i]
      BY <1>6, <2>3
    <3> QED  BY <3>1 DEF IdIInv, Stamped
  <2> QED  BY <2>1, <2>2, <2>3
<1>9. ~setBack' => \A m \in Nodes : lastTS'[m] <= clock'
  <2>1. ~setBack => \A m \in Nodes : lastTS[m] <= clock
    BY DEF IdIInv
  <2>2. \A m \in Nodes : lastTS[m] <= clock => lastTS'[m] <= clock
    BY <1>1, <1>3
  <2> QED  BY <1>3, <2>1, <2>2
<1>10. ASSUME NEW m \in Nodes  PROVE spins'[m] => lastTS'[m] # 0
  BY <1>3 DEF IdIInv
<1>11. ASSUME NEW m \in Nodes
       PROVE  (setBack' /\ m \in restarted') \/ (Grows(issued'[m]) /\ Bounded(m)')
  <2>1. CASE m # n
    BY <1>1, <1>3, <1>6, <2>1, OthersBounded
  <2>2. CASE m = n /\ ~(setBack /\ n \in restarted)
    <3>1. Grows(issued[n]) /\ AllBelow(issued[n], x)
      BY <2>2 DEF IdIInv, x
    <3>2. Grows(issued'[n]) /\ AllBelow(issued'[n], x + 1)
      <4>1. ASSUME NEW i \in DOMAIN issued'[n]
            PROVE  /\ i = Len(issued[n]) + 1 => issued'[n][i] = x
                   /\ i # Len(issued[n]) + 1 =>
                        i \in DOMAIN issued[n] /\ issued'[n][i] = issued[n][i] /\ issued'[n][i] < x
                   /\ issued'[n][i] \in Nat
        BY <1>2, <1>5, <1>6, <3>1 DEF AllBelow
      <4>2. AllBelow(issued'[n], x + 1)
        BY <1>2, <4>1 DEF AllBelow
      <4>3. ASSUME NEW i \in DOMAIN issued'[n], NEW j \in DOMAIN issued'[n], i < j
            PROVE  issued'[n][i] < issued'[n][j]
        <5>1. i \in 1..(Len(issued[n]) + 1) /\ j \in 1..(Len(issued[n]) + 1)
          BY <1>5, <1>6
        <5>2. i # Len(issued[n]) + 1
          BY <1>5, <4>3, <5>1
        <5>3. i \in DOMAIN issued[n]
          BY <4>1, <5>2
        <5> QED  BY <1>5, <3>1, <4>1, <4>3, <5>1, <5>3 DEF Grows
      <4> QED  BY <4>2, <4>3 DEF Grows
    <3>3. AllBelow(issued'[n], Id(clock + 1, n, 0))
      BY <1>2, <1>5, <1>6, <3>2 DEF AllBelow
    <3>4. Bounded(n)'
      BY <1>1, <1>3, <3>2, <3>3 DEF Bounded, AllBelow, x, Id
    <3> QED  BY <2>2, <3>2, <3>4 DEF Bounded, AllBelow, Id
  <2>3. CASE m = n /\ setBack /\ n \in restarted
    BY <1>3, <2>3
  <2> QED  BY <2>1, <2>2, <2>3
<1> QED  BY <1>7, <1>8, <1>9, <1>10, <1>11 DEF IdIInv, Bounded, AllBelow, Grows

\* The clock of a node with a memory is not behind it, nor is one that was not restarted.
LEMMA SameMilliKeeps ==
  ASSUME IdIInv, NEW n \in Nodes, NextIDSameMilli(n)  PROVE IdIInv'
<1>1. /\ ~spins[n] /\ clock = lastTS[n] /\ NextSeq(n) # 0 /\ Return(n, clock, NextSeq(n))
      /\ spins' = spins
  BY DEF NextIDSameMilli, Wanted, Exhausted
<1>2. /\ clock \in Nat /\ clock # 0 /\ seq[n] \in 0..SequenceMask /\ n \in 0..MaxWorkerId
      /\ issued[n] \in Seq(Nat) /\ spins \in [Nodes -> BOOLEAN]
  BY IdAssumption DEF IdIInv, IdTypeOK
<1>3. NextSeq(n) = seq[n] + 1 /\ NextSeq(n) \in 0..SequenceMask
  BY <1>1, <1>2, SeqWraps, IdAssumption DEF NextSeq
<1>4. (setBack /\ n \in restarted) \/ AllBelow(issued[n], Id(clock, n, NextSeq(n)))
  <2>1. (setBack /\ n \in restarted) \/ Bounded(n)
    BY DEF IdIInv
  <2>2. Bounded(n) => AllBelow(issued[n], Id(clock, n, seq[n]) + 1)
    BY <1>1, <1>2 DEF Bounded
  <2>3. /\ Id(clock, n, seq[n]) < Id(clock, n, NextSeq(n)) /\ Id(clock, n, seq[n]) \in Nat
        /\ Id(clock, n, NextSeq(n)) \in Nat
    <3>1. seq[n] < NextSeq(n)
      BY <1>2, <1>3
    <3> QED  BY <1>2, <1>3, <3>1, IdOrder
  <2>4. \A i \in DOMAIN issued[n] : issued[n][i] \in Nat
    BY <1>2
  <2>5. AllBelow(issued[n], Id(clock, n, seq[n]) + 1)
          => AllBelow(issued[n], Id(clock, n, NextSeq(n)))
    BY <2>3, <2>4 DEF AllBelow
  <2> QED  BY <2>1, <2>2, <2>5
<1>5. PICK s \in 0..SequenceMask : s = NextSeq(n)
  BY <1>3
<1> QED  BY <1>1, <1>2, <1>4, <1>5, ReturnKeeps

\* A time later than the one remembered, or the first after a start.
LEMMA LaterAbove ==
  ASSUME IdIInv, NEW n \in Nodes, clock # lastTS[n], clock >= lastTS[n]
  PROVE  (setBack /\ n \in restarted) \/ AllBelow(issued[n], Id(clock, n, 0))
<1>1. /\ clock \in Nat /\ lastTS[n] \in Nat /\ n \in 0..MaxWorkerId /\ 0 \in 0..SequenceMask
      /\ issued[n] \in Seq(Nat)
  BY IdAssumption DEF IdIInv, IdTypeOK
<1>2. (setBack /\ n \in restarted) \/ Bounded(n)
  BY DEF IdIInv
<1>3. ASSUME Bounded(n)  PROVE AllBelow(issued[n], Id(clock, n, 0))
  <2>1. CASE lastTS[n] = 0 /\ n \notin restarted
    BY <1>3, <2>1 DEF Bounded, AllBelow
  <2>2. CASE lastTS[n] = 0 /\ n \in restarted
    BY <1>3, <2>2 DEF Bounded
  <2>3. CASE lastTS[n] # 0
    <3>1. lastTS[n] + 1 \in Nat /\ lastTS[n] + 1 <= clock
      BY <1>1
    <3>2. /\ Id(lastTS[n] + 1, n, 0) \in Nat /\ Id(clock, n, 0) \in Nat
          /\ lastTS[n] + 1 < clock => Id(lastTS[n] + 1, n, 0) < Id(clock, n, 0)
      BY <1>1, <3>1, IdOrder
    <3>3. Id(lastTS[n] + 1, n, 0) <= Id(clock, n, 0)
      <4>1. CASE lastTS[n] + 1 = clock
        BY <3>2, <4>1
      <4>2. CASE lastTS[n] + 1 # clock
        BY <1>1, <3>1, <3>2, <4>2
      <4> QED  BY <4>1, <4>2
    <3>4. AllBelow(issued[n], Id(lastTS[n] + 1, n, 0))
      BY <1>3, <2>3 DEF Bounded
    <3>5. \A i \in DOMAIN issued[n] : issued[n][i] \in Nat
      BY <1>1
    <3> HIDE DEF Id
    <3> QED  BY <3>2, <3>3, <3>4, <3>5 DEF AllBelow
  <2> QED  BY <2>1, <2>2, <2>3
<1> QED  BY <1>2, <1>3

LEMMA NewMilliKeeps ==
  ASSUME IdIInv, NEW n \in Nodes, NextIDNewMilli(n) \/ NextIDResumes(n)  PROVE IdIInv'
<1>0. clock \in Nat /\ lastTS[n] \in Nat /\ spins \in [Nodes -> BOOLEAN] /\ 0 \in 0..SequenceMask
  BY IdAssumption DEF IdIInv, IdTypeOK
<1>1. /\ clock # lastTS[n] /\ clock >= lastTS[n] /\ Return(n, clock, 0)
      /\ spins' \in [Nodes -> BOOLEAN] /\ ~spins'[n]
      /\ \A m \in Nodes \ {n} : spins'[m] = spins[m]
  <2>1. CASE NextIDNewMilli(n)
    BY <1>0, <2>1 DEF NextIDNewMilli, Wanted, NotBehind
  <2>2. CASE NextIDResumes(n)
    BY <1>0, <2>2 DEF NextIDResumes
  <2> QED  BY <2>1, <2>2
<1>2. (setBack /\ n \in restarted) \/ AllBelow(issued[n], Id(clock, n, 0))
  BY <1>1, LaterAbove
<1> QED  BY <1>0, <1>1, <1>2, ReturnKeeps

LEMMA WaitsKeeps ==
  ASSUME IdIInv, NEW n \in Nodes, NextIDWaits(n)  PROVE IdIInv'
<1>1. /\ clock = lastTS[n] /\ seq' = [seq EXCEPT ![n] = 0]
      /\ spins' = [spins EXCEPT ![n] = TRUE]
      /\ UNCHANGED <<clock, lastTS, issued, mishaps, restarted, setBack>>
  BY DEF NextIDWaits, Exhausted
<1>2. clock \in Nat /\ clock # 0 /\ 0 \in 0..SequenceMask
  BY IdAssumption DEF IdIInv, IdTypeOK
<1>3. /\ IdTypeOK' /\ spins'[n]
      /\ \A m \in Nodes \ {n} : spins'[m] = spins[m] /\ seq'[m] = seq[m]
  BY <1>1, <1>2 DEF IdIInv, IdTypeOK
<1>4. Stamped'
  BY <1>1 DEF IdIInv, Stamped
<1>5. ~setBack' => \A m \in Nodes : lastTS'[m] <= clock'
  BY <1>1 DEF IdIInv
<1>6. ASSUME NEW m \in Nodes
      PROVE  /\ spins'[m] => lastTS'[m] # 0
             /\ (setBack' /\ m \in restarted') \/ (Grows(issued'[m]) /\ Bounded(m)')
  <2>1. (setBack /\ m \in restarted) \/ (Grows(issued[m]) /\ Bounded(m))
    BY DEF IdIInv
  <2>2. Bounded(m) => Bounded(m)'
    <3>1. CASE m = n
      BY <1>1, <1>2, <1>3, <3>1 DEF Bounded
    <3>2. CASE m # n
      BY <1>1, <1>3, <3>2 DEF Bounded
    <3> QED  BY <3>1, <3>2
  <2>3. spins'[m] => lastTS'[m] # 0
    BY <1>1, <1>2, <1>3 DEF IdIInv
  <2> QED  BY <1>1, <2>1, <2>2, <2>3
<1> QED  BY <1>3, <1>4, <1>5, <1>6 DEF IdIInv

LEMMA ClockKeeps ==
  ASSUME IdIInv, ClockTicks \/ ClockSetBack  PROVE IdIInv'
<1>1. /\ clock' \in Start..MaxClock /\ clock' \in Nat
      /\ clock <= clock' \/ setBack'
      /\ setBack' \in BOOLEAN /\ mishaps' \in 0..MaxSetBack
      /\ setBack => setBack'
      /\ ~setBack' => clock <= clock'
      /\ UNCHANGED <<lastTS, seq, spins, issued, restarted>>
  <2>1. CASE ClockTicks
    BY <2>1, IdAssumption DEF IdIInv, IdTypeOK, ClockTicks
  <2>2. CASE ClockSetBack
    BY <2>2, IdAssumption DEF IdIInv, IdTypeOK, ClockSetBack
  <2> QED  BY <2>1, <2>2
<1>2. IdTypeOK' /\ Stamped'
  <2>1. IdTypeOK /\ Stamped
    BY DEF IdIInv
  <2>2. IdTypeOK'
    BY <1>1, <2>1 DEF IdTypeOK
  <2>3. Stamped'
    BY <1>1, <2>1 DEF Stamped
  <2> QED  BY <2>2, <2>3
<1>3. ~setBack' => \A m \in Nodes : lastTS'[m] <= clock'
  <2>1. ~setBack' => ~setBack /\ clock <= clock'
    BY <1>1
  <2>2. ~setBack => \A m \in Nodes : lastTS[m] <= clock
    BY DEF IdIInv
  <2>3. \A m \in Nodes : lastTS[m] <= clock /\ clock <= clock' => lastTS'[m] <= clock'
    <3>1. clock \in Nat /\ lastTS \in [Nodes -> 0..MaxClock]
      BY IdAssumption DEF IdIInv, IdTypeOK
    <3>2. clock' \in Nat /\ lastTS' = lastTS
      BY <1>1
    <3> QED  BY <3>1, <3>2
  <2> QED  BY <2>1, <2>2, <2>3
<1>4. ASSUME NEW m \in Nodes
      PROVE  /\ spins'[m] => lastTS'[m] # 0
             /\ (setBack' /\ m \in restarted') \/ (Grows(issued'[m]) /\ Bounded(m)')
  <2>1. spins[m] => lastTS[m] # 0
    BY DEF IdIInv
  <2>2. /\ lastTS'[m] = lastTS[m] /\ seq'[m] = seq[m] /\ spins'[m] = spins[m]
        /\ issued'[m] = issued[m] /\ restarted' = restarted
    BY <1>1
  <2>3. (setBack' /\ m \in restarted') \/ (Grows(issued'[m]) /\ Bounded(m)')
    BY <1>1, <2>2, OthersBounded
  <2> QED  BY <2>1, <2>2, <2>3
<1> QED  BY <1>2, <1>3, <1>4 DEF IdIInv

LEMMA RestartKeeps ==
  ASSUME IdIInv, NEW n \in Nodes, NodeRestarts(n)  PROVE IdIInv'
<1>0. /\ clock \in Start..MaxClock /\ clock \in Nat /\ clock # 0 /\ n \in 0..MaxWorkerId
      /\ 0 \in 0..SequenceMask /\ 0 \in 0..MaxClock /\ lastTS[n] \in Nat
      /\ issued[n] \in Seq(Nat)
  BY IdAssumption DEF IdIInv, IdTypeOK
<1>1. /\ clock' = clock + 1 /\ clock' \in Start..MaxClock /\ clock' \in Nat /\ clock <= clock'
      /\ mishaps' \in 0..MaxSetBack
      /\ restarted' = restarted \cup {n}
      /\ UNCHANGED <<issued, setBack>>
  BY <1>0, IdAssumption DEF IdIInv, IdTypeOK, NodeRestarts
<1>2. /\ lastTS' \in [Nodes -> 0..MaxClock] /\ seq' \in [Nodes -> 0..SequenceMask]
      /\ spins' \in [Nodes -> BOOLEAN] /\ lastTS'[n] = 0 /\ seq'[n] = 0 /\ ~spins'[n]
      /\ \A m \in Nodes \ {n} : lastTS'[m] = lastTS[m] /\ seq'[m] = seq[m] /\ spins'[m] = spins[m]
  BY <1>0 DEF IdIInv, IdTypeOK, NodeRestarts
<1>3. IdTypeOK' /\ Stamped'
  BY <1>1, <1>2 DEF IdIInv, IdTypeOK, Stamped
<1>4. ~setBack' => \A m \in Nodes : lastTS'[m] <= clock'
  <2>1. ~setBack => \A m \in Nodes : lastTS[m] <= clock
    BY DEF IdIInv
  <2>2. \A m \in Nodes : lastTS[m] <= clock => lastTS'[m] <= clock'
    BY <1>0, <1>1, <1>2, IdAssumption DEF IdIInv, IdTypeOK
  <2> QED  BY <1>1, <2>1, <2>2
<1>5. ASSUME NEW m \in Nodes  PROVE spins'[m] => lastTS'[m] # 0
  BY <1>2 DEF IdIInv
<1>6. ASSUME NEW m \in Nodes
      PROVE  (setBack' /\ m \in restarted') \/ (Grows(issued'[m]) /\ Bounded(m)')
  <2>1. CASE m # n
    BY <1>1, <1>2, <2>1, OthersBounded
  <2>2. CASE m = n /\ ~setBack
    <3>1. Grows(issued[n]) /\ Bounded(n) /\ lastTS[n] <= clock
      BY <2>2 DEF IdIInv
    <3>2. /\ Id(clock, n, 0) \in Nat /\ Id(lastTS[n] + 1, n, 0) \in Nat /\ Id(clock + 1, n, 0) \in Nat
          /\ Id(clock, n, 0) < Id(clock + 1, n, 0)
          /\ Id(lastTS[n] + 1, n, 0) <= Id(clock + 1, n, 0)
      <4>1. clock + 1 \in Nat /\ clock < clock + 1 /\ lastTS[n] + 1 \in Nat
            /\ (lastTS[n] + 1 < clock + 1 \/ lastTS[n] + 1 = clock + 1)
        BY <1>0, <3>1
      <4>2. Id(clock, n, 0) \in Nat /\ Id(clock + 1, n, 0) \in Nat
            /\ Id(clock, n, 0) < Id(clock + 1, n, 0)
        BY <1>0, <4>1, IdOrder
      <4>3. /\ Id(lastTS[n] + 1, n, 0) \in Nat
            /\ lastTS[n] + 1 < clock + 1 => Id(lastTS[n] + 1, n, 0) < Id(clock + 1, n, 0)
        BY <1>0, <4>1, IdOrder
      <4> QED  BY <4>1, <4>2, <4>3
    <3>3. \A i \in DOMAIN issued[n] : issued[n][i] \in Nat
      BY <1>0
    <3>4. AllBelow(issued[n], Id(clock + 1, n, 0))
      <4>1. CASE lastTS[n] = 0 /\ n \notin restarted
        BY <3>1, <4>1 DEF Bounded, AllBelow
      <4>2. CASE lastTS[n] = 0 /\ n \in restarted
        BY <3>1, <3>2, <3>3, <4>2 DEF Bounded, AllBelow
      <4>3. CASE lastTS[n] # 0
        BY <3>1, <3>2, <3>3, <4>3 DEF Bounded, AllBelow
      <4> QED  BY <4>1, <4>2, <4>3
    <3> QED  BY <1>1, <1>2, <2>2, <3>1, <3>4 DEF Bounded
  <2>3. CASE m = n /\ setBack
    BY <1>1, <2>3
  <2> QED  BY <2>1, <2>2, <2>3
<1> QED  BY <1>3, <1>4, <1>5, <1>6 DEF IdIInv

LEMMA IdKeeps == IdIInv /\ [IdNext]_idVars => IdIInv'
<1> SUFFICES ASSUME IdIInv, [IdNext]_idVars  PROVE IdIInv'
  OBVIOUS
<1>1. CASE UNCHANGED idVars
  BY <1>1 DEF idVars, IdIInv, IdTypeOK, Stamped, Bounded
<1>2. ASSUME NEW n \in Nodes, NextIDSameMilli(n)  PROVE IdIInv'
  BY <1>2, SameMilliKeeps
<1>3. ASSUME NEW n \in Nodes, NextIDNewMilli(n) \/ NextIDResumes(n)  PROVE IdIInv'
  BY <1>3, NewMilliKeeps
<1>4. ASSUME NEW n \in Nodes, NextIDWaits(n) \/ NodeRestarts(n)  PROVE IdIInv'
  BY <1>4, WaitsKeeps, RestartKeeps
<1>5. CASE ClockTicks \/ ClockSetBack
  BY <1>5, ClockKeeps
<1> QED  BY <1>1, <1>2, <1>3, <1>4, <1>5 DEF IdNext

\* Two nodes never return the same identifier, and those of a node grow.
THEOREM IdsCorrect == IdSpec => []UniqueIds
<1>1. IdInit => IdIInv
  BY IdStarts
<1>2. IdIInv /\ [IdNext]_idVars => IdIInv'
  BY IdKeeps
<1>3. IdIInv => UniqueIds
  <2> SUFFICES ASSUME IdIInv  PROVE UniqueIds
    OBVIOUS
  <2>1. ASSUME NEW m \in Nodes, NEW n \in Nodes, m # n, NEW x \in IdsOf(m), x \in IdsOf(n)
        PROVE  FALSE
    <3>1. PICK i \in DOMAIN issued[m], j \in DOMAIN issued[n] : x = issued[m][i] /\ x = issued[n][j]
      BY <2>1 DEF IdsOf
    <3>2. PICK ts \in Nat, r \in 0..SequenceMask : x = Id(ts, m, r)
      BY <3>1 DEF IdIInv, Stamped
    <3>3. PICK tt \in Nat, s \in 0..SequenceMask : x = Id(tt, n, s)
      BY <3>1 DEF IdIInv, Stamped
    <3>4. m \in 0..MaxWorkerId /\ n \in 0..MaxWorkerId
      BY IdAssumption
    <3> QED  BY <2>1, <3>2, <3>3, <3>4, IdOrder
  <2>2. \A n \in Nodes : (setBack /\ n \in restarted) \/ Grows(issued[n])
    BY DEF IdIInv
  <2> QED  BY <2>1, <2>2 DEF UniqueIds, Grows
<1> QED  BY <1>1, <1>2, <1>3, PTL DEF IdSpec

------------------------------------------------------------------------------
(***************************************************************************)
(* Agent: what the readings of a day are worth.                            *)
(***************************************************************************)
DataOK == data \in [Meters -> [Days -> Seq(Readings)]]

------------------------------------------------------------------------------
LEMMA StoredFinite ==
  ASSUME NEW s \in Seq(Readings)
  PROVE  IsFiniteSet(Stored(s)) /\ Stored(s) \subseteq Readings
<1>1. IsFiniteSet(1..Len(s))
  BY FS_Interval
<1>2. DOMAIN s = 1..Len(s)
  OBVIOUS
<1>3. IsFiniteSet(Stored(s))
  BY <1>1, <1>2, ImageFinite DEF Stored
<1>4. Stored(s) \subseteq Readings
  BY DEF Stored
<1> QED BY <1>3, <1>4

Kwhs(s) == {x.kwh : x \in Stored(s)}

LEMMA KwhsFinite ==
  ASSUME NEW s \in Seq(Readings)
  PROVE  /\ IsFiniteSet(Kwhs(s)) /\ Kwhs(s) \subseteq Nat
         /\ s # << >> => Kwhs(s) # {}
<1>1. IsFiniteSet(Stored(s)) /\ Stored(s) \subseteq Readings
  BY StoredFinite
<1> DEFINE f == [x \in Stored(s) |-> x.kwh]
<1>2. Kwhs(s) = {f[x] : x \in Stored(s)}
  BY DEF Kwhs
<1>3. IsFiniteSet(Kwhs(s))
  <2> HIDE DEF f
  <2> QED BY <1>1, <1>2, ImageFinite
<1>4. Kwhs(s) \subseteq Nat
  BY <1>1 DEF Kwhs, Readings
<1>5. s # << >> => Stored(s) # {}
  BY DEF Stored
<1> QED BY <1>3, <1>4, <1>5 DEF Kwhs

LEMMA UsageIs ==
  ASSUME NEW s \in Seq(Readings)
  PROVE  /\ Usage(s) \in Nat
         /\ s # << >> => /\ Usage(s) = Max(Kwhs(s)) - Min(Kwhs(s))
                         /\ Max(Kwhs(s)) \in Kwhs(s) /\ Min(Kwhs(s)) \in Kwhs(s)
                         /\ \A y \in Kwhs(s) : Min(Kwhs(s)) <= y /\ y <= Max(Kwhs(s))
<1>1. CASE s = << >>
  BY <1>1 DEF Usage
<1>2. CASE s # << >>
  <2>1. IsFiniteSet(Kwhs(s)) /\ Kwhs(s) \in SUBSET Int /\ Kwhs(s) # {} /\ Kwhs(s) \subseteq Nat
    BY <1>2, KwhsFinite
  <2>2. /\ Max(Kwhs(s)) \in Kwhs(s) /\ \A y \in Kwhs(s) : y <= Max(Kwhs(s))
        /\ Min(Kwhs(s)) \in Kwhs(s) /\ \A y \in Kwhs(s) : Min(Kwhs(s)) <= y
    BY <2>1, MaxMin
  <2>3. Usage(s) = Max(Kwhs(s)) - Min(Kwhs(s))
    BY <1>2 DEF Usage, Kwhs
  <2> QED BY <1>2, <2>1, <2>2, <2>3
<1> QED BY <1>1, <1>2

\* A meter that reports again has not used less.
LEMMA UsageGrows ==
  ASSUME NEW s \in Seq(Readings), NEW r \in Readings
  PROVE  Usage(s) <= Usage(Append(s, r))
<1> DEFINE t == Append(s, r)
<1>1. t \in Seq(Readings) /\ t # << >>
  BY AppendProperties
<1>2. CASE s = << >>
  <2>1. Usage(s) = 0
    BY <1>2 DEF Usage
  <2>2. Usage(t) \in Nat
    BY <1>1, UsageIs
  <2> QED BY <2>1, <2>2
<1>3. CASE s # << >>
  <2>1. Stored(s) \subseteq Stored(t)
    <3>1. ASSUME NEW i \in DOMAIN s PROVE s[i] \in Stored(t)
      <4>1. i \in DOMAIN t /\ t[i] = s[i]
        OBVIOUS
      <4> QED BY <4>1 DEF Stored
    <3> QED BY <3>1 DEF Stored
  <2>2. Kwhs(s) \subseteq Kwhs(t) /\ Kwhs(t) \subseteq Nat
    BY <1>1, <2>1, KwhsFinite DEF Kwhs
  <2> HIDE DEF t
  <2>3. /\ Usage(t) = Max(Kwhs(t)) - Min(Kwhs(t))
        /\ Max(Kwhs(t)) \in Kwhs(t) /\ Min(Kwhs(t)) \in Kwhs(t)
        /\ \A y \in Kwhs(t) : Min(Kwhs(t)) <= y /\ y <= Max(Kwhs(t))
    BY <1>1, UsageIs
  <2>4. /\ Usage(s) = Max(Kwhs(s)) - Min(Kwhs(s))
        /\ Max(Kwhs(s)) \in Kwhs(s) /\ Min(Kwhs(s)) \in Kwhs(s)
    BY <1>3, UsageIs
  <2>5. Min(Kwhs(t)) <= Min(Kwhs(s)) /\ Max(Kwhs(s)) <= Max(Kwhs(t))
    BY <2>2, <2>3, <2>4
  <2>6. {Max(Kwhs(s)), Min(Kwhs(s)), Max(Kwhs(t)), Min(Kwhs(t))} \subseteq Int
    BY <2>2, <2>3, <2>4
  <2>7. Usage(s) <= Usage(t)
    BY <2>3, <2>4, <2>5, <2>6
  <2> QED BY <2>7 DEF t
<1> QED BY <1>2, <1>3

LEMMA DeviceUseType ==
  ASSUME DataOK, NEW d \in Meters, NEW x \in Days PROVE DeviceUse(d, x) \in Nat
<1>1. data[d][x] \in Seq(Readings)
  BY DEF DataOK
<1> QED BY <1>1, UsageIs DEF DeviceUse

LEMMA DevicesFinite == ASSUME NEW z PROVE IsFiniteSet(DevicesOf(z)) /\ DevicesOf(z) \subseteq Meters
<1>1. IsFiniteSet(Meters)
  BY AgentAssumption DEF AgentParameters
<1>2. DevicesOf(z) \in SUBSET Meters
  BY DEF DevicesOf
<1> QED BY <1>1, <1>2, FS_Subset

LEMMA WindowFinite == ASSUME NEW x PROVE IsFiniteSet(Window(x)) /\ Window(x) \subseteq Days
<1>1. IsFiniteSet(Days)
  <2>1. LastDay \in Int /\ 1 \in Int
    BY AgentAssumption DEF AgentParameters
  <2> QED BY <2>1, FS_Interval DEF Days
<1>2. Window(x) \subseteq Days
  BY DEF Window
<1> QED BY <1>1, <1>2, FS_Subset

\* The use of a zone is a sum over its devices.
LEMMA ZoneUseType ==
  ASSUME DataOK, NEW z, NEW x \in Days
  PROVE  /\ ZoneUse(z, x) \in Nat
         /\ \A d \in DevicesOf(z) : DeviceUse(d, x) <= ZoneUse(z, x)
<1> DEFINE f == [d \in DevicesOf(z) |-> DeviceUse(d, x)]
<1>1. IsFiniteSet(DevicesOf(z)) /\ DevicesOf(z) \subseteq Meters
  BY DevicesFinite
<1>2. \A d \in DevicesOf(z) : f[d] = DeviceUse(d, x) /\ f[d] \in Nat
  BY <1>1, DeviceUseType
<1>3. ZoneUse(z, x) = SumFunctionOnSet(f, DevicesOf(z))
  BY DEF ZoneUse, SumFunction
<1> HIDE DEF f
<1>4. IntsOn(f, DevicesOf(z)) /\ \A d \in DevicesOf(z) : f[d] >= 0
  BY <1>2 DEF IntsOn
<1>5. \A d \in DevicesOf(z) : f[d] <= SumFunctionOnSet(f, DevicesOf(z))
  BY <1>1, <1>4, SumHolds
<1>6. SumFunctionOnSet(f, DevicesOf(z)) \in Int
  BY <1>1, <1>4, SumType
<1>7. SumFunctionOnSet(f, DevicesOf(z)) >= 0
  <2>1. 0 * Cardinality(DevicesOf(z)) <= SumFunctionOnSet(f, DevicesOf(z))
    BY <1>1, <1>4, SumAtLeast
  <2>2. 0 * Cardinality(DevicesOf(z)) = 0
    BY <1>1, FS_CardinalityType
  <2> QED BY <2>1, <2>2
<1> QED BY <1>2, <1>3, <1>5, <1>6, <1>7

\* What rises over a set of hours: whole numbers, and none without a reading.
LEMMA RisesIs ==
  ASSUME NEW s \in Seq(Readings), NEW hours
  PROVE  /\ Rises(s, hours) \in Int
         /\ Rises(s, hours) > 0 => \E r \in Stored(s) : r.hour \in hours
<1> DEFINE Before(r) == { x \in Stored(s) : x.hour < r.hour }
           Previous(r) == CHOOSE x \in Before(r) : \A y \in Before(r) : y.hour <= x.hour
           Rise(r) == IF Before(r) = {} \/ r.kwh < Previous(r).kwh THEN 0
                      ELSE r.kwh - Previous(r).kwh
           D == { x \in Stored(s) : x.hour \in hours }
           f == [r \in D |-> Rise(r)]
<1>1. IsFiniteSet(Stored(s)) /\ Stored(s) \subseteq Readings
  BY StoredFinite
<1>2. ASSUME NEW r \in Stored(s), Before(r) # {}
      PROVE  Previous(r) \in Before(r)
  <2> DEFINE B == Before(r)
             h == [x \in B |-> x.hour]
             H == {h[x] : x \in B}
  <2>1. IsFiniteSet(B) /\ B \subseteq Readings
    BY <1>1, FS_Subset
  <2>2. IsFiniteSet(H)
    <3> HIDE DEF h, B
    <3> QED BY <2>1, ImageFinite
  <2>3. H \in SUBSET Int /\ H # {}
    BY <1>2, <2>1 DEF Readings
  <2>4. PICK m \in H : \A y \in H : y <= m
    <3> HIDE DEF H
    <3> QED BY <2>2, <2>3, MaxMin
  <2>5. PICK x \in B : m = x.hour
    OBVIOUS
  <2>6. \A y \in B : y.hour <= x.hour
    BY <2>4, <2>5
  <2> QED BY <2>6
<1>3. ASSUME NEW r \in Stored(s) PROVE Rise(r) \in Int
  <2>1. r.kwh \in Nat
    BY <1>1 DEF Readings
  <2>2. CASE Before(r) = {}
    BY <2>2
  <2>3. CASE Before(r) # {}
    <3>1. Previous(r) \in Before(r)
      BY <1>2, <2>3
    <3>2. Previous(r).kwh \in Nat
      BY <1>1, <3>1 DEF Readings
    <3> HIDE DEF Before, Previous
    <3> QED BY <2>1, <3>2
  <2> QED BY <2>2, <2>3
<1>4. Rises(s, hours) = SumFunctionOnSet(f, D)
  BY DEF Rises, SumFunction
<1>5. IsFiniteSet(D)
  BY <1>1, FS_Subset
<1>6. IntsOn(f, D)
  <2>1. \A r \in D : f[r] = Rise(r)
    OBVIOUS
  <2> HIDE DEF f, Rise
  <2> QED BY <1>3, <2>1 DEF IntsOn
<1>7. SumFunctionOnSet(f, D) \in Int /\ (SumFunctionOnSet(f, D) > 0 => \E r \in D : TRUE)
  <2> HIDE DEF f, D
  <2> QED BY <1>5, <1>6, SumType, SumPositive
<1> HIDE DEF f
<1> QED BY <1>4, <1>7

LEMMA ZoneRisesIs ==
  ASSUME DataOK, NEW z, NEW x \in Days, NEW hours
  PROVE  /\ ZoneRises(z, x, hours) \in Int
         /\ ZoneRises(z, x, hours) > 0 =>
              \E d \in DevicesOf(z) : \E r \in Stored(data[d][x]) : r.hour \in hours
<1> DEFINE f == [d \in DevicesOf(z) |-> Rises(data[d][x], hours)]
<1>1. IsFiniteSet(DevicesOf(z)) /\ DevicesOf(z) \subseteq Meters
  BY DevicesFinite
<1>2. ASSUME NEW d \in DevicesOf(z)
      PROVE  /\ f[d] \in Int
             /\ f[d] > 0 => \E r \in Stored(data[d][x]) : r.hour \in hours
  <2>1. data[d][x] \in Seq(Readings)
    BY <1>1 DEF DataOK
  <2>2. f[d] = Rises(data[d][x], hours)
    OBVIOUS
  <2> HIDE DEF f
  <2> QED BY <2>1, <2>2, RisesIs
<1>3. ZoneRises(z, x, hours) = SumFunctionOnSet(f, DevicesOf(z))
  BY DEF ZoneRises, SumFunction
<1> HIDE DEF f
<1>4. IntsOn(f, DevicesOf(z))
  BY <1>2 DEF IntsOn
<1>5. SumFunctionOnSet(f, DevicesOf(z)) \in Int
  BY <1>1, <1>4, SumType
<1>6. ASSUME SumFunctionOnSet(f, DevicesOf(z)) > 0 PROVE \E d \in DevicesOf(z) : f[d] > 0
  BY <1>1, <1>4, <1>6, SumPositive
<1> QED BY <1>2, <1>3, <1>5, <1>6

\* What exceeds the average of the valid days exceeds one of them.
LEMMA AboveOne ==
  ASSUME NEW W, IsFiniteSet(W), NEW hist \in [W -> Nat], NEW today \in Nat,
         NEW ratio \in Nat, MinConfidence > 50 \/ ratio > 100,
         Exceeds(today, hist, ratio)
  PROVE  \E x \in W : 0 < hist[x] /\ hist[x] < today
<1> DEFINE V == Valid(hist)
           n == Cardinality(V)
           sum == SumFunctionOnSet(hist, V)
<1>1. V \subseteq W /\ (\A x \in V : hist[x] \in Nat /\ 1 <= hist[x]) /\ IsFiniteSet(V)
  BY FS_Subset DEF Valid
<1>2. n \in Nat /\ IntsOn(hist, V)
  BY <1>1, FS_CardinalityType DEF IntsOn
<1>3. sum \in Int
  BY <1>1, <1>2, SumType
<1>4. SUFFICES ASSUME \A x \in V : today <= hist[x] PROVE FALSE
  BY <1>1
<1>5. today * n <= sum /\ 1 * n <= sum
  <2> HIDE DEF V
  <2> QED BY <1>1, <1>2, <1>4, SumAtLeast
<1>6. /\ n >= MinBaselineDays
      /\ 100 * today * n >= ratio * sum
      /\ MinConfidence * sum <= 50 * sum + 30 * (today * n - sum)
  BY DEF Exceeds, ValidDays, Total
<1> HIDE DEF n, sum, V
<1>7. n >= 1 /\ MinConfidence \in Nat
  BY <1>2, <1>6, AgentAssumption DEF AgentParameters
<1>8. sum >= 1
  BY <1>2, <1>3, <1>5, <1>7
<1> DEFINE a == today * n
<1>9. a \in Int /\ a <= sum /\ 100 * today * n = 100 * a
  BY <1>2, <1>5
<1> HIDE DEF a
<1>10. CASE ratio > 100
  <2>1. ratio * sum >= 101 * sum
    BY <1>3, <1>8, <1>10
  <2>2. 100 * a >= 101 * sum
    BY <1>3, <1>6, <1>9, <2>1
  <2> QED BY <1>3, <1>8, <1>9, <2>2
<1>11. CASE MinConfidence > 50
  <2>1. MinConfidence * sum >= 51 * sum
    BY <1>3, <1>7, <1>8, <1>11
  <2>2. MinConfidence * sum <= 50 * sum + 30 * (a - sum)
    BY <1>6 DEF a
  <2>3. MinConfidence * sum \in Int
    BY <1>3, <1>7
  <2>4. 30 * (a - sum) <= 0
    BY <1>3, <1>9
  <2> QED BY <1>3, <1>8, <1>9, <2>1, <2>2, <2>3, <2>4
<1> QED BY <1>10, <1>11

\* A finding of an inspection of the day, with what justifies it.
OfDevice(k) == k.category \in {"device_spike", "meter_backward"} => k.device \in Meters

Justified(f, date) ==
  f \in Findings /\ f.key.date = date /\ OfDevice(f.key) /\ Caused(f.key)

Falls(d, x) ==
  \E a, b \in DOMAIN data[d][x] : a < b /\ data[d][x][b].kwh < data[d][x][a].kwh

LEMMA HasFallen ==
  ASSUME DataOK, NEW d \in Meters, NEW x \in Days, Fell(d, x) PROVE Falls(d, x)
<1> DEFINE s == data[d][x]
<1>1. s \in Seq(Readings)
  BY DEF DataOK
<1>2. s # << >> /\ \E r \in Stored(s) : r.kwh > s[Len(s)].kwh
  BY DEF Fell
<1>3. PICK a \in DOMAIN s : s[a].kwh > s[Len(s)].kwh
  BY <1>2 DEF Stored
<1> HIDE DEF s
<1>4. Len(s) \in DOMAIN s /\ a \in 1..Len(s)
  BY <1>1, <1>2
<1>5. s[a].kwh \in Nat /\ s[Len(s)].kwh \in Nat
  <2>1. s[a] \in Readings /\ s[Len(s)] \in Readings
    BY <1>1, <1>4
  <2> QED BY <2>1 DEF Readings
<1>6. a # Len(s)
  BY <1>3, <1>5
<1>7. a < Len(s)
  BY <1>1, <1>4, <1>6
<1>8. s[Len(s)].kwh < s[a].kwh
  BY <1>3, <1>5
<1> QED BY <1>4, <1>7, <1>8 DEF Falls, s

LEMMA FindingIs ==
  ASSUME NEW date \in Days, NEW z \in Zones, NEW d \in Meters \cup {NoDevice},
         NEW c \in Categories, NEW severity \in 1..3
  PROVE  LET f == Finding(date, z, d, c, severity) IN
         /\ f \in Findings /\ f.key.date = date /\ f.key.zone = z
         /\ f.key.device = d /\ f.key.category = c
BY DEF Finding, Findings, DedupKeys

LEMMA Severities ==
  ASSUME NEW today, NEW hist, NEW night, NEW total
  PROVE  SeverityByRatio(today, hist) \in 1..3 /\ SeverityByNightShare(night, total) \in 1..3
BY DEF SeverityByRatio, SeverityByNightShare

\* Analyze of one zone.
LEMMA ZoneJustified ==
  ASSUME DataOK, Sparing, NEW z \in Zones, NEW date \in Days, NEW hours \in BOOLEAN,
         NEW f \in ZoneFindings(z, date, hours)
  PROVE  Justified(f, date)
<1> DEFINE hist  == [ x \in Window(date) |-> ZoneUse(z, x) ]
           today == ZoneUse(z, date)
           night == ZoneRises(z, date, NightHours)
           total == ZoneRises(z, date, Hours)
<1>1. IsFiniteSet(Window(date)) /\ Window(date) \subseteq Days
  BY WindowFinite
<1>2. hist \in [Window(date) -> Nat] /\ today \in Nat
  BY <1>1, ZoneUseType
<1>3. \/ /\ HasHistory(hist) /\ f = Finding(date, z, NoDevice, "data_missing", 2)
         /\ today = 0
      \/ /\ Exceeds(today, hist, ZoneRatio)
         /\ f = Finding(date, z, NoDevice, "zone_surge", SeverityByRatio(today, hist))
      \/ /\ DetectNightIdle(night, total)
         /\ f = Finding(date, z, NoDevice, "night_idle", SeverityByNightShare(night, total))
  BY DEF ZoneFindings
<1>4. CASE /\ HasHistory(hist) /\ f = Finding(date, z, NoDevice, "data_missing", 2)
           /\ today = 0
  <2>1. /\ f \in Findings /\ f.key.date = date /\ f.key.zone = z
        /\ f.key.category = "data_missing" /\ f.key.device = NoDevice
    BY <1>4, FindingIs DEF Categories
  <2>2. \E x \in Window(date) : ZoneUse(z, x) > 0
    BY <1>4 DEF HasHistory
  <2>3. ASSUME NEW d \in DevicesOf(z) PROVE DeviceUse(d, date) = 0
    <3>1. d \in Meters /\ DeviceUse(d, date) \in Nat /\ DeviceUse(d, date) <= ZoneUse(z, date)
      BY DevicesFinite, DeviceUseType, ZoneUseType
    <3> QED BY <1>4, <3>1
  <2> QED BY <2>1, <2>2, <2>3 DEF Justified, OfDevice, Caused
<1>5. CASE /\ Exceeds(today, hist, ZoneRatio)
           /\ f = Finding(date, z, NoDevice, "zone_surge", SeverityByRatio(today, hist))
  <2>1. SeverityByRatio(today, hist) \in 1..3
    BY Severities
  <2>2. /\ f \in Findings /\ f.key.date = date /\ f.key.zone = z
        /\ f.key.category = "zone_surge"
    <3> HIDE DEF hist, today
    <3> QED BY <1>5, <2>1, FindingIs DEF Categories
  <2>3. ZoneRatio \in Nat /\ (MinConfidence > 50 \/ ZoneRatio > 100)
    BY AgentAssumption DEF AgentParameters, Sparing
  <2>4. PICK x \in Window(date) : 0 < hist[x] /\ hist[x] < today
    <3> HIDE DEF hist, today
    <3> QED BY <1>1, <1>2, <1>5, <2>3, AboveOne
  <2>5. 0 < ZoneUse(z, x) /\ ZoneUse(z, x) < ZoneUse(z, date) /\ x \in Days
    BY <1>1, <2>4
  <2> QED BY <2>2, <2>5 DEF Justified, OfDevice, Caused
<1>6. CASE /\ DetectNightIdle(night, total)
           /\ f = Finding(date, z, NoDevice, "night_idle", SeverityByNightShare(night, total))
  <2>1. SeverityByNightShare(night, total) \in 1..3
    BY Severities
  <2>2. /\ f \in Findings /\ f.key.date = date /\ f.key.zone = z
        /\ f.key.category = "night_idle"
    <3> HIDE DEF night, total
    <3> QED BY <1>6, <2>1, FindingIs DEF Categories
  <2>3. night \in Int /\ total \in Int
    BY ZoneRisesIs
  <2>4. night > 0
    <3>1. total > 0 /\ 100 * night >= NightRatio * total
      BY <1>6 DEF DetectNightIdle
    <3>2. NightRatio \in Nat /\ NightRatio >= 1
      BY AgentAssumption DEF AgentParameters
    <3> HIDE DEF night, total
    <3>3. NightRatio * total >= total
      BY <2>3, <3>1, <3>2
    <3> QED BY <2>3, <3>1, <3>2, <3>3
  <2>5. \E d \in DevicesOf(z) : \E r \in Stored(data[d][date]) : r.hour \in NightHours
    BY <2>4, ZoneRisesIs
  <2> QED BY <2>2, <2>5 DEF Justified, OfDevice, Caused
<1> QED BY <1>3, <1>4, <1>5, <1>6

\* The use of a device on days of which some may not have been read.
Known(hist, d, date) ==
  \E W \in SUBSET Window(date) : hist = [x \in W |-> DeviceUse(d, x)]

\* Analyze of the devices of a zone.
LEMMA DevicesJustified ==
  ASSUME DataOK, Sparing, NEW z \in Zones, NEW date \in Days,
         NEW backward \in SUBSET Meters, \A d \in backward : Falls(d, date),
         NEW hist, \A d \in DevicesOf(z) : Known(hist[d], d, date),
         NEW findings \in DeviceFindings(z, date, backward, hist), NEW f \in findings
  PROVE  Justified(f, date)
<1> DEFINE listed == { d \in DevicesOf(z) : data[d][date] # << >> }
<1>1. listed \subseteq DevicesOf(z) /\ listed \subseteq Meters
  BY DevicesFinite
<1>2. \/ \E d \in listed : d \in backward /\ f = Finding(date, z, d, "meter_backward", 2)
      \/ \E d \in listed : /\ DeviceUse(d, date) = 0 /\ HasHistory(hist[d])
                           /\ f = Finding(date, z, d, "data_missing", 2)
      \/ \E d \in listed : /\ Exceeds(DeviceUse(d, date), hist[d], SpikeRatio)
                           /\ f = Finding(date, z, d, "device_spike",
                                          SeverityByRatio(DeviceUse(d, date), hist[d]))
  BY DEF DeviceFindings
<1>3. ASSUME NEW d \in listed
      PROVE  \E W \in SUBSET Days :
               /\ W \subseteq Window(date) /\ IsFiniteSet(W)
               /\ hist[d] \in [W -> Nat] /\ \A x \in W : hist[d][x] = DeviceUse(d, x)
  <2>1. PICK W \in SUBSET Window(date) : hist[d] = [x \in W |-> DeviceUse(d, x)]
    BY <1>1 DEF Known
  <2>2. IsFiniteSet(W) /\ W \subseteq Days
    BY WindowFinite, FS_Subset
  <2>3. \A x \in W : DeviceUse(d, x) \in Nat
    BY <1>1, <2>2, DeviceUseType
  <2> QED BY <2>1, <2>2, <2>3
<1>4. CASE \E d \in listed : d \in backward /\ f = Finding(date, z, d, "meter_backward", 2)
  <2>1. PICK d \in listed : d \in backward /\ f = Finding(date, z, d, "meter_backward", 2)
    BY <1>4
  <2>2. /\ f \in Findings /\ f.key.date = date /\ f.key.device = d
        /\ f.key.category = "meter_backward"
    BY <2>1, <1>1, FindingIs DEF Categories
  <2>3. Falls(d, date)
    BY <2>1
  <2> QED BY <1>1, <2>1, <2>2, <2>3 DEF Justified, OfDevice, Caused, Falls
<1>5. CASE \E d \in listed : /\ DeviceUse(d, date) = 0 /\ HasHistory(hist[d])
                             /\ f = Finding(date, z, d, "data_missing", 2)
  <2>1. PICK d \in listed : /\ DeviceUse(d, date) = 0 /\ HasHistory(hist[d])
                            /\ f = Finding(date, z, d, "data_missing", 2)
    BY <1>5
  <2>2. /\ f \in Findings /\ f.key.date = date /\ f.key.zone = z /\ f.key.device = d
        /\ f.key.category = "data_missing" /\ d # NoDevice /\ data[d][date] # << >>
    BY <2>1, <1>1, FindingIs, AgentAssumption DEF Categories, AgentParameters
  <2>3. PICK W \in SUBSET Days :
               /\ W \subseteq Window(date)
               /\ hist[d] \in [W -> Nat] /\ \A x \in W : hist[d][x] = DeviceUse(d, x)
    BY <1>3
  <2>4. PICK x \in W : hist[d][x] > 0
    BY <2>1, <2>3 DEF HasHistory
  <2>5. DeviceUse(d, x) > 0 /\ x \in Days /\ x \in Window(date)
    BY <2>3, <2>4
  <2> QED BY <2>1, <2>2, <2>5 DEF Justified, OfDevice, Caused
<1>6. CASE \E d \in listed : /\ Exceeds(DeviceUse(d, date), hist[d], SpikeRatio)
                             /\ f = Finding(date, z, d, "device_spike",
                                            SeverityByRatio(DeviceUse(d, date), hist[d]))
  <2>1. PICK d \in listed : /\ Exceeds(DeviceUse(d, date), hist[d], SpikeRatio)
                           /\ f = Finding(date, z, d, "device_spike",
                                          SeverityByRatio(DeviceUse(d, date), hist[d]))
    BY <1>6
  <2>2. SeverityByRatio(DeviceUse(d, date), hist[d]) \in 1..3
    BY Severities
  <2>3. /\ f \in Findings /\ f.key.date = date /\ f.key.device = d
        /\ f.key.category = "device_spike"
    BY <1>1, <2>1, <2>2, FindingIs DEF Categories
  <2>4. PICK W \in SUBSET Days :
               /\ W \subseteq Window(date) /\ IsFiniteSet(W)
               /\ hist[d] \in [W -> Nat] /\ \A x \in W : hist[d][x] = DeviceUse(d, x)
    BY <1>3
  <2>5. SpikeRatio \in Nat /\ (MinConfidence > 50 \/ SpikeRatio > 100)
    BY AgentAssumption DEF AgentParameters, Sparing
  <2>6. DeviceUse(d, date) \in Nat
    BY <1>1, DeviceUseType
  <2>7. PICK x \in W : 0 < hist[d][x] /\ hist[d][x] < DeviceUse(d, date)
    BY <2>1, <2>4, <2>5, <2>6, AboveOne
  <2>8. /\ 0 < DeviceUse(d, x) /\ DeviceUse(d, x) < DeviceUse(d, date)
        /\ x \in Days /\ x \in Window(date)
    BY <2>4, <2>7
  <2> QED BY <1>1, <2>3, <2>8 DEF Justified, OfDevice, Caused
<1> QED BY <1>2, <1>4, <1>5, <1>6

------------------------------------------------------------------------------
\* A reading that comes late, of a day that no inspection compares with, leaves
\* every cause what it is.
LEMMA CauseStays ==
  ASSUME DataOK, NEW d \in Meters, NEW x \in Days, NEW r \in Readings,
         data' = [data EXCEPT ![d][x] = Append(@, r)], late' = late \cup {<< d, x >>},
         NEW k \in DedupKeys, k.date <= x, OfDevice(k), Caused(k)
  PROVE  Caused(k)'
<1>1. DataOK'
  <2>1. Append(data[d][x], r) \in Seq(Readings)
    BY AppendProperties DEF DataOK
  <2> QED BY <2>1 DEF DataOK
<1>2. ASSUME NEW e \in Meters, NEW y \in Days
      PROVE  data'[e][y] = IF e = d /\ y = x THEN Append(data[e][y], r) ELSE data[e][y]
  BY DEF DataOK
<1>3. ASSUME NEW e \in Meters, NEW y \in Days
      PROVE  /\ data[e][y] \in Seq(Readings) /\ data'[e][y] \in Seq(Readings)
             /\ y # x => data'[e][y] = data[e][y]
  BY <1>1, <1>2 DEF DataOK
<1>4. ASSUME NEW e \in Meters, NEW y \in Days
      PROVE  /\ DeviceUse(e, y) \in Nat /\ DeviceUse(e, y)' \in Nat
             /\ DeviceUse(e, y) <= DeviceUse(e, y)'
             /\ y # x => DeviceUse(e, y)' = DeviceUse(e, y)
  <2>1. Usage(data[e][y]) \in Nat /\ Usage(data'[e][y]) \in Nat
    BY <1>3, UsageIs
  <2>2. Usage(data[e][y]) <= Usage(Append(data[e][y], r))
    BY <1>3, UsageGrows
  <2> QED BY <1>2, <2>1, <2>2 DEF DeviceUse
<1>5. ASSUME NEW z, NEW y \in Days
      PROVE  /\ ZoneUse(z, y) \in Nat /\ ZoneUse(z, y)' \in Nat
             /\ ZoneUse(z, y) <= ZoneUse(z, y)'
             /\ y # x => ZoneUse(z, y)' = ZoneUse(z, y)
  <2> DEFINE f == [e \in DevicesOf(z) |-> DeviceUse(e, y)]
             g == [e \in DevicesOf(z) |-> DeviceUse(e, y)']
  <2>1. IsFiniteSet(DevicesOf(z)) /\ DevicesOf(z) \subseteq Meters
    BY DevicesFinite
  <2>2. /\ IntsOn(f, DevicesOf(z)) /\ IntsOn(g, DevicesOf(z)) /\ AtMost(f, g, DevicesOf(z))
        /\ y # x => f = g
    BY <1>4, <2>1 DEF IntsOn, AtMost
  <2>3. ZoneUse(z, y) = SumFunctionOnSet(f, DevicesOf(z))
    BY DEF ZoneUse, SumFunction
  <2>4. ZoneUse(z, y)' = SumFunctionOnSet(g, DevicesOf(z))
    BY DEF ZoneUse, SumFunction, DevicesOf
  <2> HIDE DEF f, g
  <2>5. SumFunctionOnSet(f, DevicesOf(z)) <= SumFunctionOnSet(g, DevicesOf(z))
    BY <2>1, <2>2, SumMonotone
  <2>6. ZoneUse(z, y) \in Nat
    BY ZoneUseType
  <2>7. SumFunctionOnSet(g, DevicesOf(z)) \in Int
    BY <2>1, <2>2, SumType
  <2> QED BY <2>2, <2>3, <2>4, <2>5, <2>6, <2>7
<1>6. k.date \in Days /\ \A y \in Window(k.date) : y \in Days /\ y # x
  BY DEF DedupKeys, Window, Days
<1>7. k.category \in Categories /\ k.device \in Meters \cup {NoDevice}
  BY DEF DedupKeys
<1>8. CASE k.category = "device_spike" /\ k.device \in Meters
  <2>1. PICK y \in Window(k.date) :
          0 < DeviceUse(k.device, y) /\ DeviceUse(k.device, y) < DeviceUse(k.device, k.date)
    BY <1>6, <1>8 DEF Caused
  <2>2. /\ 0 < DeviceUse(k.device, y)'
        /\ DeviceUse(k.device, y)' < DeviceUse(k.device, k.date)'
    BY <1>4, <1>6, <1>8, <2>1
  <2> QED BY <1>6, <1>8, <2>2 DEF Caused
<1>9. CASE k.category = "zone_surge"
  <2>1. PICK y \in Window(k.date) :
          0 < ZoneUse(k.zone, y) /\ ZoneUse(k.zone, y) < ZoneUse(k.zone, k.date)
    BY <1>6, <1>9 DEF Caused
  <2>2. 0 < ZoneUse(k.zone, y)' /\ ZoneUse(k.zone, y)' < ZoneUse(k.zone, k.date)'
    BY <1>5, <1>6, <2>1
  <2> QED BY <1>6, <1>9, <2>2 DEF Caused
<1>10. CASE k.category = "data_missing"
  <2> DEFINE scope == IF k.device = NoDevice THEN DevicesOf(k.zone) ELSE {k.device}
  <2>1. scope \subseteq Meters /\ scope' = scope
    BY <1>7, DevicesFinite DEF DevicesOf
  <2>2. ASSUME NEW e \in scope PROVE DeviceUse(e, k.date)' = 0 \/ << e, k.date >> \in late'
    <3>1. DeviceUse(e, k.date) = 0 \/ << e, k.date >> \in late
      BY <1>10 DEF Caused
    <3>2. CASE e = d /\ k.date = x
      BY <3>2
    <3>3. CASE ~(e = d /\ k.date = x)
      <4>1. data'[e][k.date] = data[e][k.date]
        BY <1>2, <1>6, <2>1, <3>3
      <4> QED BY <3>1, <4>1 DEF DeviceUse
    <3> QED BY <3>2, <3>3
  <2>3. CASE k.device = NoDevice
    <3>1. PICK y \in Window(k.date) : ZoneUse(k.zone, y) > 0
      BY <1>10, <2>3 DEF Caused
    <3>2. ZoneUse(k.zone, y)' > 0
      BY <1>5, <1>6, <3>1
    <3> QED BY <1>10, <2>1, <2>2, <2>3, <3>2 DEF Caused
  <2>4. CASE k.device # NoDevice
    <3>1. data[k.device][k.date] # << >> /\ k.device \in Meters
      BY <1>7, <1>10, <2>4 DEF Caused
    <3>2. PICK y \in Window(k.date) : DeviceUse(k.device, y) > 0
      BY <1>10, <2>4 DEF Caused
    <3>3. DeviceUse(k.device, y)' > 0
      BY <1>4, <1>6, <3>1, <3>2
    <3>4. data'[k.device][k.date] # << >>
      <4> DEFINE was == data[k.device][k.date]
                 new == data'[k.device][k.date]
      <4>1. was \in Seq(Readings) /\ was # << >> /\ (new = was \/ new = Append(was, r))
        BY <1>2, <1>3, <1>6, <3>1
      <4> HIDE DEF was, new
      <4>2. new # << >>
        BY <4>1
      <4> QED BY <4>2 DEF new
    <3> QED BY <1>10, <2>1, <2>2, <2>4, <3>3, <3>4 DEF Caused
  <2> QED BY <2>3, <2>4
<1>11. CASE k.category = "meter_backward" /\ k.device \in Meters
  <2> DEFINE was == data[k.device][k.date]
             new == data'[k.device][k.date]
  <2>1. PICK a, b \in DOMAIN was : a < b /\ was[b].kwh < was[a].kwh
    BY <1>11 DEF Caused
  <2>2. was \in Seq(Readings) /\ (new = was \/ new = Append(was, r))
    BY <1>2, <1>3, <1>6, <1>11
  <2>3. ASSUME NEW i \in DOMAIN was PROVE i \in DOMAIN new /\ new[i] = was[i]
    <3> HIDE DEF was, new
    <3> QED BY <2>2
  <2>4. a \in DOMAIN new /\ b \in DOMAIN new /\ new[b].kwh < new[a].kwh
    BY <2>1, <2>3
  <2> QED BY <1>11, <2>1, <2>4 DEF Caused
<1>12. CASE k.category = "night_idle"
  <2>1. PICK e \in DevicesOf(k.zone) : \E q \in Stored(data[e][k.date]) : q.hour \in NightHours
    BY <1>12 DEF Caused
  <2>2. e \in Meters /\ DevicesOf(k.zone)' = DevicesOf(k.zone)
    BY <2>1 DEF DevicesOf
  <2>3. PICK i \in DOMAIN data[e][k.date] : data[e][k.date][i].hour \in NightHours
    BY <2>1 DEF Stored
  <2>4. /\ data[e][k.date] \in Seq(Readings)
        /\ data'[e][k.date] \in {data[e][k.date], Append(data[e][k.date], r)}
    BY <1>2, <1>3, <1>6, <2>2
  <2>5. i \in DOMAIN data'[e][k.date] /\ data'[e][k.date][i] = data[e][k.date][i]
    <3> DEFINE was == data[e][k.date]
               new == data'[e][k.date]
    <3>1. was \in Seq(Readings) /\ (new = was \/ new = Append(was, r)) /\ i \in DOMAIN was
      BY <2>3, <2>4
    <3> HIDE DEF was, new
    <3>2. i \in DOMAIN new /\ new[i] = was[i]
      BY <3>1
    <3> QED BY <3>2 DEF was, new
  <2>6. \E q \in Stored(data'[e][k.date]) : q.hour \in NightHours
    BY <2>3, <2>5 DEF Stored
  <2> QED BY <1>12, <2>1, <2>2, <2>6 DEF Caused
<1> QED BY <1>7, <1>8, <1>9, <1>10, <1>11, <1>12 DEF Categories, OfDevice

LEMMA FallStays ==
  ASSUME DataOK, NEW d \in Meters, NEW x \in Days, NEW r \in Readings,
         data' = [data EXCEPT ![d][x] = Append(@, r)],
         NEW e \in Meters, NEW y \in Days, Falls(e, y)
  PROVE  Falls(e, y)'
<1> DEFINE was == data[e][y]
           new == data'[e][y]
<1>1. was \in Seq(Readings) /\ (new = was \/ new = Append(was, r))
  BY DEF DataOK
<1>2. PICK a, b \in DOMAIN was : a < b /\ was[b].kwh < was[a].kwh
  BY DEF Falls
<1>3. ASSUME NEW i \in DOMAIN was PROVE i \in DOMAIN new /\ new[i] = was[i]
  <2> HIDE DEF was, new
  <2> QED BY <1>1
<1>4. a \in DOMAIN new /\ b \in DOMAIN new /\ new[b].kwh < new[a].kwh
  BY <1>2, <1>3
<1> QED BY <1>2, <1>4 DEF Falls

LEMMA SameCauses ==
  ASSUME data' = data, late' = late, NEW k, NEW e, NEW y
  PROVE  (Caused(k)' <=> Caused(k)) /\ (Falls(e, y)' <=> Falls(e, y))
BY DEF Caused, DeviceUse, ZoneUse, Falls

------------------------------------------------------------------------------
\* An inspection is of the day of its run, and what it has found is justified.
InspectsWell(p) ==
  insp[p].stage # "idle" =>
    /\ insp[p].run \in DOMAIN runs /\ insp[p].date \in Days
    /\ runs[insp[p].run].date = insp[p].date
    /\ \A d \in insp[p].backward : Falls(d, insp[p].date)
    /\ \A f \in insp[p].found : Justified(f, insp[p].date)
    /\ insp[p].stage = "devices" => insp[p].zone \in Zones

KeptWell(k) ==
  /\ runs[sugs[k].run].date = k.date
  /\ OfDevice(k) /\ Caused(k)
  /\ sugs[k].status = "pending" <=> k \notin decided
  /\ sugs[k].status = "pending" <=> sugs[k].reviewer = NoReviewer

AgentIInv ==
  /\ AgentTypeOK
  /\ \A p \in Inspectors : InspectsWell(p)
  /\ \A k \in DOMAIN sugs : KeptWell(k)

\* No run is lost, and none moves to another day.
RunsKeep ==
  /\ DOMAIN runs \subseteq DOMAIN runs'
  /\ \A i \in DOMAIN runs : runs'[i].date = runs[i].date

LEMMA WellStays ==
  ASSUME data' = data, late' = late, RunsKeep, NEW p, insp'[p] = insp[p], InspectsWell(p)
  PROVE  InspectsWell(p)'
BY DEF InspectsWell, Justified, RunsKeep, Falls, Caused, DeviceUse, ZoneUse

LEMMA KeptStays ==
  ASSUME AgentTypeOK, data' = data, late' = late, RunsKeep, NEW k \in DOMAIN sugs, sugs'[k] = sugs[k],
         k \in decided' <=> k \in decided, KeptWell(k)
  PROVE  KeptWell(k)'
<1>1. sugs[k].run \in DOMAIN runs
  BY DEF AgentTypeOK, SugRows
<1> QED BY <1>1, SameCauses DEF KeptWell, RunsKeep, OfDevice

LEMMA AgentStarts == AgentInit => AgentIInv
<1> SUFFICES ASSUME AgentInit PROVE AgentIInv
  OBVIOUS
<1> USE AgentAssumption DEF AgentInit
<1> USE DEF AgentParameters
<1>1. data \in [Meters -> [Days -> Seq(Readings)]]
  OBVIOUS
<1>2. DOMAIN sugs = {} /\ decided = {} /\ rev \in [Reviewers -> SUBSET DOMAIN sugs]
  OBVIOUS
<1>3. NoInspection \in Inspections
  BY DEF NoInspection, Inspections, InspectStages
<1>4. insp \in [Inspectors -> Inspections] /\ \A p \in Inspectors : insp[p] = NoInspection
  BY <1>3
<1>5. runs \in Seq(RunRows) /\ Len(runs) = 0
  OBVIOUS
<1>6. AgentTypeOK
  <2>1. lastDate \in [Jobs -> {0} \cup Days]
    OBVIOUS
  <2>2. day \in FirstDay .. LastDay
    OBVIOUS
  <2>3. reached \in BOOLEAN
    OBVIOUS
  <2>4. Len(runs) <= MaxRuns
    BY <1>5
  <2>5. /\ reviews \in 0 .. MaxReviews /\ late \in SUBSET (Meters \X Days)
        /\ agentFaults \in 0 .. MaxAgentFaults
    OBVIOUS
  <2> QED BY <1>1, <1>2, <1>4, <1>5, <2>1, <2>2, <2>3, <2>4, <2>5 DEF AgentTypeOK
<1>7. \A p \in Inspectors : InspectsWell(p)
  BY <1>4 DEF InspectsWell, NoInspection
<1> QED BY <1>2, <1>6, <1>7 DEF AgentIInv

LEMMA Begun ==
  ASSUME NEW n \in 0..MaxRuns, NEW date \in Days, NEW scope \in Zones \cup {AllZones}
  PROVE  [NoInspection EXCEPT !.stage = "zones", !.run = n, !.date = date,
                              !.scope = scope] \in Inspections
BY DEF NoInspection, Inspections, InspectStages

\* A run is created.
LEMMA BeginWorks ==
  ASSUME AgentIInv, NEW p \in Inspectors, NEW date \in Days,
         NEW scope \in Zones \cup {AllZones}, Begin(p, date, scope),
         data' = data, late' = late, sugs' = sugs, decided' = decided
  PROVE  /\ runs' \in Seq(RunRows) /\ Len(runs') <= MaxRuns /\ RunsKeep
         /\ insp' \in [Inspectors -> Inspections]
         /\ agentFaults' \in 0 .. MaxAgentFaults
         /\ \A q \in Inspectors : InspectsWell(q)'
<1> USE DEF AgentIInv
<1>1. /\ runs \in Seq(RunRows) /\ Len(runs) <= MaxRuns /\ MaxRuns \in Nat
      /\ insp \in [Inspectors -> Inspections]
      /\ agentFaults \in 0 .. MaxAgentFaults /\ MaxAgentFaults \in Nat
  BY AgentAssumption DEF AgentTypeOK, AgentParameters
<1>2. CASE AgentFault("create") /\ UNCHANGED << runs, insp >>
  <2>1. RunsKeep
    BY <1>2 DEF RunsKeep
  <2>2. agentFaults' \in 0 .. MaxAgentFaults
    BY <1>1, <1>2 DEF AgentFault
  <2> QED BY <1>1, <1>2, <2>1, <2>2, WellStays
<1>3. CASE /\ Len(runs) < MaxRuns
           /\ runs' = Append(runs, [date |-> date, status |-> "running"])
           /\ insp' = [insp EXCEPT ![p] = [NoInspection EXCEPT !.stage = "zones",
                         !.run = Len(runs) + 1, !.date = date, !.scope = scope]]
           /\ UNCHANGED agentFaults
  <2> DEFINE made == [date |-> date, status |-> "running"]
             begun == [NoInspection EXCEPT !.stage = "zones", !.run = Len(runs) + 1,
                                           !.date = date, !.scope = scope]
  <2>1. made \in RunRows
    BY DEF RunRows
  <2>2. /\ runs' \in Seq(RunRows) /\ Len(runs') = Len(runs) + 1
        /\ DOMAIN runs = 1 .. Len(runs) /\ DOMAIN runs' = 1 .. Len(runs')
        /\ \A i \in DOMAIN runs : runs'[i] = runs[i]
        /\ runs'[Len(runs) + 1] = made
    <3> HIDE DEF made
    <3>1. runs' = Append(runs, made)
      BY <1>3 DEF made
    <3> QED BY <1>1, <2>1, <3>1
  <2>3. RunsKeep /\ Len(runs') <= MaxRuns /\ Len(runs) + 1 \in DOMAIN runs'
    BY <1>1, <1>3, <2>2 DEF RunsKeep
  <2>4. begun \in Inspections
    <3>1. Len(runs) + 1 \in 0 .. MaxRuns
      BY <1>1, <1>3
    <3> QED BY <3>1, Begun
  <2>5. insp' \in [Inspectors -> Inspections] /\ insp'[p] = begun
    BY <1>1, <1>3, <2>4
  <2>6. InspectsWell(p)'
    BY <2>2, <2>3, <2>5 DEF InspectsWell, NoInspection
  <2>7. ASSUME NEW q \in Inspectors, q # p PROVE InspectsWell(q)'
    <3>1. insp'[q] = insp[q]
      BY <1>1, <1>3, <2>7
    <3> QED BY <2>3, <3>1, WellStays
  <2> QED BY <1>1, <1>3, <2>2, <2>3, <2>5, <2>6, <2>7
<1>4. CASE /\ Len(runs) < MaxRuns /\ AgentFault("create")
           /\ runs' = Append(runs, [date |-> date, status |-> "running"])
           /\ UNCHANGED insp
  <2> DEFINE made == [date |-> date, status |-> "running"]
  <2>1. made \in RunRows
    BY DEF RunRows
  <2>2. /\ runs' \in Seq(RunRows) /\ Len(runs') = Len(runs) + 1
        /\ \A i \in DOMAIN runs : i \in DOMAIN runs' /\ runs'[i] = runs[i]
    <3> HIDE DEF made
    <3>1. runs' = Append(runs, made)
      BY <1>4 DEF made
    <3> QED BY <1>1, <2>1, <3>1
  <2>3. RunsKeep /\ Len(runs') <= MaxRuns
    BY <1>1, <1>4, <2>2 DEF RunsKeep
  <2>4. agentFaults' \in 0 .. MaxAgentFaults
    BY <1>1, <1>4 DEF AgentFault
  <2> QED BY <1>1, <1>4, <2>2, <2>3, <2>4, WellStays
<1> QED BY <1>2, <1>3, <1>4 DEF Begin

\* A step that leaves data and suggestions alone, and inspects well.
LEMMA InspectSteps ==
  ASSUME AgentIInv, UNCHANGED << data, day, reached, sugs, rev, decided, reviews, late >>,
         lastDate' \in [Jobs -> {0} \cup Days],
         runs' \in Seq(RunRows), Len(runs') <= MaxRuns, RunsKeep,
         insp' \in [Inspectors -> Inspections], agentFaults' \in 0 .. MaxAgentFaults,
         \A q \in Inspectors : InspectsWell(q)'
  PROVE  AgentIInv'
<1>1. AgentTypeOK'
  BY DEF AgentIInv, AgentTypeOK, RunsKeep, SugRows
<1>2. \A k \in DOMAIN sugs' : KeptWell(k)'
  BY KeptStays DEF AgentIInv
<1> QED BY <1>1, <1>2 DEF AgentIInv

LEMMA FaultsBound ==
  ASSUME AgentTypeOK, agentFaults' = agentFaults \/ \E kind \in InspectFaults : AgentFault(kind)
  PROVE  agentFaults' \in 0 .. MaxAgentFaults
<1>1. agentFaults \in 0 .. MaxAgentFaults /\ MaxAgentFaults \in Nat
  BY AgentAssumption DEF AgentTypeOK, AgentParameters
<1> QED BY <1>1 DEF AgentFault

\* An inspection that goes on with what is justified.
LEMMA InspectionMoves ==
  ASSUME AgentIInv, Reads, NEW p \in Inspectors, NEW i \in Inspections,
         insp' = [insp EXCEPT ![p] = i], insp[p].stage # "idle",
         i.run = insp[p].run, i.date = insp[p].date,
         \A d \in i.backward : Falls(d, i.date),
         \A f \in i.found : Justified(f, i.date),
         i.stage = "devices" => i.zone \in Zones,
         agentFaults' = agentFaults \/ \E kind \in InspectFaults : AgentFault(kind)
  PROVE  AgentIInv'
<1>1. /\ insp \in [Inspectors -> Inspections] /\ RunsKeep
      /\ lastDate \in [Jobs -> {0} \cup Days] /\ runs \in Seq(RunRows) /\ Len(runs) <= MaxRuns
  BY DEF AgentIInv, AgentTypeOK, Reads, RunsKeep
<1>2. insp' \in [Inspectors -> Inspections] /\ insp'[p] = i
  BY <1>1
<1>3. InspectsWell(p)'
  <2>1. InspectsWell(p) /\ data' = data /\ late' = late /\ runs' = runs
    BY DEF AgentIInv, Reads
  <2>2. \A d \in i.backward : Falls(d, i.date)'
    BY <2>1, SameCauses
  <2>3. \A f \in i.found : Justified(f, i.date)'
    BY <2>1, SameCauses DEF Justified
  <2>4. i.run \in DOMAIN runs /\ i.date \in Days /\ runs[i.run].date = i.date
    BY <2>1 DEF InspectsWell
  <2> QED BY <1>2, <2>1, <2>2, <2>3, <2>4 DEF InspectsWell, Justified, Falls
<1>4. ASSUME NEW q \in Inspectors, q # p PROVE InspectsWell(q)'
  <2>1. insp'[q] = insp[q]
    BY <1>1, <1>4
  <2> QED BY <1>1, <2>1, WellStays DEF AgentIInv, Reads
<1>5. agentFaults' \in 0 .. MaxAgentFaults
  BY FaultsBound DEF AgentIInv
<1> QED BY <1>1, <1>2, <1>3, <1>4, <1>5, InspectSteps DEF Reads

\* An inspection that ends, its run closed or not.
LEMMA InspectionEnds ==
  ASSUME AgentIInv, NEW p \in Inspectors, NEW verdict \in {"success", "failed"},
         insp[p].stage # "idle",
         Ends(p, verdict) \/ (insp' = [insp EXCEPT ![p] = NoInspection] /\ UNCHANGED runs),
         UNCHANGED << data, day, reached, lastDate, sugs, rev, decided, reviews, late >>,
         agentFaults' = agentFaults \/ \E kind \in InspectFaults : AgentFault(kind)
  PROVE  AgentIInv'
<1>1. /\ insp \in [Inspectors -> Inspections] /\ MaxRuns \in Nat
      /\ lastDate \in [Jobs -> {0} \cup Days] /\ runs \in Seq(RunRows) /\ Len(runs) <= MaxRuns
  BY AgentAssumption DEF AgentIInv, AgentTypeOK, AgentParameters
<1>2. insp' = [insp EXCEPT ![p] = NoInspection]
  BY DEF Ends
<1>3. NoInspection \in Inspections
  BY <1>1 DEF NoInspection, Inspections, InspectStages
<1>4. insp' \in [Inspectors -> Inspections] /\ insp'[p] = NoInspection
  BY <1>1, <1>2, <1>3
<1>5. runs' \in Seq(RunRows) /\ Len(runs') <= MaxRuns /\ RunsKeep
  <2>1. CASE UNCHANGED runs
    BY <1>1, <2>1 DEF RunsKeep
  <2>2. CASE Ends(p, verdict)
    <3> DEFINE r == insp[p].run
    <3>1. r \in DOMAIN runs
      BY DEF AgentIInv, InspectsWell
    <3>2. runs' = [runs EXCEPT ![r] = [runs[r] EXCEPT !.status = verdict]]
      BY <2>2 DEF Ends
    <3> HIDE DEF r
    <3>3. runs[r] \in RunRows
      BY <1>1, <3>1
    <3>4. [runs[r] EXCEPT !.status = verdict] \in RunRows
      BY <3>3 DEF RunRows
    <3>5. DOMAIN runs' = DOMAIN runs /\ runs' \in Seq(RunRows) /\ Len(runs') = Len(runs)
      BY <1>1, <3>1, <3>2, <3>4
    <3>6. ASSUME NEW i \in DOMAIN runs PROVE runs'[i].date = runs[i].date
      BY <1>1, <3>1, <3>2, <3>3, <3>4 DEF RunRows
    <3> QED BY <1>1, <3>5, <3>6 DEF RunsKeep
  <2> QED BY <2>1, <2>2
<1>6. InspectsWell(p)'
  BY <1>4 DEF InspectsWell, NoInspection
<1>7. ASSUME NEW q \in Inspectors, q # p PROVE InspectsWell(q)'
  <2>1. insp'[q] = insp[q]
    BY <1>1, <1>2, <1>7
  <2> QED BY <1>5, <2>1, WellStays DEF AgentIInv
<1>8. agentFaults' \in 0 .. MaxAgentFaults
  BY FaultsBound DEF AgentIInv
<1> QED BY <1>1, <1>4, <1>5, <1>6, <1>7, <1>8, InspectSteps

\* The stages of an inspection.
LEMMA ListZonesWorks ==
  ASSUME AgentIInv, NEW p \in Inspectors, ListZones(p) PROVE AgentIInv'
<1> DEFINE scope == insp[p].scope
           zones == { z \in Zones : HasData(z) /\ scope \in {AllZones, z} }
           i == [insp[p] EXCEPT !.todo = zones, !.scope = AllZones, !.stage = "backward"]
<1>1. insp[p] \in Inspections /\ insp[p].stage = "zones" /\ InspectsWell(p)
  BY DEF AgentIInv, AgentTypeOK, ListZones
<1>2. CASE /\ insp' = [insp EXCEPT ![p].todo = zones, ![p].scope = AllZones,
                                   ![p].stage = "backward"]
           /\ UNCHANGED << runs, agentFaults >>
  <2>1. i \in Inspections
    <3>1. zones \in SUBSET Zones
      OBVIOUS
    <3> HIDE DEF zones
    <3> QED BY <1>1, <3>1 DEF Inspections, InspectStages
  <2>2. insp' = [insp EXCEPT ![p] = i]
    BY <1>2
  <2>3. /\ i.run = insp[p].run /\ i.date = insp[p].date /\ i.stage = "backward"
        /\ i.backward = insp[p].backward /\ i.found = insp[p].found
    BY <1>1 DEF Inspections
  <2>4. Reads
    BY <1>2 DEF ListZones, Reads
  <2> HIDE DEF i
  <2> QED BY <1>1, <1>2, <2>1, <2>2, <2>3, <2>4, InspectionMoves DEF InspectsWell
<1>3. CASE /\ Ends(p, "failed")
           /\ agentFaults' = agentFaults \/ \E kind \in InspectFaults : AgentFault(kind)
  BY <1>1, <1>3, InspectionEnds DEF ListZones
<1> QED BY <1>2, <1>3 DEF ListZones, AgentFault

LEMMA ListBackwardWorks ==
  ASSUME AgentIInv, NEW p \in Inspectors, ListBackward(p) PROVE AgentIInv'
<1> DEFINE fell == { d \in Meters : Fell(d, insp[p].date) }
<1>1. /\ insp[p] \in Inspections /\ insp[p].stage = "backward" /\ InspectsWell(p)
      /\ insp \in [Inspectors -> Inspections]
  BY DEF AgentIInv, AgentTypeOK, ListBackward
<1>2. DataOK
  BY DEF AgentIInv, AgentTypeOK, DataOK
<1>3. \A d \in fell : Falls(d, insp[p].date)
  BY <1>1, <1>2, HasFallen DEF InspectsWell
<1>4. PICK backward \in {fell, insp[p].backward} :
        /\ insp' = [insp EXCEPT ![p] = [insp[p] EXCEPT !.backward = backward, !.stage = "zone"]]
        /\ agentFaults' = agentFaults \/ \E kind \in InspectFaults : AgentFault(kind)
  <2>1. CASE /\ insp' = [insp EXCEPT ![p].backward = fell, ![p].stage = "zone"]
             /\ UNCHANGED agentFaults
    BY <2>1
  <2>2. CASE AgentFault("backward") /\ Goes(p, "zone")
    <3>1. insp' = [insp EXCEPT ![p] = [insp[p] EXCEPT !.stage = "zone"]]
      BY <2>2 DEF Goes
    <3>2. [insp[p] EXCEPT !.stage = "zone"] =
            [insp[p] EXCEPT !.backward = insp[p].backward, !.stage = "zone"]
      BY <1>1 DEF Inspections
    <3> QED BY <2>2, <3>1, <3>2 DEF AgentFault
  <2> QED BY <2>1, <2>2 DEF ListBackward
<1> DEFINE i == [insp[p] EXCEPT !.backward = backward, !.stage = "zone"]
<1>5. backward \in SUBSET Meters
  <2>1. fell \in SUBSET Meters /\ insp[p].backward \in SUBSET Meters
    BY <1>1 DEF Inspections
  <2> QED BY <1>4, <2>1
<1>6. /\ i \in Inspections /\ i.run = insp[p].run /\ i.date = insp[p].date
      /\ i.stage = "zone" /\ i.backward = backward /\ i.found = insp[p].found
  <2> HIDE DEF fell
  <2> QED BY <1>1, <1>5 DEF Inspections, InspectStages
<1>7. \A d \in i.backward : Falls(d, i.date)
  BY <1>1, <1>3, <1>4, <1>6 DEF InspectsWell
<1>8. Reads
  BY DEF ListBackward
<1> HIDE DEF i
<1> QED BY <1>1, <1>4, <1>6, <1>7, <1>8, InspectionMoves DEF InspectsWell, i

LEMMA BuildZoneInputWorks ==
  ASSUME AgentIInv, NEW p \in Inspectors, Sparing, BuildZoneInput(p) PROVE AgentIInv'
<1> PICK z \in insp[p].todo :
      LET next == [insp[p] EXCEPT !.todo = @ \ {z}]
          With(hours) == [next EXCEPT !.found = @ \cup ZoneFindings(z, insp[p].date, hours),
                                      !.zone = z, !.stage = "devices"]
      IN
      /\ insp[p].stage = "zone"
      /\ \/ insp' = [insp EXCEPT ![p] = With(TRUE)] /\ UNCHANGED agentFaults
         \/ AgentFault("hours") /\ insp' = [insp EXCEPT ![p] = With(FALSE)]
         \/ AgentFault("zone") /\ insp' = [insp EXCEPT ![p] = next]
      /\ Reads
  BY DEF BuildZoneInput
<1> DEFINE next == [insp[p] EXCEPT !.todo = @ \ {z}]
           With(hours) == [next EXCEPT !.found = @ \cup ZoneFindings(z, insp[p].date, hours),
                                       !.zone = z, !.stage = "devices"]
<1>1. /\ insp[p] \in Inspections /\ insp[p].stage = "zone" /\ InspectsWell(p) /\ Reads
      /\ DataOK
  BY DEF AgentIInv, AgentTypeOK, DataOK
<1>2. z \in Zones /\ insp[p].date \in Days
  BY <1>1 DEF Inspections, InspectsWell
<1>3. agentFaults' = agentFaults \/ \E kind \in InspectFaults : AgentFault(kind)
  BY DEF AgentFault
<1>4. /\ next \in Inspections /\ next.run = insp[p].run /\ next.date = insp[p].date
      /\ next.stage = "zone" /\ next.found = insp[p].found
      /\ next.backward = insp[p].backward
  BY <1>1 DEF Inspections
<1>5. ASSUME NEW hours \in BOOLEAN, insp' = [insp EXCEPT ![p] = With(hours)]
      PROVE  AgentIInv'
  <2> DEFINE new == ZoneFindings(z, insp[p].date, hours)
             i == With(hours)
  <2>1. \A f \in new : Justified(f, insp[p].date)
    <3> HIDE DEF With
    <3> QED BY <1>1, <1>2, ZoneJustified
  <2>2. new \subseteq Findings
    BY <2>1 DEF Justified
  <2> HIDE DEF new, next
  <2>3. /\ i \in Inspections /\ i.run = insp[p].run /\ i.date = insp[p].date
        /\ i.stage = "devices" /\ i.zone = z /\ i.found = insp[p].found \cup new
        /\ i.backward = insp[p].backward
    BY <1>2, <1>4, <2>2 DEF Inspections, InspectStages, new
  <2>4. \A f \in i.found : Justified(f, i.date)
    BY <1>1, <2>1, <2>3 DEF InspectsWell
  <2>5. insp' = [insp EXCEPT ![p] = i]
    BY <1>5
  <2> HIDE DEF i, With
  <2> QED BY <1>1, <1>2, <1>3, <2>3, <2>4, <2>5, InspectionMoves DEF InspectsWell
<1>6. CASE insp' = [insp EXCEPT ![p] = next]
  <2> HIDE DEF next
  <2> QED BY <1>1, <1>3, <1>4, <1>6, InspectionMoves DEF InspectsWell
<1> QED BY <1>5, <1>6

LEMMA ListDevicesWorks ==
  ASSUME AgentIInv, NEW p \in Inspectors, Sparing, ListDevices(p) PROVE AgentIInv'
<1> DEFINE z == insp[p].zone
           date == insp[p].date
           Hist(missed) == [ d \in DevicesOf(z) |->
             [ x \in IF d \in missed THEN {} ELSE Window(date) |-> DeviceUse(d, x) ] ]
<1>1. /\ insp[p] \in Inspections /\ insp[p].stage = "devices" /\ InspectsWell(p) /\ Reads
      /\ DataOK
  BY DEF AgentIInv, AgentTypeOK, DataOK, ListDevices
<1>2. z \in Zones /\ date \in Days /\ insp[p].backward \in SUBSET Meters
  BY <1>1 DEF Inspections, InspectsWell
<1>3. agentFaults' = agentFaults \/ \E kind \in InspectFaults : AgentFault(kind)
  BY DEF AgentFault, ListDevices
<1>4. ASSUME NEW new, new \subseteq Findings, \A f \in new : Justified(f, date),
             insp' = [insp EXCEPT ![p].found = @ \cup new, ![p].zone = AllZones,
                                  ![p].stage = "zone"]
      PROVE  AgentIInv'
  <2> DEFINE i == [insp[p] EXCEPT !.found = @ \cup new, !.zone = AllZones, !.stage = "zone"]
  <2>1. /\ i \in Inspections /\ i.run = insp[p].run /\ i.date = insp[p].date
        /\ i.stage = "zone" /\ i.found = insp[p].found \cup new
        /\ i.backward = insp[p].backward
    BY <1>1, <1>4 DEF Inspections, InspectStages
  <2>2. insp' = [insp EXCEPT ![p] = i]
    BY <1>4
  <2> HIDE DEF i
  <2>3. \A f \in i.found : Justified(f, i.date)
    BY <1>1, <1>4, <2>1 DEF InspectsWell
  <2> QED BY <1>1, <1>3, <2>1, <2>2, <2>3, InspectionMoves DEF InspectsWell
<1>5. ASSUME NEW missed, NEW new \in DeviceFindings(z, date, insp[p].backward, Hist(missed)),
             insp' = [insp EXCEPT ![p].found = @ \cup new, ![p].zone = AllZones,
                                  ![p].stage = "zone"]
      PROVE  AgentIInv'
  <2> DEFINE hist == Hist(missed)
  <2>1. \A d \in DevicesOf(z) : Known(hist[d], d, date)
    <3>1. SUFFICES ASSUME NEW d \in DevicesOf(z) PROVE Known(hist[d], d, date)
      OBVIOUS
    <3>2. PICK W \in SUBSET Window(date) : W = IF d \in missed THEN {} ELSE Window(date)
      OBVIOUS
    <3>3. hist[d] = [x \in W |-> DeviceUse(d, x)]
      BY <3>2
    <3> QED BY <3>3 DEF Known
  <2>2. \A d \in insp[p].backward : Falls(d, date)
    BY <1>1 DEF InspectsWell
  <2>3. new \in DeviceFindings(z, date, insp[p].backward, hist)
    BY <1>5
  <2> HIDE DEF hist, Hist, z, date
  <2>4. \A f \in new : Justified(f, date)
    BY <1>1, <1>2, <2>1, <2>2, <2>3, DevicesJustified
  <2>5. new \subseteq Findings
    BY <2>4 DEF Justified
  <2> QED BY <1>4, <1>5, <2>4, <2>5
<1>6. CASE insp' = [insp EXCEPT ![p].zone = AllZones, ![p].stage = "zone"]
  <2> DEFINE i == [insp[p] EXCEPT !.zone = AllZones, !.stage = "zone"]
  <2>1. /\ i \in Inspections /\ i.run = insp[p].run /\ i.date = insp[p].date
        /\ i.stage = "zone" /\ i.found = insp[p].found
        /\ i.backward = insp[p].backward
    BY <1>1 DEF Inspections, InspectStages
  <2>2. insp' = [insp EXCEPT ![p] = i]
    BY <1>6
  <2> HIDE DEF i
  <2> QED BY <1>1, <1>3, <2>1, <2>2, InspectionMoves DEF InspectsWell
<1> DEFINE Takes(missed) ==
             \E new \in DeviceFindings(z, date, insp[p].backward, Hist(missed)) :
               insp' = [insp EXCEPT ![p].found = @ \cup new, ![p].zone = AllZones,
                                    ![p].stage = "zone"]
<1>7. ASSUME NEW missed, Takes(missed) PROVE AgentIInv'
  <2> HIDE DEF Hist, z, date
  <2> QED BY <1>5, <1>7
<1>8. \/ \E missed : Takes(missed)
      \/ insp' = [insp EXCEPT ![p].zone = AllZones, ![p].stage = "zone"]
  <2>1. \/ Takes({}) \/ \E d \in DevicesOf(z) : Takes({d})
        \/ insp' = [insp EXCEPT ![p].zone = AllZones, ![p].stage = "zone"]
    BY DEF ListDevices
  <2> HIDE DEF Takes
  <2> QED BY <2>1
<1> HIDE DEF Takes
<1> QED BY <1>6, <1>7, <1>8

\* What is written of a finding, over no suggestion or an old one.
LEMMA UpsertedIs ==
  ASSUME AgentIInv, NEW p \in Inspectors, insp[p].stage # "idle",
         NEW f \in insp[p].found, NEW made, made = Upserted(Sug(f.key), f, insp[p].run)
  PROVE  /\ f.key \in DedupKeys
         /\ made \in SugRows
         /\ made.run = insp[p].run /\ runs[made.run].date = f.key.date
         /\ OfDevice(f.key) /\ Caused(f.key)
         /\ made.status = "pending" <=> f.key \notin decided
         /\ made.status = "pending" <=> made.reviewer = NoReviewer
<1> DEFINE k == f.key
           mine == insp[p].run
<1>1. /\ mine \in DOMAIN runs /\ runs[mine].date = insp[p].date /\ Justified(f, insp[p].date)
  BY DEF AgentIInv, InspectsWell
<1>2. /\ k \in DedupKeys /\ f.severity \in 1 .. 3 /\ k.date = insp[p].date
      /\ OfDevice(k) /\ Caused(k)
  BY <1>1 DEF Justified, Findings
<1>3. CASE k \in DOMAIN sugs
  <2>1. /\ sugs[k] \in SugRows
        /\ KeptWell(k)
    BY <1>3 DEF AgentIInv, AgentTypeOK
  <2>2. sugs[k] # NoSug
    BY <2>1 DEF NoSug, SugRows
  <2>3. made = [sugs[k] EXCEPT !.severity = f.severity, !.run = mine]
    BY <1>3, <2>2 DEF Upserted, Sug
  <2> HIDE DEF k, mine
  <2>4. /\ made \in SugRows
        /\ made.status = sugs[k].status /\ made.reviewer = sugs[k].reviewer /\ made.run = mine
    BY <1>1, <1>2, <2>1, <2>3 DEF SugRows
  <2> QED BY <1>1, <1>2, <2>1, <2>4 DEF KeptWell, k, mine
<1>4. CASE k \notin DOMAIN sugs
  <2>1. made = [ status |-> "pending", severity |-> f.severity, run |-> mine,
                reviewer |-> NoReviewer ]
    BY <1>4 DEF Upserted, Sug
  <2>2. k \notin decided
    BY <1>4 DEF AgentIInv, AgentTypeOK
  <2> QED BY <1>1, <1>2, <2>1, <2>2 DEF SugRows
<1> QED BY <1>3, <1>4

LEMMA SaveWorks ==
  ASSUME AgentIInv, NEW p \in Inspectors, SaveSuggestions(p) PROVE AgentIInv'
<1> DEFINE findings == insp[p].found
           written  == { f.key : f \in findings }
           Of(k) == CHOOSE f \in findings : f.key = k
           i == [insp[p] EXCEPT !.stage = "finish", !.found = {}, !.backward = {}]
           Row(k) == Upserted(Sug(k), Of(k), insp[p].run)
<1>1. /\ insp[p] \in Inspections /\ insp[p].stage = "zone" /\ InspectsWell(p)
      /\ insp \in [Inspectors -> Inspections]
      /\ insp' = [insp EXCEPT ![p] = i]
      /\ UNCHANGED << data, day, reached, lastDate, runs, rev, decided, reviews, late >>
  BY DEF AgentIInv, AgentTypeOK, SaveSuggestions
<1>2. /\ i \in Inspections /\ i.run = insp[p].run /\ i.date = insp[p].date
      /\ i.stage = "finish" /\ i.found = {} /\ i.backward = {}
  BY <1>1 DEF Inspections, InspectStages
<1>3. agentFaults' = agentFaults \/ \E kind \in InspectFaults : AgentFault(kind)
  BY DEF SaveSuggestions, AgentFault
<1>4. CASE UNCHANGED sugs
  <2> HIDE DEF i
  <2> QED BY <1>1, <1>2, <1>3, <1>4, InspectionMoves DEF Reads
<1>5. CASE sugs' = [ k \in DOMAIN sugs \cup written |-> IF k \in written THEN Row(k) ELSE sugs[k] ]
  <2> HIDE DEF i
  <2>1. ASSUME NEW k \in written
        PROVE  Of(k) \in findings /\ Of(k).key = k
    OBVIOUS
  <2>2. ASSUME NEW k \in written
        PROVE  /\ k \in DedupKeys
               /\ Row(k) \in SugRows
               /\ runs[Row(k).run].date = k.date
               /\ OfDevice(k) /\ Caused(k)
               /\ Row(k).status = "pending" <=> k \notin decided
               /\ Row(k).status = "pending" <=> Row(k).reviewer = NoReviewer
    <3> DEFINE f == Of(k)
    <3>1. f \in insp[p].found /\ f.key = k /\ Row(k) = Upserted(Sug(f.key), f, insp[p].run)
      BY <2>1
    <3> HIDE DEF f, Row, written
    <3> QED BY <1>1, <3>1, UpsertedIs
  <2>3. /\ DOMAIN sugs' = DOMAIN sugs \cup written
        /\ \A k \in written : sugs'[k] = Row(k)
        /\ \A k \in DOMAIN sugs \ written : sugs'[k] = sugs[k]
    BY <1>5
  <2> HIDE DEF written, Row
  <2>4. RunsKeep
    BY <1>1 DEF RunsKeep
  <2>5. \A k \in DOMAIN sugs' : KeptWell(k)'
    <3>1. SUFFICES ASSUME NEW k \in DOMAIN sugs' PROVE KeptWell(k)'
      OBVIOUS
    <3>2. CASE k \in written
      BY <1>1, <2>2, <2>3, <3>2, SameCauses DEF KeptWell, OfDevice
    <3>3. CASE k \in DOMAIN sugs \ written
      BY <1>1, <2>3, <2>4, <3>3, KeptStays DEF AgentIInv
    <3> QED BY <2>3, <3>2, <3>3
  <2>6. /\ DOMAIN sugs' \subseteq DedupKeys
        /\ \A k \in DOMAIN sugs' :
             sugs'[k] \in SugRows'
    BY <1>1, <2>2, <2>3 DEF AgentIInv, AgentTypeOK, SugRows
  <2>7. insp' \in [Inspectors -> Inspections] /\ insp'[p] = i
    BY <1>1, <1>2
  <2>8. rev' \in [Reviewers -> SUBSET DOMAIN sugs'] /\ decided' \subseteq DOMAIN sugs'
    BY <1>1, <2>3 DEF AgentIInv, AgentTypeOK
  <2>9. AgentTypeOK'
    <3>1. agentFaults' \in 0 .. MaxAgentFaults
      BY <1>3, FaultsBound DEF AgentIInv
    <3> QED BY <1>1, <2>6, <2>7, <2>8, <3>1 DEF AgentIInv, AgentTypeOK
  <2>10. \A q \in Inspectors : InspectsWell(q)'
    <3>1. InspectsWell(p)'
      BY <1>1, <1>2, <2>7 DEF InspectsWell
    <3>2. ASSUME NEW q \in Inspectors, q # p PROVE InspectsWell(q)'
      <4>1. insp'[q] = insp[q]
        BY <1>1, <3>2
      <4> QED BY <1>1, <2>4, <4>1, WellStays DEF AgentIInv
    <3> QED BY <3>1, <3>2
  <2> QED BY <2>5, <2>9, <2>10 DEF AgentIInv
<1> QED BY <1>4, <1>5 DEF SaveSuggestions

LEMMA FinishRunWorks ==
  ASSUME AgentIInv, NEW p \in Inspectors, FinishRun(p) PROVE AgentIInv'
<1>1. insp[p].stage # "idle"
  BY DEF FinishRun
<1>2. agentFaults' = agentFaults \/ \E kind \in InspectFaults : AgentFault(kind)
  BY DEF FinishRun, AgentFault
<1>3. \/ Ends(p, "success")
      \/ insp' = [insp EXCEPT ![p] = NoInspection] /\ UNCHANGED runs
  BY DEF FinishRun
<1> QED BY <1>1, <1>2, <1>3, InspectionEnds DEF FinishRun

\* The runs that begin, the restart and the reviews.
LEMMA TryRunWorks ==
  ASSUME AgentIInv, NEW j \in Jobs, TryRun(j) PROVE AgentIInv'
<1>1. /\ j \in Inspectors /\ day \in Nat /\ day <= LastDay /\ LastDay \in Nat
      /\ lastDate \in [Jobs -> {0} \cup Days]
  BY AgentAssumption DEF AgentIInv, AgentTypeOK, AgentParameters, Inspectors
<1>2. day - 1 \in Days
  BY <1>1 DEF TryRun, Days
<1>3. lastDate' \in [Jobs -> {0} \cup Days]
  BY <1>1, <1>2 DEF TryRun
<1>4. /\ runs' \in Seq(RunRows) /\ Len(runs') <= MaxRuns /\ RunsKeep
      /\ insp' \in [Inspectors -> Inspections]
      /\ agentFaults' \in 0 .. MaxAgentFaults
      /\ \A q \in Inspectors : InspectsWell(q)'
  BY <1>1, <1>2, BeginWorks DEF TryRun
<1> QED BY <1>3, <1>4, InspectSteps DEF TryRun

LEMMA InspectWorks ==
  ASSUME AgentIInv, NEW p \in Requests, NEW date \in Dates,
         NEW scope \in Zones \cup {AllZones}, Inspect(p, date, scope)
  PROVE  AgentIInv'
<1>1. p \in Inspectors /\ date \in Days
  BY AgentAssumption DEF AgentParameters, Inspectors, Days
<1>2. lastDate' \in [Jobs -> {0} \cup Days]
  BY DEF Inspect, AgentIInv, AgentTypeOK
<1>3. /\ runs' \in Seq(RunRows) /\ Len(runs') <= MaxRuns /\ RunsKeep
      /\ insp' \in [Inspectors -> Inspections]
      /\ agentFaults' \in 0 .. MaxAgentFaults
      /\ \A q \in Inspectors : InspectsWell(q)'
  BY <1>1, BeginWorks DEF Inspect
<1> QED BY <1>2, <1>3, InspectSteps DEF Inspect

LEMMA RestartJobWorks ==
  ASSUME AgentIInv, NEW j \in Jobs, RestartJob(j) PROVE AgentIInv'
<1>1. /\ j \in Inspectors /\ insp \in [Inspectors -> Inspections]
      /\ lastDate \in [Jobs -> {0} \cup Days] /\ MaxRuns \in Nat
      /\ runs \in Seq(RunRows) /\ Len(runs) <= MaxRuns
  BY AgentAssumption DEF AgentIInv, AgentTypeOK, AgentParameters, Inspectors
<1>2. NoInspection \in Inspections
  BY <1>1 DEF NoInspection, Inspections, InspectStages
<1>3. insp' \in [Inspectors -> Inspections] /\ insp'[j] = NoInspection
  BY <1>1, <1>2 DEF RestartJob
<1>4. RunsKeep /\ lastDate' \in [Jobs -> {0} \cup Days]
  BY <1>1 DEF RestartJob, RunsKeep
<1>5. ASSUME NEW q \in Inspectors PROVE InspectsWell(q)'
  <2>1. CASE q = j
    BY <1>3, <2>1 DEF InspectsWell, NoInspection
  <2>2. CASE q # j
    <3>1. insp'[q] = insp[q]
      BY <1>1, <2>2 DEF RestartJob
    <3> QED BY <1>4, <3>1, WellStays DEF AgentIInv, RestartJob
  <2> QED BY <2>1, <2>2
<1>6. agentFaults' \in 0 .. MaxAgentFaults
  BY FaultsBound DEF AgentIInv, RestartJob, AgentFault
<1> QED BY <1>1, <1>3, <1>4, <1>5, <1>6, InspectSteps DEF RestartJob

LEMMA GetWorks ==
  ASSUME AgentIInv, NEW v \in Reviewers, NEW k \in DOMAIN sugs, GetSuggestion(v, k)
  PROVE  AgentIInv'
<1> USE DEF GetSuggestion
<1>1. rev' \in [Reviewers -> SUBSET DOMAIN sugs] /\ reviews' \in 0 .. MaxReviews
  BY AgentAssumption DEF AgentIInv, AgentTypeOK, AgentParameters
<1>2. AgentTypeOK'
  BY <1>1 DEF AgentIInv, AgentTypeOK, SugRows
<1>3. RunsKeep
  BY DEF RunsKeep
<1>4. \A q \in Inspectors : InspectsWell(q)'
  BY <1>3, WellStays DEF AgentIInv
<1>5. \A s \in DOMAIN sugs' : KeptWell(s)'
  BY <1>3, KeptStays DEF AgentIInv
<1> QED BY <1>2, <1>4, <1>5 DEF AgentIInv

LEMMA ApproveWorks ==
  ASSUME AgentIInv, NEW v \in Reviewers, NEW approved \in BOOLEAN,
         ApproveSuggestion(v, approved)
  PROVE  AgentIInv'
<1> PICK k \in rev[v] :
      /\ sugs' = [sugs EXCEPT ![k].status = IF approved THEN "approved" ELSE "rejected",
                              ![k].reviewer = v]
      /\ decided' = decided \cup {k}
      /\ rev' = [rev EXCEPT ![v] = {}]
      /\ UNCHANGED << data, day, reached, lastDate, runs, insp, reviews, late, agentFaults >>
  BY DEF ApproveSuggestion
<1> DEFINE verdict == IF approved THEN "approved" ELSE "rejected"
           made == [sugs[k] EXCEPT !.status = verdict, !.reviewer = v]
<1>1. k \in DOMAIN sugs /\ AgentTypeOK /\ sugs[k] \in SugRows
  BY DEF AgentIInv, AgentTypeOK
<1>2. sugs' = [sugs EXCEPT ![k] = made]
  OBVIOUS
<1>3. made \in SugRows /\ made.status = verdict /\ made.reviewer = v /\ made.run = sugs[k].run
  BY <1>1 DEF SugRows
<1> HIDE DEF made
<1>4. /\ DOMAIN sugs' = DOMAIN sugs /\ sugs'[k] = made
      /\ \A s \in DOMAIN sugs \ {k} : sugs'[s] = sugs[s]
  BY <1>1, <1>2
<1>5. RunsKeep
  BY DEF RunsKeep
<1>6. AgentTypeOK'
  <2>1. \A s \in DOMAIN sugs' : sugs'[s] \in SugRows
    BY <1>1, <1>3, <1>4 DEF AgentTypeOK
  <2>2. rev' \in [Reviewers -> SUBSET DOMAIN sugs'] /\ decided' \subseteq DOMAIN sugs'
    BY <1>1, <1>4 DEF AgentTypeOK
  <2> QED BY <1>1, <1>4, <2>1, <2>2 DEF AgentTypeOK, SugRows
<1>7. \A q \in Inspectors : InspectsWell(q)'
  BY <1>5, WellStays DEF AgentIInv
<1>8. KeptWell(k)'
  <2>1. KeptWell(k) /\ v # NoReviewer
    BY <1>1, AgentAssumption DEF AgentIInv, AgentParameters
  <2> QED BY <1>3, <1>4, <2>1, SameCauses DEF KeptWell, OfDevice
<1>9. ASSUME NEW s \in DOMAIN sugs, s # k PROVE KeptWell(s)'
  BY <1>1, <1>4, <1>5, <1>9, KeptStays DEF AgentIInv
<1> QED BY <1>4, <1>6, <1>7, <1>8, <1>9 DEF AgentIInv

\* A reading that comes late.
LEMMA ArrivesWorks ==
  ASSUME AgentIInv, NEW d \in Meters, NEW x \in Days, NEW r \in Late, Arrives(d, x, r)
  PROVE  AgentIInv'
<1>1. /\ r \in Readings /\ DataOK
      /\ data' = [data EXCEPT ![d][x] = Append(@, r)] /\ late' = late \cup {<< d, x >>}
  BY AgentAssumption DEF Arrives, AgentIInv, AgentTypeOK, AgentParameters, DataOK
<1>2. \A i \in DOMAIN runs : runs[i].date <= x
  BY DEF Arrives
<1>3. data' \in [Meters -> [Days -> Seq(Readings)]]
  <2>1. Append(data[d][x], r) \in Seq(Readings)
    BY <1>1, AppendProperties DEF DataOK
  <2> QED BY <1>1, <2>1 DEF DataOK
<1>4. late' \in SUBSET (Meters \X Days)
  BY <1>1 DEF AgentIInv, AgentTypeOK
<1>5. AgentTypeOK'
  BY <1>3, <1>4 DEF Arrives, AgentIInv, AgentTypeOK, SugRows
<1>6. \A q \in Inspectors : InspectsWell(q)'
  <2>1. SUFFICES ASSUME NEW q \in Inspectors, insp[q].stage # "idle" PROVE InspectsWell(q)'
    BY DEF InspectsWell, Arrives
  <2>2. insp[q] \in Inspections
    BY DEF AgentIInv, AgentTypeOK
  <2> PICK i \in Inspections : i = insp[q]
    BY <2>2
  <2>3. /\ InspectsWell(q) /\ i.date \in Days /\ i.date <= x
        /\ insp'[q] = i /\ runs' = runs
    BY <1>2, <2>1 DEF Arrives, AgentIInv, AgentTypeOK, InspectsWell
  <2>4. \A e \in i.backward : Falls(e, i.date)'
    <3>1. i.backward \subseteq Meters /\ \A e \in i.backward : Falls(e, i.date)
      BY <2>1, <2>3 DEF Inspections, InspectsWell
    <3> QED BY <1>1, <2>3, <3>1, FallStays
  <2>5. \A f \in i.found : Justified(f, i.date)'
    <3>1. SUFFICES ASSUME NEW f \in i.found PROVE Justified(f, i.date)'
      OBVIOUS
    <3>2. Justified(f, i.date)
      BY <2>1, <2>3 DEF InspectsWell
    <3>3. f.key \in DedupKeys /\ f.key.date <= x /\ OfDevice(f.key) /\ Caused(f.key)
      BY <2>3, <3>2 DEF Justified, Findings
    <3>4. Caused(f.key)'
      BY <1>1, <3>3, CauseStays
    <3> QED BY <3>2, <3>4 DEF Justified
  <2>6. /\ i.run \in DOMAIN runs /\ runs[i.run].date = i.date
        /\ i.stage = "devices" => i.zone \in Zones
    BY <2>1, <2>3 DEF InspectsWell
  <2> QED BY <2>3, <2>4, <2>5, <2>6 DEF InspectsWell, Justified, Falls
<1>7. \A k \in DOMAIN sugs' : KeptWell(k)'
  <2>1. SUFFICES ASSUME NEW k \in DOMAIN sugs PROVE KeptWell(k)'
    BY DEF Arrives
  <2>2. k \in DedupKeys /\ KeptWell(k) /\ sugs[k].run \in DOMAIN runs
    BY DEF AgentIInv, AgentTypeOK, SugRows
  <2>3. k.date <= x
    BY <1>2, <2>2 DEF KeptWell
  <2>4. Caused(k)'
    BY <1>1, <2>2, <2>3, CauseStays DEF KeptWell
  <2> QED BY <2>2, <2>4 DEF KeptWell, Arrives, OfDevice
<1> QED BY <1>5, <1>6, <1>7 DEF AgentIInv

LEMMA TimePassesWorks == ASSUME AgentIInv, TimePasses PROVE AgentIInv'
<1> USE DEF TimePasses
<1>1. day' \in FirstDay .. LastDay /\ reached' \in BOOLEAN
  <2>1. /\ day \in FirstDay .. LastDay /\ reached \in BOOLEAN
        /\ FirstDay \in Nat /\ LastDay \in Nat
    BY AgentAssumption DEF AgentIInv, AgentTypeOK, AgentParameters
  <2>2. day' \in FirstDay .. LastDay
    BY <2>1
  <2>3. reached' \in BOOLEAN
    BY <2>1
  <2> QED BY <2>2, <2>3
<1>2. AgentTypeOK'
  BY <1>1 DEF AgentIInv, AgentTypeOK, SugRows
<1>3. RunsKeep
  BY DEF RunsKeep
<1>4. \A q \in Inspectors : InspectsWell(q)'
  BY <1>3, WellStays DEF AgentIInv
<1>5. \A s \in DOMAIN sugs' : KeptWell(s)'
  BY <1>3, KeptStays DEF AgentIInv
<1> QED BY <1>2, <1>4, <1>5 DEF AgentIInv

LEMMA AgentStutters == ASSUME AgentIInv, UNCHANGED agentVars PROVE AgentIInv'
<1> USE DEF agentVars
<1>1. AgentTypeOK'
  BY DEF AgentIInv, AgentTypeOK, SugRows
<1>2. RunsKeep
  BY DEF RunsKeep
<1>3. \A q \in Inspectors : InspectsWell(q)'
  BY <1>2, WellStays DEF AgentIInv
<1>4. \A s \in DOMAIN sugs' : KeptWell(s)'
  BY <1>2, KeptStays DEF AgentIInv
<1> QED BY <1>1, <1>3, <1>4 DEF AgentIInv

LEMMA AgentKeeps ==
  ASSUME Sparing, AgentIInv, [AgentNext]_agentVars
  PROVE  AgentIInv'
<1>1. ASSUME NEW p \in Inspectors, RunStep(p) PROVE AgentIInv'
  BY <1>1, ListZonesWorks, ListBackwardWorks, BuildZoneInputWorks, ListDevicesWorks,
     SaveWorks, FinishRunWorks DEF RunStep
<1>2. CASE \E j \in Jobs : TryRun(j) \/ RestartJob(j)
  BY <1>2, TryRunWorks, RestartJobWorks
<1>3. CASE \E p \in Requests, date \in Dates, scope \in Zones \cup {AllZones} :
             Inspect(p, date, scope)
  BY <1>3, InspectWorks
<1>4. CASE \E v \in Reviewers : \/ \E k \in DOMAIN sugs : GetSuggestion(v, k)
                               \/ \E approved \in BOOLEAN : ApproveSuggestion(v, approved)
  BY <1>4, GetWorks, ApproveWorks
<1>5. CASE \E d \in Meters, x \in Days, r \in Late : Arrives(d, x, r)
  BY <1>5, ArrivesWorks
<1>6. CASE TimePasses
  BY <1>6, TimePassesWorks
<1>7. CASE UNCHANGED agentVars
  BY <1>7, AgentStutters
<1> QED BY <1>1, <1>2, <1>3, <1>4, <1>5, <1>6, <1>7 DEF AgentNext

\* Every suggestion has the cause Caused names for its category in the readings,
\* and keeps its review, in every behaviour and for every threshold that is above
\* the average (energyagent-api.yaml:38-43).  For "data_missing" that is use, not
\* reports: nothing used on the day by what was in use before.
THEOREM SuggestionsCorrect == ASSUME Sparing PROVE AgentSpec => []SuggestionsExplained
<1>1. AgentInit => AgentIInv
  BY AgentStarts
<1>2. AgentIInv /\ [AgentNext]_agentVars => AgentIInv'
  BY AgentKeeps
<1>3. AgentIInv => SuggestionsExplained
  BY DEF AgentIInv, KeptWell, SuggestionsExplained
<1> QED BY <1>1, <1>2, <1>3, PTL DEF AgentSpec

------------------------------------------------------------------------------
(* The ledger of bad messages in the run: AlarmIngest with three events of *)
(* one device, and what AlarmIngestProofs says of it.                      *)

Ledger == INSTANCE AlarmIngestProofs WITH
       pc <- stage, faults <- alarmFaults, MaxFaults <- MaxAlarmFaults,
       Events <- {e1, e2, e3}, Rules <- {r1, r2}, WindowRules <- {r2}, Threshold <- 2,
       Matches <- [e \in {e1, e2, e3} |-> {r1, r2}], Device <- [e \in {e1, e2, e3} |-> d1],
       Kind <- [e \in {e1, e2, e3} |->
                 CASE e = e1 -> "ok" [] e = e2 -> "malformed" [] OTHER -> "noTenant"],
       Intrusions <- {e1}, LegacyFallback <- TRUE, MaxRetries <- 1,
       FailPoints <- {"rules", "window", "dedup", "cooldown", "create", "notify",
                      "release", "ledger", "clear", "mark"},
       CanCrash <- TRUE, MaxDeliveries <- 1, MaxReplays <- 1

\* What is proved there is said of Ledger's operators, which are A's.
LEMMA SameSteps ==
  ASSUME NEW w, NEW x
  PROVE  /\ A!EvaluateRules(w) => Ledger!EvaluateRules(w)
         /\ A!RulesUnavailable(w) => Ledger!RulesUnavailable(w)
         /\ A!EvaluateFails(w) => Ledger!EvaluateFails(w)
         /\ A!CountFails(w) => Ledger!CountFails(w)
         /\ A!Unmatched(w) => Ledger!Unmatched(w)
         /\ A!RejectTenant(w) => Ledger!RejectTenant(w)
         /\ A!SeenBefore(w) => Ledger!SeenBefore(w)
         /\ A!Claim(w) => Ledger!Claim(w)
         /\ A!DedupFails(w) => Ledger!DedupFails(w)
         /\ A!DedupUnanswered(w) => Ledger!DedupUnanswered(w)
         /\ A!CooldownFails(w) => Ledger!CooldownFails(w)
         /\ A!CooldownUnanswered(w, x) => Ledger!CooldownUnanswered(w, x)
         /\ A!AllStored(w) => Ledger!AllStored(w)
         /\ A!Create(w) => Ledger!Create(w)
         /\ A!CreateDuplicate(w) => Ledger!CreateDuplicate(w)
         /\ A!CreateFails(w) => Ledger!CreateFails(w)
         /\ A!CreateUnanswered(w) => Ledger!CreateUnanswered(w)
         /\ A!Notify(w) => Ledger!Notify(w)
         /\ A!NotifyFails(w) => Ledger!NotifyFails(w)
         /\ A!Release(w) => Ledger!Release(w)
         /\ A!ReleaseFails(w) => Ledger!ReleaseFails(w)
         /\ A!RecordDeadLetter(w) => Ledger!RecordDeadLetter(w)
         /\ A!RecordFails(w) => Ledger!RecordFails(w)
         /\ A!MarkReplayed(w) => Ledger!MarkReplayed(w)
         /\ A!MarkFails(w) => Ledger!MarkFails(w)
         /\ A!Crash(w) => Ledger!Crash(w)
         /\ A!CountWindow(w, x) => Ledger!CountWindow(w, x)
         /\ A!Acquire(w, x) => Ledger!Acquire(w, x)
         /\ A!Suppress(w, x) => Ledger!Suppress(w, x)
         /\ A!Deliver(w, x) => Ledger!Deliver(w, x)
         /\ A!Replay(w, x) => Ledger!Replay(w, x)
<1> USE DEF A!Devices, Ledger!Devices, A!RuleIds, Ledger!RuleIds, A!redis, Ledger!redis,
            A!mysql, Ledger!mysql, A!local, Ledger!local, A!ghosts, Ledger!ghosts, A!bounds,
            Ledger!bounds, A!At, Ledger!At, A!Goto, Ledger!Goto, A!Fault, Ledger!Fault,
            A!Blame, Ledger!Blame, A!CoolKey, Ledger!CoolKey, A!Succeed, Ledger!Succeed,
            A!Fail, Ledger!Fail, A!Reachable, Ledger!Reachable, A!Evaluated, Ledger!Evaluated,
            A!Admissible, Ledger!Admissible, A!Notifying, Ledger!Notifying,
            A!AfterAttempt, Ledger!AfterAttempt, A!Full, Ledger!Full, A!AfterCount, Ledger!AfterCount
<1>1. \A S : A!Cardinality(S) = Ledger!Cardinality(S)  BY DEF A!Cardinality, Ledger!Cardinality
<1>2. A!EvaluateRules(w) => Ledger!EvaluateRules(w)  BY DEF A!EvaluateRules, Ledger!EvaluateRules
<1>3. A!RulesUnavailable(w) => Ledger!RulesUnavailable(w)  BY DEF A!RulesUnavailable, Ledger!RulesUnavailable
<1>4. A!EvaluateFails(w) => Ledger!EvaluateFails(w)  BY DEF A!EvaluateFails, Ledger!EvaluateFails
<1>5. A!CountFails(w) => Ledger!CountFails(w)
  <2>1. \A kept : A!AfterCount(w, kept) = Ledger!AfterCount(w, kept)
    BY <1>1
  <2> HIDE DEF A!AfterCount, Ledger!AfterCount
  <2> DEFINE Key(r) == << r, [e \in {e1, e2, e3} |-> d1][ev[w]] >>
  <2>2. ASSUME NEW r \in windows[w], NEW kept \in SUBSET window[Key(r)],
               window' = [window EXCEPT ![Key(r)] = A!AfterCount(w, kept)]
        PROVE  window' = [window EXCEPT ![Key(r)] = Ledger!AfterCount(w, kept)]
    BY <2>1, <2>2
  <2> QED
    BY <2>2 DEF A!CountFails, Ledger!CountFails
<1>6. A!Unmatched(w) => Ledger!Unmatched(w)  BY DEF A!Unmatched, Ledger!Unmatched
<1>7. A!RejectTenant(w) => Ledger!RejectTenant(w)  BY DEF A!RejectTenant, Ledger!RejectTenant
<1>8. A!SeenBefore(w) => Ledger!SeenBefore(w)  BY DEF A!SeenBefore, Ledger!SeenBefore
<1>9. A!Claim(w) => Ledger!Claim(w)  BY DEF A!Claim, Ledger!Claim
<1>10. A!DedupFails(w) => Ledger!DedupFails(w)  BY DEF A!DedupFails, Ledger!DedupFails
<1>11. A!DedupUnanswered(w) => Ledger!DedupUnanswered(w)
  BY DEF A!DedupUnanswered, Ledger!DedupUnanswered
<1>12. A!CooldownFails(w) => Ledger!CooldownFails(w)  BY DEF A!CooldownFails, Ledger!CooldownFails
<1>13. A!CooldownUnanswered(w, x) => Ledger!CooldownUnanswered(w, x)
  BY DEF A!CooldownUnanswered, Ledger!CooldownUnanswered
<1>14. A!AllStored(w) => Ledger!AllStored(w)  BY DEF A!AllStored, Ledger!AllStored
<1>15. A!Create(w) => Ledger!Create(w)  BY DEF A!Create, Ledger!Create
<1>16. A!CreateDuplicate(w) => Ledger!CreateDuplicate(w)  BY DEF A!CreateDuplicate, Ledger!CreateDuplicate
<1>17. A!CreateFails(w) => Ledger!CreateFails(w)  BY DEF A!CreateFails, Ledger!CreateFails
<1>18. A!CreateUnanswered(w) => Ledger!CreateUnanswered(w)
  BY DEF A!CreateUnanswered, Ledger!CreateUnanswered
<1>19. A!Notify(w) => Ledger!Notify(w)  BY DEF A!Notify, Ledger!Notify
<1>20. A!NotifyFails(w) => Ledger!NotifyFails(w)  BY DEF A!NotifyFails, Ledger!NotifyFails
<1>21. A!Release(w) => Ledger!Release(w)  BY DEF A!Release, Ledger!Release
<1>22. A!ReleaseFails(w) => Ledger!ReleaseFails(w)  BY DEF A!ReleaseFails, Ledger!ReleaseFails
<1>23. A!RecordDeadLetter(w) => Ledger!RecordDeadLetter(w)  BY DEF A!RecordDeadLetter, Ledger!RecordDeadLetter
<1>24. A!RecordFails(w) => Ledger!RecordFails(w)  BY DEF A!RecordFails, Ledger!RecordFails
<1>25. A!MarkReplayed(w) => Ledger!MarkReplayed(w)  BY DEF A!MarkReplayed, Ledger!MarkReplayed
<1>26. A!MarkFails(w) => Ledger!MarkFails(w)  BY DEF A!MarkFails, Ledger!MarkFails
<1>27. A!Crash(w) => Ledger!Crash(w)  BY DEF A!Crash, Ledger!Crash
<1>28. A!CountWindow(w, x) => Ledger!CountWindow(w, x)
  BY <1>1 DEF A!CountWindow, Ledger!CountWindow
<1>29. A!Acquire(w, x) => Ledger!Acquire(w, x)
  BY DEF A!Acquire, Ledger!Acquire
<1>30. A!Suppress(w, x) => Ledger!Suppress(w, x)
  BY DEF A!Suppress, Ledger!Suppress
<1>31. A!Deliver(w, x) => Ledger!Deliver(w, x)
  BY DEF A!Deliver, Ledger!Deliver
<1>32. A!Replay(w, x) => Ledger!Replay(w, x)
  BY DEF A!Replay, Ledger!Replay
<1> QED
  BY <1>2, <1>3, <1>4, <1>5, <1>6, <1>7, <1>8, <1>9, <1>10, <1>11, <1>12,
     <1>13, <1>14, <1>15, <1>16, <1>17, <1>18, <1>19, <1>20, <1>21, <1>22,
     <1>23, <1>24, <1>25, <1>26, <1>27, <1>28, <1>29, <1>30, <1>31, <1>32

LEMMA SameNext == [A!Next]_alarmVars => [Ledger!Next]_(Ledger!vars)
<1>1. A!Next => Ledger!Next
  <2>1. \A w : A!HandleDeviceEvent(w) => Ledger!HandleDeviceEvent(w)
    BY SameSteps DEF A!HandleDeviceEvent, Ledger!HandleDeviceEvent, A!RuleIds, Ledger!RuleIds
  <2>2. \A w : A!Step(w) => Ledger!Step(w)
    BY <2>1, SameSteps DEF A!Step, Ledger!Step
  <2>3. \A e : A!DedupExpires(e) => Ledger!DedupExpires(e)
    BY DEF A!DedupExpires, Ledger!DedupExpires, A!local, Ledger!local, A!mysql, Ledger!mysql,
           A!ghosts, Ledger!ghosts, A!bounds, Ledger!bounds
  <2>4. \A k : A!CooldownExpires(k) => Ledger!CooldownExpires(k)
    BY DEF A!CooldownExpires, Ledger!CooldownExpires, A!local, Ledger!local, A!mysql,
           Ledger!mysql, A!ghosts, Ledger!ghosts, A!bounds, Ledger!bounds
  <2>5. A!Devices \X A!RuleIds = Ledger!Devices \X Ledger!RuleIds
    BY DEF A!Devices, Ledger!Devices, A!RuleIds, Ledger!RuleIds
  <2> QED  BY <2>2, <2>3, <2>4, <2>5, SameSteps DEF A!Next, Ledger!Next
<1>2. UNCHANGED alarmVars => UNCHANGED Ledger!vars
  BY DEF alarmVars, Ledger!vars, Ledger!local, Ledger!redis, Ledger!mysql, Ledger!ghosts,
         Ledger!bounds
<1> QED  BY <1>1, <1>2

LEMMA LedgerSound ==
  /\ A!Init => Ledger!IInv
  /\ Ledger!IInv /\ [Ledger!Next]_(Ledger!vars) => Ledger!IInv'
  /\ Ledger!IInv => A!BadMessagesLedgered
<1>1. Ledger!AlarmIngestAssumption
  BY OrdersFit DEF OrdersFit, Ledger!AlarmIngestAssumption, Ledger!AllFailPoints
<1>2. A!Init => Ledger!Init
  BY DEF A!Init, Ledger!Init, A!Devices, Ledger!Devices, A!RuleIds, Ledger!RuleIds
<1>3. Ledger!Init => Ledger!IInv
  BY <1>1, Ledger!InitHolds
<1>4. Ledger!IInv /\ [Ledger!Next]_(Ledger!vars) => Ledger!IInv'
  BY <1>1, Ledger!StepHolds
<1>5. Ledger!IInv => A!BadMessagesLedgered
  BY DEF Ledger!IInv, Ledger!Judged, Ledger!BadMessagesLedgered, A!BadMessagesLedgered,
         Ledger!Ledgered, A!Ledgered
<1> QED  BY <1>2, <1>3, <1>4, <1>5

------------------------------------------------------------------------------
(* The run.  A behaviour of MCWorkOrder is one of each part, so what is    *)
(* proved of a part holds of the run.                                      *)

OnePart == part \in {"order", "notice", "inbox", "idgen", "alarm", "agent"}

\* A step of the run is a step of each part or leaves it alone.
LEMMA OrderStep ==
  [OrderNext]_allVars =>
    /\ [Next]_vars /\ [NoticeNext]_noticeVars /\ [InboxNext]_inboxVars /\ [IdNext]_idVars
    /\ [A!Next]_alarmVars /\ [AgentNext]_agentVars
BY DEF OrderNext, allVars

LEMMA OrderImplements ==
  OrderSpec => /\ Spec /\ NoticeSpec /\ InboxSpec /\ IdSpec /\ AgentSpec
               /\ A!Init /\ [][A!Next]_alarmVars
<1>1. OrderInit => Init /\ NoticeInit /\ InboxInit /\ IdInit /\ A!Init /\ AgentInit
  BY DEF OrderInit
<1> QED
  BY <1>1, OrderStep, PTL DEF OrderSpec, Spec, NoticeSpec, InboxSpec, IdSpec, AgentSpec

\* An unparseable message is acknowledged only through the ledger, and no alarm is of
\* an event without a tenant, whatever the one worker's deliveries, retries, replays
\* and crashes (RejectMissingTenant, HandleWithDeadLetter).
THEOREM LedgerCorrect == OrderSpec => []BadMessagesLedgered
<1>1. Ledger!IInv => BadMessagesLedgered
  BY LedgerSound DEF BadMessagesLedgered
<1>2. A!Init => Ledger!IInv
  BY LedgerSound
<1>3. Ledger!IInv /\ [A!Next]_alarmVars => Ledger!IInv'
  BY LedgerSound, SameNext
<1> QED  BY <1>1, <1>2, <1>3, OrderImplements, PTL

LEMMA NoticeTypes == NoticeSpec => []NoticeTypeOK
<1>1. NoticeIInv => NoticeTypeOK
  BY DEF NoticeIInv
<1> QED  BY <1>1, NoticeStarts, NoticeKeeps, PTL DEF NoticeSpec

LEMMA InboxTypes == InboxSpec => []InboxTypeOK
<1>1. InboxIInv => InboxTypeOK
  BY DEF InboxIInv
<1> QED  BY <1>1, InboxStarts, InboxKeeps, PTL DEF InboxSpec

LEMMA IdTypes == IdSpec => []IdTypeOK
<1>1. IdIInv => IdTypeOK
  BY DEF IdIInv
<1> QED  BY <1>1, IdStarts, IdKeeps, PTL DEF IdSpec

LEMMA AgentTypes == AgentSpec => []AgentTypeOK
<1>1. AgentIInv => AgentTypeOK
  BY DEF AgentIInv
<1>2. AgentIInv /\ [AgentNext]_agentVars => AgentIInv'
  BY OrdersFit, AgentKeeps DEF OrdersFit
<1> QED  BY <1>1, <1>2, AgentStarts, PTL DEF AgentSpec

\* Whatever part a behaviour takes, orders, requests in hand, scans, announcements,
\* letters, counts, identifiers, inspections and suggestions keep their types.
THEOREM OrdersTyped == OrderSpec => []OrderTypes
<1>1. OnePart /\ TypeOK /\ NoticeTypeOK /\ InboxTypeOK /\ IdTypeOK /\ AgentTypeOK => OrderTypes
  BY DEF OrderTypes, OnePart
<1>2. OrderSpec => []OnePart
  <2>1. OrderInit => OnePart
    BY DEF OrderInit, OnePart
  <2>2. OnePart /\ [OrderNext]_allVars => OnePart'
    BY DEF OrderNext, allVars, OnePart
  <2> QED  BY <2>1, <2>2, PTL DEF OrderSpec
<1> QED
  BY <1>1, <1>2, OrderImplements, TypeCorrect, NoticeTypes, InboxTypes, IdTypes, AgentTypes,
     PTL
================================================================================
