----------------------------- MODULE DispatchIntake -----------------------------
(***************************************************************************)
(* How a dispatch order comes to be (dispatch-service): from an alarm, by  *)
(* AlarmHandler.Handle in the consumers of the instances, and by hand, by  *)
(* TaskCreate.  Both number the order with NewTaskNo, a counter of the     *)
(* process modulo 1000 after the second, and two processes may meet.       *)
(*                                                                         *)
(* The offset of a message is committed when Handle returns nil            *)
(* (KafkaConsumer), so an alarm answered nil without an order is lost.     *)
(***************************************************************************)
EXTENDS Naturals, FiniteSets

CONSTANTS
    Processes,        \* instances of dispatch-service
    Threads,          \* goroutines of theirs: the consumer, HTTP handlers
    ProcessOf,        \* thread -> its process
    Alarms,           \* request_ids of alarms
    ByHand,           \* requests to create an order by hand
    NoAlarm,
    Numbers,          \* values of the counter in one second: 1000
    MaxAttempts,      \* maxTaskNoAttempts
    MaxIntakes,       \* bound: deliveries of one alarm
    MaxIntakeFaults   \* bound: failed statements, seconds gone by

ASSUME IntakeAssumption ==
    /\ ProcessOf \in [Threads -> Processes]
    /\ NoAlarm \notin Alarms /\ Alarms \cap ByHand = {}
    /\ Numbers \in Nat \ {0} /\ MaxAttempts \in Nat \ {0}
    /\ MaxIntakes \in Nat /\ MaxIntakeFaults \in Nat

VARIABLES
    orders,        \* dispatch_task: records [no, alarm], alarm_id NULL by hand
    audit,         \* numbers of the orders with an entry of action create
    counter,       \* taskNoSeq of each process
    second,        \* wall clock
    intake,        \* thread -> the call it is in
    delivered,     \* alarm -> deliveries so far
    settled,       \* alarms some Handle returned nil for
    answered,      \* requests by hand answered with an order number
    intakeFaults

intakeVars == <<orders, audit, counter, second, intake, delivered, settled,
                answered, intakeFaults>>

TaskNo == (0..MaxIntakeFaults) \X (0..Numbers - 1)

Free == [pc |-> "free"]
Calls == [pc : {"create", "log"}, alarm : Alarms \cup {NoAlarm},
          request : Alarms \cup ByHand, no : TaskNo, attempt : 1..MaxAttempts]

IntakeTypeOK ==
    /\ orders \subseteq [no : TaskNo, alarm : Alarms \cup {NoAlarm}]
    /\ audit \subseteq TaskNo
    /\ counter \in [Processes -> 0..Numbers - 1]
    /\ second \in 0..MaxIntakeFaults
    /\ intake \in [Threads -> Calls \cup {Free}]
    /\ delivered \in [Alarms -> 0..MaxIntakes]
    /\ settled \subseteq Alarms
    /\ answered \in [ByHand -> TaskNo \cup {<<>>}]
    /\ intakeFaults \in 0..MaxIntakeFaults

IntakeInit ==
    /\ orders = {} /\ audit = {}
    /\ counter \in [Processes -> 0..Numbers - 1]    \* rand.Intn(1000)
    /\ second = 0
    /\ intake = [t \in Threads |-> Free]
    /\ delivered = [a \in Alarms |-> 0]
    /\ settled = {}
    /\ answered = [h \in ByHand |-> <<>>]
    /\ intakeFaults = 0

---------------------------------------------------------------------------------

(* NewTaskNo: the counter is atomic in the process. *)
Advanced(t) == (counter[ProcessOf[t]] + 1) % Numbers
NewTaskNo(t) == <<second, Advanced(t)>>
TakesNumber(t) == counter' = [counter EXCEPT ![ProcessOf[t]] = Advanced(t)]

Begins(t, alarm, request) ==
    /\ intake[t] = Free
    /\ TakesNumber(t)
    /\ intake' = [intake EXCEPT ![t] =
          [pc |-> "create", alarm |-> alarm, request |-> request,
           no |-> NewTaskNo(t), attempt |-> 1]]

(* Handle, a message that decodes; one that does not is logged and dropped *)
(* before anything is written.                                             *)
TakeAlarm(t, a) ==
    /\ delivered[a] < MaxIntakes
    /\ Begins(t, a, a)
    /\ delivered' = [delivered EXCEPT ![a] = @ + 1]
    /\ UNCHANGED <<orders, audit, second, settled, answered, intakeFaults>>

Submit(t, h) ==
    /\ answered[h] = <<>>
    /\ ~\E u \in Threads : intake[u] # Free /\ intake[u].request = h
    /\ Begins(t, NoAlarm, h)
    /\ UNCHANGED <<orders, audit, second, delivered, settled, answered, intakeFaults>>

SameNumber(c) == {o \in orders : o.no = c.no}
SameAlarm(c)  == {o \in orders : c.alarm # NoAlarm /\ o.alarm = c.alarm}

Returns(t, c, done) ==
    /\ intake' = [intake EXCEPT ![t] = Free]
    /\ settled' = IF done THEN (settled \cup {c.alarm}) \ {NoAlarm} ELSE settled
    /\ answered' = IF done /\ c.request \in ByHand
                   THEN [answered EXCEPT ![c.request] = c.no] ELSE answered

(* The row is written.  By hand its log row is in the same transaction; of *)
(* an alarm it comes after.                                                *)
CreateOrder(t) ==
    LET c == intake[t] IN
    /\ c.pc = "create" /\ SameNumber(c) = {} /\ SameAlarm(c) = {}
    /\ orders' = orders \cup {[no |-> c.no, alarm |-> c.alarm]}
    /\ IF c.alarm = NoAlarm
       THEN audit' = audit \cup {c.no} /\ Returns(t, c, TRUE)
       ELSE /\ intake' = [intake EXCEPT ![t].pc = "log"]
            /\ UNCHANGED <<audit, settled, answered>>
    /\ UNCHANGED <<counter, second, delivered, intakeFaults>>

(* Mutant: any 1062 of an alarm's row is taken for a redelivery.           *)
AnyDuplicate(c) == c.alarm # NoAlarm /\ SameNumber(c) \cup SameAlarm(c) # {}

(* IsDuplicateKeyOn(err, "uk_alarm_id"): MySQL names the first index the   *)
(* row collides with, and uk_task_no is declared before uk_alarm_id.       *)
AlreadyMade(c) == SameNumber(c) = {} /\ SameAlarm(c) # {}

Skip(t) ==
    LET c == intake[t] IN
    /\ c.pc = "create" /\ AlreadyMade(c)
    /\ Returns(t, c, TRUE)
    /\ UNCHANGED <<orders, audit, counter, second, delivered, intakeFaults>>

(* A taken number is replaced, MaxAttempts times in all.                   *)
Renumber(t) ==
    LET c == intake[t] IN
    /\ c.pc = "create" /\ ~AlreadyMade(c) /\ SameNumber(c) # {}
    /\ TakesNumber(t)
    /\ IF c.attempt < MaxAttempts
       THEN /\ intake' = [intake EXCEPT ![t].no = NewTaskNo(t),
                                        ![t].attempt = @ + 1]
            /\ UNCHANGED <<settled, answered>>
       ELSE Returns(t, c, FALSE)
    /\ UNCHANGED <<orders, audit, second, delivered, intakeFaults>>

(* Any other error of the insert goes to the caller.                       *)
CreateOrderFails(t) ==
    /\ intake[t].pc = "create" /\ intakeFaults < MaxIntakeFaults
    /\ intakeFaults' = intakeFaults + 1
    /\ Returns(t, intake[t], FALSE)
    /\ UNCHANGED <<orders, audit, counter, second, delivered>>

(* The audit of an alarm's order is best effort.                           *)
Log(t) ==
    LET c == intake[t] IN
    /\ c.pc = "log"
    /\ \/ audit' = audit \cup {c.no} /\ UNCHANGED intakeFaults
       \/ /\ intakeFaults < MaxIntakeFaults
          /\ intakeFaults' = intakeFaults + 1 /\ UNCHANGED audit
    /\ Returns(t, c, TRUE)
    /\ UNCHANGED <<orders, counter, second, delivered>>

(* An instance dies with its calls; its counter starts anywhere again.     *)
InstanceDies(p) ==
    /\ intakeFaults < MaxIntakeFaults
    /\ intakeFaults' = intakeFaults + 1
    /\ intake' = [t \in Threads |-> IF ProcessOf[t] = p THEN Free ELSE intake[t]]
    /\ \E n \in 0..Numbers - 1 : counter' = [counter EXCEPT ![p] = n]
    /\ UNCHANGED <<orders, audit, second, delivered, settled, answered>>

SecondPasses ==
    /\ second < MaxIntakeFaults
    /\ second' = second + 1
    /\ UNCHANGED <<orders, audit, counter, intake, delivered, settled, answered, intakeFaults>>

IntakeNext ==
    \/ \E t \in Threads :
          \/ \E a \in Alarms : TakeAlarm(t, a)
          \/ \E h \in ByHand : Submit(t, h)
          \/ CreateOrder(t) \/ Skip(t) \/ Renumber(t) \/ CreateOrderFails(t) \/ Log(t)
    \/ \E p \in Processes : InstanceDies(p)
    \/ SecondPasses

IntakeSpec == IntakeInit /\ [][IntakeNext]_intakeVars

---------------------------------------------------------------------------------

(* No alarm is dropped and none is doubled: an alarm whose Handle returned *)
(* nil, so that its offset is committed, has its order; no alarm has two;  *)
(* no two orders share a number; and a caller that was given a number has  *)
(* an order of its own under it, with its audit entry, that no alarm took  *)
(* (handler.go 67-96 and taskcreatelogic.go 76-110).                       *)
OneOrderPerAlarm ==
    /\ \A a \in settled : \E o \in orders : o.alarm = a
    /\ \A o1, o2 \in orders :
          o1 # o2 => o1.no # o2.no /\ (o1.alarm # o2.alarm \/ o1.alarm = NoAlarm)
    /\ \A h \in ByHand : answered[h] # <<>> =>
          /\ [no |-> answered[h], alarm |-> NoAlarm] \in orders
          /\ answered[h] \in audit
          /\ \A g \in ByHand \ {h} : answered[g] # answered[h]
=================================================================================
