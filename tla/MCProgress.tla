------------------------------- MODULE MCProgress -------------------------------
(***************************************************************************)
(* What must happen in the end, and the lock: the consumption loop         *)
(* (KafkaConsumer), the lock (Lock), dispatch orders (DispatchTask),       *)
(* commands to devices (DeviceCommand), the pushed overview (Overview),    *)
(* the status of cameras (Camera), the escalation of work orders           *)
(* (WorkOrder) and sessions (Session).  A behaviour takes the steps of one *)
(* of them, which the initial state chooses; the variables of the others   *)
(* keep their initial values.                                              *)
(***************************************************************************)
EXTENDS MCKafkaConsumer, Lock

CONSTANTS
    Tasks, Staff, Nobody, Clients, Runs, NoRun, NoTask, StatusActions,   \* DispatchTask
    MaxReassign, MaxRequests, MaxUpserts, MaxTaskFaults,
    Commands, Scanners, NoCommand, MaxResend, MaxDeviceFaults,           \* DeviceCommand
    Users, Pusher, MaxVersion, MaxAsks, MaxViewFaults,                   \* Overview
    Cameras, d1, NoCamera, OfflineAfter, MaxBeats, MaxChanges,           \* Camera
    MaxCameraFaults,
    Orders, NoOrder, Alarms, NoAlarm, NoKey, Scans, Unlocked,            \* WorkOrder
    OrderFaults, MaxOrderRequests, MaxOrderFaults,
    Roles, Calls, Pairs, NoPair, AccessLife, RefreshLife                 \* Session

VARIABLES
    part,
    row, onDuty, lock, taskPc, job, seen, request, batch, pool, log, requests, upserts,
    taskFaults, moves,
    downlink, command, overdue, counted, onWay, acks, sender, scan, deviceFaults,
    version, marked, dirty, cached, at, flight, leader, fetched, shown, asks, viewFaults,
    cam, left, beat, beats, changes, camFaults,
    order, flow, escalations, old, idem, scanLock, orderPc, orderJob, orderSeen, ask,
    overdueOrders, keyOf, doubling, orderRequests, orderFaults,
    status, granted, pair, listed, blocked, redis, call

D == INSTANCE DispatchTask WITH
       pc <- taskPc, faults <- taskFaults, MaxFaults <- MaxTaskFaults
C == INSTANCE DeviceCommand
O == INSTANCE Overview
U == INSTANCE Session

\* Two tenants have registered the same device.
V == INSTANCE Camera WITH Devices <- {d1}, DeviceOf <- [c \in Cameras |-> d1]

\* Orders of two alarms, one of which a client assigns or closes meanwhile; no keys.
W == INSTANCE WorkOrder WITH
       Keys <- {}, NoScan <- Unlocked, StatusActions <- {"close"}, FaultKinds <- OrderFaults,
       MaxRequests <- MaxOrderRequests, MaxFaults <- MaxOrderFaults,
       row <- order, lock <- scanLock, pc <- orderPc, job <- orderJob, seen <- orderSeen,
       batch <- overdueOrders, requests <- orderRequests, faults <- orderFaults

ASSUME LivesFit == U!SessionParameters

ASSUME BoundsFit ==
  /\ MaxVersion \in Nat \ {0} /\ OfflineAfter \in Nat
  /\ {MaxBeats, MaxChanges, MaxCameraFaults, MaxOrderRequests, MaxOrderFaults} \subseteq Nat

taskVars    == <<row, onDuty, lock, taskPc, job, seen, request, batch, pool, log, requests,
                 upserts, taskFaults, moves>>
deviceVars  == <<downlink, command, overdue, counted, onWay, acks, sender, scan, deviceFaults>>
viewVars    == <<version, marked, dirty, cached, at, flight, leader, fetched, shown, asks,
                 viewFaults>>
camVars     == <<cam, left, beat, beats, changes, camFaults>>
orderVars   == <<order, flow, escalations, old, idem, scanLock, orderPc, orderJob, orderSeen,
                 ask, overdueOrders, keyOf, doubling, orderRequests, orderFaults>>
sessionVars == <<status, granted, pair, listed, blocked, redis, call>>
allVars     == <<part, vars, lockVars, taskVars, deviceVars, viewVars, camVars,
                 orderVars, sessionVars>>

ProgressInit ==
    /\ part \in {"kafka", "lock", "dispatch", "device", "dashboard", "camera", "order",
                 "session"}
    /\ Init /\ LockInit /\ D!Init /\ C!DeviceInit /\ O!Init /\ V!Init /\ W!Init /\ U!Init
    /\ part # "dispatch" => onDuty = {}
    /\ part # "device" => downlink = TRUE

\* A step of one part.
KafkaTakes(Act) ==
    /\ part = "kafka" /\ Act
    /\ UNCHANGED <<part, lockVars, taskVars, deviceVars, viewVars, camVars, orderVars,
                   sessionVars>>
LockTakes(Act) ==
    /\ part = "lock" /\ Act
    /\ UNCHANGED <<part, vars, taskVars, deviceVars, viewVars, camVars, orderVars,
                   sessionVars>>
TasksTake(Act) ==
    /\ part = "dispatch" /\ Act
    /\ UNCHANGED <<part, vars, lockVars, deviceVars, viewVars, camVars, orderVars,
                   sessionVars>>
DevicesTake(Act) ==
    /\ part = "device" /\ Act
    /\ UNCHANGED <<part, vars, lockVars, taskVars, viewVars, camVars, orderVars,
                   sessionVars>>
DashboardTakes(Act) ==
    /\ part = "dashboard" /\ Act
    /\ UNCHANGED <<part, vars, lockVars, taskVars, deviceVars, camVars, orderVars,
                   sessionVars>>
CamerasTake(Act) ==
    /\ part = "camera" /\ Act
    /\ UNCHANGED <<part, vars, lockVars, taskVars, deviceVars, viewVars, orderVars,
                   sessionVars>>
OrdersTake(Act) ==
    /\ part = "order" /\ Act
    /\ UNCHANGED <<part, vars, lockVars, taskVars, deviceVars, viewVars, camVars,
                   sessionVars>>
SessionsTake(Act) ==
    /\ part = "session" /\ Act
    /\ UNCHANGED <<part, vars, lockVars, taskVars, deviceVars, viewVars, camVars,
                   orderVars>>

ProgressNext ==
    \/ KafkaTakes(Next)
    \/ LockTakes(LockNext)
    \/ TasksTake(D!Next)
    \/ DevicesTake(C!DeviceNext)
    \/ DashboardTakes(O!Next)
    \/ CamerasTake(V!Next)
    \/ OrdersTake(W!Next)
    \/ SessionsTake(U!Next)

\* The fairness of each module.
ProgressFairness ==
    /\ \A i \in Instances : WF_allVars(KafkaTakes(Step(i)))
    /\ \A t \in Tasks : WF_allVars(TasksTake(D!WindowPasses(t)))
    /\ \A r \in Runs : WF_allVars(TasksTake(D!RunStep(r)))
    /\ \A r \in Runs : WF_allVars(TasksTake(D!LockExpires(r) /\ taskPc[r] = "idle"))
    /\ \A c \in Commands :
         WF_allVars(DevicesTake(C!SendStep(c))) /\ WF_allVars(DevicesTake(C!Elapses(c)))
    /\ \A s \in Scanners : WF_allVars(DevicesTake(C!ScanStep(s)))
    /\ WF_allVars(DashboardTakes(O!Loop))
    /\ \A r \in O!Requests : WF_allVars(DashboardTakes(O!Goes(r)))
    /\ WF_allVars(DashboardTakes(O!Compute)) /\ WF_allVars(DashboardTakes(O!Expire))
    /\ WF_allVars(CamerasTake(V!TimePasses)) /\ WF_allVars(CamerasTake(V!MarkOffline))
    /\ WF_allVars(OrdersTake(\E r \in Scans : W!ScanStep(r)))
    /\ WF_allVars(OrdersTake(\E r \in Scans : W!LockExpires(r) /\ orderPc[r] = "idle"))
    /\ WF_allVars(SessionsTake(U!Tick))

ProgressSpec == ProgressInit /\ [][ProgressNext]_allVars /\ ProgressFairness

LibraryTypes      == TypeOK /\ LockTypeOK /\ O!TypeOK /\ V!TypeOK /\ W!TypeOK /\ U!TypeOK
LeasesEnd         == D!LeasesEnd
CommandsEnd       == C!CommandsEnd
EventuallyShown   == O!EventuallyShown
EventuallyOffline == V!EventuallyOffline
EventuallyUrgent  == part = "order" => W!EventuallyUrgent
EventuallyCurrent == part = "session" => U!EventuallyCurrent
=================================================================================
