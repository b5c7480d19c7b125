# TLA+ specifications of the OnePark platform

Specifications, model-checking instances and machine-checked proofs for the
services in `src/`.  Line numbers are those of the files under `src/`.

Contents: 1 the system · 2 the modules · 3 the runs · 4 fairness · 5 the proofs
· 6 what the code does differently from what it says · 7 what is not modelled
· 8 plan · 9 how to run it.

## 1. The system

OnePark is a set of Go services (go-zero, gRPC and HTTP) for a smart park.
Every service has a MySQL schema of its own; they share a Redis, a Kafka
cluster and an MQTT broker.  Three mechanisms recur, and most of the hard
behaviour sits where they meet:

* **Kafka consumption** through `common/kafka`: fetch, handle, commit, with
  retries, isolation of poison messages and redelivery after a crash.
* **Redis keys** taken with SETNX: idempotency keys (`common/dedup`), cooldowns,
  placeholders of idempotent requests, and locks of periodic jobs.  They have
  TTLs, are released by whoever fails, and do not belong to the MySQL
  transaction they guard.
* **Optimistic rows**: a request or a job reads a row, decides, and writes it
  under `WHERE ... AND version = ?` (or `AND status = ?`).

### 1.1 Inventory

**M** modelled, **P** in part, **–** not modelled (section 7).

| Component | State it keeps | Operations | Hard behaviours | What makes it correct | |
|---|---|---|---|---|---|
| `common/kafka` | group offset, reader position, `retries` | `Publish`, `NewConsumer`, `Consume` | rebalances, late commits, one retry counter for all messages | nothing passed over unattempted; nothing blocks its partition | M |
| `common/lock` | lock key and its token | `TryLock`, watchdog, `Unlock` | a renewal that fails or comes late, expiry, a crash | whoever holds the lock owns the key while it is renewed | M |
| `common/idgen` | last millisecond, sequence | `NextID` | clock set back, restart, exhausted sequence | unique identifiers | M |
| event-dispatcher | archive cache | MQTT to Kafka forwarding | retries, dead letters, stale tenant, redelivery | no report acknowledged and gone | M |
| alarm-service, ingestion | `alarm`, `alarm_dlq`, L1, L2 and window keys | `HandleDeviceEvent`, `HandleWithDeadLetter`, `ReplayDeadLetter` | duplicates and replays at once, one of two keys rolled back, expiry, crash | announced only when stored, twice only if a publication went unanswered; what is acknowledged is accounted for | M |
| alarm-service, handling | `alarm.status`, operate log | acknowledge, resolve, notify | requests at once, committed but not announced | resolved once, told once | M |
| alarm-service, rules and search | rules, rule cache, Elasticsearch | rule CRUD, search | stale rule cache | – | – |
| dispatch-service, tasks | `dispatch_task`, its log, `dispatch_staff`, scan lock | `TaskCreate`, `TaskAssign`, `TaskStatus`, `StaffUpsert`, `RunReassignOnce` | early reads and late writes, overlapping scans, lost audit rows | atomic life cycle; true audit; leases end | M |
| dispatch-service, intake | `task_no`, `alarm_id` | alarm handler, `TaskCreate` | colliding numbers, redelivery, dying instances | one order per alarm | M |
| dispatch-service, scoring | – | `Pick` | – | – | – |
| parking-service, stays | `parking_record`, L1 keys | telemetry entry and exit, `ParkingEntry`, `ParkingExit` | entry and exit in different partitions, a claim that outlives a failure | events match records | M |
| parking-service, fees | fee rules | `CalcFee`, `CalcFeeByRule` | rounding, caps per day | a longer stay is never cheaper | M |
| workorder-service | `work_order`, flow rows, idempotency keys, scan lock | create, assign, update status, escalate, alarm handler | placeholder expiry, overlapping scans, failed statement in mid-scan | flow rows without a gap; one order per key unless one of six kinds of faults | M |
| device-service, gateway-service: commands | `command_log`, resend counters | `DeviceCommand`, confirmation, timeout scan | confirmation against resend and timeout | a command ends | P |
| access-control-service | request ids in Redis | remote open | timeout, retry, duplicate request | one command per request id and ten minutes, failed calls apart | M |
| device-service and shadow-service: shadows | shadow rows with versions | telemetry merge, `UpdateDesired`, `UpdateReported`, `EnsureShadow` | version 0 means unchecked; device deleted under way | no lost update | M |
| leasing-service, contracts | `lease_contract`, status log | `ContractUpdate`, daily renewal and expiry | job against manual changes, several instances | no change overwritten unseen | M |
| visitor-service | visits, block list, redeem keys | invite, check in, check out | SETNX and conditional update, crash in between | one entry per visit | M |
| billing-service | rules, bills | `Generate`, monthly job, `RuleCreate` | rules and readings change during a calculation | the lines of a bill add up to the use | M |
| notice-service, announcements | `notice`, topic | create, timed publication, recall | update committed, event lost or late | announced once and as stored, a recall told of only when it is final; their order on the topic is open | M |
| notice-service, letters | `notice_read`, unread cache | work-order handler, count, mark read | cache filled from an old count | a letter read is not counted | M |
| dashboard-service | overview cache, websocket hub | aggregate, push loop, broadcast | singleflight against invalidation; slow client evicted | events reach the pushed overview; no send on a closed channel | M |
| video-service, cameras | `camera`, heartbeat keys | heartbeat, offline sweep, requests | heartbeat against sweep and deletion | silent cameras go offline | M |
| video-service, plans | `record_plan` | create, edit, delete, playback | overlapping edits, windows over midnight | playback is exact; bad plans have a known cause | M |
| energy-data-service, ingestion | readings, batch in memory | consume, flush, stop | batch against commits of malformed messages | losses have a known cause | M |
| energy-agent-service | runs, suggestions, reviews | daily inspection, requests, approve | two inspections of a day, late readings, review meanwhile | suggestions follow from readings and keep their review | M |
| auth-service, user-manage: accounts | accounts, roles, tokens in Redis | login, refresh, logout, verify; create, disable, delete | rotation at once, Redis away | tokens in the end say what is true | M |
| user-manage: roles and menus; energy queries and analysis; kb-service; API gateway; gateway sessions; access permissions; monthly cards; lease bills; other `common/*`; generated code, deployment, web | | | | | – |

### 1.2 How the parts interact

```
devices --MQTT--> EventDispatcher --device events--> [KafkaConsumer] --> AlarmIngest --created--+--> DispatchIntake, DispatchTask
   ^                    |                                                     |                +--> WorkOrder --> NoticeInbox
   |                    +--telemetry--> [KafkaConsumer] --> Parking           +--> WsHub
   |                    +--telemetry--> EnergyIngest --> Agent, Billing       AlarmLifecycle --resolved--> dispatch-service
   +-- DeviceCommand <-- RemoteOpen, Visitor      +--> Camera, Shadow
```

Every arrow into a service but EnergyIngest's is a `Consume` loop.
`KafkaConsumer` is the loop itself; the service modules take from it only what
it gives: a message may be delivered several times and to two instances at
once; after a handler error it may be delivered again or passed over; once
committed it is not delivered any more.  In the service modules that is
`Deliver` (AlarmIngest), `FetchMessage` and `PassOver` (Parking, with a rebalance
as a fault), `TakeAlarm` (DispatchIntake), `Take` (NoticeInbox), and the guarded
creations whose unique index makes repetition harmless.

## 2. The modules

A *step* is one statement against MySQL, Redis or Kafka; between two steps of a
process every other process can move, keys can expire, and the process can die.
A statement that fails may have been carried out with its answer lost: the key
is set, the row changed or the event with the broker, while the caller sees an
error.  Such faults are called *unanswered*.  go-redis repeats a command that is
not answered, so a SETNX may also meet the key that its own first attempt set.
Bounds are constants whose comment says "bound" and appear in guards only.
Operators under a comment "Mutant:" are no part of a specification: each is a
plausible mistake in the definition below it, and shows that a property notices
the mistake.  History variables are marked "history" or "ghost"; no guard of an
operation reads them.

Where several components share a run or a proof module, their top-level names
carry the component's name (`ShadowInit`, `VisitorNext`, ...).

### Kafka, lock, identifiers

**KafkaConsumer, DeliveryLog** (`common/kafka/kafka.go`).  One partition, one
group, several instances.

| State | In the code |
|---|---|
| `end`, `committed`, `owner` | broker: log end, group offset, assignment |
| `pc[i]` | where instance `i` is in `Consume`: fetching, in the handler, in `sleepBackoff`, committing, or outside it ("down") |
| `pos[i]`, `cur[i]`, `retries[i]` | reader position, `m.Offset`, the variable `retries` |
| `succeeded`, `failures`, `skipped` | history of handler calls and poison verdicts |

`Fetch`, `HandleOk`, `HandleFail`, `BackoffOver`, `Commit`, `CommitError` and
`Crash` are the branches of the loop in their order.  `HandleFail` is the
branch that matters: it backs off and *continues*, and `FetchMessage` then hands
out the next message.  `Acquire` and `Rebalance` are the coordinator, external
and modelled from how the loop depends on it.  `DeliveryLog` says what all of
that amounts to: a log, a set of attempted messages and an offset that only
passes attempted ones but may go back.

**Lock** (`common/lock/lock.go`): `token`, `ttl` in Redis; per handle the caller
and the goroutine of `startWatchdog`.  Time counts in thirds of the TTL, the
watchdog's period.  **IdGen** (`common/idgen`): `NextID` with its loop for the
next millisecond, over a clock that can be set back and generators that restart.

### The way of an alarm

**EventDispatcher**: the callback of one report (`work`: its next step, topic,
failed attempts, lag of the tenant it read), the archive and the resolver's
cache with its TTL, the topics, the dead letters (`buried`) and those that Kafka
did not take either (`dropped`).

**AlarmIngest** (alarm-service).  A worker is a goroutine in
`HandleWithDeadLetter` (a consumer) or in `ReplayDeadLetter` (a request);
`entry[w]` tells them apart.

| State | In the code |
|---|---|
| `dedup`, `cooling`, `window` | Redis: `alarm:dedup:*`, cooldown keys, `alarm:window:*` |
| `alarms`, `dlq` | tables `alarm` (by its unique index) and `alarm_dlq` |
| `published` | created events sent to Kafka |
| `attempt`, `windows`, `drafts`, `current` | local variables of the call |
| `excuse`, `doubtful` | history: what went wrong for an event; alarms of which a publication that was taken for failed reached M5 |

`EvaluateRules`, `RulesUnavailable`, `EvaluateFails`, `CountWindow` are
`evaluateRules`; `Claim`/`SeenBefore` are L1, `Acquire`/`Suppress` L2,
`Create`/`CreateDuplicate` L3; `Notify` and `NotifyFails` are the three attempts
of `publishAlarmEvent`, each of which may reach the broker and time out;
`Release` is
`releaseDedupKey`; `Fail` the local retry; `RecordDeadLetter`, `Replay` and
`MarkReplayed` the ledger.  Each has its failures next to it (`...Fails`,
`...Unanswered`).  What a rule tests
is abstracted to `Matches[e]`.

**AlarmLifecycle**: `UpdateAlarmStatus` as a transaction (`Transition`), the
push (`Broadcast`), the read and the sends of the notice to M5 (`LoadAlarm`,
`SendNotice`), each with its failure, and death in between.  Kafka is taken to
be configured.

**DispatchIntake**: `orders` and `audit` are `dispatch_task` and its creation
log rows, `counter` is `taskNoSeq` of each process, `intake[t]` the call a
goroutine is in.  `TakeAlarm`/`Submit` begin a call and number its order,
`CreateOrder`, `Skip`, `Renumber` and `CreateOrderFails` are the outcomes of the
insert under its two unique indices, `Log` is the audit row.

**TaskLifecycle, DispatchTask** (dispatch-service).  `TaskLifecycle` is the
promise: tasks move along the transition table in atomic steps, a lease is given
with each assignment, a task whose lease is over is passed on at most
`MaxReassign` times to somebody else or released, and accepted work is not taken
away.  `DispatchTask` is the code: clients and scan runs copy rows into `seen`
and write them back later.

| State | In the code |
|---|---|
| `row[t]` | `dispatch_task`: status, assignee, `assign_expire_at` ("null", "open" or "past"), reassign count, version |
| `log` | `dispatch_task_log` |
| `onDuty`, `lock` | `dispatch_staff`, the Redis lock of the scan and whose token it holds |
| `seen`, `request`, `batch`, `pool`, `job` | local variables of requests and runs |
| `moves` | history: transitions the rows really made |

`ReadForAssign`/`TaskAssign`/`LogAssign` are `TaskAssign`,
`ReadForStatus`/`TaskStatus` are `TaskStatus`; `TryLock`, `List`, `LoadPool`,
`Reassign`/`Release`/`SkipTask`, `LogScan`, `EndRun` are `RunReassignOnce`.
The lock can be lost to its TTL while the run goes on (`LockExpires`), so two
runs do overlap.  `StatusActions` are the values callers put into
`TaskStatusReq.Action`: `dispatch.api:88` names three, the code accepts six.

**WsHub** is both hubs, `mode` choosing: clients with bounded buffers, the pumps,
broadcasts under the read lock, throwing out, and the two ways over Pub/Sub.

### Work orders and notices

**WorkOrder** (workorder-service).

| State | In the code |
|---|---|
| `row[o]` | `work_order`: status, assignee, priority urgent, `finished_at` set, `alarm_id`, version |
| `flow[o]`, `escalations[o]` | `work_order_flow`, the escalation rows apart (they have no states) |
| `idem[k]` | Redis: absent, the 30 s placeholder, or the cached answer |
| `old`, `lock` | orders created before the threshold; the scan's lock |
| `keyOf`, `doubling` | history: key an order was created under; has a fault that can double an order happened |

`AskCreate`/`Acquire`/`Insert`/`Cache` are `CreateWorkOrder` under a key,
`PlaceholderExpires` and `AnswerExpires` the key's two TTLs (30 s and 24 h),
`CreateFromAlarm` is the alarm handler, `AssignWorkOrder`/`UpdateStatus` read and
`Write` writes row and flow in one transaction, `List`/`Escalate`/`Skip`/
`LogEscalation`/`ScanDone` are `RunEscalationOnce`.

**Notice**: rows of `notice`, the creating request, recalls and runs of the timed
job, the topic and what its consumer has pushed.  A row is written before its
event is published, and nothing ties the two together; an event has a copy
number, since kafka-go's Writer may write one twice.  **NoticeInbox**:
`WorkorderHandler` with its two inserts (`stored`, `letter`), the polls of the
unread count with its cache, and marking as read.

### Devices and the park

**DeviceCommand**: `command` is the status in `command_log`, `sender` the call
that sends it, `scan` the timeout scan of each instance, `counted` the Redis
counter of resends, `acks` confirmations on their way.  Only the gateway looks
at the status it replaces.  **RemoteOpen** extends it: `door[k]` is the call whose
command is `k`, `claimed` the request ids in Redis (`IdExpires`: for ten
minutes), `lapsed` (history) those whose key has ended.

**Shadow**: `local` is the row of device_db that telemetry handlers merge into,
`remote` the row of shadow_db; a message stands for the metric it reports, a row
of shadow_db for the updates it has taken.

**Visitor**: `visit` is `visitor_record.status`, `gate` the keys
`visitor:redeem:<id>`, `visitScan[s]` the check-in a request is in, `doors` the
commands sent.  All visits are of one person, blocklisted or not.

**Lease**: dates are months; a change reads the contract, writes it under its
version, then writes its audit row.  **Parking**: `status`, `id` are
`parking_record` per stay, `keys` the L1 keys; `Claim` is `Dedup.Seen`, `InsertEntry`
the `ON CONFLICT DO NOTHING`, `Find`/`Settle` the lookup and conditional update
that `onTelemetryExit` and `ParkingExit` share, `ReleaseKey` the `Dedup.Release`
on the error paths that have one, `Close` the UPDATE of an exit (answered or
not), `PassOver` what `Consume` does with a message
whose handler failed.  **ParkingFee**: `CalcFee` and `CalcFeeByRule` over half
minutes.  **Billing**: one zone and month, readings as running totals, `gen` the
call of `Generate` step by step.  **EnergyIngest**: `pending` is the batch, `loop`
the consumption loop, `group` the offset; rows are a set.  **Agent**: one step per
query of an inspection, the five rules as operators on days of readings.
**Camera**, **RecordPlan**: the row of a camera with its Redis key; the plans of
one camera.  **Overview**: sources as a version that grows, the cache, the
singleflight and the push loop.  **Session**: one account, pairs of tokens, the
lists in Redis.

## 3. The runs

Five passing runs.  Components that share no state share a run: the variable
`part` (`service` in MCOperations), chosen by the initial state, says whose steps
a behaviour takes; the variables of the others keep one initial value.  A
property of one component is thus checked on all behaviours of that component.
A component whose safety has theorems of its own is `EXTENDS`ed by the MC module
of its run, the others are instances under a prefix.

| Run | Components | Distinct states | Properties |
|---|---|---|---|
| `alarm_path` | EventDispatcher, AlarmIngest, AlarmLifecycle, DispatchIntake, WsHub, RecordPlan | 3,488,219 | `ReportsAccounted`: an acknowledged report was taken by its topics or a dead letter was tried, under a tenant not older than the TTL. `AnnouncedOnce`: M5 hears of an alarm only once it is stored, and twice only after a publication that reached it but was taken for failed. `AckedAccounted`: an acknowledged event is stored, in the ledger, in hand, or one of seven named causes hit it, an unanswered SETNX of its own among them. `ResolvedOnce`. `OneOrderPerAlarm`. `HubDelivers`: a client gets no message twice but for a lost reply, and no channel is closed twice or sent on after that. `PlaybackExact`, `PlansExplained` |
| `operations` | DispatchTask, RemoteOpen with DeviceCommand, Shadow, Lease, Visitor, Billing, ParkingFee | 1,568,786 | `ImplementsTaskLifecycle`, `AuditTruthful`. `OneCommandPerRequest`: two commands for one request id only if a call was answered an error or the id's ten minutes are over. `NoLostUpdate`: two telemetry merges at once, two updates of a shadow. `NothingOverwritten`: each write of a lease was judged on the row it replaced, and each audit row tells a write that happened. `EntersOnce`. `BillsReconcile`: the lines of a bill account for what it charges. `FeeGrows` |
| `work_order` | WorkOrder, NoticeInbox, Notice, IdGen, AlarmIngest with bad events, Agent | 1,426,979 | `FlowTellsLife`, `OneOrderPerKey` (the six kinds of faults in `Doubling` can double an order, no other can). `AnnouncedAsStored`: one announcement of a notice (its copies by the Writer apart), none of a draft, and a withdrawal is told of only when it is final; which of the two is sent first is open. `ReadIsCounted`. `UniqueIds`. `BadMessagesLedgered`. `SuggestionsExplained` |
| `progress` | KafkaConsumer, Lock, DispatchTask, DeviceCommand, Overview, Camera, WorkOrder, Session | 109,390 | `DeliversLog`: the loop implements `DeliveryLog`. `HeldIsOwned`. And liveness: `EventuallyAttempted` (a failing handler blocks nobody), `LeasesEnd` (nothing stays with somebody who never accepts it), `CommandsEnd`, `EventuallyShown`, `EventuallyOffline`, `EventuallyUrgent`, `EventuallyCurrent` |
| `telemetry` | EnergyIngest, Parking | 1,176,469 | `LossExplained`: a reading is lost only behind a discarded message or before the first offset of a new group. `EventsMatchRecords`: entry and exit are told of as the record says, and once unless a publication is unanswered; an exit closes one stay unless its key expired or its UPDATE is unanswered. `CarsHandled`: a message is carried out unless the loop passes it over after an error, or one of the kinds of faults in `Losing` hit it |

Each also checks the type invariants of its components (`PathTypes`,
`ServiceTypes`, `OrderTypes`, `LibraryTypes`, `TelemetryTypes`).  Seven further
runs are expected to find a violation; they are the table of section 6.  Every
property of a passing run has a mutant in `PROJECT.json` that it rejects.

**Instances.**

* `alarm_path`: 2 tenants of a device, TTL 2, 2 attempts per topic, 2 moves,
  1 fault; 2 ingestion workers, 2 events of one device, 1 rule, 1 local retry,
  2 deliveries each, 1 replay, any 2 faults; 4 operators, 3 sends, 3 faults;
  2 processes, 2 alarms delivered twice and a request by hand, 2 numbers per
  second; 2 hub instances, 2 clients, 2 messages, buffers of 1; 2 plans created
  and 2 edits, days of 3 minutes, weeks of 2 days, minutes 0 to 4.
* `operations`: 1 task, 2 people, 2 clients, 2 overlapping runs; 2 calls with one
  request id and its expiry; 2 merges, 2 updates of a row that is new or was updated before, 1 fault; 1 contract, 2 daily jobs, 1 user; 2 visits
  and 2 scans; 1 meter with 3 readings and 1 rule added under way; stays up to
  3000 half minutes (25 hours).
* `work_order`: 2 orders, 1 alarm, 1 key, 2 clients, 3 requests, 2 overlapping
  scans, any 1 of 11 kinds of faults; 2 notices, 2 recalls, 2 runs; 2 letters,
  2 polls; 2 nodes with 3 identifiers each and a sequence of 2; 1 worker and
  3 events (well-formed, malformed, without tenant); 2 meters in one zone and an
  empty zone, days 5 and 6 with 3 days of history, 1 job, 1 request, 1 review,
  1 late reading.
* `progress`: 2 instances, 3 messages, 2 attempts, 2 faults; 2 handles of a lock;
  1 task, 2 runs, 2 reassignments; 1 command, 2 scanners, 2 resends; 2 cameras of
  two tenants on one device; 2 orders and 1 scan; 2 pairs of tokens that live
  1 and 2 ticks.
* `telemetry`: 4 messages, 1 of them dirty, batches of 2, a new and an old group,
  2 faults; one car with a gate's entry and exit and an operator's, 2 consumers,
  any 2 of 14 kinds of faults.

**Why that is enough to be interesting.**  Two instances, workers, clients or
runs give every race of two processes, which is what locks, keys and versions
are there for; a third would meet the same guards.  Three messages let one fail,
the next succeed and a late commit move the offset back.  Two events of one
device share a cooldown key; two stays of one car let an exit find the wrong
one; two orders let a key double and let a scan fail between two rows.  One
local retry reaches both outcomes of `Fail` (three in the code), two attempts
both of `HandleFail` (five in the code).  Two faults are a failure and the
failure of what should make up for it, such as an insert and the release of its
key.  Where section 5 has a theorem, the bounds do not matter.
`CHECK_DEADLOCK` is off because all instances end: when requests, messages and
faults are used up and time has passed, nothing is left to do.  `SYMMETRY` is
used in runs without liveness properties only.

## 4. Fairness

Nothing is assumed of callers, operators, devices, faults or rebalances.

* `KafkaConsumer`: each instance's own next step (`Step`).  `NewConsumer` is
  among them, because the runners of parking-service
  (`svc/servicecontext.go:76-94`), workorder-service (`consumer/runner.go:53-70`)
  and notice-service build a new consumer three seconds after the loop ended.
  Those of alarm-service, dispatch-service, video-service, device-service and
  dashboard-service do not: after an error of the broker they stop until the
  process is restarted, and for them `EventuallyAttempted` supposes that somebody
  does that.
* `DispatchTask`: time passes, the lock of a dead run expires by its TTL, and
  each run takes its steps; `cron.Start` triggers a run every `IntervalSec` on
  every instance.
* `WorkOrder`: some scan goes on and a dead scan's lock expires.
* `DeviceCommand`: the call that sends goes on, timeouts elapse, each scanner
  takes its steps.
* `Overview`: the push loop, the requests under way, the aggregation and the
  expiry of the cache.  `Camera`: time and the sweep.  `Session`: time, as tokens
  expire.
* `Parking`: a handler goes on (weak), and each message is fetched if no handler
  call failed on it (strong, since both workers may be busy again and again).
  That a failed one comes back is *not* assumed, because `Consume` does not
  bring it back.

## 5. The proofs

TLAPS proves, for every value of the constants that the `ASSUME`s allow
(disjointness of the kinds of identifiers and ranges of the numbers):

| Theorem | Says | Checked on an instance by |
|---|---|---|
| `KafkaConsumerProofs!TypeCorrect`, `!AttemptedCorrect` | types; `AttemptedBeforeCommit` | `progress` (through `DeliversLog`) |
| `KafkaConsumerProofs!ImplementsDeliveryLog` | `Spec => DeliversLog` | `progress` |
| `DispatchTaskProofs!TypeCorrect`, `!AuditCorrect` | types; `AuditTruthful` | `operations` |
| `DispatchTaskProofs!OwnedCorrect`, `!ImplementsLifecycle` | under `Callers`: `AssignedIsOwned`; the life cycle is implemented | `operations` |
| `AlarmIngestProofs!TypeCorrect` | types | `alarm_path` |
| `AlarmIngestProofs!AnnouncedCorrect`, `!AckedCorrect` | `AnnouncedOnce`, `AckedAccounted` | `alarm_path` |
| `AlarmIngestProofs!BadMessagesCorrect` | `BadMessagesLedgered`, of `AlarmIngest` | `work_order` |
| `WorkOrderProofs!LedgerCorrect` | under `OrdersFit`: `BadMessagesLedgered`, of the run | `work_order` |
| `AlarmPathProofs!ReportsCorrect` | `ReportsAccounted` | `alarm_path` |
| `AlarmPathProofs!ResolvedCorrect` | `ResolvedOnce` | `alarm_path` |
| `AlarmPathProofs!IntakeCorrect` | `OneOrderPerAlarm` | `alarm_path` |
| `AlarmPathProofs!HubCorrect` | `HubDelivers` | `alarm_path` |
| `AlarmPathProofs!PlanTypes`, `!PlansCorrect` | types; `PlansExplained` | `alarm_path` |
| `AlarmPathProofs!PlaybackCorrect` | `PlaybackExact` | `alarm_path` |
| `WorkOrderProofs!TypeCorrect`, `!FlowCorrect`, `!KeyCorrect` | types; `FlowTellsLife`; `OneOrderPerKey` | `work_order` |
| `WorkOrderProofs!NoticeCorrect`, `!InboxCorrect` | `AnnouncedAsStored`; `ReadIsCounted` | `work_order` |
| `OperationsProofs!ShadowCorrect` | `NoLostUpdate` | `operations` |
| `OperationsProofs!VisitorCorrect` | `EntersOnce` | `operations` |
| `OperationsProofs!DoorCorrect` | `OneCommandPerRequest` | `operations` |
| `OperationsProofs!LeaseCorrect` | `NothingOverwritten` | `operations` |
| `OperationsProofs!FeeCorrect` | `FeeGrows`, an action property | `operations` |
| `KafkaConsumerProofs!LockTypeCorrect`, `!OwnedCorrect` | types; `HeldIsOwned` | `progress` |
| `WorkOrderProofs!IdsCorrect` | `UniqueIds` | `work_order` |
| `EnergyProofs!TypeCorrect`, `!LossCorrect` | types; `LossExplained` | `telemetry` |
| `EnergyProofs!EventsCorrect` | `EventsMatchRecords` | `telemetry` |
| `WorkOrderProofs!SuggestionsCorrect` | under `Sparing`: `SuggestionsExplained` | `work_order` |
| `OperationsProofs!BillingTypes`, `!BillsCorrect` | types; `BillsReconcile` | `operations` |
| `AlarmPathProofs!PathTyped` | `PathTypes` | `alarm_path` |
| `OperationsProofs!ServicesTyped` | `ServiceTypes` | `operations` |
| `WorkOrderProofs!OrdersTyped` | under `OrdersFit`: `OrderTypes` | `work_order` |
| `KafkaConsumerProofs!LibraryTyped` | under `LivesFit`, `BoundsFit`: `LibraryTypes` | `progress` |
| `KafkaConsumerProofs!LibraryKeepsPromises` | `DeliversLog`, `HeldIsOwned`, of the run | `progress` |
| `EnergyProofs!TelemetryTyped` | under `TelemetryFits`: `TelemetryTypes` | `telemetry` |

Few of these invariants are inductive.  Each proof strengthens its invariant,
checks the strengthening with TLC on the instances of section 3, and has one
lemma per action (`...Safe`, `...Keeps`) which the last theorem puts together.

**KafkaConsumer.**  What an instance commits depends on where its reader
started.  `Delivery` adds for each instance that, if it owns the partition, all
before its reader's position was attempted, save the message it is handling
(`ReaderClean`); that what it handles or commits has no unattempted predecessor,
owner or not (`MessageClean`); and that what it commits was attempted
(`CommitClean`).  The second part is what makes late commits harmless to the
guarantee although they move the offset back.  In the refinement a handler call
is `Attempt`, a commit is `Commit`, all else stutters.

**DispatchTask.**  Everything rests on optimistic locking, stated once:
`SeenOK` says that each copy in `seen` is an earlier state of the row or the
same one, where a row of equal version differs only in its accept window, which
can only have run out.  So whoever passes the guard `Unmodified` knows the row
(`UnmodifiedSame`).  `LockInv` adds what a process has checked between read and
write (`BatchOK`, `AskOK`) and that version 0 is no row.  From it follow
ownership, and the refinement: an update under the version check is the atomic
operation of `TaskLifecycle` at that moment.  For the audit, `AuditInv` adds that
the row a process still has to write speaks of a move that was made
(`PendingAudit`), and that moves start from versions behind the row
(`MovesBehind`), so no two share one.  `Callers` says that `StatusActions` are
among start, finish and close, the three `dispatch.api:88` names; the run
`dispatch_any_action` shows what happens without it.

**AlarmIngest.**  An alarm about to be announced is stored, was not announced
before but by a doubtful attempt of the same worker, and is in nobody else's hands
(`Announcing`): the unique index decides who inserts, and only who inserted and
was told so announces.  A row whose insert was unanswered is never announced; the
event is accounted for, and subscribers do not hear of it.  For what is acknowledged, the
proof follows the two keys: an L1 key in Redis stands for alarms that are safe or
for a worker that sees to them (`KeyEarned`), an L2 key for a safe alarm of the
event that took it (`CoolingEarned`), a worker that has judged its event still
has the draft of every alarm that is not safe (`Drafted`); safe is stored, in the
ledger, about to be stored, or hit by a named cause.  Without `CoolingEarned` a
suppressed draft could have been lost with its first owner; the cause
"createFailed" is exactly that case, and the run `alarm_failed_create` the
divergence.

**EventDispatcher.**  A valid entry of the cache says what the archive said when
the entry was made or later (`StampsTrue`); what is published or buried is a
report of that kind, the alarm after the telemetry (`Routed`); a report that is
done with is accounted for by topic or as a whole (`Done`).

**AlarmLifecycle.**  The log spells the status (`Written`); all requests that got
past the transaction of a resolution are one request, notices are no more than
its sends, and it has not answered "ok" while there is none (`Told`).

**DispatchIntake.**  A call is for an alarm, under the alarm's own request id, or
by hand, and logs only an order that is there (`Sound`).  With that the property
is inductive: the two unique indices keep orders apart, and a number answered by
hand is one that its own insert took.

**WorkOrder.**  `FlowTellsLife` follows order by order from the flow rows linking
up (`RowTold`), from each copy a request read being of an earlier version or
equal to the row (`SeenWas`), and from what a scan still has to log
(`Escalating`).  `OneOrderPerKey` needs `KeyInv`: who inserts or caches under a
key holds the placeholder alone (`LockHeld`) and finds no order of the key before
(`Unborn`); the key of an order leads to it or will (`Answered`).  All of it
holds only until a fault of `Doubling` has happened, and the property says so: a
commit whose answer is lost leaves an order nobody cached, and a day later the
cached answer is gone.

**Shadow.**  A handler of telemetry writes on top of a row of the past, which is
the present one if the versions are equal (`SeenEarlier`); so does a caller of
shadow-service that names a version (`AskedEarlier`).  A statement that fails has
either done nothing or what it would have done, and its caller writes no more.

**Visitor.**  Who opens the door has redeemed the visit, and nobody else can
(`Redeemed`, `OpensOnce`); the key of a visit that is still open belongs to a scan
that will redeem it or delete the key, unless a fault left it (`KeyFreed`).

**RemoteOpen.**  A call between claim and answer has its request id and no other
has it until the id's key has lapsed (`HoldsId`), and a command was sent by a call that was let through
(`SentByCall`).  The steps of device-service on the same command are covered by
`DeviceIInv` (`Logged`: only commands that are there are published or scanned).

**Lease.**  Versions order everything.  Whoever will write a contract holds a row
of its past, the present one if the versions are equal (`Remembered`), judged
when it was read (`EditSound`, `JobSound`); a row's version is the number of its
writes, so that a log row finds the write it tells (`Tells`).  A write makes
other copies old and no log row false (`WriteKeeps`), and neither needs the lock
of the day: a run whose key lapsed is stopped by the version alone.

**Lock.**  `Kept`: an undisturbed holder has its token in Redis, a watchdog that
runs, and at least one period to live, two unless a renewal is pending.

**IdGen.**  Identifiers are ordered as their times and then as their sequence
numbers, and those of two nodes differ whatever the times (`IdOrder`, from a
lemma on digits); so it is enough that each is one of its node (`Stamped`) and
that those of a node grow.  They grow because what the generator remembers bounds
what it returned, and a restarted one, which remembers nothing, is bounded by the
clock (`Bounded`); that is lost only if the clock was set back as well, the case
the property excludes.

**Notice.**  A notice has one announcement at most, sent or owed by whoever won the
guarded update; a draft has none (`StoredAs`).  The Writer may repeat what is sent,
so announcements are counted by their first copies.  Hence the creating request and a
recall may rely on the status they wrote until they tell of it (`Created`,
`Recalled`).

**NoticeInbox.**  A count that was taken, and that no mark has overtaken, is not
above the number of unread letters (`Counted`), so writing it to the cache is
harmless; one that a mark overtook is the case the property excuses.  Marking
lowers the number by one because the letters are finite.

**WsHub.**  A potential: the times a client got a broadcast, plus the chances it
still has (a loop that has not come to it, the bus, the broadcasting goroutine),
are one at most, or two after a publication that was wrongly reported as failed
(`Fair`); each step only turns a chance into a delivery or drops it.  Loops serve
registered clients alone, and a registered client's channel is open, so nobody
sends on a closed one.

**EnergyIngest.**  Before the reader's position, and before each message of the
batch, every reading is explained or itself in the batch (`PassedTo`); before the
group's offset it is explained without the batch, so that a crash loses nothing
more.  `Placed` says where offsets lie and what memory holds at each place of
the loop.

**Parking.**  Of a stay one process at most is about to tell that it began, or
that it ended, and none is once it was told (`TellsEntry`, `TellsExit`): the unique
index and the conditional update let one through.  While no fault of `Reopening`
has struck, an
exit message is in one pair of hands, which keeps its key until it has closed one
record at most (`KeysProtect`); what an exit closes is of its plate (`Closers`).

**RecordPlan.**  What `normalizePlanFields` yields never contradicts itself, and an
edit writes exactly what it checked if the row is still the one it read; otherwise
the plan counts as edited over another edit (`muddled`).  The camera is there
until its removal begins; a clean-up that ends well leaves no plan, so one that
is there later was inserted by a create that had still seen the camera.

Playback: the windows of one plan cover a minute just when the plan wants it,
since a minute lies in the hours of one day only (`SameDay`, `WindowsCover`).
Merging is a fold over a finite set in the order of starts; what has been merged
so far covers the windows absorbed, its windows are apart, and the last starts
where one of them does, so that the next either begins in it or after it
(`Merges`, `AbsorbMerges`).  That there are finitely many plans is part of the
invariant.  The cap of 400 days per plan (`recordwindow.go:13`) is not modelled:
a question spans 24 hours unless the configuration says otherwise.

**ParkingFee.**  Half a minute adds at most one minute, a minute at most one started
hour and one day; so the amount by hours and the amount by days each grow by
nothing or one unit, and their minimum by no more.

**Billing.**  Two computations have to agree: the bill, which goes through the
tiers once for the whole use, and its lines.  With tiers, each takes what is left
or its room, so after k tiers all is placed, or exactly the use up to the k-th
limit (`Placed`), and a unit costs the same on a whole tier (`UnitPriceOf`,
`ReferenceGrows`).  With hourly lines, the charged use is a sum over the closing
readings, once grouped by hour and once by meter: sums over two partitions of one
finite set agree (`SumPartition`), and per meter the differences of readings
telescope (`MeterSum`, `ClosedBy`), if no reading was set back or moved meanwhile,
as the property says.  `BillingIInv` has what a call of `Generate` knows at each of
its steps (`KnownBy`) and that a stored bill is one of those (`Stored`).

**Agent.**  What an inspection has found is of the day of its run and has its
cause in the readings (`InspectsWell`, `Justified`), and so has what is stored
(`KeptWell`).  The cause of `data_missing` is what the code tests: nothing was
*used* on the day, though the device reported or the zone has devices, and there
was use before (section 6).  That the five rules find only what is caused is arithmetic over
sums: an average is at most the use of some valid day (`AboveOne`), a zone's use
at least that of each meter.  That a cause stays when a reading comes late is
monotonicity: a day's use only grows, and the days it is compared with are past
(`CauseStays`; `Arrives` bounds what may still come).  `Sparing` says that the
thresholds ask for more than the average, by both ratios above 1 or by a minimal
confidence above 0.5: `energyagent-api.yaml:41-42` sets 1.5 and 1.3.  The code
takes any positive ratio (`config.go:68-73`); with one of 1 or less a use that is
no more than any day before would be a finding.

**FoldLemmas.**  Consumption is a sum over a finite set, in the community
modules a fold, defined by recursion on sets.  The lemmas derive what is needed
of it: induction on finite subsets from the least element of a set of numbers,
that a fold of such a recursion exists, that a sum does not depend on the order
(`AddsAnyFirst`), and from this its type, its monotony, its bounds and its signs,
the sum of a constant, and that a sum may be taken part by part.
They name no operator as a parameter: where a property is induced on, it is
given as the set of what has it.

**The runs.**  An MC module composes components that share no state.  A step of
it is a step of one component or leaves that component alone, for each of them;
hence a behaviour of the run is one of each component (`OperationsImplements`,
`TelemetryImplements`, `PathImplements`, `OrderImplements`), what is proved of the
components holds of the run, and so do the composed type invariants.
`MCProgress` states its own fairness, so `LibraryTyped` and
`LibraryKeepsPromises` take the steps (`ProgressStep`) rather than the
specifications.  The types of three of its parts
needed more than themselves: a camera is heard of at one age at most because its
row is replaced as a whole (`CamShape`); a call of auth-service that answers has
made a pair (`SessionInv`), without which it would list a token that does not
exist; a work order is written by whoever has read one (`OrderJobs`).
`BadMessagesLedgered` of `work_order` speaks of an instance of `AlarmIngest` under
other names; `AlarmIngestProofs` is instantiated with the same substitution, and
`OrdersFit` is what its assumptions become.

**Model-checked only.**  All liveness (the seven properties of `progress` and
`CarsHandled`), since the prover handles neither fairness nor ENABLED.  Every
invariant, every action property and both refinements that a run checks have a
theorem.

## 6. What the code does differently from what it says

| Run | Where | What |
|---|---|---|
| `kafka_commit_claim` | `common/kafka/kafka.go:106` | After a handler error `Consume` continues with the next message; committing that passes the failed one, which is neither handled nor isolated after five attempts of its own. `:80` says the offset is committed only when the handler returns nil |
| `alarm_failed_create` | alarm-service `svc/consumer.go:297` | A failed insert releases the L1 key and keeps the L2 cooldown key the call itself took; the retry is suppressed by it, returns nil and is committed. `:264` says the key must be released as long as nothing was stored |
| `dispatch_any_action` | dispatch-service `taskstatuslogic.go:59` | Action `assign` through the status endpoint makes a task assigned to nobody, without a deadline, which no scan finds. `dispatch.api:88` names start, finish and close |
| `parking_lookup` | parking-service `svc/consumer.go:230` | An exit whose lookup fails keeps its L1 key; the redelivery is skipped and the stay is never closed. `common/dedup/dedup.go:8` and `:30` say a failed action must release |
| `energy_commit` | energy-data-service `mq/consumer.go:162` | A malformed message is committed at once, past readings still in memory; when their write then fails and the process ends, nobody reads them again. `:118` says a failed write commits nothing and is consumed again |
| `lease_renewal` | leasing-service `cron/daily.go:192` | The second automatic renewal counts the years from the first day, which never moves, and adds twice the term. `:187` says the original term is added |
| `notice_delivery` | notice-service `consumer/handler.go:87` | The notice is stored and its letters are not; the redelivery takes the notice for the whole and is acknowledged. `:33` and `:36` say that letters are idempotent by themselves and nil means handled |

Met while modelling, without a run of their own.

Alarms and rules:

* A duplicate delivery is acknowledged on the strength of the L1 key of another
  worker, which may still die or fail ("crashed" among the `Causes`).
* A dead letter without a tenant is stored with tenant 0 and can neither be
  listed nor replayed.  A replay that stored nothing, because a key or the rule
  store stood in its way, is marked replayed all the same.
* An unreadable rule store looks like an empty one, and the event is acknowledged
  as unmatched (`rule/engine.go:72`; `svc/consumer.go:205` says otherwise).
* An unanswered SETNX leaves its key: the local retry takes it for a duplicate or
  for a cooldown, returns nil and the event is acknowledged ("unanswered" among
  the `Causes`).  An attempt to publish that timed out may have reached the broker,
  so M5 may hear of an alarm three times (`notify.go:142-188`).
* A window is emptied when it fires (`rule/window.go:22`); if the insert then
  fails, the alarm needs a full window again.  A redelivered event counts twice.
* An update of a rule's conditions alone can leave a window rule without a
  length, silently 60 s; a condition of the wrong shape passes `ParseSpec` and
  fails every matching event in `Evaluate`, other rules' alarms with it; the rule
  cache is invalidated only on the instance that took the update, the others keep
  old rules for up to 30 s.
* The broadcast of an acknowledgement may come after that of the resolution
  (`updatealarmstatuslogic.go:73`).  The hub's `readPump` sets its deadline once
  and has no pong handler (`ws/hub.go:59`), so every connection drops after 60 s.
* event-dispatcher: a dead letter is tried once and its failure only logged
  (`dispatch.go:89`); the comment at `:109` describes an error that is never
  returned; an alarm whose telemetry publication failed is still published.

Dispatch, work orders, notices:

* The status endpoint of workorder-service accepts `assign`, which gives an order
  in processing without an assignee (`updateworkorderstatuslogic.go:64`);
  assigning an order in processing answers success and changes nothing; a failed
  creation leaves its placeholder for 30 s, in which retries are refused; one whose
  commit was not answered has left an order, and the retry after 30 s creates
  another.  A key used again after the 24 h of its answer creates another, too.
* The payload of a notice event is always "notice_published" without a status
  (`noticeevent.go:95-99`, unlike `:86`); the published event, of the creating request
  or of the job, can land after that of a recall; overlapping recalls overwrite each other's reason.

Parking, leases, bills, visitors:

* An UPDATE that closed a stay but was not answered releases the exit's key, and
  the redelivery closes the plate's next stay (`consumer.go:262-268`).  A SETNX that
  was not answered leaves the key, and the redelivery is skipped (`:148-151`).
* The HTTP exit publishes the record as it was read, still parking, fee 0
  (`parkingexitlogic.go:93`).  An exit handled before its entry finds nothing and
  counts as done; one handled late closes the newest record, perhaps the next
  stay.  The cap per day counts started periods of 24 hours, the comment says
  natural days (`consumer.go:348`).
* The lock of the daily lease job is released at the end of a run, so a second
  instance may run again.  Years of a term are days/365 rounded down.  The last
  month of an expiring contract is never billed: it expires at 00:05 and
  `BillAuto` at 00:10 lists only active ones (`cron.go:30`, `billautologic.go:82`).
* Tiers may all be capped, and use beyond the last cap is free; periods of a
  time-of-use tariff ignore minutes; its hourly lines differ from the total when a
  meter is set back or reports in between (`energy_reading.go:61` says to the
  last unit, unlike `:114`); the unique key of bills has no tenant column
  (`deploy/sql/billing_tables.sql:44`, unlike `billing.go:51`), and `TotalUsage`
  is not filtered by tenant.
* A second scan after expiry writes "expired" over check-in and check-out
  (`visitorcheckinlogic.go:135-137`); a crash between SETNX and the update blocks
  the visitor until the code expires; refreshing a blocklist entry with a phone
  clears its card number (`addvisitorblocklistlogic.go:117-128`).

Devices and energy:

* A confirmed command can be overwritten by the timeout scan or by `MarkSent`.  A
  duplicate request to open a door is answered success before the first call is
  judged (`remoteopenlogic.go:76`, unlike `dedup.go:30`).  A request id that is used
  again ten minutes after it opened the door opens it once more
  (`servicecontext.go:19-21`, by intent).
* `event.go:11` says the last event shows in the next aggregate, but an
  aggregation in flight at the invalidation fills the cache again for 30 s.
* A heartbeat writes online over the status fault (`camera_model.go:118-124`,
  unlike `:135-136`); one of a deleted camera still marks the device's Redis key;
  the heartbeat consumer ends for good on an error of `Consume`; replayed
  heartbeats count as of now.
* Two overlapping edits, each valid, can store a plan that ends before it starts
  and records nothing (`recordplanlogic.go:207`, `:277`, unlike `:350-352`); a plan
  created while its camera is deleted, or whose clean-up fails, is an orphan
  (unlike `:325-327`); renaming to a taken name is reported as a general failure.
* energy-data-service: the last flush of a graceful stop uses the cancelled
  context and writes nothing (`consumer.go:135`); a group without a commit
  restarts at the end; an older commit moves the offset back; a failed commit or
  an unanswered insert duplicates rows.
* energy-agent-service: approving checks and then updates unconditionally, so two
  reviewers overwrite each other (`approvelogic.go:48-57`); a day is marked done
  before it is inspected (`inspectjob.go:80-92`); failed suggestions still finish
  a run as success; `data_missing` means that the use of a day is zero
  (`HasData`, `inspect.go:112` and `:218`), not that no reading came, as
  `detect.go:152-153` ("当天却一条都没有") and `types.go:64` and `:74` say: a zone or
  device with one reading, or several equal ones, is reported, and a device silent
  on the day is never listed and so never reported missing; a day on which some device was silent lowers its zone's
  baseline; readings stored out of order look like a fallen meter; the default of
  `MinUsage` is never applied; two inspections of one second clash on `run_no`.

Accounts:

* An update without a status disables the account (`userlogic.go:97`, unlike
  creation at `:45`); the name of a deleted account stays taken; no operation
  removes a role; a creation whose role assignment fails leaves the account
  without it; an access token stays good until it expires after its account was
  disabled ("即时生效" at `refresh.go:32` holds for refreshes only).
* API gateway: the permission cache stores a failed check as a refusal for five
  minutes and shares a user's result with all of the same roles
  (`permission.go:65-75`); a breaker's probe that breaks off is never recorded and
  leaves it half-open; a failure is dated with its request's start.

## 7. What is not modelled

Within the modelled parts: contents of messages and rows that no property
depends on (titles, zones, wording), tenants except where they decide something,
metrics and logs, Elasticsearch copies, the arithmetic of clocks except where it
is the subject (fees, leases, plans, bills, baselines): a deadline is in the
future or past, a key is there or gone.  A second partition or topic adds
nothing, as the loop treats partitions separately.

What is unanswered is modelled where a later step depends on it: SETNX keys,
inserts and updates whose caller goes on or gives something back, publications.
kafka-go's Writer may repeat a publication any number of times; the models write
two copies (`Copies`, `copy`), or one per attempt of a caller that repeats itself.
Where the answer changes nothing but what is logged or told, the module's comment
says so (`Notice`, `WorkOrder`'s `Refused`).

Whole components: alarm rules and search, assignment scoring, monthly cards,
access permissions, roles and menus, energy queries and analysis, the knowledge
base are queries and single statements behind the operations modelled here; lease
bills are kept single by a unique index; sessions over TCP and CoAP are
sequential; the API gateway, the remaining helpers of `common`, generated code,
deployment files and the web front end add no protocol of their own.
device-service's online states and time series are left out, therefore "P".

## 8. Plan

1. `AlarmRule`: the rule cache of several instances against updates.
2. `Gateway`: the breaker's states against slow and broken answers.
3. `LeaseBill`, `GatewaySession`, `Permission`: small state machines that would
   join `operations`.

## 9. How to run it

`tlc -config MCOperations.cfg MCOperations` checks an instance, `tlapm
OperationsProofs.tla` checks proofs.  `PROJECT.json` lists runs, mutants,
findings, hazards, theorems, and for each definition the source lines it models.
