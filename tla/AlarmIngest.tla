----------------------------- MODULE AlarmIngest -----------------------------
(***************************************************************************)
(* alarm-service: from a device event to a stored alarm.  HandleDeviceEvent *)
(* (rules, L1 idempotency key, L2 cooldown, L3 unique index, event to M5), *)
(* its wrapper HandleWithDeadLetter (local retries, dead-letter ledger)    *)
(* and the operator's ReplayDeadLetter, all running concurrently against   *)
(* one Redis and one MySQL.                                                *)
(*                                                                         *)
(* A worker is a goroutine inside one of these calls.  Every access to     *)
(* Redis, MySQL or Kafka is a step of its own; between two of them other   *)
(* workers move, keys expire and the process may die.  A call that errs    *)
(* may have been carried out all the same, its answer lost.                *)
(***************************************************************************)
EXTENDS Naturals, Sequences, FiniteSets

CONSTANTS
  Workers,              \* consumer goroutines and operator requests
  Events,               \* device events, each with its own request_id
  Rules,                \* enabled alarm rules
  WindowRules,          \* those of type time_window
  Threshold,            \* their spec.threshold
  Matches,              \* Matches[e]: rules whose scope and conditions e meets
  Device,               \* Device[e]: the reporting device
  Kind,                 \* Kind[e]: "ok", "malformed" or "noTenant"
  HardRule,             \* hardcodedRuleID, the legacy intrusion rule
  Intrusions,           \* events MatchIntrusionRule accepts
  LegacyFallback,       \* ~ Config.Rule.DisableLegacyFallback
  NoEvent, NoRule,
  MaxRetries,           \* len(retryBackoff), 3 in the code
  FailPoints,           \* dependency calls that may return an error
  CanCrash,             \* can the process die
  MaxDeliveries,        \* deliveries of one event by Kafka (bound)
  MaxReplays,           \* operator replays (bound)
  MaxFaults             \* errors and crashes (bound)

AllFailPoints == { "rules", "window", "dedup", "cooldown", "create", "notify",
                   "release", "ledger", "clear", "mark" }

ASSUME AlarmIngestAssumption ==
  /\ WindowRules \subseteq Rules /\ HardRule \notin Rules
  /\ NoRule \notin Rules \cup {HardRule} /\ NoEvent \notin Events
  /\ Matches \in [Events -> SUBSET Rules]
  /\ Kind \in [Events -> {"ok", "malformed", "noTenant"}]
  /\ Intrusions \subseteq Events
  /\ FailPoints \subseteq AllFailPoints
  /\ {LegacyFallback, CanCrash} \subseteq BOOLEAN
  /\ {MaxRetries, MaxDeliveries, MaxReplays, MaxFaults} \subseteq Nat
  /\ Threshold \in Nat \ {0}

Devices  == { Device[e] : e \in Events }
RuleIds  == Rules \cup {HardRule}

VARIABLES
  pc, ev,               \* where each worker is, and with which event
  entry,                \* ledger entry a replaying worker works on, 0 if consuming
  attempt,              \* loop variable of HandleWithDeadLetter
  windows,              \* window rules still to be counted by the worker
  drafts, current,      \* drafts still to be stored, and the one in hand
  dedup,                \* Redis: L1 keys alarm:dedup:{request_id}
  cooling,              \* Redis: L2 keys, with the event that took each
  window,               \* Redis: members of alarm:window:{rule}:{device}
  alarms,               \* MySQL: rows of alarm, by (request_id, rule_id)
  dlq,                  \* MySQL: rows of alarm_dlq
  published,            \* created events M5 got, per alarm
  doubtful,             \* history: alarms of which a failed publication reached M5
  acked,                \* history: events whose handler call returned nil
  excuse,               \* history: what went wrong for each event
  deliveries, replays, faults

redis   == << dedup, cooling, window >>
mysql   == << alarms, dlq >>
local   == << ev, entry, attempt, windows, drafts, current >>
ghosts  == << acked, excuse, doubtful >>
bounds  == << deliveries, replays, faults >>
vars    == << pc, local, redis, mysql, published, ghosts, bounds >>

(* The three attempts of publishAlarmEvent, and what follows a failed one. *)
AfterAttempt == [ notify |-> "notifyAgain", notifyAgain |-> "notifyLast", notifyLast |-> "next" ]
Notifying    == DOMAIN AfterAttempt

Stages == { "idle", "evaluate", "admit", "next", "create", "release", "ledger", "mark" }
            \cup Notifying
Causes == { "suppressed", "createFailed", "releaseFailed", "ledgerFailed",
            "crashed", "rulesDown", "unanswered" }

TypeOK ==
  /\ pc \in [Workers -> Stages]
  /\ ev \in [Workers -> Events \cup {NoEvent}]
  /\ entry \in [Workers -> 0 .. Len(dlq)]
  /\ attempt \in [Workers -> 0 .. MaxRetries]
  /\ windows \in [Workers -> SUBSET WindowRules]
  /\ drafts \in [Workers -> SUBSET RuleIds]
  /\ current \in [Workers -> RuleIds \cup {NoRule}]
  /\ dedup \subseteq Events
  /\ cooling \in [Devices \X RuleIds -> Events \cup {NoEvent}]
  /\ window \in [WindowRules \X Devices -> SUBSET Events]
  /\ alarms \subseteq Events \X RuleIds
  /\ dlq \in Seq([event : Events, replayed : BOOLEAN])
  /\ published \in [Events \X RuleIds -> Nat]
  /\ doubtful \subseteq Events \X RuleIds
  /\ acked \subseteq Events
  /\ excuse \in [Events -> SUBSET Causes]
  /\ deliveries \in [Events -> 0 .. MaxDeliveries]
  /\ replays \in 0 .. MaxReplays
  /\ faults \in 0 .. MaxFaults

Init ==
  /\ pc = [w \in Workers |-> "idle"]
  /\ ev = [w \in Workers |-> NoEvent]
  /\ entry = [w \in Workers |-> 0]
  /\ attempt = [w \in Workers |-> 0]
  /\ windows = [w \in Workers |-> {}]
  /\ drafts = [w \in Workers |-> {}]
  /\ current = [w \in Workers |-> NoRule]
  /\ dedup = {}
  /\ cooling = [k \in Devices \X RuleIds |-> NoEvent]
  /\ window = [k \in WindowRules \X Devices |-> {}]
  /\ alarms = {}
  /\ dlq = << >>
  /\ published = [a \in Events \X RuleIds |-> 0]
  /\ doubtful = {}
  /\ acked = {}
  /\ excuse = [e \in Events |-> {}]
  /\ deliveries = [e \in Events |-> 0]
  /\ replays = 0
  /\ faults = 0

------------------------------------------------------------------------------
(* Helpers for the steps below: moving on, erring, and returning. *)

At(w, stage) == pc[w] = stage
Goto(w, stage) == pc' = [pc EXCEPT ![w] = stage]

(* The call at this point returns an error. *)
Fault(point) == /\ point \in FailPoints
                /\ faults < MaxFaults
                /\ faults' = faults + 1
                /\ UNCHANGED << deliveries, replays >>

Blame(w, cause) == excuse' = [excuse EXCEPT ![ev[w]] = @ \cup {cause}]

CoolKey(w, r) == << Device[ev[w]], r >>

(* HandleDeviceEvent returned nil: the offset is committed, or the replay  *)
(* goes on to MarkReplayed.                                                *)
Succeed(w) ==
  IF entry[w] = 0
    THEN /\ acked' = acked \cup {ev[w]}
         /\ Goto(w, "idle")
    ELSE Goto(w, "mark") /\ UNCHANGED acked

(* Mutant: the attempt limit is compared with <= instead of <. *)
FailLate(w) ==
  IF entry[w] # 0
    THEN Goto(w, "idle") /\ UNCHANGED attempt
    ELSE IF attempt[w] <= MaxRetries
           THEN /\ attempt' = [attempt EXCEPT ![w] = @ + 1]
                /\ Goto(w, "evaluate")
           ELSE Goto(w, "ledger") /\ UNCHANGED attempt

(* It returned a retryable error: a replay reports it to the operator, a   *)
(* consumer backs off and tries again, then gives the message to the       *)
(* ledger.                                                                 *)
Fail(w) ==
  IF entry[w] # 0
    THEN Goto(w, "idle") /\ UNCHANGED attempt
    ELSE IF attempt[w] < MaxRetries
           THEN /\ attempt' = [attempt EXCEPT ![w] = @ + 1]
                /\ Goto(w, "evaluate")
           ELSE Goto(w, "ledger") /\ UNCHANGED attempt

------------------------------------------------------------------------------
(* Kafka hands a message to a consumer goroutine - for the first time, or  *)
(* again after a crash, a rebalance or a duplicate publish.                *)
Deliver(w, e) ==
  /\ At(w, "idle")
  /\ deliveries[e] < MaxDeliveries
  /\ deliveries' = [deliveries EXCEPT ![e] = @ + 1]
  /\ ev' = [ev EXCEPT ![w] = e]
  /\ entry' = [entry EXCEPT ![w] = 0]
  /\ attempt' = [attempt EXCEPT ![w] = 0]
  /\ Goto(w, IF Kind[e] = "malformed" THEN "ledger" ELSE "evaluate")
  /\ UNCHANGED << windows, drafts, current, redis, mysql, published, ghosts, replays, faults >>

(* Can an operator of any tenant look this entry up (FindByID, List)? The  *)
(* ledger row of an event without a tenant carries tenant_id 0, and both   *)
(* the logic layer and the query exclude it.                               *)
Reachable(d) == Kind[d.event] = "ok"

(* ReplayDeadLetter: delete the L1 key, then run the pipeline once more.   *)
(* An entry already replayed is not refused.                               *)
Replay(w, k) ==
  /\ At(w, "idle")
  /\ Reachable(dlq[k])
  /\ replays < MaxReplays
  /\ replays' = replays + 1
  /\ LET e == dlq[k].event IN
       /\ ev' = [ev EXCEPT ![w] = e]
       /\ \/ dedup' = dedup \ {e} /\ UNCHANGED faults
          \/ /\ "clear" \in FailPoints /\ faults < MaxFaults
             /\ faults' = faults + 1
             /\ UNCHANGED dedup
  /\ entry' = [entry EXCEPT ![w] = k]
  /\ Goto(w, "evaluate")
  /\ UNCHANGED << attempt, windows, drafts, current, cooling, window, mysql,
                  published, ghosts, deliveries >>

(* evaluateRules with the engine's snapshot at hand: threshold and         *)
(* combination rules are decided at once, window rules need Redis.         *)
EvaluateRules(w) ==
  /\ At(w, "evaluate")
  /\ drafts' = [drafts EXCEPT ![w] = Matches[ev[w]] \ WindowRules]
  /\ windows' = [windows EXCEPT ![w] = Matches[ev[w]] \cap WindowRules]
  /\ Goto(w, "admit")
  /\ UNCHANGED << ev, entry, attempt, current, redis, mysql, published, ghosts, bounds >>

(* The rule store cannot be read: HasRules answers false, so the event is  *)
(* judged by the legacy intrusion rule, or by none.                        *)
RulesUnavailable(w) ==
  /\ At(w, "evaluate")
  /\ Fault("rules")
  /\ drafts' = [drafts EXCEPT ![w] =
       IF LegacyFallback /\ ev[w] \in Intrusions THEN {HardRule} ELSE {}]
  /\ windows' = [windows EXCEPT ![w] = {}]
  /\ Blame(w, "rulesDown")
  /\ Goto(w, "admit")
  /\ UNCHANGED << ev, entry, attempt, current, redis, mysql, published, doubtful, acked >>

(* HasRules still had a snapshot that expired before Evaluate read it. *)
EvaluateFails(w) ==
  /\ At(w, "evaluate")
  /\ Fault("rules")
  /\ Fail(w)
  /\ UNCHANGED << ev, entry, windows, drafts, current, redis, mysql, published, ghosts >>

(* windowLua: drop what has left the window, add the request, count; a     *)
(* full window is emptied and yields a draft.                              *)
Full(w, kept) == Cardinality(kept \cup {ev[w]}) >= Threshold
AfterCount(w, kept) == IF Full(w, kept) THEN {} ELSE kept \cup {ev[w]}

CountWindow(w, r) ==
  /\ At(w, "admit")
  /\ r \in windows[w]
  /\ windows' = [windows EXCEPT ![w] = @ \ {r}]
  /\ \E kept \in SUBSET window[<< r, Device[ev[w]] >>] :
       /\ window' = [window EXCEPT ![<< r, Device[ev[w]] >>] = AfterCount(w, kept)]
       /\ IF Full(w, kept)
            THEN drafts' = [drafts EXCEPT ![w] = @ \cup {r}]
            ELSE UNCHANGED drafts
  /\ UNCHANGED << pc, ev, entry, attempt, current, dedup, cooling, mysql,
                  published, ghosts, bounds >>

(* Whether or not the script ran, its count is lost. *)
CountFails(w) ==
  /\ At(w, "admit")
  /\ windows[w] # {}
  /\ Fault("window")
  /\ \/ UNCHANGED window
     \/ \E r \in windows[w] : \E kept \in SUBSET window[<< r, Device[ev[w]] >>] :
          window' = [window EXCEPT ![<< r, Device[ev[w]] >>] = AfterCount(w, kept)]
  /\ Fail(w)
  /\ UNCHANGED << ev, entry, windows, drafts, current, dedup, cooling, mysql, published, ghosts >>

------------------------------------------------------------------------------
Evaluated(w) == At(w, "admit") /\ windows[w] = {}

(* No rule matched: dropped by design. *)
Unmatched(w) ==
  /\ Evaluated(w)
  /\ drafts[w] = {}
  /\ Succeed(w)
  /\ UNCHANGED << local, redis, mysql, published, doubtful, excuse, bounds >>

(* Mutant: a matching event without a tenant goes on to L1. *)
AdmitTenant(w) ==
  /\ Evaluated(w)
  /\ drafts[w] # {}
  /\ Kind[ev[w]] = "noTenant"
  /\ dedup' = dedup \cup {ev[w]}
  /\ Goto(w, "next")
  /\ UNCHANGED << local, cooling, window, mysql, published, ghosts, bounds >>

(* A matching event without a tenant is treated as malformed. *)
RejectTenant(w) ==
  /\ Evaluated(w)
  /\ drafts[w] # {}
  /\ Kind[ev[w]] = "noTenant"
  /\ Goto(w, "ledger")
  /\ UNCHANGED << local, redis, mysql, published, ghosts, bounds >>

Admissible(w) == Evaluated(w) /\ drafts[w] # {} /\ Kind[ev[w]] = "ok"

(* L1: Dedup.Seen is a SETNX, so checking and claiming are one step. *)
SeenBefore(w) ==
  /\ Admissible(w)
  /\ ev[w] \in dedup
  /\ Succeed(w)
  /\ UNCHANGED << local, redis, mysql, published, doubtful, excuse, bounds >>

Claim(w) ==
  /\ Admissible(w)
  /\ ev[w] \notin dedup
  /\ dedup' = dedup \cup {ev[w]}
  /\ Goto(w, "next")
  /\ UNCHANGED << local, cooling, window, mysql, published, ghosts, bounds >>

DedupFails(w) ==
  /\ Admissible(w)
  /\ Fault("dedup")
  /\ Fail(w)
  /\ UNCHANGED << ev, entry, windows, drafts, current, redis, mysql, published, ghosts >>

(* The key is set, the answer lost: go-redis repeats the SETNX and finds   *)
(* the worker's own key, or gives up with an error.                        *)
DedupUnanswered(w) ==
  /\ Admissible(w)
  /\ ev[w] \notin dedup
  /\ Fault("dedup")
  /\ dedup' = dedup \cup {ev[w]}
  /\ Blame(w, "unanswered")
  /\ \/ Succeed(w) /\ UNCHANGED attempt
     \/ Fail(w) /\ UNCHANGED acked
  /\ UNCHANGED << ev, entry, windows, drafts, current, cooling, window, mysql,
                  published, doubtful >>

------------------------------------------------------------------------------
(* L2: Cooldown.TryAcquire for the next draft, a SETNX again. *)
Acquire(w, r) ==
  /\ At(w, "next")
  /\ r \in drafts[w]
  /\ cooling[CoolKey(w, r)] = NoEvent
  /\ cooling' = [cooling EXCEPT ![CoolKey(w, r)] = ev[w]]
  /\ drafts' = [drafts EXCEPT ![w] = @ \ {r}]
  /\ current' = [current EXCEPT ![w] = r]
  /\ Goto(w, "create")
  /\ UNCHANGED << ev, entry, attempt, windows, dedup, window, mysql, published, ghosts, bounds >>

Suppress(w, r) ==
  /\ At(w, "next")
  /\ r \in drafts[w]
  /\ cooling[CoolKey(w, r)] # NoEvent
  /\ drafts' = [drafts EXCEPT ![w] = @ \ {r}]
  /\ IF cooling[CoolKey(w, r)] # ev[w] THEN Blame(w, "suppressed") ELSE UNCHANGED excuse
  /\ UNCHANGED << pc, ev, entry, attempt, windows, current, redis, mysql, published,
                  doubtful, acked, bounds >>

(* Mutant: the error path that forgets releaseDedupKey. *)
CooldownFailsKeepingKey(w) ==
  /\ At(w, "next")
  /\ drafts[w] # {}
  /\ Fault("cooldown")
  /\ Fail(w)
  /\ UNCHANGED << ev, entry, windows, drafts, current, redis, mysql, published, ghosts >>

CooldownFails(w) ==
  /\ At(w, "next")
  /\ drafts[w] # {}
  /\ Fault("cooldown")
  /\ Goto(w, "release")
  /\ UNCHANGED << local, redis, mysql, published, ghosts >>

(* The L2 key is set, the answer lost: the repeated SETNX says the rule is *)
(* cooling down, or the call errs and leaves the key.                      *)
CooldownUnanswered(w, r) ==
  /\ At(w, "next")
  /\ r \in drafts[w]
  /\ cooling[CoolKey(w, r)] = NoEvent
  /\ Fault("cooldown")
  /\ cooling' = [cooling EXCEPT ![CoolKey(w, r)] = ev[w]]
  /\ Blame(w, "unanswered")
  /\ \/ drafts' = [drafts EXCEPT ![w] = @ \ {r}] /\ UNCHANGED pc
     \/ Goto(w, "release") /\ UNCHANGED drafts
  /\ UNCHANGED << ev, entry, attempt, windows, current, dedup, window, mysql,
                  published, doubtful, acked >>

AllStored(w) ==
  /\ At(w, "next")
  /\ drafts[w] = {}
  /\ Succeed(w)
  /\ UNCHANGED << local, redis, mysql, published, doubtful, excuse, bounds >>

(* L3: alarmModel.Create, one transaction over the alarm and its log row.  *)
Create(w) ==
  /\ At(w, "create")
  /\ << ev[w], current[w] >> \notin alarms
  /\ alarms' = alarms \cup {<< ev[w], current[w] >>}
  /\ Goto(w, "notify")
  /\ UNCHANGED << local, redis, dlq, published, ghosts, bounds >>

(* Mutant: a duplicate row is announced like a new one. *)
CreateDuplicateNotifies(w) ==
  /\ At(w, "create")
  /\ << ev[w], current[w] >> \in alarms
  /\ Goto(w, "notify")
  /\ UNCHANGED << local, redis, mysql, published, ghosts, bounds >>

(* RowsAffected is 0: the unique index says the alarm exists. *)
CreateDuplicate(w) ==
  /\ At(w, "create")
  /\ << ev[w], current[w] >> \in alarms
  /\ Goto(w, "next")
  /\ UNCHANGED << local, redis, mysql, published, ghosts, bounds >>

CreateFails(w) ==
  /\ At(w, "create")
  /\ Fault("create")
  /\ Blame(w, "createFailed")
  /\ Goto(w, "release")
  /\ UNCHANGED << local, redis, mysql, published, doubtful, acked >>

(* The transaction commits, the answer is lost: an error like the other    *)
(* for the code, but the row is there.                                     *)
CreateUnanswered(w) ==
  /\ At(w, "create")
  /\ Fault("create")
  /\ alarms' = alarms \cup {<< ev[w], current[w] >>}
  /\ Goto(w, "release")
  /\ UNCHANGED << local, redis, dlq, published, ghosts >>

(* notifyAlarmCreated; the error of the last attempt is only logged. *)
Notify(w) ==
  /\ pc[w] \in Notifying
  /\ published' = [published EXCEPT ![<< ev[w], current[w] >>] = @ + 1]
  /\ Goto(w, "next")
  /\ UNCHANGED << local, redis, mysql, ghosts, bounds >>

(* An attempt without an acknowledgement in its 1.5 s: the event may be    *)
(* with the broker all the same, and is published again after a backoff.   *)
(* A repeat by the Writer within an attempt does the same to M5.           *)
NotifyFails(w) ==
  /\ pc[w] \in Notifying
  /\ Fault("notify")
  /\ \/ UNCHANGED << published, doubtful >>
     \/ /\ published' = [published EXCEPT ![<< ev[w], current[w] >>] = @ + 1]
        /\ doubtful' = doubtful \cup {<< ev[w], current[w] >>}
  /\ Goto(w, AfterAttempt[pc[w]])
  /\ UNCHANGED << local, redis, mysql, acked, excuse >>

(* releaseDedupKey, whose own failure is only logged. *)
Release(w) ==
  /\ At(w, "release")
  /\ dedup' = dedup \ {ev[w]}
  /\ Fail(w)
  /\ UNCHANGED << ev, entry, windows, drafts, current, cooling, window, mysql,
                  published, ghosts, bounds >>

ReleaseFails(w) ==
  /\ At(w, "release")
  /\ Fault("release")
  /\ Blame(w, "releaseFailed")
  /\ Fail(w)
  /\ UNCHANGED << ev, entry, windows, drafts, current, redis, mysql, published, doubtful, acked >>

------------------------------------------------------------------------------
(* recordDeadLetter: once in the ledger the message counts as handled. *)
RecordDeadLetter(w) ==
  /\ At(w, "ledger")
  /\ dlq' = Append(dlq, [event |-> ev[w], replayed |-> FALSE])
  /\ Succeed(w)
  /\ UNCHANGED << local, redis, alarms, published, doubtful, excuse, bounds >>

(* The ledger write fails: the error goes up to Consume, nothing is acked, *)
(* and the message comes again even if the row is there.                   *)
RecordFails(w) ==
  /\ At(w, "ledger")
  /\ Fault("ledger")
  /\ \/ UNCHANGED dlq
     \/ dlq' = Append(dlq, [event |-> ev[w], replayed |-> FALSE])
  /\ Blame(w, "ledgerFailed")
  /\ Goto(w, "idle")
  /\ UNCHANGED << local, redis, alarms, published, doubtful, acked >>

MarkReplayed(w) ==
  /\ At(w, "mark")
  /\ dlq' = [dlq EXCEPT ![entry[w]].replayed = TRUE]
  /\ Goto(w, "idle")
  /\ UNCHANGED << local, redis, alarms, published, ghosts, bounds >>

MarkFails(w) ==
  /\ At(w, "mark")
  /\ Fault("mark")
  /\ Goto(w, "idle")
  /\ UNCHANGED << local, redis, mysql, published, ghosts >>

(* The process dies, or the context ends in a backoff: the call is gone,   *)
(* with whatever it left in Redis and MySQL.                               *)
Crash(w) ==
  /\ CanCrash
  /\ ~ At(w, "idle")
  /\ faults < MaxFaults
  /\ faults' = faults + 1
  /\ Blame(w, "crashed")
  /\ Goto(w, "idle")
  /\ UNCHANGED << local, redis, mysql, published, doubtful, acked, deliveries, replays >>

(* The 24h TTL of an L1 key and the 60s TTL of an L2 key. *)
DedupExpires(e) ==
  /\ e \in dedup
  /\ dedup' = dedup \ {e}
  /\ UNCHANGED << pc, local, cooling, window, mysql, published, ghosts, bounds >>

CooldownExpires(k) ==
  /\ cooling[k] # NoEvent
  /\ cooling' = [cooling EXCEPT ![k] = NoEvent]
  /\ UNCHANGED << pc, local, dedup, window, mysql, published, ghosts, bounds >>

------------------------------------------------------------------------------
HandleDeviceEvent(w) ==
  \/ EvaluateRules(w) \/ RulesUnavailable(w) \/ EvaluateFails(w)
  \/ \E r \in WindowRules : CountWindow(w, r)
  \/ CountFails(w)
  \/ Unmatched(w) \/ RejectTenant(w)
  \/ SeenBefore(w) \/ Claim(w) \/ DedupFails(w) \/ DedupUnanswered(w)
  \/ \E r \in RuleIds : Acquire(w, r) \/ Suppress(w, r) \/ CooldownUnanswered(w, r)
  \/ CooldownFails(w) \/ AllStored(w)
  \/ Create(w) \/ CreateDuplicate(w) \/ CreateFails(w) \/ CreateUnanswered(w)
  \/ Notify(w) \/ NotifyFails(w)
  \/ Release(w) \/ ReleaseFails(w)

(* What a call in progress does next. *)
Step(w) == \/ HandleDeviceEvent(w)
           \/ RecordDeadLetter(w) \/ RecordFails(w)
           \/ MarkReplayed(w) \/ MarkFails(w)

Next == \/ \E w \in Workers : \/ Step(w) \/ Crash(w)
                              \/ \E e \in Events : Deliver(w, e)
                              \/ \E k \in DOMAIN dlq : Replay(w, k)
        \/ \E e \in Events : DedupExpires(e)
        \/ \E k \in Devices \X RuleIds : CooldownExpires(k)

(* Only calls in progress must go on; deliveries, replays, expiry, faults  *)
(* and crashes are the environment's.                                      *)
Fairness == \A w \in Workers : WF_vars(Step(w))

Spec == Init /\ [][Next]_vars /\ Fairness

------------------------------------------------------------------------------
Ledgered(e) == \E k \in DOMAIN dlq : dlq[k].event = e

InFlight(e) == \E w \in Workers : ev[w] = e /\ ~ At(w, "idle")

(* M5 hears of an alarm only once it is in the alarm table, and twice only *)
(* after a publication that reached it but was taken for failed, whatever  *)
(* redeliveries, replays, key expiries and rows stored without an answer   *)
(* do (notifyAlarmCreated after alarmModel.Create, publishAlarmEvent).     *)
AnnouncedOnce ==
  \A a \in Events \X RuleIds :
    /\ published[a] > 0 => a \in alarms
    /\ published[a] > 1 => a \in doubtful

(* Where acknowledged messages may get lost, exhaustively: unless one of   *)
(* Causes happened to it, an acknowledged event with a matching stateless  *)
(* rule is stored, in the ledger, or still being worked on                 *)
(* (HandleWithDeadLetter, releaseDedupKey).                                *)
AckedAccounted ==
  \A e \in acked : \A r \in Matches[e] \ WindowRules :
    \/ << e, r >> \in alarms
    \/ Ledgered(e)
    \/ InFlight(e)
    \/ excuse[e] # {}

(* An unparseable message is acknowledged only through the ledger, and one *)
(* without a tenant never becomes an alarm (RejectMissingTenant).          *)
BadMessagesLedgered ==
  /\ \A e \in acked : Kind[e] = "malformed" => Ledgered(e)
  /\ \A a \in alarms : Kind[a[1]] = "ok"

(* consumer.go:264 "as long as the alarm has not really been stored the    *)
(* key must be released": a failed create leads to a retry that stores the *)
(* alarm or to the ledger, never to an acknowledgement with neither.       *)
FailedCreateIsRetried ==
  \A e \in acked : "createFailed" \in excuse[e] =>
    \/ \A r \in Matches[e] \ WindowRules : << e, r >> \in alarms
    \/ Ledgered(e)
    \/ InFlight(e)

==============================================================================
