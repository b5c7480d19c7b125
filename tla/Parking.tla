-------------------------------- MODULE Parking --------------------------------
(***************************************************************************)
(* parking-service: parking records driven by the entry and exit telemetry *)
(* of the gates (internal/svc/consumer.go) and by the HTTP endpoints       *)
(* (parkingentrylogic.go, parkingexitlogic.go).                            *)
(*                                                                         *)
(* A step is one statement against Redis, MySQL or Kafka.  The gates of an *)
(* entry and of an exit are different devices, so their messages are in    *)
(* different partitions and arrive in any order.  Delivery is that of      *)
(* module KafkaConsumer: a message is delivered until it is committed, but *)
(* one whose handler failed may instead be passed over.  Messages are      *)
(* those that normalizeTelemetry and handleTelemetry let through.          *)
(* A statement may be carried out although the service is told it failed:  *)
(* such a fault is unanswered.                                             *)
(* Abstracted: fee, duration, vehicle type, tenant (part of a plate).      *)
(***************************************************************************)
EXTENDS Naturals, FiniteSets

CONSTANTS
  EntryMsgs, ExitMsgs,      \* telemetry messages, by their IdempotentID
  HttpEntries, HttpExits,   \* HTTP requests
  Workers,                  \* consumers, of all instances
  PlateOf,                  \* the plate each of them is about
  NoOne,                    \* no message, record or request
  FaultKinds,               \* kinds of faults that happen (bound)
  MaxFaults                 \* number of faults (bound)

Messages == EntryMsgs \cup ExitMsgs
Stays    == EntryMsgs \cup HttpEntries      \* a record is named by what created it
Exits    == ExitMsgs \cup HttpExits
Procs    == Workers \cup HttpExits
AllKinds == {"redis", "insert", "find", "settle", "release", "publish",
             "claimUnanswered", "insertUnanswered", "settleUnanswered",
             "publishUnanswered", "commit", "crash", "rebalance", "expire"}

\* Faults after which an exit may be carried out again: its key, which alone protects
\* it from redelivery (the unique request_id is the entry's), has expired, or was
\* given back because of an UPDATE that was carried out after all.
Reopening == {"expire", "settleUnanswered"}

\* Faults that can lose a message for good: it is claimed but not handled and
\* the claim stays, or another worker commits it on the strength of the claim.
Losing == {"claimUnanswered", "crash", "find", "release", "rebalance"}

\* The faults that the properties tell apart.
Telling == Reopening \cup Losing \cup {"publishUnanswered"}

ASSUME ParkingAssumption ==
  /\ EntryMsgs \cap ExitMsgs = {} /\ HttpEntries \cap HttpExits = {}
  /\ Messages \cap (HttpEntries \cup HttpExits) = {}
  /\ Workers \cap (Messages \cup HttpEntries \cup HttpExits) = {}
  /\ NoOne \notin Messages \cup HttpEntries \cup HttpExits
  /\ DOMAIN PlateOf = Stays \cup Exits
  /\ FaultKinds \subseteq AllKinds
  /\ MaxFaults \in Nat

Stages == {"idle", "claim", "insert", "find", "settle", "announce", "release",
           "commit", "over"}

VARIABLES
  status,           \* parking_record.status: none (no row), parking or done
  id,               \* its auto-increment id, 0 for no row
  nextId,
  keys,             \* messages whose L1 key exists in Redis
  committed,        \* messages whose offset is committed
  failed,           \* messages some handler call returned an error for
  pc, job,          \* where each process is, and the message or request it handles
  found,            \* the record an exit has looked up
  entered, left,    \* events published on parking-entry and parking-exit, per record
  settledBy,        \* history: the exit that closed a record
  moot,             \* history: exits that found nothing to close
  passed,           \* history: messages passed over after a failure
  faults, happened  \* number of faults, and the kinds of those in Telling

parkingVars == << status, id, nextId, keys, committed, failed, pc, job, found, entered,
           left, settledBy, moot, passed, faults, happened >>

records  == << status, id, nextId >>
events   == << entered, left >>
history  == << settledBy, moot, passed >>
offsets  == << committed, failed >>
failures == << faults, happened >>

ParkingTypeOK ==
  /\ status \in [Stays -> {"none", "parking", "done"}]
  /\ id \in [Stays -> Nat]
  /\ nextId \in Nat
  /\ keys \subseteq Messages
  /\ committed \subseteq Messages
  /\ passed \subseteq failed \cap committed /\ failed \subseteq Messages
  /\ pc \in [Procs -> Stages]
  /\ \A w \in Workers : pc[w] # "over"
  /\ \A h \in HttpExits : pc[h] \notin {"claim", "insert", "release", "commit"}
  /\ job \in [Procs -> Messages \cup HttpExits \cup {NoOne}]
  /\ found \in [Procs -> Stays \cup {NoOne}]
  /\ entered \in [Stays -> Nat]
  /\ left \in [Stays -> Nat]
  /\ settledBy \in [Stays -> Exits \cup {NoOne}]
  /\ moot \subseteq Exits
  /\ faults \in 0 .. MaxFaults
  /\ happened \subseteq FaultKinds

ParkingInit ==
  /\ status = [s \in Stays |-> "none"]
  /\ id = [s \in Stays |-> 0]
  /\ nextId = 1
  /\ keys = {} /\ committed = {} /\ failed = {} /\ passed = {}
  /\ pc = [p \in Procs |-> "idle"]
  /\ job = [p \in Procs |-> NoOne]
  /\ found = [p \in Procs |-> NoOne]
  /\ entered = [s \in Stays |-> 0]
  /\ left = [s \in Stays |-> 0]
  /\ settledBy = [s \in Stays |-> NoOne]
  /\ moot = {}
  /\ faults = 0 /\ happened = {}

Goto(p, stage) == pc' = [pc EXCEPT ![p] = stage]

Fault(kind) ==
  /\ kind \in FaultKinds /\ faults < MaxFaults
  /\ faults' = faults + 1
  /\ happened' = happened \cup ({kind} \cap Telling)

\* The handler, or the request, is over; its local variables are gone.
Done(p) ==
  /\ Goto(p, IF p \in HttpExits THEN "over" ELSE "idle")
  /\ job' = [job EXCEPT ![p] = NoOne]
  /\ found' = [found EXCEPT ![p] = NoOne]

\* ... with an error, which Consume gets to see if p is a consumer.
Fails(p) ==
  /\ failed' = IF p \in Workers THEN failed \cup {job[p]} ELSE failed
  /\ Done(p)

\* Mutant: a request goes on as a handler does.
FinishAsHandler(p) == "commit"

\* Where a handler goes that returns nil, and a request that is answered.
Finish(p) == IF p \in HttpExits THEN "over" ELSE "commit"

Busy(m) == \E w \in Workers : job[w] = m

(***************************************************************************)
(* The consumer.  A rebalance lets a second worker start on a message the  *)
(* first one is still at.                                                  *)
(***************************************************************************)
FetchMessage(w, m) ==
  /\ pc[w] = "idle" /\ m \notin committed
  /\ IF Busy(m) THEN Fault("rebalance") ELSE UNCHANGED failures
  /\ job' = [job EXCEPT ![w] = m]
  /\ Goto(w, "claim")
  /\ UNCHANGED << records, keys, offsets, found, events, history >>

\* Mutant: without Redis, Dedup is nil and nothing was ever seen.
NeverSeen(m) == FALSE

\* The key of message m exists.
Seen(m) == m \in keys

\* seen(): SETNX on the idempotence key; an error is returned to Consume.  An
\* unanswered SETNX leaves the key, which go-redis, that repeats the command, may
\* find itself.
Claim(w) ==
  LET m == job[w] IN
  /\ pc[w] = "claim"
  /\ \/ /\ Seen(m)
        /\ Goto(w, "commit")
        /\ UNCHANGED << keys, failed, job, found, failures >>
     \/ /\ ~Seen(m)
        /\ keys' = keys \cup {m}
        /\ Goto(w, IF m \in EntryMsgs THEN "insert" ELSE "find")
        /\ UNCHANGED << failed, job, found, failures >>
     \/ Fault("redis") /\ Fails(w) /\ UNCHANGED keys
     \/ /\ Fault("claimUnanswered")
        /\ keys' = keys \cup {m}
        /\ \/ Fails(w)
           \/ Goto(w, "commit") /\ UNCHANGED << failed, job, found >>
  /\ UNCHANGED << records, committed, events, history >>

\* Where the entry goes after INSERT ... ON CONFLICT DO NOTHING.
AfterInsert(s) == IF status[s] = "none" THEN "announce" ELSE "commit"

NewRow(s) ==
  IF status[s] # "none" THEN UNCHANGED records
  ELSE /\ status' = [status EXCEPT ![s] = "parking"]
       /\ id' = [id EXCEPT ![s] = nextId]
       /\ nextId' = nextId + 1

InsertEntry(w) ==
  LET m == job[w] IN
  /\ pc[w] = "insert"
  /\ \/ NewRow(m) /\ Goto(w, AfterInsert(m)) /\ UNCHANGED failures
     \/ Fault("insert") /\ Goto(w, "release") /\ UNCHANGED records
     \/ Fault("insertUnanswered") /\ NewRow(m) /\ Goto(w, "release")
  /\ UNCHANGED << keys, offsets, job, found, events, history >>

\* An event whose publication was unanswered may be on its topic, and the Writer of
\* kafka-go, which tries again, writes it once more (bound: two copies).
Copies == 2

\* ParkingEntry: the record has no request_id, and is new in any case.
HttpEntry(h) ==
  /\ status[h] = "none"
  /\ NewRow(h)
  /\ \/ entered' \in {entered, [entered EXCEPT ![h] = @ + 1]} /\ UNCHANGED failures
     \/ Fault("publishUnanswered") /\ entered' = [entered EXCEPT ![h] = @ + Copies]
  /\ UNCHANGED << keys, offsets, pc, job, found, left, history >>

(***************************************************************************)
(* An exit, by telemetry or by ParkingExit: look up the newest record of   *)
(* the plate that is parking, close it on condition that it still is.      *)
(***************************************************************************)
HttpExit(h) ==
  /\ pc[h] = "idle"
  /\ job' = [job EXCEPT ![h] = h]
  /\ Goto(h, "find")
  /\ UNCHANGED << records, keys, offsets, found, events, history, failures >>

Parking(plate) == { s \in Stays : status[s] = "parking" /\ PlateOf[s] = plate }

Newest(plate) ==
  { s \in Parking(plate) : \A u \in Parking(plate) : id[u] <= id[s] }

\* The lookup fails: nothing is released.
LookupFails(p) == Fault("find") /\ Fails(p) /\ UNCHANGED moot

Find(p) ==
  LET plate == PlateOf[job[p]] IN
  /\ pc[p] = "find"
  /\ \/ /\ \E s \in Newest(plate) : found' = [found EXCEPT ![p] = s]
        /\ Goto(p, "settle")
        /\ UNCHANGED << job, moot, failed, failures >>
     \/ /\ Parking(plate) = {}
        /\ moot' = moot \cup {job[p]}
        /\ Goto(p, Finish(p))
        /\ UNCHANGED << job, found, failed, failures >>
     \/ LookupFails(p)
  /\ UNCHANGED << records, keys, committed, events, settledBy, passed >>

\* ... AND status = ParkingStatusParking
StillParking(p) == status[found[p]] = "parking"

Close(p) ==
  /\ StillParking(p)
  /\ status' = [status EXCEPT ![found[p]] = "done"]
  /\ settledBy' = [settledBy EXCEPT ![found[p]] = job[p]]

\* The UPDATE is answered by an error, after which a handler gives its key back.
SettleFails(p) ==
  /\ \/ Fault("settle") /\ UNCHANGED << status, settledBy >>
     \/ Fault("settleUnanswered") /\ Close(p)
  /\ IF p \in Workers THEN Goto(p, "release") /\ UNCHANGED << job, found >> ELSE Done(p)
  /\ UNCHANGED moot

Settle(p) ==
  /\ pc[p] = "settle"
  /\ \/ /\ Close(p)
        /\ Goto(p, "announce")
        /\ UNCHANGED << job, found, moot, failures >>
     \/ /\ ~StillParking(p)
        /\ moot' = moot \cup {job[p]}
        /\ Goto(p, Finish(p))
        /\ UNCHANGED << status, job, found, settledBy, failures >>
     \/ SettleFails(p)
  /\ UNCHANGED << id, nextId, keys, offsets, events, passed >>

\* Mutant: the key of a failed statement stays.
KeyKept(w) == UNCHANGED << keys, failures >>

\* Dedup.Release, whose own error is ignored.
Release(w) ==
  \/ keys' = keys \ {job[w]} /\ UNCHANGED failures
  \/ Fault("release") /\ UNCHANGED keys

\* ... before the handler returns the error of the statement.
ReleaseKey(w) ==
  /\ pc[w] = "release"
  /\ Release(w)
  /\ Fails(w)
  /\ UNCHANGED << records, committed, events, history >>

\* The event of p's entry or exit is on its topic, n times.
Tell(p, n) ==
  LET m == job[p] IN
  IF m \in EntryMsgs
  THEN entered' = [entered EXCEPT ![m] = @ + n] /\ UNCHANGED left
  ELSE left' = [left EXCEPT ![found[p]] = @ + n] /\ UNCHANGED entered

\* publish(): a failure is only logged.
Announce(p) ==
  /\ pc[p] = "announce"
  /\ \/ Tell(p, 1) /\ UNCHANGED failures
     \/ Fault("publish") /\ UNCHANGED events
     \/ Fault("publishUnanswered") /\ Tell(p, Copies)
  /\ Goto(p, Finish(p))
  /\ UNCHANGED << records, keys, offsets, job, found, history >>

\* The handler has returned nil; the offset is committed, or not.
CommitOffset(w) ==
  /\ pc[w] = "commit"
  /\ \/ committed' = committed \cup {job[w]} /\ UNCHANGED failures
     \/ Fault("commit") /\ UNCHANGED committed
  /\ Done(w)
  /\ UNCHANGED << records, keys, failed, events, history >>

\* Consume goes on after an error: the commit of a successor, or the last
\* attempt, puts the message behind the group's offset.
PassOver(m) ==
  /\ m \in failed \ committed
  /\ committed' = committed \cup {m}
  /\ passed' = passed \cup {m}
  /\ UNCHANGED << records, keys, failed, pc, job, found, events, settledBy, moot, failures >>

\* A process dies.  What is not committed will be delivered again.
WorkerDies(w) ==
  /\ pc[w] # "idle"
  /\ Fault("crash")
  /\ Done(w)
  /\ UNCHANGED << records, keys, offsets, events, history >>

\* A key is gone: its TTL (24 h) is over, or Redis lost it.
KeyExpires(m) ==
  /\ m \in keys
  /\ Fault("expire")
  /\ keys' = keys \ {m}
  /\ UNCHANGED << records, offsets, pc, job, found, events, history >>
------------------------------------------------------------------------------

ExitStep(p)    == Find(p) \/ Settle(p) \/ Announce(p)
HandlerStep(w) == Claim(w) \/ InsertEntry(w) \/ ExitStep(w) \/ ReleaseKey(w) \/ CommitOffset(w)

ParkingNext ==
  \/ \E w \in Workers : HandlerStep(w) \/ WorkerDies(w)
  \/ \E m \in Messages : PassOver(m) \/ KeyExpires(m) \/ \E w \in Workers : FetchMessage(w, m)
  \/ \E h \in HttpEntries : HttpEntry(h)
  \/ \E h \in HttpExits : HttpExit(h) \/ ExitStep(h)

ParkingSpec == ParkingInit /\ [][ParkingNext]_parkingVars

\* A consumer that is up works, and StartConsumers rebuilds it after an error,
\* so every message is fetched, also after a commit that failed.  That one
\* whose handler failed is fetched again is not assumed.
Fairness == /\ \A w \in Workers : WF_parkingVars(HandlerStep(w))
            /\ \A m \in Messages :
                 SF_parkingVars(\E w \in Workers : FetchMessage(w, m) /\ ~Busy(m) /\ m \notin failed)

ParkingFairSpec == ParkingSpec /\ Fairness
------------------------------------------------------------------------------

(***************************************************************************)
(* Subscribers of parking-entry and parking-exit (dashboard, security) see *)
(* a stay begin and end only when the record says so, and once unless a    *)
(* publication was unanswered, whatever is redelivered, lost or done by    *)
(* two gates at once; and an exit closes stays of its own plate only - one *)
(* unless one of the two faults of Reopening struck.                       *)
(***************************************************************************)
EventsMatchRecords ==
  \A s \in Stays :
    /\ entered[s] > 0 => status[s] # "none"
    /\ left[s] > 0 => status[s] = "done"
    /\ "publishUnanswered" \notin happened => entered[s] <= 1 /\ left[s] <= 1
    /\ settledBy[s] # NoOne =>
         /\ PlateOf[settledBy[s]] = PlateOf[s]
         /\ happened \cap Reopening = {} =>
              \A u \in Stays : settledBy[u] = settledBy[s] => u = s

Handled(m) ==
  IF m \in EntryMsgs THEN status[m] # "none"
  ELSE m \in moot \/ \E s \in Stays : settledBy[s] = m

(***************************************************************************)
(* "key 存在 == 该动作确实成功执行过" (common/dedup/dedup.go:30): a key    *)
(* that is held speaks of a message that was carried out, or is being.     *)
(***************************************************************************)
KeyMeansDone == \A m \in keys : Busy(m) \/ Handled(m)

(***************************************************************************)
(* Only those faults do: otherwise every message is carried out in the end *)
(* - a gate's entry has its record, an exit has closed one or found        *)
(* nothing to close -, but for those that KafkaConsumer leaves behind      *)
(* after an error.                                                         *)
(***************************************************************************)
LeftBehind(m) == m \in passed \/ m \in failed \ committed

EventuallyHandled ==
  \A m \in Messages : <>[](Handled(m) \/ LeftBehind(m) \/ happened \cap Losing # {})
==============================================================================
