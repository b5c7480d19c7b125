--------------------------- MODULE EventDispatcher ---------------------------
(***************************************************************************)
(* event-dispatcher: the reports that devices send over MQTT are stamped   *)
(* with the tenant of their device, which is looked up in an archive       *)
(* behind a cache, and forwarded to one or two topics of Kafka; what       *)
(* cannot be forwarded goes to a topic of dead letters.  Reports are       *)
(* handled one by one; one that is not acknowledged comes again after a    *)
(* restart.  One device.                                                   *)
(***************************************************************************)
EXTENDS Naturals

CONSTANTS
    Tenants, Gone,          \* what the archive says of the device
    TTL,                    \* ticks that an entry of the cache is valid
    Attempts,               \* of a publication
    MaxMoves,               \* (bound) changes of the device
    MaxDispatcherFaults     \* (bound) failures of MySQL and of the process

ASSUME DispatcherAssumption ==
    TTL \in Nat \ {0} /\ Attempts \in Nat /\ MaxMoves \in Nat /\ MaxDispatcherFaults \in Nat

VARIABLES
    profile,                \* the device in the archive: its tenant, or Gone
    ended,                  \* history: ticks since it was each of them, 0 if it is now
    cache,                  \* the resolver: entries, with their age, at most one
    kind,                   \* the report in hand, or the last one
    work,                   \* the callback: next step, topic, failed attempts, lag of its stamp
    forwarded, buried,      \* topics that took it, dead letters that speak of it
    dropped,                \* history: dead letters that Kafka did not take either
    moves, dispFaults

dispVars == <<profile, ended, cache, kind, work, forwarded, buried, dropped, moves, dispFaults>>

Kinds    == {"telemetry", "alarm", "malformed", "strange"}  \* strange: no known kind of topic
Topics   == {"telemetry", "alarm"}
Profiles == Tenants \cup {Gone}
Works    == [at : {"idle", "resolve", "publish", "bury", "ack"},
             topic : Topics \cup {"report"}, failed : 0..Attempts, lag : 0..TTL]
Entries  == [is : Profiles, age : 0..TTL]
Idle     == [at |-> "idle", topic |-> "report", failed |-> 0, lag |-> 0]

DispatcherTypeOK ==
    /\ profile \in Profiles /\ ended \in [Profiles -> 0..TTL]
    /\ cache \subseteq Entries
    /\ kind \in Kinds
    /\ work \in Works
    /\ forwarded \subseteq Topics
    /\ buried \subseteq Topics \cup {"report"}
    /\ dropped \subseteq Topics \cup {"report"}
    /\ moves \in 0..MaxMoves /\ dispFaults \in 0..MaxDispatcherFaults

DispatcherInit ==
    /\ profile \in Profiles
    /\ ended = [p \in Profiles |-> IF p = profile THEN 0 ELSE TTL]
    /\ cache = {} /\ work = Idle
    /\ kind = "malformed"          \* as after such a report
    /\ forwarded = {} /\ buried = {"report"} /\ dropped = {}
    /\ moves = 0 /\ dispFaults = 0

DispatcherFault == dispFaults < MaxDispatcherFaults /\ dispFaults' = dispFaults + 1

------------------------------------------------------------------------------
(* The callback.                                                           *)

\* A topic without a kind, a body that does not parse or a missing device is buried.
Begun(k) == [Idle EXCEPT !.at = IF k = "malformed" THEN "bury" ELSE "resolve"]

Dispatch(k) ==
    /\ work.at = "idle"
    /\ kind' = k
    /\ work' = Begun(k)
    /\ forwarded' = {} /\ buried' = {} /\ dropped' = {}
    /\ UNCHANGED <<profile, ended, cache, moves, dispFaults>>

Valid(e) == e.age < TTL

\* What a profile that is known makes of the report: an unknown device and an
\* unknown kind are buried whole.
Stamped(p) ==
    LET whole == p = Gone \/ kind = "strange"
    IN  [at |-> IF whole THEN "bury" ELSE "publish",
         topic |-> IF whole THEN "report" ELSE "telemetry",
         failed |-> 0, lag |-> ended[p]]

CacheHit ==
    /\ work.at = "resolve"
    /\ \E e \in cache : Valid(e) /\ work' = Stamped(e.is)
    /\ UNCHANGED <<profile, ended, cache, kind, forwarded, buried, dropped, moves, dispFaults>>

\* An unknown device is remembered as well.
ReadArchive ==
    /\ work.at = "resolve"
    /\ \A e \in cache : ~Valid(e)
    /\ cache' = {[is |-> profile, age |-> 0]}
    /\ work' = Stamped(profile)
    /\ UNCHANGED <<profile, ended, kind, forwarded, buried, dropped, moves, dispFaults>>

\* A failed lookup is not remembered; its report is buried.
ArchiveFails ==
    /\ work.at = "resolve" /\ DispatcherFault
    /\ \A e \in cache : ~Valid(e)
    /\ work' = [work EXCEPT !.at = "bury"]
    /\ UNCHANGED <<profile, ended, cache, kind, forwarded, buried, dropped, moves>>

\* Mutant: a report whose telemetry was given up ends there.
EndsWhenBuried(topic) ==
    IF topic = "telemetry" /\ kind = "alarm" /\ work.at = "publish"
    THEN [work EXCEPT !.at = "publish", !.topic = "alarm", !.failed = 0]
    ELSE [work EXCEPT !.at = "ack", !.failed = 0]

\* After telemetry, an alarm has a topic of its own, whatever became of the first.
After(topic) ==
    IF topic = "telemetry" /\ kind = "alarm"
    THEN [work EXCEPT !.at = "publish", !.topic = "alarm", !.failed = 0]
    ELSE [work EXCEPT !.at = "ack", !.failed = 0]

Takes(topic) == forwarded' = forwarded \cup {topic}

Publish ==
    /\ work.at = "publish"
    /\ Takes(work.topic)
    /\ work' = After(work.topic)
    /\ UNCHANGED <<profile, ended, cache, kind, buried, dropped, moves, dispFaults>>

\* The message may be there although the answer is an error.
PublishFails ==
    /\ work.at = "publish"
    /\ Takes(work.topic) \/ UNCHANGED forwarded
    /\ work' = IF work.failed + 1 < Attempts THEN [work EXCEPT !.failed = @ + 1]
               ELSE [work EXCEPT !.at = "bury"]
    /\ UNCHANGED <<profile, ended, cache, kind, buried, dropped, moves, dispFaults>>

\* A dead letter is tried once; if that fails, a line of the log is all that is left.
ToDLQ ==
    /\ work.at = "bury"
    /\ \/ buried' = buried \cup {work.topic} /\ UNCHANGED dropped
       \/ dropped' = dropped \cup {work.topic} /\ UNCHANGED buried
    /\ work' = After(work.topic)
    /\ UNCHANGED <<profile, ended, cache, kind, forwarded, moves, dispFaults>>

\* The client acknowledges the report when its callback returns.
Acknowledge ==
    /\ work.at = "ack"
    /\ work' = Idle
    /\ UNCHANGED <<profile, ended, cache, kind, forwarded, buried, dropped, moves, dispFaults>>

\* The process ends and comes back, to an empty cache and the report it had.
Restart ==
    /\ work.at # "idle" /\ DispatcherFault
    /\ cache' = {}
    /\ work' = Begun(kind)
    /\ UNCHANGED <<profile, ended, kind, forwarded, buried, dropped, moves>>

------------------------------------------------------------------------------
(* device-service registers, moves and deletes the device; time.           *)
Move(p) ==
    /\ p # profile /\ moves < MaxMoves
    /\ moves' = moves + 1
    /\ profile' = p
    /\ ended' = [ended EXCEPT ![p] = 0]
    /\ UNCHANGED <<cache, kind, work, forwarded, buried, dropped, dispFaults>>

Older(k) == IF k < TTL THEN k + 1 ELSE k

Tick ==
    /\ ended' = [p \in Profiles |-> IF p = profile THEN 0 ELSE Older(ended[p])]
    /\ cache' = {[e EXCEPT !.age = Older(@)] : e \in cache}
    /\ <<ended, cache>>' # <<ended, cache>>
    /\ UNCHANGED <<profile, kind, work, forwarded, buried, dropped, moves, dispFaults>>

DispatcherNext ==
    \/ \E k \in Kinds : Dispatch(k)
    \/ CacheHit \/ ReadArchive \/ ArchiveFails
    \/ Publish \/ PublishFails \/ ToDLQ \/ Acknowledge \/ Restart
    \/ \E p \in Profiles : Move(p)
    \/ Tick

DispatcherSpec == DispatcherInit /\ [][DispatcherNext]_dispVars

------------------------------------------------------------------------------
(***************************************************************************)
(* Nothing is dropped without a trace ("不再静默丢弃"): a report that is    *)
(* acknowledged, after whatever retries and restarts, was buried whole, or *)
(* each topic it is meant for took it or a dead letter speaks of it, or    *)
(* Kafka refused even that.  And what the cache says of a device, its      *)
(* tenant or that it is unknown, was true within the last TTL (Dispatch,   *)
(* toDLQ, Resolver.Resolve).                                               *)
(***************************************************************************)
ReportsAccounted ==
    LET letters == buried \cup dropped IN
    /\ work.at \in {"ack", "idle"} =>
         \/ "report" \in letters
         \/ \A t \in Topics : t = "telemetry" \/ t = kind => t \in forwarded \cup letters
    /\ kind \notin Topics => forwarded = {}
    /\ work.lag < TTL
==============================================================================
