----------------------------- MODULE AlarmPathProofs -----------------------------
(***************************************************************************)
(* What MCAlarmPath checks on an instance, for every one: reports of       *)
(* devices are not dropped without a trace (EventDispatcher), an alarm is  *)
(* resolved and M5 told of it once (AlarmLifecycle), an alarm has one      *)
(* dispatch order (DispatchIntake), a client of a hub gets a message once  *)
(* (WsHub), a recording plan that contradicts itself, or outlives its      *)
(* camera, has one of the causes named, and playback offers what the plans *)
(* have recorded (RecordPlan).  The run implements the specification of    *)
(* each part, and keeps their types.                                       *)
(***************************************************************************)
EXTENDS MCAlarmPath, AlarmIngestProofs,
        FoldLemmas, FiniteSetTheorems, SequenceTheorems, TLAPS

------------------------------------------------------------------------------
(* Reports.                                                                *)

Accounted(t) == t \in forwarded \cup buried \cup dropped

\* The device is what the archive says now, and what a valid entry of the cache
\* says it was when the entry was made, or later.
StampsTrue ==
    /\ ended[profile] = 0 /\ work.lag < TTL
    /\ \A e \in cache : Valid(e) => ended[e.is] <= e.age

\* What is published, or buried for a topic, is a report of that kind; an alarm
\* comes second.
Routed ==
    /\ kind \notin Topics => forwarded = {}
    /\ work.at = "resolve" => kind # "malformed" /\ work.topic = "report"
    /\ work.at = "publish" => work.topic \in Topics
    /\ work.at \in {"publish", "bury"} /\ work.topic \in Topics =>
          /\ kind \in Topics
          /\ work.topic = "alarm" => kind = "alarm" /\ Accounted("telemetry")

\* A report that is done with is accounted for, by topic or whole.
Done ==
    work.at \in {"ack", "idle"} =>
        \/ Accounted("report")
        \/ \A t \in Topics : t = "telemetry" \/ t = kind => Accounted(t)

DispatcherIInv == DispatcherTypeOK /\ StampsTrue /\ Routed /\ Done

\* A step of the callback, the device and the clock standing still: the fields
\* of work that count, one by one.
LEMMA WorkStands ==
  ASSUME DispatcherIInv, work' \in Works, UNCHANGED <<profile, ended, kind>>,
         cache' \subseteq Entries,
         \A e \in cache' : e \in cache \/ ended[e.is] = 0,
         work'.lag < TTL,
         forwarded' \subseteq Topics, buried' \subseteq Topics \cup {"report"},
         dropped' \subseteq Topics \cup {"report"},
         moves' \in 0..MaxMoves, dispFaults' \in 0..MaxDispatcherFaults,
         Routed', Done'
  PROVE  DispatcherIInv'
<1>1. DispatcherTypeOK'
  BY DEF DispatcherIInv, DispatcherTypeOK
<1>2. StampsTrue'
  BY DispatcherAssumption DEF DispatcherIInv, DispatcherTypeOK, StampsTrue, Valid, Entries
<1> QED  BY <1>1, <1>2 DEF DispatcherIInv

LEMMA WorkFields ==
  ASSUME NEW w \in Works
  PROVE  /\ w.at \in {"idle", "resolve", "publish", "bury", "ack"}
         /\ w.topic \in Topics \cup {"report"}
         /\ w.failed \in 0..Attempts /\ w.lag \in 0..TTL
  BY DEF Works

LEMMA IdleWork ==
  /\ Idle \in Works /\ Idle.at = "idle" /\ Idle.topic = "report" /\ Idle.lag = 0
  /\ \A k \in Kinds :
        /\ Begun(k) \in Works
        /\ Begun(k).at = IF k = "malformed" THEN "bury" ELSE "resolve"
        /\ Begun(k).topic = "report" /\ Begun(k).lag = 0
<1>1. /\ Idle \in Works /\ Idle.at = "idle" /\ Idle.topic = "report" /\ Idle.lag = 0
  BY DispatcherAssumption DEF Idle, Works
<1>2. ASSUME NEW k \in Kinds
      PROVE  /\ Begun(k) \in Works
             /\ Begun(k).at = IF k = "malformed" THEN "bury" ELSE "resolve"
             /\ Begun(k).topic = "report" /\ Begun(k).lag = 0
  <2> DEFINE at == IF k = "malformed" THEN "bury" ELSE "resolve"
  <2>1. Begun(k) = [Idle EXCEPT !.at = at] /\ at \in {"bury", "resolve"}
    BY DEF Begun
  <2> HIDE DEF at
  <2>2. Begun(k) \in Works /\ Begun(k).at = at /\ Begun(k).topic = "report" /\ Begun(k).lag = 0
    BY <1>1, <2>1 DEF Works
  <2> QED  BY <2>2 DEF at
<1> QED  BY <1>1, <1>2

LEMMA StampedWork ==
  ASSUME DispatcherIInv, work.at = "resolve", NEW p \in Profiles, ended[p] < TTL
  PROVE  /\ Stamped(p) \in Works /\ Stamped(p).lag < TTL
         /\ \/ Stamped(p).at = "bury" /\ Stamped(p).topic = "report"
            \/ Stamped(p).at = "publish" /\ Stamped(p).topic = "telemetry" /\ kind \in Topics
<1>1. ended[p] \in 0..TTL /\ kind \in Kinds /\ kind # "malformed"
  BY DEF DispatcherIInv, DispatcherTypeOK, Routed
<1> QED  BY <1>1, DispatcherAssumption DEF Stamped, Works, Kinds, Topics

LEMMA AfterWork ==
  ASSUME DispatcherIInv, NEW topic
  PROVE  /\ After(topic) \in Works /\ After(topic).lag = work.lag
         /\ IF topic = "telemetry" /\ kind = "alarm"
            THEN After(topic).at = "publish" /\ After(topic).topic = "alarm"
            ELSE After(topic).at = "ack" /\ After(topic).topic = work.topic
<1>1. work \in Works
  BY DEF DispatcherIInv, DispatcherTypeOK
<1>0. 0 \in 0..Attempts
  BY DispatcherAssumption
<1>2. CASE topic = "telemetry" /\ kind = "alarm"
  <2>1. After(topic) = [work EXCEPT !.at = "publish", !.topic = "alarm", !.failed = 0]
    BY <1>2 DEF After
  <2>2. After(topic) \in Works
    BY <1>0, <1>1, <2>1 DEF Works, Topics
  <2>3. /\ After(topic).lag = work.lag
        /\ After(topic).at = "publish" /\ After(topic).topic = "alarm"
    BY <1>1, <2>1 DEF Works
  <2> QED  BY <1>2, <2>2, <2>3
<1>3. CASE ~(topic = "telemetry" /\ kind = "alarm")
  <2>1. After(topic) = [work EXCEPT !.at = "ack", !.failed = 0]
    BY <1>3 DEF After
  <2>2. After(topic) \in Works
    BY <1>0, <1>1, <2>1 DEF Works
  <2>3. /\ After(topic).lag = work.lag
        /\ After(topic).at = "ack" /\ After(topic).topic = work.topic
    BY <1>1, <2>1 DEF Works
  <2> QED  BY <1>3, <2>2, <2>3
<1> QED  BY <1>2, <1>3

LEMMA DispatcherStarts == DispatcherInit => DispatcherIInv
<1> SUFFICES ASSUME DispatcherInit  PROVE DispatcherIInv
  OBVIOUS
<1>0. /\ profile \in Profiles /\ work = Idle /\ cache = {}
      /\ ended = [p \in Profiles |-> IF p = profile THEN 0 ELSE TTL]
  BY DEF DispatcherInit
<1>1. DispatcherTypeOK
  <2>1. ended \in [Profiles -> 0..TTL]
    BY <1>0, DispatcherAssumption
  <2>2. moves \in 0..MaxMoves /\ dispFaults \in 0..MaxDispatcherFaults
    BY DispatcherAssumption DEF DispatcherInit
  <2> QED  BY <1>0, <2>1, <2>2, IdleWork DEF DispatcherInit, DispatcherTypeOK, Kinds
<1>2. StampsTrue
  BY <1>0, IdleWork, DispatcherAssumption DEF StampsTrue
<1>3. Routed
  BY IdleWork DEF DispatcherInit, Routed
<1>4. Done
  BY DEF DispatcherInit, Done, Accounted
<1> QED  BY <1>1, <1>2, <1>3, <1>4 DEF DispatcherIInv

LEMMA DispatchSafe ==
  ASSUME DispatcherIInv, NEW k \in Kinds, Dispatch(k)
  PROVE  DispatcherIInv'
<1>1. /\ work' \in Works /\ work'.topic = "report" /\ work'.lag = 0
      /\ work'.at = IF k = "malformed" THEN "bury" ELSE "resolve"
  <2>1. work' = Begun(k)
    BY DEF Dispatch
  <2> QED  BY <2>1, IdleWork
<1>2. DispatcherTypeOK'
  BY <1>1 DEF DispatcherIInv, DispatcherTypeOK, Dispatch
<1>3. StampsTrue'
  BY <1>1, DispatcherAssumption DEF DispatcherIInv, StampsTrue, Valid, Dispatch
<1>4. Routed'
  BY <1>1 DEF Routed, Topics, Dispatch
<1>5. Done'
  BY <1>1 DEF Done
<1> QED  BY <1>2, <1>3, <1>4, <1>5 DEF DispatcherIInv

LEMMA CacheHitSafe ==
  ASSUME DispatcherIInv, CacheHit
  PROVE  DispatcherIInv'
<1>1. PICK e \in cache : Valid(e) /\ work' = Stamped(e.is)
  BY DEF CacheHit
<1>2. e.is \in Profiles /\ ended[e.is] < TTL
  BY <1>1, DispatcherAssumption DEF DispatcherIInv, DispatcherTypeOK, StampsTrue, Valid, Entries
<1>3. work' \in Works /\ work'.lag < TTL
  BY <1>1, <1>2, StampedWork DEF CacheHit
<1>4. Routed' /\ Done'
  BY <1>1, <1>2, StampedWork DEF DispatcherIInv, Routed, Done, Topics, CacheHit
<1> QED  BY <1>3, <1>4, WorkStands DEF DispatcherIInv, DispatcherTypeOK, CacheHit

LEMMA ReadArchiveSafe ==
  ASSUME DispatcherIInv, ReadArchive
  PROVE  DispatcherIInv'
<1>1. work' = Stamped(profile) /\ profile \in Profiles /\ ended[profile] < TTL
  BY DispatcherAssumption DEF DispatcherIInv, DispatcherTypeOK, StampsTrue, ReadArchive
<1>2. work' \in Works /\ work'.lag < TTL
  BY <1>1, StampedWork DEF ReadArchive
<1>3. Routed' /\ Done'
  BY <1>1, StampedWork DEF DispatcherIInv, Routed, Done, Topics, ReadArchive
<1>4. cache' \subseteq Entries /\ \A e \in cache' : ended[e.is] = 0
  BY <1>1, DispatcherAssumption DEF DispatcherIInv, StampsTrue, Entries, ReadArchive
<1> QED  BY <1>2, <1>3, <1>4, WorkStands DEF DispatcherIInv, DispatcherTypeOK, ReadArchive

LEMMA ArchiveFailsSafe ==
  ASSUME DispatcherIInv, ArchiveFails
  PROVE  DispatcherIInv'
<1>1. /\ work' \in Works /\ work'.at = "bury"
      /\ work'.topic = work.topic /\ work'.lag = work.lag
  BY DEF DispatcherIInv, DispatcherTypeOK, Works, ArchiveFails
<1>2. dispFaults' \in 0..MaxDispatcherFaults
  BY DispatcherAssumption DEF DispatcherIInv, DispatcherTypeOK, ArchiveFails, DispatcherFault
<1>3. Routed' /\ Done'
  BY <1>1 DEF DispatcherIInv, Routed, Done, Topics, ArchiveFails
<1> QED  BY <1>1, <1>2, <1>3, WorkStands DEF DispatcherIInv, DispatcherTypeOK, StampsTrue, ArchiveFails

LEMMA PublishSafe ==
  ASSUME DispatcherIInv, Publish
  PROVE  DispatcherIInv'
<1>1. /\ work.topic \in Topics /\ kind \in Topics
      /\ work.topic = "alarm" => kind = "alarm" /\ Accounted("telemetry")
      /\ forwarded' = forwarded \cup {work.topic} /\ work' = After(work.topic)
  BY DEF DispatcherIInv, Routed, Publish, Takes
<1>2. work' \in Works /\ work'.lag < TTL
  BY <1>1, AfterWork DEF DispatcherIInv, StampsTrue
<1>3. Routed'
  BY <1>1, AfterWork DEF DispatcherIInv, Routed, Topics, Accounted, Publish
<1>4. Done'
  BY <1>1, AfterWork DEF Done, Topics, Accounted, Publish
<1> QED  BY <1>1, <1>2, <1>3, <1>4, WorkStands DEF DispatcherIInv, DispatcherTypeOK, Publish

LEMMA PublishFailsSafe ==
  ASSUME DispatcherIInv, PublishFails
  PROVE  DispatcherIInv'
<1>1. /\ work.topic \in Topics /\ kind \in Topics
      /\ work.topic = "alarm" => kind = "alarm" /\ Accounted("telemetry")
      /\ forwarded' \in {forwarded, forwarded \cup {work.topic}}
  BY DEF DispatcherIInv, Routed, PublishFails, Takes
<1>2. /\ work' \in Works /\ work'.at \in {"publish", "bury"}
      /\ work'.topic = work.topic /\ work'.lag = work.lag
  BY DispatcherAssumption DEF DispatcherIInv, DispatcherTypeOK, Works, PublishFails
<1>3. Routed' /\ Done'
  BY <1>1, <1>2 DEF Routed, Done, Accounted, PublishFails
<1> QED  BY <1>1, <1>2, <1>3, WorkStands DEF DispatcherIInv, DispatcherTypeOK, StampsTrue, PublishFails

LEMMA ToDLQSafe ==
  ASSUME DispatcherIInv, ToDLQ
  PROVE  DispatcherIInv'
<1>1. /\ work.topic \in Topics \cup {"report"} /\ work' = After(work.topic)
      /\ work.topic \in Topics => kind \in Topics
      /\ work.topic = "alarm" => kind = "alarm" /\ Accounted("telemetry")
  BY DEF DispatcherIInv, DispatcherTypeOK, Works, Topics, Routed, ToDLQ
<1>2. work' \in Works /\ work'.lag < TTL
  BY <1>1, AfterWork DEF DispatcherIInv, StampsTrue
<1>3. /\ buried' \cup dropped' = buried \cup dropped \cup {work.topic}
      /\ buried' \subseteq Topics \cup {"report"} /\ dropped' \subseteq Topics \cup {"report"}
  BY <1>1 DEF DispatcherIInv, DispatcherTypeOK, ToDLQ
<1>4. Routed'
  BY <1>1, <1>3, AfterWork DEF DispatcherIInv, Routed, Topics, Accounted, ToDLQ
<1>5. Done'
  BY <1>1, <1>3, AfterWork DEF Done, Topics, Accounted, ToDLQ
<1> QED  BY <1>2, <1>3, <1>4, <1>5, WorkStands DEF DispatcherIInv, DispatcherTypeOK, ToDLQ

LEMMA AcknowledgeSafe ==
  ASSUME DispatcherIInv, Acknowledge
  PROVE  DispatcherIInv'
<1>1. work' \in Works /\ work'.at = "idle" /\ work'.lag = 0 /\ work'.topic = "report"
  BY IdleWork DEF Acknowledge
<1>2. Routed' /\ Done'
  BY <1>1 DEF DispatcherIInv, Routed, Done, Accounted, Acknowledge
<1> QED  BY <1>1, <1>2, WorkStands, DispatcherAssumption DEF DispatcherIInv, DispatcherTypeOK, Acknowledge

LEMMA RestartSafe ==
  ASSUME DispatcherIInv, Restart
  PROVE  DispatcherIInv'
<1>1. /\ work' \in Works /\ work'.topic = "report" /\ work'.lag = 0
      /\ work'.at = IF kind = "malformed" THEN "bury" ELSE "resolve"
  <2>1. work' = Begun(kind) /\ kind \in Kinds
    BY DEF DispatcherIInv, DispatcherTypeOK, Restart
  <2> QED  BY <2>1, IdleWork
<1>2. dispFaults' \in 0..MaxDispatcherFaults
  BY DispatcherAssumption DEF DispatcherIInv, DispatcherTypeOK, Restart, DispatcherFault
<1>3. Routed' /\ Done'
  BY <1>1 DEF DispatcherIInv, Routed, Done, Topics, Restart
<1> QED  BY <1>1, <1>2, <1>3, WorkStands, DispatcherAssumption DEF DispatcherIInv, DispatcherTypeOK, Restart

\* The device becomes p, and what it was ages from now on.
LEMMA MoveSafe ==
  ASSUME DispatcherIInv, NEW p \in Profiles, Move(p)
  PROVE  DispatcherIInv'
<1>1. /\ ended' \in [Profiles -> 0..TTL] /\ ended'[p] = 0
      /\ \A q \in Profiles \ {p} : ended'[q] = ended[q]
  BY DispatcherAssumption DEF DispatcherIInv, DispatcherTypeOK, Move
<1>2. DispatcherTypeOK'
  BY <1>1, DispatcherAssumption DEF DispatcherIInv, DispatcherTypeOK, Move
<1>3. StampsTrue'
  BY <1>1 DEF DispatcherIInv, DispatcherTypeOK, StampsTrue, Valid, Entries, Move
<1>4. Routed' /\ Done'
  BY DEF DispatcherIInv, Routed, Done, Accounted, Move
<1> QED  BY <1>2, <1>3, <1>4 DEF DispatcherIInv

\* Entries and what they speak of grow old together.
LEMMA TickSafe ==
  ASSUME DispatcherIInv, Tick
  PROVE  DispatcherIInv'
<1>1. \A k \in 0..TTL : Older(k) \in 0..TTL /\ k <= Older(k) /\ (Older(k) < TTL => Older(k) = k + 1)
  BY DispatcherAssumption DEF Older
<1>2. /\ ended' \in [Profiles -> 0..TTL] /\ ended'[profile] = 0
      /\ \A q \in Profiles : ended'[q] <= Older(ended[q])
  BY <1>1, DispatcherAssumption DEF DispatcherIInv, DispatcherTypeOK, Tick
<1>3. /\ cache' \subseteq Entries
      /\ \A e \in cache' : \E d \in cache : e.is = d.is /\ e.age = Older(d.age)
  BY <1>1 DEF DispatcherIInv, DispatcherTypeOK, Entries, Tick
<1>4. DispatcherTypeOK'
  BY <1>2, <1>3 DEF DispatcherIInv, DispatcherTypeOK, Tick
<1>5. StampsTrue'
  <2>1. UNCHANGED <<work, profile>>
    BY DEF Tick
  <2>2. ASSUME NEW e \in cache', Valid(e)  PROVE ended'[e.is] <= e.age
    <3>1. PICK d \in cache : e.is = d.is /\ e.age = Older(d.age)
      BY <1>3
    <3>2. d.is \in Profiles /\ d.age \in 0..TTL /\ ended[d.is] \in 0..TTL
      BY DEF DispatcherIInv, DispatcherTypeOK, Entries
    <3>3. d.age < TTL /\ e.age = d.age + 1
      BY <1>1, <2>2, <3>1, <3>2, DispatcherAssumption DEF Valid
    <3>4. ended[d.is] <= d.age
      BY <3>3 DEF DispatcherIInv, StampsTrue, Valid
    <3>5. Older(ended[d.is]) <= e.age
      BY <3>2, <3>3, <3>4, DispatcherAssumption DEF Older
    <3>6. ended'[d.is] <= Older(ended[d.is]) /\ ended'[d.is] \in 0..TTL
      BY <1>2, <3>2
    <3> QED  BY <1>1, <3>1, <3>2, <3>3, <3>5, <3>6, DispatcherAssumption
  <2> QED  BY <1>2, <2>1, <2>2 DEF DispatcherIInv, StampsTrue, Valid
<1>6. Routed' /\ Done'
  BY DEF DispatcherIInv, Routed, Done, Accounted, Tick
<1> QED  BY <1>4, <1>5, <1>6 DEF DispatcherIInv

LEMMA DispatcherKeeps == DispatcherIInv /\ [DispatcherNext]_dispVars => DispatcherIInv'
<1> SUFFICES ASSUME DispatcherIInv, [DispatcherNext]_dispVars
             PROVE  DispatcherIInv'
  OBVIOUS
<1>1. CASE UNCHANGED dispVars
  <2>1. DispatcherTypeOK' /\ StampsTrue'
    BY <1>1 DEF DispatcherIInv, DispatcherTypeOK, StampsTrue, Valid, dispVars
  <2>2. Routed' /\ Done'
    BY <1>1 DEF DispatcherIInv, Routed, Done, Accounted, dispVars
  <2> QED  BY <2>1, <2>2 DEF DispatcherIInv
<1> QED
  BY <1>1, DispatchSafe, CacheHitSafe, ReadArchiveSafe, ArchiveFailsSafe, PublishSafe,
     PublishFailsSafe, ToDLQSafe, AcknowledgeSafe, RestartSafe, MoveSafe, TickSafe
     DEF DispatcherNext

\* A report is acknowledged when each topic it is meant for took it, or a dead
\* letter was tried for that, whatever fails on the way; and the tenant on it was
\* the device's within the TTL of the cache (Dispatch, toDLQ, Resolver.Resolve).
THEOREM ReportsCorrect == DispatcherSpec => []ReportsAccounted
<1>1. ASSUME DispatcherIInv  PROVE ReportsAccounted
  <2>1. \A t : Accounted(t) <=> t \in forwarded \/ t \in buried \cup dropped
    BY DEF Accounted
  <2>2. "report" \notin forwarded
    BY <1>1 DEF DispatcherIInv, DispatcherTypeOK, Topics
  <2> QED  BY <1>1, <2>1, <2>2 DEF DispatcherIInv, StampsTrue, Routed, Done, ReportsAccounted
<1> QED  BY <1>1, DispatcherStarts, DispatcherKeeps, PTL DEF DispatcherSpec
------------------------------------------------------------------------------
(* What operators do.                                                      *)

\* The log is what led to the status.
Written ==
    trail = CASE status = "pending" -> <<"create">>
              [] status = "acked"   -> <<"create", "ack">>
              [] OTHER              -> <<"create", "ack", "resolve">>

\* One request resolved the alarm, and M5 is told by it alone.
Told ==
    /\ notices > 0 => Resolvers # {}
    /\ \A r \in Resolvers :
          /\ status = "resolved" /\ notices <= sends[r]
          /\ notices = 0 => asked[r] # "ok"
          /\ \A q \in Resolvers : q = r

\* Only a resolution is sent, and not too often.
InTime ==
    \A r \in Requests :
        /\ asked[r] \in {"load", "send"} => ActionOf[r] = "resolve"
        /\ asked[r] = "send" => sends[r] < Sends
        /\ asked[r] \in {"idle", "broadcast", "load"} => sends[r] = 0

LifecycleIInv == LifecycleTypeOK /\ Written /\ Told /\ InTime

LEMMA LifecycleStarts == LifecycleInit => LifecycleIInv
<1> SUFFICES ASSUME LifecycleInit  PROVE LifecycleIInv
  OBVIOUS
<1>1. LifecycleTypeOK
  BY LifecycleAssumption DEF LifecycleInit, LifecycleTypeOK
<1>2. Written /\ Told /\ InTime
  BY LifecycleAssumption DEF LifecycleInit, Written, Told, InTime, Resolvers
<1> QED  BY <1>1, <1>2 DEF LifecycleIInv

\* The fields of a request, and of the others.
LEMMA RequestMoves ==
  ASSUME LifecycleTypeOK, NEW r \in Requests,
         NEW went \in {"idle", "broadcast", "load", "send"} \cup Answers, HandlerGoes(r, went)
  PROVE  /\ asked' \in [Requests -> {"idle", "broadcast", "load", "send"} \cup Answers]
         /\ asked'[r] = went
         /\ \A q \in Requests \ {r} : asked'[q] = asked[q]
  BY DEF LifecycleTypeOK, HandlerGoes

LEMMA TransitionSafe ==
  ASSUME LifecycleIInv, NEW r \in Requests, Transition(r)
  PROVE  LifecycleIInv'
<1>1. /\ asked[r] = "idle" /\ UNCHANGED <<shown, notices, sends, alarmFaults>>
      /\ r \notin Resolvers /\ ActionOf[r] \in {"ack", "resolve"}
  BY LifecycleAssumption DEF Transition, Resolvers
<1>2. CASE ~InFrom(r)
  <2>1. /\ asked' \in [Requests -> {"idle", "broadcast", "load", "send"} \cup Answers]
        /\ asked'[r] = "refused" /\ UNCHANGED <<status, trail>>
        /\ \A q \in Requests \ {r} : asked'[q] = asked[q]
    BY <1>2, RequestMoves DEF LifecycleIInv, Transition, Answers
  <2>2. Resolvers' = Resolvers
    BY <1>1, <2>1 DEF Resolvers
  <2> QED  BY <1>1, <2>1, <2>2 DEF LifecycleIInv, LifecycleTypeOK, Written, Told, InTime, Resolvers
<1>3. CASE InFrom(r)
  <2>1. /\ asked' \in [Requests -> {"idle", "broadcast", "load", "send"} \cup Answers]
        /\ asked'[r] = "broadcast"
        /\ \A q \in Requests \ {r} : asked'[q] = asked[q]
        /\ status' = To(ActionOf[r]) /\ trail' = Append(trail, ActionOf[r])
        /\ status = From(ActionOf[r]) /\ status # "resolved"
    BY <1>1, <1>3, RequestMoves DEF LifecycleIInv, Transition, InFrom, From
  <2>2. Resolvers = {} /\ notices = 0
    BY <2>1 DEF LifecycleIInv, LifecycleTypeOK, Told
  <2>3. LifecycleTypeOK'
    BY <1>1, <2>1 DEF LifecycleIInv, LifecycleTypeOK, To
  <2>4. Written'
    BY <1>1, <2>1 DEF LifecycleIInv, Written, From, To
  <2>5. Told'
    <3>1. CASE ActionOf[r] = "ack"
      BY <1>1, <2>1, <2>2, <3>1 DEF Told, Resolvers
    <3>2. CASE ActionOf[r] = "resolve"
      <4>1. Resolvers' = {r} /\ status' = "resolved"
        BY <1>1, <2>1, <2>2, <3>2 DEF Resolvers, To
      <4> QED  BY <1>1, <2>1, <2>2, <4>1 DEF LifecycleIInv, LifecycleTypeOK, Told
    <3> QED  BY <1>1, <3>1, <3>2
  <2>6. InTime'
    BY <1>1, <2>1 DEF LifecycleIInv, InTime
  <2> QED  BY <2>3, <2>4, <2>5, <2>6 DEF LifecycleIInv
<1> QED  BY <1>2, <1>3

LEMMA TransitionFailsSafe ==
  ASSUME LifecycleIInv, NEW r \in Requests, TransitionFails(r)
  PROVE  LifecycleIInv'
<1>1. PICK went \in {"error"} :
        HandlerGoes(r, went) /\ UNCHANGED <<status, trail, notices, sends>>
  BY LifecycleAssumption DEF TransitionFails
<1>2. /\ asked' \in [Requests -> {"idle", "broadcast", "load", "send"} \cup Answers]
      /\ asked'[r] = went /\ asked[r] = "idle"
      /\ \A q \in Requests \ {r} : asked'[q] = asked[q]
  BY <1>1, RequestMoves DEF LifecycleIInv, Answers, TransitionFails
<1>3. Resolvers' = Resolvers
  BY <1>1, <1>2 DEF Resolvers
<1>4. LifecycleTypeOK'
  BY <1>1, <1>2, LifecycleAssumption DEF LifecycleIInv, LifecycleTypeOK, To, Faulty, TransitionFails
<1>5. Written' /\ Told'
  BY <1>1, <1>2, <1>3 DEF LifecycleIInv, Written, Told, Resolvers
<1>6. InTime'
  BY <1>1, <1>2, LifecycleAssumption DEF LifecycleIInv, InTime, AfterBroadcast, TransitionFails
<1> QED  BY <1>4, <1>5, <1>6 DEF LifecycleIInv

LEMMA BroadcastSafe ==
  ASSUME LifecycleIInv, NEW r \in Requests, Broadcast(r)
  PROVE  LifecycleIInv'
<1>1. PICK went \in {AfterBroadcast(r)} :
        HandlerGoes(r, went) /\ UNCHANGED <<status, trail, notices, sends>>
  BY LifecycleAssumption DEF Broadcast, AfterBroadcast
<1>2. /\ asked' \in [Requests -> {"idle", "broadcast", "load", "send"} \cup Answers]
      /\ asked'[r] = went /\ asked[r] = "broadcast"
      /\ \A q \in Requests \ {r} : asked'[q] = asked[q]
  BY <1>1, RequestMoves DEF LifecycleIInv, Answers, AfterBroadcast, Broadcast
<1>3. Resolvers' = Resolvers
  BY <1>1, <1>2 DEF Resolvers, AfterBroadcast
<1>4. LifecycleTypeOK'
  BY <1>1, <1>2, LifecycleAssumption DEF LifecycleIInv, LifecycleTypeOK, To, Faulty, Broadcast
<1>5. Written' /\ Told'
  BY <1>1, <1>2, <1>3 DEF LifecycleIInv, Written, Told, Resolvers, AfterBroadcast
<1>6. InTime'
  BY <1>1, <1>2, LifecycleAssumption DEF LifecycleIInv, InTime, AfterBroadcast, Broadcast
<1> QED  BY <1>4, <1>5, <1>6 DEF LifecycleIInv

LEMMA BroadcastFailsSafe ==
  ASSUME LifecycleIInv, NEW r \in Requests, BroadcastFails(r)
  PROVE  LifecycleIInv'
<1>1. PICK went \in {AfterBroadcast(r)} :
        HandlerGoes(r, went) /\ UNCHANGED <<status, trail, notices, sends>>
  BY LifecycleAssumption DEF BroadcastFails, AfterBroadcast
<1>2. /\ asked' \in [Requests -> {"idle", "broadcast", "load", "send"} \cup Answers]
      /\ asked'[r] = went /\ asked[r] = "broadcast"
      /\ \A q \in Requests \ {r} : asked'[q] = asked[q]
  BY <1>1, RequestMoves DEF LifecycleIInv, Answers, AfterBroadcast, BroadcastFails
<1>3. Resolvers' = Resolvers
  BY <1>1, <1>2 DEF Resolvers, AfterBroadcast
<1>4. LifecycleTypeOK'
  BY <1>1, <1>2, LifecycleAssumption DEF LifecycleIInv, LifecycleTypeOK, To, Faulty, BroadcastFails
<1>5. Written' /\ Told'
  BY <1>1, <1>2, <1>3 DEF LifecycleIInv, Written, Told, Resolvers, AfterBroadcast
<1>6. InTime'
  BY <1>1, <1>2, LifecycleAssumption DEF LifecycleIInv, InTime, AfterBroadcast, BroadcastFails
<1> QED  BY <1>4, <1>5, <1>6 DEF LifecycleIInv

LEMMA LoadAlarmSafe ==
  ASSUME LifecycleIInv, NEW r \in Requests, LoadAlarm(r)
  PROVE  LifecycleIInv'
<1>1. PICK went \in {"send"} :
        HandlerGoes(r, went) /\ UNCHANGED <<status, trail, notices, sends>>
  BY LifecycleAssumption DEF LoadAlarm
<1>2. /\ asked' \in [Requests -> {"idle", "broadcast", "load", "send"} \cup Answers]
      /\ asked'[r] = went /\ asked[r] = "load"
      /\ \A q \in Requests \ {r} : asked'[q] = asked[q]
  BY <1>1, RequestMoves DEF LifecycleIInv, Answers, LoadAlarm
<1>3. Resolvers' = Resolvers
  BY <1>1, <1>2 DEF Resolvers
<1>4. LifecycleTypeOK'
  BY <1>1, <1>2, LifecycleAssumption DEF LifecycleIInv, LifecycleTypeOK, To, Faulty, LoadAlarm
<1>5. Written' /\ Told'
  BY <1>1, <1>2, <1>3 DEF LifecycleIInv, Written, Told, Resolvers
<1>6. InTime'
  BY <1>1, <1>2, LifecycleAssumption DEF LifecycleIInv, InTime, AfterBroadcast, LoadAlarm
<1> QED  BY <1>4, <1>5, <1>6 DEF LifecycleIInv

LEMMA LoadAlarmFailsSafe ==
  ASSUME LifecycleIInv, NEW r \in Requests, LoadAlarmFails(r)
  PROVE  LifecycleIInv'
<1>1. PICK went \in {"unnotified"} :
        HandlerGoes(r, went) /\ UNCHANGED <<status, trail, notices, sends>>
  BY LifecycleAssumption DEF LoadAlarmFails
<1>2. /\ asked' \in [Requests -> {"idle", "broadcast", "load", "send"} \cup Answers]
      /\ asked'[r] = went /\ asked[r] = "load"
      /\ \A q \in Requests \ {r} : asked'[q] = asked[q]
  BY <1>1, RequestMoves DEF LifecycleIInv, Answers, LoadAlarmFails
<1>3. Resolvers' = Resolvers
  BY <1>1, <1>2 DEF Resolvers
<1>4. LifecycleTypeOK'
  BY <1>1, <1>2, LifecycleAssumption DEF LifecycleIInv, LifecycleTypeOK, To, Faulty, LoadAlarmFails
<1>5. Written' /\ Told'
  BY <1>1, <1>2, <1>3 DEF LifecycleIInv, Written, Told, Resolvers
<1>6. InTime'
  BY <1>1, <1>2, LifecycleAssumption DEF LifecycleIInv, InTime, AfterBroadcast, LoadAlarmFails
<1> QED  BY <1>4, <1>5, <1>6 DEF LifecycleIInv

LEMMA HandlerDiesSafe ==
  ASSUME LifecycleIInv, NEW r \in Requests, HandlerDies(r)
  PROVE  LifecycleIInv'
<1>1. PICK went \in {"crashed"} :
        HandlerGoes(r, went) /\ UNCHANGED <<status, trail, notices, sends>>
  BY LifecycleAssumption DEF HandlerDies
<1>2. /\ asked' \in [Requests -> {"idle", "broadcast", "load", "send"} \cup Answers]
      /\ asked'[r] = went /\ asked[r] \in {"broadcast", "load", "send"}
      /\ \A q \in Requests \ {r} : asked'[q] = asked[q]
  BY <1>1, RequestMoves DEF LifecycleIInv, Answers, HandlerDies
<1>3. Resolvers' = Resolvers
  BY <1>1, <1>2 DEF Resolvers
<1>4. LifecycleTypeOK'
  BY <1>1, <1>2, LifecycleAssumption DEF LifecycleIInv, LifecycleTypeOK, To, Faulty, HandlerDies
<1>5. Written' /\ Told'
  BY <1>1, <1>2, <1>3 DEF LifecycleIInv, Written, Told, Resolvers
<1>6. InTime'
  BY <1>1, <1>2, LifecycleAssumption DEF LifecycleIInv, InTime, AfterBroadcast, HandlerDies
<1> QED  BY <1>4, <1>5, <1>6 DEF LifecycleIInv

LEMMA SendNoticeSafe ==
  ASSUME LifecycleIInv, NEW r \in Requests, SendNotice(r)
  PROVE  LifecycleIInv'
<1>1. /\ asked[r] = "send" /\ ActionOf[r] = "resolve" /\ r \in Resolvers
      /\ sends[r] + 1 \in 0..Sends /\ notices \in Nat
  BY LifecycleAssumption DEF LifecycleIInv, LifecycleTypeOK, InTime, Resolvers, SendNotice
<1>2. /\ sends' \in [Requests -> 0..Sends] /\ sends'[r] = sends[r] + 1
      /\ \A q \in Requests \ {r} : sends'[q] = sends[q]
      /\ notices' = notices + 1
      /\ UNCHANGED <<status, trail, shown>>
  BY <1>1 DEF LifecycleIInv, LifecycleTypeOK, SendNotice
<1>3. /\ asked' \in [Requests -> {"idle", "broadcast", "load", "send"} \cup Answers]
      /\ asked'[r] = "ok"
      /\ \A q \in Requests \ {r} : asked'[q] = asked[q]
  BY <1>2, RequestMoves DEF LifecycleIInv, Answers, SendNotice
<1>4. Resolvers' = Resolvers
  BY <1>1, <1>3 DEF Resolvers
<1>5. LifecycleTypeOK'
  BY <1>1, <1>2, <1>3, LifecycleAssumption DEF LifecycleIInv, LifecycleTypeOK, Faulty, SendNotice
<1>6. Written'
  BY <1>2 DEF LifecycleIInv, Written
<1>7. Told'
  BY <1>1, <1>2, <1>3, <1>4 DEF LifecycleIInv, LifecycleTypeOK, Told, Resolvers
<1>8. InTime'
  BY <1>1, <1>2, <1>3 DEF LifecycleIInv, LifecycleTypeOK, InTime
<1> QED  BY <1>5, <1>6, <1>7, <1>8 DEF LifecycleIInv

LEMMA SendNoticeFailsSafe ==
  ASSUME LifecycleIInv, NEW r \in Requests, SendNoticeFails(r)
  PROVE  LifecycleIInv'
<1>1. /\ asked[r] = "send" /\ ActionOf[r] = "resolve" /\ r \in Resolvers
      /\ sends[r] + 1 \in 0..Sends /\ notices \in Nat
  BY LifecycleAssumption DEF LifecycleIInv, LifecycleTypeOK, InTime, Resolvers, SendNoticeFails
<1>2. /\ sends' \in [Requests -> 0..Sends] /\ sends'[r] = sends[r] + 1
      /\ \A q \in Requests \ {r} : sends'[q] = sends[q]
      /\ notices' \in {notices, notices + 1}
      /\ UNCHANGED <<status, trail, shown>>
  BY <1>1 DEF LifecycleIInv, LifecycleTypeOK, SendNoticeFails
<1>3. /\ asked' \in [Requests -> {"idle", "broadcast", "load", "send"} \cup Answers]
      /\ asked'[r] = IF sends[r] + 1 = Sends THEN "unnotified" ELSE "send"
      /\ \A q \in Requests \ {r} : asked'[q] = asked[q]
  BY <1>2, RequestMoves DEF LifecycleIInv, Answers, SendNoticeFails
<1>4. Resolvers' = Resolvers
  BY <1>1, <1>3 DEF Resolvers
<1>5. LifecycleTypeOK'
  BY <1>1, <1>2, <1>3, LifecycleAssumption DEF LifecycleIInv, LifecycleTypeOK, Faulty, SendNoticeFails
<1>6. Written'
  BY <1>2 DEF LifecycleIInv, Written
<1>7. Told'
  <2>1. \A q \in Resolvers : q = r /\ status = "resolved" /\ notices <= sends[r]
    BY <1>1 DEF LifecycleIInv, Told
  <2>2. notices' <= sends'[r] /\ asked'[r] # "ok"
    BY <1>1, <1>2, <1>3, <2>1 DEF LifecycleIInv, LifecycleTypeOK
  <2> QED  BY <1>1, <1>2, <1>4, <2>1, <2>2 DEF Told
<1>8. InTime'
  <2>1. asked'[r] = "send" => sends'[r] < Sends
    <3>1. CASE sends[r] + 1 = Sends
      BY <1>3, <3>1
    <3>2. CASE sends[r] + 1 # Sends
      BY <1>1, <1>2, <3>2, LifecycleAssumption
    <3> QED  BY <3>1, <3>2
  <2>2. asked'[r] \in {"send", "unnotified"}
    BY <1>3
  <2> QED  BY <1>1, <1>2, <1>3, <2>1, <2>2 DEF LifecycleIInv, InTime
<1> QED  BY <1>5, <1>6, <1>7, <1>8 DEF LifecycleIInv

LEMMA LifecycleKeeps == LifecycleIInv /\ [LifecycleNext]_lifecycleVars => LifecycleIInv'
<1> SUFFICES ASSUME LifecycleIInv, [LifecycleNext]_lifecycleVars
             PROVE  LifecycleIInv'
  OBVIOUS
<1>1. CASE UNCHANGED lifecycleVars
  <2>1. LifecycleTypeOK'
    BY <1>1 DEF LifecycleIInv, LifecycleTypeOK, lifecycleVars
  <2>2. Written' /\ Told' /\ InTime'
    BY <1>1 DEF LifecycleIInv, Written, Told, InTime, Resolvers, lifecycleVars
  <2> QED  BY <2>1, <2>2 DEF LifecycleIInv
<1> QED
  BY <1>1, TransitionSafe, TransitionFailsSafe, BroadcastSafe, BroadcastFailsSafe, LoadAlarmSafe,
     LoadAlarmFailsSafe, SendNoticeSafe, SendNoticeFailsSafe, HandlerDiesSafe DEF LifecycleNext

LEMMA AtMostOne ==
  ASSUME NEW S, \A a, b \in S : a = b
  PROVE  Cardinality(S) <= 1
<1>1. CASE S = {}
  BY <1>1, FS_EmptySet
<1>2. CASE S # {}
  <2>1. PICK a \in S : S = {a}
    BY <1>2
  <2> QED  BY <2>1, FS_Singleton
<1> QED  BY <1>1, <1>2

\* The beginnings of a full history.
LEMMA Histories ==
  /\ SubSeq(<<"create", "ack", "resolve">>, 1, 1) = <<"create">>
  /\ SubSeq(<<"create", "ack", "resolve">>, 1, 2) = <<"create", "ack">>
  /\ SubSeq(<<"create", "ack", "resolve">>, 1, 3) = <<"create", "ack", "resolve">>
<1> DEFINE full == <<"create", "ack", "resolve">>
           Steps == {"create", "ack", "resolve"}
<1>1. /\ full \in Seq(Steps) /\ Len(full) = 3
      /\ full[1] = "create" /\ full[2] = "ack" /\ full[3] = "resolve"
  OBVIOUS
<1>2. SubSeq(full, 1, 3) = full
  <2> HIDE DEF full, Steps
  <2> QED  BY <1>1, SubSeqFull
<1>3. \A n \in 1..2 : /\ SubSeq(full, 1, n) \in Seq(Steps) /\ Len(SubSeq(full, 1, n)) = n
                      /\ \A i \in 1..n : SubSeq(full, 1, n)[i] = full[i]
  <2> HIDE DEF full, Steps
  <2> SUFFICES ASSUME NEW n \in 1..2
               PROVE  /\ SubSeq(full, 1, n) \in Seq(Steps) /\ Len(SubSeq(full, 1, n)) = n
                      /\ \A i \in 1..n : SubSeq(full, 1, n)[i] = full[i]
    OBVIOUS
  <2>1. \A i \in 1..n : full[i] \in Steps
    BY <1>1
  <2>2. n \in Int /\ 1 \in Int
    OBVIOUS
  <2> QED  BY <2>1, <2>2, SubSeqProperties
<1>4. \A n \in 1..2, t \in Seq(Steps) :
        Len(t) = n /\ (\A i \in 1..n : t[i] = full[i]) => SubSeq(full, 1, n) = t
  <2> HIDE DEF full, Steps
  <2> QED  BY <1>3, SeqEqual
<1>5. SubSeq(full, 1, 1) = <<"create">>
  <2> DEFINE t == <<"create">>
  <2>1. /\ t \in Seq(Steps) /\ Len(t) = 1 /\ \A i \in 1..1 : t[i] = full[i]
    BY <1>1
  <2>2. SubSeq(full, 1, 1) = t
    <3> HIDE DEF full, Steps, t
    <3> QED  BY <1>4, <2>1
  <2> QED  BY <2>2
<1>6. SubSeq(full, 1, 2) = <<"create", "ack">>
  <2> DEFINE t == <<"create", "ack">>
  <2>1. /\ t \in Seq(Steps) /\ Len(t) = 2 /\ \A i \in 1..2 : t[i] = full[i]
    BY <1>1
  <2>2. SubSeq(full, 1, 2) = t
    <3> HIDE DEF full, Steps, t
    <3> QED  BY <1>4, <2>1
  <2> QED  BY <2>2
<1> QED  BY <1>2, <1>5, <1>6

\* However requests of operators overlap and fail, an alarm is resolved by one of
\* them, its log is its history, and M5 is told of it by that request alone, or its
\* caller is not answered "ok" (UpdateAlarmStatus, transition, publishAlarmEvent).
THEOREM ResolvedCorrect == LifecycleSpec => []ResolvedOnce
<1>1. ASSUME LifecycleIInv  PROVE ResolvedOnce
  <2>1. Cardinality(Resolvers) <= 1
    BY <1>1, AtMostOne DEF LifecycleIInv, Told
  <2>2. trail = SubSeq(<<"create", "ack", "resolve">>, 1,
                       CASE status = "pending" -> 1 [] status = "acked" -> 2 [] OTHER -> 3)
    <3>1. CASE status = "pending"
      <4>1. trail = <<"create">>
        BY <1>1, <3>1 DEF LifecycleIInv, Written
      <4> QED  BY <3>1, <4>1, Histories
    <3>2. CASE status = "acked"
      <4>1. trail = <<"create", "ack">>
        BY <1>1, <3>2 DEF LifecycleIInv, Written
      <4> QED  BY <3>2, <4>1, Histories
    <3>3. CASE status = "resolved"
      <4>1. trail = <<"create", "ack", "resolve">>
        BY <1>1, <3>3 DEF LifecycleIInv, Written
      <4> QED  BY <3>3, <4>1, Histories
    <3> QED  BY <1>1, <3>1, <3>2, <3>3 DEF LifecycleIInv, LifecycleTypeOK
  <2> QED  BY <1>1, <2>1, <2>2 DEF LifecycleIInv, Told, ResolvedOnce
<1> QED  BY <1>1, LifecycleStarts, LifecycleKeeps, PTL DEF LifecycleSpec
------------------------------------------------------------------------------
(* How an alarm becomes an order.                                          *)

\* A call is for an alarm or by hand, and logs only an order that is there.
Sound(c, made) == c # Free =>
    /\ c.alarm = NoAlarm => c.request \in ByHand /\ c.pc = "create"
    /\ c.alarm # NoAlarm => c.request = c.alarm
    /\ c.pc = "log" => [no |-> c.no, alarm |-> c.alarm] \in made

AllSound == \A t \in Threads : Sound(intake[t], orders)

IntakeIInv == IntakeTypeOK /\ AllSound /\ OneOrderPerAlarm

LEMMA IntakeStarts == IntakeInit => IntakeIInv
<1> SUFFICES ASSUME IntakeInit  PROVE IntakeIInv
  OBVIOUS
<1>1. IntakeTypeOK
  BY IntakeAssumption DEF IntakeInit, IntakeTypeOK
<1>2. AllSound
  BY DEF IntakeInit, AllSound, Sound
<1>3. OneOrderPerAlarm
  BY DEF IntakeInit, OneOrderPerAlarm
<1> QED  BY <1>1, <1>2, <1>3 DEF IntakeIInv

\* The counter of a process wraps round within its range.
LEMMA Counted ==
  ASSUME IntakeTypeOK, NEW t \in Threads, TakesNumber(t)
  PROVE  NewTaskNo(t) \in TaskNo /\ counter' \in [Processes -> 0..Numbers - 1]
<1>1. ProcessOf[t] \in Processes /\ counter[ProcessOf[t]] \in 0..Numbers - 1
  BY IntakeAssumption DEF IntakeTypeOK
<1>2. Advanced(t) \in 0..Numbers - 1
  BY <1>1, IntakeAssumption DEF Advanced
<1> QED  BY <1>1, <1>2 DEF IntakeTypeOK, TakesNumber, NewTaskNo, TaskNo

\* A call that has begun has its fields.
LEMMA CallHasFields ==
  ASSUME IntakeTypeOK, NEW t \in Threads, intake[t].pc \in {"create", "log"}
  PROVE  /\ intake[t] \in Calls /\ intake[t] # Free
         /\ intake[t].alarm \in Alarms \cup {NoAlarm} /\ intake[t].no \in TaskNo
         /\ intake[t].request \in Alarms \cup ByHand /\ intake[t].attempt \in 1..MaxAttempts
<1>1. intake[t] \in Calls \cup {Free}
  BY DEF IntakeTypeOK
<1>2. intake[t] # Free
  BY DEF Free
<1> QED  BY <1>1, <1>2 DEF Calls

\* One call moves.
LEMMA CallMoves ==
  ASSUME IntakeIInv, NEW t \in Threads, NEW c \in Calls \cup {Free},
         intake' = [intake EXCEPT ![t] = c], orders \subseteq orders', Sound(c, orders')
  PROVE  intake' \in [Threads -> Calls \cup {Free}] /\ AllSound'
<1>1. intake \in [Threads -> Calls \cup {Free}]
  BY DEF IntakeIInv, IntakeTypeOK
<1>2. intake'[t] = c /\ \A u \in Threads \ {t} : intake'[u] = intake[u]
  BY <1>1
<1>3. \A u \in Threads \ {t} : Sound(intake[u], orders')
  BY DEF IntakeIInv, AllSound, Sound
<1> QED  BY <1>1, <1>2, <1>3 DEF AllSound

\* Nothing is written but a log row, and an alarm settled has its order.
LEMMA OrdersKept ==
  ASSUME IntakeIInv, UNCHANGED <<orders, answered>>, audit \subseteq audit',
         \A a \in settled' : a \in settled \/ \E o \in orders : o.alarm = a
  PROVE  OneOrderPerAlarm'
  BY DEF IntakeIInv, OneOrderPerAlarm

LEMMA BeginsSafe ==
  ASSUME IntakeIInv, NEW t \in Threads, NEW alarm \in Alarms \cup {NoAlarm},
         NEW request \in Alarms \cup ByHand, Begins(t, alarm, request),
         IF alarm = NoAlarm THEN request \in ByHand ELSE request = alarm,
         UNCHANGED <<orders, audit, second, settled, answered, intakeFaults>>,
         delivered' \in [Alarms -> 0..MaxIntakes]
  PROVE  IntakeIInv'
<1> DEFINE c == [pc |-> "create", alarm |-> alarm, request |-> request,
                 no |-> NewTaskNo(t), attempt |-> 1]
<1>1. NewTaskNo(t) \in TaskNo /\ counter' \in [Processes -> 0..Numbers - 1]
  BY Counted DEF IntakeIInv, Begins
<1>2. 1 \in 1..MaxAttempts
  BY IntakeAssumption
<1>3. c \in Calls /\ Sound(c, orders')
  BY <1>1, <1>2 DEF Calls, Sound
<1>4. intake' = [intake EXCEPT ![t] = c]
  BY DEF Begins
<1>5. intake' \in [Threads -> Calls \cup {Free}] /\ AllSound'
  <2> HIDE DEF c
  <2> QED  BY <1>3, <1>4, CallMoves
<1>6. IntakeTypeOK'
  BY <1>1, <1>5 DEF IntakeIInv, IntakeTypeOK
<1>7. OneOrderPerAlarm'
  BY OrdersKept
<1> QED  BY <1>5, <1>6, <1>7 DEF IntakeIInv

LEMMA TakeAlarmSafe ==
  ASSUME IntakeIInv, NEW t \in Threads, NEW a \in Alarms, TakeAlarm(t, a)
  PROVE  IntakeIInv'
<1>1. delivered' \in [Alarms -> 0..MaxIntakes]
  BY IntakeAssumption DEF IntakeIInv, IntakeTypeOK, TakeAlarm
<1> QED  BY <1>1, BeginsSafe, IntakeAssumption DEF TakeAlarm

LEMMA SubmitSafe ==
  ASSUME IntakeIInv, NEW t \in Threads, NEW h \in ByHand, Submit(t, h)
  PROVE  IntakeIInv'
<1>1. delivered' \in [Alarms -> 0..MaxIntakes]
  BY DEF IntakeIInv, IntakeTypeOK, Submit
<1> QED  BY <1>1, BeginsSafe DEF Submit

LEMMA CreateOrderSafe ==
  ASSUME IntakeIInv, NEW t \in Threads, CreateOrder(t)
  PROVE  IntakeIInv'
<1> DEFINE c == intake[t]
           made == [no |-> c.no, alarm |-> c.alarm]
<1>1. /\ c.pc = "create" /\ SameNumber(c) = {} /\ SameAlarm(c) = {}
      /\ orders' = orders \cup {made}
      /\ UNCHANGED <<counter, second, delivered, intakeFaults>>
  BY DEF CreateOrder
<1>2. /\ c \in Calls /\ c # Free /\ c.alarm \in Alarms \cup {NoAlarm}
      /\ c.no \in TaskNo /\ c.request \in Alarms \cup ByHand
  BY <1>1, CallHasFields DEF IntakeIInv
<1>3. made \in [no : TaskNo, alarm : Alarms \cup {NoAlarm}] /\ made.no = c.no /\ made.alarm = c.alarm
  BY <1>2
<1>4. \A o \in orders : o.no # c.no /\ (c.alarm = NoAlarm \/ o.alarm # c.alarm)
  BY <1>1 DEF SameNumber, SameAlarm
<1>5. \A o1, o2 \in orders' :
        o1 # o2 => o1.no # o2.no /\ (o1.alarm # o2.alarm \/ o1.alarm = NoAlarm)
  <2> HIDE DEF c, made
  <2> QED  BY <1>1, <1>3, <1>4 DEF IntakeIInv, OneOrderPerAlarm
<1>6. orders' \subseteq [no : TaskNo, alarm : Alarms \cup {NoAlarm}]
  BY <1>1, <1>3 DEF IntakeIInv, IntakeTypeOK
<1>7. Sound(c, orders)
  BY DEF IntakeIInv, AllSound
<1>8. \A h \in ByHand : answered[h] # <<>> =>
        [no |-> answered[h], alarm |-> NoAlarm] \in orders /\ answered[h] # c.no
  BY <1>4 DEF IntakeIInv, OneOrderPerAlarm
<1>9. CASE c.alarm = NoAlarm
  <2>1. /\ audit' = audit \cup {c.no} /\ intake' = [intake EXCEPT ![t] = Free]
        /\ settled' = (settled \cup {NoAlarm}) \ {NoAlarm}
        /\ c.request \in ByHand
        /\ answered' = [answered EXCEPT ![c.request] = c.no]
    BY <1>2, <1>7, <1>9 DEF CreateOrder, Returns, Sound
  <2>2. settled' = settled
    BY <2>1, IntakeAssumption DEF IntakeIInv, IntakeTypeOK
  <2>3. intake' \in [Threads -> Calls \cup {Free}] /\ AllSound'
    BY <1>1, <2>1, CallMoves DEF Sound
  <2>4. /\ answered' \in [ByHand -> TaskNo \cup {<<>>}] /\ answered'[c.request] = c.no
        /\ \A h \in ByHand \ {c.request} : answered'[h] = answered[h]
    BY <1>2, <2>1 DEF IntakeIInv, IntakeTypeOK
  <2>5. IntakeTypeOK'
    BY <1>1, <1>2, <1>6, <2>1, <2>2, <2>3, <2>4 DEF IntakeIInv, IntakeTypeOK
  <2>6. \A h \in ByHand : answered'[h] # <<>> =>
          /\ [no |-> answered'[h], alarm |-> NoAlarm] \in orders'
          /\ answered'[h] \in audit'
          /\ \A g \in ByHand \ {h} : answered'[g] # answered'[h]
    <3> SUFFICES ASSUME NEW h \in ByHand, answered'[h] # <<>>
                 PROVE  /\ [no |-> answered'[h], alarm |-> NoAlarm] \in orders'
                        /\ answered'[h] \in audit'
                        /\ \A g \in ByHand \ {h} : answered'[g] # answered'[h]
      OBVIOUS
    <3>1. CASE h = c.request
      <4>1. [no |-> answered'[h], alarm |-> NoAlarm] = made
        BY <1>9, <2>4, <3>1
      <4>2. \A g \in ByHand \ {h} : answered'[g] # c.no
        <5> SUFFICES ASSUME NEW g \in ByHand \ {h}, answered'[g] = c.no  PROVE FALSE
          OBVIOUS
        <5>1. answered[g] = c.no
          BY <2>4, <3>1
        <5>2. c.no # <<>>
          <6>1. PICK a \in 0..MaxIntakeFaults, b \in 0..Numbers - 1 : c.no = <<a, b>>
            BY <1>2 DEF TaskNo
          <6>2. Len(<<a, b>>) = 2 /\ Len(<<>>) = 0
            OBVIOUS
          <6> QED  BY <6>1, <6>2
        <5> QED  BY <1>8, <5>1, <5>2
      <4> QED  BY <1>1, <2>1, <2>4, <3>1, <4>1, <4>2
    <3>2. CASE h # c.request
      <4>1. answered'[h] = answered[h] /\ answered[h] # c.no
        BY <1>8, <2>4, <3>2
      <4>2. /\ [no |-> answered[h], alarm |-> NoAlarm] \in orders /\ answered[h] \in audit
            /\ \A g \in ByHand \ {h} : answered[g] # answered[h]
        BY <4>1 DEF IntakeIInv, OneOrderPerAlarm
      <4>3. \A g \in ByHand \ {h} : answered'[g] # answered'[h]
        BY <2>4, <4>1, <4>2
      <4> QED  BY <1>1, <2>1, <4>1, <4>2, <4>3
    <3> QED  BY <3>1, <3>2
  <2>7. \A a \in settled' : \E o \in orders' : o.alarm = a
    BY <1>1, <2>2 DEF IntakeIInv, OneOrderPerAlarm
  <2>8. OneOrderPerAlarm'
    BY <1>5, <2>6, <2>7 DEF OneOrderPerAlarm
  <2> QED  BY <2>3, <2>5, <2>8 DEF IntakeIInv
<1>10. CASE c.alarm # NoAlarm
  <2> DEFINE d == [c EXCEPT !.pc = "log"]
  <2>1. UNCHANGED <<audit, settled, answered>> /\ intake' = [intake EXCEPT ![t] = d]
    BY <1>10 DEF CreateOrder
  <2>2. d \in Calls
    BY <1>2 DEF Calls
  <2>3. /\ d.alarm = c.alarm /\ d.no = c.no /\ d.request = c.request
    BY <1>2 DEF Calls
  <2>4. Sound(d, orders')
    BY <1>1, <1>2, <1>7, <1>10, <2>3 DEF Sound
  <2>5. intake' \in [Threads -> Calls \cup {Free}] /\ AllSound'
    <3> HIDE DEF d, c, made
    <3> QED  BY <1>1, <2>1, <2>2, <2>4, CallMoves
  <2>6. IntakeTypeOK'
    BY <1>1, <1>6, <2>1, <2>5 DEF IntakeIInv, IntakeTypeOK
  <2>7. OneOrderPerAlarm'
    BY <1>1, <1>5, <2>1 DEF IntakeIInv, OneOrderPerAlarm
  <2> QED  BY <2>5, <2>6, <2>7 DEF IntakeIInv
<1> QED  BY <1>9, <1>10

\* A call of an alarm, or one that failed, is over.
LEMMA ReturnsSafe ==
  ASSUME IntakeIInv, NEW t \in Threads, NEW done \in BOOLEAN,
         intake[t] \in Calls, Returns(t, intake[t], done),
         done => intake[t].alarm \in Alarms /\ \E o \in orders : o.alarm = intake[t].alarm,
         UNCHANGED <<orders, delivered>>, second' \in 0..MaxIntakeFaults,
         audit \subseteq audit', audit' \subseteq TaskNo,
         counter' \in [Processes -> 0..Numbers - 1], intakeFaults' \in 0..MaxIntakeFaults
  PROVE  IntakeIInv'
<1> DEFINE c == intake[t]
<1>1. intake' \in [Threads -> Calls \cup {Free}] /\ AllSound'
  <2>1. intake' = [intake EXCEPT ![t] = Free] /\ Sound(Free, orders')
    BY DEF Returns, Sound
  <2> QED  BY <2>1, CallMoves
<1>2. answered' = answered
  <2>1. CASE done
    <3>1. c # Free /\ c.alarm # NoAlarm /\ Sound(c, orders)
      BY <2>1, IntakeAssumption DEF IntakeIInv, AllSound, Calls, Free
    <3>2. c.request = c.alarm
      BY <3>1 DEF Sound
    <3> QED  BY <2>1, <3>2, IntakeAssumption DEF Returns
  <2>2. CASE ~done
    BY <2>2 DEF Returns
  <2> QED  BY <2>1, <2>2
<1>3. settled' \subseteq Alarms /\ \A a \in settled' : a \in settled \/ \E o \in orders : o.alarm = a
  BY DEF Returns, IntakeIInv, IntakeTypeOK
<1>4. IntakeTypeOK'
  BY <1>1, <1>2, <1>3 DEF IntakeIInv, IntakeTypeOK
<1>5. OneOrderPerAlarm'
  BY <1>2, <1>3, OrdersKept
<1> QED  BY <1>1, <1>4, <1>5 DEF IntakeIInv

LEMMA SkipSafe ==
  ASSUME IntakeIInv, NEW t \in Threads, Skip(t)
  PROVE  IntakeIInv'
<1>1. intake[t] \in Calls /\ intake[t].alarm \in Alarms \cup {NoAlarm}
  BY CallHasFields DEF IntakeIInv, Skip
<1>2. intake[t].alarm # NoAlarm /\ \E o \in orders : o.alarm = intake[t].alarm
  BY DEF Skip, AlreadyMade, SameAlarm
<1>3. /\ second' \in 0..MaxIntakeFaults /\ audit' \subseteq TaskNo /\ audit \subseteq audit'
      /\ counter' \in [Processes -> 0..Numbers - 1] /\ intakeFaults' \in 0..MaxIntakeFaults
      /\ UNCHANGED <<orders, delivered>>
  BY DEF IntakeIInv, IntakeTypeOK, Skip
<1>4. Returns(t, intake[t], TRUE)
  BY DEF Skip
<1> QED  BY <1>1, <1>2, <1>3, <1>4, ReturnsSafe

LEMMA RenumberSafe ==
  ASSUME IntakeIInv, NEW t \in Threads, Renumber(t)
  PROVE  IntakeIInv'
<1> DEFINE c == intake[t]
<1>1. /\ c \in Calls /\ c # Free /\ c.attempt \in 1..MaxAttempts /\ c.pc = "create"
  BY CallHasFields DEF IntakeIInv, Renumber
<1>2. NewTaskNo(t) \in TaskNo /\ counter' \in [Processes -> 0..Numbers - 1]
  BY Counted DEF IntakeIInv, Renumber
<1>3. UNCHANGED <<orders, audit, second, delivered, intakeFaults>>
  BY DEF Renumber
<1>4. CASE c.attempt < MaxAttempts
  <2> DEFINE d == [c EXCEPT !.no = NewTaskNo(t), !.attempt = c.attempt + 1]
  <2>1. UNCHANGED <<settled, answered>> /\ intake' = [intake EXCEPT ![t] = d]
    BY <1>4 DEF Renumber, IntakeIInv, IntakeTypeOK
  <2>2. c.attempt + 1 \in 1..MaxAttempts
    BY <1>1, <1>4, IntakeAssumption
  <2>3. d \in Calls /\ d.pc = "create" /\ d.alarm = c.alarm /\ d.request = c.request
    BY <1>1, <1>2, <2>2 DEF Calls
  <2>4. Sound(c, orders)
    BY DEF IntakeIInv, AllSound
  <2>5. Sound(d, orders')
    BY <1>1, <1>3, <2>3, <2>4 DEF Sound
  <2>6. intake' \in [Threads -> Calls \cup {Free}] /\ AllSound'
    <3> HIDE DEF d, c
    <3> QED  BY <1>3, <2>1, <2>3, <2>5, CallMoves
  <2>7. IntakeTypeOK'
    BY <1>2, <1>3, <2>1, <2>6 DEF IntakeIInv, IntakeTypeOK
  <2>8. OneOrderPerAlarm'
    BY <1>3, <2>1, OrdersKept
  <2> QED  BY <2>6, <2>7, <2>8 DEF IntakeIInv
<1>5. CASE ~(c.attempt < MaxAttempts)
  <2>1. Returns(t, c, FALSE)
    BY <1>5 DEF Renumber
  <2>2. /\ second' \in 0..MaxIntakeFaults /\ audit' \subseteq TaskNo
        /\ intakeFaults' \in 0..MaxIntakeFaults /\ audit \subseteq audit'
    BY <1>3 DEF IntakeIInv, IntakeTypeOK
  <2> QED  BY <1>1, <1>2, <1>3, <2>1, <2>2, ReturnsSafe
<1> QED  BY <1>4, <1>5

LEMMA CreateOrderFailsSafe ==
  ASSUME IntakeIInv, NEW t \in Threads, CreateOrderFails(t)
  PROVE  IntakeIInv'
<1>1. intake[t] \in Calls
  BY CallHasFields DEF IntakeIInv, CreateOrderFails
<1>2. /\ second' \in 0..MaxIntakeFaults /\ audit' \subseteq TaskNo /\ audit \subseteq audit'
      /\ counter' \in [Processes -> 0..Numbers - 1] /\ intakeFaults' \in 0..MaxIntakeFaults
      /\ UNCHANGED <<orders, delivered>>
  BY IntakeAssumption DEF IntakeIInv, IntakeTypeOK, CreateOrderFails
<1>3. Returns(t, intake[t], FALSE)
  BY DEF CreateOrderFails
<1> QED  BY <1>1, <1>2, <1>3, ReturnsSafe

LEMMA LogSafe ==
  ASSUME IntakeIInv, NEW t \in Threads, Log(t)
  PROVE  IntakeIInv'
<1>1. /\ intake[t] \in Calls /\ intake[t] # Free /\ intake[t].no \in TaskNo
      /\ intake[t].alarm \in Alarms \cup {NoAlarm} /\ intake[t].pc = "log"
  BY CallHasFields DEF IntakeIInv, Log
<1>2. /\ intake[t].alarm # NoAlarm
      /\ [no |-> intake[t].no, alarm |-> intake[t].alarm] \in orders
  BY <1>1 DEF IntakeIInv, AllSound, Sound
<1>3. /\ second' \in 0..MaxIntakeFaults /\ audit' \subseteq TaskNo /\ audit \subseteq audit'
      /\ counter' \in [Processes -> 0..Numbers - 1] /\ intakeFaults' \in 0..MaxIntakeFaults
      /\ UNCHANGED <<orders, delivered>>
  BY <1>1, IntakeAssumption DEF IntakeIInv, IntakeTypeOK, Log
<1>4. Returns(t, intake[t], TRUE) /\ \E o \in orders : o.alarm = intake[t].alarm
  BY <1>2 DEF Log
<1> QED  BY <1>1, <1>2, <1>3, <1>4, ReturnsSafe

LEMMA InstanceDiesSafe ==
  ASSUME IntakeIInv, NEW p \in Processes, InstanceDies(p)
  PROVE  IntakeIInv'
<1>1. /\ intakeFaults' \in 0..MaxIntakeFaults
      /\ counter' \in [Processes -> 0..Numbers - 1]
      /\ UNCHANGED <<orders, audit, second, delivered, settled, answered>>
  BY IntakeAssumption DEF IntakeIInv, IntakeTypeOK, InstanceDies
<1>2. /\ intake' \in [Threads -> Calls \cup {Free}]
      /\ \A t \in Threads : intake'[t] \in {Free, intake[t]}
  BY DEF IntakeIInv, IntakeTypeOK, InstanceDies
<1>3. AllSound'
  <2> SUFFICES ASSUME NEW t \in Threads  PROVE Sound(intake'[t], orders')
    BY DEF AllSound
  <2>1. CASE intake'[t] = Free
    BY <2>1 DEF Sound
  <2>2. CASE intake'[t] = intake[t]
    BY <1>1, <2>2 DEF IntakeIInv, AllSound
  <2> QED  BY <1>2, <2>1, <2>2
<1>4. IntakeTypeOK'
  BY <1>1, <1>2 DEF IntakeIInv, IntakeTypeOK
<1>5. OneOrderPerAlarm'
  BY <1>1, OrdersKept
<1> QED  BY <1>3, <1>4, <1>5 DEF IntakeIInv

LEMMA IntakeKeeps == IntakeIInv /\ [IntakeNext]_intakeVars => IntakeIInv'
<1> SUFFICES ASSUME IntakeIInv, [IntakeNext]_intakeVars  PROVE IntakeIInv'
  OBVIOUS
<1>1. CASE UNCHANGED intakeVars
  <2>1. IntakeTypeOK' /\ AllSound'
    BY <1>1 DEF IntakeIInv, IntakeTypeOK, AllSound, intakeVars
  <2>2. OneOrderPerAlarm'
    BY <1>1, OrdersKept DEF intakeVars
  <2> QED  BY <2>1, <2>2 DEF IntakeIInv
<1>2. CASE SecondPasses
  <2>1. IntakeTypeOK'
    BY <1>2, IntakeAssumption DEF IntakeIInv, IntakeTypeOK, SecondPasses
  <2>2. AllSound' /\ OneOrderPerAlarm'
    BY <1>2, OrdersKept DEF IntakeIInv, AllSound, SecondPasses
  <2> QED  BY <2>1, <2>2 DEF IntakeIInv
<1> QED
  BY <1>1, <1>2, TakeAlarmSafe, SubmitSafe, CreateOrderSafe, SkipSafe, RenumberSafe,
     CreateOrderFailsSafe, LogSafe, InstanceDiesSafe DEF IntakeNext

\* However deliveries, clashing numbers and deaths of instances interleave, an alarm
\* that was settled has its one order, and whoever was answered a number by hand has
\* an order of their own under it (Handle, TaskCreate, NewTaskNo).
THEOREM IntakeCorrect == IntakeSpec => []OneOrderPerAlarm
<1>1. IntakeIInv => OneOrderPerAlarm
  BY DEF IntakeIInv
<1> QED  BY <1>1, IntakeStarts, IntakeKeeps, PTL DEF IntakeSpec

------------------------------------------------------------------------------
(* The hubs.                                                               *)

\* A broadcast whose loop over the clients of i is still to come by way of its own
\* goroutine, and not by the bus.
Coming(m, i) ==
  IF mode = "relay" THEN stage[m] \in {"new", "publish"}
  ELSE IF i = Origin[m] THEN stage[m] = "new" ELSE stage[m] # "done"

\* How often c has got m, and how often it may still get it: in a loop that has begun, by
\* the bus, or by what the goroutine has still to do.
Got(c, m)      == received[c][m]
InLoop(c, m)   == IF c \in todo[m][HomeOf[c]] THEN 1 ELSE 0
OnTheBus(c, m) == IF <<m, HomeOf[c]>> \in bus /\ Accepts(m, HomeOf[c]) THEN 1 ELSE 0
ToCome(c, m)   == IF Coming(m, HomeOf[c]) THEN 1 ELSE 0
Twice(m)       == IF mode = "relay" /\ m \in lostReply THEN 1 ELSE 0

Fair(c, m) == Got(c, m) + InLoop(c, m) + OnTheBus(c, m) + ToCome(c, m) <= 1 + Twice(m)

\* A loop serves registered clients of its own instance.
Serves(m, i) ==
  /\ todo[m][i] \subseteq {c \in registered : HomeOf[c] = i}
  /\ <<m, i>> \notin looping => todo[m][i] = {}

HubIInv ==
  /\ HubTypeOK
  /\ ~panicked
  /\ registered \cap closed = {}
  /\ \A c \in Clients : reader[c] = "new" => c \notin registered \cup closed
  /\ \A m \in Messages, i \in Instances : Serves(m, i)
  /\ \A m \in lostReply : stage[m] = "done" \/ (mode = "relay" /\ stage[m] = "local")
  /\ lostReply \subseteq Messages
  /\ \A c \in Clients, m \in Messages : Fair(c, m)

LEMMA HubStarts == ASSUME HubInit PROVE HubIInv
<1>1. HubTypeOK
  BY HubAssumption DEF HubInit, HubTypeOK
<1>2. ASSUME NEW c \in Clients, NEW m \in Messages  PROVE Fair(c, m)
  <2>1. HomeOf[c] \in Instances
    BY HubAssumption
  <2>2. Got(c, m) = 0 /\ InLoop(c, m) = 0 /\ OnTheBus(c, m) = 0 /\ ToCome(c, m) = 1 /\ Twice(m) = 0
    BY <2>1 DEF HubInit, Got, InLoop, OnTheBus, ToCome, Twice, Coming
  <2> QED  BY <2>2 DEF Fair
<1> QED  BY <1>1, <1>2 DEF HubInit, HubIInv, Serves

LEMMA NumbersAre ==
  ASSUME HubTypeOK, NEW c \in Clients, NEW m \in Messages
  PROVE  /\ Got(c, m) \in Nat /\ InLoop(c, m) \in {0, 1} /\ OnTheBus(c, m) \in {0, 1}
         /\ ToCome(c, m) \in {0, 1} /\ Twice(m) \in {0, 1}
BY DEF HubTypeOK, Got, InLoop, OnTheBus, ToCome, Twice

\* Connections come and go while no loop serves them.
LEMMA ConnectionsKeep ==
  ASSUME HubIInv, HubTypeOK', NEW d \in Clients, UNCHANGED <<mode, received, lostReply>>, UNCHANGED castVars,
         \A c \in Clients \ {d} : /\ reader'[c] = reader[c]
                                  /\ c \in registered' <=> c \in registered
                                  /\ c \in closed' <=> c \in closed,
         ~panicked', d \notin registered' \/ d \notin closed', reader'[d] # "new",
         d \in registered /\ d \notin registered' => WriteLock(HomeOf[d])
  PROVE  HubIInv'
<1>1. ASSUME NEW m \in Messages, NEW i \in Instances  PROVE Serves(m, i)'
  <2>1. Serves(m, i)
    BY DEF HubIInv
  <2>2. ASSUME d \in registered, d \notin registered'  PROVE d \notin todo[m][i]
    <3>1. <<m, HomeOf[d]>> \notin looping
      BY <2>2 DEF WriteLock, ReadLocked
    <3> QED  BY <2>1, <3>1 DEF Serves
  <2>3. registered \subseteq Clients
    BY DEF HubIInv, HubTypeOK
  <2> QED  BY <2>1, <2>2, <2>3 DEF Serves, castVars
<1>2. ASSUME NEW c \in Clients, NEW m \in Messages  PROVE Fair(c, m)'
  <2>1. Fair(c, m)
    BY DEF HubIInv
  <2> QED  BY <2>1 DEF Fair, Got, InLoop, OnTheBus, ToCome, Twice, Coming, Accepts, castVars
<1>3. registered' \cap closed' = {}
  BY DEF HubIInv, HubTypeOK
<1> QED  BY <1>1, <1>2, <1>3 DEF HubIInv, castVars

\* Who is in a loop is registered there, and has an open channel.
LEMMA ServedAre ==
  ASSUME HubIInv, NEW m \in Messages, NEW i \in Instances, NEW c \in todo[m][i]
  PROVE  c \in Clients /\ c \in registered /\ c \notin closed /\ HomeOf[c] = i
BY DEF HubIInv, HubTypeOK, Serves

\* A writer takes a message, or stops.
LEMMA BufferShrinks ==
  ASSUME HubTypeOK, NEW c \in Clients,
         \/ buffer' = [buffer EXCEPT ![c] = Tail(@)] /\ buffer[c] # <<>>
         \/ buffer' = [buffer EXCEPT ![c] = IF @ = <<>> THEN @ ELSE Tail(@)]
         \/ buffer' = buffer
  PROVE  buffer' \in [Clients -> Seq(Messages)] /\ \A d \in Clients : Len(buffer'[d]) <= BufferSize
<1>1. /\ buffer[c] \in Seq(Messages) /\ Len(buffer[c]) \in Nat /\ Len(buffer[c]) <= BufferSize
      /\ buffer[c] # <<>> => Tail(buffer[c]) \in Seq(Messages) /\ Len(Tail(buffer[c])) = Len(buffer[c]) - 1
  BY DEF HubTypeOK
<1>2. PICK b \in Seq(Messages) : Len(b) <= BufferSize /\ buffer' = [buffer EXCEPT ![c] = b]
  <2>1. CASE buffer[c] = <<>>
    <3>1. buffer' = [buffer EXCEPT ![c] = buffer[c]]
      BY <2>1 DEF HubTypeOK
    <3> QED  BY <1>1, <3>1
  <2>2. CASE buffer[c] # <<>> /\ buffer' = buffer
    <3>1. buffer' = [buffer EXCEPT ![c] = buffer[c]]
      BY <2>2 DEF HubTypeOK
    <3> QED  BY <1>1, <3>1
  <2>3. CASE buffer[c] # <<>> /\ buffer' = [buffer EXCEPT ![c] = Tail(buffer[c])]
    <3>1. Len(Tail(buffer[c])) <= BufferSize
      BY <1>1, <2>3, HubAssumption
    <3> QED  BY <1>1, <2>3, <3>1
  <2> QED  BY <2>1, <2>2, <2>3
<1> QED  BY <1>2 DEF HubTypeOK

\* What one client's connection does.
LEMMA ClientKeeps ==
  ASSUME HubIInv, NEW c \in Clients, Register(c) \/ PeerGone(c) \/ ClientStep(c)
  PROVE  HubIInv'
<1>0. HubTypeOK /\ ~panicked /\ (reader[c] = "new" => c \notin registered \cup closed)
      /\ (c \in registered => c \notin closed)
  BY DEF HubIInv
<1>1. CASE Register(c)
  <2>1. HubTypeOK'
    BY <1>0, <1>1 DEF Register, castVars, HubTypeOK
  <2>2. /\ UNCHANGED <<mode, received, lostReply, panicked, castVars, closed>>
        /\ registered' = registered \cup {c} /\ c \notin closed /\ reader'[c] = "reading"
        /\ \A d \in Clients \ {c} : reader'[d] = reader[d]
    BY <1>0, <1>1 DEF Register, castVars, HubTypeOK
  <2> QED  BY <1>0, <2>1, <2>2, ConnectionsKeep
<1>2. CASE PeerGone(c) \/ ReadFails(c)
  <2>1. HubTypeOK'
    BY <1>0, <1>2 DEF PeerGone, ReadFails, castVars, HubTypeOK
  <2>2. /\ UNCHANGED <<mode, received, lostReply, panicked, castVars, closed, registered>>
        /\ reader'[c] = "leaving"
        /\ \A d \in Clients \ {c} : reader'[d] = reader[d]
    BY <1>0, <1>2 DEF PeerGone, ReadFails, castVars, HubTypeOK
  <2> QED  BY <1>0, <2>1, <2>2, ConnectionsKeep
<1>3. CASE ReaderLeaves(c) \/ Kick(c)
  <2>0. Unregister(c) /\ open' = open \ {c} /\ buffer' = buffer
    BY <1>3 DEF ReaderLeaves, Kick
  <2>1. HubTypeOK'
    BY <1>0, <1>3, <2>0 DEF ReaderLeaves, Kick, Unregister, castVars, HubTypeOK
  <2>2. /\ UNCHANGED <<mode, received, lostReply, castVars>>
        /\ reader' = reader \/ reader' = [reader EXCEPT ![c] = "done"]
        /\ reader[c] = "leaving" \/ (c \in kicks /\ reader' = reader)
    BY <1>3 DEF ReaderLeaves, Kick
  <2>3. /\ WriteLock(HomeOf[c]) /\ registered' = registered \ {c}
        /\ closed' = IF c \in registered THEN closed \cup {c} ELSE closed
        /\ ~panicked'
    BY <1>0, <2>0 DEF Unregister, IsRegistered
  <2>4. CASE reader[c] # "new"
    <3>1. reader'[c] # "new" /\ \A d \in Clients \ {c} : reader'[d] = reader[d]
      BY <1>0, <2>2, <2>4 DEF HubTypeOK
    <3>2. \A d \in Clients \ {c} : /\ d \in registered' <=> d \in registered
                                  /\ d \in closed' <=> d \in closed
      BY <2>3
    <3> QED  BY <2>1, <2>2, <2>3, <3>1, <3>2, ConnectionsKeep
  <2>5. CASE reader[c] = "new"
    <3>1. UNCHANGED <<registered, closed, reader>>
      BY <1>0, <2>2, <2>3, <2>5
    <3>2. ASSUME NEW m \in Messages, NEW i \in Instances  PROVE Serves(m, i)'
      BY <2>2, <3>1 DEF HubIInv, Serves, castVars
    <3>3. ASSUME NEW d \in Clients, NEW m \in Messages  PROVE Fair(d, m)'
      <4>1. Fair(d, m)
        BY DEF HubIInv
      <4> QED  BY <2>2, <4>1 DEF Fair, Got, InLoop, OnTheBus, ToCome, Twice, Coming, Accepts, castVars
    <3> QED  BY <2>1, <2>2, <2>3, <3>1, <3>2, <3>3 DEF HubIInv, castVars
  <2> QED  BY <2>4, <2>5
<1>4. CASE Write(c) \/ WriteFails(c) \/ WriterStops(c)
  <2>1. buffer' \in [Clients -> Seq(Messages)] /\ \A d \in Clients : Len(buffer'[d]) <= BufferSize
    BY <1>0, <1>4, BufferShrinks DEF Write, WriteFails, WriterStops
  <2>2. /\ UNCHANGED <<mode, received, lostReply, panicked, castVars, closed, registered, reader, kicks>>
        /\ open' \subseteq open
    BY <1>4 DEF Write, WriteFails, WriterStops, WriterEnds
  <2>3. HubTypeOK'
    BY <1>0, <2>1, <2>2 DEF castVars, HubTypeOK
  <2>4. ASSUME NEW m \in Messages, NEW i \in Instances  PROVE Serves(m, i)'
    BY <2>2 DEF HubIInv, Serves, castVars
  <2>5. ASSUME NEW d \in Clients, NEW m \in Messages  PROVE Fair(d, m)'
    <3>1. Fair(d, m)
      BY DEF HubIInv
    <3> QED  BY <2>2, <3>1 DEF Fair, Got, InLoop, OnTheBus, ToCome, Twice, Coming, Accepts, castVars
  <2> QED  BY <2>2, <2>3, <2>4, <2>5 DEF HubIInv, castVars
<1> QED  BY <1>1, <1>2, <1>3, <1>4 DEF ClientStep

\* A step of broadcasts that leaves the connections alone: what is left to show.
LEMMA CastsKeep ==
  ASSUME HubIInv, UNCHANGED <<mode, received, panicked>>, UNCHANGED connVars,
         stage' \in [Messages -> {"new", "local", "publish", "done"}],
         looping' \subseteq Messages \X Instances, bus' \subseteq Messages \X Instances,
         subscribed' \subseteq Instances, lostReply' \subseteq Messages,
         todo' \in [Messages -> [Instances -> SUBSET Clients]],
         \A m \in Messages, i \in Instances : Serves(m, i)',
         \A m \in lostReply' : stage'[m] = "done" \/ (mode = "relay" /\ stage'[m] = "local"),
         \A c \in Clients, m \in Messages : Fair(c, m)'
  PROVE  HubIInv'
<1>1. HubTypeOK'
  BY DEF HubIInv, HubTypeOK, connVars
<1> QED  BY <1>1 DEF HubIInv, connVars

\* A loop begins.
LEMMA LoopKeeps ==
  ASSUME HubIInv, NEW m \in Messages, NEW i \in Instances, LoopBegins(m, i), UNCHANGED connVars
  PROVE  /\ todo' \in [Messages -> [Instances -> SUBSET Clients]]
         /\ looping' \subseteq Messages \X Instances
         /\ \A n \in Messages, j \in Instances : Serves(n, j)'
         /\ \A c \in Clients, n \in Messages : n # m \/ HomeOf[c] # i => InLoop(c, n)' = InLoop(c, n)
         /\ \A c \in Clients : HomeOf[c] = i => InLoop(c, m) = 0
<1>1. HubTypeOK
  BY DEF HubIInv
<1>2. /\ todo'[m][i] = {c \in registered \cap Addressees[m] : HomeOf[c] = i}
      /\ \A n \in Messages, j \in Instances : n # m \/ j # i => todo'[n][j] = todo[n][j]
      /\ todo' \in [Messages -> [Instances -> SUBSET Clients]]
  BY <1>1 DEF LoopBegins, HubTypeOK
<1>3. /\ <<m, i>> \notin looping /\ looping' = looping \cup {<<m, i>>} /\ registered' = registered
      /\ looping' \subseteq Messages \X Instances
  BY <1>1 DEF LoopBegins, connVars, HubTypeOK
<1>4. ASSUME NEW n \in Messages, NEW j \in Instances  PROVE Serves(n, j)'
  <2>1. Serves(n, j)
    BY DEF HubIInv
  <2> QED  BY <1>2, <1>3, <2>1 DEF Serves
<1>5. \A c \in Clients : HomeOf[c] = i => InLoop(c, m) = 0
  <2>1. todo[m][i] = {}
    BY <1>3 DEF HubIInv, Serves
  <2> QED  BY <2>1 DEF InLoop
<1>6. ASSUME NEW c \in Clients, NEW n \in Messages, n # m \/ HomeOf[c] # i
      PROVE  InLoop(c, n)' = InLoop(c, n)
  <2>1. todo'[n][HomeOf[c]] = todo[n][HomeOf[c]]
    BY <1>2, <1>6, HubAssumption
  <2> QED  BY <2>1 DEF InLoop
<1> QED  BY <1>2, <1>3, <1>4, <1>5, <1>6

LEMMA BroadcastKeeps ==
  ASSUME HubIInv, NEW m \in Messages, HubBroadcast(m)  PROVE HubIInv'
<1>0. HubTypeOK /\ Origin[m] \in Instances /\ \A c \in Clients : HomeOf[c] \in Instances
  BY HubAssumption DEF HubIInv
<1>1. /\ mode = "fanout" /\ stage[m] = "new" /\ stage' = [stage EXCEPT ![m] = "local"]
      /\ LoopBegins(m, Origin[m]) /\ UNCHANGED <<bus, subscribed, mode, received, lostReply, panicked>>
      /\ UNCHANGED connVars
  BY DEF HubBroadcast, Quiet
<1>2. /\ todo' \in [Messages -> [Instances -> SUBSET Clients]]
      /\ looping' \subseteq Messages \X Instances
      /\ \A n \in Messages, j \in Instances : Serves(n, j)'
      /\ \A c \in Clients, n \in Messages : n # m \/ HomeOf[c] # Origin[m] => InLoop(c, n)' = InLoop(c, n)
      /\ \A c \in Clients : HomeOf[c] = Origin[m] => InLoop(c, m) = 0
  BY <1>0, <1>1, LoopKeeps
<1>3. /\ stage'[m] = "local" /\ \A n \in Messages \ {m} : stage'[n] = stage[n]
      /\ stage' \in [Messages -> {"new", "local", "publish", "done"}]
  BY <1>0, <1>1 DEF HubTypeOK
<1>4. ASSUME NEW c \in Clients, NEW n \in Messages  PROVE Fair(c, n)'
  <2>1. Fair(c, n) /\ Got(c, n)' = Got(c, n) /\ OnTheBus(c, n)' = OnTheBus(c, n) /\ Twice(n)' = Twice(n)
    BY <1>1 DEF HubIInv, Got, OnTheBus, Twice, Accepts
  <2>2. Got(c, n) \in Nat /\ InLoop(c, n) \in {0, 1} /\ OnTheBus(c, n) \in {0, 1}
        /\ ToCome(c, n) \in {0, 1} /\ Twice(n) \in {0, 1}
    BY <1>0, NumbersAre
  <2>3. CASE n # m \/ HomeOf[c] # Origin[m]
    <3>1. InLoop(c, n)' = InLoop(c, n)
      BY <1>2, <2>3
    <3>2. ToCome(c, n)' = ToCome(c, n)
      BY <1>1, <1>3, <2>3 DEF ToCome, Coming
    <3> QED  BY <2>1, <3>1, <3>2 DEF Fair
  <2>4. CASE n = m /\ HomeOf[c] = Origin[m]
    <3>1. ToCome(c, n) = 1 /\ ToCome(c, n)' = 0 /\ InLoop(c, n) = 0
      BY <1>1, <1>2, <1>3, <2>4 DEF ToCome, Coming
    <3>2. InLoop(c, n)' \in {0, 1}
      BY DEF InLoop
    <3> QED  BY <2>1, <2>2, <3>1, <3>2 DEF Fair
  <2> QED  BY <2>3, <2>4
<1>5. \A n \in lostReply' : stage'[n] = "done" \/ (mode = "relay" /\ stage'[n] = "local")
  BY <1>1, <1>3 DEF HubIInv
<1> QED  BY <1>0, <1>1, <1>2, <1>3, <1>4, <1>5, CastsKeep DEF HubIInv, HubTypeOK

\* Where the number of chances of no client grows, the loops being as they are.
LEMMA ChancesKeep ==
  ASSUME HubIInv, UNCHANGED <<mode, received, lostReply>>, NEW c \in Clients, NEW m \in Messages,
         InLoop(c, m)' + OnTheBus(c, m)' + ToCome(c, m)' <= InLoop(c, m) + OnTheBus(c, m) + ToCome(c, m)
  PROVE  Fair(c, m)'
<1>1. HubTypeOK /\ Fair(c, m)
  BY DEF HubIInv
<1>2. Got(c, m)' = Got(c, m) /\ Twice(m)' = Twice(m)
  BY DEF Got, Twice
<1>3. /\ Got(c, m) \in Nat /\ InLoop(c, m) \in {0, 1} /\ OnTheBus(c, m) \in {0, 1}
      /\ ToCome(c, m) \in {0, 1} /\ Twice(m) \in {0, 1}
  BY <1>1, NumbersAre
<1>4. InLoop(c, m)' \in {0, 1} /\ OnTheBus(c, m)' \in {0, 1} /\ ToCome(c, m)' \in {0, 1}
  BY DEF InLoop, OnTheBus, ToCome
<1> QED  BY <1>1, <1>2, <1>3, <1>4 DEF Fair

LEMMA StageKeeps ==
  ASSUME HubIInv, UNCHANGED connVars, UNCHANGED <<mode, received, lostReply, panicked, looping, todo, subscribed>>,
         NEW m \in Messages, NEW s \in {"new", "local", "publish", "done"},
         stage' = [stage EXCEPT ![m] = s],
         m \in lostReply => s = "done",
         bus' \subseteq Messages \X Instances,
         \A c \in Clients, n \in Messages :
           OnTheBus(c, n)' + ToCome(c, n)' <= OnTheBus(c, n) + ToCome(c, n)
  PROVE  HubIInv'
<1>0. HubTypeOK
  BY DEF HubIInv
<1>1. /\ stage'[m] = s /\ \A n \in Messages \ {m} : stage'[n] = stage[n]
      /\ stage' \in [Messages -> {"new", "local", "publish", "done"}]
  BY <1>0 DEF HubTypeOK
<1>2. ASSUME NEW c \in Clients, NEW n \in Messages  PROVE Fair(c, n)'
  <2>1. InLoop(c, n)' = InLoop(c, n)
    BY DEF InLoop
  <2>2. /\ InLoop(c, n) \in {0, 1} /\ OnTheBus(c, n) \in {0, 1} /\ ToCome(c, n) \in {0, 1}
        /\ OnTheBus(c, n)' \in {0, 1} /\ ToCome(c, n)' \in {0, 1}
    BY DEF InLoop, OnTheBus, ToCome
  <2>3. OnTheBus(c, n)' + ToCome(c, n)' <= OnTheBus(c, n) + ToCome(c, n)
    OBVIOUS
  <2>4. InLoop(c, n)' + OnTheBus(c, n)' + ToCome(c, n)' <= InLoop(c, n) + OnTheBus(c, n) + ToCome(c, n)
    BY <2>1, <2>2, <2>3
  <2> QED  BY <2>4, ChancesKeep
<1>3. ASSUME NEW n \in Messages, NEW i \in Instances  PROVE Serves(n, i)'
  BY DEF HubIInv, Serves, connVars
<1>4. ASSUME NEW n \in lostReply'
      PROVE  stage'[n] = "done" \/ (mode = "relay" /\ stage'[n] = "local")
  BY <1>1 DEF HubIInv
<1> QED  BY <1>0, <1>1, <1>2, <1>3, <1>4, CastsKeep DEF HubIInv, HubTypeOK

LEMMA PushKeeps == ASSUME HubIInv, NEW m \in Messages, Push(m)  PROVE HubIInv'
<1>0. HubTypeOK
  BY DEF HubIInv
<1>1. /\ mode = "relay" /\ stage[m] = "new" /\ stage' = [stage EXCEPT ![m] = "publish"]
      /\ UNCHANGED <<looping, todo, bus, subscribed, mode, received, lostReply, panicked>>
      /\ UNCHANGED connVars
  BY DEF Push, Quiet
<1>2. stage'[m] = "publish" /\ \A n \in Messages \ {m} : stage'[n] = stage[n]
  BY <1>0, <1>1 DEF HubTypeOK
<1>3. ASSUME NEW c \in Clients, NEW n \in Messages
      PROVE  OnTheBus(c, n)' + ToCome(c, n)' <= OnTheBus(c, n) + ToCome(c, n)
  <2>1. OnTheBus(c, n)' = OnTheBus(c, n) /\ ToCome(c, n)' = ToCome(c, n)
    BY <1>1, <1>2 DEF OnTheBus, ToCome, Coming, Accepts
  <2>2. OnTheBus(c, n) \in {0, 1} /\ ToCome(c, n) \in {0, 1}
    BY DEF OnTheBus, ToCome
  <2> QED  BY <2>1, <2>2
<1>4. m \notin lostReply
  BY <1>1 DEF HubIInv
<1> QED  BY <1>0, <1>1, <1>3, <1>4, StageKeeps DEF HubTypeOK

\* On the bus, and so no more to come.
LEMMA BusFacts ==
  ASSUME HubTypeOK, NEW m \in Messages, stage[m] = "publish", mode' = mode,
         stage' = [stage EXCEPT ![m] = "done"], bus' = OnBus(m) \/ bus' = bus
  PROVE  /\ bus' \subseteq Messages \X Instances
         /\ \A c \in Clients, n \in Messages :
               OnTheBus(c, n)' + ToCome(c, n)' <= OnTheBus(c, n) + ToCome(c, n)
<1>1. /\ stage'[m] = "done" /\ \A n \in Messages \ {m} : stage'[n] = stage[n]
      /\ bus' \subseteq Messages \X Instances
  BY DEF HubTypeOK, OnBus
<1>2. ASSUME NEW c \in Clients, NEW n \in Messages
      PROVE  OnTheBus(c, n)' + ToCome(c, n)' <= OnTheBus(c, n) + ToCome(c, n)
  <2>0. /\ OnTheBus(c, n) \in {0, 1} /\ ToCome(c, n) \in {0, 1}
        /\ OnTheBus(c, n)' \in {0, 1} /\ ToCome(c, n)' \in {0, 1}
    BY DEF OnTheBus, ToCome
  <2>1. CASE n # m
    <3>1. <<n, HomeOf[c]>> \in bus' <=> <<n, HomeOf[c]>> \in bus
      BY <2>1 DEF OnBus
    <3>2. OnTheBus(c, n)' = OnTheBus(c, n) /\ ToCome(c, n)' = ToCome(c, n)
      BY <1>1, <2>1, <3>1 DEF OnTheBus, ToCome, Coming, Accepts
    <3> QED  BY <2>0, <3>2
  <2>2. CASE n = m
    <3>1. ToCome(c, n)' = 0
      BY <1>1, <2>2 DEF ToCome, Coming, HubTypeOK
    <3>2. mode = "fanout" /\ HomeOf[c] = Origin[m] => OnTheBus(c, n)' = 0
      BY <2>2 DEF OnTheBus, Accepts
    <3>3. ~(mode = "fanout" /\ HomeOf[c] = Origin[m]) => ToCome(c, n) = 1
      BY <2>2 DEF ToCome, Coming, HubTypeOK
    <3> QED  BY <2>0, <3>1, <3>2, <3>3
  <2> QED  BY <2>1, <2>2
<1> QED  BY <1>1, <1>2

LEMMA PublishKeeps == ASSUME HubIInv, NEW m \in Messages, HubPublish(m)  PROVE HubIInv'
<1>0. HubTypeOK
  BY DEF HubIInv
<1>1. /\ stage[m] = "publish" /\ stage' = [stage EXCEPT ![m] = "done"] /\ bus' = OnBus(m)
      /\ UNCHANGED <<looping, todo, subscribed, mode, received, lostReply, panicked>>
      /\ UNCHANGED connVars
  BY DEF HubPublish, Quiet
<1> QED  BY <1>0, <1>1, BusFacts, StageKeeps

LEMMA DeliveredKeeps ==
  ASSUME HubIInv, NEW m \in Messages, NEW i \in Instances, Delivered(m, i)  PROVE HubIInv'
<1>0. HubTypeOK
  BY DEF HubIInv
<1>1. /\ looping' = looping \ {<<m, i>>} /\ todo[m][i] = {}
      /\ UNCHANGED <<todo, bus, subscribed, mode, received, lostReply, panicked>>
      /\ UNCHANGED connVars
  BY DEF Delivered, Quiet
<1>2. \/ stage' = stage
      \/ /\ stage[m] = "local" /\ i = Origin[m]
         /\ stage' = [stage EXCEPT ![m] = IF mode = "fanout" THEN "publish" ELSE "done"]
  BY DEF Delivered
<1>3. /\ stage' \in [Messages -> {"new", "local", "publish", "done"}]
      /\ \A n \in Messages :
            \/ stage'[n] = stage[n]
            \/ /\ stage[n] = "local"
               /\ stage'[n] = IF mode = "fanout" THEN "publish" ELSE "done"
  BY <1>0, <1>2 DEF HubTypeOK
<1>4. ASSUME NEW c \in Clients, NEW n \in Messages  PROVE Fair(c, n)'
  <2>1. InLoop(c, n)' = InLoop(c, n) /\ OnTheBus(c, n)' = OnTheBus(c, n)
    BY <1>1 DEF InLoop, OnTheBus, Accepts
  <2>2. ToCome(c, n)' = ToCome(c, n)
    <3>1. mode \in {"fanout", "relay"} /\ mode' = mode
      BY <1>0, <1>1 DEF HubTypeOK
    <3>2. CASE stage'[n] = stage[n]
      BY <3>1, <3>2 DEF ToCome, Coming
    <3>3. CASE stage[n] = "local" /\ stage'[n] = IF mode = "fanout" THEN "publish" ELSE "done"
      BY <3>1, <3>3 DEF ToCome, Coming
    <3> QED  BY <1>3, <3>2, <3>3
  <2>3. InLoop(c, n) \in {0, 1} /\ OnTheBus(c, n) \in {0, 1} /\ ToCome(c, n) \in {0, 1}
    BY DEF InLoop, OnTheBus, ToCome
  <2> QED  BY <1>1, <2>1, <2>2, <2>3, ChancesKeep
<1>5. ASSUME NEW n \in Messages, NEW j \in Instances  PROVE Serves(n, j)'
  <2>1. Serves(n, j)
    BY DEF HubIInv
  <2> QED  BY <1>1, <2>1 DEF Serves, connVars
<1>6. ASSUME NEW n \in lostReply'
      PROVE  stage'[n] = "done" \/ (mode = "relay" /\ stage'[n] = "local")
  BY <1>0, <1>1, <1>3 DEF HubIInv
<1>7. looping' \subseteq Messages \X Instances /\ lostReply' \subseteq Messages
  BY <1>0, <1>1 DEF HubIInv, HubTypeOK
<1> QED  BY <1>0, <1>1, <1>3, <1>4, <1>5, <1>6, <1>7, CastsKeep DEF HubTypeOK

LEMMA ReceiveKeeps ==
  ASSUME HubIInv, NEW m \in Messages, NEW i \in Instances, Receive(m, i)  PROVE HubIInv'
<1>0. HubTypeOK
  BY DEF HubIInv
<1>1. /\ <<m, i>> \in bus /\ bus' = bus \ {<<m, i>>}
      /\ UNCHANGED <<stage, subscribed, mode, received, lostReply, panicked>>
      /\ UNCHANGED connVars
      /\ Accepts(m, i) => LoopBegins(m, i)
      /\ ~Accepts(m, i) => UNCHANGED <<looping, todo>>
  BY DEF Receive, Quiet
<1>2. /\ bus' \subseteq Messages \X Instances /\ lostReply' \subseteq Messages
      /\ \A n \in lostReply' : stage'[n] = "done" \/ (mode = "relay" /\ stage'[n] = "local")
  BY <1>0, <1>1 DEF HubTypeOK, HubIInv
<1>3. ASSUME NEW c \in Clients, NEW n \in Messages
      PROVE  /\ ToCome(c, n)' = ToCome(c, n)
             /\ n # m \/ HomeOf[c] # i => OnTheBus(c, n)' = OnTheBus(c, n)
             /\ n = m /\ HomeOf[c] = i => OnTheBus(c, n)' = 0
             /\ n = m /\ HomeOf[c] = i /\ Accepts(m, i) => OnTheBus(c, n) = 1
             /\ OnTheBus(c, n) \in {0, 1} /\ ToCome(c, n) \in {0, 1}
             /\ InLoop(c, n) \in {0, 1} /\ InLoop(c, n)' \in {0, 1}
  BY <1>1 DEF ToCome, Coming, OnTheBus, Accepts, InLoop
<1>4. CASE Accepts(m, i)
  <2>1. /\ todo' \in [Messages -> [Instances -> SUBSET Clients]]
        /\ looping' \subseteq Messages \X Instances
        /\ \A n \in Messages, j \in Instances : Serves(n, j)'
        /\ \A c \in Clients, n \in Messages : n # m \/ HomeOf[c] # i => InLoop(c, n)' = InLoop(c, n)
        /\ \A c \in Clients : HomeOf[c] = i => InLoop(c, m) = 0
    BY <1>1, <1>4, LoopKeeps
  <2>2. ASSUME NEW c \in Clients, NEW n \in Messages  PROVE Fair(c, n)'
    <3>1. InLoop(c, n)' + OnTheBus(c, n)' + ToCome(c, n)' <= InLoop(c, n) + OnTheBus(c, n) + ToCome(c, n)
      <4>1. CASE n # m \/ HomeOf[c] # i
        BY <1>3, <2>1, <4>1
      <4>2. CASE n = m /\ HomeOf[c] = i
        <5>1. InLoop(c, n) = 0 /\ OnTheBus(c, n) = 1 /\ OnTheBus(c, n)' = 0
          BY <1>3, <1>4, <2>1, <4>2
        <5> QED  BY <1>3, <5>1
      <4> QED  BY <4>1, <4>2
    <3> QED  BY <1>1, <3>1, ChancesKeep
  <2> QED  BY <1>0, <1>1, <1>2, <2>1, <2>2, CastsKeep DEF HubTypeOK
<1>5. CASE ~Accepts(m, i)
  <2>1. ASSUME NEW c \in Clients, NEW n \in Messages  PROVE Fair(c, n)'
    <3>1. InLoop(c, n)' = InLoop(c, n)
      BY <1>1, <1>5 DEF InLoop
    <3>2. InLoop(c, n)' + OnTheBus(c, n)' + ToCome(c, n)' <= InLoop(c, n) + OnTheBus(c, n) + ToCome(c, n)
      BY <1>3, <3>1
    <3> QED  BY <1>1, <3>2, ChancesKeep
  <2>2. ASSUME NEW n \in Messages, NEW j \in Instances  PROVE Serves(n, j)'
    BY <1>1, <1>5 DEF HubIInv, Serves, connVars
  <2> QED  BY <1>0, <1>1, <1>2, <1>5, <2>1, <2>2, CastsKeep DEF HubTypeOK
<1> QED  BY <1>4, <1>5

LEMMA SubscriptionKeeps ==
  ASSUME HubIInv, NEW i \in Instances, SubscriptionLost(i) \/ Resubscribe(i)  PROVE HubIInv'
<1>0. HubTypeOK
  BY DEF HubIInv
<1>1. /\ bus' \subseteq bus /\ subscribed' \subseteq Instances
      /\ UNCHANGED <<looping, todo, stage, mode, received, lostReply, panicked>>
      /\ UNCHANGED connVars
  BY <1>0 DEF SubscriptionLost, Resubscribe, Quiet, HubTypeOK
<1>2. ASSUME NEW c \in Clients, NEW n \in Messages  PROVE Fair(c, n)'
  <2>1. InLoop(c, n)' = InLoop(c, n) /\ ToCome(c, n)' = ToCome(c, n)
    BY <1>1 DEF InLoop, ToCome, Coming
  <2>2. OnTheBus(c, n)' <= OnTheBus(c, n)
    BY <1>1 DEF OnTheBus, Accepts
  <2>3. InLoop(c, n) \in {0, 1} /\ OnTheBus(c, n) \in {0, 1} /\ ToCome(c, n) \in {0, 1}
        /\ OnTheBus(c, n)' \in {0, 1}
    BY DEF InLoop, OnTheBus, ToCome
  <2>4. InLoop(c, n)' + OnTheBus(c, n)' + ToCome(c, n)' <= InLoop(c, n) + OnTheBus(c, n) + ToCome(c, n)
    BY <2>1, <2>2, <2>3
  <2> QED  BY <1>1, <2>4, ChancesKeep
<1>3. ASSUME NEW n \in Messages, NEW j \in Instances  PROVE Serves(n, j)'
  BY <1>1 DEF HubIInv, Serves, connVars
<1>4. /\ bus' \subseteq Messages \X Instances /\ lostReply' \subseteq Messages
      /\ \A n \in lostReply' : stage'[n] = "done" \/ (mode = "relay" /\ stage'[n] = "local")
  BY <1>0, <1>1 DEF HubTypeOK, HubIInv
<1> QED  BY <1>0, <1>1, <1>2, <1>3, <1>4, CastsKeep DEF HubTypeOK

LEMMA PublishFailsKeeps == ASSUME HubIInv, NEW m \in Messages, HubPublishFails(m)  PROVE HubIInv'
<1>0. HubTypeOK /\ Origin[m] \in Instances
  BY HubAssumption DEF HubIInv
<1>1. /\ stage[m] = "publish" /\ m \notin lostReply
      /\ UNCHANGED <<subscribed, mode, received, panicked>> /\ UNCHANGED connVars
      /\ \/ bus' = bus /\ lostReply' = lostReply
         \/ bus' = OnBus(m) /\ lostReply' = lostReply \cup {m}
      /\ bus' = bus \/ bus' = OnBus(m)
  BY DEF HubPublishFails, HubIInv
<1>2. /\ bus' \subseteq Messages \X Instances /\ lostReply' \subseteq Messages
      /\ \A n \in Messages \ {m} : n \in lostReply' <=> n \in lostReply
  BY <1>0, <1>1 DEF HubIInv, HubTypeOK, OnBus
<1>3. ASSUME NEW c \in Clients, NEW n \in Messages
      PROVE  /\ Got(c, n)' = Got(c, n) /\ Got(c, n) \in Nat
             /\ InLoop(c, n) \in {0, 1} /\ OnTheBus(c, n) \in {0, 1} /\ ToCome(c, n) \in {0, 1}
             /\ InLoop(c, n)' \in {0, 1} /\ OnTheBus(c, n)' \in {0, 1} /\ ToCome(c, n)' \in {0, 1}
             /\ Twice(n) \in {0, 1} /\ Twice(n)' \in {0, 1} /\ Twice(n) <= Twice(n)'
             /\ Fair(c, n)
  BY <1>0, <1>1, NumbersAre DEF HubIInv, Got, InLoop, OnTheBus, ToCome, Twice
<1>4. CASE mode = "fanout" /\ stage' = [stage EXCEPT ![m] = "done"] /\ UNCHANGED <<looping, todo>>
  <2>1. ASSUME NEW c \in Clients, NEW n \in Messages  PROVE Fair(c, n)'
    <3>1. OnTheBus(c, n)' + ToCome(c, n)' <= OnTheBus(c, n) + ToCome(c, n)
      BY <1>0, <1>1, <1>4, BusFacts
    <3>2. InLoop(c, n)' = InLoop(c, n)
      BY <1>1, <1>4 DEF InLoop
    <3> QED  BY <1>3, <3>1, <3>2 DEF Fair
  <2>2. ASSUME NEW n \in Messages, NEW j \in Instances  PROVE Serves(n, j)'
    BY <1>1, <1>4 DEF HubIInv, Serves, connVars
  <2>3. /\ stage' \in [Messages -> {"new", "local", "publish", "done"}]
        /\ stage'[m] = "done" /\ \A n \in Messages \ {m} : stage'[n] = stage[n]
    BY <1>0, <1>4 DEF HubTypeOK
  <2>4. \A n \in lostReply' : stage'[n] = "done" \/ (mode = "relay" /\ stage'[n] = "local")
    BY <1>2, <2>3 DEF HubIInv
  <2> QED  BY <1>0, <1>1, <1>2, <1>4, <2>1, <2>2, <2>3, <2>4, CastsKeep DEF HubTypeOK
<1>5. CASE mode = "relay" /\ stage' = [stage EXCEPT ![m] = "local"] /\ LoopBegins(m, Origin[m])
  <2>1. /\ todo' \in [Messages -> [Instances -> SUBSET Clients]]
        /\ looping' \subseteq Messages \X Instances
        /\ \A n \in Messages, j \in Instances : Serves(n, j)'
        /\ \A c \in Clients, n \in Messages : n # m \/ HomeOf[c] # Origin[m] => InLoop(c, n)' = InLoop(c, n)
        /\ \A c \in Clients : HomeOf[c] = Origin[m] => InLoop(c, m) = 0
    BY <1>0, <1>1, <1>5, LoopKeeps
  <2>2. /\ stage' \in [Messages -> {"new", "local", "publish", "done"}]
        /\ stage'[m] = "local" /\ \A n \in Messages \ {m} : stage'[n] = stage[n]
    BY <1>0, <1>5 DEF HubTypeOK
  <2>3. \A n \in lostReply' : stage'[n] = "done" \/ (mode = "relay" /\ stage'[n] = "local")
    BY <1>2, <1>5, <2>2 DEF HubIInv
  <2>4. ASSUME NEW c \in Clients, NEW n \in Messages  PROVE Fair(c, n)'
    <3>1. CASE n # m
      <4>1. InLoop(c, n)' = InLoop(c, n)
        BY <2>1, <3>1
      <4>2. <<n, HomeOf[c]>> \in bus' <=> <<n, HomeOf[c]>> \in bus
        BY <1>1, <3>1 DEF OnBus
      <4>3. OnTheBus(c, n)' = OnTheBus(c, n) /\ ToCome(c, n)' = ToCome(c, n)
        BY <1>1, <2>2, <3>1, <4>2 DEF OnTheBus, ToCome, Coming, Accepts
      <4> QED  BY <1>3, <4>1, <4>3 DEF Fair
    <3>2. CASE n = m
      <4>1. ToCome(c, n) = 1 /\ ToCome(c, n)' = 0
        BY <1>1, <1>5, <2>2, <3>2 DEF ToCome, Coming
      <4>2. Twice(n) = 0
        BY <1>1, <3>2 DEF Twice
      <4>3. CASE bus' = bus /\ lostReply' = lostReply
        <5>1. OnTheBus(c, n)' = OnTheBus(c, n)
          BY <1>1, <4>3 DEF OnTheBus, Accepts
        <5>2. CASE HomeOf[c] = Origin[m]
          BY <1>3, <2>1, <3>2, <4>1, <4>2, <5>1, <5>2 DEF Fair
        <5>3. CASE HomeOf[c] # Origin[m]
          <6>1. InLoop(c, n)' = InLoop(c, n)
            BY <2>1, <5>3
          <6> QED  BY <1>3, <4>1, <4>2, <5>1, <6>1 DEF Fair
        <5> QED  BY <5>2, <5>3
      <4>4. CASE bus' = OnBus(m) /\ lostReply' = lostReply \cup {m}
        <5>1. Twice(n)' = 1
          BY <1>1, <1>5, <3>2, <4>4 DEF Twice
        <5>2. Got(c, n) + InLoop(c, n) + OnTheBus(c, n) = 0
          BY <1>3, <4>1, <4>2 DEF Fair
        <5> QED  BY <1>3, <4>1, <5>1, <5>2 DEF Fair
      <4> QED  BY <1>1, <4>3, <4>4
    <3> QED  BY <3>1, <3>2
  <2> QED  BY <1>0, <1>1, <1>2, <2>1, <2>2, <2>3, <2>4, CastsKeep DEF HubTypeOK
<1> QED  BY <1>4, <1>5 DEF HubPublishFails

LEMMA EnqueueKeeps ==
  ASSUME HubIInv, NEW m \in Messages, NEW i \in Instances, NEW c \in Clients, Enqueue(m, i, c)
  PROVE  HubIInv'
<1>0. HubTypeOK
  BY DEF HubIInv
<1>1. /\ c \in todo[m][i] /\ c \in registered /\ c \notin closed /\ HomeOf[c] = i
      /\ todo' = [todo EXCEPT ![m][i] = todo[m][i] \ {c}]
      /\ UNCHANGED <<registered, closed, open, writer, reader>>
      /\ UNCHANGED <<mode, hubFaults, lostReply, looping, stage, bus, subscribed>>
  BY ServedAre DEF Enqueue
<1>2. /\ todo'[m][i] = todo[m][i] \ {c}
      /\ \A n \in Messages, j \in Instances : n # m \/ j # i => todo'[n][j] = todo[n][j]
      /\ todo' \in [Messages -> [Instances -> SUBSET Clients]]
  BY <1>0, <1>1 DEF HubTypeOK
<1>3. ASSUME NEW n \in Messages, NEW j \in Instances  PROVE Serves(n, j)'
  <2>1. Serves(n, j) /\ todo'[n][j] \subseteq todo[n][j]
    BY <1>2 DEF HubIInv
  <2> QED  BY <1>1, <2>1 DEF Serves
<1>4. /\ InLoop(c, m) = 1 /\ InLoop(c, m)' = 0
      /\ \A d \in Clients, n \in Messages : d # c \/ n # m => InLoop(d, n)' = InLoop(d, n)
  <2>1. InLoop(c, m) = 1 /\ InLoop(c, m)' = 0
    BY <1>1, <1>2 DEF InLoop
  <2>2. ASSUME NEW d \in Clients, NEW n \in Messages, d # c \/ n # m
        PROVE  InLoop(d, n)' = InLoop(d, n)
    <3>1. HomeOf[d] \in Instances
      BY HubAssumption
    <3>2. d \in todo'[n][HomeOf[d]] <=> d \in todo[n][HomeOf[d]]
      BY <1>2, <2>2, <3>1
    <3> QED  BY <3>2 DEF InLoop
  <2> QED  BY <2>1, <2>2
<1>5. CASE /\ Len(buffer[c]) < BufferSize
           /\ buffer' = [buffer EXCEPT ![c] = Append(buffer[c], m)]
           /\ received' = [received EXCEPT ![c][m] = received[c][m] + 1]
           /\ ~panicked' /\ UNCHANGED kicks
  <2>1. /\ received' \in [Clients -> [Messages -> Nat]]
        /\ received'[c][m] = received[c][m] + 1
        /\ \A d \in Clients, n \in Messages : d # c \/ n # m => received'[d][n] = received[d][n]
    BY <1>0, <1>5 DEF HubTypeOK
  <2>2. /\ buffer' \in [Clients -> Seq(Messages)]
        /\ \A d \in Clients : Len(buffer'[d]) <= BufferSize
    <3>1. /\ Append(buffer[c], m) \in Seq(Messages) /\ Len(Append(buffer[c], m)) = Len(buffer[c]) + 1
          /\ Len(buffer[c]) \in Nat
      BY <1>0 DEF HubTypeOK
    <3>2. Len(Append(buffer[c], m)) <= BufferSize
      BY <1>5, <3>1, HubAssumption
    <3> QED  BY <1>0, <1>5, <3>1, <3>2 DEF HubTypeOK
  <2>3. HubTypeOK'
    BY <1>0, <1>1, <1>2, <1>5, <2>1, <2>2 DEF HubTypeOK
  <2>4. ASSUME NEW d \in Clients, NEW n \in Messages  PROVE Fair(d, n)'
    <3>0. /\ Fair(d, n) /\ OnTheBus(d, n)' = OnTheBus(d, n) /\ ToCome(d, n)' = ToCome(d, n)
          /\ Twice(n)' = Twice(n)
      BY <1>1 DEF HubIInv, OnTheBus, ToCome, Coming, Accepts, Twice
    <3>1. CASE d # c \/ n # m
      <4>1. Got(d, n)' = Got(d, n) /\ InLoop(d, n)' = InLoop(d, n)
        BY <1>4, <2>1, <3>1 DEF Got
      <4> QED  BY <3>0, <4>1 DEF Fair
    <3>2. CASE d = c /\ n = m
      <4>1. Got(d, n)' = Got(d, n) + 1 /\ InLoop(d, n) = 1 /\ InLoop(d, n)' = 0
        BY <1>4, <2>1, <3>2 DEF Got
      <4>2. /\ Got(d, n) \in Nat /\ OnTheBus(d, n) \in {0, 1} /\ ToCome(d, n) \in {0, 1}
            /\ Twice(n) \in {0, 1}
        BY <1>0, NumbersAre
      <4> QED  BY <3>0, <4>1, <4>2 DEF Fair
    <3> QED  BY <3>1, <3>2
  <2> QED  BY <1>1, <1>3, <1>5, <2>3, <2>4 DEF HubIInv
<1>6. CASE kicks' = kicks \cup {c} /\ UNCHANGED <<buffer, received, panicked>>
  <2>1. HubTypeOK'
    BY <1>0, <1>1, <1>2, <1>6 DEF HubTypeOK
  <2>2. ASSUME NEW d \in Clients, NEW n \in Messages  PROVE Fair(d, n)'
    <3>1. OnTheBus(d, n)' = OnTheBus(d, n) /\ ToCome(d, n)' = ToCome(d, n)
      BY <1>1 DEF OnTheBus, ToCome, Coming, Accepts
    <3>2. InLoop(d, n)' <= InLoop(d, n) /\ InLoop(d, n)' \in {0, 1}
      BY <1>4 DEF InLoop
    <3>3. InLoop(d, n) \in {0, 1} /\ OnTheBus(d, n) \in {0, 1} /\ ToCome(d, n) \in {0, 1}
      BY DEF InLoop, OnTheBus, ToCome
    <3>4. InLoop(d, n)' + OnTheBus(d, n)' + ToCome(d, n)' <= InLoop(d, n) + OnTheBus(d, n) + ToCome(d, n)
      BY <3>1, <3>2, <3>3
    <3> QED  BY <1>1, <1>6, <3>4, ChancesKeep
  <2> QED  BY <1>1, <1>3, <1>6, <2>1, <2>2 DEF HubIInv
<1>7. ~panicked
  BY DEF HubIInv
<1> QED  BY <1>1, <1>5, <1>6, <1>7 DEF Enqueue

LEMMA HubKeeps == ASSUME HubIInv, [HubNext]_hubVars PROVE HubIInv'
<1>1. ASSUME UNCHANGED hubVars  PROVE HubIInv'
  <2>1. HubTypeOK' /\ UNCHANGED <<mode, received, lostReply, panicked>> /\ UNCHANGED connVars
        /\ UNCHANGED castVars
    BY <1>1 DEF hubVars, HubIInv, HubTypeOK, connVars, castVars
  <2>2. ASSUME NEW c \in Clients, NEW m \in Messages  PROVE Fair(c, m)'
    <3>1. Fair(c, m)
      BY DEF HubIInv
    <3> QED  BY <2>1, <3>1 DEF Fair, Got, InLoop, OnTheBus, ToCome, Twice, Coming, Accepts, castVars
  <2>3. ASSUME NEW n \in Messages, NEW j \in Instances  PROVE Serves(n, j)'
    BY <2>1 DEF HubIInv, Serves, connVars, castVars
  <2> QED  BY <2>1, <2>2, <2>3 DEF HubIInv, connVars, castVars
<1> QED  BY <1>1, ClientKeeps, BroadcastKeeps, PushKeeps, PublishKeeps, PublishFailsKeeps, ReceiveKeeps,
            EnqueueKeeps, DeliveredKeeps, SubscriptionKeeps DEF HubNext, Loops

\* No channel is closed twice or sent on after it was closed, and a client gets a message
\* once, twice at most in alarm-service when its publication was wrongly reported as
\* failed, for any instances, clients, messages, buffers and faults.
THEOREM HubCorrect == HubSpec => []HubDelivers
<1>1. HubInit => HubIInv
  BY HubStarts
<1>2. HubIInv /\ [HubNext]_hubVars => HubIInv'
  BY HubKeeps
<1>3. ASSUME HubIInv  PROVE HubDelivers
  <2>1. ASSUME NEW c \in Clients, NEW m \in Messages
        PROVE  received[c][m] <= 1 \/ (mode = "relay" /\ m \in lostReply /\ received[c][m] <= 2)
    <3>1. /\ Fair(c, m) /\ Got(c, m) \in Nat /\ InLoop(c, m) \in {0, 1} /\ OnTheBus(c, m) \in {0, 1}
          /\ ToCome(c, m) \in {0, 1} /\ Twice(m) \in {0, 1}
      BY <1>3, NumbersAre DEF HubIInv
    <3>2. Got(c, m) <= 1 + Twice(m)
      BY <3>1 DEF Fair
    <3> QED  BY <3>1, <3>2 DEF Twice, Got
  <2> QED  BY <1>3, <2>1 DEF HubIInv, HubDelivers, NoPanic, AtMostOnce
<1> QED  BY <1>1, <1>2, <1>3, PTL DEF HubSpec

------------------------------------------------------------------------------
(* Recording plans.                                                        *)

Columned == Settings \cup {"on", "name", "created"}

\* The shape of a row: every column is there, and the times are numbers.
Row(r) == DOMAIN r = Columned /\ r.start \in Int /\ r.end \in Int /\ r.keep \in Int

\* A row that differs from what an edit wanted was read otherwise; and a row of a
\* camera that is gone is there because the clean-up has not run, or has not found it.
PlanIInv ==
  /\ \A q \in Creates : plan[q] # NoPlan =>
       /\ Row(plan[q])
       /\ Contradicts(plan[q]) => q \in muddled
       /\ removal = "done" => q \in raced \/ uncleaned
  /\ \A e \in Edits : edit[e].at = "read" => edit[e].id \in Creates /\ Row(edit[e].row)
  /\ DOMAIN plan = Creates /\ DOMAIN edit = Edits
  /\ camera <=> removal = "none"

\* normalizePlanFields returns times of a day and a retention within the limit, and
\* never settings that contradict each other.
LEMMA NormalizedFits ==
  ASSUME NEW f, Settings \subseteq DOMAIN f, f.start \in Int, f.end \in Int, f.keep \in Int, Accepted(f)
  PROVE  /\ DOMAIN Normalized(f) = DOMAIN f
         /\ Normalized(f).start \in 0..MinutesPerDay /\ Normalized(f).end \in 0..MinutesPerDay
         /\ Normalized(f).keep \in 1..MaxKeep
         /\ ~Contradicts(Normalized(f))
<1>1. Clamp(f.start) \in 0..MinutesPerDay /\ Clamp(f.end) \in 0..MinutesPerDay
  BY PlanAssumption DEF Clamp, Earlier, Later
<1>2. /\ DOMAIN Normalized(f) = DOMAIN f
      /\ Normalized(f).strategy = f.strategy
      /\ Normalized(f).days = IF f.strategy = "always" THEN {} ELSE f.days
      /\ Normalized(f).start = IF f.strategy = "always" THEN 0 ELSE Clamp(f.start)
      /\ Normalized(f).end = IF f.strategy = "always" THEN 0 ELSE Clamp(f.end)
      /\ Normalized(f).keep = IF f.keep <= 0 THEN DefaultKeep ELSE f.keep
  BY DEF Normalized, Settings
<1>3. Normalized(f).keep \in 1..MaxKeep
  BY <1>2, PlanAssumption DEF Accepted
<1>4. Normalized(f).start \in 0..MinutesPerDay /\ Normalized(f).end \in 0..MinutesPerDay
  BY <1>1, <1>2, PlanAssumption
<1> QED  BY <1>1, <1>2, <1>3, <1>4 DEF Accepted, Contradicts

\* Rows that agree in their settings contradict themselves alike.
LEMMA SettingsDecide ==
  ASSUME NEW r, NEW s, \A x \in Settings : r[x] = s[x]  PROVE Contradicts(r) <=> Contradicts(s)
BY DEF Settings, Contradicts

LEMMA PlanStarts == ASSUME PlanInit PROVE PlanIInv
BY DEF PlanInit, PlanIInv

\* Steps that change no row, and make no excuse disappear.
LEMMA RowsStay ==
  ASSUME PlanIInv, UNCHANGED <<plan, muddled>>, raced \subseteq raced', uncleaned => uncleaned',
         removal' = "done" => removal = "done" \/ uncleaned',
         DOMAIN edit' = Edits,
         \A e \in Edits : edit'[e] = edit[e] \/ edit'[e].at = "done"
                          \/ (edit'[e].id \in Creates /\ Row(edit'[e].row)),
         camera' <=> removal' = "none"
  PROVE  PlanIInv'
<1>1. ASSUME NEW q \in Creates, plan'[q] # NoPlan
      PROVE  /\ Row(plan'[q])
             /\ Contradicts(plan'[q]) => q \in muddled'
             /\ removal' = "done" => q \in raced' \/ uncleaned'
  BY <1>1 DEF PlanIInv
<1>2. ASSUME NEW e \in Edits, edit'[e].at = "read"  PROVE edit'[e].id \in Creates /\ Row(edit'[e].row)
  BY <1>2 DEF PlanIInv
<1>3. DOMAIN plan' = Creates
  BY DEF PlanIInv
<1> QED  BY <1>1, <1>2, <1>3 DEF PlanIInv

LEMMA CreateKeeps ==
  ASSUME PlanIInv, NEW q \in Creates, NEW n \in Names, NEW f \in Drafts, CreateRecordPlan(q, n, f)
  PROVE  PlanIInv'
<1>1. Accepted(f) /\ UNCHANGED <<camera, edit, removal, muddled, uncleaned>>
  BY DEF CreateRecordPlan
<1>2. CASE UNCHANGED <<plan, raced>>
  BY <1>1, <1>2, RowsStay DEF PlanIInv
<1>3. CASE /\ plan' = [plan EXCEPT ![q] = NewPlan(n, f)]
           /\ raced' = IF camera THEN raced ELSE raced \cup {q}
  <2>1. /\ Settings \subseteq DOMAIN Normalized(f)
        /\ Normalized(f).start \in Int /\ Normalized(f).end \in Int /\ Normalized(f).keep \in Int
        /\ ~Contradicts(Normalized(f))
    BY <1>1, PlanAssumption, NormalizedFits
  <2>2. /\ Row(NewPlan(n, f)) /\ ~Contradicts(NewPlan(n, f))
    <3>1. \A x \in Settings : NewPlan(n, f)[x] = Normalized(f)[x]
      BY DEF NewPlan
    <3>2. DOMAIN NewPlan(n, f) = Columned
      BY DEF NewPlan, Columned
    <3> QED  BY <2>1, <3>1, <3>2, SettingsDecide DEF Row, Settings
  <2>3. /\ DOMAIN plan' = Creates /\ plan'[q] = NewPlan(n, f)
        /\ \A p \in Creates \ {q} : plan'[p] = plan[p]
    BY <1>3 DEF PlanIInv
  <2>4. raced \subseteq raced' /\ (removal = "done" => q \in raced')
    BY <1>3 DEF PlanIInv
  <2>5. ASSUME NEW p \in Creates, plan'[p] # NoPlan
        PROVE  /\ Row(plan'[p])
               /\ Contradicts(plan'[p]) => p \in muddled'
               /\ removal' = "done" => p \in raced' \/ uncleaned'
    <3>1. CASE p = q
      BY <1>1, <2>2, <2>3, <2>4, <3>1
    <3>2. CASE p # q
      <4>1. plan'[p] = plan[p]
        BY <2>3, <3>2
      <4> QED  BY <1>1, <2>4, <2>5, <4>1 DEF PlanIInv
    <3> QED  BY <3>1, <3>2
  <2> QED  BY <1>1, <2>3, <2>5 DEF PlanIInv
<1> QED  BY <1>2, <1>3 DEF CreateRecordPlan

\* What the update writes into the row it read are the settings that were checked.
LEMMA UpdateFits ==
  ASSUME NEW row, Row(row), NEW patch \in Patches, Accepted(Merged(row, patch)), NEW old, Row(old)
  PROVE  /\ Row(Overwritten(old, Columns(row, patch)))
         /\ old = row => ~Contradicts(Overwritten(old, Columns(row, patch)))
<1> DEFINE wanted  == Normalized(Merged(row, patch))
           columns == Columns(row, patch)
<1>1. /\ DOMAIN Merged(row, patch) = Settings
      /\ Merged(row, patch).start \in Int /\ Merged(row, patch).end \in Int
      /\ Merged(row, patch).keep \in Int
  BY PlanAssumption DEF Merged, Settings, Row
<1>2. wanted.start \in Int /\ wanted.end \in Int /\ wanted.keep \in Int /\ ~Contradicts(wanted)
  BY <1>1, NormalizedFits
<1>3. \A s \in Settings : s \in DOMAIN columns <=> wanted[s] # row[s]
  BY DEF Columns
<1>4. \A s \in Settings \cap DOMAIN columns : columns[s] = wanted[s]
  BY DEF Columns
<1> HIDE DEF wanted, columns
<1>5. /\ DOMAIN Overwritten(old, columns) = Columned
      /\ \A s \in Settings : Overwritten(old, columns)[s] = IF s \in DOMAIN columns THEN wanted[s] ELSE old[s]
  BY <1>4 DEF Overwritten, Row, Columned
<1>6. Row(Overwritten(old, columns))
  BY <1>2, <1>5 DEF Row, Settings
<1>7. old = row => \A s \in Settings : Overwritten(old, columns)[s] = wanted[s]
  BY <1>3, <1>5
<1> QED  BY <1>2, <1>6, <1>7, SettingsDecide DEF columns

LEMMA UpdateKeeps ==
  ASSUME PlanIInv, NEW e \in Edits, NEW patch \in Patches, UpdateRecordPlan(e, patch)  PROVE PlanIInv'
<1> DEFINE q   == edit[e].id
           row == edit[e].row
           new == Overwritten(plan[q], Columns(row, patch))
<1>1. /\ edit[e].at = "read" /\ Accepted(Merged(row, patch))
      /\ edit' = [edit EXCEPT ![e] = [at |-> "done", id |-> NoPlan, row |-> NoPlan]]
      /\ UNCHANGED <<camera, removal, raced, uncleaned>>
  BY DEF UpdateRecordPlan
<1>2. q \in Creates /\ Row(row)
  BY <1>1 DEF PlanIInv
<1>3. DOMAIN edit' = Edits /\ \A x \in Edits : edit'[x] = edit[x] \/ edit'[x].at = "done"
  BY <1>1 DEF PlanIInv
<1>4. CASE UNCHANGED <<plan, muddled>>
  BY <1>1, <1>3, <1>4, RowsStay DEF PlanIInv
<1>5. CASE /\ plan[q] # NoPlan /\ plan' = [plan EXCEPT ![q] = new]
           /\ muddled' = IF plan[q] = row THEN muddled \ {q} ELSE muddled \cup {q}
  <2>1. Row(new) /\ (plan[q] = row => ~Contradicts(new)) /\ (removal = "done" => q \in raced \/ uncleaned)
    BY <1>1, <1>2, <1>5, UpdateFits DEF PlanIInv
  <2>2. /\ DOMAIN plan' = Creates /\ plan'[q] = new
        /\ \A p \in Creates \ {q} : plan'[p] = plan[p] /\ (p \in muddled => p \in muddled')
    BY <1>2, <1>5 DEF PlanIInv
  <2>3. Contradicts(new) => q \in muddled'
    BY <1>5, <2>1
  <2>4. ASSUME NEW p \in Creates, plan'[p] # NoPlan
        PROVE  /\ Row(plan'[p])
               /\ Contradicts(plan'[p]) => p \in muddled'
               /\ removal' = "done" => p \in raced' \/ uncleaned'
    <3>1. CASE p = q
      BY <1>1, <2>1, <2>2, <2>3, <3>1
    <3>2. CASE p # q
      <4>1. plan'[p] = plan[p] /\ (p \in muddled => p \in muddled')
        BY <2>2, <3>2
      <4> QED  BY <1>1, <2>4, <4>1 DEF PlanIInv
    <3> QED  BY <3>1, <3>2
  <2>5. ASSUME NEW x \in Edits, edit'[x].at = "read"  PROVE edit'[x].id \in Creates /\ Row(edit'[x].row)
    BY <1>3, <2>5 DEF PlanIInv
  <2> QED  BY <1>1, <1>3, <2>2, <2>4, <2>5 DEF PlanIInv
<1> QED  BY <1>4, <1>5 DEF UpdateRecordPlan

LEMMA PlanKeeps == ASSUME PlanIInv, [PlanNext]_planVars PROVE PlanIInv'
<1>1. ASSUME NEW q \in Creates, PlanGuard(q)  PROVE PlanIInv'
  BY <1>1, RowsStay DEF PlanGuard, PlanIInv
<1>2. ASSUME NEW e \in Edits, NEW q \in Creates, ReadPlan(e, q)  PROVE PlanIInv'
  <2>1. Row(plan[q]) /\ edit' = [edit EXCEPT ![e] = [at |-> "read", id |-> q, row |-> plan[q]]]
    BY <1>2 DEF ReadPlan, PlanIInv
  <2>2. /\ DOMAIN edit' = Edits
        /\ \A x \in Edits : edit'[x] = edit[x] \/ (edit'[x].id \in Creates /\ Row(edit'[x].row))
    BY <2>1 DEF PlanIInv
  <2> QED  BY <1>2, <2>2, RowsStay DEF ReadPlan, PlanIInv
<1>3. ASSUME NEW q \in Creates, DeleteRecordPlan(q)  PROVE PlanIInv'
  <2>1. DOMAIN plan' = Creates /\ \A p \in Creates : plan'[p] = NoPlan \/ plan'[p] = plan[p]
    BY <1>3 DEF DeleteRecordPlan, PlanIInv
  <2> QED  BY <1>3, <2>1 DEF DeleteRecordPlan, PlanIInv
<1>4. CASE DeleteCamera
  BY <1>4, RowsStay DEF DeleteCamera, PlanIInv
<1>5. CASE CleanupPlans
  <2>1. DOMAIN plan' = Creates /\ \A p \in Creates : plan'[p] = NoPlan
    BY <1>5 DEF CleanupPlans
  <2> QED  BY <1>5, <2>1 DEF CleanupPlans, PlanIInv
<1>6. CASE CleanupFails
  BY <1>6, RowsStay DEF CleanupFails, PlanIInv
<1>7. CASE TimePasses \/ UNCHANGED planVars
  BY <1>7, RowsStay DEF TimePasses, planVars, PlanIInv
<1> QED  BY <1>1, <1>2, <1>3, <1>4, <1>5, <1>6, <1>7, CreateKeeps, UpdateKeeps DEF PlanNext

\* A plan contradicts itself only when an edit had read it otherwise, and outlives
\* its camera only when the clean-up failed or missed it, for any plans, requests,
\* drafts, patches and times.
THEOREM PlansCorrect == PlanSpec => []PlansExplained
<1>1. PlanInit => PlanIInv
  BY PlanStarts
<1>2. PlanIInv /\ [PlanNext]_planVars => PlanIInv'
  BY PlanKeeps
<1>3. PlanIInv => PlansExplained
  BY DEF PlanIInv, PlansExplained
<1> QED  BY <1>1, <1>2, <1>3, PTL DEF PlanSpec

\* The types of a row that is stored until t, and that names differ.
PlanTyped(r, t) ==
  /\ r.name \in Names /\ r.created \in 0..t
  /\ r.start \in 0..MinutesPerDay /\ r.end \in 0..MinutesPerDay
  /\ r.keep \in 1..MaxKeep /\ r.on \in BOOLEAN

RowsTyped ==
  \A q \in Creates : plan[q] # NoPlan =>
    PlanTyped(plan[q], now) /\ \A p \in Creates \ {q} : plan[p] = NoPlan \/ plan[p].name # plan[q].name

Plans == {q \in Creates : plan[q] # NoPlan}

RestTyped ==
  /\ now \in 0..MaxMinute /\ camera \in BOOLEAN
  /\ create \in [Creates -> {"new", "guarded", "done"}]
  /\ \A e \in Edits : edit[e].at \in {"new", "read", "done"}
  /\ removal \in {"none", "cleanup", "done"}
  /\ muddled \subseteq Creates /\ raced \subseteq Creates /\ uncleaned \in BOOLEAN

PlanTIInv == PlanIInv /\ RowsTyped /\ RestTyped /\ IsFiniteSet(Plans)

LEMMA TypesAre == PlanTIInv => PlanTypeOK
BY DEF PlanTIInv, RowsTyped, RestTyped, PlanTyped, PlanTypeOK

LEMMA PlanTypesStart == ASSUME PlanInit PROVE PlanTIInv
<1>1. PlanIInv
  BY PlanStarts
<1>2. Plans = {}
  BY DEF PlanInit, Plans
<1>3. RowsTyped
  BY DEF PlanInit, RowsTyped
<1>4. now \in 0..MaxMinute
  BY PlanAssumption DEF PlanInit
<1>5. RestTyped
  BY <1>4 DEF PlanInit, RestTyped
<1> QED  BY <1>1, <1>2, <1>3, <1>5, FS_EmptySet DEF PlanTIInv

\* Rows that stay as they are, or go, stay typed.
LEMMA TypedStay ==
  ASSUME PlanTIInv, now' \in 0..MaxMinute, now <= now',
         \A q \in Creates : plan'[q] = NoPlan \/ plan'[q] = plan[q]
  PROVE  RowsTyped' /\ IsFiniteSet(Plans')
<1>1. now \in 0..MaxMinute
  BY DEF PlanTIInv, RestTyped
<1>2. ASSUME NEW q \in Creates, plan'[q] # NoPlan
      PROVE  PlanTyped(plan'[q], now') /\ \A p \in Creates \ {q} : plan'[p] = NoPlan \/ plan'[p].name # plan'[q].name
  <2>1. plan'[q] = plan[q] /\ plan[q] # NoPlan
    BY <1>2
  <2>2. PICK r : r = plan[q]
    OBVIOUS
  <2>3. /\ r.name \in Names /\ r.created \in 0..now
        /\ r.start \in 0..MinutesPerDay /\ r.end \in 0..MinutesPerDay
        /\ r.keep \in 1..MaxKeep /\ r.on \in BOOLEAN
    BY <2>1, <2>2 DEF PlanTIInv, RowsTyped, PlanTyped
  <2>4. r.created \in 0..now'
    BY <1>1, <2>3
  <2>5. ASSUME NEW p \in Creates \ {q} PROVE plan'[p] = NoPlan \/ plan'[p].name # plan'[q].name
    BY <2>1 DEF PlanTIInv, RowsTyped
  <2> QED  BY <2>1, <2>2, <2>3, <2>4, <2>5 DEF PlanTyped
<1>3. RowsTyped'
  BY <1>2 DEF RowsTyped
<1>4. Plans' \subseteq Plans /\ IsFiniteSet(Plans)
  BY DEF Plans, PlanTIInv
<1> QED  BY <1>3, <1>4, FS_Subset

\* One row written, under a name nobody else has.
LEMMA TypedWrite ==
  ASSUME PlanTIInv, NEW q \in Creates, NEW r, PlanTyped(r, now), ~Taken(q, r.name), now' = now,
         plan' = [plan EXCEPT ![q] = r]
  PROVE  RowsTyped' /\ IsFiniteSet(Plans')
<1>1. plan'[q] = r /\ \A p \in Creates \ {q} : plan'[p] = plan[p]
  BY DEF PlanTIInv, PlanIInv
<1>2. \A p \in Creates \ {q} : plan'[p] = NoPlan \/ plan'[p].name # r.name
  BY <1>1 DEF Taken
<1>3. ASSUME NEW p \in Creates, plan'[p] # NoPlan
      PROVE  /\ PlanTyped(plan'[p], now')
             /\ \A o \in Creates \ {p} : plan'[o] = NoPlan \/ plan'[o].name # plan'[p].name
  <2>1. CASE p = q
    BY <1>1, <1>2, <2>1 DEF PlanTyped
  <2>2. CASE p # q
    <3>1. plan'[p] = plan[p] /\ plan[p] # NoPlan
      BY <1>1, <1>3, <2>2
    <3>2. PlanTyped(plan[p], now) /\ \A o \in Creates \ {p} : plan[o] = NoPlan \/ plan[o].name # plan[p].name
      BY <3>1 DEF PlanTIInv, RowsTyped
    <3>3. ASSUME NEW o \in Creates \ {p} PROVE plan'[o] = NoPlan \/ plan'[o].name # plan'[p].name
      <4>1. CASE o = q
        BY <1>1, <1>2, <1>3, <2>2, <4>1
      <4>2. CASE o # q
        BY <1>1, <3>1, <3>2, <4>2
      <4> QED  BY <4>1, <4>2
    <3> QED  BY <3>1, <3>2, <3>3 DEF PlanTyped
  <2> QED  BY <2>1, <2>2
<1>4. RowsTyped'
  BY <1>3 DEF RowsTyped
<1>5. IsFiniteSet(Plans \cup {q})
  BY FS_AddElement DEF PlanTIInv
<1>6. Plans' \subseteq Plans \cup {q}
  BY <1>1 DEF Plans
<1> QED  BY <1>4, <1>5, <1>6, FS_Subset

LEMMA CreateTyped ==
  ASSUME PlanTIInv, NEW q \in Creates, NEW n \in Names, NEW f \in Drafts, CreateRecordPlan(q, n, f)
  PROVE  RowsTyped' /\ IsFiniteSet(Plans')
<1>1. Accepted(f) /\ now' = now
  BY DEF CreateRecordPlan
<1>2. now \in 0..MaxMinute
  BY DEF PlanTIInv, RestTyped
<1>3. CASE UNCHANGED plan
  BY <1>1, <1>2, <1>3, TypedStay
<1>4. CASE ~Taken(q, n) /\ plan' = [plan EXCEPT ![q] = NewPlan(n, f)]
  <2>1. /\ Normalized(f).start \in 0..MinutesPerDay /\ Normalized(f).end \in 0..MinutesPerDay
        /\ Normalized(f).keep \in 1..MaxKeep
    BY <1>1, PlanAssumption, NormalizedFits
  <2>2. f.on \in BOOLEAN
    BY PlanAssumption
  <2> DEFINE r == NewPlan(n, f)
  <2>3. /\ r.name = n /\ r.created = now /\ r.on = f.on /\ r.start = Normalized(f).start
        /\ r.end = Normalized(f).end /\ r.keep = Normalized(f).keep
    BY DEF NewPlan, Settings
  <2> HIDE DEF r
  <2>4. PlanTyped(r, now)
    BY <1>2, <2>1, <2>2, <2>3 DEF PlanTyped
  <2>5. ~Taken(q, r.name) /\ plan' = [plan EXCEPT ![q] = r]
    BY <1>4, <2>3 DEF r
  <2> QED  BY <1>1, <2>4, <2>5, TypedWrite
<1> QED  BY <1>3, <1>4 DEF CreateRecordPlan

LEMMA UpdateTyped ==
  ASSUME PlanTIInv, NEW e \in Edits, NEW patch \in Patches, UpdateRecordPlan(e, patch)
  PROVE  RowsTyped' /\ IsFiniteSet(Plans')
<1> DEFINE q       == edit[e].id
           row     == edit[e].row
           wanted  == Normalized(Merged(row, patch))
           columns == Columns(row, patch)
           new     == Overwritten(plan[q], columns)
<1>1. edit[e].at = "read" /\ Accepted(Merged(row, patch)) /\ now' = now
  BY DEF UpdateRecordPlan
<1>2. now \in 0..MaxMinute /\ q \in Creates /\ Row(row)
  BY <1>1 DEF PlanTIInv, RestTyped, PlanIInv
<1>3. CASE UNCHANGED plan
  BY <1>1, <1>2, <1>3, TypedStay
<1>4. CASE /\ plan[q] # NoPlan /\ plan' = [plan EXCEPT ![q] = new]
           /\ "name" \in DOMAIN columns => ~Taken(q, columns.name)
  <2>1. /\ DOMAIN Merged(row, patch) = Settings
        /\ Merged(row, patch).start \in Int /\ Merged(row, patch).end \in Int
        /\ Merged(row, patch).keep \in Int
    BY <1>2, PlanAssumption DEF Merged, Settings, Row
  <2>2. /\ wanted.start \in 0..MinutesPerDay /\ wanted.end \in 0..MinutesPerDay
        /\ wanted.keep \in 1..MaxKeep
    BY <1>1, <2>1, NormalizedFits
  <2>3. Row(plan[q]) /\ PlanTyped(plan[q], now)
        /\ \A p \in Creates \ {q} : plan[p] = NoPlan \/ plan[p].name # plan[q].name
    BY <1>2, <1>4 DEF PlanTIInv, PlanIInv, RowsTyped
  <2>4. /\ \A s \in Settings \cap DOMAIN columns : columns[s] = wanted[s]
        /\ DOMAIN columns \subseteq Settings \cup {"on", "name"}
        /\ \A s \in {"on", "name"} \cap DOMAIN columns : s \in DOMAIN patch /\ columns[s] = patch[s]
    BY PlanAssumption DEF Columns, Settings
  <2>5. /\ "on" \in DOMAIN columns => columns.on \in BOOLEAN
        /\ "name" \in DOMAIN columns => columns.name \in Names
        /\ "created" \notin DOMAIN columns
    BY <2>4, PlanAssumption DEF Settings
  <2> HIDE DEF wanted, columns
  <2>6. \A s \in Columned : new[s] = IF s \in DOMAIN columns THEN columns[s] ELSE plan[q][s]
    BY <2>3 DEF Overwritten, Row
  <2> HIDE DEF new
  <2>7. \A s \in Settings : new[s] = IF s \in DOMAIN columns THEN wanted[s] ELSE plan[q][s]
    BY <2>4, <2>6 DEF Columned
  <2>8. /\ new.start \in 0..MinutesPerDay /\ new.end \in 0..MinutesPerDay /\ new.keep \in 1..MaxKeep
    BY <2>2, <2>3, <2>7 DEF Settings, PlanTyped
  <2>9. new.name \in Names /\ new.created = plan[q].created /\ ~Taken(q, new.name)
    <3>1. new.created = plan[q].created
      BY <2>5, <2>6 DEF Columned
    <3>2. CASE "name" \in DOMAIN columns
      <4>1. new.name = columns.name
        BY <2>6, <3>2 DEF Columned
      <4> QED  BY <1>4, <2>5, <3>1, <3>2, <4>1
    <3>3. CASE "name" \notin DOMAIN columns
      <4>1. new.name = plan[q].name
        BY <2>6, <3>3 DEF Columned
      <4>2. ~Taken(q, plan[q].name)
        BY <2>3 DEF Taken
      <4> QED  BY <2>3, <3>1, <4>1, <4>2 DEF PlanTyped
    <3> QED  BY <3>2, <3>3
  <2>10. new.on \in BOOLEAN
    <3>1. new.on = IF "on" \in DOMAIN columns THEN columns.on ELSE plan[q].on
      BY <2>6 DEF Columned
    <3>2. plan[q].on \in BOOLEAN
      BY <2>3 DEF PlanTyped
    <3> QED  BY <2>5, <3>1, <3>2
  <2>11. PlanTyped(new, now)
    BY <2>3, <2>8, <2>9, <2>10 DEF PlanTyped
  <2> HIDE DEF q
  <2> QED  BY <1>1, <1>2, <1>4, <2>9, <2>11, TypedWrite
<1> QED  BY <1>3, <1>4 DEF UpdateRecordPlan

LEMMA PlanTypesKeep == ASSUME PlanTIInv, [PlanNext]_planVars PROVE PlanTIInv'
<1>1. PlanIInv'
  BY PlanKeeps DEF PlanTIInv
<1>2. RestTyped'
  <2> USE DEF PlanTIInv, RestTyped
  <2>1. ASSUME NEW q \in Creates, PlanGuard(q)  PROVE RestTyped'
    BY <2>1 DEF PlanGuard
  <2>2. ASSUME NEW q \in Creates, NEW n \in Names, NEW f \in Drafts, CreateRecordPlan(q, n, f)
        PROVE  RestTyped'
    <3>1. create' \in [Creates -> {"new", "guarded", "done"}] /\ raced' \subseteq Creates
      BY <2>2 DEF CreateRecordPlan
    <3> QED  BY <2>2, <3>1 DEF CreateRecordPlan
  <2>3. ASSUME NEW e \in Edits, NEW q \in Creates, ReadPlan(e, q)  PROVE RestTyped'
    <3>1. DOMAIN edit = Edits
      BY DEF PlanIInv
    <3>2. \A x \in Edits : edit'[x] = edit[x] \/ edit'[x].at = "read"
      BY <2>3, <3>1 DEF ReadPlan
    <3> QED  BY <2>3, <3>2 DEF ReadPlan
  <2>4. ASSUME NEW e \in Edits, NEW patch \in Patches, UpdateRecordPlan(e, patch)  PROVE RestTyped'
    <3>1. DOMAIN edit = Edits /\ edit[e].id \in Creates
      BY <2>4 DEF PlanIInv, UpdateRecordPlan
    <3>2. \A x \in Edits : edit'[x] = edit[x] \/ edit'[x].at = "done"
      BY <2>4, <3>1 DEF UpdateRecordPlan
    <3>3. muddled' \subseteq Creates
      BY <2>4, <3>1 DEF UpdateRecordPlan
    <3> QED  BY <2>4, <3>2, <3>3 DEF UpdateRecordPlan
  <2>5. ASSUME NEW q \in Creates, DeleteRecordPlan(q)  PROVE RestTyped'
    BY <2>5 DEF DeleteRecordPlan
  <2>6. CASE DeleteCamera
    BY <2>6 DEF DeleteCamera
  <2>7. CASE CleanupPlans \/ CleanupFails
    BY <2>7 DEF CleanupPlans, CleanupFails
  <2>8. CASE TimePasses
    BY <2>8, PlanAssumption DEF TimePasses
  <2>9. CASE UNCHANGED planVars
    BY <2>9 DEF planVars
  <2> QED  BY <2>1, <2>2, <2>3, <2>4, <2>5, <2>6, <2>7, <2>8, <2>9 DEF PlanNext
<1>3. RowsTyped' /\ IsFiniteSet(Plans')
  <2>1. now' \in 0..MaxMinute /\ now \in 0..MaxMinute /\ DOMAIN plan = Creates
    BY <1>2 DEF RestTyped, PlanTIInv, PlanIInv
  <2>2. ASSUME NEW q \in Creates, PlanGuard(q)  PROVE RowsTyped' /\ IsFiniteSet(Plans')
    BY <2>1, <2>2, TypedStay DEF PlanGuard
  <2>3. ASSUME NEW e \in Edits, NEW q \in Creates, ReadPlan(e, q)  PROVE RowsTyped' /\ IsFiniteSet(Plans')
    BY <2>1, <2>3, TypedStay DEF ReadPlan
  <2>4. ASSUME NEW q \in Creates, DeleteRecordPlan(q)  PROVE RowsTyped' /\ IsFiniteSet(Plans')
    <3>1. now' = now /\ \A p \in Creates : plan'[p] = NoPlan \/ plan'[p] = plan[p]
      BY <2>1, <2>4 DEF DeleteRecordPlan
    <3> QED  BY <2>1, <3>1, TypedStay
  <2>5. CASE CleanupPlans
    <3>1. now' = now /\ \A p \in Creates : plan'[p] = NoPlan
      BY <2>5 DEF CleanupPlans
    <3> QED  BY <2>1, <3>1, TypedStay
  <2>6. CASE DeleteCamera \/ CleanupFails \/ TimePasses \/ UNCHANGED planVars
    <3>1. plan' = plan /\ now <= now'
      BY <2>1, <2>6 DEF DeleteCamera, CleanupFails, TimePasses, planVars
    <3> QED  BY <2>1, <3>1, TypedStay
  <2> QED  BY <2>2, <2>3, <2>4, <2>5, <2>6, CreateTyped, UpdateTyped DEF PlanNext
<1> QED  BY <1>1, <1>2, <1>3 DEF PlanTIInv

\* Rows, names and times of plans have their types, for any requests and times.
THEOREM PlanTypes == PlanSpec => []PlanTypeOK
<1>1. PlanInit => PlanTIInv
  BY PlanTypesStart
<1>2. PlanTIInv /\ [PlanNext]_planVars => PlanTIInv'
  BY PlanTypesKeep
<1> QED  BY <1>1, <1>2, TypesAre, PTL DEF PlanSpec

------------------------------------------------------------------------------
(* Playback: the windows of the plans, merged.                             *)

\* Windows, and the minutes they cover.
Window == [start : Int, end : Int]

Covers(w, t) == w.start <= t /\ t < w.end

\* The sequence of windows merged is what the windows of a set come to.
Merges(merged, spans) ==
  /\ merged \in Seq(Window)
  /\ \A i \in 1..Len(merged) : merged[i].start < merged[i].end
  /\ \A i \in 1..(Len(merged) - 1) : merged[i].end < merged[i + 1].start
  /\ merged # << >> => \E v \in spans : merged[Len(merged)].start = v.start
  /\ \A t \in Int : (\E i \in 1..Len(merged) : Covers(merged[i], t)) <=> (\E v \in spans : Covers(v, t))

LEMMA AbsorbMerges ==
  ASSUME NEW merged, NEW spans, Merges(merged, spans), NEW w \in Window, w.start < w.end,
         \A v \in spans : v.start <= w.start
  PROVE  Merges(Absorb(merged, w), spans \cup {w})
<1> DEFINE n == Len(merged)
           longer == Absorb(merged, w)
<1>1. merged \in Seq(Window) /\ n \in Nat /\ (merged # << >> <=> n # 0)
      /\ \A i \in 1..n : merged[i] \in Window
  BY DEF Merges
<1>2. CASE merged # << >> /\ w.start <= merged[n].end
  <2> DEFINE last == [start |-> merged[n].start, end |-> Later(merged[n].end, w.end)]
  <2>0. n \in 1..n /\ n \in Nat \ {0} /\ merged[n] \in Window
    BY <1>1, <1>2
  <2>1. last \in Window /\ [merged[n] EXCEPT !.end = Later(@, w.end)] = last
    BY <2>0 DEF Window, Later
  <2>2. longer = SubSeq(merged, 1, n - 1) \o <<last>>
    BY <1>2, <2>1 DEF Absorb, Front, Last
  <2> HIDE DEF longer
  <2>3. /\ longer \in Seq(Window) /\ Len(longer) = n /\ longer[n] = last
        /\ \A i \in 1..(n - 1) : longer[i] = merged[i]
    <3> HIDE DEF last
    <3> DEFINE front == SubSeq(merged, 1, n - 1)
    <3>1. front \in Seq(Window) /\ Len(front) = n - 1 /\ \A i \in 1..(n - 1) : front[i] = merged[i]
      <4>1. /\ n - 1 \in Int /\ \A i \in 1..(n - 1) : merged[i] \in Window
            /\ (IF 1 <= n - 1 THEN (n - 1) - 1 + 1 ELSE 0) = n - 1
            /\ (n - 1) - 1 + 1 = n - 1
        <5>1. n \in Nat /\ n >= 1 /\ \A i \in 1..n : merged[i] \in Window
          BY <1>1, <2>0
        <5> HIDE DEF n
        <5>2. \A i \in 1..(n - 1) : i \in 1..n
          BY <5>1
        <5>3. (IF 1 <= n - 1 THEN (n - 1) - 1 + 1 ELSE 0) = n - 1
          BY <5>1
        <5> QED  BY <5>1, <5>2, <5>3
      <4>2. \A i \in 1..(n - 1) : 1 + i - 1 = i
        BY <2>0
      <4>3. /\ front \in Seq(Window)
            /\ Len(front) = IF 1 <= n - 1 THEN (n - 1) - 1 + 1 ELSE 0
            /\ \A i \in 1..((n - 1) - 1 + 1) : front[i] = merged[1 + i - 1]
        <5> HIDE DEF n
        <5> QED  BY <4>1, SubSeqProperties DEF front
      <4> HIDE DEF front
      <4> QED  BY <4>1, <4>2, <4>3
    <3> HIDE DEF front
    <3>2. longer = front \o <<last>>
      BY <2>2 DEF front
    <3> QED  BY <2>0, <2>1, <3>1, <3>2
  <2>4. PICK v \in spans : merged[n].start = v.start
    BY <1>2 DEF Merges
  <2>5. last.start = merged[n].start /\ last.start <= w.start /\ last.end = Later(merged[n].end, w.end)
    BY <2>4
  <2>6. \A t \in Int : Covers(last, t) <=> Covers(merged[n], t) \/ Covers(w, t)
    BY <1>2, <2>0, <2>5 DEF Covers, Window, Later
  <2> HIDE DEF last
  <2>7. \A i \in 1..n : longer[i].start < longer[i].end
    <3>1. merged[n].start < merged[n].end /\ \A i \in 1..(n-1) : merged[i].start < merged[i].end
      BY <2>0 DEF Merges
    <3>2. \A i \in 1..n : i = n \/ i \in 1..(n - 1)
      BY <2>0
    <3>3. longer[n].start < longer[n].end
      BY <2>0, <2>3, <2>5, <3>1 DEF Later, Window
    <3> QED  BY <2>3, <3>1, <3>2, <3>3
  <2>8. ASSUME NEW i \in 1..(n - 1) PROVE longer[i].end < longer[i + 1].start
    <3>1. merged[i].end < merged[i + 1].start
      BY DEF Merges
    <3>2. longer[i + 1].start = merged[i + 1].start
      BY <2>3, <2>5, <2>0
    <3> QED  BY <2>3, <3>1, <3>2
  <2>9. ASSUME NEW t \in Int
        PROVE  (\E i \in 1..n : Covers(longer[i], t)) <=> (\E u \in spans \cup {w} : Covers(u, t))
    <3>1. (\E i \in 1..n : Covers(longer[i], t))
            <=> Covers(last, t) \/ \E i \in 1..(n - 1) : Covers(merged[i], t)
      BY <2>0, <2>3
    <3>2. (\E i \in 1..n : Covers(merged[i], t))
            <=> Covers(merged[n], t) \/ \E i \in 1..(n - 1) : Covers(merged[i], t)
      BY <2>0
    <3>3. (\E i \in 1..n : Covers(merged[i], t)) <=> (\E u \in spans : Covers(u, t))
      BY DEF Merges
    <3> QED  BY <2>6, <3>1, <3>2, <3>3
  <2>10. longer # << >> /\ longer[Len(longer)].start = v.start
    BY <2>0, <2>3, <2>4, <2>5
  <2> QED  BY <2>3, <2>7, <2>8, <2>9, <2>10 DEF Merges, longer
<1>3. CASE ~(merged # << >> /\ w.start <= merged[n].end)
  <2>1. longer = Append(merged, w)
    BY <1>3 DEF Absorb, Last
  <2> HIDE DEF longer
  <2>2. /\ longer \in Seq(Window) /\ Len(longer) = n + 1 /\ longer[n + 1] = w
        /\ \A i \in 1..n : longer[i] = merged[i]
    BY <1>1, <2>1
  <2>3. \A i \in 1..(n + 1) : longer[i].start < longer[i].end
    BY <1>1, <2>2 DEF Merges
  <2>4. ASSUME NEW i \in 1..n PROVE longer[i].end < longer[i + 1].start
    <3>1. CASE i = n
      <4>1. merged[n].end < w.start
        BY <1>1, <1>3, <3>1 DEF Window
      <4> QED  BY <2>2, <3>1, <4>1
    <3>2. CASE i # n
      <4>1. i \in 1..(n - 1) /\ i + 1 \in 1..n
        BY <1>1, <3>2
      <4> QED  BY <2>2, <4>1 DEF Merges
    <3> QED  BY <3>1, <3>2
  <2>5. ASSUME NEW t \in Int
        PROVE  (\E i \in 1..(n + 1) : Covers(longer[i], t)) <=> (\E u \in spans \cup {w} : Covers(u, t))
    <3>1. (\E i \in 1..(n + 1) : Covers(longer[i], t))
            <=> Covers(w, t) \/ \E i \in 1..n : Covers(merged[i], t)
      BY <1>1, <2>2
    <3>2. (\E i \in 1..n : Covers(merged[i], t)) <=> (\E u \in spans : Covers(u, t))
      BY DEF Merges
    <3> QED  BY <3>1, <3>2
  <2>6. longer[Len(longer)].start = w.start
    BY <2>2
  <2>7. Len(longer) - 1 = n
    BY <1>1, <2>2
  <2> QED  BY <2>2, <2>3, <2>4, <2>5, <2>6, <2>7 DEF Merges, longer
<1> QED  BY <1>2, <1>3

\* Windows as playback makes them: finitely many, none empty.
Proper(spans) ==
  spans \subseteq Window /\ IsFiniteSet(spans) /\ \A w \in spans : w.start < w.end

LEMMA LatestStarts ==
  ASSUME NEW spans, Proper(spans), spans # {}
  PROVE  LatestStart(spans) \in spans /\ \A v \in spans : v.start <= LatestStart(spans).start
<1> DEFINE f == [w \in spans |-> w.start]
           T == {f[w] : w \in spans}
<1>1. IsFiniteSet(spans)
  BY DEF Proper
<1>2. IsFiniteSet(T)
  <2> HIDE DEF f
  <2> QED  BY <1>1, ImageFinite
<1>3. T \in SUBSET Int /\ T # {}
  BY DEF Proper, Window
<1>4. Max(T) \in T /\ \A y \in T : y <= Max(T)
  <2> HIDE DEF T
  <2> QED  BY <1>2, <1>3, MaxMin
<1>5. \E w \in spans : \A v \in spans : v.start <= w.start
  BY <1>4
<1> QED  BY <1>5 DEF LatestStart

LEMMA MergeMerges ==
  ASSUME NEW spans, Proper(spans)
  PROVE  Merges(Merge(spans), spans)
<1> DEFINE step == [p \in spans \X Seq(Window) |-> Absorb(p[2], p[1])]
           pick == [s \in SUBSET spans |-> LatestStart(s)]
           IsMerge(h) == h = [s \in SUBSET spans |->
                                IF s = {} THEN << >>
                                ELSE Absorb(h[s \ {LatestStart(s)}], LatestStart(s))]
           iter == CHOOSE h : IsMerge(h)
<1>1. \A s \in SUBSET spans : Proper(s)
  BY FS_Subset DEF Proper
<1>2. Picks(pick, spans)
  BY <1>1, LatestStarts DEF Picks
<1>3. step \in [spans \X Seq(Window) -> Seq(Window)]
  <2>1. ASSUME NEW w \in spans, NEW m \in Seq(Window) PROVE Absorb(m, w) \in Seq(Window)
    <3>1. w \in Window
      BY DEF Proper
    <3>2. CASE m # << >> /\ w.start <= Last(m).end
      <4>1. Len(m) \in 1..Len(m) /\ m[Len(m)] \in Window
        BY <3>2
      <4>2. Front(m) \in Seq(Window)
        <5>1. Len(m) - 1 \in Int /\ \A i \in 1..(Len(m) - 1) : m[i] \in Window
          OBVIOUS
        <5> QED  BY <5>1, SubSeqProperties DEF Front
      <4> DEFINE last == [Last(m) EXCEPT !.end = Later(@, w.end)]
      <4>3. last \in Window
        BY <3>1, <4>1 DEF Last, Later, Window
      <4>4. Front(m) \o <<last>> \in Seq(Window)
        <5> HIDE DEF last
        <5> QED  BY <4>2, <4>3
      <4> QED  BY <3>2, <4>4 DEF Absorb
    <3>3. CASE ~(m # << >> /\ w.start <= Last(m).end)
      BY <3>1, <3>3 DEF Absorb
    <3> QED  BY <3>2, <3>3
  <2> QED  BY <2>1
<1>4. PICK g \in [SUBSET spans -> Seq(Window)] : Folds(g, spans, << >>, step, pick)
  <2> HIDE DEF step, pick
  <2>1. << >> \in Seq(Window) /\ IsFiniteSet(spans)
    BY DEF Proper
  <2> QED  BY <1>2, <1>3, <2>1, FoldExists
<1>5. ASSUME NEW s \in SUBSET spans
      PROVE  g[s] = IF s = {} THEN << >> ELSE Absorb(g[s \ {LatestStart(s)}], LatestStart(s))
  <2>1. CASE s = {}
    BY <1>4, <2>1 DEF Folds
  <2>2. CASE s # {}
    <3>1. pick[s] = LatestStart(s) /\ LatestStart(s) \in spans /\ s \ {LatestStart(s)} \in SUBSET spans
      BY <1>1, <2>2, LatestStarts
    <3>2. g[s] = step[<<LatestStart(s), g[s \ {LatestStart(s)}]>>]
      BY <1>4, <2>2, <3>1 DEF Folds
    <3>3. <<LatestStart(s), g[s \ {LatestStart(s)}]>> \in spans \X Seq(Window)
      BY <3>1
    <3> QED  BY <2>2, <3>2, <3>3
  <2> QED  BY <2>1, <2>2
<1>6. IsMerge(g)
  BY <1>5
<1>7. IsMerge(iter)
  BY <1>6
<1>8. Merge(spans) = iter[spans]
  BY DEF Merge, MapThenFoldSet
<1> HIDE DEF iter
<1> DEFINE B == {s \in SUBSET spans : Merges(iter[s], s)}
<1>9. ASSUME NEW s \in SUBSET spans, \A x \in s : s \ {x} \in B PROVE s \in B
  <2>1. iter[s] = IF s = {} THEN << >> ELSE Absorb(iter[s \ {LatestStart(s)}], LatestStart(s))
    BY <1>7
  <2>2. CASE s = {}
    <3>1. Merges(<< >>, s)
      BY <2>2 DEF Merges
    <3> QED  BY <2>1, <2>2, <3>1
  <2>3. CASE s # {}
    <3> DEFINE w == LatestStart(s)
    <3>1. w \in s /\ \A v \in s : v.start <= w.start
      BY <1>1, <2>3, LatestStarts
    <3>2. w \in Window /\ w.start < w.end
      BY <3>1 DEF Proper
    <3>3. Merges(iter[s \ {w}], s \ {w})
      BY <1>9, <3>1
    <3>4. s = (s \ {w}) \cup {w}
      BY <3>1
    <3>5. iter[s] = Absorb(iter[s \ {w}], w)
      BY <2>1, <2>3
    <3> HIDE DEF w
    <3>6. Merges(Absorb(iter[s \ {w}], w), (s \ {w}) \cup {w})
      BY <3>1, <3>2, <3>3, AbsorbMerges
    <3> QED  BY <3>4, <3>5, <3>6
  <2> QED  BY <2>2, <2>3
<1>10. Inductive(B, spans)
  BY <1>9 DEF Inductive
<1>11. SUBSET spans \subseteq B
  <2> HIDE DEF B
  <2>1. IsFiniteSet(spans)
    BY DEF Proper
  <2> QED  BY <1>10, <2>1, FiniteSubsetInduction
<1> QED  BY <1>8, <1>11
\* Days and minutes.
LEMMA DayOf ==
  ASSUME NEW t \in Int
  PROVE  /\ t \div MinutesPerDay \in Int /\ t % MinutesPerDay \in 0..(MinutesPerDay - 1)
         /\ t = (t \div MinutesPerDay) * MinutesPerDay + (t % MinutesPerDay)
BY PlanAssumption

LEMMA SameDay ==
  ASSUME NEW t \in Int, NEW d \in Int,
         d * MinutesPerDay <= t, t < d * MinutesPerDay + MinutesPerDay
  PROVE  d = t \div MinutesPerDay
<1> DEFINE e == t \div MinutesPerDay
<1>1. e \in Int /\ e * MinutesPerDay <= t /\ t < e * MinutesPerDay + MinutesPerDay
  BY DayOf, PlanAssumption
<1>2. MinutesPerDay \in Nat /\ MinutesPerDay > 0
  BY PlanAssumption
<1> HIDE DEF e
<1>3. ASSUME d < e PROVE FALSE
  <2>1. PICK k \in Nat : e = d + 1 + k
    <3>1. e - d - 1 \in Nat /\ e = d + 1 + (e - d - 1)
      BY <1>1, <1>3
    <3> QED  BY <3>1
  <2>2. e * MinutesPerDay = d * MinutesPerDay + MinutesPerDay + k * MinutesPerDay
    BY <1>2, <2>1
  <2>3. k * MinutesPerDay >= 0
    BY <1>2
  <2> QED  BY <1>1, <1>2, <2>2, <2>3
<1>4. ASSUME e < d PROVE FALSE
  <2>1. PICK k \in Nat : d = e + 1 + k
    <3>1. d - e - 1 \in Nat /\ d = e + 1 + (d - e - 1)
      BY <1>1, <1>4
    <3> QED  BY <3>1
  <2>2. d * MinutesPerDay = e * MinutesPerDay + MinutesPerDay + k * MinutesPerDay
    BY <1>1, <1>2, <2>1
  <2>3. k * MinutesPerDay >= 0
    BY <1>2
  <2> QED  BY <1>1, <1>2, <2>2, <2>3
<1>5. d = e
  <2>1. e \in Int
    BY <1>1
  <2> QED  BY <1>3, <1>4, <2>1
<1> QED  BY <1>5 DEF e

LEMMA LaterDay ==
  ASSUME NEW s \in Int, NEW t \in Int, s <= t
  PROVE  s \div MinutesPerDay <= t \div MinutesPerDay
<1> DEFINE d == s \div MinutesPerDay
           e == t \div MinutesPerDay
<1>1. /\ d \in Int /\ d * MinutesPerDay <= s
      /\ e \in Int /\ t < e * MinutesPerDay + MinutesPerDay
  BY DayOf, PlanAssumption
<1>2. MinutesPerDay \in Nat /\ MinutesPerDay > 0
  BY PlanAssumption
<1> HIDE DEF d, e
<1>3. ASSUME e < d PROVE FALSE
  <2>1. PICK k \in Nat : d = e + 1 + k
    <3>1. d - e - 1 \in Nat /\ d = e + 1 + (d - e - 1)
      BY <1>1, <1>3
    <3> QED  BY <3>1
  <2>2. d * MinutesPerDay = e * MinutesPerDay + MinutesPerDay + k * MinutesPerDay
    BY <1>1, <1>2, <2>1
  <2>3. k * MinutesPerDay >= 0
    BY <1>2
  <2> QED  BY <1>1, <1>2, <2>2, <2>3
<1>4. d <= e
  <2>1. d \in Int /\ e \in Int
    BY <1>1
  <2> QED  BY <1>3, <2>1
<1> QED  BY <1>4 DEF d, e

\* Does the plan record the minute t, when its hours are those of its strategy?
Wanted(row, t) ==
  /\ row.on /\ row.created <= t /\ now - row.keep * MinutesPerDay <= t
  /\ \/ row.strategy = "always"
     \/ /\ row.days = {} \/ (t \div MinutesPerDay) % DaysPerWeek \in row.days
        /\ t % MinutesPerDay \in row.start..(row.end - 1)

\* The times of a row of the table.
Timed(row) ==
  /\ row.start \in 0..MinutesPerDay /\ row.end \in 0..MinutesPerDay
  /\ row.keep \in Int /\ row.created \in Int

\* The windows of a plan cover the minutes asked for that it records.
LEMMA WindowsCover ==
  ASSUME NEW row, Timed(row), now \in Int, NEW from \in Int, NEW to \in Int
  PROVE  /\ Proper(PlanWindows(row, from, to))
         /\ \A t \in Int : (\E w \in PlanWindows(row, from, to) : Covers(w, t))
                             <=> from <= t /\ t < to /\ Wanted(row, t)
<1> DEFINE M     == MinutesPerDay
           floor == Later(now - row.keep * MinutesPerDay, row.created)
           week  == {d \in (from \div M)..(to \div M) :
                      \/ row.strategy = "always" \/ row.days = {}
                      \/ d % DaysPerWeek \in row.days}
           first == IF row.strategy = "always" THEN 0 ELSE row.start
           last  == IF row.strategy = "always" THEN M ELSE row.end
           cut   == [d \in week |->
                       [start |-> Later(Later(d * M + first, from), floor),
                        end   |-> Earlier(d * M + last, to)]]
           all   == {cut[d] : d \in week}
           spans == {w \in all : row.on /\ first < last /\ w.start < w.end}
<1>0. M \in Nat /\ M > 0
  BY PlanAssumption
<1>1. PlanWindows(row, from, to) = spans
  BY DEF PlanWindows
<1>2. first \in 0..M /\ last \in 0..M /\ row.keep * M \in Int /\ row.created \in Int
  BY <1>0 DEF Timed
<1>3. floor \in Int /\ \A t \in Int : floor <= t <=> now - row.keep * M <= t /\ row.created <= t
  BY <1>2 DEF Later
<1>4. from \div M \in Int /\ to \div M \in Int /\ \A d \in week : d \in Int
  BY DayOf
<1>5. IsFiniteSet(week)
  <2>1. IsFiniteSet((from \div M)..(to \div M))
    BY <1>4, FS_Interval
  <2> QED  BY <2>1, FS_Subset
<1>6. ASSUME NEW d \in week
      PROVE  /\ cut[d] \in Window
             /\ \A t \in Int : Covers(cut[d], t) <=> /\ d * M + first <= t /\ from <= t /\ floor <= t
                                                     /\ t < d * M + last /\ t < to
  <2>1. d * M \in Int /\ first \in Int /\ last \in Int
    BY <1>0, <1>2, <1>4
  <2> HIDE DEF floor, first, last, M, week
  <2>2. cut[d] = [start |-> Later(Later(d * M + first, from), floor),
                  end   |-> Earlier(d * M + last, to)]
    OBVIOUS
  <2> DEFINE a == d * M + first
             b == d * M + last
  <2>3. a \in Int /\ b \in Int
    BY <2>1
  <2> HIDE DEF a, b
  <2>4. cut[d].start = Later(Later(a, from), floor) /\ cut[d].end = Earlier(b, to)
    BY <2>2 DEF a, b
  <2>5. cut[d] \in Window
    BY <1>3, <2>2, <2>3 DEF Window, Later, Earlier, a, b
  <2>6. \A t \in Int : Covers(cut[d], t) <=> a <= t /\ from <= t /\ floor <= t /\ t < b /\ t < to
    BY <1>3, <2>3, <2>4 DEF Covers, Later, Earlier
  <2> QED  BY <2>5, <2>6 DEF a, b
<1>7. Proper(spans)
  <2>1. IsFiniteSet(all)
    <3> HIDE DEF cut, week
    <3> QED  BY <1>5, ImageFinite
  <2>2. all \subseteq Window
    BY <1>6
  <2> HIDE DEF all
  <2>3. IsFiniteSet(spans)
    BY <2>1, FS_Subset
  <2> QED  BY <2>2, <2>3 DEF Proper
<1>8. ASSUME NEW t \in Int, NEW w \in spans, Covers(w, t)
      PROVE  from <= t /\ t < to /\ Wanted(row, t)
  <2>1. PICK d \in week : w = cut[d]
    OBVIOUS
  <2>2. row.on /\ d * M + first <= t /\ from <= t /\ floor <= t /\ t < d * M + last /\ t < to
    BY <1>6, <1>8, <2>1
  <2>3. d \in Int /\ d * M \in Int
    BY <1>0, <1>4
  <2>4. d * M <= t /\ t < d * M + M
    BY <1>0, <1>2, <2>2, <2>3
  <2>5. d = t \div M
    BY <2>3, <2>4, SameDay
  <2>6. t = d * M + (t % M) /\ t % M \in 0..(M - 1)
    BY <2>5, DayOf
  <2>7. row.strategy = "always" \/ (/\ row.days = {} \/ d % DaysPerWeek \in row.days
                                    /\ t % M \in row.start..(row.end - 1))
    <3>1. CASE row.strategy # "always"
      <4>1. first = row.start /\ last = row.end
        BY <3>1
      <4>2. t % M \in row.start..(row.end - 1)
        <5> HIDE DEF M, first, last
        <5> QED  BY <1>0, <1>2, <2>2, <2>3, <2>6, <4>1
      <4> QED  BY <3>1, <4>2
    <3> QED  BY <3>1
  <2> HIDE DEF week, first, last, floor
  <2> QED  BY <1>3, <2>2, <2>5, <2>7 DEF Wanted
<1>9. ASSUME NEW t \in Int, from <= t, t < to, Wanted(row, t)
      PROVE  \E w \in spans : Covers(w, t)
  <2> DEFINE d == t \div M
  <2>1. /\ d \in Int /\ t % M \in 0..(M - 1) /\ t = d * M + (t % M)
        /\ from \div M <= d /\ d <= to \div M
    BY <1>9, DayOf, LaterDay
  <2>2. d \in week
    BY <1>4, <1>9, <2>1 DEF Wanted
  <2>3. first <= t % M /\ t % M < last
    <3>1. CASE row.strategy = "always"
      BY <1>0, <2>1, <3>1
    <3>2. CASE row.strategy # "always"
      <4>1. t % M \in row.start..(row.end - 1)
        BY <1>9, <3>2 DEF Wanted
      <4> QED  BY <2>1, <3>2, <4>1 DEF Timed
    <3> QED  BY <3>1, <3>2
  <2>4. row.on /\ floor <= t
    BY <1>3, <1>9 DEF Wanted
  <2>5. d * M + first <= t /\ t < d * M + last /\ first < last
    <3> HIDE DEF d, first, last, M
    <3>1. d * M \in Int
      BY <1>0, <2>1
    <3> DEFINE dm == d * M
    <3>2. dm \in Int /\ t = dm + (t % M) /\ t % M \in Int /\ first \in Int /\ last \in Int
      BY <1>0, <1>2, <2>1, <3>1
    <3> HIDE DEF dm
    <3>3. dm + first <= t /\ t < dm + last /\ first < last
      BY <2>3, <3>2
    <3> QED  BY <3>3 DEF dm
  <2>6. Covers(cut[d], t) /\ cut[d] \in Window
    <3> HIDE DEF d, first, last, M, cut, week, floor
    <3> QED  BY <1>6, <1>9, <2>2, <2>4, <2>5
  <2>7. cut[d].start < cut[d].end
    <3> HIDE DEF cut
    <3> QED  BY <2>6 DEF Covers, Window
  <2>8. cut[d] \in spans
    <3>1. cut[d] \in all
      BY <2>2
    <3> HIDE DEF cut, all
    <3> QED  BY <2>4, <2>5, <2>7, <3>1
  <2> HIDE DEF spans, cut
  <2> QED  BY <2>6, <2>8
<1> HIDE DEF spans
<1> QED  BY <1>1, <1>7, <1>8, <1>9

\* Playback offers what is recorded, whatever the plans are.
LEMMA PlaybackOffers == ASSUME PlanTIInv PROVE PlaybackExact
<1> SUFFICES ASSUME NEW from \in 0..now, NEW to \in 0..MaxMinute, from < Earlier(to, now)
             PROVE  LET spans == Playback(from, to)
                        covered == UNION {spans[i].start..(spans[i].end - 1) : i \in DOMAIN spans}
                    IN  /\ covered = {t \in from..(to - 1) : Recorded(t)}
                        /\ \A i \in DOMAIN spans : spans[i].start < spans[i].end
                        /\ \A i \in 1..(Len(spans) - 1) : spans[i].end < spans[i + 1].start
  BY DEF PlaybackExact
<1> DEFINE last == Earlier(to, now)
           f == [q \in Plans |-> PlanWindows(plan[q], from, last)]
           each == {f[q] : q \in Plans}
           all == UNION each
           merged == Merge(all)
<1>1. now \in Nat /\ from \in Int /\ to \in Int /\ last \in Int /\ (\A t \in Int : t < last <=> t < to /\ t < now)
  BY PlanAssumption DEF PlanTIInv, RestTyped, Earlier
<1>2. ASSUME NEW q \in Plans PROVE Timed(plan[q])
  BY <1>1, PlanAssumption DEF Plans, PlanTIInv, RowsTyped, PlanTyped, Timed
<1>3. ASSUME NEW q \in Plans
      PROVE  /\ Proper(f[q])
             /\ \A t \in Int : (\E w \in f[q] : Covers(w, t)) <=> from <= t /\ t < last /\ Wanted(plan[q], t)
  <2> HIDE DEF last
  <2> QED  BY <1>1, <1>2, WindowsCover
<1>4. Playback(from, to) = merged
  BY DEF Playback, AvailableWindows, Plans
<1>5. Proper(all)
  <2> HIDE DEF f
  <2>1. IsFiniteSet(Plans)
    BY DEF PlanTIInv
  <2>2. IsFiniteSet(each)
    BY <2>1, ImageFinite
  <2>3. \A s \in each : IsFiniteSet(s) /\ s \subseteq Window /\ \A w \in s : w.start < w.end
    BY <1>3 DEF Proper
  <2> HIDE DEF each
  <2>4. IsFiniteSet(all)
    BY <2>2, <2>3, FS_UNION
  <2> QED  BY <2>3, <2>4 DEF Proper
<1>6. Merges(merged, all)
  <2> HIDE DEF all
  <2> QED  BY <1>5, MergeMerges
<1>7. \A t \in Int : (\E v \in all : Covers(v, t)) <=> from <= t /\ t < last /\ \E q \in Plans : Wanted(plan[q], t)
  <2> HIDE DEF f, last
  <2>1. \A t \in Int : (\E v \in all : Covers(v, t)) <=> \E q \in Plans : \E v \in f[q] : Covers(v, t)
    OBVIOUS
  <2> QED  BY <1>3, <2>1
<1>8. \A t \in Int : Recorded(t) <=> t < now /\ \E q \in Plans : Wanted(plan[q], t)
  BY DEF Recorded, Wanted, Plans
<1> HIDE DEF all, last
<1>9. ASSUME NEW t
      PROVE  t \in UNION {merged[i].start..(merged[i].end - 1) : i \in DOMAIN merged}
               <=> t \in Int /\ \E i \in 1..Len(merged) : Covers(merged[i], t)
  <2> HIDE DEF merged
  <2>0. merged \in Seq(Window)
    BY <1>6 DEF Merges
  <2>1. DOMAIN merged = 1..Len(merged) /\ \A i \in 1..Len(merged) : merged[i].start \in Int /\ merged[i].end \in Int
    <3>1. DOMAIN merged = 1..Len(merged) /\ \A i \in 1..Len(merged) : merged[i] \in Window
      BY <2>0
    <3>2. \A w \in Window : w.start \in Int /\ w.end \in Int
      BY DEF Window
    <3> QED  BY <3>1, <3>2
  <2>2. \A i \in 1..Len(merged) : t \in merged[i].start..(merged[i].end - 1) <=> t \in Int /\ Covers(merged[i], t)
    BY <2>1 DEF Covers
  <2> QED  BY <2>1, <2>2
<1> HIDE DEF merged
<1>10. \A t \in Int : (\E i \in 1..Len(merged) : Covers(merged[i], t)) <=> from <= t /\ t < to /\ Recorded(t)
  BY <1>1, <1>6, <1>7, <1>8 DEF Merges
<1>11. UNION {merged[i].start..(merged[i].end - 1) : i \in DOMAIN merged} = {t \in from..(to - 1) : Recorded(t)}
  <2>1. ASSUME NEW t
        PROVE  t \in UNION {merged[i].start..(merged[i].end - 1) : i \in DOMAIN merged}
                 <=> t \in from..(to - 1) /\ Recorded(t)
    BY <1>1, <1>9, <1>10
  <2> QED  BY <2>1
<1>12. DOMAIN merged = 1..Len(merged)
  BY <1>6 DEF Merges
<1> QED  BY <1>4, <1>6, <1>11, <1>12 DEF Merges

\* Playback offers each recorded minute once, nothing else, and in windows that are
\* apart, for any plans, days, retentions and questions.
THEOREM PlaybackCorrect == PlanSpec => []PlaybackExact
<1>1. PlanInit => PlanTIInv
  BY PlanTypesStart
<1>2. PlanTIInv /\ [PlanNext]_planVars => PlanTIInv'
  BY PlanTypesKeep
<1>3. PlanTIInv => PlaybackExact
  BY PlaybackOffers
<1> QED  BY <1>1, <1>2, <1>3, PTL DEF PlanSpec
------------------------------------------------------------------------------
(* The run.  A behaviour of MCAlarmPath is one of each part of the alarm's  *)
(* way, so what is proved of a part holds of the run.                      *)

pathVars == <<part, vars, lifecycleVars, intakeVars, hubVars, planVars, dispVars>>

OnePart == part \in {"ingest", "operators", "dispatch", "hub", "plans", "devices"}

\* A step of the run is a step of each part or leaves it alone.
LEMMA PathStep ==
  [PathNext]_pathVars =>
    /\ [Next]_vars /\ [DispatcherNext]_dispVars /\ [LifecycleNext]_lifecycleVars
    /\ [IntakeNext]_intakeVars /\ [HubNext]_hubVars /\ [PlanNext]_planVars
BY DEF PathNext, pathVars

\* Of AlarmIngest, all but its fairness, which the run does not assume.
LEMMA PathImplements ==
  PathSpec => /\ Init /\ [][Next]_vars
              /\ DispatcherSpec /\ LifecycleSpec /\ IntakeSpec /\ HubSpec /\ PlanSpec
<1>1. PathInit => /\ Init /\ DispatcherInit /\ LifecycleInit
                  /\ IntakeInit /\ HubInit /\ PlanInit
  BY DEF PathInit
<1> QED
  BY <1>1, PathStep, PTL DEF PathSpec, pathVars, DispatcherSpec, LifecycleSpec, IntakeSpec,
     HubSpec, PlanSpec

LEMMA DispatcherTypes == DispatcherSpec => []DispatcherTypeOK
<1>1. DispatcherIInv => DispatcherTypeOK
  BY DEF DispatcherIInv
<1> QED  BY <1>1, DispatcherStarts, DispatcherKeeps, PTL DEF DispatcherSpec

LEMMA LifecycleTypes == LifecycleSpec => []LifecycleTypeOK
<1>1. LifecycleIInv => LifecycleTypeOK
  BY DEF LifecycleIInv
<1> QED  BY <1>1, LifecycleStarts, LifecycleKeeps, PTL DEF LifecycleSpec

LEMMA IntakeTypes == IntakeSpec => []IntakeTypeOK
<1>1. IntakeIInv => IntakeTypeOK
  BY DEF IntakeIInv
<1> QED  BY <1>1, IntakeStarts, IntakeKeeps, PTL DEF IntakeSpec

LEMMA HubTypes == HubSpec => []HubTypeOK
<1>1. HubIInv => HubTypeOK
  BY DEF HubIInv
<1> QED  BY <1>1, HubStarts, HubKeeps, PTL DEF HubSpec

\* Whatever part of an alarm's way a behaviour takes, its rows, keys, workers, dead
\* letters, notices, calls, clients and plans keep their types.
THEOREM PathTyped == PathSpec => []PathTypes
<1>1. OnePart /\ TypeOK /\ DispatcherTypeOK /\ LifecycleTypeOK /\ IntakeTypeOK /\ HubTypeOK
      /\ PlanTypeOK => PathTypes
  BY DEF PathTypes, OnePart
<1>2. PathSpec => []OnePart
  <2>1. PathInit => OnePart
    BY DEF PathInit, OnePart
  <2>2. OnePart /\ [PathNext]_pathVars => OnePart'
    BY DEF PathNext, pathVars, OnePart
  <2> QED  BY <2>1, <2>2, PTL DEF PathSpec, pathVars
<1>3. Init /\ [][Next]_vars => []TypeOK
  <2>1. IInv => TypeOK
    BY DEF IInv, Typed
  <2> QED  BY <2>1, InitHolds, StepHolds, PTL
<1> QED
  BY <1>1, <1>2, <1>3, PathImplements, DispatcherTypes, LifecycleTypes, IntakeTypes, HubTypes,
     PlanTypes, PTL
==================================================================================
