--------------------------- MODULE AlarmIngestProofs ---------------------------
(***************************************************************************)
(* Theorems about AlarmIngest, for any workers, events, rules, retries,    *)
(* deliveries, replays and faults: types, that an alarm is stored before   *)
(* it is announced, and announced again only after an attempt that failed, *)
(* that bad messages end in the ledger, and that what                      *)
(* is acknowledged is stored, in the ledger or explained.                  *)
(***************************************************************************)
EXTENDS AlarmIngest, TLAPS

\* What a worker in a call has in hand.
InHand(w) ==
  /\ ~ At(w, "idle") => ev[w] \in Events
  /\ pc[w] \in {"create"} \cup Notifying => current[w] \in RuleIds
  /\ entry[w] # 0 => ev[w] \in Events /\ dlq[entry[w]].event = ev[w]
  /\ At(w, "mark") => entry[w] # 0

\* Which messages get that far: parsed ones into the rules, ones of a tenant beyond.
Sorted(w) ==
  /\ pc[w] \in {"evaluate", "admit"} => Kind[ev[w]] # "malformed"
  /\ pc[w] \in {"next", "create", "release"} \cup Notifying => Kind[ev[w]] = "ok"

\* An alarm about to be announced is stored, was never announced save by an attempt
\* that failed, and is in nobody else's hands.
Announcing(w) ==
  pc[w] \in Notifying =>
    LET a == << ev[w], current[w] >> IN
    /\ a \in alarms
    /\ published[a] = 0 \/ a \in doubtful
    /\ \A v \in Workers :
         pc[v] \in Notifying /\ ev[v] = ev[w] /\ current[v] = current[w] => v = w

\* A worker is about to store the alarm of e by rule r.
Creating(e, r) == \E w \in Workers : At(w, "create") /\ ev[w] = e /\ current[w] = r

\* The alarm of e by rule r is there, coming, or its absence has a reason.
Safe(e, r) ==
  \/ << e, r >> \in alarms
  \/ Ledgered(e)
  \/ excuse[e] # {}
  \/ Creating(e, r)

\* The stateless rules that e meets: those AckedAccounted speaks of.
Due(e) == Matches[e] \ WindowRules

\* A worker that has judged its event still has the draft of every rule that is not safe.
Judging == {"admit", "next", "create"} \cup Notifying
Drafted(w, e, r) == pc[w] \in Judging /\ ev[w] = e => r \in drafts[w] \/ Safe(e, r)

\* Some worker holds the L1 key of e, or will give it back.
Claiming == {"next", "create", "release"} \cup Notifying
Claimed(e) == \E w \in Workers : ev[w] = e /\ pc[w] \in Claiming

\* An L1 key stands for alarms that are safe, or for a worker that sees to them.
KeyEarned(e, r) == e \in dedup => Claimed(e) \/ Safe(e, r)

\* So does an L2 key, for the event that took it.
CoolingEarned(e, r) == cooling[<< Device[e], r >>] = e => Safe(e, r)

\* An acknowledged event is safe, or another delivery of it is being handled.
AckEarned(e, r) == e \in acked => InFlight(e) \/ Safe(e, r)

Typed     == TypeOK /\ \A w \in Workers : InHand(w)
Announced == AnnouncedOnce /\ \A w \in Workers : Announcing(w)
Handled   ==
  \A e \in Events : \A r \in RuleIds :
    /\ CoolingEarned(e, r)
    /\ r \in Due(e) =>
         /\ KeyEarned(e, r) /\ AckEarned(e, r)
         /\ \A w \in Workers : Drafted(w, e, r)
Judged    == BadMessagesLedgered /\ \A w \in Workers : Sorted(w)

IInv == Typed /\ Announced /\ Handled /\ Judged

------------------------------------------------------------------------------
(* Facts about the ledger. *)
Letters == [event : Events, replayed : BOOLEAN]

LEMMA AppendKeeps ==
  ASSUME NEW q \in Seq(Letters), NEW e \in Events
  PROVE  LET m == Append(q, [event |-> e, replayed |-> FALSE]) IN
         /\ m \in Seq(Letters)
         /\ Len(m) = Len(q) + 1
         /\ \A i \in 1 .. Len(q) : m[i] = q[i]
         /\ m[Len(m)].event = e
<1>1. [event |-> e, replayed |-> FALSE] \in Letters
  BY DEF Letters
<1>2. QED
  BY <1>1

LEMMA MarkKeeps ==
  ASSUME NEW q \in Seq(Letters), NEW k \in DOMAIN q
  PROVE  LET m == [q EXCEPT ![k].replayed = TRUE] IN
         /\ m \in Seq(Letters)
         /\ Len(m) = Len(q)
         /\ \A i \in 1 .. Len(q) : m[i].event = q[i].event
<1> DEFINE m == [q EXCEPT ![k].replayed = TRUE]
<1>1. DOMAIN m = 1 .. Len(q) /\ k \in 1 .. Len(q)
  OBVIOUS
<1>2. \A i \in 1 .. Len(q) : q[i] \in Letters
  OBVIOUS
<1>3. \A i \in 1 .. Len(q) : m[i] \in Letters /\ m[i].event = q[i].event
  BY <1>1, <1>2 DEF Letters
<1>4. m \in [1 .. Len(q) -> Letters]
  BY <1>1, <1>3
<1>5. m \in Seq(Letters) /\ Len(m) = Len(q)
  BY <1>4, Len(q) \in Nat
<1>6. QED
  BY <1>3, <1>5

\* The attempts to announce, one after the other.
LEMMA AttemptsFollow == Notifying = {"notify", "notifyAgain", "notifyLast"}
BY DEF Notifying, AfterAttempt

LEMMA NextAttempt ==
  ASSUME NEW stage \in Notifying
  PROVE  AfterAttempt[stage] \in {"notifyAgain", "notifyLast", "next"}
BY DEF Notifying, AfterAttempt

LEMMA InitTyped == Init => Typed
BY AlarmIngestAssumption, AttemptsFollow DEF Init, Typed, TypeOK, InHand, Stages, At

LEMMA BoundsAre ==
  /\ MaxRetries \in Nat /\ MaxDeliveries \in Nat /\ MaxReplays \in Nat /\ MaxFaults \in Nat
  /\ WindowRules \subseteq RuleIds /\ NoRule \notin RuleIds /\ Rules \subseteq RuleIds
  /\ \A e \in Events : Matches[e] \subseteq Rules
BY AlarmIngestAssumption DEF RuleIds

\* Where the calls in Fail and Succeed take a worker.
LEMMA Failing ==
  ASSUME TypeOK, NEW w \in Workers, Fail(w)
  PROVE  /\ attempt' \in [Workers -> 0 .. MaxRetries]
         /\ pc' \in [Workers -> Stages]
         /\ \A v \in Workers \ {w} : pc'[v] = pc[v]
         /\ pc'[w] \in {"idle", "evaluate", "ledger"}
         /\ pc'[w] = "idle" <=> entry[w] # 0
<1>1. /\ attempt \in [Workers -> 0 .. MaxRetries] /\ MaxRetries \in Nat
      /\ pc \in [Workers -> Stages]
  BY BoundsAre DEF TypeOK
<1>2. CASE entry[w] # 0
  BY <1>1, <1>2 DEF Fail, Goto, Stages
<1>3. CASE entry[w] = 0
  BY <1>1, <1>3 DEF Fail, Goto, Stages
<1>4. QED
  BY <1>2, <1>3

LEMMA Succeeding ==
  ASSUME TypeOK, NEW w \in Workers, Succeed(w)
  PROVE  /\ pc' \in [Workers -> Stages]
         /\ \A v \in Workers \ {w} : pc'[v] = pc[v]
         /\ \/ pc'[w] = "idle" /\ entry[w] = 0 /\ acked' = acked \cup {ev[w]}
            \/ pc'[w] = "mark" /\ entry[w] # 0 /\ acked' = acked
BY DEF Succeed, Goto, TypeOK, Stages

LEMMA EntryAt ==
  ASSUME NEW q \in Seq(Letters), NEW k \in DOMAIN q
  PROVE  q[k].event \in Events /\ k \in 1 .. Len(q) /\ Len(q) \in Nat
<1>1. k \in 1 .. Len(q) /\ Len(q) \in Nat
  OBVIOUS
<1>2. q[k] \in Letters
  BY <1>1
<1>3. QED
  BY <1>1, <1>2 DEF Letters

LEMMA TypeHolds == ASSUME Typed, [Next]_vars PROVE TypeOK'
<1>a. TypeOK /\ (\A w \in Workers : InHand(w)) /\ Len(dlq) \in Nat /\ dlq \in Seq(Letters)
  BY DEF Typed, TypeOK, Letters
<1> USE BoundsAre DEF TypeOK, InHand, Stages, Causes, At, Goto, Fault,
      Blame, CoolKey, RuleIds, Evaluated, Admissible, redis, mysql, local, ghosts, bounds
<1>1. ASSUME NEW w \in Workers, NEW f \in Events, Deliver(w, f) PROVE TypeOK'
  <2>1. pc' \in [Workers -> Stages]
    BY <1>1, <1>a DEF Deliver
  <2>2. entry' \in [Workers -> 0 .. Len(dlq)] /\ attempt' \in [Workers -> 0 .. MaxRetries]
    BY <1>1, <1>a DEF Deliver
  <2>3. deliveries' \in [Events -> 0 .. MaxDeliveries]
    BY <1>1, <1>a DEF Deliver
  <2>4. QED
    BY <1>1, <1>a, <2>1, <2>2, <2>3 DEF Deliver
<1>2. ASSUME NEW w \in Workers, NEW k \in DOMAIN dlq, Replay(w, k) PROVE TypeOK'
  <2>1. dlq[k].event \in Events /\ k \in 0 .. Len(dlq)
    BY <1>a, EntryAt
  <2>2. ev' \in [Workers -> Events \cup {NoEvent}] /\ entry' \in [Workers -> 0 .. Len(dlq)]
    BY <1>2, <1>a, <2>1 DEF Replay
  <2>3. dedup' \subseteq Events /\ faults' \in 0 .. MaxFaults /\ replays' \in 0 .. MaxReplays
    BY <1>2, <1>a DEF Replay
  <2>4. QED
    BY <1>2, <1>a, <2>2, <2>3 DEF Replay
<1>3. ASSUME NEW w \in Workers, EvaluateRules(w) PROVE TypeOK'
  BY <1>3, <1>a DEF EvaluateRules
<1>4. ASSUME NEW w \in Workers, RulesUnavailable(w) PROVE TypeOK'
  BY <1>4, <1>a DEF RulesUnavailable
<1>5. ASSUME NEW w \in Workers, EvaluateFails(w) PROVE TypeOK'
  <2>1. Fail(w)
    BY <1>5 DEF EvaluateFails
  <2>2. QED
    <3>1. pc' \in [Workers -> Stages] /\ attempt' \in [Workers -> 0 .. MaxRetries]
      BY <1>a, <2>1, Failing
    <3>2. QED
      BY <1>5, <1>a, <3>1 DEF EvaluateFails
<1>6. ASSUME NEW w \in Workers, CountFails(w) PROVE TypeOK'
  <2>1. Fail(w)
    BY <1>6 DEF CountFails
  <2>2. pc' \in [Workers -> Stages] /\ attempt' \in [Workers -> 0 .. MaxRetries]
    BY <1>a, <2>1, Failing
  <2>3. window' \in [WindowRules \X Devices -> SUBSET Events]
    <3>1. CASE UNCHANGED window
      BY <3>1, <1>a
    <3>2. CASE \E r \in windows[w] : \E kept \in SUBSET window[<< r, Device[ev[w]] >>] :
                 window' = [window EXCEPT ![<< r, Device[ev[w]] >>] = AfterCount(w, kept)]
      <4>1. PICK r \in windows[w] : \E kept \in SUBSET window[<< r, Device[ev[w]] >>] :
                 window' = [window EXCEPT ![<< r, Device[ev[w]] >>] = AfterCount(w, kept)]
        BY <3>2
      <4>2. PICK kept \in SUBSET window[<< r, Device[ev[w]] >>] :
                 window' = [window EXCEPT ![<< r, Device[ev[w]] >>] = AfterCount(w, kept)]
        BY <4>1
      <4>3. ev[w] \in Events /\ r \in WindowRules /\ Device[ev[w]] \in Devices
        BY <1>6, <1>a, <4>1 DEF CountFails, Devices
      <4>4. << r, Device[ev[w]] >> \in WindowRules \X Devices
        BY <4>3
      <4>5. kept \subseteq Events
        BY <1>a, <4>2, <4>4
      <4>6. AfterCount(w, kept) \subseteq Events
        BY <4>3, <4>5 DEF AfterCount
      <4>7. QED
        BY <1>a, <4>2, <4>6
    <3>3. QED
      BY <1>6, <3>1, <3>2 DEF CountFails
  <2>4. QED
    BY <2>2, <2>3, <1>6, <1>a DEF CountFails
<1>7. ASSUME NEW w \in Workers, Unmatched(w) PROVE TypeOK'
  <2>1. Succeed(w)
    BY <1>7 DEF Unmatched
  <2>2. pc' \in [Workers -> Stages] /\ acked' \subseteq Events
    <3>1. ev[w] \in Events
      BY <1>7, <1>a DEF Unmatched
    <3>2. pc' \in [Workers -> Stages] /\ (acked' = acked \/ acked' = acked \cup {ev[w]})
      BY <1>a, <2>1, Succeeding
    <3>3. QED
      BY <1>a, <3>1, <3>2
  <2>3. QED
    BY <1>7, <1>a, <2>2 DEF Unmatched
<1>8. ASSUME NEW w \in Workers, RejectTenant(w) PROVE TypeOK'
  BY <1>8, <1>a DEF RejectTenant
<1>9. ASSUME NEW w \in Workers, SeenBefore(w) PROVE TypeOK'
  <2>1. Succeed(w)
    BY <1>9 DEF SeenBefore
  <2>2. pc' \in [Workers -> Stages] /\ acked' \subseteq Events
    <3>1. ev[w] \in Events
      BY <1>9, <1>a DEF SeenBefore
    <3>2. pc' \in [Workers -> Stages] /\ (acked' = acked \/ acked' = acked \cup {ev[w]})
      BY <1>a, <2>1, Succeeding
    <3>3. QED
      BY <1>a, <3>1, <3>2
  <2>3. QED
    BY <1>9, <1>a, <2>2 DEF SeenBefore
<1>10. ASSUME NEW w \in Workers, Claim(w) PROVE TypeOK'
  BY <1>10, <1>a DEF Claim
<1>11. ASSUME NEW w \in Workers, DedupFails(w) PROVE TypeOK'
  <2>1. Fail(w)
    BY <1>11 DEF DedupFails
  <2>2. QED
    BY <2>1, Failing, <1>11, <1>a DEF DedupFails
<1>12. ASSUME NEW w \in Workers, CooldownFails(w) PROVE TypeOK'
  BY <1>12, <1>a DEF CooldownFails
<1>13. ASSUME NEW w \in Workers, AllStored(w) PROVE TypeOK'
  <2>1. Succeed(w)
    BY <1>13 DEF AllStored
  <2>2. pc' \in [Workers -> Stages] /\ acked' \subseteq Events
    <3>1. ev[w] \in Events
      BY <1>13, <1>a DEF AllStored
    <3>2. pc' \in [Workers -> Stages] /\ (acked' = acked \/ acked' = acked \cup {ev[w]})
      BY <1>a, <2>1, Succeeding
    <3>3. QED
      BY <1>a, <3>1, <3>2
  <2>3. QED
    BY <1>13, <1>a, <2>2 DEF AllStored
<1>14. ASSUME NEW w \in Workers, Create(w) PROVE TypeOK'
  BY <1>14, <1>a, AttemptsFollow DEF Create
<1>15. ASSUME NEW w \in Workers, CreateDuplicate(w) PROVE TypeOK'
  BY <1>15, <1>a DEF CreateDuplicate
<1>16. ASSUME NEW w \in Workers, CreateFails(w) PROVE TypeOK'
  BY <1>16, <1>a DEF CreateFails
<1>17. ASSUME NEW w \in Workers, Notify(w) PROVE TypeOK'
  <2>1. pc[w] \in Notifying /\ ev[w] \in Events /\ current[w] \in RuleIds
    BY <1>17, <1>a, AttemptsFollow DEF Notify
  <2>2. published' \in [Events \X RuleIds -> Nat]
    BY <1>17, <1>a, <2>1 DEF Notify
  <2>3. QED
    BY <1>17, <1>a, <2>2 DEF Notify
<1>18. ASSUME NEW w \in Workers, NotifyFails(w) PROVE TypeOK'
  <2>1. << ev[w], current[w] >> \in Events \X RuleIds
    <3>1. pc[w] \in Notifying
      BY <1>18 DEF NotifyFails
    <3>2. ev[w] \in Events /\ current[w] \in RuleIds
      BY <1>a, <3>1, AttemptsFollow
    <3>3. QED
      BY <3>2
  <2>2. published' \in [Events \X RuleIds -> Nat] /\ doubtful' \subseteq Events \X RuleIds
    <3>1. CASE UNCHANGED << published, doubtful >>
      BY <3>1, <1>a
    <3>2. CASE /\ published' = [published EXCEPT ![<< ev[w], current[w] >>] = @ + 1]
               /\ doubtful' = doubtful \cup {<< ev[w], current[w] >>}
      BY <3>2, <2>1, <1>a
    <3>3. QED
      BY <1>18, <3>1, <3>2 DEF NotifyFails
  <2>3. pc' \in [Workers -> Stages]
    BY <1>18, <1>a, AttemptsFollow, NextAttempt DEF NotifyFails
  <2>4. QED
    BY <1>18, <1>a, <2>2, <2>3 DEF NotifyFails
<1>19. ASSUME NEW w \in Workers, Release(w) PROVE TypeOK'
  <2>1. Fail(w)
    BY <1>19 DEF Release
  <2>2. QED
    BY <2>1, Failing, <1>19, <1>a DEF Release
<1>20. ASSUME NEW w \in Workers, ReleaseFails(w) PROVE TypeOK'
  <2>1. Fail(w)
    BY <1>20 DEF ReleaseFails
  <2>2. pc' \in [Workers -> Stages] /\ attempt' \in [Workers -> 0 .. MaxRetries]
    BY <1>a, <2>1, Failing
  <2>3. excuse' \in [Events -> SUBSET Causes] /\ faults' \in 0 .. MaxFaults
    BY <1>20, <1>a DEF ReleaseFails
  <2>4. QED
    BY <1>20, <1>a, <2>2, <2>3 DEF ReleaseFails
<1>21. ASSUME NEW w \in Workers, RecordDeadLetter(w) PROVE TypeOK'
  <2>1. Succeed(w)
    BY <1>21 DEF RecordDeadLetter
  <2>2. QED
    <3>1. ev[w] \in Events
      BY <1>21, <1>a DEF RecordDeadLetter
    <3>2. dlq' \in Seq(Letters) /\ Len(dlq') = Len(dlq) + 1
      <4>1. dlq' = Append(dlq, [event |-> ev[w], replayed |-> FALSE])
        BY <1>21 DEF RecordDeadLetter
      <4>2. QED
        BY ONLY <1>a, <3>1, <4>1, AppendKeeps
    <3>3. pc' \in [Workers -> Stages] /\ (acked' = acked \/ acked' = acked \cup {ev[w]})
      BY <1>a, <2>1, Succeeding
    <3>4. acked' \subseteq Events /\ entry' \in [Workers -> 0 .. Len(dlq')]
      BY <1>21, <1>a, <3>1, <3>2, <3>3 DEF RecordDeadLetter
    <3>5. QED
      BY <1>21, <1>a, <3>2, <3>3, <3>4 DEF RecordDeadLetter, Letters
<1>22. ASSUME NEW w \in Workers, RecordFails(w) PROVE TypeOK'
  <2>1. ev[w] \in Events
    BY <1>22, <1>a DEF RecordFails
  <2>2. dlq' \in Seq(Letters) /\ (dlq' = dlq \/ Len(dlq') = Len(dlq) + 1)
    <3>1. dlq' = dlq \/ dlq' = Append(dlq, [event |-> ev[w], replayed |-> FALSE])
      BY <1>22 DEF RecordFails
    <3>2. CASE dlq' = Append(dlq, [event |-> ev[w], replayed |-> FALSE])
      BY ONLY <1>a, <2>1, <3>2, AppendKeeps
    <3>3. CASE dlq' = dlq
      BY ONLY <1>a, <3>3
    <3>4. QED
      BY ONLY <3>1, <3>2, <3>3
  <2>3. entry' \in [Workers -> 0 .. Len(dlq')]
    BY <1>22, <1>a, <2>2 DEF RecordFails
  <2>4. excuse' \in [Events -> SUBSET Causes] /\ pc' \in [Workers -> Stages]
        /\ faults' \in 0 .. MaxFaults
    BY <1>22, <1>a DEF RecordFails
  <2>5. QED
    BY <1>22, <1>a, <2>2, <2>3, <2>4 DEF RecordFails, Letters
<1>23. ASSUME NEW w \in Workers, MarkReplayed(w) PROVE TypeOK'
  <2>1. entry[w] \in DOMAIN dlq
    BY <1>23, <1>a DEF MarkReplayed
  <2>2. dlq' \in Seq(Letters) /\ Len(dlq') = Len(dlq)
    BY <1>23, <1>a, <2>1, MarkKeeps DEF MarkReplayed
  <2>3. QED
    BY <1>23, <1>a, <2>2 DEF MarkReplayed, Letters
<1>24. ASSUME NEW w \in Workers, MarkFails(w) PROVE TypeOK'
  BY <1>24, <1>a DEF MarkFails
<1>25. ASSUME NEW w \in Workers, Crash(w) PROVE TypeOK'
  BY <1>25, <1>a DEF Crash
<1>26. ASSUME NEW w \in Workers, NEW q \in WindowRules, CountWindow(w, q) PROVE TypeOK'
  <2>1. ev[w] \in Events /\ Device[ev[w]] \in Devices
    BY <1>26, <1>a DEF CountWindow, Devices
  <2>2. windows' \in [Workers -> SUBSET WindowRules] /\ drafts' \in [Workers -> SUBSET RuleIds]
    <3>1. windows' = [windows EXCEPT ![w] = @ \ {q}]
      BY <1>26 DEF CountWindow
    <3>2. drafts' = drafts \/ drafts' = [drafts EXCEPT ![w] = @ \cup {q}]
      BY <1>26 DEF CountWindow
    <3>3. q \in RuleIds
      OBVIOUS
    <3>4. windows \in [Workers -> SUBSET WindowRules] /\ drafts \in [Workers -> SUBSET RuleIds]
      BY <1>a
    <3>5. windows' \in [Workers -> SUBSET WindowRules]
      BY <3>1, <3>4
    <3>6. drafts' \in [Workers -> SUBSET RuleIds]
      BY <3>2, <3>3, <3>4
    <3>7. QED
      BY <3>5, <3>6
  <2>3. window' \in [WindowRules \X Devices -> SUBSET Events]
    <3>1. PICK kept \in SUBSET window[<< q, Device[ev[w]] >>] :
            window' = [window EXCEPT ![<< q, Device[ev[w]] >>] = AfterCount(w, kept)]
      BY <1>26 DEF CountWindow
    <3>2. << q, Device[ev[w]] >> \in WindowRules \X Devices
      BY <2>1
    <3>3. AfterCount(w, kept) \subseteq Events
      BY <1>a, <2>1, <3>1, <3>2 DEF AfterCount
    <3>4. QED
      BY <1>a, <3>1, <3>3
  <2>4. QED
    BY <1>26, <1>a, <2>2, <2>3 DEF CountWindow
<1>27. ASSUME NEW w \in Workers, NEW q \in RuleIds, Acquire(w, q) PROVE TypeOK'
  BY <1>27, <1>a DEF Acquire
<1>28. ASSUME NEW w \in Workers, NEW q \in RuleIds, Suppress(w, q) PROVE TypeOK'
  <2>1. drafts' \in [Workers -> SUBSET RuleIds]
    BY <1>28, <1>a DEF Suppress
  <2>2. excuse' = excuse \/ excuse' = [excuse EXCEPT ![ev[w]] = @ \cup {"suppressed"}]
    BY <1>28 DEF Suppress
  <2>a. excuse \in [Events -> SUBSET Causes] /\ "suppressed" \in Causes
    BY <1>a
  <2>3. excuse' \in [Events -> SUBSET Causes]
    BY <2>a, <2>2
  <2>4. QED
    BY <1>28, <1>a, <2>1, <2>3 DEF Suppress
<1>29. ASSUME NEW f \in Events, DedupExpires(f) PROVE TypeOK'
  BY <1>29, <1>a DEF DedupExpires
<1>30. ASSUME NEW k \in Devices \X RuleIds, CooldownExpires(k) PROVE TypeOK'
  BY <1>30, <1>a DEF CooldownExpires
<1>31. CASE UNCHANGED vars
  BY <1>31, <1>a DEF vars
<1>32. ASSUME NEW w \in Workers, DedupUnanswered(w) PROVE TypeOK'
  <2>1. ev[w] \in Events
    BY <1>32, <1>a DEF DedupUnanswered
  <2>2. /\ dedup' \subseteq Events /\ excuse' \in [Events -> SUBSET Causes]
        /\ faults' \in 0 .. MaxFaults
    BY <1>32, <2>1, <1>a DEF DedupUnanswered
  <2>3. CASE Succeed(w) /\ UNCHANGED attempt
    <3>1. pc' \in [Workers -> Stages] /\ (acked' = acked \/ acked' = acked \cup {ev[w]})
      BY <1>a, <2>3, Succeeding
    <3>2. acked' \subseteq Events
      BY <1>a, <2>1, <3>1
    <3>3. QED
      BY <1>32, <1>a, <2>2, <2>3, <3>1, <3>2 DEF DedupUnanswered
  <2>4. CASE Fail(w) /\ UNCHANGED acked
    <3>1. pc' \in [Workers -> Stages] /\ attempt' \in [Workers -> 0 .. MaxRetries]
      BY <1>a, <2>4, Failing
    <3>2. QED
      BY <1>32, <1>a, <2>2, <2>4, <3>1 DEF DedupUnanswered
  <2>5. QED
    BY <1>32, <2>3, <2>4 DEF DedupUnanswered
<1>33. ASSUME NEW w \in Workers, NEW q \in RuleIds, CooldownUnanswered(w, q) PROVE TypeOK'
  <2>1. ev[w] \in Events /\ Device[ev[w]] \in Devices
    BY <1>33, <1>a DEF CooldownUnanswered, Devices
  <2>2. cooling' \in [Devices \X RuleIds -> Events \cup {NoEvent}]
    BY <1>33, <1>a, <2>1 DEF CooldownUnanswered
  <2>3. excuse' \in [Events -> SUBSET Causes] /\ faults' \in 0 .. MaxFaults
    BY <1>33, <1>a, <2>1 DEF CooldownUnanswered
  <2>4. pc' \in [Workers -> Stages] /\ drafts' \in [Workers -> SUBSET RuleIds]
    <3>1. CASE drafts' = [drafts EXCEPT ![w] = @ \ {q}] /\ UNCHANGED pc
      BY <1>a, <3>1
    <3>2. CASE Goto(w, "release") /\ UNCHANGED drafts
      BY <1>a, <3>2
    <3>3. QED
      BY <1>33, <3>1, <3>2 DEF CooldownUnanswered
  <2>5. QED
    BY <1>33, <1>a, <2>2, <2>3, <2>4 DEF CooldownUnanswered
<1>34. ASSUME NEW w \in Workers, CreateUnanswered(w) PROVE TypeOK'
  BY <1>34, <1>a DEF CreateUnanswered
<1>35. QED
  BY <1>1, <1>2, <1>3, <1>4, <1>5, <1>6, <1>7, <1>8, <1>9, <1>10, <1>11, <1>12, <1>13, <1>14, <1>15, <1>16, <1>17, <1>18, <1>19, <1>20, <1>21, <1>22, <1>23, <1>24, <1>25, <1>26, <1>27, <1>28, <1>29, <1>30, <1>31,
     <1>32, <1>33, <1>34
  DEF Next, Step, HandleDeviceEvent

LEMMA InHandHolds == ASSUME Typed, [Next]_vars, NEW v \in Workers PROVE InHand(v)'
<1>a. TypeOK /\ (\A w \in Workers : InHand(w)) /\ Len(dlq) \in Nat /\ dlq \in Seq(Letters)
  BY DEF Typed, TypeOK, Letters
<1> USE BoundsAre, AttemptsFollow DEF TypeOK, InHand, Stages, At, Goto, Fault,
      Blame, CoolKey, RuleIds, Evaluated, Admissible, redis, mysql, local, ghosts, bounds
<1>1. ASSUME NEW w \in Workers, NEW f \in Events, Deliver(w, f) PROVE InHand(v)'
  BY <1>1, <1>a DEF Deliver
<1>2. ASSUME NEW w \in Workers, NEW k \in DOMAIN dlq, Replay(w, k) PROVE InHand(v)'
  <2>1. dlq[k].event \in Events /\ k \in Nat \ {0}
    BY <1>a, EntryAt
  <2>2. QED
    BY <1>2, <1>a, <2>1 DEF Replay
<1>3. ASSUME NEW w \in Workers, EvaluateRules(w) PROVE InHand(v)'
  BY <1>3, <1>a DEF EvaluateRules
<1>4. ASSUME NEW w \in Workers, RulesUnavailable(w) PROVE InHand(v)'
  BY <1>4, <1>a DEF RulesUnavailable
<1>5. ASSUME NEW w \in Workers, EvaluateFails(w) PROVE InHand(v)'
  <2>1. Fail(w)
    BY <1>5 DEF EvaluateFails
  <2>2. QED
    BY <2>1, Failing, <1>5, <1>a DEF EvaluateFails
<1>6. ASSUME NEW w \in Workers, CountFails(w) PROVE InHand(v)'
  <2>1. Fail(w)
    BY <1>6 DEF CountFails
  <2>2. QED
    BY <2>1, Failing, <1>6, <1>a DEF CountFails
<1>7. ASSUME NEW w \in Workers, Unmatched(w) PROVE InHand(v)'
  <2>1. Succeed(w)
    BY <1>7 DEF Unmatched
  <2>2. QED
    BY <2>1, Succeeding, <1>7, <1>a DEF Unmatched
<1>8. ASSUME NEW w \in Workers, RejectTenant(w) PROVE InHand(v)'
  BY <1>8, <1>a DEF RejectTenant
<1>9. ASSUME NEW w \in Workers, SeenBefore(w) PROVE InHand(v)'
  <2>1. Succeed(w)
    BY <1>9 DEF SeenBefore
  <2>2. QED
    BY <2>1, Succeeding, <1>9, <1>a DEF SeenBefore
<1>10. ASSUME NEW w \in Workers, Claim(w) PROVE InHand(v)'
  BY <1>10, <1>a DEF Claim
<1>11. ASSUME NEW w \in Workers, DedupFails(w) PROVE InHand(v)'
  <2>1. Fail(w)
    BY <1>11 DEF DedupFails
  <2>2. QED
    BY <2>1, Failing, <1>11, <1>a DEF DedupFails
<1>12. ASSUME NEW w \in Workers, CooldownFails(w) PROVE InHand(v)'
  BY <1>12, <1>a DEF CooldownFails
<1>13. ASSUME NEW w \in Workers, AllStored(w) PROVE InHand(v)'
  <2>1. Succeed(w)
    BY <1>13 DEF AllStored
  <2>2. QED
    BY <2>1, Succeeding, <1>13, <1>a DEF AllStored
<1>14. ASSUME NEW w \in Workers, Create(w) PROVE InHand(v)'
  BY <1>14, <1>a DEF Create
<1>15. ASSUME NEW w \in Workers, CreateDuplicate(w) PROVE InHand(v)'
  BY <1>15, <1>a DEF CreateDuplicate
<1>16. ASSUME NEW w \in Workers, CreateFails(w) PROVE InHand(v)'
  BY <1>16, <1>a DEF CreateFails
<1>17. ASSUME NEW w \in Workers, Notify(w) PROVE InHand(v)'
  BY <1>17, <1>a DEF Notify
<1>18. ASSUME NEW w \in Workers, NotifyFails(w) PROVE InHand(v)'
  BY <1>18, <1>a, NextAttempt DEF NotifyFails
<1>19. ASSUME NEW w \in Workers, Release(w) PROVE InHand(v)'
  <2>1. Fail(w)
    BY <1>19 DEF Release
  <2>2. QED
    BY <2>1, Failing, <1>19, <1>a DEF Release
<1>20. ASSUME NEW w \in Workers, ReleaseFails(w) PROVE InHand(v)'
  <2>1. Fail(w)
    BY <1>20 DEF ReleaseFails
  <2>2. QED
    BY <2>1, Failing, <1>20, <1>a DEF ReleaseFails
<1>21. ASSUME NEW w \in Workers, RecordDeadLetter(w) PROVE InHand(v)'
  <2>1. Succeed(w)
    BY <1>21 DEF RecordDeadLetter
  <2>2. QED
    BY <2>1, Succeeding, <1>21, <1>a DEF RecordDeadLetter
<1>22. ASSUME NEW w \in Workers, RecordFails(w) PROVE InHand(v)'
  <2>1. ev[w] \in Events
    BY <1>22, <1>a DEF RecordFails
  <2>2. \A i \in 1 .. Len(dlq) : dlq'[i] = dlq[i]
    <3>1. dlq' = dlq \/ dlq' = Append(dlq, [event |-> ev[w], replayed |-> FALSE])
      BY <1>22 DEF RecordFails
    <3>2. QED
      BY ONLY <1>a, <2>1, <3>1, AppendKeeps
  <2>3. QED
    BY <1>22, <1>a, <2>2 DEF RecordFails
<1>23. ASSUME NEW w \in Workers, MarkReplayed(w) PROVE InHand(v)'
  BY <1>23, <1>a DEF MarkReplayed
<1>24. ASSUME NEW w \in Workers, MarkFails(w) PROVE InHand(v)'
  BY <1>24, <1>a DEF MarkFails
<1>25. ASSUME NEW w \in Workers, Crash(w) PROVE InHand(v)'
  BY <1>25, <1>a DEF Crash
<1>26. ASSUME NEW w \in Workers, NEW q \in WindowRules, CountWindow(w, q) PROVE InHand(v)'
  BY <1>26, <1>a DEF CountWindow
<1>27. ASSUME NEW w \in Workers, NEW q \in RuleIds, Acquire(w, q) PROVE InHand(v)'
  BY <1>27, <1>a DEF Acquire
<1>28. ASSUME NEW w \in Workers, NEW q \in RuleIds, Suppress(w, q) PROVE InHand(v)'
  BY <1>28, <1>a DEF Suppress
<1>29. ASSUME NEW f \in Events, DedupExpires(f) PROVE InHand(v)'
  BY <1>29, <1>a DEF DedupExpires
<1>30. ASSUME NEW k \in Devices \X RuleIds, CooldownExpires(k) PROVE InHand(v)'
  BY <1>30, <1>a DEF CooldownExpires
<1>31. CASE UNCHANGED vars
  BY <1>31, <1>a DEF vars
<1>32. ASSUME NEW w \in Workers, DedupUnanswered(w) PROVE InHand(v)'
  <2>1. CASE Succeed(w)
    BY <2>1, Succeeding, <1>32, <1>a DEF DedupUnanswered
  <2>2. CASE Fail(w) /\ UNCHANGED acked
    BY <2>2, Failing, <1>32, <1>a DEF DedupUnanswered
  <2>3. QED
    BY <1>32, <2>1, <2>2 DEF DedupUnanswered
<1>33. ASSUME NEW w \in Workers, NEW q \in RuleIds, CooldownUnanswered(w, q) PROVE InHand(v)'
  BY <1>33, <1>a DEF CooldownUnanswered
<1>34. ASSUME NEW w \in Workers, CreateUnanswered(w) PROVE InHand(v)'
  BY <1>34, <1>a DEF CreateUnanswered
<1>35. QED
  BY <1>1, <1>2, <1>3, <1>4, <1>5, <1>6, <1>7, <1>8, <1>9, <1>10, <1>11, <1>12, <1>13, <1>14, <1>15, <1>16, <1>17, <1>18, <1>19, <1>20, <1>21, <1>22, <1>23, <1>24, <1>25, <1>26, <1>27, <1>28, <1>29, <1>30, <1>31,
     <1>32, <1>33, <1>34
  DEF Next, Step, HandleDeviceEvent

LEMMA TypedHolds == ASSUME Typed, [Next]_vars PROVE Typed'
BY TypeHolds, InHandHolds DEF Typed

------------------------------------------------------------------------------
(* Announcements. *)
LEMMA AnnouncedOnceHolds == ASSUME Typed, Announced, [Next]_vars PROVE AnnouncedOnce'
<1>a. /\ AnnouncedOnce /\ \A w \in Workers : Announcing(w) /\ InHand(w)
      /\ published \in [Events \X RuleIds -> Nat]
  BY DEF Announced, Typed, TypeOK
<1> USE AttemptsFollow DEF AnnouncedOnce, Announcing, InHand, At, Goto, Fault, redis, mysql, local, ghosts, bounds
<1>1. ASSUME NEW w \in Workers, NEW f \in Events, Deliver(w, f) PROVE AnnouncedOnce'
  BY <1>1, <1>a DEF Deliver
<1>2. ASSUME NEW w \in Workers, NEW k \in DOMAIN dlq, Replay(w, k) PROVE AnnouncedOnce'
  BY <1>2, <1>a DEF Replay
<1>3. ASSUME NEW w \in Workers, EvaluateRules(w) PROVE AnnouncedOnce'
  BY <1>3, <1>a DEF EvaluateRules
<1>4. ASSUME NEW w \in Workers, RulesUnavailable(w) PROVE AnnouncedOnce'
  BY <1>4, <1>a DEF RulesUnavailable
<1>5. ASSUME NEW w \in Workers, EvaluateFails(w) PROVE AnnouncedOnce'
  <2>1. Fail(w)
    BY <1>5 DEF EvaluateFails
  <2>2. QED
    BY <2>1, Failing, <1>5, <1>a DEF EvaluateFails
<1>6. ASSUME NEW w \in Workers, CountFails(w) PROVE AnnouncedOnce'
  <2>1. Fail(w)
    BY <1>6 DEF CountFails
  <2>2. QED
    BY <2>1, Failing, <1>6, <1>a DEF CountFails
<1>7. ASSUME NEW w \in Workers, Unmatched(w) PROVE AnnouncedOnce'
  <2>1. Succeed(w)
    BY <1>7 DEF Unmatched
  <2>2. QED
    BY <2>1, Succeeding, <1>7, <1>a DEF Unmatched
<1>8. ASSUME NEW w \in Workers, RejectTenant(w) PROVE AnnouncedOnce'
  BY <1>8, <1>a DEF RejectTenant
<1>9. ASSUME NEW w \in Workers, SeenBefore(w) PROVE AnnouncedOnce'
  <2>1. Succeed(w)
    BY <1>9 DEF SeenBefore
  <2>2. QED
    BY <2>1, Succeeding, <1>9, <1>a DEF SeenBefore
<1>10. ASSUME NEW w \in Workers, Claim(w) PROVE AnnouncedOnce'
  BY <1>10, <1>a DEF Claim
<1>11. ASSUME NEW w \in Workers, DedupFails(w) PROVE AnnouncedOnce'
  <2>1. Fail(w)
    BY <1>11 DEF DedupFails
  <2>2. QED
    BY <2>1, Failing, <1>11, <1>a DEF DedupFails
<1>12. ASSUME NEW w \in Workers, CooldownFails(w) PROVE AnnouncedOnce'
  BY <1>12, <1>a DEF CooldownFails
<1>13. ASSUME NEW w \in Workers, AllStored(w) PROVE AnnouncedOnce'
  <2>1. Succeed(w)
    BY <1>13 DEF AllStored
  <2>2. QED
    BY <2>1, Succeeding, <1>13, <1>a DEF AllStored
<1>14. ASSUME NEW w \in Workers, Create(w) PROVE AnnouncedOnce'
  BY <1>14, <1>a DEF Create
<1>15. ASSUME NEW w \in Workers, CreateDuplicate(w) PROVE AnnouncedOnce'
  BY <1>15, <1>a DEF CreateDuplicate
<1>16. ASSUME NEW w \in Workers, CreateFails(w) PROVE AnnouncedOnce'
  BY <1>16, <1>a DEF CreateFails
<1>17. ASSUME NEW w \in Workers, Notify(w) PROVE AnnouncedOnce'
  BY <1>17, <1>a DEF Notify
<1>18. ASSUME NEW w \in Workers, NotifyFails(w) PROVE AnnouncedOnce'
  BY <1>18, <1>a, NextAttempt DEF NotifyFails
<1>19. ASSUME NEW w \in Workers, Release(w) PROVE AnnouncedOnce'
  <2>1. Fail(w)
    BY <1>19 DEF Release
  <2>2. QED
    BY <2>1, Failing, <1>19, <1>a DEF Release
<1>20. ASSUME NEW w \in Workers, ReleaseFails(w) PROVE AnnouncedOnce'
  <2>1. Fail(w)
    BY <1>20 DEF ReleaseFails
  <2>2. QED
    BY <2>1, Failing, <1>20, <1>a DEF ReleaseFails
<1>21. ASSUME NEW w \in Workers, RecordDeadLetter(w) PROVE AnnouncedOnce'
  <2>1. Succeed(w)
    BY <1>21 DEF RecordDeadLetter
  <2>2. QED
    BY <2>1, Succeeding, <1>21, <1>a DEF RecordDeadLetter
<1>22. ASSUME NEW w \in Workers, RecordFails(w) PROVE AnnouncedOnce'
  BY <1>22, <1>a DEF RecordFails
<1>23. ASSUME NEW w \in Workers, MarkReplayed(w) PROVE AnnouncedOnce'
  BY <1>23, <1>a DEF MarkReplayed
<1>24. ASSUME NEW w \in Workers, MarkFails(w) PROVE AnnouncedOnce'
  BY <1>24, <1>a DEF MarkFails
<1>25. ASSUME NEW w \in Workers, Crash(w) PROVE AnnouncedOnce'
  BY <1>25, <1>a DEF Crash
<1>26. ASSUME NEW w \in Workers, NEW q \in WindowRules, CountWindow(w, q) PROVE AnnouncedOnce'
  BY <1>26, <1>a DEF CountWindow
<1>27. ASSUME NEW w \in Workers, NEW q \in RuleIds, Acquire(w, q) PROVE AnnouncedOnce'
  BY <1>27, <1>a DEF Acquire
<1>28. ASSUME NEW w \in Workers, NEW q \in RuleIds, Suppress(w, q) PROVE AnnouncedOnce'
  BY <1>28, <1>a DEF Suppress
<1>29. ASSUME NEW f \in Events, DedupExpires(f) PROVE AnnouncedOnce'
  BY <1>29, <1>a DEF DedupExpires
<1>30. ASSUME NEW k \in Devices \X RuleIds, CooldownExpires(k) PROVE AnnouncedOnce'
  BY <1>30, <1>a DEF CooldownExpires
<1>31. CASE UNCHANGED vars
  BY <1>31, <1>a DEF vars
<1>32. ASSUME NEW w \in Workers, DedupUnanswered(w) PROVE AnnouncedOnce'
  <2>1. CASE Succeed(w)
    BY <2>1, Succeeding, <1>32, <1>a DEF DedupUnanswered
  <2>2. CASE Fail(w) /\ UNCHANGED acked
    BY <2>2, Failing, <1>32, <1>a DEF DedupUnanswered
  <2>3. QED
    BY <1>32, <2>1, <2>2 DEF DedupUnanswered
<1>33. ASSUME NEW w \in Workers, NEW q \in RuleIds, CooldownUnanswered(w, q) PROVE AnnouncedOnce'
  BY <1>33, <1>a DEF CooldownUnanswered
<1>34. ASSUME NEW w \in Workers, CreateUnanswered(w) PROVE AnnouncedOnce'
  BY <1>34, <1>a DEF CreateUnanswered
<1>35. QED
  BY <1>1, <1>2, <1>3, <1>4, <1>5, <1>6, <1>7, <1>8, <1>9, <1>10, <1>11, <1>12, <1>13, <1>14, <1>15, <1>16, <1>17, <1>18, <1>19, <1>20, <1>21, <1>22, <1>23, <1>24, <1>25, <1>26, <1>27, <1>28, <1>29, <1>30, <1>31,
     <1>32, <1>33, <1>34
  DEF Next, Step, HandleDeviceEvent

LEMMA AnnouncingHolds ==
  ASSUME Typed, Announced, [Next]_vars, NEW v \in Workers PROVE Announcing(v)'
<1>a. /\ AnnouncedOnce /\ \A w \in Workers : Announcing(w) /\ InHand(w)
      /\ published \in [Events \X RuleIds -> Nat] /\ TypeOK
      /\ pc \in [Workers -> Stages] /\ ev \in [Workers -> Events \cup {NoEvent}]
      /\ current \in [Workers -> RuleIds \cup {NoRule}]
  BY DEF Announced, Typed, TypeOK
<1> USE AttemptsFollow DEF AnnouncedOnce, Announcing, InHand, At, Goto, Fault, redis, mysql, local, ghosts, bounds
<1>1. ASSUME NEW w \in Workers, NEW f \in Events, Deliver(w, f) PROVE Announcing(v)'
  BY <1>1, <1>a DEF Deliver
<1>2. ASSUME NEW w \in Workers, NEW k \in DOMAIN dlq, Replay(w, k) PROVE Announcing(v)'
  BY <1>2, <1>a DEF Replay
<1>3. ASSUME NEW w \in Workers, EvaluateRules(w) PROVE Announcing(v)'
  BY <1>3, <1>a DEF EvaluateRules
<1>4. ASSUME NEW w \in Workers, RulesUnavailable(w) PROVE Announcing(v)'
  BY <1>4, <1>a DEF RulesUnavailable
<1>5. ASSUME NEW w \in Workers, EvaluateFails(w) PROVE Announcing(v)'
  <2>1. Fail(w)
    BY <1>5 DEF EvaluateFails
  <2>2. QED
    BY <2>1, Failing, <1>5, <1>a DEF EvaluateFails
<1>6. ASSUME NEW w \in Workers, CountFails(w) PROVE Announcing(v)'
  <2>1. Fail(w)
    BY <1>6 DEF CountFails
  <2>2. QED
    BY <2>1, Failing, <1>6, <1>a DEF CountFails
<1>7. ASSUME NEW w \in Workers, Unmatched(w) PROVE Announcing(v)'
  <2>1. Succeed(w)
    BY <1>7 DEF Unmatched
  <2>2. QED
    BY <2>1, Succeeding, <1>7, <1>a DEF Unmatched
<1>8. ASSUME NEW w \in Workers, RejectTenant(w) PROVE Announcing(v)'
  BY <1>8, <1>a DEF RejectTenant
<1>9. ASSUME NEW w \in Workers, SeenBefore(w) PROVE Announcing(v)'
  <2>1. Succeed(w)
    BY <1>9 DEF SeenBefore
  <2>2. QED
    BY <2>1, Succeeding, <1>9, <1>a DEF SeenBefore
<1>10. ASSUME NEW w \in Workers, Claim(w) PROVE Announcing(v)'
  BY <1>10, <1>a DEF Claim
<1>11. ASSUME NEW w \in Workers, DedupFails(w) PROVE Announcing(v)'
  <2>1. Fail(w)
    BY <1>11 DEF DedupFails
  <2>2. QED
    BY <2>1, Failing, <1>11, <1>a DEF DedupFails
<1>12. ASSUME NEW w \in Workers, CooldownFails(w) PROVE Announcing(v)'
  BY <1>12, <1>a DEF CooldownFails
<1>13. ASSUME NEW w \in Workers, AllStored(w) PROVE Announcing(v)'
  <2>1. Succeed(w)
    BY <1>13 DEF AllStored
  <2>2. QED
    BY <2>1, Succeeding, <1>13, <1>a DEF AllStored
<1>14. ASSUME NEW w \in Workers, Create(w) PROVE Announcing(v)'
  <2>1. << ev[w], current[w] >> \in (Events \X RuleIds) \ alarms
    BY <1>14, <1>a DEF Create
  <2>2. published[<< ev[w], current[w] >>] = 0
    BY <1>a, <2>1
  <2>3. \A u \in Workers : pc[u] \in Notifying => << ev[u], current[u] >> # << ev[w], current[w] >>
    BY <1>a, <2>1
  <2>4. QED
    BY <1>14, <1>a, <2>2, <2>3 DEF Create
<1>15. ASSUME NEW w \in Workers, CreateDuplicate(w) PROVE Announcing(v)'
  BY <1>15, <1>a DEF CreateDuplicate
<1>16. ASSUME NEW w \in Workers, CreateFails(w) PROVE Announcing(v)'
  BY <1>16, <1>a DEF CreateFails
<1>17. ASSUME NEW w \in Workers, Notify(w) PROVE Announcing(v)'
  BY <1>17, <1>a DEF Notify
<1>18. ASSUME NEW w \in Workers, NotifyFails(w) PROVE Announcing(v)'
  BY <1>18, <1>a, NextAttempt DEF NotifyFails
<1>19. ASSUME NEW w \in Workers, Release(w) PROVE Announcing(v)'
  <2>1. Fail(w)
    BY <1>19 DEF Release
  <2>2. QED
    BY <2>1, Failing, <1>19, <1>a DEF Release
<1>20. ASSUME NEW w \in Workers, ReleaseFails(w) PROVE Announcing(v)'
  <2>1. Fail(w)
    BY <1>20 DEF ReleaseFails
  <2>2. QED
    BY <2>1, Failing, <1>20, <1>a DEF ReleaseFails
<1>21. ASSUME NEW w \in Workers, RecordDeadLetter(w) PROVE Announcing(v)'
  <2>1. Succeed(w)
    BY <1>21 DEF RecordDeadLetter
  <2>2. QED
    BY <2>1, Succeeding, <1>21, <1>a DEF RecordDeadLetter
<1>22. ASSUME NEW w \in Workers, RecordFails(w) PROVE Announcing(v)'
  BY <1>22, <1>a DEF RecordFails
<1>23. ASSUME NEW w \in Workers, MarkReplayed(w) PROVE Announcing(v)'
  BY <1>23, <1>a DEF MarkReplayed
<1>24. ASSUME NEW w \in Workers, MarkFails(w) PROVE Announcing(v)'
  BY <1>24, <1>a DEF MarkFails
<1>25. ASSUME NEW w \in Workers, Crash(w) PROVE Announcing(v)'
  BY <1>25, <1>a DEF Crash
<1>26. ASSUME NEW w \in Workers, NEW q \in WindowRules, CountWindow(w, q) PROVE Announcing(v)'
  BY <1>26, <1>a DEF CountWindow
<1>27. ASSUME NEW w \in Workers, NEW q \in RuleIds, Acquire(w, q) PROVE Announcing(v)'
  BY <1>27, <1>a DEF Acquire
<1>28. ASSUME NEW w \in Workers, NEW q \in RuleIds, Suppress(w, q) PROVE Announcing(v)'
  BY <1>28, <1>a DEF Suppress
<1>29. ASSUME NEW f \in Events, DedupExpires(f) PROVE Announcing(v)'
  BY <1>29, <1>a DEF DedupExpires
<1>30. ASSUME NEW k \in Devices \X RuleIds, CooldownExpires(k) PROVE Announcing(v)'
  BY <1>30, <1>a DEF CooldownExpires
<1>31. CASE UNCHANGED vars
  BY <1>31, <1>a DEF vars
<1>32. ASSUME NEW w \in Workers, DedupUnanswered(w) PROVE Announcing(v)'
  <2>1. CASE Succeed(w)
    BY <2>1, Succeeding, <1>32, <1>a DEF DedupUnanswered
  <2>2. CASE Fail(w) /\ UNCHANGED acked
    BY <2>2, Failing, <1>32, <1>a DEF DedupUnanswered
  <2>3. QED
    BY <1>32, <2>1, <2>2 DEF DedupUnanswered
<1>33. ASSUME NEW w \in Workers, NEW q \in RuleIds, CooldownUnanswered(w, q) PROVE Announcing(v)'
  BY <1>33, <1>a DEF CooldownUnanswered
<1>34. ASSUME NEW w \in Workers, CreateUnanswered(w) PROVE Announcing(v)'
  BY <1>34, <1>a DEF CreateUnanswered
<1>35. QED
  BY <1>1, <1>2, <1>3, <1>4, <1>5, <1>6, <1>7, <1>8, <1>9, <1>10, <1>11, <1>12, <1>13, <1>14, <1>15, <1>16, <1>17, <1>18, <1>19, <1>20, <1>21, <1>22, <1>23, <1>24, <1>25, <1>26, <1>27, <1>28, <1>29, <1>30, <1>31,
     <1>32, <1>33, <1>34
  DEF Next, Step, HandleDeviceEvent

LEMMA AnnouncedHolds == ASSUME Typed, Announced, [Next]_vars PROVE Announced'
BY AnnouncedOnceHolds, AnnouncingHolds DEF Announced

------------------------------------------------------------------------------
(* What only grows: the alarms, the ledger, and what went wrong. *)
LEMMA LedgerGrows ==
  ASSUME Typed, [Next]_vars, NEW i \in DOMAIN dlq
  PROVE  i \in DOMAIN dlq' /\ dlq'[i].event = dlq[i].event
<1>a. TypeOK /\ (\A w \in Workers : InHand(w)) /\ dlq \in Seq(Letters)
  BY DEF Typed, TypeOK, Letters
<1> USE AttemptsFollow DEF redis, mysql, local, ghosts, bounds
<1>1. ASSUME NEW w \in Workers, NEW f \in Events, Deliver(w, f) PROVE i \in DOMAIN dlq' /\ dlq'[i].event = dlq[i].event
  BY <1>1 DEF Deliver
<1>2. ASSUME NEW w \in Workers, NEW k \in DOMAIN dlq, Replay(w, k) PROVE i \in DOMAIN dlq' /\ dlq'[i].event = dlq[i].event
  BY <1>2 DEF Replay
<1>3. ASSUME NEW w \in Workers, EvaluateRules(w) PROVE i \in DOMAIN dlq' /\ dlq'[i].event = dlq[i].event
  BY <1>3 DEF EvaluateRules
<1>4. ASSUME NEW w \in Workers, RulesUnavailable(w) PROVE i \in DOMAIN dlq' /\ dlq'[i].event = dlq[i].event
  BY <1>4 DEF RulesUnavailable
<1>5. ASSUME NEW w \in Workers, EvaluateFails(w) PROVE i \in DOMAIN dlq' /\ dlq'[i].event = dlq[i].event
  BY <1>5 DEF EvaluateFails
<1>6. ASSUME NEW w \in Workers, CountFails(w) PROVE i \in DOMAIN dlq' /\ dlq'[i].event = dlq[i].event
  BY <1>6 DEF CountFails
<1>7. ASSUME NEW w \in Workers, Unmatched(w) PROVE i \in DOMAIN dlq' /\ dlq'[i].event = dlq[i].event
  BY <1>7 DEF Unmatched
<1>8. ASSUME NEW w \in Workers, RejectTenant(w) PROVE i \in DOMAIN dlq' /\ dlq'[i].event = dlq[i].event
  BY <1>8 DEF RejectTenant
<1>9. ASSUME NEW w \in Workers, SeenBefore(w) PROVE i \in DOMAIN dlq' /\ dlq'[i].event = dlq[i].event
  BY <1>9 DEF SeenBefore
<1>10. ASSUME NEW w \in Workers, Claim(w) PROVE i \in DOMAIN dlq' /\ dlq'[i].event = dlq[i].event
  BY <1>10 DEF Claim
<1>11. ASSUME NEW w \in Workers, DedupFails(w) PROVE i \in DOMAIN dlq' /\ dlq'[i].event = dlq[i].event
  BY <1>11 DEF DedupFails
<1>12. ASSUME NEW w \in Workers, CooldownFails(w) PROVE i \in DOMAIN dlq' /\ dlq'[i].event = dlq[i].event
  BY <1>12 DEF CooldownFails
<1>13. ASSUME NEW w \in Workers, AllStored(w) PROVE i \in DOMAIN dlq' /\ dlq'[i].event = dlq[i].event
  BY <1>13 DEF AllStored
<1>14. ASSUME NEW w \in Workers, Create(w) PROVE i \in DOMAIN dlq' /\ dlq'[i].event = dlq[i].event
  BY <1>14 DEF Create
<1>15. ASSUME NEW w \in Workers, CreateDuplicate(w) PROVE i \in DOMAIN dlq' /\ dlq'[i].event = dlq[i].event
  BY <1>15 DEF CreateDuplicate
<1>16. ASSUME NEW w \in Workers, CreateFails(w) PROVE i \in DOMAIN dlq' /\ dlq'[i].event = dlq[i].event
  BY <1>16 DEF CreateFails
<1>17. ASSUME NEW w \in Workers, Notify(w) PROVE i \in DOMAIN dlq' /\ dlq'[i].event = dlq[i].event
  BY <1>17 DEF Notify
<1>18. ASSUME NEW w \in Workers, NotifyFails(w) PROVE i \in DOMAIN dlq' /\ dlq'[i].event = dlq[i].event
  BY <1>18 DEF NotifyFails
<1>19. ASSUME NEW w \in Workers, Release(w) PROVE i \in DOMAIN dlq' /\ dlq'[i].event = dlq[i].event
  BY <1>19 DEF Release
<1>20. ASSUME NEW w \in Workers, ReleaseFails(w) PROVE i \in DOMAIN dlq' /\ dlq'[i].event = dlq[i].event
  BY <1>20 DEF ReleaseFails
<1>21. ASSUME NEW w \in Workers, RecordDeadLetter(w) PROVE i \in DOMAIN dlq' /\ dlq'[i].event = dlq[i].event
  <2>1. ev[w] \in Events
    BY <1>21, <1>a DEF RecordDeadLetter, At, InHand
  <2>2. QED
    BY <1>21, <1>a, <2>1, AppendKeeps DEF RecordDeadLetter
<1>22. ASSUME NEW w \in Workers, RecordFails(w) PROVE i \in DOMAIN dlq' /\ dlq'[i].event = dlq[i].event
  <2>1. ev[w] \in Events
    BY <1>22, <1>a DEF RecordFails, At, InHand
  <2>2. QED
    BY <1>22, <1>a, <2>1, AppendKeeps DEF RecordFails
<1>23. ASSUME NEW w \in Workers, MarkReplayed(w) PROVE i \in DOMAIN dlq' /\ dlq'[i].event = dlq[i].event
  <2>1. entry[w] \in DOMAIN dlq
    BY <1>23, <1>a DEF MarkReplayed, At, InHand, TypeOK
  <2>2. QED
    BY <1>23, <1>a, <2>1, MarkKeeps DEF MarkReplayed
<1>24. ASSUME NEW w \in Workers, MarkFails(w) PROVE i \in DOMAIN dlq' /\ dlq'[i].event = dlq[i].event
  BY <1>24 DEF MarkFails
<1>25. ASSUME NEW w \in Workers, Crash(w) PROVE i \in DOMAIN dlq' /\ dlq'[i].event = dlq[i].event
  BY <1>25 DEF Crash
<1>26. ASSUME NEW w \in Workers, NEW q \in WindowRules, CountWindow(w, q) PROVE i \in DOMAIN dlq' /\ dlq'[i].event = dlq[i].event
  BY <1>26 DEF CountWindow
<1>27. ASSUME NEW w \in Workers, NEW q \in RuleIds, Acquire(w, q) PROVE i \in DOMAIN dlq' /\ dlq'[i].event = dlq[i].event
  BY <1>27 DEF Acquire
<1>28. ASSUME NEW w \in Workers, NEW q \in RuleIds, Suppress(w, q) PROVE i \in DOMAIN dlq' /\ dlq'[i].event = dlq[i].event
  BY <1>28 DEF Suppress
<1>29. ASSUME NEW f \in Events, DedupExpires(f) PROVE i \in DOMAIN dlq' /\ dlq'[i].event = dlq[i].event
  BY <1>29 DEF DedupExpires
<1>30. ASSUME NEW k \in Devices \X RuleIds, CooldownExpires(k) PROVE i \in DOMAIN dlq' /\ dlq'[i].event = dlq[i].event
  BY <1>30 DEF CooldownExpires
<1>31. CASE UNCHANGED vars
  BY <1>31 DEF vars
<1>32. ASSUME NEW w \in Workers, DedupUnanswered(w) PROVE i \in DOMAIN dlq' /\ dlq'[i].event = dlq[i].event
  <2>1. CASE Succeed(w)
    BY <2>1, Succeeding, <1>32 DEF DedupUnanswered
  <2>2. CASE Fail(w) /\ UNCHANGED acked
    BY <2>2, Failing, <1>32 DEF DedupUnanswered
  <2>3. QED
    BY <1>32, <2>1, <2>2 DEF DedupUnanswered
<1>33. ASSUME NEW w \in Workers, NEW q \in RuleIds, CooldownUnanswered(w, q) PROVE i \in DOMAIN dlq' /\ dlq'[i].event = dlq[i].event
  BY <1>33 DEF CooldownUnanswered
<1>34. ASSUME NEW w \in Workers, CreateUnanswered(w) PROVE i \in DOMAIN dlq' /\ dlq'[i].event = dlq[i].event
  BY <1>34 DEF CreateUnanswered
<1>35. QED
  BY <1>1, <1>2, <1>3, <1>4, <1>5, <1>6, <1>7, <1>8, <1>9, <1>10, <1>11, <1>12, <1>13, <1>14, <1>15, <1>16, <1>17, <1>18, <1>19, <1>20, <1>21, <1>22, <1>23, <1>24, <1>25, <1>26, <1>27, <1>28, <1>29, <1>30, <1>31,
     <1>32, <1>33, <1>34
  DEF Next, Step, HandleDeviceEvent

LEMMA LedgeredStays ==
  ASSUME Typed, [Next]_vars, NEW e \in Events, Ledgered(e) PROVE Ledgered(e)'
BY LedgerGrows DEF Ledgered

LEMMA ReasonsStay ==
  ASSUME Typed, [Next]_vars, NEW e \in Events
  PROVE  alarms \subseteq alarms' /\ excuse[e] \subseteq excuse'[e]
<1>a. excuse \in [Events -> SUBSET Causes]
  BY DEF Typed, TypeOK
<1> USE AttemptsFollow DEF redis, mysql, local, ghosts, bounds, Blame
<1>1. ASSUME NEW w \in Workers, NEW f \in Events, Deliver(w, f)
  PROVE  alarms \subseteq alarms' /\ excuse[e] \subseteq excuse'[e]
  BY <1>1, <1>a DEF Deliver
<1>2. ASSUME NEW w \in Workers, NEW k \in DOMAIN dlq, Replay(w, k)
  PROVE  alarms \subseteq alarms' /\ excuse[e] \subseteq excuse'[e]
  BY <1>2, <1>a DEF Replay
<1>3. ASSUME NEW w \in Workers, EvaluateRules(w)
  PROVE  alarms \subseteq alarms' /\ excuse[e] \subseteq excuse'[e]
  BY <1>3, <1>a DEF EvaluateRules
<1>4. ASSUME NEW w \in Workers, RulesUnavailable(w)
  PROVE  alarms \subseteq alarms' /\ excuse[e] \subseteq excuse'[e]
  BY <1>4, <1>a DEF RulesUnavailable
<1>5. ASSUME NEW w \in Workers, EvaluateFails(w)
  PROVE  alarms \subseteq alarms' /\ excuse[e] \subseteq excuse'[e]
  BY <1>5, <1>a DEF EvaluateFails
<1>6. ASSUME NEW w \in Workers, CountFails(w)
  PROVE  alarms \subseteq alarms' /\ excuse[e] \subseteq excuse'[e]
  BY <1>6, <1>a DEF CountFails
<1>7. ASSUME NEW w \in Workers, Unmatched(w)
  PROVE  alarms \subseteq alarms' /\ excuse[e] \subseteq excuse'[e]
  BY <1>7, <1>a DEF Unmatched
<1>8. ASSUME NEW w \in Workers, RejectTenant(w)
  PROVE  alarms \subseteq alarms' /\ excuse[e] \subseteq excuse'[e]
  BY <1>8, <1>a DEF RejectTenant
<1>9. ASSUME NEW w \in Workers, SeenBefore(w)
  PROVE  alarms \subseteq alarms' /\ excuse[e] \subseteq excuse'[e]
  BY <1>9, <1>a DEF SeenBefore
<1>10. ASSUME NEW w \in Workers, Claim(w)
  PROVE  alarms \subseteq alarms' /\ excuse[e] \subseteq excuse'[e]
  BY <1>10, <1>a DEF Claim
<1>11. ASSUME NEW w \in Workers, DedupFails(w)
  PROVE  alarms \subseteq alarms' /\ excuse[e] \subseteq excuse'[e]
  BY <1>11, <1>a DEF DedupFails
<1>12. ASSUME NEW w \in Workers, CooldownFails(w)
  PROVE  alarms \subseteq alarms' /\ excuse[e] \subseteq excuse'[e]
  BY <1>12, <1>a DEF CooldownFails
<1>13. ASSUME NEW w \in Workers, AllStored(w)
  PROVE  alarms \subseteq alarms' /\ excuse[e] \subseteq excuse'[e]
  BY <1>13, <1>a DEF AllStored
<1>14. ASSUME NEW w \in Workers, Create(w)
  PROVE  alarms \subseteq alarms' /\ excuse[e] \subseteq excuse'[e]
  BY <1>14, <1>a DEF Create
<1>15. ASSUME NEW w \in Workers, CreateDuplicate(w)
  PROVE  alarms \subseteq alarms' /\ excuse[e] \subseteq excuse'[e]
  BY <1>15, <1>a DEF CreateDuplicate
<1>16. ASSUME NEW w \in Workers, CreateFails(w)
  PROVE  alarms \subseteq alarms' /\ excuse[e] \subseteq excuse'[e]
  BY <1>16, <1>a DEF CreateFails
<1>17. ASSUME NEW w \in Workers, Notify(w)
  PROVE  alarms \subseteq alarms' /\ excuse[e] \subseteq excuse'[e]
  BY <1>17, <1>a DEF Notify
<1>18. ASSUME NEW w \in Workers, NotifyFails(w)
  PROVE  alarms \subseteq alarms' /\ excuse[e] \subseteq excuse'[e]
  BY <1>18, <1>a, NextAttempt DEF NotifyFails
<1>19. ASSUME NEW w \in Workers, Release(w)
  PROVE  alarms \subseteq alarms' /\ excuse[e] \subseteq excuse'[e]
  BY <1>19, <1>a DEF Release
<1>20. ASSUME NEW w \in Workers, ReleaseFails(w)
  PROVE  alarms \subseteq alarms' /\ excuse[e] \subseteq excuse'[e]
  BY <1>20, <1>a DEF ReleaseFails
<1>21. ASSUME NEW w \in Workers, RecordDeadLetter(w)
  PROVE  alarms \subseteq alarms' /\ excuse[e] \subseteq excuse'[e]
  BY <1>21, <1>a DEF RecordDeadLetter
<1>22. ASSUME NEW w \in Workers, RecordFails(w)
  PROVE  alarms \subseteq alarms' /\ excuse[e] \subseteq excuse'[e]
  BY <1>22, <1>a DEF RecordFails
<1>23. ASSUME NEW w \in Workers, MarkReplayed(w)
  PROVE  alarms \subseteq alarms' /\ excuse[e] \subseteq excuse'[e]
  BY <1>23, <1>a DEF MarkReplayed
<1>24. ASSUME NEW w \in Workers, MarkFails(w)
  PROVE  alarms \subseteq alarms' /\ excuse[e] \subseteq excuse'[e]
  BY <1>24, <1>a DEF MarkFails
<1>25. ASSUME NEW w \in Workers, Crash(w)
  PROVE  alarms \subseteq alarms' /\ excuse[e] \subseteq excuse'[e]
  BY <1>25, <1>a DEF Crash
<1>26. ASSUME NEW w \in Workers, NEW q \in WindowRules, CountWindow(w, q)
  PROVE  alarms \subseteq alarms' /\ excuse[e] \subseteq excuse'[e]
  BY <1>26, <1>a DEF CountWindow
<1>27. ASSUME NEW w \in Workers, NEW q \in RuleIds, Acquire(w, q)
  PROVE  alarms \subseteq alarms' /\ excuse[e] \subseteq excuse'[e]
  BY <1>27, <1>a DEF Acquire
<1>28. ASSUME NEW w \in Workers, NEW q \in RuleIds, Suppress(w, q)
  PROVE  alarms \subseteq alarms' /\ excuse[e] \subseteq excuse'[e]
  BY <1>28, <1>a DEF Suppress
<1>29. ASSUME NEW f \in Events, DedupExpires(f)
  PROVE  alarms \subseteq alarms' /\ excuse[e] \subseteq excuse'[e]
  BY <1>29, <1>a DEF DedupExpires
<1>30. ASSUME NEW k \in Devices \X RuleIds, CooldownExpires(k)
  PROVE  alarms \subseteq alarms' /\ excuse[e] \subseteq excuse'[e]
  BY <1>30, <1>a DEF CooldownExpires
<1>31. CASE UNCHANGED vars
  BY <1>31, <1>a DEF vars
<1>32. ASSUME NEW w \in Workers, DedupUnanswered(w)
  PROVE  alarms \subseteq alarms' /\ excuse[e] \subseteq excuse'[e]
  <2>1. CASE Succeed(w)
    BY <2>1, Succeeding, <1>32, <1>a DEF DedupUnanswered
  <2>2. CASE Fail(w) /\ UNCHANGED acked
    BY <2>2, Failing, <1>32, <1>a DEF DedupUnanswered
  <2>3. QED
    BY <1>32, <2>1, <2>2 DEF DedupUnanswered
<1>33. ASSUME NEW w \in Workers, NEW q \in RuleIds, CooldownUnanswered(w, q)
  PROVE  alarms \subseteq alarms' /\ excuse[e] \subseteq excuse'[e]
  BY <1>33, <1>a DEF CooldownUnanswered
<1>34. ASSUME NEW w \in Workers, CreateUnanswered(w)
  PROVE  alarms \subseteq alarms' /\ excuse[e] \subseteq excuse'[e]
  BY <1>34, <1>a DEF CreateUnanswered
<1>35. QED
  BY <1>1, <1>2, <1>3, <1>4, <1>5, <1>6, <1>7, <1>8, <1>9, <1>10, <1>11, <1>12, <1>13, <1>14, <1>15, <1>16, <1>17, <1>18, <1>19, <1>20, <1>21, <1>22, <1>23, <1>24, <1>25, <1>26, <1>27, <1>28, <1>29, <1>30, <1>31,
     <1>32, <1>33, <1>34
  DEF Next, Step, HandleDeviceEvent

------------------------------------------------------------------------------
(* Bad messages. *)
LEMMA SortedHolds ==
  ASSUME Typed, Judged, [Next]_vars, NEW v \in Workers PROVE Sorted(v)'
<1>a. /\ TypeOK /\ \A w \in Workers : Sorted(w) /\ InHand(w)
      /\ pc \in [Workers -> Stages] /\ ev \in [Workers -> Events \cup {NoEvent}]
  BY DEF Judged, Typed, TypeOK
<1> USE AttemptsFollow DEF Sorted, At, Goto, Fault, redis, mysql, local, ghosts, bounds, Evaluated, Admissible,
            Reachable
<1>1. ASSUME NEW w \in Workers, NEW f \in Events, Deliver(w, f) PROVE Sorted(v)'
  BY <1>1, <1>a DEF Deliver
<1>2. ASSUME NEW w \in Workers, NEW k \in DOMAIN dlq, Replay(w, k) PROVE Sorted(v)'
  BY <1>2, <1>a DEF Replay
<1>3. ASSUME NEW w \in Workers, EvaluateRules(w) PROVE Sorted(v)'
  BY <1>3, <1>a DEF EvaluateRules
<1>4. ASSUME NEW w \in Workers, RulesUnavailable(w) PROVE Sorted(v)'
  BY <1>4, <1>a DEF RulesUnavailable
<1>5. ASSUME NEW w \in Workers, EvaluateFails(w) PROVE Sorted(v)'
  <2>1. Fail(w)
    BY <1>5 DEF EvaluateFails
  <2>2. QED
    BY <2>1, Failing, <1>5, <1>a DEF EvaluateFails
<1>6. ASSUME NEW w \in Workers, CountFails(w) PROVE Sorted(v)'
  <2>1. Fail(w)
    BY <1>6 DEF CountFails
  <2>2. QED
    BY <2>1, Failing, <1>6, <1>a DEF CountFails
<1>7. ASSUME NEW w \in Workers, Unmatched(w) PROVE Sorted(v)'
  <2>1. Succeed(w)
    BY <1>7 DEF Unmatched
  <2>2. QED
    BY <2>1, Succeeding, <1>7, <1>a DEF Unmatched
<1>8. ASSUME NEW w \in Workers, RejectTenant(w) PROVE Sorted(v)'
  BY <1>8, <1>a DEF RejectTenant
<1>9. ASSUME NEW w \in Workers, SeenBefore(w) PROVE Sorted(v)'
  <2>1. Succeed(w)
    BY <1>9 DEF SeenBefore
  <2>2. QED
    BY <2>1, Succeeding, <1>9, <1>a DEF SeenBefore
<1>10. ASSUME NEW w \in Workers, Claim(w) PROVE Sorted(v)'
  BY <1>10, <1>a DEF Claim
<1>11. ASSUME NEW w \in Workers, DedupFails(w) PROVE Sorted(v)'
  <2>1. Fail(w)
    BY <1>11 DEF DedupFails
  <2>2. QED
    BY <2>1, Failing, <1>11, <1>a DEF DedupFails
<1>12. ASSUME NEW w \in Workers, CooldownFails(w) PROVE Sorted(v)'
  BY <1>12, <1>a DEF CooldownFails
<1>13. ASSUME NEW w \in Workers, AllStored(w) PROVE Sorted(v)'
  <2>1. Succeed(w)
    BY <1>13 DEF AllStored
  <2>2. QED
    BY <2>1, Succeeding, <1>13, <1>a DEF AllStored
<1>14. ASSUME NEW w \in Workers, Create(w) PROVE Sorted(v)'
  BY <1>14, <1>a DEF Create
<1>15. ASSUME NEW w \in Workers, CreateDuplicate(w) PROVE Sorted(v)'
  BY <1>15, <1>a DEF CreateDuplicate
<1>16. ASSUME NEW w \in Workers, CreateFails(w) PROVE Sorted(v)'
  BY <1>16, <1>a DEF CreateFails
<1>17. ASSUME NEW w \in Workers, Notify(w) PROVE Sorted(v)'
  BY <1>17, <1>a DEF Notify
<1>18. ASSUME NEW w \in Workers, NotifyFails(w) PROVE Sorted(v)'
  BY <1>18, <1>a, NextAttempt DEF NotifyFails
<1>19. ASSUME NEW w \in Workers, Release(w) PROVE Sorted(v)'
  <2>1. Fail(w)
    BY <1>19 DEF Release
  <2>2. QED
    BY <2>1, Failing, <1>19, <1>a DEF Release
<1>20. ASSUME NEW w \in Workers, ReleaseFails(w) PROVE Sorted(v)'
  <2>1. Fail(w)
    BY <1>20 DEF ReleaseFails
  <2>2. QED
    BY <2>1, Failing, <1>20, <1>a DEF ReleaseFails
<1>21. ASSUME NEW w \in Workers, RecordDeadLetter(w) PROVE Sorted(v)'
  <2>1. Succeed(w)
    BY <1>21 DEF RecordDeadLetter
  <2>2. QED
    BY <2>1, Succeeding, <1>21, <1>a DEF RecordDeadLetter
<1>22. ASSUME NEW w \in Workers, RecordFails(w) PROVE Sorted(v)'
  BY <1>22, <1>a DEF RecordFails
<1>23. ASSUME NEW w \in Workers, MarkReplayed(w) PROVE Sorted(v)'
  BY <1>23, <1>a DEF MarkReplayed
<1>24. ASSUME NEW w \in Workers, MarkFails(w) PROVE Sorted(v)'
  BY <1>24, <1>a DEF MarkFails
<1>25. ASSUME NEW w \in Workers, Crash(w) PROVE Sorted(v)'
  BY <1>25, <1>a DEF Crash
<1>26. ASSUME NEW w \in Workers, NEW q \in WindowRules, CountWindow(w, q) PROVE Sorted(v)'
  BY <1>26, <1>a DEF CountWindow
<1>27. ASSUME NEW w \in Workers, NEW q \in RuleIds, Acquire(w, q) PROVE Sorted(v)'
  BY <1>27, <1>a DEF Acquire
<1>28. ASSUME NEW w \in Workers, NEW q \in RuleIds, Suppress(w, q) PROVE Sorted(v)'
  BY <1>28, <1>a DEF Suppress
<1>29. ASSUME NEW f \in Events, DedupExpires(f) PROVE Sorted(v)'
  BY <1>29, <1>a DEF DedupExpires
<1>30. ASSUME NEW k \in Devices \X RuleIds, CooldownExpires(k) PROVE Sorted(v)'
  BY <1>30, <1>a DEF CooldownExpires
<1>31. CASE UNCHANGED vars
  BY <1>31, <1>a DEF vars
<1>32. ASSUME NEW w \in Workers, DedupUnanswered(w) PROVE Sorted(v)'
  <2>1. CASE Succeed(w)
    BY <2>1, Succeeding, <1>32, <1>a DEF DedupUnanswered
  <2>2. CASE Fail(w) /\ UNCHANGED acked
    BY <2>2, Failing, <1>32, <1>a DEF DedupUnanswered
  <2>3. QED
    BY <1>32, <2>1, <2>2 DEF DedupUnanswered
<1>33. ASSUME NEW w \in Workers, NEW q \in RuleIds, CooldownUnanswered(w, q) PROVE Sorted(v)'
  BY <1>33, <1>a DEF CooldownUnanswered
<1>34. ASSUME NEW w \in Workers, CreateUnanswered(w) PROVE Sorted(v)'
  BY <1>34, <1>a DEF CreateUnanswered
<1>35. QED
  BY <1>1, <1>2, <1>3, <1>4, <1>5, <1>6, <1>7, <1>8, <1>9, <1>10, <1>11, <1>12, <1>13, <1>14, <1>15, <1>16, <1>17, <1>18, <1>19, <1>20, <1>21, <1>22, <1>23, <1>24, <1>25, <1>26, <1>27, <1>28, <1>29, <1>30, <1>31,
     <1>32, <1>33, <1>34
  DEF Next, Step, HandleDeviceEvent

LEMMA BadMessagesHold == ASSUME Typed, Judged, [Next]_vars PROVE BadMessagesLedgered'
<1>a. /\ TypeOK /\ BadMessagesLedgered /\ \A w \in Workers : Sorted(w) /\ InHand(w)
      /\ acked \subseteq Events /\ dlq \in Seq(Letters)
  BY DEF Judged, Typed, TypeOK, Letters
<1>b. \A e \in Events : Ledgered(e) => Ledgered(e)'
  BY LedgeredStays
<1> USE AttemptsFollow DEF BadMessagesLedgered, Sorted, At, Goto, Fault, redis, mysql, local, ghosts,
            bounds, Evaluated, Admissible, InHand
<1>1. ASSUME NEW w \in Workers, NEW f \in Events, Deliver(w, f) PROVE BadMessagesLedgered'
  BY <1>1, <1>a, <1>b DEF Deliver
<1>2. ASSUME NEW w \in Workers, NEW k \in DOMAIN dlq, Replay(w, k) PROVE BadMessagesLedgered'
  BY <1>2, <1>a, <1>b DEF Replay
<1>3. ASSUME NEW w \in Workers, EvaluateRules(w) PROVE BadMessagesLedgered'
  BY <1>3, <1>a, <1>b DEF EvaluateRules
<1>4. ASSUME NEW w \in Workers, RulesUnavailable(w) PROVE BadMessagesLedgered'
  BY <1>4, <1>a, <1>b DEF RulesUnavailable
<1>5. ASSUME NEW w \in Workers, EvaluateFails(w) PROVE BadMessagesLedgered'
  <2>1. Fail(w)
    BY <1>5 DEF EvaluateFails
  <2>2. QED
    BY <2>1, Failing, <1>5, <1>a, <1>b DEF EvaluateFails
<1>6. ASSUME NEW w \in Workers, CountFails(w) PROVE BadMessagesLedgered'
  <2>1. Fail(w)
    BY <1>6 DEF CountFails
  <2>2. QED
    BY <2>1, Failing, <1>6, <1>a, <1>b DEF CountFails
<1>7. ASSUME NEW w \in Workers, Unmatched(w) PROVE BadMessagesLedgered'
  <2>1. Succeed(w)
    BY <1>7 DEF Unmatched
  <2>2. QED
    BY <2>1, Succeeding, <1>7, <1>a, <1>b DEF Unmatched
<1>8. ASSUME NEW w \in Workers, RejectTenant(w) PROVE BadMessagesLedgered'
  BY <1>8, <1>a, <1>b DEF RejectTenant
<1>9. ASSUME NEW w \in Workers, SeenBefore(w) PROVE BadMessagesLedgered'
  <2>1. Succeed(w)
    BY <1>9 DEF SeenBefore
  <2>2. QED
    BY <2>1, Succeeding, <1>9, <1>a, <1>b DEF SeenBefore
<1>10. ASSUME NEW w \in Workers, Claim(w) PROVE BadMessagesLedgered'
  BY <1>10, <1>a, <1>b DEF Claim
<1>11. ASSUME NEW w \in Workers, DedupFails(w) PROVE BadMessagesLedgered'
  <2>1. Fail(w)
    BY <1>11 DEF DedupFails
  <2>2. QED
    BY <2>1, Failing, <1>11, <1>a, <1>b DEF DedupFails
<1>12. ASSUME NEW w \in Workers, CooldownFails(w) PROVE BadMessagesLedgered'
  BY <1>12, <1>a, <1>b DEF CooldownFails
<1>13. ASSUME NEW w \in Workers, AllStored(w) PROVE BadMessagesLedgered'
  <2>1. Succeed(w)
    BY <1>13 DEF AllStored
  <2>2. QED
    BY <2>1, Succeeding, <1>13, <1>a, <1>b DEF AllStored
<1>14. ASSUME NEW w \in Workers, Create(w) PROVE BadMessagesLedgered'
  BY <1>14, <1>a, <1>b DEF Create
<1>15. ASSUME NEW w \in Workers, CreateDuplicate(w) PROVE BadMessagesLedgered'
  BY <1>15, <1>a, <1>b DEF CreateDuplicate
<1>16. ASSUME NEW w \in Workers, CreateFails(w) PROVE BadMessagesLedgered'
  BY <1>16, <1>a, <1>b DEF CreateFails
<1>17. ASSUME NEW w \in Workers, Notify(w) PROVE BadMessagesLedgered'
  BY <1>17, <1>a, <1>b DEF Notify
<1>18. ASSUME NEW w \in Workers, NotifyFails(w) PROVE BadMessagesLedgered'
  BY <1>18, <1>a, <1>b, NextAttempt DEF NotifyFails
<1>19. ASSUME NEW w \in Workers, Release(w) PROVE BadMessagesLedgered'
  <2>1. Fail(w)
    BY <1>19 DEF Release
  <2>2. QED
    BY <2>1, Failing, <1>19, <1>a, <1>b DEF Release
<1>20. ASSUME NEW w \in Workers, ReleaseFails(w) PROVE BadMessagesLedgered'
  <2>1. Fail(w)
    BY <1>20 DEF ReleaseFails
  <2>2. QED
    BY <2>1, Failing, <1>20, <1>a, <1>b DEF ReleaseFails
<1>21. ASSUME NEW w \in Workers, RecordDeadLetter(w) PROVE BadMessagesLedgered'
  <2>1. Succeed(w)
    BY <1>21 DEF RecordDeadLetter
  <2>2. ev[w] \in Events
    BY <1>21, <1>a DEF RecordDeadLetter
  <2>3. Ledgered(ev[w])'
    BY <1>21, <1>a, <2>2, AppendKeeps DEF RecordDeadLetter, Ledgered
  <2>4. \A e \in acked' : e \in acked \/ e = ev[w]
    BY <1>a, <2>1, Succeeding
  <2>5. QED
    BY <1>21, <1>a, <1>b, <2>3, <2>4 DEF RecordDeadLetter
<1>22. ASSUME NEW w \in Workers, RecordFails(w) PROVE BadMessagesLedgered'
  BY <1>22, <1>a, <1>b DEF RecordFails
<1>23. ASSUME NEW w \in Workers, MarkReplayed(w) PROVE BadMessagesLedgered'
  BY <1>23, <1>a, <1>b DEF MarkReplayed
<1>24. ASSUME NEW w \in Workers, MarkFails(w) PROVE BadMessagesLedgered'
  BY <1>24, <1>a, <1>b DEF MarkFails
<1>25. ASSUME NEW w \in Workers, Crash(w) PROVE BadMessagesLedgered'
  BY <1>25, <1>a, <1>b DEF Crash
<1>26. ASSUME NEW w \in Workers, NEW q \in WindowRules, CountWindow(w, q) PROVE BadMessagesLedgered'
  BY <1>26, <1>a, <1>b DEF CountWindow
<1>27. ASSUME NEW w \in Workers, NEW q \in RuleIds, Acquire(w, q) PROVE BadMessagesLedgered'
  BY <1>27, <1>a, <1>b DEF Acquire
<1>28. ASSUME NEW w \in Workers, NEW q \in RuleIds, Suppress(w, q) PROVE BadMessagesLedgered'
  BY <1>28, <1>a, <1>b DEF Suppress
<1>29. ASSUME NEW f \in Events, DedupExpires(f) PROVE BadMessagesLedgered'
  BY <1>29, <1>a, <1>b DEF DedupExpires
<1>30. ASSUME NEW k \in Devices \X RuleIds, CooldownExpires(k) PROVE BadMessagesLedgered'
  BY <1>30, <1>a, <1>b DEF CooldownExpires
<1>31. CASE UNCHANGED vars
  BY <1>31, <1>a, <1>b DEF vars
<1>32. ASSUME NEW w \in Workers, DedupUnanswered(w) PROVE BadMessagesLedgered'
  <2>1. CASE Succeed(w)
    BY <2>1, Succeeding, <1>32, <1>a, <1>b DEF DedupUnanswered
  <2>2. CASE Fail(w) /\ UNCHANGED acked
    BY <2>2, Failing, <1>32, <1>a, <1>b DEF DedupUnanswered
  <2>3. QED
    BY <1>32, <2>1, <2>2 DEF DedupUnanswered
<1>33. ASSUME NEW w \in Workers, NEW q \in RuleIds, CooldownUnanswered(w, q) PROVE BadMessagesLedgered'
  BY <1>33, <1>a, <1>b DEF CooldownUnanswered
<1>34. ASSUME NEW w \in Workers, CreateUnanswered(w) PROVE BadMessagesLedgered'
  BY <1>34, <1>a, <1>b DEF CreateUnanswered
<1>35. QED
  BY <1>1, <1>2, <1>3, <1>4, <1>5, <1>6, <1>7, <1>8, <1>9, <1>10, <1>11, <1>12, <1>13, <1>14, <1>15, <1>16, <1>17, <1>18, <1>19, <1>20, <1>21, <1>22, <1>23, <1>24, <1>25, <1>26, <1>27, <1>28, <1>29, <1>30, <1>31,
     <1>32, <1>33, <1>34
  DEF Next, Step, HandleDeviceEvent

LEMMA JudgedHolds == ASSUME Typed, Judged, [Next]_vars PROVE Judged'
BY SortedHolds, BadMessagesHold DEF Judged

------------------------------------------------------------------------------
(* What is acknowledged. *)
\* A worker about to store an alarm stores it, finds it stored, or leaves a reason.
LEMMA CreatingEnds ==
  ASSUME Typed, [Next]_vars, NEW e \in Events, NEW r \in RuleIds, NEW c \in Workers,
         At(c, "create"), ev[c] = e, current[c] = r
  PROVE  \/ (At(c, "create") /\ ev[c] = e /\ current[c] = r)'
         \/ << e, r >> \in alarms'
         \/ excuse'[e] # {}
<1> DEFINE Gone == \/ (pc[c] = "create" /\ ev[c] = e /\ current[c] = r)'
                   \/ << e, r >> \in alarms'
                   \/ excuse'[e] # {}
<1>a. TypeOK /\ pc[c] = "create" /\ ev[c] = e /\ current[c] = r
      /\ excuse \in [Events -> SUBSET Causes] /\ pc \in [Workers -> Stages]
      /\ ev \in [Workers -> Events \cup {NoEvent}]
  BY DEF Typed, TypeOK, At
<1> USE AttemptsFollow DEF At, Goto, Blame, redis, mysql, local, ghosts, bounds, Evaluated, Admissible
<1>1. ASSUME NEW w \in Workers, NEW f \in Events, Deliver(w, f) PROVE Gone
  BY <1>1, <1>a DEF Deliver
<1>2. ASSUME NEW w \in Workers, NEW k \in DOMAIN dlq, Replay(w, k) PROVE Gone
  BY <1>2, <1>a DEF Replay
<1>3. ASSUME NEW w \in Workers, EvaluateRules(w) PROVE Gone
  BY <1>3, <1>a DEF EvaluateRules
<1>4. ASSUME NEW w \in Workers, RulesUnavailable(w) PROVE Gone
  BY <1>4, <1>a DEF RulesUnavailable
<1>5. ASSUME NEW w \in Workers, EvaluateFails(w) PROVE Gone
  <2>1. Fail(w)
    BY <1>5 DEF EvaluateFails
  <2>2. QED
    BY <2>1, Failing, <1>5, <1>a DEF EvaluateFails
<1>6. ASSUME NEW w \in Workers, CountFails(w) PROVE Gone
  <2>1. Fail(w)
    BY <1>6 DEF CountFails
  <2>2. QED
    BY <2>1, Failing, <1>6, <1>a DEF CountFails
<1>7. ASSUME NEW w \in Workers, Unmatched(w) PROVE Gone
  <2>1. Succeed(w)
    BY <1>7 DEF Unmatched
  <2>2. QED
    BY <2>1, Succeeding, <1>7, <1>a DEF Unmatched
<1>8. ASSUME NEW w \in Workers, RejectTenant(w) PROVE Gone
  BY <1>8, <1>a DEF RejectTenant
<1>9. ASSUME NEW w \in Workers, SeenBefore(w) PROVE Gone
  <2>1. Succeed(w)
    BY <1>9 DEF SeenBefore
  <2>2. QED
    BY <2>1, Succeeding, <1>9, <1>a DEF SeenBefore
<1>10. ASSUME NEW w \in Workers, Claim(w) PROVE Gone
  BY <1>10, <1>a DEF Claim
<1>11. ASSUME NEW w \in Workers, DedupFails(w) PROVE Gone
  <2>1. Fail(w)
    BY <1>11 DEF DedupFails
  <2>2. QED
    BY <2>1, Failing, <1>11, <1>a DEF DedupFails
<1>12. ASSUME NEW w \in Workers, CooldownFails(w) PROVE Gone
  BY <1>12, <1>a DEF CooldownFails
<1>13. ASSUME NEW w \in Workers, AllStored(w) PROVE Gone
  <2>1. Succeed(w)
    BY <1>13 DEF AllStored
  <2>2. QED
    BY <2>1, Succeeding, <1>13, <1>a DEF AllStored
<1>14. ASSUME NEW w \in Workers, Create(w) PROVE Gone
  BY <1>14, <1>a DEF Create
<1>15. ASSUME NEW w \in Workers, CreateDuplicate(w) PROVE Gone
  BY <1>15, <1>a DEF CreateDuplicate
<1>16. ASSUME NEW w \in Workers, CreateFails(w) PROVE Gone
  BY <1>16, <1>a DEF CreateFails
<1>17. ASSUME NEW w \in Workers, Notify(w) PROVE Gone
  BY <1>17, <1>a DEF Notify
<1>18. ASSUME NEW w \in Workers, NotifyFails(w) PROVE Gone
  BY <1>18, <1>a, NextAttempt DEF NotifyFails
<1>19. ASSUME NEW w \in Workers, Release(w) PROVE Gone
  <2>1. Fail(w)
    BY <1>19 DEF Release
  <2>2. QED
    BY <2>1, Failing, <1>19, <1>a DEF Release
<1>20. ASSUME NEW w \in Workers, ReleaseFails(w) PROVE Gone
  <2>1. Fail(w)
    BY <1>20 DEF ReleaseFails
  <2>2. QED
    BY <2>1, Failing, <1>20, <1>a DEF ReleaseFails
<1>21. ASSUME NEW w \in Workers, RecordDeadLetter(w) PROVE Gone
  <2>1. Succeed(w)
    BY <1>21 DEF RecordDeadLetter
  <2>2. QED
    BY <2>1, Succeeding, <1>21, <1>a DEF RecordDeadLetter
<1>22. ASSUME NEW w \in Workers, RecordFails(w) PROVE Gone
  BY <1>22, <1>a DEF RecordFails
<1>23. ASSUME NEW w \in Workers, MarkReplayed(w) PROVE Gone
  BY <1>23, <1>a DEF MarkReplayed
<1>24. ASSUME NEW w \in Workers, MarkFails(w) PROVE Gone
  BY <1>24, <1>a DEF MarkFails
<1>25. ASSUME NEW w \in Workers, Crash(w) PROVE Gone
  BY <1>25, <1>a DEF Crash
<1>26. ASSUME NEW w \in Workers, NEW q \in WindowRules, CountWindow(w, q) PROVE Gone
  BY <1>26, <1>a DEF CountWindow
<1>27. ASSUME NEW w \in Workers, NEW q \in RuleIds, Acquire(w, q) PROVE Gone
  BY <1>27, <1>a DEF Acquire
<1>28. ASSUME NEW w \in Workers, NEW q \in RuleIds, Suppress(w, q) PROVE Gone
  BY <1>28, <1>a DEF Suppress
<1>29. ASSUME NEW f \in Events, DedupExpires(f) PROVE Gone
  BY <1>29, <1>a DEF DedupExpires
<1>30. ASSUME NEW k \in Devices \X RuleIds, CooldownExpires(k) PROVE Gone
  BY <1>30, <1>a DEF CooldownExpires
<1>31. CASE UNCHANGED vars
  BY <1>31, <1>a DEF vars
<1>32. ASSUME NEW w \in Workers, DedupUnanswered(w) PROVE Gone
  <2>1. CASE Succeed(w)
    BY <2>1, Succeeding, <1>32, <1>a DEF DedupUnanswered
  <2>2. CASE Fail(w) /\ UNCHANGED acked
    BY <2>2, Failing, <1>32, <1>a DEF DedupUnanswered
  <2>3. QED
    BY <1>32, <2>1, <2>2 DEF DedupUnanswered
<1>33. ASSUME NEW w \in Workers, NEW q \in RuleIds, CooldownUnanswered(w, q) PROVE Gone
  BY <1>33, <1>a DEF CooldownUnanswered
<1>34. ASSUME NEW w \in Workers, CreateUnanswered(w) PROVE Gone
  BY <1>34, <1>a DEF CreateUnanswered
<1>35. QED
  BY <1>1, <1>2, <1>3, <1>4, <1>5, <1>6, <1>7, <1>8, <1>9, <1>10, <1>11, <1>12, <1>13, <1>14, <1>15, <1>16, <1>17, <1>18, <1>19, <1>20, <1>21, <1>22, <1>23, <1>24, <1>25, <1>26, <1>27, <1>28, <1>29, <1>30, <1>31,
     <1>32, <1>33, <1>34
  DEF Next, Step, HandleDeviceEvent

LEMMA SafeStays ==
  ASSUME Typed, [Next]_vars, NEW e \in Events, NEW r \in RuleIds, Safe(e, r)
  PROVE  Safe(e, r)'
<1>1. CASE << e, r >> \in alarms \/ excuse[e] # {}
  BY <1>1, ReasonsStay DEF Safe
<1>2. CASE Ledgered(e)
  BY <1>2, LedgeredStays DEF Safe
<1>3. CASE Creating(e, r)
  <2>1. PICK c \in Workers : At(c, "create") /\ ev[c] = e /\ current[c] = r
    BY <1>3 DEF Creating
  <2>2. \/ (At(c, "create") /\ ev[c] = e /\ current[c] = r)'
        \/ << e, r >> \in alarms'
        \/ excuse'[e] # {}
    BY <2>1, CreatingEnds
  <2>3. QED
    BY <2>2 DEF Safe, Creating
<1>4. QED
  BY <1>1, <1>2, <1>3 DEF Safe

LEMMA DraftedHolds ==
  ASSUME Typed, Handled, [Next]_vars, NEW v \in Workers, NEW e \in Events,
         NEW r \in RuleIds, r \in Due(e)
  PROVE  Drafted(v, e, r)'
<1> DEFINE Good == pc'[v] \in Judging /\ ev'[v] = e => r \in drafts'[v] \/ Safe(e, r)'
<1>a. /\ pc[v] \in Judging /\ ev[v] = e => r \in drafts[v] \/ Safe(e, r)
      /\ cooling[<< Device[e], r >>] = e => Safe(e, r)
      /\ pc \in [Workers -> Stages] /\ ev \in [Workers -> Events \cup {NoEvent}]
      /\ drafts \in [Workers -> SUBSET RuleIds] /\ current \in [Workers -> RuleIds \cup {NoRule}]
      /\ excuse \in [Events -> SUBSET Causes] /\ TypeOK
      /\ r \in Matches[e] \ WindowRules
  BY DEF Typed, TypeOK, Handled, Drafted, CoolingEarned, Due
<1>b. Safe(e, r) => Safe(e, r)'
  BY SafeStays
<1>c. excuse'[e] # {} \/ Creating(e, r)' => Safe(e, r)'
  BY DEF Safe
<1> USE AttemptsFollow DEF Judging, At, Goto, Blame, CoolKey, redis, mysql, local, ghosts, bounds, Evaluated,
            Admissible
<1>1. ASSUME NEW w \in Workers, NEW f \in Events, Deliver(w, f) PROVE Good
  BY <1>1, <1>a, <1>b, <1>c DEF Deliver
<1>2. ASSUME NEW w \in Workers, NEW k \in DOMAIN dlq, Replay(w, k) PROVE Good
  BY <1>2, <1>a, <1>b, <1>c DEF Replay
<1>3. ASSUME NEW w \in Workers, EvaluateRules(w) PROVE Good
  BY <1>3, <1>a, <1>b, <1>c DEF EvaluateRules
<1>4. ASSUME NEW w \in Workers, RulesUnavailable(w) PROVE Good
  BY <1>4, <1>a, <1>b, <1>c DEF RulesUnavailable
<1>5. ASSUME NEW w \in Workers, EvaluateFails(w) PROVE Good
  <2>1. Fail(w)
    BY <1>5 DEF EvaluateFails
  <2>2. QED
    BY <2>1, Failing, <1>5, <1>a, <1>b, <1>c DEF EvaluateFails
<1>6. ASSUME NEW w \in Workers, CountFails(w) PROVE Good
  <2>1. Fail(w)
    BY <1>6 DEF CountFails
  <2>2. QED
    BY <2>1, Failing, <1>6, <1>a, <1>b, <1>c DEF CountFails
<1>7. ASSUME NEW w \in Workers, Unmatched(w) PROVE Good
  <2>1. Succeed(w)
    BY <1>7 DEF Unmatched
  <2>2. QED
    BY <2>1, Succeeding, <1>7, <1>a, <1>b, <1>c DEF Unmatched
<1>8. ASSUME NEW w \in Workers, RejectTenant(w) PROVE Good
  BY <1>8, <1>a, <1>b, <1>c DEF RejectTenant
<1>9. ASSUME NEW w \in Workers, SeenBefore(w) PROVE Good
  <2>1. Succeed(w)
    BY <1>9 DEF SeenBefore
  <2>2. QED
    BY <2>1, Succeeding, <1>9, <1>a, <1>b, <1>c DEF SeenBefore
<1>10. ASSUME NEW w \in Workers, Claim(w) PROVE Good
  BY <1>10, <1>a, <1>b, <1>c DEF Claim
<1>11. ASSUME NEW w \in Workers, DedupFails(w) PROVE Good
  <2>1. Fail(w)
    BY <1>11 DEF DedupFails
  <2>2. QED
    BY <2>1, Failing, <1>11, <1>a, <1>b, <1>c DEF DedupFails
<1>12. ASSUME NEW w \in Workers, CooldownFails(w) PROVE Good
  BY <1>12, <1>a, <1>b, <1>c DEF CooldownFails
<1>13. ASSUME NEW w \in Workers, AllStored(w) PROVE Good
  <2>1. Succeed(w)
    BY <1>13 DEF AllStored
  <2>2. QED
    BY <2>1, Succeeding, <1>13, <1>a, <1>b, <1>c DEF AllStored
<1>14. ASSUME NEW w \in Workers, Create(w) PROVE Good
  BY <1>14, <1>a, <1>b, <1>c DEF Create
<1>15. ASSUME NEW w \in Workers, CreateDuplicate(w) PROVE Good
  BY <1>15, <1>a, <1>b, <1>c DEF CreateDuplicate
<1>16. ASSUME NEW w \in Workers, CreateFails(w) PROVE Good
  BY <1>16, <1>a, <1>b, <1>c DEF CreateFails
<1>17. ASSUME NEW w \in Workers, Notify(w) PROVE Good
  BY <1>17, <1>a, <1>b, <1>c DEF Notify
<1>18. ASSUME NEW w \in Workers, NotifyFails(w) PROVE Good
  BY <1>18, <1>a, <1>b, <1>c, NextAttempt DEF NotifyFails
<1>19. ASSUME NEW w \in Workers, Release(w) PROVE Good
  <2>1. Fail(w)
    BY <1>19 DEF Release
  <2>2. QED
    BY <2>1, Failing, <1>19, <1>a, <1>b, <1>c DEF Release
<1>20. ASSUME NEW w \in Workers, ReleaseFails(w) PROVE Good
  <2>1. Fail(w)
    BY <1>20 DEF ReleaseFails
  <2>2. QED
    BY <2>1, Failing, <1>20, <1>a, <1>b, <1>c DEF ReleaseFails
<1>21. ASSUME NEW w \in Workers, RecordDeadLetter(w) PROVE Good
  <2>1. Succeed(w)
    BY <1>21 DEF RecordDeadLetter
  <2>2. QED
    BY <2>1, Succeeding, <1>21, <1>a, <1>b, <1>c DEF RecordDeadLetter
<1>22. ASSUME NEW w \in Workers, RecordFails(w) PROVE Good
  BY <1>22, <1>a, <1>b, <1>c DEF RecordFails
<1>23. ASSUME NEW w \in Workers, MarkReplayed(w) PROVE Good
  BY <1>23, <1>a, <1>b, <1>c DEF MarkReplayed
<1>24. ASSUME NEW w \in Workers, MarkFails(w) PROVE Good
  BY <1>24, <1>a, <1>b, <1>c DEF MarkFails
<1>25. ASSUME NEW w \in Workers, Crash(w) PROVE Good
  BY <1>25, <1>a, <1>b, <1>c DEF Crash
<1>26. ASSUME NEW w \in Workers, NEW q \in WindowRules, CountWindow(w, q) PROVE Good
  BY <1>26, <1>a, <1>b, <1>c DEF CountWindow
<1>27. ASSUME NEW w \in Workers, NEW q \in RuleIds, Acquire(w, q) PROVE Good
  <2>1. CASE w = v /\ q = r /\ ev[w] = e
    <3>1. pc'[w] = "create" /\ ev'[w] = e /\ current'[w] = r
      BY <1>27, <2>1, <1>a DEF Acquire
    <3>2. Creating(e, r)'
      BY <3>1 DEF Creating
    <3>3. QED
      BY <3>2, <1>c
  <2>2. CASE ~ (w = v /\ q = r /\ ev[w] = e)
    BY <1>27, <2>2, <1>a, <1>b DEF Acquire
  <2>3. QED
    BY <2>1, <2>2
<1>28. ASSUME NEW w \in Workers, NEW q \in RuleIds, Suppress(w, q) PROVE Good
  BY <1>28, <1>a, <1>b, <1>c DEF Suppress
<1>29. ASSUME NEW f \in Events, DedupExpires(f) PROVE Good
  BY <1>29, <1>a, <1>b, <1>c DEF DedupExpires
<1>30. ASSUME NEW k \in Devices \X RuleIds, CooldownExpires(k) PROVE Good
  BY <1>30, <1>a, <1>b, <1>c DEF CooldownExpires
<1>31. CASE UNCHANGED vars
  <2>1. pc'[v] = pc[v] /\ ev'[v] = ev[v] /\ drafts'[v] = drafts[v]
    BY <1>31 DEF vars
  <2>2. QED
    BY <2>1, <1>a, <1>b DEF Drafted
<1>32. ASSUME NEW w \in Workers, DedupUnanswered(w) PROVE Good
  <2>1. CASE Succeed(w)
    BY <2>1, Succeeding, <1>32, <1>a, <1>b, <1>c DEF DedupUnanswered
  <2>2. CASE Fail(w) /\ UNCHANGED acked
    BY <2>2, Failing, <1>32, <1>a, <1>b, <1>c DEF DedupUnanswered
  <2>3. QED
    BY <1>32, <2>1, <2>2 DEF DedupUnanswered
<1>33. ASSUME NEW w \in Workers, NEW q \in RuleIds, CooldownUnanswered(w, q) PROVE Good
  BY <1>33, <1>a, <1>b, <1>c DEF CooldownUnanswered
<1>34. ASSUME NEW w \in Workers, CreateUnanswered(w) PROVE Good
  BY <1>34, <1>a, <1>b, <1>c DEF CreateUnanswered
<1>35. QED
  BY <1>1, <1>2, <1>3, <1>4, <1>5, <1>6, <1>7, <1>8, <1>9, <1>10, <1>11, <1>12, <1>13, <1>14, <1>15, <1>16, <1>17, <1>18, <1>19, <1>20, <1>21, <1>22, <1>23, <1>24, <1>25, <1>26, <1>27, <1>28, <1>29, <1>30, <1>31,
     <1>32, <1>33, <1>34
  DEF Next, Step, HandleDeviceEvent, Drafted

LEMMA CoolingHolds ==
  ASSUME Typed, Handled, [Next]_vars, NEW e \in Events, NEW r \in RuleIds
  PROVE  CoolingEarned(e, r)'
<1> DEFINE Good == cooling'[<< Device[e], r >>] = e => Safe(e, r)'
<1>a. /\ cooling[<< Device[e], r >>] = e => Safe(e, r)
      /\ cooling \in [Devices \X RuleIds -> Events \cup {NoEvent}]
      /\ << Device[e], r >> \in Devices \X RuleIds /\ TypeOK
      /\ pc \in [Workers -> Stages] /\ ev \in [Workers -> Events \cup {NoEvent}]
      /\ current \in [Workers -> RuleIds \cup {NoRule}] /\ NoEvent \notin Events
      /\ excuse \in [Events -> SUBSET Causes]
  BY AlarmIngestAssumption DEF Typed, TypeOK, Handled, CoolingEarned, Devices
<1>b. Safe(e, r) => Safe(e, r)'
  BY SafeStays
<1>c. Creating(e, r)' => Safe(e, r)'
  BY DEF Safe
<1> USE AttemptsFollow DEF At, Goto, Blame, CoolKey, redis, mysql, local, ghosts, bounds, Evaluated, Admissible
<1>1. ASSUME NEW w \in Workers, NEW f \in Events, Deliver(w, f) PROVE Good
  BY <1>1, <1>a, <1>b DEF Deliver
<1>2. ASSUME NEW w \in Workers, NEW k \in DOMAIN dlq, Replay(w, k) PROVE Good
  BY <1>2, <1>a, <1>b DEF Replay
<1>3. ASSUME NEW w \in Workers, EvaluateRules(w) PROVE Good
  BY <1>3, <1>a, <1>b DEF EvaluateRules
<1>4. ASSUME NEW w \in Workers, RulesUnavailable(w) PROVE Good
  BY <1>4, <1>a, <1>b DEF RulesUnavailable
<1>5. ASSUME NEW w \in Workers, EvaluateFails(w) PROVE Good
  BY <1>5, <1>a, <1>b DEF EvaluateFails
<1>6. ASSUME NEW w \in Workers, CountFails(w) PROVE Good
  BY <1>6, <1>a, <1>b DEF CountFails
<1>7. ASSUME NEW w \in Workers, Unmatched(w) PROVE Good
  BY <1>7, <1>a, <1>b DEF Unmatched
<1>8. ASSUME NEW w \in Workers, RejectTenant(w) PROVE Good
  BY <1>8, <1>a, <1>b DEF RejectTenant
<1>9. ASSUME NEW w \in Workers, SeenBefore(w) PROVE Good
  BY <1>9, <1>a, <1>b DEF SeenBefore
<1>10. ASSUME NEW w \in Workers, Claim(w) PROVE Good
  BY <1>10, <1>a, <1>b DEF Claim
<1>11. ASSUME NEW w \in Workers, DedupFails(w) PROVE Good
  BY <1>11, <1>a, <1>b DEF DedupFails
<1>12. ASSUME NEW w \in Workers, CooldownFails(w) PROVE Good
  BY <1>12, <1>a, <1>b DEF CooldownFails
<1>13. ASSUME NEW w \in Workers, AllStored(w) PROVE Good
  BY <1>13, <1>a, <1>b DEF AllStored
<1>14. ASSUME NEW w \in Workers, Create(w) PROVE Good
  BY <1>14, <1>a, <1>b DEF Create
<1>15. ASSUME NEW w \in Workers, CreateDuplicate(w) PROVE Good
  BY <1>15, <1>a, <1>b DEF CreateDuplicate
<1>16. ASSUME NEW w \in Workers, CreateFails(w) PROVE Good
  BY <1>16, <1>a, <1>b DEF CreateFails
<1>17. ASSUME NEW w \in Workers, Notify(w) PROVE Good
  BY <1>17, <1>a, <1>b DEF Notify
<1>18. ASSUME NEW w \in Workers, NotifyFails(w) PROVE Good
  BY <1>18, <1>a, <1>b, NextAttempt DEF NotifyFails
<1>19. ASSUME NEW w \in Workers, Release(w) PROVE Good
  BY <1>19, <1>a, <1>b DEF Release
<1>20. ASSUME NEW w \in Workers, ReleaseFails(w) PROVE Good
  BY <1>20, <1>a, <1>b DEF ReleaseFails
<1>21. ASSUME NEW w \in Workers, RecordDeadLetter(w) PROVE Good
  BY <1>21, <1>a, <1>b DEF RecordDeadLetter
<1>22. ASSUME NEW w \in Workers, RecordFails(w) PROVE Good
  BY <1>22, <1>a, <1>b DEF RecordFails
<1>23. ASSUME NEW w \in Workers, MarkReplayed(w) PROVE Good
  BY <1>23, <1>a, <1>b DEF MarkReplayed
<1>24. ASSUME NEW w \in Workers, MarkFails(w) PROVE Good
  BY <1>24, <1>a, <1>b DEF MarkFails
<1>25. ASSUME NEW w \in Workers, Crash(w) PROVE Good
  BY <1>25, <1>a, <1>b DEF Crash
<1>26. ASSUME NEW w \in Workers, NEW q \in WindowRules, CountWindow(w, q) PROVE Good
  BY <1>26, <1>a, <1>b DEF CountWindow
<1>27. ASSUME NEW w \in Workers, NEW q \in RuleIds, Acquire(w, q) PROVE Good
  <2>1. CASE q = r /\ ev[w] = e
    <3>1. pc'[w] = "create" /\ ev'[w] = e /\ current'[w] = r
      BY <1>27, <2>1, <1>a DEF Acquire
    <3>2. Creating(e, r)'
      BY <3>1 DEF Creating
    <3>3. QED
      BY <3>2, <1>c
  <2>2. CASE ~ (q = r /\ ev[w] = e)
    BY <1>27, <2>2, <1>a, <1>b DEF Acquire
  <2>3. QED
    BY <2>1, <2>2
<1>28. ASSUME NEW w \in Workers, NEW q \in RuleIds, Suppress(w, q) PROVE Good
  BY <1>28, <1>a, <1>b DEF Suppress
<1>29. ASSUME NEW f \in Events, DedupExpires(f) PROVE Good
  BY <1>29, <1>a, <1>b DEF DedupExpires
<1>30. ASSUME NEW k \in Devices \X RuleIds, CooldownExpires(k) PROVE Good
  BY <1>30, <1>a, <1>b DEF CooldownExpires
<1>31. CASE UNCHANGED vars
  BY <1>31, <1>a, <1>b DEF vars, CoolingEarned
<1>32. ASSUME NEW w \in Workers, DedupUnanswered(w) PROVE Good
  <2>1. CASE Succeed(w)
    BY <2>1, Succeeding, <1>32, <1>a, <1>b DEF DedupUnanswered
  <2>2. CASE Fail(w) /\ UNCHANGED acked
    BY <2>2, Failing, <1>32, <1>a, <1>b DEF DedupUnanswered
  <2>3. QED
    BY <1>32, <2>1, <2>2 DEF DedupUnanswered
<1>33. ASSUME NEW w \in Workers, NEW q \in RuleIds, CooldownUnanswered(w, q) PROVE Good
  <2>1. CASE q = r /\ ev[w] = e
    <3>1. excuse'[e] # {}
      BY <1>33, <2>1, <1>a DEF CooldownUnanswered
    <3>2. QED
      BY <3>1 DEF Safe
  <2>2. CASE ~ (q = r /\ ev[w] = e)
    BY <1>33, <2>2, <1>a, <1>b DEF CooldownUnanswered
  <2>3. QED
    BY <2>1, <2>2
<1>34. ASSUME NEW w \in Workers, CreateUnanswered(w) PROVE Good
  BY <1>34, <1>a, <1>b DEF CreateUnanswered
<1>35. QED
  BY <1>1, <1>2, <1>3, <1>4, <1>5, <1>6, <1>7, <1>8, <1>9, <1>10, <1>11, <1>12, <1>13, <1>14, <1>15, <1>16, <1>17, <1>18, <1>19, <1>20, <1>21, <1>22, <1>23, <1>24, <1>25, <1>26, <1>27, <1>28, <1>29, <1>30, <1>31,
     <1>32, <1>33, <1>34
  DEF Next, Step, HandleDeviceEvent, CoolingEarned

\* Whoever holds the L1 key of e stores its alarms, gives the key back, or leaves a reason.
LEMMA ClaimEnds ==
  ASSUME Typed, Handled, [Next]_vars, NEW e \in Events, NEW r \in RuleIds, r \in Due(e),
         NEW c \in Workers, ev[c] = e, pc[c] \in Claiming
  PROVE  Claimed(e)' \/ e \notin dedup' \/ Safe(e, r)'
<1> DEFINE Good == (ev'[c] = e /\ pc'[c] \in Claiming) \/ e \notin dedup' \/ Safe(e, r)'
<1>a. /\ pc[c] \in Judging => r \in drafts[c] \/ Safe(e, r)
      /\ excuse \in [Events -> SUBSET Causes] /\ TypeOK /\ ev[c] = e /\ pc[c] \in Claiming
      /\ pc \in [Workers -> Stages] /\ ev \in [Workers -> Events \cup {NoEvent}]
  BY DEF Typed, TypeOK, Handled, Drafted
<1>b. Safe(e, r) => Safe(e, r)'
  BY SafeStays
<1>c. excuse'[e] # {} => Safe(e, r)'
  BY DEF Safe
<1> USE AttemptsFollow DEF Claiming, Judging
<1> USE DEF At, Goto, Blame, CoolKey, redis, mysql, local, ghosts, bounds, Evaluated, Admissible
<1>1. ASSUME NEW w \in Workers, NEW f \in Events, Deliver(w, f) PROVE Good
  BY <1>1, <1>a, <1>b, <1>c DEF Deliver
<1>2. ASSUME NEW w \in Workers, NEW k \in DOMAIN dlq, Replay(w, k) PROVE Good
  BY <1>2, <1>a, <1>b, <1>c DEF Replay
<1>3. ASSUME NEW w \in Workers, EvaluateRules(w) PROVE Good
  BY <1>3, <1>a, <1>b, <1>c DEF EvaluateRules
<1>4. ASSUME NEW w \in Workers, RulesUnavailable(w) PROVE Good
  BY <1>4, <1>a, <1>b, <1>c DEF RulesUnavailable
<1>5. ASSUME NEW w \in Workers, EvaluateFails(w) PROVE Good
  <2>1. Fail(w)
    BY <1>5 DEF EvaluateFails
  <2>2. QED
    BY <2>1, Failing, <1>5, <1>a, <1>b, <1>c DEF EvaluateFails
<1>6. ASSUME NEW w \in Workers, CountFails(w) PROVE Good
  <2>1. Fail(w)
    BY <1>6 DEF CountFails
  <2>2. QED
    BY <2>1, Failing, <1>6, <1>a, <1>b, <1>c DEF CountFails
<1>7. ASSUME NEW w \in Workers, Unmatched(w) PROVE Good
  <2>1. Succeed(w)
    BY <1>7 DEF Unmatched
  <2>2. QED
    BY <2>1, Succeeding, <1>7, <1>a, <1>b, <1>c DEF Unmatched
<1>8. ASSUME NEW w \in Workers, RejectTenant(w) PROVE Good
  BY <1>8, <1>a, <1>b, <1>c DEF RejectTenant
<1>9. ASSUME NEW w \in Workers, SeenBefore(w) PROVE Good
  <2>1. Succeed(w)
    BY <1>9 DEF SeenBefore
  <2>2. QED
    BY <2>1, Succeeding, <1>9, <1>a, <1>b, <1>c DEF SeenBefore
<1>10. ASSUME NEW w \in Workers, Claim(w) PROVE Good
  BY <1>10, <1>a, <1>b, <1>c DEF Claim
<1>11. ASSUME NEW w \in Workers, DedupFails(w) PROVE Good
  <2>1. Fail(w)
    BY <1>11 DEF DedupFails
  <2>2. QED
    BY <2>1, Failing, <1>11, <1>a, <1>b, <1>c DEF DedupFails
<1>12. ASSUME NEW w \in Workers, CooldownFails(w) PROVE Good
  BY <1>12, <1>a, <1>b, <1>c DEF CooldownFails
<1>13. ASSUME NEW w \in Workers, AllStored(w) PROVE Good
  <2>1. Succeed(w)
    BY <1>13 DEF AllStored
  <2>2. QED
    BY <2>1, Succeeding, <1>13, <1>a, <1>b, <1>c DEF AllStored
<1>14. ASSUME NEW w \in Workers, Create(w) PROVE Good
  BY <1>14, <1>a, <1>b, <1>c DEF Create
<1>15. ASSUME NEW w \in Workers, CreateDuplicate(w) PROVE Good
  BY <1>15, <1>a, <1>b, <1>c DEF CreateDuplicate
<1>16. ASSUME NEW w \in Workers, CreateFails(w) PROVE Good
  BY <1>16, <1>a, <1>b, <1>c DEF CreateFails
<1>17. ASSUME NEW w \in Workers, Notify(w) PROVE Good
  BY <1>17, <1>a, <1>b, <1>c DEF Notify
<1>18. ASSUME NEW w \in Workers, NotifyFails(w) PROVE Good
  BY <1>18, <1>a, <1>b, <1>c, NextAttempt DEF NotifyFails
<1>19. ASSUME NEW w \in Workers, Release(w) PROVE Good
  <2>1. Fail(w)
    BY <1>19 DEF Release
  <2>2. QED
    BY <2>1, Failing, <1>19, <1>a, <1>b, <1>c DEF Release
<1>20. ASSUME NEW w \in Workers, ReleaseFails(w) PROVE Good
  <2>1. Fail(w)
    BY <1>20 DEF ReleaseFails
  <2>2. QED
    BY <2>1, Failing, <1>20, <1>a, <1>b, <1>c DEF ReleaseFails
<1>21. ASSUME NEW w \in Workers, RecordDeadLetter(w) PROVE Good
  <2>1. Succeed(w)
    BY <1>21 DEF RecordDeadLetter
  <2>2. QED
    BY <2>1, Succeeding, <1>21, <1>a, <1>b, <1>c DEF RecordDeadLetter
<1>22. ASSUME NEW w \in Workers, RecordFails(w) PROVE Good
  BY <1>22, <1>a, <1>b, <1>c DEF RecordFails
<1>23. ASSUME NEW w \in Workers, MarkReplayed(w) PROVE Good
  BY <1>23, <1>a, <1>b, <1>c DEF MarkReplayed
<1>24. ASSUME NEW w \in Workers, MarkFails(w) PROVE Good
  BY <1>24, <1>a, <1>b, <1>c DEF MarkFails
<1>25. ASSUME NEW w \in Workers, Crash(w) PROVE Good
  BY <1>25, <1>a, <1>b, <1>c DEF Crash
<1>26. ASSUME NEW w \in Workers, NEW q \in WindowRules, CountWindow(w, q) PROVE Good
  BY <1>26, <1>a, <1>b, <1>c DEF CountWindow
<1>27. ASSUME NEW w \in Workers, NEW q \in RuleIds, Acquire(w, q) PROVE Good
  BY <1>27, <1>a, <1>b, <1>c DEF Acquire
<1>28. ASSUME NEW w \in Workers, NEW q \in RuleIds, Suppress(w, q) PROVE Good
  BY <1>28, <1>a, <1>b, <1>c DEF Suppress
<1>29. ASSUME NEW f \in Events, DedupExpires(f) PROVE Good
  BY <1>29, <1>a, <1>b, <1>c DEF DedupExpires
<1>30. ASSUME NEW k \in Devices \X RuleIds, CooldownExpires(k) PROVE Good
  BY <1>30, <1>a, <1>b, <1>c DEF CooldownExpires
<1>31. CASE UNCHANGED vars
  BY <1>31, <1>a DEF vars, Claimed
<1>32. ASSUME NEW w \in Workers, DedupUnanswered(w) PROVE Good
  <2>1. CASE Succeed(w)
    BY <2>1, Succeeding, <1>32, <1>a, <1>b, <1>c DEF DedupUnanswered
  <2>2. CASE Fail(w) /\ UNCHANGED acked
    BY <2>2, Failing, <1>32, <1>a, <1>b, <1>c DEF DedupUnanswered
  <2>3. QED
    BY <1>32, <2>1, <2>2 DEF DedupUnanswered
<1>33. ASSUME NEW w \in Workers, NEW q \in RuleIds, CooldownUnanswered(w, q) PROVE Good
  BY <1>33, <1>a, <1>b, <1>c DEF CooldownUnanswered
<1>34. ASSUME NEW w \in Workers, CreateUnanswered(w) PROVE Good
  BY <1>34, <1>a, <1>b, <1>c DEF CreateUnanswered
<1>35. QED
  BY <1>1, <1>2, <1>3, <1>4, <1>5, <1>6, <1>7, <1>8, <1>9, <1>10, <1>11, <1>12, <1>13, <1>14, <1>15, <1>16, <1>17, <1>18, <1>19, <1>20, <1>21, <1>22, <1>23, <1>24, <1>25, <1>26, <1>27, <1>28, <1>29, <1>30, <1>31,
     <1>32, <1>33, <1>34
  DEF Next, Step, HandleDeviceEvent, Claimed

LEMMA KeyTaken ==
  ASSUME Typed, [Next]_vars, NEW e \in Events, e \in dedup', e \notin dedup
  PROVE  Claimed(e)' \/ excuse'[e] # {}
<1>a. e \in dedup' /\ e \notin dedup /\ ev \in [Workers -> Events \cup {NoEvent}]
      /\ pc \in [Workers -> Stages] /\ excuse \in [Events -> SUBSET Causes]
  BY DEF Typed, TypeOK
<1> DEFINE Good == (\E c \in Workers : ev'[c] = e /\ pc'[c] \in Claiming) \/ excuse'[e] # {}
<1> USE AttemptsFollow DEF Claiming
<1> USE DEF At, Goto, Blame, CoolKey, redis, mysql, local, ghosts, bounds, Evaluated, Admissible
<1>1. ASSUME NEW w \in Workers, NEW f \in Events, Deliver(w, f) PROVE Good
  BY <1>1, <1>a DEF Deliver
<1>2. ASSUME NEW w \in Workers, NEW k \in DOMAIN dlq, Replay(w, k) PROVE Good
  BY <1>2, <1>a DEF Replay
<1>3. ASSUME NEW w \in Workers, EvaluateRules(w) PROVE Good
  BY <1>3, <1>a DEF EvaluateRules
<1>4. ASSUME NEW w \in Workers, RulesUnavailable(w) PROVE Good
  BY <1>4, <1>a DEF RulesUnavailable
<1>5. ASSUME NEW w \in Workers, EvaluateFails(w) PROVE Good
  BY <1>5, <1>a DEF EvaluateFails
<1>6. ASSUME NEW w \in Workers, CountFails(w) PROVE Good
  BY <1>6, <1>a DEF CountFails
<1>7. ASSUME NEW w \in Workers, Unmatched(w) PROVE Good
  BY <1>7, <1>a DEF Unmatched
<1>8. ASSUME NEW w \in Workers, RejectTenant(w) PROVE Good
  BY <1>8, <1>a DEF RejectTenant
<1>9. ASSUME NEW w \in Workers, SeenBefore(w) PROVE Good
  BY <1>9, <1>a DEF SeenBefore
<1>10. ASSUME NEW w \in Workers, Claim(w) PROVE Good
  BY <1>10, <1>a DEF Claim
<1>11. ASSUME NEW w \in Workers, DedupFails(w) PROVE Good
  BY <1>11, <1>a DEF DedupFails
<1>12. ASSUME NEW w \in Workers, CooldownFails(w) PROVE Good
  BY <1>12, <1>a DEF CooldownFails
<1>13. ASSUME NEW w \in Workers, AllStored(w) PROVE Good
  BY <1>13, <1>a DEF AllStored
<1>14. ASSUME NEW w \in Workers, Create(w) PROVE Good
  BY <1>14, <1>a DEF Create
<1>15. ASSUME NEW w \in Workers, CreateDuplicate(w) PROVE Good
  BY <1>15, <1>a DEF CreateDuplicate
<1>16. ASSUME NEW w \in Workers, CreateFails(w) PROVE Good
  BY <1>16, <1>a DEF CreateFails
<1>17. ASSUME NEW w \in Workers, Notify(w) PROVE Good
  BY <1>17, <1>a DEF Notify
<1>18. ASSUME NEW w \in Workers, NotifyFails(w) PROVE Good
  BY <1>18, <1>a, NextAttempt DEF NotifyFails
<1>19. ASSUME NEW w \in Workers, Release(w) PROVE Good
  BY <1>19, <1>a DEF Release
<1>20. ASSUME NEW w \in Workers, ReleaseFails(w) PROVE Good
  BY <1>20, <1>a DEF ReleaseFails
<1>21. ASSUME NEW w \in Workers, RecordDeadLetter(w) PROVE Good
  BY <1>21, <1>a DEF RecordDeadLetter
<1>22. ASSUME NEW w \in Workers, RecordFails(w) PROVE Good
  BY <1>22, <1>a DEF RecordFails
<1>23. ASSUME NEW w \in Workers, MarkReplayed(w) PROVE Good
  BY <1>23, <1>a DEF MarkReplayed
<1>24. ASSUME NEW w \in Workers, MarkFails(w) PROVE Good
  BY <1>24, <1>a DEF MarkFails
<1>25. ASSUME NEW w \in Workers, Crash(w) PROVE Good
  BY <1>25, <1>a DEF Crash
<1>26. ASSUME NEW w \in Workers, NEW q \in WindowRules, CountWindow(w, q) PROVE Good
  BY <1>26, <1>a DEF CountWindow
<1>27. ASSUME NEW w \in Workers, NEW q \in RuleIds, Acquire(w, q) PROVE Good
  BY <1>27, <1>a DEF Acquire
<1>28. ASSUME NEW w \in Workers, NEW q \in RuleIds, Suppress(w, q) PROVE Good
  BY <1>28, <1>a DEF Suppress
<1>29. ASSUME NEW f \in Events, DedupExpires(f) PROVE Good
  BY <1>29, <1>a DEF DedupExpires
<1>30. ASSUME NEW k \in Devices \X RuleIds, CooldownExpires(k) PROVE Good
  BY <1>30, <1>a DEF CooldownExpires
<1>31. CASE UNCHANGED vars
  BY <1>31, <1>a DEF vars
<1>32. ASSUME NEW w \in Workers, DedupUnanswered(w) PROVE Good
  BY <1>32, <1>a DEF DedupUnanswered
<1>33. ASSUME NEW w \in Workers, NEW q \in RuleIds, CooldownUnanswered(w, q) PROVE Good
  BY <1>33, <1>a DEF CooldownUnanswered
<1>34. ASSUME NEW w \in Workers, CreateUnanswered(w) PROVE Good
  BY <1>34, <1>a DEF CreateUnanswered
<1>35. QED
  BY <1>1, <1>2, <1>3, <1>4, <1>5, <1>6, <1>7, <1>8, <1>9, <1>10, <1>11, <1>12, <1>13, <1>14, <1>15, <1>16, <1>17, <1>18, <1>19, <1>20, <1>21, <1>22, <1>23, <1>24, <1>25, <1>26, <1>27, <1>28, <1>29, <1>30, <1>31,
     <1>32, <1>33, <1>34
  DEF Next, Step, HandleDeviceEvent, Claimed

LEMMA KeyHolds ==
  ASSUME Typed, Handled, [Next]_vars, NEW e \in Events, NEW r \in RuleIds, r \in Due(e)
  PROVE  KeyEarned(e, r)'
<1>1. CASE e \notin dedup
  BY <1>1, KeyTaken DEF KeyEarned, Safe
<1>2. CASE Safe(e, r)
  BY <1>2, SafeStays DEF KeyEarned
<1>3. CASE Claimed(e)
  <2>1. PICK c \in Workers : ev[c] = e /\ pc[c] \in Claiming
    BY <1>3 DEF Claimed
  <2>2. QED
    BY <2>1, ClaimEnds DEF KeyEarned
<1>4. QED
  BY <1>1, <1>2, <1>3 DEF Handled, KeyEarned

\* A call that handles e ends with e safe, or leaves it to another call.
LEMMA CallEnds ==
  ASSUME Typed, Handled, [Next]_vars, NEW e \in Events, NEW r \in RuleIds, r \in Due(e),
         NEW c \in Workers, ev[c] = e, ~ At(c, "idle")
  PROVE  InFlight(e)' \/ Safe(e, r)'
<1> DEFINE Good == (ev'[c] = e /\ pc'[c] # "idle") \/ Claimed(e)' \/ Safe(e, r)'
<1>a. /\ pc[c] \in Judging => r \in drafts[c] \/ Safe(e, r)
      /\ e \in dedup => Claimed(e) \/ Safe(e, r)
      /\ excuse \in [Events -> SUBSET Causes] /\ TypeOK /\ ev[c] = e /\ pc[c] # "idle"
      /\ entry[c] # 0 => Ledgered(e)
      /\ pc \in [Workers -> Stages] /\ ev \in [Workers -> Events \cup {NoEvent}]
  <2>1. entry[c] # 0 => entry[c] \in DOMAIN dlq /\ dlq[entry[c]].event = e
    BY DEF Typed, TypeOK, InHand
  <2>2. QED
    BY <2>1 DEF Typed, TypeOK, Handled, Drafted, KeyEarned, Ledgered, At
<1>b. /\ Safe(e, r) => Safe(e, r)'
      /\ Ledgered(e) => Safe(e, r)'
  BY SafeStays, LedgeredStays DEF Safe
<1>c. excuse'[e] # {} => Safe(e, r)'
  BY DEF Safe
<1>d. pc[c] = "mark" => Ledgered(e)
  BY <1>a DEF Typed, InHand, At
<1> USE AttemptsFollow DEF Judging
<1> USE DEF At, Goto, Blame, CoolKey, redis, mysql, local, ghosts, bounds, Evaluated, Admissible
<1>1. ASSUME NEW w \in Workers, NEW f \in Events, Deliver(w, f) PROVE Good
  BY <1>1, <1>a, <1>b, <1>c, <1>d DEF Deliver
<1>2. ASSUME NEW w \in Workers, NEW k \in DOMAIN dlq, Replay(w, k) PROVE Good
  BY <1>2, <1>a, <1>b, <1>c, <1>d DEF Replay
<1>3. ASSUME NEW w \in Workers, EvaluateRules(w) PROVE Good
  BY <1>3, <1>a, <1>b, <1>c, <1>d DEF EvaluateRules
<1>4. ASSUME NEW w \in Workers, RulesUnavailable(w) PROVE Good
  BY <1>4, <1>a, <1>b, <1>c, <1>d DEF RulesUnavailable
<1>5. ASSUME NEW w \in Workers, EvaluateFails(w) PROVE Good
  <2>1. Fail(w)
    BY <1>5 DEF EvaluateFails
  <2>2. QED
    BY <2>1, Failing, <1>5, <1>a, <1>b, <1>c, <1>d DEF EvaluateFails
<1>6. ASSUME NEW w \in Workers, CountFails(w) PROVE Good
  <2>1. Fail(w)
    BY <1>6 DEF CountFails
  <2>2. QED
    BY <2>1, Failing, <1>6, <1>a, <1>b, <1>c, <1>d DEF CountFails
<1>7. ASSUME NEW w \in Workers, Unmatched(w) PROVE Good
  <2>1. Succeed(w)
    BY <1>7 DEF Unmatched
  <2>2. QED
    BY <2>1, Succeeding, <1>7, <1>a, <1>b, <1>c, <1>d DEF Unmatched
<1>8. ASSUME NEW w \in Workers, RejectTenant(w) PROVE Good
  BY <1>8, <1>a, <1>b, <1>c, <1>d DEF RejectTenant
<1>9. ASSUME NEW w \in Workers, SeenBefore(w) PROVE Good
  <2>1. CASE w = c
    <3>1. Safe(e, r) \/ \E d \in Workers : ev[d] = e /\ pc[d] \in Claiming
      BY <1>9, <2>1, <1>a DEF SeenBefore, Claimed
    <3>2. CASE \E d \in Workers : ev[d] = e /\ pc[d] \in Claiming
      <4>1. PICK d \in Workers : ev[d] = e /\ pc[d] \in Claiming
        BY <3>2
      <4>2. Succeed(w) /\ w # d
        BY <1>9, <4>1, AttemptsFollow DEF SeenBefore, Claiming
      <4>3. ev'[d] = e /\ pc'[d] \in Claiming
        BY <1>9, <4>1, <4>2, <1>a, Succeeding DEF SeenBefore
      <4>4. QED
        BY <4>3 DEF Claimed
    <3>3. QED
      BY <3>1, <3>2, <1>b
  <2>2. CASE w # c
    <3>1. Succeed(w)
      BY <1>9 DEF SeenBefore
    <3>2. QED
      BY <1>9, <2>2, <3>1, <1>a, Succeeding DEF SeenBefore
  <2>3. QED
    BY <2>1, <2>2
<1>10. ASSUME NEW w \in Workers, Claim(w) PROVE Good
  BY <1>10, <1>a, <1>b, <1>c, <1>d DEF Claim
<1>11. ASSUME NEW w \in Workers, DedupFails(w) PROVE Good
  <2>1. Fail(w)
    BY <1>11 DEF DedupFails
  <2>2. QED
    BY <2>1, Failing, <1>11, <1>a, <1>b, <1>c, <1>d DEF DedupFails
<1>12. ASSUME NEW w \in Workers, CooldownFails(w) PROVE Good
  BY <1>12, <1>a, <1>b, <1>c, <1>d DEF CooldownFails
<1>13. ASSUME NEW w \in Workers, AllStored(w) PROVE Good
  <2>1. Succeed(w)
    BY <1>13 DEF AllStored
  <2>2. QED
    BY <2>1, Succeeding, <1>13, <1>a, <1>b, <1>c, <1>d DEF AllStored
<1>14. ASSUME NEW w \in Workers, Create(w) PROVE Good
  BY <1>14, <1>a, <1>b, <1>c, <1>d DEF Create
<1>15. ASSUME NEW w \in Workers, CreateDuplicate(w) PROVE Good
  BY <1>15, <1>a, <1>b, <1>c, <1>d DEF CreateDuplicate
<1>16. ASSUME NEW w \in Workers, CreateFails(w) PROVE Good
  BY <1>16, <1>a, <1>b, <1>c, <1>d DEF CreateFails
<1>17. ASSUME NEW w \in Workers, Notify(w) PROVE Good
  BY <1>17, <1>a, <1>b, <1>c, <1>d DEF Notify
<1>18. ASSUME NEW w \in Workers, NotifyFails(w) PROVE Good
  BY <1>18, <1>a, <1>b, <1>c, <1>d, NextAttempt DEF NotifyFails
<1>19. ASSUME NEW w \in Workers, Release(w) PROVE Good
  <2>1. Fail(w)
    BY <1>19 DEF Release
  <2>2. QED
    BY <2>1, Failing, <1>19, <1>a, <1>b, <1>c, <1>d DEF Release
<1>20. ASSUME NEW w \in Workers, ReleaseFails(w) PROVE Good
  <2>1. Fail(w)
    BY <1>20 DEF ReleaseFails
  <2>2. QED
    BY <2>1, Failing, <1>20, <1>a, <1>b, <1>c, <1>d DEF ReleaseFails
<1>21. ASSUME NEW w \in Workers, RecordDeadLetter(w) PROVE Good
  <2>1. Succeed(w)
    BY <1>21 DEF RecordDeadLetter
  <2>2. CASE w = c
    <3>1. dlq \in Seq(Letters)
      BY <1>a DEF TypeOK, Letters
    <3>2. Ledgered(e)'
      BY <1>21, <2>2, <3>1, <1>a, AppendKeeps DEF RecordDeadLetter, Ledgered
    <3>3. QED
      BY <3>2 DEF Safe
  <2>3. CASE w # c
    BY <1>21, <2>1, <2>3, <1>a, Succeeding DEF RecordDeadLetter
  <2>4. QED
    BY <2>2, <2>3
<1>22. ASSUME NEW w \in Workers, RecordFails(w) PROVE Good
  BY <1>22, <1>a, <1>b, <1>c, <1>d DEF RecordFails
<1>23. ASSUME NEW w \in Workers, MarkReplayed(w) PROVE Good
  BY <1>23, <1>a, <1>b, <1>c, <1>d DEF MarkReplayed
<1>24. ASSUME NEW w \in Workers, MarkFails(w) PROVE Good
  BY <1>24, <1>a, <1>b, <1>c, <1>d DEF MarkFails
<1>25. ASSUME NEW w \in Workers, Crash(w) PROVE Good
  BY <1>25, <1>a, <1>b, <1>c, <1>d DEF Crash
<1>26. ASSUME NEW w \in Workers, NEW q \in WindowRules, CountWindow(w, q) PROVE Good
  BY <1>26, <1>a, <1>b, <1>c, <1>d DEF CountWindow
<1>27. ASSUME NEW w \in Workers, NEW q \in RuleIds, Acquire(w, q) PROVE Good
  BY <1>27, <1>a, <1>b, <1>c, <1>d DEF Acquire
<1>28. ASSUME NEW w \in Workers, NEW q \in RuleIds, Suppress(w, q) PROVE Good
  BY <1>28, <1>a, <1>b, <1>c, <1>d DEF Suppress
<1>29. ASSUME NEW f \in Events, DedupExpires(f) PROVE Good
  BY <1>29, <1>a, <1>b, <1>c, <1>d DEF DedupExpires
<1>30. ASSUME NEW k \in Devices \X RuleIds, CooldownExpires(k) PROVE Good
  BY <1>30, <1>a, <1>b, <1>c, <1>d DEF CooldownExpires
<1>31. CASE UNCHANGED vars
  BY <1>31, <1>a DEF vars, InFlight
<1>32. ASSUME NEW w \in Workers, DedupUnanswered(w) PROVE Good
  <2>1. CASE Succeed(w)
    BY <2>1, Succeeding, <1>32, <1>a, <1>b, <1>c, <1>d DEF DedupUnanswered
  <2>2. CASE Fail(w) /\ UNCHANGED acked
    BY <2>2, Failing, <1>32, <1>a, <1>b, <1>c, <1>d DEF DedupUnanswered
  <2>3. QED
    BY <1>32, <2>1, <2>2 DEF DedupUnanswered
<1>33. ASSUME NEW w \in Workers, NEW q \in RuleIds, CooldownUnanswered(w, q) PROVE Good
  BY <1>33, <1>a, <1>b, <1>c, <1>d DEF CooldownUnanswered
<1>34. ASSUME NEW w \in Workers, CreateUnanswered(w) PROVE Good
  BY <1>34, <1>a, <1>b, <1>c, <1>d DEF CreateUnanswered
<1>35. QED
  BY <1>1, <1>2, <1>3, <1>4, <1>5, <1>6, <1>7, <1>8, <1>9, <1>10, <1>11, <1>12, <1>13, <1>14, <1>15, <1>16, <1>17, <1>18, <1>19, <1>20, <1>21, <1>22, <1>23, <1>24, <1>25, <1>26, <1>27, <1>28, <1>29, <1>30, <1>31,
     <1>32, <1>33, <1>34
  DEF Next, Step, HandleDeviceEvent, InFlight, Claimed, Claiming

\* Only a call acknowledges.
LEMMA CallAcks ==
  ASSUME Typed, [Next]_vars, NEW e \in Events, e \in acked', e \notin acked
  PROVE  InFlight(e)
<1> DEFINE Good == \E c \in Workers : ev[c] = e /\ pc[c] # "idle"
<1>a. e \in acked' /\ e \notin acked /\ TypeOK
  BY DEF Typed
<1> USE AttemptsFollow DEF At, Goto, Blame, CoolKey, redis, mysql, local, ghosts, bounds, Evaluated, Admissible
<1>1. ASSUME NEW w \in Workers, NEW f \in Events, Deliver(w, f) PROVE Good
  BY <1>1, <1>a DEF Deliver
<1>2. ASSUME NEW w \in Workers, NEW k \in DOMAIN dlq, Replay(w, k) PROVE Good
  BY <1>2, <1>a DEF Replay
<1>3. ASSUME NEW w \in Workers, EvaluateRules(w) PROVE Good
  BY <1>3, <1>a DEF EvaluateRules
<1>4. ASSUME NEW w \in Workers, RulesUnavailable(w) PROVE Good
  BY <1>4, <1>a DEF RulesUnavailable
<1>5. ASSUME NEW w \in Workers, EvaluateFails(w) PROVE Good
  BY <1>5, <1>a DEF EvaluateFails
<1>6. ASSUME NEW w \in Workers, CountFails(w) PROVE Good
  BY <1>6, <1>a DEF CountFails
<1>7. ASSUME NEW w \in Workers, Unmatched(w) PROVE Good
  <2>1. Succeed(w)
    BY <1>7 DEF Unmatched
  <2>2. QED
    BY <2>1, Succeeding, <1>7, <1>a DEF Unmatched
<1>8. ASSUME NEW w \in Workers, RejectTenant(w) PROVE Good
  BY <1>8, <1>a DEF RejectTenant
<1>9. ASSUME NEW w \in Workers, SeenBefore(w) PROVE Good
  <2>1. Succeed(w)
    BY <1>9 DEF SeenBefore
  <2>2. QED
    BY <2>1, Succeeding, <1>9, <1>a DEF SeenBefore
<1>10. ASSUME NEW w \in Workers, Claim(w) PROVE Good
  BY <1>10, <1>a DEF Claim
<1>11. ASSUME NEW w \in Workers, DedupFails(w) PROVE Good
  BY <1>11, <1>a DEF DedupFails
<1>12. ASSUME NEW w \in Workers, CooldownFails(w) PROVE Good
  BY <1>12, <1>a DEF CooldownFails
<1>13. ASSUME NEW w \in Workers, AllStored(w) PROVE Good
  <2>1. Succeed(w)
    BY <1>13 DEF AllStored
  <2>2. QED
    BY <2>1, Succeeding, <1>13, <1>a DEF AllStored
<1>14. ASSUME NEW w \in Workers, Create(w) PROVE Good
  BY <1>14, <1>a DEF Create
<1>15. ASSUME NEW w \in Workers, CreateDuplicate(w) PROVE Good
  BY <1>15, <1>a DEF CreateDuplicate
<1>16. ASSUME NEW w \in Workers, CreateFails(w) PROVE Good
  BY <1>16, <1>a DEF CreateFails
<1>17. ASSUME NEW w \in Workers, Notify(w) PROVE Good
  BY <1>17, <1>a DEF Notify
<1>18. ASSUME NEW w \in Workers, NotifyFails(w) PROVE Good
  BY <1>18, <1>a, NextAttempt DEF NotifyFails
<1>19. ASSUME NEW w \in Workers, Release(w) PROVE Good
  BY <1>19, <1>a DEF Release
<1>20. ASSUME NEW w \in Workers, ReleaseFails(w) PROVE Good
  BY <1>20, <1>a DEF ReleaseFails
<1>21. ASSUME NEW w \in Workers, RecordDeadLetter(w) PROVE Good
  <2>1. Succeed(w)
    BY <1>21 DEF RecordDeadLetter
  <2>2. QED
    BY <2>1, Succeeding, <1>21, <1>a DEF RecordDeadLetter
<1>22. ASSUME NEW w \in Workers, RecordFails(w) PROVE Good
  BY <1>22, <1>a DEF RecordFails
<1>23. ASSUME NEW w \in Workers, MarkReplayed(w) PROVE Good
  BY <1>23, <1>a DEF MarkReplayed
<1>24. ASSUME NEW w \in Workers, MarkFails(w) PROVE Good
  BY <1>24, <1>a DEF MarkFails
<1>25. ASSUME NEW w \in Workers, Crash(w) PROVE Good
  BY <1>25, <1>a DEF Crash
<1>26. ASSUME NEW w \in Workers, NEW q \in WindowRules, CountWindow(w, q) PROVE Good
  BY <1>26, <1>a DEF CountWindow
<1>27. ASSUME NEW w \in Workers, NEW q \in RuleIds, Acquire(w, q) PROVE Good
  BY <1>27, <1>a DEF Acquire
<1>28. ASSUME NEW w \in Workers, NEW q \in RuleIds, Suppress(w, q) PROVE Good
  BY <1>28, <1>a DEF Suppress
<1>29. ASSUME NEW f \in Events, DedupExpires(f) PROVE Good
  BY <1>29, <1>a DEF DedupExpires
<1>30. ASSUME NEW k \in Devices \X RuleIds, CooldownExpires(k) PROVE Good
  BY <1>30, <1>a DEF CooldownExpires
<1>31. CASE UNCHANGED vars
  BY <1>31, <1>a DEF vars
<1>32. ASSUME NEW w \in Workers, DedupUnanswered(w) PROVE Good
  <2>1. CASE Succeed(w)
    BY <2>1, Succeeding, <1>32, <1>a DEF DedupUnanswered
  <2>2. CASE Fail(w) /\ UNCHANGED acked
    BY <2>2, Failing, <1>32, <1>a DEF DedupUnanswered
  <2>3. QED
    BY <1>32, <2>1, <2>2 DEF DedupUnanswered
<1>33. ASSUME NEW w \in Workers, NEW q \in RuleIds, CooldownUnanswered(w, q) PROVE Good
  BY <1>33, <1>a DEF CooldownUnanswered
<1>34. ASSUME NEW w \in Workers, CreateUnanswered(w) PROVE Good
  BY <1>34, <1>a DEF CreateUnanswered
<1>35. QED
  BY <1>1, <1>2, <1>3, <1>4, <1>5, <1>6, <1>7, <1>8, <1>9, <1>10, <1>11, <1>12, <1>13, <1>14, <1>15, <1>16, <1>17, <1>18, <1>19, <1>20, <1>21, <1>22, <1>23, <1>24, <1>25, <1>26, <1>27, <1>28, <1>29, <1>30, <1>31,
     <1>32, <1>33, <1>34
  DEF Next, Step, HandleDeviceEvent, InFlight

LEMMA AckHolds ==
  ASSUME Typed, Handled, [Next]_vars, NEW e \in Events, NEW r \in RuleIds, r \in Due(e)
  PROVE  AckEarned(e, r)'
<1>1. CASE Safe(e, r)
  BY <1>1, SafeStays DEF AckEarned
<1>2. CASE InFlight(e)
  <2>1. PICK c \in Workers : ev[c] = e /\ ~ At(c, "idle")
    BY <1>2 DEF InFlight
  <2>2. QED
    BY <2>1, CallEnds DEF AckEarned
<1>3. CASE e \notin acked /\ ~ InFlight(e)
  BY <1>3, CallAcks DEF AckEarned
<1>4. QED
  BY <1>1, <1>2, <1>3 DEF Handled, AckEarned

LEMMA HandledHolds == ASSUME Typed, Handled, [Next]_vars PROVE Handled'
BY CoolingHolds, KeyHolds, AckHolds, DraftedHolds DEF Handled

------------------------------------------------------------------------------
LEMMA InitHolds == Init => IInv
<1> SUFFICES ASSUME Init PROVE IInv
  OBVIOUS
<1>1. Typed
  BY InitTyped
<1>2. Announced
  BY AttemptsFollow DEF Init, Announced, AnnouncedOnce, Announcing, At
<1>3. Judged
  BY AttemptsFollow DEF Init, Judged, BadMessagesLedgered, Sorted
<1>4. Handled
  BY AlarmIngestAssumption DEF Init, Handled, CoolingEarned, KeyEarned, AckEarned, Drafted,
     Judging, Devices
<1>5. QED
  BY <1>1, <1>2, <1>3, <1>4 DEF IInv

LEMMA StepHolds == ASSUME IInv, [Next]_vars PROVE IInv'
BY TypedHolds, AnnouncedHolds, JudgedHolds, HandledHolds DEF IInv

\* Every reachable state is typed (consumer.go).
THEOREM TypeCorrect == Spec => []TypeOK
<1>1. IInv => TypeOK
  BY DEF IInv, Typed
<1>2. QED
  BY InitHolds, StepHolds, <1>1, PTL DEF Spec

\* M5 hears only of stored alarms, and of one again only after an attempt that reached
\* it and was taken for failed, with any number of workers that handle the same event,
\* whichever keys expire meanwhile and whichever answers are lost (notifyAlarmCreated,
\* publishAlarmEvent).
THEOREM AnnouncedCorrect == Spec => []AnnouncedOnce
<1>1. IInv => AnnouncedOnce
  BY DEF IInv, Announced
<1>2. QED
  BY InitHolds, StepHolds, <1>1, PTL DEF Spec

\* An unparseable message is acknowledged only through the ledger, and no alarm is
\* of an event without a tenant (RejectMissingTenant).
THEOREM BadMessagesCorrect == Spec => []BadMessagesLedgered
<1>1. IInv => BadMessagesLedgered
  BY DEF IInv, Judged
<1>2. QED
  BY InitHolds, StepHolds, <1>1, PTL DEF Spec

\* The causes in "excuse" are all there are: an acknowledged event that nothing went
\* wrong for is stored for each stateless rule it meets, in the ledger, or being handled
\* (HandleWithDeadLetter, releaseDedupKey).
THEOREM AckedCorrect == Spec => []AckedAccounted
<1>1. ASSUME IInv PROVE AckedAccounted
  <2>1. SUFFICES ASSUME NEW e \in acked, NEW r \in Matches[e] \ WindowRules
                 PROVE  \/ << e, r >> \in alarms
                        \/ Ledgered(e)
                        \/ InFlight(e)
                        \/ excuse[e] # {}
    BY DEF AckedAccounted
  <2>2. e \in Events /\ r \in RuleIds /\ r \in Due(e)
    BY <1>1, BoundsAre DEF IInv, Typed, TypeOK, Due
  <2>3. InFlight(e) \/ Safe(e, r)
    BY <1>1, <2>2 DEF IInv, Handled, AckEarned
  <2>4. Creating(e, r) => InFlight(e)
    BY DEF Creating, InFlight, At
  <2>5. QED
    BY <2>3, <2>4 DEF Safe
<1>2. QED
  BY InitHolds, StepHolds, <1>1, PTL DEF Spec

==============================================================================
