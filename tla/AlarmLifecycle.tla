---------------------------- MODULE AlarmLifecycle ----------------------------
(***************************************************************************)
(* What operators do to a stored alarm: acknowledge it, resolve it, and    *)
(* what alarm-service tells others about it (logic/updatealarmstatuslogic, *)
(* model/alarm_model).  The alarm is in the table when a behaviour starts; *)
(* AlarmIngest is how it got there.                                        *)
(*                                                                         *)
(* A request is one call of UpdateAlarmStatus: a transaction moves the     *)
(* status and writes the log, then the hub is told, then, for a resolved   *)
(* alarm, M5 through Kafka.  A process may die between any two of these.   *)
(***************************************************************************)
EXTENDS Naturals, Sequences, FiniteSets

CONSTANTS
    Requests,        \* calls of UpdateAlarmStatus
    ActionOf,        \* what each asks: "ack" or "resolve"
    Sends,           \* attempts of one notice: 1 + len(retryBackoff)
    MaxAlarmFaults   \* bound: failed statements, failed sends, crashes

ASSUME LifecycleAssumption ==
    /\ ActionOf \in [Requests -> {"ack", "resolve"}]
    /\ Sends \in Nat \ {0}
    /\ MaxAlarmFaults \in Nat

VARIABLES
    status,      \* alarm.status
    trail,       \* alarm_operate_log, in order
    shown,       \* what the hub pushed about the alarm, in order
    notices,     \* events the broker took on onepark.alarm.event
    asked,       \* request -> where its handler is
    sends,       \* request -> attempts of its notice
    alarmFaults

lifecycleVars == <<status, trail, shown, notices, asked, sends, alarmFaults>>

From(act) == IF act = "ack" THEN "pending" ELSE "acked"
To(act)   == IF act = "ack" THEN "acked" ELSE "resolved"

Answers == {"ok", "refused", "error", "unnotified", "crashed"}

LifecycleTypeOK ==
    /\ status \in {"pending", "acked", "resolved"}
    /\ trail \in Seq({"create", "ack", "resolve"})
    /\ shown \in Seq({"acked", "resolved"})
    /\ notices \in Nat
    /\ asked \in [Requests -> {"idle", "broadcast", "load", "send"} \cup Answers]
    /\ sends \in [Requests -> 0..Sends]
    /\ alarmFaults \in 0..MaxAlarmFaults

LifecycleInit ==
    /\ status = "pending" /\ trail = <<"create">>
    /\ shown = <<>> /\ notices = 0
    /\ asked = [r \in Requests |-> "idle"]
    /\ sends = [r \in Requests |-> 0]
    /\ alarmFaults = 0

Faulty == alarmFaults < MaxAlarmFaults /\ alarmFaults' = alarmFaults + 1

HandlerGoes(r, pc) == asked' = [asked EXCEPT ![r] = pc]

-------------------------------------------------------------------------------

(* Mutant: the update is not bound to the status.                          *)
AnyStatus(r) == status # To(ActionOf[r])

(* transition: the status and its log row in one transaction; the WHERE    *)
(* names the status the action starts from.                                *)
InFrom(r) == status = From(ActionOf[r])

Transition(r) ==
    /\ asked[r] = "idle"
    /\ IF InFrom(r)
       THEN /\ status' = To(ActionOf[r])
            /\ trail' = Append(trail, ActionOf[r])
            /\ HandlerGoes(r, "broadcast")
       ELSE HandlerGoes(r, "refused") /\ UNCHANGED <<status, trail>>
    /\ UNCHANGED <<shown, notices, sends, alarmFaults>>

TransitionFails(r) ==
    /\ asked[r] = "idle" /\ Faulty
    /\ HandlerGoes(r, "error")
    /\ UNCHANGED <<status, trail, shown, notices, sends>>

AfterBroadcast(r) == IF ActionOf[r] = "resolve" THEN "load" ELSE "ok"

(* broadcast: the row is read again, but the status pushed is the one the  *)
(* action leads to, whatever the row says by now.                          *)
Broadcast(r) ==
    /\ asked[r] = "broadcast"
    /\ shown' = Append(shown, To(ActionOf[r]))
    /\ HandlerGoes(r, AfterBroadcast(r))
    /\ UNCHANGED <<status, trail, notices, sends, alarmFaults>>

BroadcastFails(r) ==
    /\ asked[r] = "broadcast" /\ Faulty
    /\ HandlerGoes(r, AfterBroadcast(r))
    /\ UNCHANGED <<status, trail, shown, notices, sends>>

(* notifyResolved: the row is read for the event, then sent at most Sends  *)
(* times; an attempt that timed out may have reached the broker.           *)
LoadAlarm(r) ==
    /\ asked[r] = "load"
    /\ HandlerGoes(r, "send")
    /\ UNCHANGED <<status, trail, shown, notices, sends, alarmFaults>>

LoadAlarmFails(r) ==
    /\ asked[r] = "load" /\ Faulty
    /\ HandlerGoes(r, "unnotified")
    /\ UNCHANGED <<status, trail, shown, notices, sends>>

SendNotice(r) ==
    /\ asked[r] = "send"
    /\ sends' = [sends EXCEPT ![r] = @ + 1]
    /\ notices' = notices + 1
    /\ HandlerGoes(r, "ok")
    /\ UNCHANGED <<status, trail, shown, alarmFaults>>

SendNoticeFails(r) ==
    /\ asked[r] = "send" /\ Faulty
    /\ sends' = [sends EXCEPT ![r] = @ + 1]
    /\ notices' \in {notices, notices + 1}
    /\ HandlerGoes(r, IF sends'[r] = Sends THEN "unnotified" ELSE "send")
    /\ UNCHANGED <<status, trail, shown>>

HandlerDies(r) ==
    /\ asked[r] \in {"broadcast", "load", "send"} /\ Faulty
    /\ HandlerGoes(r, "crashed")
    /\ UNCHANGED <<status, trail, shown, notices, sends>>

LifecycleNext == \E r \in Requests :
    \/ Transition(r) \/ TransitionFails(r)
    \/ Broadcast(r) \/ BroadcastFails(r)
    \/ LoadAlarm(r) \/ LoadAlarmFails(r)
    \/ SendNotice(r) \/ SendNoticeFails(r) \/ HandlerDies(r)

LifecycleSpec == LifecycleInit /\ [][LifecycleNext]_lifecycleVars

-------------------------------------------------------------------------------

Resolvers == {r \in Requests : ActionOf[r] = "resolve" /\ asked[r] \notin {"idle", "refused", "error"}}

(* One resolution, one notice: however requests interleave and fail, the   *)
(* log is the status's history without a gap or a repetition, at most one  *)
(* request resolved the alarm, M5 is told only of a resolved alarm and by  *)
(* that request alone, and when M5 was not told once that request is done, *)
(* its caller got M3-E-1008 or no answer at all: nobody answers "ok" for a *)
(* notice that was never sent (UpdateAlarmStatus 73-83, transition).       *)
ResolvedOnce ==
    /\ trail = SubSeq(<<"create", "ack", "resolve">>, 1,
                      CASE status = "pending" -> 1 [] status = "acked" -> 2
                        [] OTHER -> 3)
    /\ Cardinality(Resolvers) <= 1
    /\ notices > 0 => Resolvers # {} /\ status = "resolved"
    /\ \A r \in Resolvers : notices <= sends[r]
    /\ notices = 0 => \A r \in Resolvers : asked[r] # "ok"
===============================================================================
