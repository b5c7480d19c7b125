----------------------------- MODULE DeviceCommand -----------------------------
(***************************************************************************)
(* The life of a command to a device: a row of command_log.  A call of     *)
(* device-service inserts it, publishes it on the device's MQTT topic and  *)
(* marks it sent; every instance scans for commands whose time is up,      *)
(* sends them again a few times and then gives up; the device executes     *)
(* them and its confirmation comes back through gateway-service.  Only the *)
(* gateway looks at the status it replaces.                                *)
(***************************************************************************)
EXTENDS Naturals, FiniteSets

CONSTANTS
    Commands,           \* request ids of the commands, one per call
    Scanners,           \* device-service instances with a timeout scan
    NoCommand,          \* a scan between two commands
    MaxResend,          \* config CommandMaxResend
    MaxDeviceFaults     \* lost connections, failed writes and crashes in a behaviour

ASSUME DeviceAssumption == MaxResend \in Nat /\ MaxDeviceFaults \in Nat

VARIABLES
    downlink,      \* whether device-service has an MQTT client
    command,       \* [Commands -> status of the row, "none" before it exists]
    overdue,       \* the commands whose timeout_at has passed
    counted,       \* [Commands -> the Redis counter of resends, up to MaxResend]
    onWay,         \* the commands of which a copy is still to reach the device
    acks,          \* confirmations on their way to the gateway
    sender,        \* [Commands -> where the call that sends the command is]
    scan,          \* [Scanners -> [at, cmd, todo]]
    deviceFaults

deviceVars == <<downlink, command, overdue, counted, onWay, acks, sender, scan, deviceFaults>>

Open     == {"pending", "sent"}
Terminal == {"success", "failed", "timeout"}
Results  == {"success", "failed"}
Sending  == {"idle", "publish", "mark", "unsent", "ok", "error", "gone"}
Passes   == [at : {"idle", "next", "resend", "extend", "expire"},
             cmd : Commands \cup {NoCommand}, todo : SUBSET Commands]
NoScan   == [at |-> "idle", cmd |-> NoCommand, todo |-> {}]

DeviceTypeOK ==
    /\ downlink \in BOOLEAN
    /\ command \in [Commands -> {"none"} \cup Open \cup Terminal]
    /\ overdue \subseteq Commands /\ onWay \subseteq Commands
    /\ counted \in [Commands -> 0..MaxResend]
    /\ acks \subseteq Commands \X Results
    /\ sender \in [Commands -> Sending]
    /\ scan \in [Scanners -> Passes]
    /\ deviceFaults \in 0..MaxDeviceFaults

DeviceInit ==
    /\ downlink \in BOOLEAN
    /\ command = [c \in Commands |-> "none"]
    /\ overdue = {} /\ onWay = {} /\ acks = {}
    /\ counted = [c \in Commands |-> 0]
    /\ sender = [c \in Commands |-> "idle"]
    /\ scan = [s \in Scanners |-> NoScan]
    /\ deviceFaults = 0

DeviceFault == deviceFaults < MaxDeviceFaults /\ deviceFaults' = deviceFaults + 1

Write(c, to) == command' = [command EXCEPT ![c] = to]
Moves(c, to) == sender' = [sender EXCEPT ![c] = to]

----------------------------------------------------------------------------
(* DeviceCommand: validate, insert, publish, mark. *)

\* Bad parameters, an unknown or offline device, or a failed insert.
Refuse(c) ==
    /\ sender[c] = "idle"
    /\ Moves(c, "error")
    /\ UNCHANGED <<downlink, command, overdue, counted, onWay, acks, scan, deviceFaults>>

Insert(c) ==
    /\ sender[c] = "idle"
    /\ Write(c, "pending")
    /\ Moves(c, "publish")
    /\ UNCHANGED <<downlink, overdue, counted, onWay, acks, scan, deviceFaults>>

\* Without a downlink the row stays pending for the timeout scan.
Publish(c) ==
    /\ sender[c] = "publish"
    /\ IF downlink THEN onWay' = onWay \cup {c} /\ Moves(c, "mark")
                   ELSE onWay' = onWay /\ Moves(c, "ok")
    /\ UNCHANGED <<downlink, command, overdue, counted, acks, scan, deviceFaults>>

PublishFails(c) ==
    /\ sender[c] = "publish" /\ downlink
    /\ DeviceFault
    /\ Moves(c, "unsent")
    /\ UNCHANGED <<downlink, command, overdue, counted, onWay, acks, scan>>

\* MarkSent and UpdateStatus(Failed): the row is written whatever it holds.
MarkSent(c) ==
    /\ sender[c] = "mark"
    /\ Write(c, "sent")
    /\ Moves(c, "ok")
    /\ UNCHANGED <<downlink, overdue, counted, onWay, acks, scan, deviceFaults>>

MarkFailed(c) ==
    /\ sender[c] = "unsent"
    /\ Write(c, "failed")
    /\ Moves(c, "error")
    /\ UNCHANGED <<downlink, overdue, counted, onWay, acks, scan, deviceFaults>>

\* The write fails and is only logged, or the process dies.
MarkLost(c) ==
    /\ sender[c] \in {"mark", "unsent"}
    /\ DeviceFault
    /\ Moves(c, IF sender[c] = "mark" THEN "ok" ELSE "error")
    /\ UNCHANGED <<downlink, command, overdue, counted, onWay, acks, scan>>

Dies(c) ==
    /\ sender[c] \in {"publish", "mark", "unsent"}
    /\ DeviceFault
    /\ Moves(c, "gone")
    /\ UNCHANGED <<downlink, command, overdue, counted, onWay, acks, scan>>

----------------------------------------------------------------------------
(* CommandTimeoutTask.scanOnce *)

IsOverdue(c) == command[c] \in Open /\ c \in overdue

ListOverdue(s) ==
    /\ scan[s].at = "idle"
    /\ \E c \in Commands : IsOverdue(c)
    /\ scan' = [scan EXCEPT ![s] = [at |-> "next", cmd |-> NoCommand,
                                    todo |-> {c \in Commands : IsOverdue(c)}]]
    /\ UNCHANGED <<downlink, command, overdue, counted, onWay, acks, sender, deviceFaults>>

ScanTo(s, at) == scan' = [scan EXCEPT ![s].at = at]
ScanOn(s)     == scan' = [scan EXCEPT ![s] = IF @.todo = {} THEN NoScan
                                             ELSE [@ EXCEPT !.at = "next", !.cmd = NoCommand]]

\* Mutant: the counter is read and never advanced.
ReadsOnly(c) == counted[c]

\* resendCount: INCR first, then the comparison.
Counted(c) == IF counted[c] = MaxResend THEN MaxResend ELSE counted[c] + 1

Take(s, c, at) ==
    /\ scan[s].at = "next"
    /\ c \in scan[s].todo
    /\ scan' = [scan EXCEPT ![s] = [at |-> at, cmd |-> c, todo |-> @.todo \ {c}]]
    /\ UNCHANGED <<downlink, command, overdue, onWay, acks, sender>>

Judge(s, c) ==
    /\ IF downlink
       THEN /\ counted' = [counted EXCEPT ![c] = Counted(c)]
            /\ Take(s, c, IF Counted(c) < MaxResend THEN "resend" ELSE "expire")
       ELSE Take(s, c, "expire") /\ UNCHANGED counted
    /\ UNCHANGED deviceFaults

\* Redis fails: the counter is taken to be above the maximum.
JudgeBlindly(s, c) ==
    /\ downlink /\ DeviceFault
    /\ Take(s, c, "expire")
    /\ UNCHANGED counted

\* The counter lives an hour.
CounterExpires(c) ==
    /\ counted[c] > 0
    /\ DeviceFault
    /\ counted' = [counted EXCEPT ![c] = 0]
    /\ UNCHANGED <<downlink, command, overdue, onWay, acks, sender, scan>>

Resend(s) ==
    /\ scan[s].at = "resend"
    /\ onWay' = onWay \cup {scan[s].cmd}
    /\ ScanTo(s, "extend")
    /\ UNCHANGED <<downlink, command, overdue, counted, acks, sender, deviceFaults>>

\* ExtendTimeout and MarkStatus(Timeout): again, whatever the row holds.
Extend(s) ==
    /\ scan[s].at = "extend"
    /\ Write(scan[s].cmd, "sent")
    /\ overdue' = overdue \ {scan[s].cmd}
    /\ ScanOn(s)
    /\ UNCHANGED <<downlink, counted, onWay, acks, sender, deviceFaults>>

Expire(s) ==
    /\ scan[s].at = "expire"
    /\ Write(scan[s].cmd, "timeout")
    /\ ScanOn(s)
    /\ UNCHANGED <<downlink, overdue, counted, onWay, acks, sender, deviceFaults>>

\* A publish or a write fails: the next command; a crash: the next start.
ScanFails(s) ==
    /\ scan[s].at \in {"resend", "extend", "expire"}
    /\ DeviceFault
    /\ ScanOn(s) \/ scan' = [scan EXCEPT ![s] = NoScan]
    /\ UNCHANGED <<downlink, command, overdue, counted, onWay, acks, sender>>

----------------------------------------------------------------------------
(* Time, the device, and Session.finishCommand of the gateway. *)

Elapses(c) ==
    /\ command[c] \in Open /\ c \notin overdue
    /\ overdue' = overdue \cup {c}
    /\ UNCHANGED <<downlink, command, counted, onWay, acks, sender, scan, deviceFaults>>

\* QoS 1: the broker may deliver a copy again.
Executes(c, r) ==
    /\ c \in onWay
    /\ onWay' \in {onWay, onWay \ {c}}
    /\ acks' = acks \cup {<<c, r>>}
    /\ UNCHANGED <<downlink, command, overdue, counted, sender, scan, deviceFaults>>

MayFinish(c) == command[c] \in Open

Finish(c, r) ==
    /\ <<c, r>> \in acks
    /\ acks' = acks \ {<<c, r>>}
    /\ IF MayFinish(c) THEN Write(c, r) ELSE UNCHANGED command
    /\ UNCHANGED <<downlink, overdue, counted, onWay, sender, scan, deviceFaults>>

FinishFails(c, r) ==
    /\ <<c, r>> \in acks
    /\ DeviceFault
    /\ acks' = acks \ {<<c, r>>}
    /\ UNCHANGED <<downlink, command, overdue, counted, onWay, sender, scan>>

----------------------------------------------------------------------------
SendStep(c) == Publish(c) \/ PublishFails(c) \/ MarkSent(c) \/ MarkFailed(c) \/ MarkLost(c)

ScanStep(s) ==
    \/ ListOverdue(s) \/ Resend(s) \/ Extend(s) \/ Expire(s) \/ ScanFails(s)
    \/ \E c \in Commands : Judge(s, c) \/ JudgeBlindly(s, c)

\* Everything but the beginning of a call.
Underway ==
    \/ \E c \in Commands : SendStep(c) \/ Dies(c) \/ Elapses(c) \/ CounterExpires(c)
    \/ \E s \in Scanners : ScanStep(s)
    \/ \E c \in Commands, r \in Results : Executes(c, r) \/ Finish(c, r) \/ FinishFails(c, r)

DeviceNext == Underway \/ \E c \in Commands : Refuse(c) \/ Insert(c)

\* The handlers and the scan of a running service take their steps; time passes.
DeviceFairness ==
    /\ \A c \in Commands : WF_deviceVars(SendStep(c)) /\ WF_deviceVars(Elapses(c))
    /\ \A s \in Scanners : WF_deviceVars(ScanStep(s))

DeviceSpec == DeviceInit /\ [][DeviceNext]_deviceVars /\ DeviceFairness

----------------------------------------------------------------------------
\* Every logged command comes to a final status and keeps it, whether or not
\* the device is there: the scan repeats a command a bounded number of times.
CommandsEnd == \A c \in Commands : <>[](command[c] \in Terminal \cup {"none"})
================================================================================
