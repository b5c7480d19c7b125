-------------------------------- MODULE Camera --------------------------------
(***************************************************************************)
(* The cameras of video-service and their status: a heartbeat of a device  *)
(* looks its camera up, writes the row and then a key of Redis that lives  *)
(* as long as a beat counts; a job takes silent cameras offline; people    *)
(* add, change and delete cameras; a list shows row and key together.      *)
(***************************************************************************)
EXTENDS Naturals, FiniteSets

CONSTANTS
    Cameras,                \* rows that may exist, each of a tenant of its own
    Devices, DeviceOf,      \* two tenants may have registered the same device
    NoCamera,
    OfflineAfter,           \* a beat counts so long (OfflineAfterSeconds)
    MaxBeats, MaxChanges,   \* (bounds) heartbeats; requests
    MaxCameraFaults         \* (bound) failures of MySQL, of Redis, of the process

VARIABLES
    cam,                    \* camera: status, and the age of the last beat, if any
    left,                   \* per device: how long the key in Redis still lives
    beat,                   \* the handler of a heartbeat: next step, device, camera, age
    beats, changes, camFaults

camVars == <<cam, left, beat, beats, changes, camFaults>>

Statuses == {"offline", "online", "fault"}
Ages     == 0..(OfflineAfter + 1)       \* the last one stands for all that follow
NoBeat   == [at |-> "idle"]

TypeOK ==
    /\ \A c \in Cameras : cam[c] # NoCamera =>
         /\ cam[c].status \in Statuses
         /\ cam[c].heard \subseteq Ages /\ Cardinality(cam[c].heard) <= 1
    /\ left \in [Devices -> 0..OfflineAfter]
    /\ beat.at \in {"idle", "touch", "mark"}
    /\ beat.at # "idle" => beat.device \in Devices /\ beat.age \in Ages
    /\ beats \in 0..MaxBeats /\ changes \in 0..MaxChanges /\ camFaults \in 0..MaxCameraFaults

Init ==
    /\ cam = [c \in Cameras |-> NoCamera]
    /\ left = [d \in Devices |-> 0]
    /\ beat = NoBeat
    /\ beats = 0 /\ changes = 0 /\ camFaults = 0

Fault == camFaults < MaxCameraFaults /\ camFaults' = camFaults + 1

------------------------------------------------------------------------------
(* A heartbeat; a redelivered one counts as new, its time is that of the   *)
(* handling.                                                               *)
Registered(d) == {c \in Cameras : cam[c] # NoCamera /\ DeviceOf[c] = d}

\* Only a device that one tenant has registered is followed any further.
OnHeartbeat(d) ==
    /\ beat.at = "idle" /\ beats < MaxBeats
    /\ beats' = beats + 1
    /\ beat' \in IF Cardinality(Registered(d)) # 1 THEN {NoBeat}
                 ELSE {[at |-> "touch", device |-> d, camera |-> c, age |-> 0] :
                         c \in Registered(d)}
    /\ UNCHANGED <<cam, left, changes, camFaults>>

\* UPDATE by the id that was found: whatever the status was, fault included.
TouchHeartbeat ==
    /\ beat.at = "touch"
    /\ cam' = IF cam[beat.camera] = NoCamera THEN cam
              ELSE [cam EXCEPT ![beat.camera] = [status |-> "online", heard |-> {beat.age}]]
    /\ beat' = [beat EXCEPT !.at = "mark"]
    /\ UNCHANGED <<left, beats, changes, camFaults>>

\* The key lives from now on; that it is not written is only logged.
Mark ==
    /\ beat.at = "mark"
    /\ \/ left' = [left EXCEPT ![beat.device] = OfflineAfter] /\ UNCHANGED camFaults
       \/ Fault /\ UNCHANGED left
    /\ beat' = NoBeat
    /\ UNCHANGED <<cam, beats, changes>>

\* A statement fails, or the process ends: the message may come again.
HeartbeatFails ==
    /\ beat.at # "idle" /\ Fault
    /\ beat' = NoBeat
    /\ UNCHANGED <<cam, left, beats, changes>>

------------------------------------------------------------------------------
(* The job.                                                                *)

\* Mutant: a row that never had a beat is not older than the deadline.
SilentSince(row) == \E k \in row.heard : k > OfflineAfter

Silent(row) == \A k \in row.heard : k > OfflineAfter

Swept == {c \in Cameras : cam[c] # NoCamera /\ cam[c].status = "online" /\ Silent(cam[c])}

MarkOffline ==
    /\ Swept # {}
    /\ cam' = [c \in Cameras |-> IF c \in Swept THEN [cam[c] EXCEPT !.status = "offline"] ELSE cam[c]]
    /\ UNCHANGED <<left, beat, beats, changes, camFaults>>

------------------------------------------------------------------------------
(* People.                                                                 *)
Request == changes < MaxChanges /\ changes' = changes + 1

AddCamera(c, s) ==
    /\ Request /\ cam[c] = NoCamera
    /\ cam' = [cam EXCEPT ![c] = [status |-> s, heard |-> {}]]
    /\ UNCHANGED <<left, beat, beats, camFaults>>

UpdateCamera(c, s) ==
    /\ Request /\ cam[c] # NoCamera
    /\ cam' = [cam EXCEPT ![c].status = s]
    /\ UNCHANGED <<left, beat, beats, camFaults>>

DeleteCamera(c) ==
    /\ Request /\ cam[c] # NoCamera
    /\ cam' = [cam EXCEPT ![c] = NoCamera]
    /\ UNCHANGED <<left, beat, beats, camFaults>>

Older(k) == IF k > OfflineAfter THEN k ELSE k + 1

TimePasses ==
    /\ cam' = [c \in Cameras |-> IF cam[c] = NoCamera THEN NoCamera
                                 ELSE [cam[c] EXCEPT !.heard = {Older(k) : k \in @}]]
    /\ left' = [d \in Devices |-> IF left[d] = 0 THEN 0 ELSE left[d] - 1]
    /\ beat' = IF beat.at = "idle" THEN beat ELSE [beat EXCEPT !.age = Older(@)]
    /\ <<cam, left, beat>>' # <<cam, left, beat>>
    /\ UNCHANGED <<beats, changes, camFaults>>

Next ==
    \/ \E d \in Devices : OnHeartbeat(d)
    \/ TouchHeartbeat \/ Mark \/ HeartbeatFails \/ MarkOffline
    \/ \E c \in Cameras, s \in Statuses : AddCamera(c, s) \/ UpdateCamera(c, s)
    \/ \E c \in Cameras : DeleteCamera(c)
    \/ TimePasses

\* Time passes, and the ticker of the job goes on after an error.
Spec == Init /\ [][Next]_camVars /\ WF_camVars(TimePasses) /\ WF_camVars(MarkOffline)

------------------------------------------------------------------------------
\* What a list of cameras shows (effectiveStatus).
EffectiveStatus(c) ==
    IF cam[c].status # "fault" /\ left[DeviceOf[c]] > 0 THEN "online" ELSE cam[c].status

ShownOnline(c) == cam[c] # NoCamera /\ EffectiveStatus(c) = "online"

\* When no beats and no requests come any more, no camera stays listed as
\* online - not one that never had a beat, was set online by hand, or shares its
\* device with another tenant, whose beat wrote the key (MarkOffline, Mark).
EventuallyOffline == []<>(\A c \in Cameras : ~ShownOnline(c))
==============================================================================
