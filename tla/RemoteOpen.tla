------------------------------- MODULE RemoteOpen -------------------------------
(***************************************************************************)
(* access-control-service opening a door from afar.  A call claims its     *)
(* request id in Redis for ten minutes, checks the operator's permission,  *)
(* sends the command through device-service (DeviceCommand: the command of *)
(* a call has the call's name) and waits 800 ms for the answer.  A call    *)
(* that was denied, failed or timed out releases the request id for a      *)
(* retry; a call that finds the id claimed answers "success" without       *)
(* opening anything.                                                       *)
(***************************************************************************)
EXTENDS DeviceCommand

CONSTANTS
    NoId,               \* a call without a request id: no idempotency
    RequestOf,          \* [Commands -> request ids and NoId]
    MaxDoorFaults       \* Redis failures, timeouts and expiries in a behaviour

ASSUME DoorAssumption == MaxDoorFaults \in Nat

VARIABLES
    door,          \* [Commands -> where the call is; see the type]
    claimed,       \* the request ids claimed in Redis
    lapsed,        \* history: request ids whose key has expired
    doorFaults

doorVars == <<door, claimed, lapsed, doorFaults>>

Ids    == {RequestOf[k] : k \in Commands} \ {NoId}
Failed == {"denied", "failed", "error", "refused"}

DoorTypeOK ==
    /\ door \in [Commands -> {"idle", "decide", "send", "wait", "opened", "duplicate"} \cup Failed]
    /\ claimed \subseteq Ids /\ lapsed \subseteq Ids
    /\ doorFaults \in 0..MaxDoorFaults

DoorInit ==
    /\ DeviceInit
    /\ door = [k \in Commands |-> "idle"]
    /\ claimed = {} /\ lapsed = {}
    /\ doorFaults = 0

Calls(k, to) == door' = [door EXCEPT ![k] = to]
DoorFault    == doorFaults < MaxDoorFaults /\ doorFaults' = doorFaults + 1

----------------------------------------------------------------------------
\* Mutant: the request id is ignored.
NeverSeen(k) == FALSE

\* isDuplicate: SETNX access:remote-open:{tenant}:{request id}.
Seen(k) == RequestOf[k] \in claimed

Claim(k) ==
    /\ door[k] = "idle"
    /\ IF Seen(k)
       THEN Calls(k, "duplicate") /\ UNCHANGED claimed
       ELSE Calls(k, "decide") /\ claimed' = claimed \cup ({RequestOf[k]} \ {NoId})
    /\ UNCHANGED <<deviceVars, lapsed, doorFaults>>

\* Redis does not answer: no door is opened, and the key may be set all the same.
\* go-redis repeats the SETNX, which then meets the key of the call itself.
ClaimFails(k) ==
    /\ door[k] = "idle" /\ RequestOf[k] # NoId
    /\ DoorFault
    /\ \/ Calls(k, "refused") /\ UNCHANGED claimed
       \/ /\ Calls(k, "refused") \/ Calls(k, "duplicate")
          /\ claimed' = claimed \cup {RequestOf[k]}
    /\ UNCHANGED <<deviceVars, lapsed>>

\* authorize: the operator's permission, else the list of open doors.
Authorize(k) ==
    /\ door[k] = "decide"
    /\ Calls(k, "send") \/ Calls(k, "denied")
    /\ UNCHANGED <<deviceVars, claimed, lapsed, doorFaults>>

\* sendCommand: device-service refuses the command or logs it, and goes on.
SendCommand(k) ==
    /\ door[k] = "send"
    /\ Insert(k) \/ Refuse(k)
    /\ Calls(k, "wait")
    /\ UNCHANGED <<claimed, lapsed, doorFaults>>

Answered(k) ==
    /\ door[k] = "wait"
    /\ \/ sender[k] = "ok" /\ Calls(k, "opened")
       \/ sender[k] \in {"error", "gone"} /\ Calls(k, "failed")
    /\ UNCHANGED <<deviceVars, claimed, lapsed, doorFaults>>

TimesOut(k) ==
    /\ door[k] = "wait"
    /\ DoorFault
    /\ Calls(k, "failed")
    /\ UNCHANGED <<deviceVars, claimed, lapsed>>

\* releaseDuplicate, after the audit rows.
MustRelease(k) == door[k] \in {"denied", "failed"}

ReleaseId(k) ==
    /\ MustRelease(k)
    /\ Calls(k, "error")
    /\ claimed' = claimed \ {RequestOf[k]}
    /\ UNCHANGED <<deviceVars, lapsed, doorFaults>>

ReleaseFails(k) ==
    /\ MustRelease(k) /\ RequestOf[k] # NoId
    /\ DoorFault
    /\ Calls(k, "error")
    /\ UNCHANGED <<deviceVars, claimed, lapsed>>

\* remoteOpenDedupTTL: the key lives ten minutes.
IdExpires(i) ==
    /\ i \in claimed
    /\ DoorFault
    /\ claimed' = claimed \ {i}
    /\ lapsed' = lapsed \cup {i}
    /\ UNCHANGED <<deviceVars, door>>

DeviceGoesOn == Underway /\ UNCHANGED doorVars

DoorNext ==
    \/ \E k \in Commands :
           \/ Claim(k) \/ ClaimFails(k) \/ Authorize(k) \/ SendCommand(k)
           \/ Answered(k) \/ TimesOut(k) \/ ReleaseId(k) \/ ReleaseFails(k)
    \/ \E i \in Ids : IdExpires(i)
    \/ DeviceGoesOn

DoorSpec == DoorInit /\ [][DoorNext]_<<deviceVars, doorVars>>

----------------------------------------------------------------------------
SameRequest(j, k) == j # k /\ RequestOf[j] = RequestOf[k] /\ RequestOf[k] # NoId

\* "只下发一次开门命令": of two commands for one request id, one belongs to a call
\* that was answered with an error, unless the key of the id has expired: an id
\* that is used again ten minutes after it opened the door opens it once more.
OneCommandPerRequest ==
    \A j, k \in Commands :
        SameRequest(j, k) /\ command[j] # "none" /\ command[k] # "none"
            => \/ door[j] \in Failed \/ door[k] \in Failed
               \/ RequestOf[k] \in lapsed
================================================================================
