--------------------------------- MODULE Shadow ---------------------------------
(***************************************************************************)
(* The shadow of a device, kept twice.  device_db: telemetry handlers of   *)
(* device-service merge metrics into "reported" with an optimistic lock,   *)
(* and deleting the device deletes the row.  shadow_db: callers of         *)
(* shadow-service replace "desired" or "reported", with the version they   *)
(* read or with 0 for "whatever it is now".  A message stands for the      *)
(* metric it reports; a row of shadow_db for the updates it has taken.     *)
(***************************************************************************)
EXTENDS Naturals, Sequences

CONSTANTS
    Merges,             \* telemetry messages being handled
    Updates,            \* callers of UpdateDesired and UpdateReported
    NoShadow,           \* the row does not exist
    Attempts,           \* mergeReportedMaxAttempts
    MaxShadowFaults     \* database errors and crashes in a behaviour

ASSUME ShadowAssumption ==
    /\ Attempts \in Nat \ {0}
    /\ MaxShadowFaults \in Nat
    /\ NoShadow \notin [reported : SUBSET Merges, version : Nat]
    /\ NoShadow \notin [by : Seq(Updates), version : Nat]

VARIABLES
    device,        \* the device: "live", "deleting" (its shadow still there), "deleted"
    local,         \* the row of device_db
    remote,        \* the row of shadow_db
    merge,         \* [Merges -> [at, seen, tries]]
    update,        \* [Updates -> [at, want, version, saw, base]]
    shadowFaults

shadowVars == <<device, local, remote, merge, update, shadowFaults>>

LocalRow  == [reported : SUBSET Merges, version : Nat]
RemoteRow == [by : Seq(Updates), version : Nat]
EmptyLocal  == [reported |-> {}, version |-> 0]
EmptyRemote == [by |-> <<>>, version |-> 0]
\* Somebody updated it before.
UsedRemote  == [by |-> <<>>, version |-> 1]

Handling == [at : {"read", "insert", "write", "kept", "lost"}, seen : LocalRow, tries : 0..Attempts]
Calling  == [at : {"idle", "resolve", "write", "applied", "conflict", "error"},
             want : Nat, version : Nat, saw : Seq(Updates), base : Seq(Updates)]

ShadowTypeOK ==
    /\ device \in {"live", "deleting", "deleted"}
    /\ local \in LocalRow \cup {NoShadow}
    /\ remote \in RemoteRow \cup {NoShadow}
    /\ merge \in [Merges -> Handling]
    /\ update \in [Updates -> Calling]
    /\ shadowFaults \in 0..MaxShadowFaults

\* A device registered long ago may have no row in device_db, and has a row in
\* shadow_db if somebody ensured it.
ShadowInit ==
    /\ device = "live"
    /\ local \in {NoShadow, EmptyLocal}
    /\ remote \in {NoShadow, UsedRemote}
    /\ merge = [m \in Merges |-> [at |-> "read", seen |-> EmptyLocal, tries |-> 0]]
    /\ update = [u \in Updates |->
                    [at |-> "idle", want |-> 0, version |-> 0, saw |-> <<>>, base |-> <<>>]]
    /\ shadowFaults = 0

ShadowFault == shadowFaults < MaxShadowFaults /\ shadowFaults' = shadowFaults + 1

----------------------------------------------------------------------------
(* mergeReported, and handleTelemetry around it *)

MergeTo(m, at) == merge' = [merge EXCEPT ![m].at = at]

Read(m) ==
    /\ merge[m].at = "read"
    /\ IF local = NoShadow
       THEN MergeTo(m, "insert")
       ELSE merge' = [merge EXCEPT ![m].at = "write", ![m].seen = local]
    /\ UNCHANGED <<device, local, remote, update, shadowFaults>>

\* The row is created; if another handler was first, the unique key makes this
\* one fail, the error is logged and the message committed.
InsertRow(m) ==
    /\ merge[m].at = "insert"
    /\ IF local = NoShadow
       THEN /\ local' = EmptyLocal
            /\ merge' = [merge EXCEPT ![m].at = "write", ![m].seen = EmptyLocal]
       ELSE MergeTo(m, "lost") /\ UNCHANGED local
    /\ UNCHANGED <<device, remote, update, shadowFaults>>

\* Mutant: UPDATE ... WHERE device_id = ?
AnyVersionOf(m) == local # NoShadow

\* UPDATE ... WHERE device_id = ? AND version = ?
Unchanged(m) == local # NoShadow /\ local.version = merge[m].seen.version

Merged(m) == [reported |-> merge[m].seen.reported \cup {m},
              version |-> merge[m].seen.version + 1]

Merge(m) ==
    /\ merge[m].at = "write"
    /\ Unchanged(m)
    /\ local' = Merged(m)
    /\ MergeTo(m, "kept")
    /\ UNCHANGED <<device, remote, update, shadowFaults>>

Retry(m) ==
    /\ merge[m].at = "write"
    /\ ~Unchanged(m)
    /\ LET tries == merge[m].tries + 1
       IN  merge' = [merge EXCEPT ![m].tries = tries,
                                  ![m].at = IF tries < Attempts THEN "read" ELSE "lost"]
    /\ UNCHANGED <<device, local, remote, update, shadowFaults>>

\* A database error ends the handler; after a crash the message comes again.
\* Either way the statement may have been carried out.
MergeFails(m) ==
    /\ merge[m].at \in {"read", "insert", "write"}
    /\ ShadowFault
    /\ \/ UNCHANGED local
       \/ merge[m].at = "insert" /\ local = NoShadow /\ local' = EmptyLocal
       \/ merge[m].at = "write" /\ Unchanged(m) /\ local' = Merged(m)
    /\ \/ MergeTo(m, "lost")
       \/ merge' = [merge EXCEPT ![m].at = "read", ![m].tries = 0]
    /\ UNCHANGED <<device, remote, update>>

(* DeviceDelete: the device first, then its shadow; a failure of the second
   step is only logged. *)
SoftDelete ==
    /\ device = "live"
    /\ device' = "deleting"
    /\ UNCHANGED <<local, remote, merge, update, shadowFaults>>

DeleteShadow ==
    /\ device = "deleting"
    /\ device' = "deleted"
    /\ \/ local' = NoShadow /\ UNCHANGED shadowFaults
       \/ ShadowFault /\ UNCHANGED local
    /\ UNCHANGED <<remote, merge, update>>

----------------------------------------------------------------------------
(* shadow-service *)

EnsureShadow ==
    /\ remote = NoShadow
    /\ remote' = EmptyRemote
    /\ UNCHANGED <<device, local, merge, update, shadowFaults>>

\* The caller reads the shadow, and passes on the version it read or 0.
Ask(u) ==
    /\ update[u].at = "idle"
    /\ remote # NoShadow
    /\ \E want \in {0, remote.version} :
           update' = [update EXCEPT ![u].at = "resolve", ![u].want = want,
                                    ![u].saw = remote.by]
    /\ UNCHANGED <<device, local, remote, merge, shadowFaults>>

\* resolveVersion
Resolve(u) ==
    /\ update[u].at = "resolve"
    /\ update' = [update EXCEPT ![u].at = "write",
                                ![u].version = IF update[u].want = 0 THEN remote.version
                                                                     ELSE update[u].want]
    /\ UNCHANGED <<device, local, remote, merge, shadowFaults>>

\* Mutant: UPDATE ... WHERE device_id = ?
Always(u) == TRUE

\* UPDATE ... WHERE device_id = ? AND version = ?
Matches(u) == remote.version = update[u].version

Updated(u) == [by |-> Append(remote.by, u), version |-> update[u].version + 1]

Apply(u) ==
    /\ update[u].at = "write"
    /\ IF Matches(u)
       THEN /\ remote' = Updated(u)
            /\ update' = [update EXCEPT ![u].at = "applied", ![u].base = remote.by]
       ELSE /\ update' = [update EXCEPT ![u].at = "conflict"]
            /\ UNCHANGED remote
    /\ UNCHANGED <<device, local, merge, shadowFaults>>

\* An error is answered, whatever the database did.
ApplyFails(u) ==
    /\ update[u].at = "write"
    /\ ShadowFault
    /\ UNCHANGED remote \/ (Matches(u) /\ remote' = Updated(u))
    /\ update' = [update EXCEPT ![u].at = "error"]
    /\ UNCHANGED <<device, local, merge>>

----------------------------------------------------------------------------
ShadowNext ==
    \/ \E m \in Merges : Read(m) \/ InsertRow(m) \/ Merge(m) \/ Retry(m) \/ MergeFails(m)
    \/ SoftDelete \/ DeleteShadow
    \/ EnsureShadow
    \/ \E u \in Updates : Ask(u) \/ Resolve(u) \/ Apply(u) \/ ApplyFails(u)

ShadowSpec == ShadowInit /\ [][ShadowNext]_shadowVars

----------------------------------------------------------------------------
\* While the device lives, a merge that reported success stays in its shadow,
\* whatever the other handlers do.
MergesKept ==
    \A m \in Merges :
        merge[m].at = "kept" /\ device # "deleted" => local # NoShadow /\ m \in local.reported

\* An update made with a version the caller read replaces exactly what it read.
ChecksWhatItRead ==
    \A u \in Updates : update[u].at = "applied" /\ update[u].want # 0 => update[u].base = update[u].saw

\* Neither table loses an update that was reported done.
NoLostUpdate == MergesKept /\ ChecksWhatItRead
================================================================================
