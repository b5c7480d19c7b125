----------------------------- MODULE OperationsProofs -----------------------------
(***************************************************************************)
(* What MCOperations checks on an instance, for every one: neither table   *)
(* of device shadows loses an update (Shadow), an invitation opens the     *)
(* door once (Visitor), a request id sends one command (RemoteOpen),       *)
(* neither people nor the daily job overwrite a lease (Lease), a longer    *)
(* stay is not cheaper (ParkingFee), and the lines of a bill account for   *)
(* what it bills (Billing).  The run implements the specification of each  *)
(* service, and keeps their types.                                         *)
(***************************************************************************)
EXTENDS MCOperations, DispatchTaskProofs, FoldLemmas, TLAPS

------------------------------------------------------------------------------
(* Shadows.                                                                *)

\* A handler gives up at its last attempt.
Trying ==
    \A m \in Merges : merge[m].at \in {"read", "insert", "write"} => merge[m].tries < Attempts

\* A handler writes on top of a row of the past; it is the present one if the
\* version is.
SeenEarlier ==
    \A m \in Merges : merge[m].at = "write" /\ device # "deleted" =>
        /\ local # NoShadow
        /\ merge[m].seen.version <= local.version
        /\ merge[m].seen.version = local.version => merge[m].seen.reported = local.reported

\* So does a caller of shadow-service that names a version.
AskedEarlier ==
    \A u \in Updates :
        /\ update[u].at # "idle" => remote # NoShadow
        /\ update[u].at = "write" /\ update[u].want # 0 => update[u].version = update[u].want
        /\ update[u].at \in {"resolve", "write"} /\ update[u].want # 0 =>
             /\ update[u].want <= remote.version
             /\ update[u].want = remote.version => update[u].saw = remote.by

LocalInv  == Trying /\ SeenEarlier /\ MergesKept
RemoteInv == AskedEarlier /\ ChecksWhatItRead
ShadowIInv == ShadowTypeOK /\ LocalInv /\ RemoteInv

LEMMA ShadowStarts == ShadowInit => ShadowIInv
<1> SUFFICES ASSUME ShadowInit  PROVE ShadowIInv
  OBVIOUS
<1>1. EmptyLocal \in LocalRow /\ <<>> \in Seq(Updates)
  BY DEF EmptyLocal, LocalRow
<1>0. UsedRemote \in RemoteRow
  BY <1>1 DEF UsedRemote, RemoteRow
<1>2. /\ merge \in [Merges -> Handling]
      /\ \A m \in Merges : merge[m].at = "read" /\ merge[m].tries = 0
  BY <1>1, ShadowAssumption DEF ShadowInit, Handling
<1>3. /\ update \in [Updates -> Calling]
      /\ \A u \in Updates : update[u].at = "idle"
  BY <1>1 DEF ShadowInit, Calling
<1>4. ShadowTypeOK
  BY <1>0, <1>1, <1>2, <1>3, ShadowAssumption DEF ShadowInit, ShadowTypeOK
<1>5. LocalInv
  BY <1>2, ShadowAssumption DEF LocalInv, Trying, SeenEarlier, MergesKept
<1>6. RemoteInv
  BY <1>3 DEF RemoteInv, AskedEarlier, ChecksWhatItRead
<1> QED  BY <1>4, <1>5, <1>6 DEF ShadowIInv

\* A row of device_db is a record, and the record is no NoShadow.
LEMMA LocalRows ==
  ASSUME NEW copy \in LocalRow
  PROVE  copy # NoShadow /\ copy.version \in Nat /\ copy.reported \in SUBSET Merges
  BY ShadowAssumption DEF LocalRow

LEMMA RemoteRows ==
  ASSUME NEW copy \in RemoteRow
  PROVE  copy # NoShadow /\ copy.version \in Nat /\ copy.by \in Seq(Updates)
  BY ShadowAssumption DEF RemoteRow

\* Where a handler goes, and what it leaves alone.
LEMMA HandlerMoves ==
  ASSUME ShadowTypeOK, NEW m \in Merges, NEW at \in {"read", "insert", "write", "kept", "lost"},
         MergeTo(m, at)
  PROVE  /\ merge' \in [Merges -> Handling]
         /\ merge'[m].at = at
         /\ merge'[m].seen = merge[m].seen /\ merge'[m].tries = merge[m].tries
         /\ \A n \in Merges \ {m} : merge'[n] = merge[n]
<1>1. merge[m] \in Handling /\ merge' = [merge EXCEPT ![m] = [merge[m] EXCEPT !.at = at]]
  BY DEF ShadowTypeOK, MergeTo
<1>2. [merge[m] EXCEPT !.at = at] \in Handling
  BY <1>1 DEF Handling
<1> QED  BY <1>1, <1>2 DEF ShadowTypeOK, Handling

LEMMA HandlerReads ==
  ASSUME ShadowTypeOK, NEW m \in Merges, NEW copy \in LocalRow,
         merge' = [merge EXCEPT ![m].at = "write", ![m].seen = copy]
  PROVE  /\ merge' \in [Merges -> Handling]
         /\ merge'[m].at = "write"
         /\ merge'[m].seen = copy /\ merge'[m].tries = merge[m].tries
         /\ \A n \in Merges \ {m} : merge'[n] = merge[n]
<1>1. /\ merge[m] \in Handling
      /\ merge' = [merge EXCEPT ![m] = [merge[m] EXCEPT !.at = "write", !.seen = copy]]
  BY DEF ShadowTypeOK
<1>2. [merge[m] EXCEPT !.at = "write", !.seen = copy] \in Handling
  BY <1>1 DEF Handling
<1> QED  BY <1>1, <1>2 DEF ShadowTypeOK, Handling

LEMMA HandlerTries ==
  ASSUME ShadowTypeOK, NEW m \in Merges, NEW at \in {"read", "lost"}, NEW n \in 0..Attempts,
         merge' = [merge EXCEPT ![m].at = at, ![m].tries = n]
  PROVE  /\ merge' \in [Merges -> Handling]
         /\ merge'[m].at = at
         /\ merge'[m].seen = merge[m].seen /\ merge'[m].tries = n
         /\ \A o \in Merges \ {m} : merge'[o] = merge[o]
<1>1. /\ merge[m] \in Handling
      /\ merge' = [merge EXCEPT ![m] = [merge[m] EXCEPT !.at = at, !.tries = n]]
  BY DEF ShadowTypeOK
<1>2. [merge[m] EXCEPT !.at = at, !.tries = n] \in Handling
  BY <1>1 DEF Handling
<1> QED  BY <1>1, <1>2 DEF ShadowTypeOK, Handling

\* A handler that is not about to write on top of the row disturbs no other.
LEMMA HandlerElsewhere ==
  ASSUME ShadowTypeOK, LocalInv, NEW m \in Merges, UNCHANGED <<device, local>>,
         merge' \in [Merges -> Handling],
         merge'[m].at \in {"read", "insert", "write"} => merge'[m].tries < Attempts,
         merge'[m].at = "write" => merge'[m].seen = local /\ local # NoShadow,
         merge'[m].at # "kept",
         \A n \in Merges \ {m} : merge'[n] = merge[n]
  PROVE  LocalInv'
<1>1. Trying'
  BY DEF LocalInv, Trying
<1>2. SeenEarlier'
  BY LocalRows DEF ShadowTypeOK, LocalInv, SeenEarlier
<1>3. MergesKept'
  BY DEF LocalInv, MergesKept
<1> QED  BY <1>1, <1>2, <1>3 DEF LocalInv

LEMMA ReadKeeps ==
  ASSUME ShadowTypeOK, LocalInv, NEW m \in Merges, Read(m)
  PROVE  ShadowTypeOK' /\ LocalInv'
<1>1. merge[m].at = "read" /\ UNCHANGED <<device, local, remote, update, shadowFaults>>
  BY DEF Read
<1>2. merge[m].tries < Attempts
  BY <1>1 DEF LocalInv, Trying
<1>3. CASE local = NoShadow
  <2>1. MergeTo(m, "insert")
    BY <1>3 DEF Read
  <2> QED  BY <1>1, <1>2, <2>1, HandlerMoves, HandlerElsewhere DEF ShadowTypeOK
<1>4. CASE local # NoShadow
  <2>1. merge' = [merge EXCEPT ![m].at = "write", ![m].seen = local] /\ local \in LocalRow
    BY <1>4 DEF Read, ShadowTypeOK
  <2> QED  BY <1>1, <1>2, <1>4, <2>1, HandlerReads, HandlerElsewhere DEF ShadowTypeOK
<1> QED  BY <1>3, <1>4

\* The statement of the insert, answered or not.
LEMMA InsertedKeeps ==
  ASSUME ShadowTypeOK, LocalInv, NEW m \in Merges,
         local = NoShadow, local' = EmptyLocal, UNCHANGED <<device, remote, update>>,
         shadowFaults' \in 0..MaxShadowFaults, merge' \in [Merges -> Handling],
         merge'[m].at \in {"read", "write", "lost"},
         merge'[m].at = "write" => merge'[m].seen = EmptyLocal,
         merge'[m].at # "lost" => merge'[m].tries < Attempts,
         \A n \in Merges \ {m} : merge'[n] = merge[n]
  PROVE  ShadowTypeOK' /\ LocalInv'
<1>1. EmptyLocal \in LocalRow /\ EmptyLocal # NoShadow
  BY LocalRows DEF EmptyLocal, LocalRow
<1>2. ShadowTypeOK'
  BY <1>1 DEF ShadowTypeOK
<1>3. Trying'
  BY DEF LocalInv, Trying
<1>4. SeenEarlier'
  BY <1>1 DEF LocalInv, SeenEarlier, EmptyLocal
<1>5. MergesKept'
  BY DEF LocalInv, MergesKept
<1> QED  BY <1>2, <1>3, <1>4, <1>5 DEF LocalInv

LEMMA InsertKeeps ==
  ASSUME ShadowTypeOK, LocalInv, NEW m \in Merges, InsertRow(m)
  PROVE  ShadowTypeOK' /\ LocalInv'
<1>1. merge[m].at = "insert" /\ UNCHANGED <<device, remote, update, shadowFaults>>
  BY DEF InsertRow
<1>2. merge[m].tries < Attempts
  BY <1>1 DEF LocalInv, Trying
<1>3. CASE local = NoShadow
  <2>1. local' = EmptyLocal /\ merge' = [merge EXCEPT ![m].at = "write", ![m].seen = EmptyLocal]
    BY <1>3 DEF InsertRow
  <2>2. EmptyLocal \in LocalRow
    BY DEF EmptyLocal, LocalRow
  <2>3. /\ merge' \in [Merges -> Handling]
        /\ merge'[m].at = "write"
        /\ merge'[m].seen = EmptyLocal /\ merge'[m].tries = merge[m].tries
        /\ \A n \in Merges \ {m} : merge'[n] = merge[n]
    BY <2>1, <2>2, HandlerReads
  <2>4. shadowFaults' \in 0..MaxShadowFaults
    BY <1>1 DEF ShadowTypeOK
  <2> QED  BY <1>1, <1>2, <1>3, <2>1, <2>3, <2>4, InsertedKeeps
<1>4. CASE local # NoShadow
  <2>1. MergeTo(m, "lost") /\ UNCHANGED local
    BY <1>4 DEF InsertRow
  <2> QED  BY <1>1, <1>2, <2>1, HandlerMoves, HandlerElsewhere DEF ShadowTypeOK
<1> QED  BY <1>3, <1>4

\* The statement of the merge, answered or not.
LEMMA MergedKeeps ==
  ASSUME ShadowTypeOK, LocalInv, NEW m \in Merges,
         merge[m].at = "write", Unchanged(m), local' = Merged(m),
         UNCHANGED <<device, remote, update>>, shadowFaults' \in 0..MaxShadowFaults,
         merge' \in [Merges -> Handling], merge'[m].at \in {"kept", "read", "lost"},
         merge'[m].at = "read" => merge'[m].tries < Attempts,
         \A n \in Merges \ {m} : merge'[n] = merge[n]
  PROVE  ShadowTypeOK' /\ LocalInv'
<1>1. /\ local \in LocalRow /\ merge[m].seen \in LocalRow
      /\ local.version = merge[m].seen.version
      /\ local' \in LocalRow
      /\ local'.version = local.version + 1
      /\ local'.reported = merge[m].seen.reported \cup {m}
  BY LocalRows DEF ShadowTypeOK, Merged, Unchanged, LocalRow, Handling
<1>2. ShadowTypeOK'
  BY <1>1 DEF ShadowTypeOK
<1>3. Trying'
  BY DEF LocalInv, Trying
<1>4. SeenEarlier'
  <2> SUFFICES ASSUME NEW n \in Merges, merge'[n].at = "write", device' # "deleted"
               PROVE  /\ local' # NoShadow
                      /\ merge'[n].seen.version <= local'.version
                      /\ merge'[n].seen.version # local'.version
    BY DEF SeenEarlier
  <2>1. n # m /\ merge'[n] = merge[n] /\ merge[n].seen \in LocalRow
    BY DEF ShadowTypeOK, Handling
  <2>2. merge[n].seen.version <= local.version
    BY <2>1 DEF LocalInv, SeenEarlier
  <2> QED  BY <1>1, <2>1, <2>2, LocalRows
<1>5. MergesKept'
  <2> SUFFICES ASSUME NEW n \in Merges, merge'[n].at = "kept", device' # "deleted"
               PROVE  n \in local'.reported
    BY <1>1, LocalRows DEF MergesKept
  <2>1. local.reported = merge[m].seen.reported
    BY <1>1 DEF LocalInv, SeenEarlier
  <2> QED  BY <1>1, <2>1 DEF LocalInv, MergesKept
<1> QED  BY <1>2, <1>3, <1>4, <1>5 DEF LocalInv

LEMMA MergeKeeps ==
  ASSUME ShadowTypeOK, LocalInv, NEW m \in Merges, Merge(m)
  PROVE  ShadowTypeOK' /\ LocalInv'
<1>1. /\ merge[m].at = "write" /\ MergeTo(m, "kept") /\ Unchanged(m) /\ local' = Merged(m)
      /\ UNCHANGED <<device, remote, update, shadowFaults>>
  BY DEF Merge
<1>2. /\ merge' \in [Merges -> Handling]
      /\ merge'[m].at = "kept"
      /\ \A n \in Merges \ {m} : merge'[n] = merge[n]
  BY <1>1, HandlerMoves
<1>3. shadowFaults' \in 0..MaxShadowFaults
  BY <1>1 DEF ShadowTypeOK
<1> QED  BY <1>1, <1>2, <1>3, MergedKeeps

LEMMA RetryKeeps ==
  ASSUME ShadowTypeOK, LocalInv, NEW m \in Merges, Retry(m)
  PROVE  ShadowTypeOK' /\ LocalInv'
<1> DEFINE tries == merge[m].tries + 1
           at    == IF tries < Attempts THEN "read" ELSE "lost"
<1>1. /\ merge[m].at = "write" /\ UNCHANGED <<device, local, remote, update, shadowFaults>>
      /\ merge' = [merge EXCEPT ![m].at = at, ![m].tries = tries]
  BY DEF Retry, ShadowTypeOK, Handling
<1>2. tries \in 0..Attempts /\ at \in {"read", "lost"} /\ (at = "read" => tries < Attempts)
  BY <1>1, ShadowAssumption DEF ShadowTypeOK, Handling, LocalInv, Trying
<1> HIDE DEF tries, at
<1>3. /\ merge' \in [Merges -> Handling]
      /\ merge'[m].at = at /\ merge'[m].tries = tries
      /\ \A o \in Merges \ {m} : merge'[o] = merge[o]
  BY <1>1, <1>2, HandlerTries
<1>4. LocalInv'
  BY <1>1, <1>2, <1>3, HandlerElsewhere
<1> QED  BY <1>1, <1>3, <1>4 DEF ShadowTypeOK

LEMMA MergeFailsKeeps ==
  ASSUME ShadowTypeOK, LocalInv, NEW m \in Merges, MergeFails(m)
  PROVE  ShadowTypeOK' /\ LocalInv'
<1>1. UNCHANGED <<device, remote, update>> /\ shadowFaults' \in 0..MaxShadowFaults
  BY ShadowAssumption DEF MergeFails, ShadowFault, ShadowTypeOK
<1>2. /\ merge' \in [Merges -> Handling]
      /\ merge'[m].at \in {"read", "lost"}
      /\ merge'[m].at = "read" => merge'[m].tries < Attempts
      /\ \A n \in Merges \ {m} : merge'[n] = merge[n]
  <2>1. CASE MergeTo(m, "lost")
    BY <2>1, HandlerMoves
  <2>2. CASE merge' = [merge EXCEPT ![m].at = "read", ![m].tries = 0]
    <3>1. 0 \in 0..Attempts /\ 0 < Attempts
      BY ShadowAssumption
    <3>2. /\ merge' \in [Merges -> Handling]
          /\ merge'[m].at = "read" /\ merge'[m].tries = 0
          /\ \A o \in Merges \ {m} : merge'[o] = merge[o]
      BY <2>2, <3>1, HandlerTries
    <3> QED  BY <3>1, <3>2
  <2> QED  BY <2>1, <2>2 DEF MergeFails
<1>3. CASE UNCHANGED local
  <2>1. ShadowTypeOK'
    BY <1>1, <1>2, <1>3 DEF ShadowTypeOK
  <2> QED  BY <1>1, <1>2, <1>3, <2>1, HandlerElsewhere
<1>4. CASE local = NoShadow /\ local' = EmptyLocal
  BY <1>1, <1>2, <1>4, InsertedKeeps
<1>5. CASE merge[m].at = "write" /\ Unchanged(m) /\ local' = Merged(m)
  BY <1>1, <1>2, <1>5, MergedKeeps
<1> QED  BY <1>3, <1>4, <1>5 DEF MergeFails

LEMMA DeletingKeeps ==
  ASSUME ShadowTypeOK, LocalInv, SoftDelete \/ DeleteShadow
  PROVE  ShadowTypeOK' /\ LocalInv'
<1>1. ShadowTypeOK'
  BY ShadowAssumption DEF ShadowTypeOK, SoftDelete, DeleteShadow, ShadowFault
<1>2. LocalInv'
  BY DEF ShadowTypeOK, LocalInv, Trying, SeenEarlier, MergesKept, SoftDelete, DeleteShadow
<1> QED  BY <1>1, <1>2

\* The handlers of telemetry leave the table of shadow-service alone, and its
\* callers theirs.
LEMMA RemoteAlone ==
  ASSUME RemoteInv, UNCHANGED <<remote, update>>
  PROVE  RemoteInv'
  BY DEF RemoteInv, AskedEarlier, ChecksWhatItRead

LEMMA LocalAlone ==
  ASSUME LocalInv, UNCHANGED <<device, local, merge>>
  PROVE  LocalInv'
  BY DEF LocalInv, Trying, SeenEarlier, MergesKept

LEMMA EnsureKeeps ==
  ASSUME ShadowTypeOK, RemoteInv, EnsureShadow
  PROVE  ShadowTypeOK' /\ RemoteInv'
<1>0. EmptyRemote \in RemoteRow
  BY DEF EmptyRemote, RemoteRow
<1>1. ShadowTypeOK'
  BY <1>0 DEF ShadowTypeOK, EnsureShadow
<1>2. RemoteInv'
  BY <1>0, RemoteRows DEF ShadowTypeOK, RemoteInv, AskedEarlier, ChecksWhatItRead, EnsureShadow
<1> QED  BY <1>1, <1>2

LEMMA AskKeeps ==
  ASSUME ShadowTypeOK, RemoteInv, NEW u \in Updates, Ask(u)
  PROVE  ShadowTypeOK' /\ RemoteInv'
<1>1. PICK want \in {0, remote.version} :
           update' = [update EXCEPT ![u].at = "resolve", ![u].want = want,
                                    ![u].saw = remote.by]
  BY DEF Ask
<1>2. /\ remote \in RemoteRow /\ remote.version \in Nat /\ remote.by \in Seq(Updates)
      /\ remote # NoShadow /\ want \in Nat
  BY RemoteRows DEF ShadowTypeOK, Ask
<1>3. update' \in [Updates -> Calling]
  <2>1. /\ update[u] \in Calling
        /\ update' = [update EXCEPT ![u] = [update[u] EXCEPT !.at = "resolve", !.want = want,
                                                             !.saw = remote.by]]
    BY <1>1 DEF ShadowTypeOK
  <2>2. [update[u] EXCEPT !.at = "resolve", !.want = want, !.saw = remote.by] \in Calling
    BY <1>2, <2>1 DEF Calling
  <2> QED  BY <2>1, <2>2 DEF ShadowTypeOK
<1>4. ShadowTypeOK'
  BY <1>3 DEF ShadowTypeOK, Ask
<1>5. RemoteInv'
  BY <1>1, <1>2 DEF ShadowTypeOK, Calling, RemoteInv, AskedEarlier, ChecksWhatItRead, Ask
<1> QED  BY <1>4, <1>5

LEMMA ResolveKeeps ==
  ASSUME ShadowTypeOK, RemoteInv, NEW u \in Updates, Resolve(u)
  PROVE  ShadowTypeOK' /\ RemoteInv'
<1> DEFINE v == IF update[u].want = 0 THEN remote.version ELSE update[u].want
<1>1. update' = [update EXCEPT ![u].at = "write", ![u].version = v]
  BY DEF Resolve
<1>2. remote \in RemoteRow /\ remote.version \in Nat /\ v \in Nat
  BY RemoteRows DEF ShadowTypeOK, Calling, RemoteInv, AskedEarlier, Resolve
<1>3. update' \in [Updates -> Calling]
  <2>1. /\ update[u] \in Calling
        /\ update' = [update EXCEPT ![u] = [update[u] EXCEPT !.at = "write", !.version = v]]
    BY <1>1 DEF ShadowTypeOK
  <2>2. [update[u] EXCEPT !.at = "write", !.version = v] \in Calling
    BY <1>2, <2>1 DEF Calling
  <2> QED  BY <2>1, <2>2 DEF ShadowTypeOK
<1>4. ShadowTypeOK'
  BY <1>3 DEF ShadowTypeOK, Resolve
<1>5. RemoteInv'
  BY <1>1, <1>2 DEF ShadowTypeOK, Calling, RemoteInv, AskedEarlier, ChecksWhatItRead, Resolve
<1> QED  BY <1>4, <1>5

LEMMA ApplyKeeps ==
  ASSUME ShadowTypeOK, RemoteInv, NEW u \in Updates, Apply(u)
  PROVE  ShadowTypeOK' /\ RemoteInv'
<1>1. /\ remote \in RemoteRow /\ remote # NoShadow
      /\ remote.version \in Nat /\ remote.by \in Seq(Updates)
      /\ update[u] \in Calling
  BY RemoteRows DEF ShadowTypeOK, RemoteInv, AskedEarlier, Apply
<1>2. CASE Matches(u)
  <2>1. /\ remote' \in RemoteRow /\ remote' # NoShadow
        /\ remote'.version = remote.version + 1
    BY <1>1, <1>2, RemoteRows DEF Apply, Matches, Updated, RemoteRow
  <2>2. update' = [update EXCEPT ![u].at = "applied", ![u].base = remote.by]
    BY <1>2 DEF Apply
  <2>3. update' \in [Updates -> Calling]
    <3>1. update' = [update EXCEPT ![u] = [update[u] EXCEPT !.at = "applied", !.base = remote.by]]
      BY <2>2 DEF ShadowTypeOK
    <3>2. [update[u] EXCEPT !.at = "applied", !.base = remote.by] \in Calling
      BY <1>1 DEF Calling
    <3> QED  BY <3>1, <3>2 DEF ShadowTypeOK
  <2>4. ShadowTypeOK'
    BY <2>1, <2>3 DEF ShadowTypeOK, Apply
  <2>5. AskedEarlier'
    BY <1>1, <2>1, <2>2 DEF ShadowTypeOK, Calling, RemoteInv, AskedEarlier
  <2>6. ChecksWhatItRead'
    BY <1>1, <1>2, <2>2 DEF ShadowTypeOK, Calling, RemoteInv, AskedEarlier, ChecksWhatItRead,
       Matches, Updated, Apply
  <2> QED  BY <2>4, <2>5, <2>6 DEF RemoteInv
<1>3. CASE ~Matches(u)
  <2>1. update' = [update EXCEPT ![u].at = "conflict"] /\ UNCHANGED remote
    BY <1>3 DEF Apply
  <2>2. update' \in [Updates -> Calling]
    <3>1. update' = [update EXCEPT ![u] = [update[u] EXCEPT !.at = "conflict"]]
      BY <2>1 DEF ShadowTypeOK
    <3>2. [update[u] EXCEPT !.at = "conflict"] \in Calling
      BY <1>1 DEF Calling
    <3> QED  BY <3>1, <3>2 DEF ShadowTypeOK
  <2>3. ShadowTypeOK'
    BY <2>1, <2>2 DEF ShadowTypeOK, Apply
  <2>4. RemoteInv'
    BY <1>1, <2>1 DEF ShadowTypeOK, Calling, RemoteInv, AskedEarlier, ChecksWhatItRead
  <2> QED  BY <2>3, <2>4
<1> QED  BY <1>2, <1>3

LEMMA ApplyFailsKeeps ==
  ASSUME ShadowTypeOK, RemoteInv, NEW u \in Updates, ApplyFails(u)
  PROVE  ShadowTypeOK' /\ RemoteInv'
<1>1. /\ remote \in RemoteRow /\ remote # NoShadow
      /\ remote.version \in Nat /\ remote.by \in Seq(Updates)
      /\ update[u] \in Calling /\ update \in [Updates -> Calling]
  BY RemoteRows DEF ShadowTypeOK, RemoteInv, AskedEarlier, ApplyFails
<1>2. /\ remote' \in RemoteRow /\ remote' # NoShadow
      /\ remote' = remote \/ remote'.version = remote.version + 1
  <2>1. CASE UNCHANGED remote
    BY <1>1, <2>1
  <2>2. CASE Matches(u) /\ remote' = Updated(u)
    <3>1. Append(remote.by, u) \in Seq(Updates) /\ remote.version + 1 \in Nat
      BY <1>1
    <3>2. remote' = [by |-> Append(remote.by, u), version |-> remote.version + 1]
      BY <2>2 DEF Matches, Updated
    <3>3. remote' \in RemoteRow /\ remote'.version = remote.version + 1
      BY <3>1, <3>2 DEF RemoteRow
    <3> QED  BY <3>3, RemoteRows
  <2> QED  BY <2>1, <2>2 DEF ApplyFails
<1>3. update' = [update EXCEPT ![u] = [update[u] EXCEPT !.at = "error"]]
  BY <1>1 DEF ApplyFails
<1>4. [update[u] EXCEPT !.at = "error"] \in Calling
  BY <1>1 DEF Calling
<1>5. /\ update' \in [Updates -> Calling]
      /\ update'[u].at = "error"
      /\ \A v \in Updates \ {u} : update'[v] = update[v]
  BY <1>1, <1>3, <1>4
<1>6. ShadowTypeOK'
  BY <1>2, <1>5, ShadowAssumption DEF ShadowTypeOK, ApplyFails, ShadowFault
<1>7. AskedEarlier'
  <2>1. ASSUME NEW v \in Updates \ {u}, update[v].at \in {"resolve", "write"}, update[v].want # 0
        PROVE  /\ update[v].want <= remote'.version
               /\ update[v].want = remote'.version => update[v].saw = remote'.by
    <3>1. /\ update[v].want \in Nat /\ update[v].want <= remote.version
          /\ update[v].want = remote.version => update[v].saw = remote.by
      BY <1>1, <2>1 DEF RemoteInv, AskedEarlier, Calling
    <3> QED  BY <1>1, <1>2, <3>1
  <2>2. ASSUME NEW v \in Updates, update'[v].at = "write", update'[v].want # 0
        PROVE  update'[v].version = update'[v].want
    BY <1>5, <2>2 DEF RemoteInv, AskedEarlier
  <2> QED  BY <1>2, <1>5, <2>1, <2>2 DEF AskedEarlier
<1>8. ChecksWhatItRead'
  BY <1>5 DEF RemoteInv, ChecksWhatItRead
<1> QED  BY <1>6, <1>7, <1>8 DEF RemoteInv

LEMMA ShadowKeeps == ShadowIInv /\ [ShadowNext]_shadowVars => ShadowIInv'
<1> SUFFICES ASSUME ShadowTypeOK, LocalInv, RemoteInv, [ShadowNext]_shadowVars
             PROVE  ShadowIInv'
  BY DEF ShadowIInv
<1>1. ASSUME NEW m \in Merges, Read(m) \/ InsertRow(m) \/ Merge(m) \/ Retry(m) \/ MergeFails(m)
      PROVE  ShadowIInv'
  <2>1. ShadowTypeOK' /\ LocalInv'
    BY <1>1, ReadKeeps, InsertKeeps, MergeKeeps, RetryKeeps, MergeFailsKeeps
  <2>2. RemoteInv'
    BY <1>1, RemoteAlone DEF Read, InsertRow, Merge, Retry, MergeFails
  <2> QED  BY <2>1, <2>2 DEF ShadowIInv
<1>2. CASE SoftDelete \/ DeleteShadow
  BY <1>2, DeletingKeeps, RemoteAlone DEF ShadowIInv, SoftDelete, DeleteShadow
<1>3. CASE EnsureShadow
  BY <1>3, EnsureKeeps, LocalAlone DEF ShadowIInv, EnsureShadow
<1>4. ASSUME NEW u \in Updates, Ask(u) \/ Resolve(u) \/ Apply(u) \/ ApplyFails(u)
      PROVE  ShadowIInv'
  <2>1. ShadowTypeOK' /\ RemoteInv'
    BY <1>4, AskKeeps, ResolveKeeps, ApplyKeeps, ApplyFailsKeeps
  <2>2. LocalInv'
    BY <1>4, LocalAlone DEF Ask, Resolve, Apply, ApplyFails
  <2> QED  BY <2>1, <2>2 DEF ShadowIInv
<1>5. CASE UNCHANGED shadowVars
  <2>1. ShadowTypeOK'
    BY <1>5 DEF ShadowTypeOK, shadowVars
  <2> QED  BY <1>5, <2>1, LocalAlone, RemoteAlone DEF ShadowIInv, shadowVars
<1> QED  BY <1>1, <1>2, <1>3, <1>4, <1>5 DEF ShadowNext

\* Neither table loses an update that was reported done: a metric that was merged
\* stays in the shadow while the device lives, and a caller who names a version
\* replaces what it read (mergeReported, UpdateDesired, UpdateReported).
THEOREM ShadowCorrect == ShadowSpec => []NoLostUpdate
<1>1. ShadowIInv => NoLostUpdate
  BY DEF ShadowIInv, LocalInv, RemoteInv, NoLostUpdate
<1> QED  BY <1>1, ShadowStarts, ShadowKeeps, PTL DEF ShadowSpec
------------------------------------------------------------------------------
(* Visitors.                                                               *)

Opening(s, v) == visitScan[s].pc = "open" /\ visitScan[s].visit = v

\* A scan in hand is of a visit that exists.
Scanned ==
    \A s \in Scans :
        IF visitScan[s].pc = "idle" THEN visitScan[s] = NoVisitScan
        ELSE visitScan[s].visit \in Visits /\ visit[visitScan[s].visit] # "none"

\* Whoever opens the door has redeemed the visit, which is never open again.
Redeemed ==
    \A v \in Visits :
        doors[v] # 0 \/ (\E s \in Scans : Opening(s, v)) => visit[v] \notin {"none", "pending"}

OpensOnce ==
    \A v \in Visits :
        /\ doors[v] \in {0, 1}
        /\ \A s \in Scans : Opening(s, v) => doors[v] = 0
        /\ \A s, t \in Scans : Opening(s, v) /\ Opening(t, v) => s = t

\* The key of a visit that is still open belongs to a scan that will delete it,
\* unless a fault left it.
KeyFreed ==
    \A v \in Visits :
        /\ visit[v] = "none" => v \notin gate
        /\ visit[v] = "pending" /\ v \in gate \ leftovers
              => \E s \in Scans : visitScan[s].visit = v
                                 /\ visitScan[s].pc \in {"redeem", "release"}

VisitorIInv == VisitorTypeOK /\ Scanned /\ Redeemed /\ OpensOnce /\ KeyFreed

\* Where a scan goes, and what it leaves alone.
LEMMA ScanGoes ==
  ASSUME VisitorTypeOK, NEW s \in Scans,
         NEW next \in {"idle", "check", "claim", "redeem", "release", "open"}, ScanMoves(s, next)
  PROVE  /\ visitScan' \in [Scans -> Scanning]
         /\ visitScan'[s].pc = next
         /\ visitScan'[s].visit = visitScan[s].visit
         /\ \A t \in Scans \ {s} : visitScan'[t] = visitScan[t]
<1>1. /\ visitScan[s] \in Scanning
      /\ visitScan' = [visitScan EXCEPT ![s] = [visitScan[s] EXCEPT !.pc = next]]
  BY DEF VisitorTypeOK, ScanMoves
<1>2. [visitScan[s] EXCEPT !.pc = next] \in Scanning
  BY <1>1 DEF Scanning
<1> QED  BY <1>1, <1>2 DEF VisitorTypeOK, Scanning

LEMMA ScanAnswers ==
  ASSUME VisitorTypeOK, NEW s \in Scans, Answers(s)
  PROVE  /\ visitScan' \in [Scans -> Scanning]
         /\ visitScan'[s] = NoVisitScan /\ visitScan'[s].pc = "idle"
         /\ visitScan'[s].visit = NoVisit
         /\ \A t \in Scans \ {s} : visitScan'[t] = visitScan[t]
<1>1. NoVisitScan \in Scanning /\ NoVisitScan.pc = "idle" /\ NoVisitScan.visit = NoVisit
  BY DEF NoVisitScan, Scanning, VisitStatuses
<1> QED  BY <1>1 DEF VisitorTypeOK, Answers

LEMMA VisitorStarts == VisitorInit => VisitorIInv
<1> SUFFICES ASSUME VisitorInit  PROVE VisitorIInv
  OBVIOUS
<1>1. NoVisitScan \in Scanning /\ NoVisitScan.pc = "idle"
  BY DEF NoVisitScan, Scanning, VisitStatuses
<1>2. visitScan \in [Scans -> Scanning] /\ visit \in [Visits -> VisitStatuses]
  BY <1>1 DEF VisitorInit, VisitStatuses
<1>3. /\ doors \in [Visits -> Nat] /\ edits \in 0..MaxEdits
      /\ visitorFaults \in 0..MaxVisitorFaults
  BY VisitorAssumption DEF VisitorInit
<1>4. VisitorTypeOK
  BY <1>2, <1>3 DEF VisitorInit, VisitorTypeOK
<1> QED
  BY <1>1, <1>4 DEF VisitorInit, VisitorIInv, Scanned, Redeemed, OpensOnce, KeyFreed, Opening

LEMMA InviteSafe ==
  ASSUME VisitorIInv, NEW v \in Visits, Invite(v)
  PROVE  VisitorIInv'
<1>1. VisitorTypeOK'
  BY VisitorAssumption, ScanGoes, ScanAnswers DEF VisitorIInv, VisitorTypeOK, VisitStatuses, Invite, Faulty
<1>2. Scanned'
  BY ScanGoes, ScanAnswers DEF VisitorIInv, VisitorTypeOK, Scanned, Invite
<1>3. Redeemed'
  BY ScanGoes, ScanAnswers DEF VisitorIInv, VisitorTypeOK, Scanned, Redeemed, Opening, Invite
<1>4. OpensOnce'
  BY ScanGoes, ScanAnswers DEF VisitorIInv, VisitorTypeOK, Scanned, Redeemed, OpensOnce, Opening, Invite
<1>5. KeyFreed'
  BY ScanGoes, ScanAnswers, VisitorAssumption DEF VisitorIInv, VisitorTypeOK, Scanned, KeyFreed, Invite
<1> QED  BY <1>1, <1>2, <1>3, <1>4, <1>5 DEF VisitorIInv

LEMMA LookUpSafe ==
  ASSUME VisitorIInv, NEW s \in Scans, NEW v \in Visits, LookUp(s, v)
  PROVE  VisitorIInv'
<1>1. /\ visitScan[s] = NoVisitScan /\ visitScan[s].pc = "idle"
      /\ visitScan[s].visit = NoVisit
      /\ visitScan'[s] = [NoVisitScan EXCEPT !.pc = "check", !.visit = v, !.read = visit[v]]
      /\ visitScan'[s].pc = "check" /\ visitScan'[s].visit = v
      /\ \A t \in Scans \ {s} : visitScan'[t] = visitScan[t]
      /\ visit[v] # "none"
  BY DEF LookUp, VisitorIInv, VisitorTypeOK, NoVisitScan
<1>2. visitScan' \in [Scans -> Scanning]
  <2>1. [NoVisitScan EXCEPT !.pc = "check", !.visit = v, !.read = visit[v]] \in Scanning
    BY DEF NoVisitScan, Scanning, VisitorIInv, VisitorTypeOK
  <2> QED  BY <2>1 DEF LookUp, VisitorIInv, VisitorTypeOK
<1>3. VisitorTypeOK'
  BY <1>2 DEF VisitorIInv, VisitorTypeOK, LookUp
<1>4. Scanned'
  BY <1>1 DEF VisitorIInv, Scanned, LookUp
<1>5. Redeemed'
  BY <1>1 DEF VisitorIInv, Redeemed, Opening, LookUp
<1>6. OpensOnce'
  BY <1>1 DEF VisitorIInv, OpensOnce, Opening, LookUp
<1>7. KeyFreed'
  BY <1>1, VisitorAssumption DEF VisitorIInv, KeyFreed, LookUp
<1> QED  BY <1>3, <1>4, <1>5, <1>6, <1>7 DEF VisitorIInv

LEMMA CheckSafe ==
  ASSUME VisitorIInv, NEW s \in Scans, Check(s)
  PROVE  VisitorIInv'
<1>1. VisitorTypeOK'
  BY VisitorAssumption, ScanGoes, ScanAnswers DEF VisitorIInv, VisitorTypeOK, VisitStatuses, Check, Faulty
<1>2. Scanned'
  BY ScanGoes, ScanAnswers DEF VisitorIInv, VisitorTypeOK, Scanned, Check
<1>3. Redeemed'
  BY ScanGoes, ScanAnswers DEF VisitorIInv, VisitorTypeOK, Scanned, Redeemed, Opening, Check
<1>4. OpensOnce'
  BY ScanGoes, ScanAnswers DEF VisitorIInv, VisitorTypeOK, Scanned, Redeemed, OpensOnce, Opening, Check
<1>5. KeyFreed'
  BY ScanGoes, ScanAnswers, VisitorAssumption DEF VisitorIInv, VisitorTypeOK, Scanned, KeyFreed, Check
<1> QED  BY <1>1, <1>2, <1>3, <1>4, <1>5 DEF VisitorIInv

LEMMA ClaimKeySafe ==
  ASSUME VisitorIInv, NEW s \in Scans, ClaimKey(s)
  PROVE  VisitorIInv'
<1>0. visitScan[s] \in Scanning /\ visitScan[s].visit \in Visits
  BY DEF VisitorIInv, VisitorTypeOK, Scanned, ClaimKey
<1>1. VisitorTypeOK'
  <2>1. visitScan' \in [Scans -> Scanning]
    BY ScanGoes, ScanAnswers DEF VisitorIInv, ClaimKey
  <2>2. visitorFaults' \in 0..MaxVisitorFaults
    BY VisitorAssumption DEF VisitorIInv, VisitorTypeOK, ClaimKey, Faulty
  <2> QED  BY <1>0, <2>1, <2>2 DEF VisitorIInv, VisitorTypeOK, ClaimKey
<1>2. Scanned'
  BY ScanGoes, ScanAnswers DEF VisitorIInv, VisitorTypeOK, Scanned, ClaimKey
<1>3. Redeemed'
  BY ScanGoes, ScanAnswers DEF VisitorIInv, VisitorTypeOK, Scanned, Redeemed, Opening, ClaimKey
<1>4. OpensOnce'
  BY ScanGoes, ScanAnswers DEF VisitorIInv, VisitorTypeOK, Scanned, Redeemed, OpensOnce, Opening, ClaimKey
<1>5. KeyFreed'
  BY ScanGoes, ScanAnswers, VisitorAssumption DEF VisitorIInv, VisitorTypeOK, Scanned, KeyFreed, ClaimKey
<1> QED  BY <1>1, <1>2, <1>3, <1>4, <1>5 DEF VisitorIInv

LEMMA RedeemSafe ==
  ASSUME VisitorIInv, NEW s \in Scans, Redeem(s)
  PROVE  VisitorIInv'
<1>1. VisitorTypeOK'
  BY VisitorAssumption, ScanGoes, ScanAnswers DEF VisitorIInv, VisitorTypeOK, VisitStatuses, Redeem, Faulty
<1>2. Scanned'
  BY ScanGoes, ScanAnswers DEF VisitorIInv, VisitorTypeOK, Scanned, Redeem
<1>3. Redeemed'
  BY ScanGoes, ScanAnswers DEF VisitorIInv, VisitorTypeOK, Scanned, Redeemed, Opening, Redeem
<1>4. OpensOnce'
  <2>1. /\ visitScan'[s].visit = visitScan[s].visit
        /\ \A t \in Scans \ {s} : visitScan'[t] = visitScan[t]
        /\ UNCHANGED doors
    BY ScanGoes DEF VisitorIInv, Redeem
  <2>2. CASE visitScan'[s].pc = "open"
    <3>1. visit[visitScan[s].visit] = "pending" /\ visitScan[s].visit \in Visits
      BY <2>2, ScanGoes DEF VisitorIInv, Scanned, Redeem, Redeemable
    <3> QED  BY <2>1, <2>2, <3>1 DEF VisitorIInv, Redeemed, OpensOnce, Opening
  <2>3. CASE visitScan'[s].pc # "open"
    BY <2>1, <2>3 DEF VisitorIInv, OpensOnce, Opening
  <2> QED  BY <2>2, <2>3
<1>5. KeyFreed'
  BY ScanGoes, ScanAnswers, VisitorAssumption DEF VisitorIInv, VisitorTypeOK, Scanned, KeyFreed, Redeem
<1> QED  BY <1>1, <1>2, <1>3, <1>4, <1>5 DEF VisitorIInv

LEMMA ReleaseKeySafe ==
  ASSUME VisitorIInv, NEW s \in Scans, ReleaseKey(s)
  PROVE  VisitorIInv'
<1>0. visitScan[s] \in Scanning /\ visitScan[s].visit \in Visits
  BY DEF VisitorIInv, VisitorTypeOK, Scanned, ReleaseKey
<1>1. VisitorTypeOK'
  <2>1. visitScan' \in [Scans -> Scanning]
    BY ScanGoes, ScanAnswers DEF VisitorIInv, ReleaseKey
  <2>2. visitorFaults' \in 0..MaxVisitorFaults
    BY VisitorAssumption DEF VisitorIInv, VisitorTypeOK, ReleaseKey, Faulty
  <2> QED  BY <1>0, <2>1, <2>2 DEF VisitorIInv, VisitorTypeOK, ReleaseKey
<1>2. Scanned'
  BY ScanGoes, ScanAnswers DEF VisitorIInv, VisitorTypeOK, Scanned, ReleaseKey
<1>3. Redeemed'
  BY ScanGoes, ScanAnswers DEF VisitorIInv, VisitorTypeOK, Scanned, Redeemed, Opening, ReleaseKey
<1>4. OpensOnce'
  BY ScanGoes, ScanAnswers DEF VisitorIInv, VisitorTypeOK, Scanned, Redeemed, OpensOnce, Opening, ReleaseKey
<1>5. KeyFreed'
  BY ScanGoes, ScanAnswers, VisitorAssumption DEF VisitorIInv, VisitorTypeOK, Scanned, KeyFreed, ReleaseKey
<1> QED  BY <1>1, <1>2, <1>3, <1>4, <1>5 DEF VisitorIInv

LEMMA OpenDoorSafe ==
  ASSUME VisitorIInv, NEW s \in Scans, OpenDoor(s)
  PROVE  VisitorIInv'
<1>1. VisitorTypeOK'
  BY VisitorAssumption, ScanGoes, ScanAnswers DEF VisitorIInv, VisitorTypeOK, VisitStatuses, OpenDoor, Faulty
<1>2. Scanned'
  BY ScanGoes, ScanAnswers DEF VisitorIInv, VisitorTypeOK, Scanned, OpenDoor
<1>3. Redeemed'
  BY ScanGoes, ScanAnswers DEF VisitorIInv, VisitorTypeOK, Scanned, Redeemed, Opening, OpenDoor
<1>4. OpensOnce'
  BY ScanGoes, ScanAnswers DEF VisitorIInv, VisitorTypeOK, Scanned, Redeemed, OpensOnce, Opening, OpenDoor
<1>5. KeyFreed'
  BY ScanGoes, ScanAnswers, VisitorAssumption DEF VisitorIInv, VisitorTypeOK, Scanned, KeyFreed, OpenDoor
<1> QED  BY <1>1, <1>2, <1>3, <1>4, <1>5 DEF VisitorIInv

LEMMA CrashSafe ==
  ASSUME VisitorIInv, NEW s \in Scans, Crash(s)
  PROVE  VisitorIInv'
<1>0. visitScan[s] \in Scanning /\ visitScan[s].visit \in Visits
  BY DEF VisitorIInv, VisitorTypeOK, Scanned, Crash
<1>1. VisitorTypeOK'
  <2>1. visitScan' \in [Scans -> Scanning]
    BY ScanGoes, ScanAnswers DEF VisitorIInv, Crash
  <2>2. visitorFaults' \in 0..MaxVisitorFaults
    BY VisitorAssumption DEF VisitorIInv, VisitorTypeOK, Crash, Faulty
  <2> QED  BY <1>0, <2>1, <2>2 DEF VisitorIInv, VisitorTypeOK, Crash
<1>2. Scanned'
  BY ScanGoes, ScanAnswers DEF VisitorIInv, VisitorTypeOK, Scanned, Crash
<1>3. Redeemed'
  BY ScanGoes, ScanAnswers DEF VisitorIInv, VisitorTypeOK, Scanned, Redeemed, Opening, Crash
<1>4. OpensOnce'
  BY ScanGoes, ScanAnswers DEF VisitorIInv, VisitorTypeOK, Scanned, Redeemed, OpensOnce, Opening, Crash
<1>5. KeyFreed'
  BY ScanGoes, ScanAnswers, VisitorAssumption DEF VisitorIInv, VisitorTypeOK, Scanned, KeyFreed, Crash
<1> QED  BY <1>1, <1>2, <1>3, <1>4, <1>5 DEF VisitorIInv

LEMMA CheckOutSafe ==
  ASSUME VisitorIInv, NEW v \in Visits, CheckOut(v)
  PROVE  VisitorIInv'
<1>1. VisitorTypeOK'
  BY VisitorAssumption, ScanGoes, ScanAnswers DEF VisitorIInv, VisitorTypeOK, VisitStatuses, CheckOut, Faulty
<1>2. Scanned'
  BY ScanGoes, ScanAnswers DEF VisitorIInv, VisitorTypeOK, Scanned, CheckOut
<1>3. Redeemed'
  BY ScanGoes, ScanAnswers DEF VisitorIInv, VisitorTypeOK, Scanned, Redeemed, Opening, CheckOut
<1>4. OpensOnce'
  BY ScanGoes, ScanAnswers DEF VisitorIInv, VisitorTypeOK, Scanned, Redeemed, OpensOnce, Opening, CheckOut
<1>5. KeyFreed'
  BY ScanGoes, ScanAnswers, VisitorAssumption DEF VisitorIInv, VisitorTypeOK, Scanned, KeyFreed, CheckOut
<1> QED  BY <1>1, <1>2, <1>3, <1>4, <1>5 DEF VisitorIInv

LEMMA VisitExpiresSafe ==
  ASSUME VisitorIInv, NEW v \in Visits, VisitExpires(v)
  PROVE  VisitorIInv'
<1>1. VisitorTypeOK'
  BY VisitorAssumption, ScanGoes, ScanAnswers DEF VisitorIInv, VisitorTypeOK, VisitStatuses, VisitExpires, Faulty
<1>2. Scanned'
  BY ScanGoes, ScanAnswers DEF VisitorIInv, VisitorTypeOK, Scanned, VisitExpires
<1>3. Redeemed'
  BY ScanGoes, ScanAnswers DEF VisitorIInv, VisitorTypeOK, Scanned, Redeemed, Opening, VisitExpires
<1>4. OpensOnce'
  BY ScanGoes, ScanAnswers DEF VisitorIInv, VisitorTypeOK, Scanned, Redeemed, OpensOnce, Opening, VisitExpires
<1>5. KeyFreed'
  BY ScanGoes, ScanAnswers, VisitorAssumption DEF VisitorIInv, VisitorTypeOK, Scanned, KeyFreed, VisitExpires
<1> QED  BY <1>1, <1>2, <1>3, <1>4, <1>5 DEF VisitorIInv

LEMMA EditBlocklistSafe ==
  ASSUME VisitorIInv, EditBlocklist
  PROVE  VisitorIInv'
<1>1. VisitorTypeOK'
  BY VisitorAssumption, ScanGoes, ScanAnswers DEF VisitorIInv, VisitorTypeOK, VisitStatuses, EditBlocklist, Faulty
<1>2. Scanned'
  BY ScanGoes, ScanAnswers DEF VisitorIInv, VisitorTypeOK, Scanned, EditBlocklist
<1>3. Redeemed'
  BY ScanGoes, ScanAnswers DEF VisitorIInv, VisitorTypeOK, Scanned, Redeemed, Opening, EditBlocklist
<1>4. OpensOnce'
  BY ScanGoes, ScanAnswers DEF VisitorIInv, VisitorTypeOK, Scanned, Redeemed, OpensOnce, Opening, EditBlocklist
<1>5. KeyFreed'
  BY ScanGoes, ScanAnswers, VisitorAssumption DEF VisitorIInv, VisitorTypeOK, Scanned, KeyFreed, EditBlocklist
<1> QED  BY <1>1, <1>2, <1>3, <1>4, <1>5 DEF VisitorIInv

LEMMA VisitorKeeps == VisitorIInv /\ [VisitorNext]_visitorVars => VisitorIInv'
<1> SUFFICES ASSUME VisitorIInv, [VisitorNext]_visitorVars
             PROVE  VisitorIInv'
  OBVIOUS
<1>1. CASE UNCHANGED visitorVars
  <2>1. VisitorTypeOK'
    BY <1>1 DEF VisitorIInv, VisitorTypeOK, visitorVars
  <2>2. Scanned' /\ Redeemed' /\ OpensOnce' /\ KeyFreed'
    BY <1>1 DEF VisitorIInv, Scanned, Redeemed, OpensOnce, KeyFreed, Opening, visitorVars
  <2> QED  BY <2>1, <2>2 DEF VisitorIInv
<1> QED
  BY <1>1, InviteSafe, LookUpSafe, CheckSafe, ClaimKeySafe, RedeemSafe, ReleaseKeySafe,
     OpenDoorSafe, CrashSafe, CheckOutSafe, VisitExpiresSafe, EditBlocklistSafe
     DEF VisitorNext

\* One invitation opens the door once, whatever scans overlap and whether or not
\* Redis answers, and no key that a refused scan set is left behind, but by a
\* fault (VisitorCheckin, releaseRedeemLock).
THEOREM VisitorCorrect == VisitorSpec => []EntersOnce
<1>1. VisitorIInv => EntersOnce
  BY DEF VisitorIInv, VisitorTypeOK, Redeemed, OpensOnce, KeyFreed, Opening, EntersOnce
<1> QED  BY <1>1, VisitorStarts, VisitorKeeps, PTL DEF VisitorSpec
------------------------------------------------------------------------------
(* Doors: first the commands, then the calls that send them.               *)

\* Only commands that are logged are published, marked or scanned.
Logged ==
    /\ \A c \in Commands : sender[c] \notin {"idle", "error"} => command[c] # "none"
    /\ \A s \in Scanners :
          /\ \A c \in scan[s].todo : command[c] # "none"
          /\ scan[s].at \in {"resend", "extend", "expire"}
                => scan[s].cmd \in Commands /\ command[scan[s].cmd] # "none"

DeviceIInv == DeviceTypeOK /\ Logged

\* No command is logged or forgotten.
SameLogged == \A c \in Commands : command'[c] = "none" <=> command[c] = "none"

\* Where a scan goes.
LEMMA ScanPasses ==
  ASSUME DeviceTypeOK, NEW s \in Scanners, NEW p \in Passes, scan' = [scan EXCEPT ![s] = p]
  PROVE  /\ scan' \in [Scanners -> Passes]
         /\ scan'[s] = p
         /\ \A t \in Scanners \ {s} : scan'[t] = scan[t]
  BY DEF DeviceTypeOK

LEMMA ScanGoesOn ==
  ASSUME DeviceTypeOK, NEW s \in Scanners, ScanOn(s)
  PROVE  /\ scan' \in [Scanners -> Passes]
         /\ scan'[s].at \in {"idle", "next"} /\ scan'[s].todo \subseteq scan[s].todo
         /\ \A t \in Scanners \ {s} : scan'[t] = scan[t]
<1> DEFINE p == IF scan[s].todo = {} THEN NoScan ELSE [scan[s] EXCEPT !.at = "next", !.cmd = NoCommand]
<1>1. scan' = [scan EXCEPT ![s] = p]
  BY DEF DeviceTypeOK, ScanOn
<1>2. p \in Passes /\ p.at \in {"idle", "next"} /\ p.todo \subseteq scan[s].todo
  BY DEF DeviceTypeOK, Passes, NoScan
<1> HIDE DEF p
<1> QED  BY <1>1, <1>2, ScanPasses

LEMMA ScanIsAt ==
  ASSUME DeviceTypeOK, NEW s \in Scanners,
         NEW at \in {"idle", "next", "resend", "extend", "expire"}, ScanTo(s, at)
  PROVE  /\ scan' \in [Scanners -> Passes]
         /\ scan'[s].at = at /\ scan'[s].cmd = scan[s].cmd /\ scan'[s].todo = scan[s].todo
         /\ \A t \in Scanners \ {s} : scan'[t] = scan[t]
<1> DEFINE p == [scan[s] EXCEPT !.at = at]
<1>1. scan' = [scan EXCEPT ![s] = p]
  BY DEF DeviceTypeOK, ScanTo
<1>2. p \in Passes /\ p.at = at /\ p.cmd = scan[s].cmd /\ p.todo = scan[s].todo
  BY DEF DeviceTypeOK, Passes
<1> HIDE DEF p
<1> QED  BY <1>1, <1>2, ScanPasses

LEMMA ScanTakes ==
  ASSUME DeviceTypeOK, NEW s \in Scanners, NEW c \in Commands, NEW at \in {"resend", "expire"},
         Take(s, c, at)
  PROVE  /\ scan' \in [Scanners -> Passes]
         /\ scan'[s].at = at /\ scan'[s].cmd = c /\ scan'[s].todo \subseteq scan[s].todo
         /\ \A t \in Scanners \ {s} : scan'[t] = scan[t]
         /\ c \in scan[s].todo
         /\ UNCHANGED <<downlink, command, overdue, onWay, acks, sender>>
<1> DEFINE p == [at |-> at, cmd |-> c, todo |-> scan[s].todo \ {c}]
<1>1. scan' = [scan EXCEPT ![s] = p]
  BY DEF DeviceTypeOK, Take
<1>2. p \in Passes /\ p.at = at /\ p.cmd = c /\ p.todo \subseteq scan[s].todo
  BY DEF DeviceTypeOK, Passes
<1> HIDE DEF p
<1> QED  BY <1>1, <1>2, ScanPasses DEF Take

LEMMA RefuseSafe ==
  ASSUME DeviceIInv, NEW c \in Commands, Refuse(c)
  PROVE  DeviceIInv' /\ SameLogged
<1>1. DeviceTypeOK'
  BY DeviceAssumption DEF DeviceIInv, DeviceTypeOK, Sending, Open, Terminal, Results, Moves, Write, DeviceFault, MayFinish, Refuse
<1>2. SameLogged
  BY DEF DeviceIInv, DeviceTypeOK, Logged, SameLogged, Open, Results, Write, MayFinish, Refuse
<1>3. Logged'
  BY <1>2 DEF DeviceIInv, DeviceTypeOK, Logged, SameLogged, Passes, Moves, Refuse
<1> QED  BY <1>1, <1>2, <1>3 DEF DeviceIInv

LEMMA PublishSafe ==
  ASSUME DeviceIInv, NEW c \in Commands, Publish(c)
  PROVE  DeviceIInv' /\ SameLogged
<1>1. DeviceTypeOK'
  BY DeviceAssumption DEF DeviceIInv, DeviceTypeOK, Sending, Open, Terminal, Results, Moves, Write, DeviceFault, MayFinish, Publish
<1>2. SameLogged
  BY DEF DeviceIInv, DeviceTypeOK, Logged, SameLogged, Open, Results, Write, MayFinish, Publish
<1>3. Logged'
  BY <1>2 DEF DeviceIInv, DeviceTypeOK, Logged, SameLogged, Passes, Moves, Publish
<1> QED  BY <1>1, <1>2, <1>3 DEF DeviceIInv

LEMMA PublishFailsSafe ==
  ASSUME DeviceIInv, NEW c \in Commands, PublishFails(c)
  PROVE  DeviceIInv' /\ SameLogged
<1>1. DeviceTypeOK'
  BY DeviceAssumption DEF DeviceIInv, DeviceTypeOK, Sending, Open, Terminal, Results, Moves, Write, DeviceFault, MayFinish, PublishFails
<1>2. SameLogged
  BY DEF DeviceIInv, DeviceTypeOK, Logged, SameLogged, Open, Results, Write, MayFinish, PublishFails
<1>3. Logged'
  BY <1>2 DEF DeviceIInv, DeviceTypeOK, Logged, SameLogged, Passes, Moves, PublishFails
<1> QED  BY <1>1, <1>2, <1>3 DEF DeviceIInv

LEMMA MarkSentSafe ==
  ASSUME DeviceIInv, NEW c \in Commands, MarkSent(c)
  PROVE  DeviceIInv' /\ SameLogged
<1>1. DeviceTypeOK'
  BY DeviceAssumption DEF DeviceIInv, DeviceTypeOK, Sending, Open, Terminal, Results, Moves, Write, DeviceFault, MayFinish, MarkSent
<1>2. SameLogged
  BY DEF DeviceIInv, DeviceTypeOK, Logged, SameLogged, Open, Results, Write, MayFinish, MarkSent
<1>3. Logged'
  BY <1>2 DEF DeviceIInv, DeviceTypeOK, Logged, SameLogged, Passes, Moves, MarkSent
<1> QED  BY <1>1, <1>2, <1>3 DEF DeviceIInv

LEMMA MarkFailedSafe ==
  ASSUME DeviceIInv, NEW c \in Commands, MarkFailed(c)
  PROVE  DeviceIInv' /\ SameLogged
<1>1. DeviceTypeOK'
  BY DeviceAssumption DEF DeviceIInv, DeviceTypeOK, Sending, Open, Terminal, Results, Moves, Write, DeviceFault, MayFinish, MarkFailed
<1>2. SameLogged
  BY DEF DeviceIInv, DeviceTypeOK, Logged, SameLogged, Open, Results, Write, MayFinish, MarkFailed
<1>3. Logged'
  BY <1>2 DEF DeviceIInv, DeviceTypeOK, Logged, SameLogged, Passes, Moves, MarkFailed
<1> QED  BY <1>1, <1>2, <1>3 DEF DeviceIInv

LEMMA MarkLostSafe ==
  ASSUME DeviceIInv, NEW c \in Commands, MarkLost(c)
  PROVE  DeviceIInv' /\ SameLogged
<1>1. DeviceTypeOK'
  BY DeviceAssumption DEF DeviceIInv, DeviceTypeOK, Sending, Open, Terminal, Results, Moves, Write, DeviceFault, MayFinish, MarkLost
<1>2. SameLogged
  BY DEF DeviceIInv, DeviceTypeOK, Logged, SameLogged, Open, Results, Write, MayFinish, MarkLost
<1>3. Logged'
  BY <1>2 DEF DeviceIInv, DeviceTypeOK, Logged, SameLogged, Passes, Moves, MarkLost
<1> QED  BY <1>1, <1>2, <1>3 DEF DeviceIInv

LEMMA DiesSafe ==
  ASSUME DeviceIInv, NEW c \in Commands, Dies(c)
  PROVE  DeviceIInv' /\ SameLogged
<1>1. DeviceTypeOK'
  BY DeviceAssumption DEF DeviceIInv, DeviceTypeOK, Sending, Open, Terminal, Results, Moves, Write, DeviceFault, MayFinish, Dies
<1>2. SameLogged
  BY DEF DeviceIInv, DeviceTypeOK, Logged, SameLogged, Open, Results, Write, MayFinish, Dies
<1>3. Logged'
  BY <1>2 DEF DeviceIInv, DeviceTypeOK, Logged, SameLogged, Passes, Moves, Dies
<1> QED  BY <1>1, <1>2, <1>3 DEF DeviceIInv

LEMMA CounterExpiresSafe ==
  ASSUME DeviceIInv, NEW c \in Commands, CounterExpires(c)
  PROVE  DeviceIInv' /\ SameLogged
<1>1. DeviceTypeOK'
  BY DeviceAssumption DEF DeviceIInv, DeviceTypeOK, Sending, Open, Terminal, Results, Moves, Write, DeviceFault, MayFinish, CounterExpires
<1>2. SameLogged
  BY DEF DeviceIInv, DeviceTypeOK, Logged, SameLogged, Open, Results, Write, MayFinish, CounterExpires
<1>3. Logged'
  BY <1>2 DEF DeviceIInv, DeviceTypeOK, Logged, SameLogged, Passes, Moves, CounterExpires
<1> QED  BY <1>1, <1>2, <1>3 DEF DeviceIInv

LEMMA ElapsesSafe ==
  ASSUME DeviceIInv, NEW c \in Commands, Elapses(c)
  PROVE  DeviceIInv' /\ SameLogged
<1>1. DeviceTypeOK'
  BY DeviceAssumption DEF DeviceIInv, DeviceTypeOK, Sending, Open, Terminal, Results, Moves, Write, DeviceFault, MayFinish, Elapses
<1>2. SameLogged
  BY DEF DeviceIInv, DeviceTypeOK, Logged, SameLogged, Open, Results, Write, MayFinish, Elapses
<1>3. Logged'
  BY <1>2 DEF DeviceIInv, DeviceTypeOK, Logged, SameLogged, Passes, Moves, Elapses
<1> QED  BY <1>1, <1>2, <1>3 DEF DeviceIInv

LEMMA ExecutesSafe ==
  ASSUME DeviceIInv, NEW c \in Commands, NEW r \in Results, Executes(c, r)
  PROVE  DeviceIInv' /\ SameLogged
<1>1. DeviceTypeOK'
  BY DeviceAssumption DEF DeviceIInv, DeviceTypeOK, Sending, Open, Terminal, Results, Moves, Write, DeviceFault, MayFinish, Executes
<1>2. SameLogged
  BY DEF DeviceIInv, DeviceTypeOK, Logged, SameLogged, Open, Results, Write, MayFinish, Executes
<1>3. Logged'
  BY <1>2 DEF DeviceIInv, DeviceTypeOK, Logged, SameLogged, Passes, Moves, Executes
<1> QED  BY <1>1, <1>2, <1>3 DEF DeviceIInv

LEMMA FinishSafe ==
  ASSUME DeviceIInv, NEW c \in Commands, NEW r \in Results, Finish(c, r)
  PROVE  DeviceIInv' /\ SameLogged
<1>1. DeviceTypeOK'
  BY DeviceAssumption DEF DeviceIInv, DeviceTypeOK, Sending, Open, Terminal, Results, Moves, Write, DeviceFault, MayFinish, Finish
<1>2. SameLogged
  BY DEF DeviceIInv, DeviceTypeOK, Logged, SameLogged, Open, Results, Write, MayFinish, Finish
<1>3. Logged'
  BY <1>2 DEF DeviceIInv, DeviceTypeOK, Logged, SameLogged, Passes, Moves, Finish
<1> QED  BY <1>1, <1>2, <1>3 DEF DeviceIInv

LEMMA FinishFailsSafe ==
  ASSUME DeviceIInv, NEW c \in Commands, NEW r \in Results, FinishFails(c, r)
  PROVE  DeviceIInv' /\ SameLogged
<1>1. DeviceTypeOK'
  BY DeviceAssumption DEF DeviceIInv, DeviceTypeOK, Sending, Open, Terminal, Results, Moves, Write, DeviceFault, MayFinish, FinishFails
<1>2. SameLogged
  BY DEF DeviceIInv, DeviceTypeOK, Logged, SameLogged, Open, Results, Write, MayFinish, FinishFails
<1>3. Logged'
  BY <1>2 DEF DeviceIInv, DeviceTypeOK, Logged, SameLogged, Passes, Moves, FinishFails
<1> QED  BY <1>1, <1>2, <1>3 DEF DeviceIInv

LEMMA ListOverdueSafe ==
  ASSUME DeviceIInv, NEW s \in Scanners, ListOverdue(s)
  PROVE  DeviceIInv' /\ SameLogged
<1> DEFINE p == [at |-> "next", cmd |-> NoCommand, todo |-> {c \in Commands : IsOverdue(c)}]
<1>1. /\ p \in Passes /\ p.at = "next"
      /\ \A c \in p.todo : c \in Commands /\ command[c] # "none"
  BY DEF Passes, IsOverdue, Open
<1>2. /\ scan' = [scan EXCEPT ![s] = p]
      /\ UNCHANGED <<downlink, command, overdue, counted, onWay, acks, sender, deviceFaults>>
  BY DEF ListOverdue
<1> HIDE DEF p
<1>3. /\ scan' \in [Scanners -> Passes] /\ scan'[s] = p
      /\ \A t \in Scanners \ {s} : scan'[t] = scan[t]
  BY <1>1, <1>2, ScanPasses DEF DeviceIInv
<1>4. DeviceTypeOK'
  BY <1>2, <1>3 DEF DeviceIInv, DeviceTypeOK
<1>5. Logged'
  BY <1>1, <1>2, <1>3 DEF DeviceIInv, Logged
<1> QED  BY <1>2, <1>4, <1>5 DEF DeviceIInv, SameLogged

LEMMA JudgeSafe ==
  ASSUME DeviceIInv, NEW s \in Scanners, NEW c \in Commands, Judge(s, c)
  PROVE  DeviceIInv' /\ SameLogged
<1>1. PICK at \in {"resend", "expire"} : Take(s, c, at)
  BY DEF Judge
<1>2. /\ scan' \in [Scanners -> Passes]
      /\ scan'[s].at = at /\ scan'[s].cmd = c /\ scan'[s].todo \subseteq scan[s].todo
      /\ \A t \in Scanners \ {s} : scan'[t] = scan[t]
      /\ c \in scan[s].todo
      /\ UNCHANGED <<downlink, command, overdue, onWay, acks, sender>>
  BY <1>1, ScanTakes DEF DeviceIInv
<1>3. counted' \in [Commands -> 0..MaxResend] /\ deviceFaults' \in 0..MaxDeviceFaults
  BY DeviceAssumption DEF DeviceIInv, DeviceTypeOK, Judge, Counted
<1>4. DeviceTypeOK'
  BY <1>2, <1>3 DEF DeviceIInv, DeviceTypeOK
<1>5. Logged'
  BY <1>2 DEF DeviceIInv, Logged
<1> QED  BY <1>2, <1>4, <1>5 DEF DeviceIInv, SameLogged

LEMMA JudgeBlindlySafe ==
  ASSUME DeviceIInv, NEW s \in Scanners, NEW c \in Commands, JudgeBlindly(s, c)
  PROVE  DeviceIInv' /\ SameLogged
<1>1. PICK at \in {"resend", "expire"} : Take(s, c, at)
  BY DEF JudgeBlindly
<1>2. /\ scan' \in [Scanners -> Passes]
      /\ scan'[s].at = at /\ scan'[s].cmd = c /\ scan'[s].todo \subseteq scan[s].todo
      /\ \A t \in Scanners \ {s} : scan'[t] = scan[t]
      /\ c \in scan[s].todo
      /\ UNCHANGED <<downlink, command, overdue, onWay, acks, sender>>
  BY <1>1, ScanTakes DEF DeviceIInv
<1>3. counted' \in [Commands -> 0..MaxResend] /\ deviceFaults' \in 0..MaxDeviceFaults
  BY DeviceAssumption DEF DeviceIInv, DeviceTypeOK, JudgeBlindly, DeviceFault
<1>4. DeviceTypeOK'
  BY <1>2, <1>3 DEF DeviceIInv, DeviceTypeOK
<1>5. Logged'
  BY <1>2 DEF DeviceIInv, Logged
<1> QED  BY <1>2, <1>4, <1>5 DEF DeviceIInv, SameLogged

LEMMA ResendSafe ==
  ASSUME DeviceIInv, NEW s \in Scanners, Resend(s)
  PROVE  DeviceIInv' /\ SameLogged
<1>1. /\ scan[s].at = "resend" /\ onWay' = onWay \cup {scan[s].cmd} /\ ScanTo(s, "extend")
      /\ UNCHANGED <<downlink, command, overdue, counted, acks, sender, deviceFaults>>
  BY DEF Resend
<1>2. scan[s].cmd \in Commands /\ command[scan[s].cmd] # "none"
  BY <1>1 DEF DeviceIInv, Logged
<1>3. /\ scan' \in [Scanners -> Passes]
      /\ scan'[s].cmd = scan[s].cmd /\ scan'[s].todo = scan[s].todo
      /\ \A t \in Scanners \ {s} : scan'[t] = scan[t]
  BY <1>1, ScanIsAt DEF DeviceIInv
<1>4. DeviceTypeOK'
  BY <1>1, <1>2, <1>3 DEF DeviceIInv, DeviceTypeOK
<1>5. Logged'
  BY <1>1, <1>2, <1>3 DEF DeviceIInv, Logged
<1> QED  BY <1>1, <1>4, <1>5 DEF DeviceIInv, SameLogged

\* A pass that is done with a command, or with all, needs no row of one.
LEMMA ScanLogged ==
  ASSUME DeviceIInv, NEW s \in Scanners, scan' \in [Scanners -> Passes],
         scan'[s].at \in {"idle", "next"}, scan'[s].todo \subseteq scan[s].todo,
         \A t \in Scanners \ {s} : scan'[t] = scan[t], SameLogged, UNCHANGED sender
  PROVE  Logged'
<1>1. \A t \in Scanners : scan[t].todo \subseteq Commands /\ scan'[t].todo \subseteq scan[t].todo
  BY DEF DeviceIInv, DeviceTypeOK, Passes
<1>2. \A c \in Commands : sender'[c] \notin {"idle", "error"} => command'[c] # "none"
  BY DEF DeviceIInv, Logged, SameLogged
<1>3. ASSUME NEW t \in Scanners
      PROVE  /\ \A c \in scan'[t].todo : command'[c] # "none"
             /\ scan'[t].at \in {"resend", "extend", "expire"}
                  => scan'[t].cmd \in Commands /\ command'[scan'[t].cmd] # "none"
  <2>1. \A c \in scan'[t].todo : command'[c] # "none"
    BY <1>1 DEF DeviceIInv, Logged, SameLogged
  <2>2. CASE t # s
    BY <2>1, <2>2 DEF DeviceIInv, Logged, SameLogged
  <2>3. CASE t = s
    BY <2>1, <2>3
  <2> QED  BY <2>2, <2>3
<1> QED  BY <1>2, <1>3 DEF Logged

LEMMA ExtendSafe ==
  ASSUME DeviceIInv, NEW s \in Scanners, Extend(s)
  PROVE  DeviceIInv' /\ SameLogged
<1>1. scan[s].cmd \in Commands /\ command[scan[s].cmd] # "none"
  BY DEF DeviceIInv, Logged, Extend
<1>2. /\ scan' \in [Scanners -> Passes]
      /\ scan'[s].at \in {"idle", "next"} /\ scan'[s].todo \subseteq scan[s].todo
      /\ \A t \in Scanners \ {s} : scan'[t] = scan[t]
  BY ScanGoesOn DEF DeviceIInv, Extend
<1>3. DeviceTypeOK'
  BY <1>1, <1>2 DEF DeviceIInv, DeviceTypeOK, Open, Terminal, Write, Extend
<1>4. SameLogged
  BY <1>1 DEF DeviceIInv, DeviceTypeOK, SameLogged, Write, Extend
<1>5. Logged'
  BY <1>2, <1>4, ScanLogged DEF Extend
<1> QED  BY <1>3, <1>4, <1>5 DEF DeviceIInv

LEMMA ExpireSafe ==
  ASSUME DeviceIInv, NEW s \in Scanners, Expire(s)
  PROVE  DeviceIInv' /\ SameLogged
<1>1. scan[s].cmd \in Commands /\ command[scan[s].cmd] # "none"
  BY DEF DeviceIInv, Logged, Expire
<1>2. /\ scan' \in [Scanners -> Passes]
      /\ scan'[s].at \in {"idle", "next"} /\ scan'[s].todo \subseteq scan[s].todo
      /\ \A t \in Scanners \ {s} : scan'[t] = scan[t]
  BY ScanGoesOn DEF DeviceIInv, Expire
<1>3. DeviceTypeOK'
  BY <1>1, <1>2 DEF DeviceIInv, DeviceTypeOK, Open, Terminal, Write, Expire
<1>4. SameLogged
  BY <1>1 DEF DeviceIInv, DeviceTypeOK, SameLogged, Write, Expire
<1>5. Logged'
  BY <1>2, <1>4, ScanLogged DEF Expire
<1> QED  BY <1>3, <1>4, <1>5 DEF DeviceIInv

LEMMA ScanFailsSafe ==
  ASSUME DeviceIInv, NEW s \in Scanners, ScanFails(s)
  PROVE  DeviceIInv' /\ SameLogged
<1>1. /\ UNCHANGED <<downlink, command, overdue, counted, onWay, acks, sender>>
      /\ deviceFaults' \in 0..MaxDeviceFaults
  BY DeviceAssumption DEF DeviceIInv, DeviceTypeOK, ScanFails, DeviceFault
<1>2. /\ scan' \in [Scanners -> Passes]
      /\ scan'[s].at \in {"idle", "next"} /\ scan'[s].todo \subseteq scan[s].todo
      /\ \A t \in Scanners \ {s} : scan'[t] = scan[t]
  <2>1. NoScan \in Passes /\ NoScan.at = "idle" /\ NoScan.todo = {}
    BY DEF NoScan, Passes
  <2>2. CASE ScanOn(s)
    BY <2>2, ScanGoesOn DEF DeviceIInv
  <2>3. CASE scan' = [scan EXCEPT ![s] = NoScan]
    BY <2>1, <2>3, ScanPasses DEF DeviceIInv
  <2> QED  BY <2>2, <2>3 DEF ScanFails
<1>3. DeviceTypeOK'
  BY <1>1, <1>2 DEF DeviceIInv, DeviceTypeOK
<1>4. Logged'
  BY <1>1, <1>2 DEF DeviceIInv, Logged
<1> QED  BY <1>1, <1>3, <1>4 DEF DeviceIInv, SameLogged

LEMMA InsertSafe ==
  ASSUME DeviceIInv, NEW c \in Commands, Insert(c)
  PROVE  /\ DeviceIInv'
         /\ command'[c] # "none"
         /\ \A d \in Commands \ {c} : command'[d] = command[d]
<1>1. DeviceTypeOK'
  BY DEF DeviceIInv, DeviceTypeOK, Sending, Open, Moves, Write, Insert
<1>2. /\ command'[c] = "pending"
      /\ \A d \in Commands \ {c} : command'[d] = command[d]
  BY DEF DeviceIInv, DeviceTypeOK, Write, Insert
<1>3. Logged'
  BY <1>2 DEF DeviceIInv, DeviceTypeOK, Logged, Passes, Moves, Insert
<1> QED  BY <1>1, <1>2, <1>3 DEF DeviceIInv
LEMMA DeviceStarts == DeviceInit => DeviceIInv
<1> SUFFICES ASSUME DeviceInit  PROVE DeviceIInv
  OBVIOUS
<1>1. NoScan \in Passes /\ NoScan.at = "idle" /\ NoScan.todo = {}
  BY DEF NoScan, Passes
<1>2. scan \in [Scanners -> Passes] /\ command \in [Commands -> {"none"} \cup Open \cup Terminal]
  BY <1>1 DEF DeviceInit
<1>3. /\ sender \in [Commands -> Sending] /\ counted \in [Commands -> 0..MaxResend]
      /\ deviceFaults \in 0..MaxDeviceFaults
  BY DeviceAssumption DEF DeviceInit, Sending
<1>4. DeviceTypeOK
  BY <1>2, <1>3 DEF DeviceInit, DeviceTypeOK
<1>5. Logged
  BY <1>1 DEF DeviceInit, Logged
<1> QED  BY <1>4, <1>5 DEF DeviceIInv

LEMMA UnderwayKeeps ==
  ASSUME DeviceIInv, Underway
  PROVE  DeviceIInv' /\ SameLogged
<1>1. ASSUME NEW c \in Commands, SendStep(c) \/ Dies(c) \/ Elapses(c) \/ CounterExpires(c)
      PROVE  DeviceIInv' /\ SameLogged
  BY <1>1, PublishSafe, PublishFailsSafe, MarkSentSafe, MarkFailedSafe, MarkLostSafe, DiesSafe,
     ElapsesSafe, CounterExpiresSafe DEF SendStep
<1>2. ASSUME NEW s \in Scanners, ScanStep(s)
      PROVE  DeviceIInv' /\ SameLogged
  BY <1>2, ListOverdueSafe, ResendSafe, ExtendSafe, ExpireSafe, ScanFailsSafe, JudgeSafe,
     JudgeBlindlySafe DEF ScanStep
<1>3. ASSUME NEW c \in Commands, NEW r \in Results,
             Executes(c, r) \/ Finish(c, r) \/ FinishFails(c, r)
      PROVE  DeviceIInv' /\ SameLogged
  BY <1>3, ExecutesSafe, FinishSafe, FinishFailsSafe
<1> QED  BY <1>1, <1>2, <1>3 DEF Underway

\* A call with a request id that it may still act on, or has to give up.
Holding == {"decide", "send", "wait", "opened", "denied", "failed"}

\* While its key lasts such a call has its request id, and no other has it.
HoldsId ==
    \A k \in Commands : door[k] \in Holding /\ RequestOf[k] \notin lapsed \cup {NoId} =>
        /\ RequestOf[k] \in claimed
        /\ \A j \in Commands : SameRequest(j, k) => door[j] \notin Holding

\* A command was sent by a call that was let through.
SentByCall ==
    \A k \in Commands : command[k] # "none" => door[k] \in Failed \cup {"wait", "opened"}

DoorIInv == DeviceIInv /\ DoorTypeOK /\ HoldsId /\ SentByCall

LEMMA DoorStarts == DoorInit => DoorIInv
<1> SUFFICES ASSUME DoorInit  PROVE DoorIInv
  OBVIOUS
<1>1. DeviceIInv
  BY DeviceStarts DEF DoorInit
<1>2. DoorTypeOK
  BY DoorAssumption DEF DoorInit, DoorTypeOK
<1>3. HoldsId /\ SentByCall
  BY DEF DoorInit, DeviceInit, HoldsId, SentByCall, Holding
<1> QED  BY <1>1, <1>2, <1>3 DEF DoorIInv

LEMMA DeviceAlone ==
  ASSUME DeviceIInv, UNCHANGED deviceVars
  PROVE  DeviceIInv' /\ SameLogged
<1>1. DeviceTypeOK'
  BY DEF DeviceIInv, DeviceTypeOK, deviceVars
<1>2. Logged'
  BY DEF DeviceIInv, Logged, deviceVars
<1> QED  BY <1>1, <1>2 DEF DeviceIInv, SameLogged, deviceVars

LEMMA ClaimSafe ==
  ASSUME DoorIInv, NEW k \in Commands, Claim(k)
  PROVE  DoorIInv'
<1>1. DeviceIInv' /\ SameLogged
  BY DeviceAlone DEF DoorIInv, Claim
<1>2. DoorTypeOK'
  BY DoorAssumption DEF DoorIInv, DoorTypeOK, Ids, Failed, Calls, Claim, Seen
<1>3. HoldsId'
  BY DEF DoorIInv, DoorTypeOK, HoldsId, Holding, SameRequest, Calls, Claim, Seen
<1>4. SentByCall'
  BY <1>1 DEF DoorIInv, DoorTypeOK, SentByCall, SameLogged, Failed, Calls, Claim, Seen
<1> QED  BY <1>1, <1>2, <1>3, <1>4 DEF DoorIInv

LEMMA ClaimFailsSafe ==
  ASSUME DoorIInv, NEW k \in Commands, ClaimFails(k)
  PROVE  DoorIInv'
<1>1. DeviceIInv' /\ SameLogged
  BY DeviceAlone DEF DoorIInv, ClaimFails
<1>2. DoorTypeOK'
  BY DoorAssumption DEF DoorIInv, DoorTypeOK, Ids, Failed, Calls, ClaimFails, DoorFault
<1>3. HoldsId'
  BY DEF DoorIInv, DoorTypeOK, HoldsId, Holding, SameRequest, Calls, ClaimFails, DoorFault
<1>4. SentByCall'
  BY <1>1 DEF DoorIInv, DoorTypeOK, SentByCall, SameLogged, Failed, Calls, ClaimFails, DoorFault
<1> QED  BY <1>1, <1>2, <1>3, <1>4 DEF DoorIInv

LEMMA AuthorizeSafe ==
  ASSUME DoorIInv, NEW k \in Commands, Authorize(k)
  PROVE  DoorIInv'
<1>1. DeviceIInv' /\ SameLogged
  BY DeviceAlone DEF DoorIInv, Authorize
<1>2. DoorTypeOK'
  BY DoorAssumption DEF DoorIInv, DoorTypeOK, Ids, Failed, Calls, Authorize
<1>3. HoldsId'
  BY DEF DoorIInv, DoorTypeOK, HoldsId, Holding, SameRequest, Calls, Authorize
<1>4. SentByCall'
  BY <1>1 DEF DoorIInv, DoorTypeOK, SentByCall, SameLogged, Failed, Calls, Authorize
<1> QED  BY <1>1, <1>2, <1>3, <1>4 DEF DoorIInv

LEMMA AnsweredSafe ==
  ASSUME DoorIInv, NEW k \in Commands, Answered(k)
  PROVE  DoorIInv'
<1>1. DeviceIInv' /\ SameLogged
  BY DeviceAlone DEF DoorIInv, Answered
<1>2. DoorTypeOK'
  BY DoorAssumption DEF DoorIInv, DoorTypeOK, Ids, Failed, Calls, Answered
<1>3. HoldsId'
  BY DEF DoorIInv, DoorTypeOK, HoldsId, Holding, SameRequest, Calls, Answered
<1>4. SentByCall'
  BY <1>1 DEF DoorIInv, DoorTypeOK, SentByCall, SameLogged, Failed, Calls, Answered
<1> QED  BY <1>1, <1>2, <1>3, <1>4 DEF DoorIInv

LEMMA TimesOutSafe ==
  ASSUME DoorIInv, NEW k \in Commands, TimesOut(k)
  PROVE  DoorIInv'
<1>1. DeviceIInv' /\ SameLogged
  BY DeviceAlone DEF DoorIInv, TimesOut
<1>2. DoorTypeOK'
  BY DoorAssumption DEF DoorIInv, DoorTypeOK, Ids, Failed, Calls, TimesOut, DoorFault
<1>3. HoldsId'
  BY DEF DoorIInv, DoorTypeOK, HoldsId, Holding, SameRequest, Calls, TimesOut, DoorFault
<1>4. SentByCall'
  BY <1>1 DEF DoorIInv, DoorTypeOK, SentByCall, SameLogged, Failed, Calls, TimesOut, DoorFault
<1> QED  BY <1>1, <1>2, <1>3, <1>4 DEF DoorIInv

LEMMA ReleaseIdSafe ==
  ASSUME DoorIInv, NEW k \in Commands, ReleaseId(k)
  PROVE  DoorIInv'
<1>1. DeviceIInv' /\ SameLogged
  BY DeviceAlone DEF DoorIInv, ReleaseId
<1>2. DoorTypeOK'
  BY DoorAssumption DEF DoorIInv, DoorTypeOK, Ids, Failed, Calls, ReleaseId, MustRelease
<1>3. HoldsId'
  BY DEF DoorIInv, DoorTypeOK, HoldsId, Holding, SameRequest, Calls, ReleaseId, MustRelease
<1>4. SentByCall'
  BY <1>1 DEF DoorIInv, DoorTypeOK, SentByCall, SameLogged, Failed, Calls, ReleaseId, MustRelease
<1> QED  BY <1>1, <1>2, <1>3, <1>4 DEF DoorIInv

LEMMA ReleaseFailsSafe ==
  ASSUME DoorIInv, NEW k \in Commands, ReleaseFails(k)
  PROVE  DoorIInv'
<1>1. DeviceIInv' /\ SameLogged
  BY DeviceAlone DEF DoorIInv, ReleaseFails
<1>2. DoorTypeOK'
  BY DoorAssumption DEF DoorIInv, DoorTypeOK, Ids, Failed, Calls, ReleaseFails, MustRelease, DoorFault
<1>3. HoldsId'
  BY DEF DoorIInv, DoorTypeOK, HoldsId, Holding, SameRequest, Calls, ReleaseFails, MustRelease, DoorFault
<1>4. SentByCall'
  BY <1>1 DEF DoorIInv, DoorTypeOK, SentByCall, SameLogged, Failed, Calls, ReleaseFails, MustRelease, DoorFault
<1> QED  BY <1>1, <1>2, <1>3, <1>4 DEF DoorIInv

LEMMA IdExpiresSafe ==
  ASSUME DoorIInv, NEW i \in Ids, IdExpires(i)
  PROVE  DoorIInv'
<1>1. DeviceIInv' /\ SameLogged
  BY DeviceAlone DEF DoorIInv, IdExpires
<1>2. DoorTypeOK'
  BY DoorAssumption DEF DoorIInv, DoorTypeOK, IdExpires, DoorFault
<1>3. HoldsId'
  BY DEF DoorIInv, HoldsId, Holding, SameRequest, IdExpires
<1>4. SentByCall'
  BY <1>1 DEF DoorIInv, SentByCall, SameLogged, IdExpires
<1> QED  BY <1>1, <1>2, <1>3, <1>4 DEF DoorIInv

LEMMA SendCommandSafe ==
  ASSUME DoorIInv, NEW k \in Commands, SendCommand(k)
  PROVE  DoorIInv'
<1>1. /\ DeviceIInv'
      /\ \A d \in Commands \ {k} : command'[d] = "none" <=> command[d] = "none"
  BY InsertSafe, RefuseSafe DEF DoorIInv, SendCommand, SameLogged
<1>2. DoorTypeOK'
  BY DEF DoorIInv, DoorTypeOK, Calls, SendCommand
<1>3. HoldsId'
  BY DEF DoorIInv, DoorTypeOK, HoldsId, Holding, SameRequest, Calls, SendCommand
<1>4. SentByCall'
  BY <1>1 DEF DoorIInv, DoorTypeOK, SentByCall, Calls, SendCommand
<1> QED  BY <1>1, <1>2, <1>3, <1>4 DEF DoorIInv

LEMMA DoorKeeps == DoorIInv /\ [DoorNext]_<<deviceVars, doorVars>> => DoorIInv'
<1> SUFFICES ASSUME DoorIInv, [DoorNext]_<<deviceVars, doorVars>>
             PROVE  DoorIInv'
  OBVIOUS
<1>1. ASSUME NEW k \in Commands,
             \/ Claim(k) \/ ClaimFails(k) \/ Authorize(k) \/ SendCommand(k)
             \/ Answered(k) \/ TimesOut(k) \/ ReleaseId(k) \/ ReleaseFails(k)
      PROVE  DoorIInv'
  BY <1>1, ClaimSafe, ClaimFailsSafe, AuthorizeSafe, SendCommandSafe, AnsweredSafe,
     TimesOutSafe, ReleaseIdSafe, ReleaseFailsSafe
<1>2. ASSUME DeviceIInv', SameLogged, UNCHANGED doorVars
      PROVE  DoorIInv'
  <2>1. DoorTypeOK' /\ HoldsId'
    BY <1>2 DEF DoorIInv, DoorTypeOK, HoldsId, SameRequest, doorVars
  <2>2. SentByCall'
    BY <1>2 DEF DoorIInv, SentByCall, SameLogged, doorVars
  <2> QED  BY <1>2, <2>1, <2>2 DEF DoorIInv
<1>3. CASE \E i \in Ids : IdExpires(i)
  BY <1>3, IdExpiresSafe
<1>4. CASE DeviceGoesOn
  BY <1>2, <1>4, UnderwayKeeps DEF DoorIInv, DeviceGoesOn
<1>5. CASE UNCHANGED <<deviceVars, doorVars>>
  BY <1>2, <1>5, DeviceAlone DEF DoorIInv
<1> QED  BY <1>1, <1>3, <1>4, <1>5 DEF DoorNext

\* Of two commands for one request id, one belongs to a call that was answered
\* with an error, or the key of the id has expired (ten minutes), through denials,
\* timeouts, answers of Redis that are lost and whatever the devices and the timeout
\* scan do (RemoteOpen, "只下发一次开门命令").
THEOREM DoorCorrect == DoorSpec => []OneCommandPerRequest
<1>1. DoorIInv => OneCommandPerRequest
  BY DEF DoorIInv, HoldsId, SentByCall, Holding, SameRequest, OneCommandPerRequest
<1> QED  BY <1>1, DoorStarts, DoorKeeps, PTL DEF DoorSpec

------------------------------------------------------------------------------
(* Leases.                                                                 *)

\* A copy is a row of the past, and the present one if the version is.
Remembered(c, copy) ==
    /\ contract[c] # Absent /\ copy.version <= contract[c].version
    /\ copy.version = contract[c].version => copy = contract[c]

\* A log row tells a write that happened.
Tells(e) ==
    /\ e.version < Len(history[e.contract])
    /\ LET h == history[e.contract][e.version + 1] IN
       e.from = h.was.status /\ e.to = h.now /\ e.action = h.action

\* What a person is about to write, or to log.
EditSound(e) ==
    /\ e.pc = "write" => Remembered(e.contract, e.row) /\ e.row.status # "terminated"
    /\ e.pc = "log" => Tells(LeaseEntry(e.contract, e.row, e.new.status, e.action))

\* What a run is about to renew or to expire, or to log.
JobSound(k) ==
    /\ k.pc \in {"renew", "renewLog", "expire", "expireLog"} =>
          \A p \in k.left :
              /\ Remembered(p[1], p[2]) /\ p[2].status = "active" /\ p[2].end < today
              /\ p[2].auto = (k.pc \in {"renew", "renewLog"})
    /\ k.pc \in {"renewLog", "expireLog"} => k.entry \in LeaseLog /\ Tells(k.entry)

\* What NothingOverwritten says of one write.
Judged(h) ==
    /\ h.was = h.read /\ h.was.status # "terminated"
    /\ h.by = "job" => /\ h.was.status = "active" /\ h.was.end < h.on
                       /\ h.was.auto = (h.action = "renew")

AllJudged == \A c \in Contracts : \A i \in 1..Len(history[c]) : Judged(history[c][i])

LeaseIInv ==
    /\ LeaseTypeOK /\ AllJudged
    /\ \A e \in trail : Tells(e)
    /\ \A u \in Users : EditSound(edit[u])
    /\ \A j \in Jobs : JobSound(dailyJob[j])

RowsTyped ==
    /\ contract \in [Contracts -> LeaseRows \cup {Absent}]
    /\ history \in [Contracts -> Seq(Writings)]
    /\ \A c \in Contracts :
          Len(history[c]) = IF contract[c] = Absent THEN 0 ELSE contract[c].version

RestTyped ==
    /\ trail \subseteq LeaseLog /\ today \in FirstMonth..LastMonth
    /\ locks \subseteq (FirstMonth..LastMonth) \X Jobs
    /\ leaseFaults \in 0..MaxLeaseFaults

\* No step makes a copy wrong, or a log row.
Grows ==
    /\ \A c \in Contracts, copy \in LeaseRows : Remembered(c, copy) => Remembered(c, copy)'
    /\ \A e \in LeaseLog : Tells(e) => Tells(e)'
    /\ today <= today'

LEMMA LeaseStarts == LeaseInit => LeaseIInv
<1> SUFFICES ASSUME LeaseInit  PROVE LeaseIInv
  OBVIOUS
<1>1. LeaseTypeOK
  <2>1. /\ <<>> \in Seq(Writings) /\ Len(<<>>) = 0
        /\ FirstMonth \in FirstMonth..LastMonth /\ 0 \in 0..MaxLeaseFaults
    BY LeaseAssumption
  <2> QED  BY <2>1 DEF LeaseInit, LeaseTypeOK
<1>2. AllJudged /\ \A e \in trail : Tells(e)
  BY DEF LeaseInit, AllJudged
<1>3. \A u \in Users : EditSound(edit[u])
  BY DEF LeaseInit, EditSound, Idle
<1>4. \A j \in Jobs : JobSound(dailyJob[j])
  BY DEF LeaseInit, JobSound, Idle
<1> QED  BY <1>1, <1>2, <1>3, <1>4 DEF LeaseIInv

LEMMA Fields ==
  /\ \A e \in Editing : /\ e.contract \in Contracts /\ e.row \in LeaseRows /\ e.new \in LeaseRows
                        /\ e.action \in LeaseActions /\ e.pc \in {"write", "log"}
  /\ \A k \in Running : /\ k.left \subseteq Contracts \X LeaseRows /\ k.entry \in LeaseLog \cup {<<>>}
                        /\ k.lock \in (FirstMonth..LastMonth) \X Jobs
  /\ \A copy \in LeaseRows : /\ copy.version \in Nat /\ copy.start \in Nat /\ copy.end \in Nat
                             /\ copy.status \in LeaseStatuses /\ copy.auto \in BOOLEAN /\ copy # Absent
  /\ \A e \in Editing : LeaseEntry(e.contract, e.row, e.new.status, e.action) \in LeaseLog
<1>1. \A copy \in LeaseRows : copy # Absent
  BY DEF LeaseRows, Absent, LeaseStatuses
<1> QED  BY <1>1 DEF Editing, Running, LeaseRows, LeaseEntry, LeaseLog

LEMMA SoundStays ==
  ASSUME Grows, today \in Int, today' \in Int
  PROVE  /\ \A e \in Editing \cup {Idle} : EditSound(e) => EditSound(e)'
         /\ \A k \in Running \cup {Idle} : JobSound(k) => JobSound(k)'
<1>1. ASSUME NEW e \in Editing \cup {Idle}, EditSound(e)  PROVE EditSound(e)'
  BY <1>1, Fields DEF Grows, EditSound, Idle
<1>2. ASSUME NEW k \in Running \cup {Idle}, JobSound(k)  PROVE JobSound(k)'
  <2>1. CASE k = Idle
    BY <2>1 DEF JobSound, Idle
  <2>2. CASE k \in Running
    <3>1. \A p \in k.left : p[1] \in Contracts /\ p[2] \in LeaseRows /\ p[2].end \in Nat
      BY <2>2, Fields
    <3>2. \A p \in k.left : p[2].end < today => p[2].end < today'
      BY <3>1 DEF Grows
    <3> QED  BY <1>2, <3>1, <3>2 DEF Grows, JobSound
  <2> QED  BY <2>1, <2>2
<1> QED  BY <1>1, <1>2

LEMMA Typing == LeaseTypeOK <=>
    /\ RowsTyped /\ RestTyped
    /\ edit \in [Users -> Editing \cup {Idle}] /\ dailyJob \in [Jobs -> Running \cup {Idle}]
  BY DEF LeaseTypeOK, RowsTyped, RestTyped

\* A step that leaves the contracts alone.
LEMMA Untouched ==
  ASSUME LeaseIInv, UNCHANGED <<contract, history>>, today <= today'
  PROVE  Grows /\ RowsTyped' /\ AllJudged'
<1>1. RowsTyped /\ AllJudged
  BY Typing DEF LeaseIInv
<1> QED  BY <1>1 DEF Grows, RowsTyped, AllJudged, Judged, Remembered, Tells

\* Nothing but a request moves, or a run of the job.
LEMMA UserMoves ==
  ASSUME LeaseIInv, NEW u \in Users, NEW e \in Editing \cup {Idle},
         edit' = [edit EXCEPT ![u] = e], UNCHANGED dailyJob, EditSound(e)',
         Grows, RowsTyped', AllJudged', RestTyped', \A x \in trail' : Tells(x)'
  PROVE  LeaseIInv'
<1>0. \A x \in trail' : Tells(x)'
  OBVIOUS
<1>1. /\ edit \in [Users -> Editing \cup {Idle}] /\ dailyJob \in [Jobs -> Running \cup {Idle}]
      /\ today \in Int /\ today' \in Int
  BY Typing, LeaseAssumption DEF LeaseIInv, RestTyped
<1>2. /\ edit' \in [Users -> Editing \cup {Idle}] /\ edit'[u] = e
      /\ \A v \in Users \ {u} : edit'[v] = edit[v]
  BY <1>1
<1>3. ASSUME NEW v \in Users  PROVE EditSound(edit[v])'
  <2>1. PICK d \in Editing \cup {Idle} : d = edit'[v] /\ (v # u => d = edit[v])
    BY <1>2
  <2>2. EditSound(d)'
    BY <1>1, <1>2, <2>1, SoundStays DEF LeaseIInv
  <2> QED  BY <2>1, <2>2 DEF EditSound
<1>4. ASSUME NEW j \in Jobs  PROVE JobSound(dailyJob[j])'
  <2>1. PICK k \in Running \cup {Idle} : k = dailyJob[j] /\ k = dailyJob'[j]
    BY <1>1
  <2>2. JobSound(k)'
    BY <1>1, <2>1, SoundStays DEF LeaseIInv
  <2> QED  BY <2>1, <2>2 DEF JobSound
<1>5. LeaseTypeOK'
  BY <1>1, <1>2 DEF LeaseTypeOK, RowsTyped, RestTyped
<1> QED  BY <1>0, <1>3, <1>4, <1>5 DEF LeaseIInv

LEMMA JobRuns ==
  ASSUME LeaseIInv, NEW j \in Jobs, NEW k \in Running \cup {Idle},
         dailyJob' = [dailyJob EXCEPT ![j] = k], UNCHANGED edit, JobSound(k)',
         Grows, RowsTyped', AllJudged', RestTyped', \A x \in trail' : Tells(x)'
  PROVE  LeaseIInv'
<1>0. \A x \in trail' : Tells(x)'
  OBVIOUS
<1>1. /\ edit \in [Users -> Editing \cup {Idle}] /\ dailyJob \in [Jobs -> Running \cup {Idle}]
      /\ today \in Int /\ today' \in Int
  BY Typing, LeaseAssumption DEF LeaseIInv, RestTyped
<1>2. /\ dailyJob' \in [Jobs -> Running \cup {Idle}] /\ dailyJob'[j] = k
      /\ \A i \in Jobs \ {j} : dailyJob'[i] = dailyJob[i]
  BY <1>1
<1>3. ASSUME NEW i \in Jobs  PROVE JobSound(dailyJob[i])'
  <2>1. PICK n \in Running \cup {Idle} : n = dailyJob'[i] /\ (i # j => n = dailyJob[i])
    BY <1>2
  <2>2. JobSound(n)'
    BY <1>1, <1>2, <2>1, SoundStays DEF LeaseIInv
  <2> QED  BY <2>1, <2>2 DEF JobSound
<1>4. ASSUME NEW v \in Users  PROVE EditSound(edit[v])'
  <2>1. PICK d \in Editing \cup {Idle} : d = edit[v] /\ d = edit'[v]
    BY <1>1
  <2>2. EditSound(d)'
    BY <1>1, <2>1, SoundStays DEF LeaseIInv
  <2> QED  BY <2>1, <2>2 DEF EditSound
<1>5. LeaseTypeOK'
  BY <1>1, <1>2 DEF LeaseTypeOK, RowsTyped, RestTyped
<1> QED  BY <1>0, <1>3, <1>4, <1>5 DEF LeaseIInv

\* A write under the version: what it replaces is what its writer had read, the copies
\* of others become old, and its log row would be true.
LEMMA WriteKeeps ==
  ASSUME LeaseIInv, NEW c \in Contracts, NEW copy \in LeaseRows, NEW new \in LeaseRows,
         NEW action \in LeaseActions, NEW by \in {"hand", "job"},
         Fresh(c, copy), Remembered(c, copy), Writes(c, copy, new, action, by), UNCHANGED today,
         copy.status # "terminated",
         by = "job" => copy.status = "active" /\ copy.end < today /\ copy.auto = (action = "renew")
  PROVE  /\ Grows /\ RowsTyped' /\ AllJudged'
         /\ Tells(LeaseEntry(c, copy, new.status, action))'
<1> DEFINE w == [was |-> contract[c], read |-> copy, now |-> new.status, end |-> new.end,
                 action |-> action, by |-> by, on |-> today]
           made == [new EXCEPT !.version = contract[c].version + 1]
<1>1. RowsTyped /\ RestTyped /\ AllJudged
  BY Typing DEF LeaseIInv
<1>2. contract[c] = copy
  BY DEF Remembered, Fresh
<1>3. copy.version \in Nat /\ copy # Absent /\ Len(history[c]) = copy.version /\ today \in Nat
  BY <1>1, <1>2, Fields, LeaseAssumption DEF RowsTyped, RestTyped
<1>4. w \in Writings
  BY <1>2, <1>3, Fields DEF Writings
<1>5. made \in LeaseRows /\ made.version = copy.version + 1 /\ made # Absent
  <2>1. made \in LeaseRows /\ made.version = copy.version + 1
    BY <1>2, <1>3 DEF LeaseRows
  <2> QED  BY <2>1, Fields
<1>6. /\ contract' \in [Contracts -> LeaseRows \cup {Absent}] /\ contract'[c] = made
      /\ \A d \in Contracts \ {c} : contract'[d] = contract[d]
  BY <1>1, <1>5 DEF RowsTyped, Writes
<1>7. history[c] \in Seq(Writings) /\ history' = [history EXCEPT ![c] = Append(history[c], w)]
  BY <1>1 DEF RowsTyped, Writes
<1>8. /\ Append(history[c], w) \in Seq(Writings) /\ Len(Append(history[c], w)) = copy.version + 1
      /\ Append(history[c], w)[copy.version + 1] = w
      /\ \A i \in 1..copy.version : Append(history[c], w)[i] = history[c][i]
  <2> HIDE DEF w
  <2> QED  BY <1>3, <1>4, <1>7
<1>9. /\ history' \in [Contracts -> Seq(Writings)]
      /\ Len(history'[c]) = copy.version + 1 /\ history'[c][copy.version + 1] = w
      /\ \A i \in 1..copy.version : history'[c][i] = history[c][i]
      /\ \A d \in Contracts \ {c} : history'[d] = history[d]
  <2> HIDE DEF w
  <2> QED  BY <1>1, <1>7, <1>8 DEF RowsTyped
<1> HIDE DEF made
<1>10. RowsTyped'
  BY <1>1, <1>5, <1>6, <1>9 DEF RowsTyped
<1>11. \A d \in Contracts, r \in LeaseRows : Remembered(d, r) => Remembered(d, r)'
  <2> SUFFICES ASSUME NEW d \in Contracts, NEW r \in LeaseRows, Remembered(d, r)
               PROVE  Remembered(d, r)'
    OBVIOUS
  <2>1. CASE d = c
    <3>1. r.version \in Nat /\ r.version <= copy.version
      BY <1>2, <2>1, Fields DEF Remembered
    <3> QED  BY <1>3, <1>5, <1>6, <2>1, <3>1 DEF Remembered
  <2>2. CASE d # c
    BY <1>6, <2>2 DEF Remembered
  <2> QED  BY <2>1, <2>2
<1>12. \A e \in LeaseLog : Tells(e) => Tells(e)'
  <2> SUFFICES ASSUME NEW e \in LeaseLog, Tells(e)  PROVE Tells(e)'
    OBVIOUS
  <2>1. e.version \in Nat /\ e.contract \in Contracts
    BY DEF LeaseLog
  <2>2. CASE e.contract = c
    <3>1. e.version + 1 \in 1..copy.version
      BY <1>3, <2>1, <2>2 DEF Tells
    <3>2. /\ history'[e.contract][e.version + 1] = history[e.contract][e.version + 1]
          /\ e.version < Len(history'[e.contract])
      BY <1>3, <1>9, <2>1, <2>2, <3>1
    <3> QED  BY <3>2 DEF Tells
  <2>3. CASE e.contract # c
    BY <1>9, <2>1, <2>3 DEF Tells
  <2> QED  BY <2>2, <2>3
<1>13. Grows
  BY <1>3, <1>11, <1>12 DEF Grows
<1>14. AllJudged'
  <2>1. Judged(w)
    BY <1>2 DEF Judged
  <2> SUFFICES ASSUME NEW d \in Contracts, NEW i \in 1..Len(history'[d])
               PROVE  Judged(history'[d][i])
    BY DEF AllJudged, Judged
  <2>2. CASE d = c
    <3>1. CASE i = copy.version + 1
      BY <1>9, <2>1, <2>2, <3>1
    <3>2. CASE i # copy.version + 1
      <4>1. i \in 1..copy.version
        BY <1>3, <1>9, <2>2, <3>2
      <4> QED  BY <1>1, <1>3, <1>9, <2>2, <4>1 DEF AllJudged
    <3> QED  BY <3>1, <3>2
  <2>3. CASE d # c
    BY <1>1, <1>9, <2>3 DEF AllJudged
  <2> QED  BY <2>2, <2>3
<1>15. Tells(LeaseEntry(c, copy, new.status, action))'
  <2>1. w.was.status = copy.status /\ w.now = new.status /\ w.action = action
    BY <1>2
  <2> HIDE DEF w
  <2> QED  BY <1>3, <1>9, <2>1 DEF Tells, LeaseEntry
<1> QED  BY <1>10, <1>13, <1>14, <1>15

\* What holds before every step of the lemmas below.
LEMMA Known ==
  ASSUME LeaseIInv
  PROVE  /\ RowsTyped /\ RestTyped /\ AllJudged
         /\ edit \in [Users -> Editing \cup {Idle}] /\ dailyJob \in [Jobs -> Running \cup {Idle}]
         /\ today \in Nat /\ leaseFaults \in Nat
         /\ \A x \in trail : Tells(x)
         /\ \A u \in Users : EditSound(edit[u])
         /\ \A j \in Jobs : JobSound(dailyJob[j])
  BY Typing, LeaseAssumption DEF LeaseIInv, RestTyped

\* A step that writes no contract, no log and does not move the calendar.
LEMMA Quiet ==
  ASSUME LeaseIInv, UNCHANGED <<contract, history, trail, today>>
  PROVE  Grows /\ RowsTyped' /\ AllJudged' /\ \A x \in trail' : Tells(x)'
<1>1. /\ Grows /\ RowsTyped' /\ AllJudged'
  BY Untouched, Known
<1>2. trail \subseteq LeaseLog /\ \A x \in trail : Tells(x)
  BY Known DEF RestTyped
<1> QED  BY <1>1, <1>2 DEF Grows

LEMMA Faults ==
  ASSUME LeaseIInv, LeaseFaulty  PROVE leaseFaults' \in 0..MaxLeaseFaults
  BY Known, LeaseAssumption DEF RestTyped, LeaseFaulty

------------------------------------------------------------------------------
(* The changes made by hand.                                               *)

LEMMA CreateKeeps ==
  ASSUME LeaseIInv, NEW c \in Contracts, NEW start \in Starts, NEW term \in Terms,
         NEW auto \in BOOLEAN, CreateContract(c, start, term, auto)
  PROVE  LeaseIInv'
<1> DEFINE new == [status |-> "pending", start |-> start, end |-> start + term,
                   auto |-> auto, version |-> 0]
<1>1. contract[c] = Absent /\ contract' = [contract EXCEPT ![c] = new]
      /\ UNCHANGED <<history, trail, today, locks, edit, dailyJob, leaseFaults>>
  BY DEF CreateContract
<1>2. new \in LeaseRows /\ new.version = 0 /\ new # Absent
  <2>1. new \in LeaseRows /\ new.version = 0
    BY LeaseAssumption DEF LeaseRows, LeaseStatuses
  <2> QED  BY <2>1, Fields
<1> HIDE DEF new
<1>3. /\ contract' \in [Contracts -> LeaseRows \cup {Absent}] /\ contract'[c] = new
      /\ \A d \in Contracts \ {c} : contract'[d] = contract[d]
  BY <1>1, <1>2, Known DEF RowsTyped
<1>4. RowsTyped'
  BY <1>1, <1>2, <1>3, Known DEF RowsTyped
<1>5. AllJudged'
  BY <1>1, Known DEF AllJudged, Judged
<1>6. Grows
  <2>1. \A d \in Contracts, copy \in LeaseRows : Remembered(d, copy) => Remembered(d, copy)'
    BY <1>1, <1>3 DEF Remembered
  <2> QED  BY <1>1, <2>1, Known DEF Grows, Tells
<1>7. LeaseTypeOK'
  BY <1>1, <1>4, Known DEF LeaseTypeOK, RowsTyped, RestTyped
<1>8. /\ \A u \in Users : EditSound(edit[u])'
      /\ \A j \in Jobs : JobSound(dailyJob[j])'
  <2>1. today \in Int /\ today' \in Int
    BY <1>1, Known
  <2>2. ASSUME NEW u \in Users  PROVE EditSound(edit[u])'
    <3>1. PICK d \in Editing \cup {Idle} : d = edit[u] /\ d = edit'[u]
      BY <1>1, Known
    <3>2. EditSound(d)'
      BY <1>6, <2>1, <3>1, SoundStays, Known
    <3> QED  BY <3>1, <3>2 DEF EditSound
  <2>3. ASSUME NEW j \in Jobs  PROVE JobSound(dailyJob[j])'
    <3>1. PICK k \in Running \cup {Idle} : k = dailyJob[j] /\ k = dailyJob'[j]
      BY <1>1, Known
    <3>2. JobSound(k)'
      BY <1>6, <2>1, <3>1, SoundStays, Known
    <3> QED  BY <3>1, <3>2 DEF JobSound
  <2> QED  BY <2>2, <2>3
<1>9. \A x \in trail' : Tells(x)'
  BY <1>1, Known DEF Tells
<1> QED  BY <1>5, <1>7, <1>8, <1>9 DEF LeaseIInv

LEMMA LoadKeeps ==
  ASSUME LeaseIInv, NEW u \in Users, NEW c \in Contracts, NEW action \in LeaseActions,
         NEW term \in Terms, LoadContract(u, c, action, term)
  PROVE  LeaseIInv'
<1>1. /\ contract[c] # Absent /\ Allowed(contract[c].status, action)
      /\ UNCHANGED <<contract, history, trail, today, locks, dailyJob, leaseFaults>>
  BY DEF LoadContract
<1>2. PICK copy \in LeaseRows : copy = contract[c]
  BY <1>1, Known DEF RowsTyped
<1>3. /\ copy.version \in Nat /\ copy.status \in LeaseStatuses /\ copy.end \in Nat
      /\ copy.auto \in BOOLEAN /\ copy.status # "terminated"
  BY <1>1, <1>2, Fields DEF Allowed, LeaseActions
<1>4. PICK new \in LeaseRows : new = Changed(copy, action, term)
  <2>1. Target(copy.status, action) \in LeaseStatuses
    BY <1>3 DEF Target, LeaseActions, LeaseStatuses
  <2>2. (IF action = "renew" THEN copy.end + term ELSE copy.end) \in Nat
    BY <1>3, LeaseAssumption
  <2>3. (IF action = "update" THEN ~copy.auto ELSE copy.auto) \in BOOLEAN
    BY <1>3
  <2>4. Changed(copy, action, term) \in LeaseRows
    BY <2>1, <2>2, <2>3 DEF Changed, LeaseRows
  <2> QED  BY <2>4
<1> DEFINE e == [pc |-> "write", contract |-> c, row |-> copy, action |-> action, new |-> new]
<1>5. edit' = [edit EXCEPT ![u] = e]
  BY <1>2, <1>4 DEF LoadContract
<1>6. e \in Editing
  BY DEF Editing
<1>7. EditSound(e)'
  BY <1>1, <1>2, <1>3 DEF EditSound, Remembered
<1> HIDE DEF e
<1>8. RestTyped'
  BY <1>1, Known DEF RestTyped
<1>9. Grows /\ RowsTyped' /\ AllJudged' /\ \A x \in trail' : Tells(x)'
  BY <1>1, Quiet
<1> QED  BY <1>1, <1>5, <1>6, <1>7, <1>8, <1>9, UserMoves

LEMMA WriteByHandKeeps ==
  ASSUME LeaseIInv, NEW u \in Users, WriteContract(u)  PROVE LeaseIInv'
<1>1. PICK e \in Editing \cup {Idle} : e = edit[u]
  BY Known
<1> DEFINE d == [e EXCEPT !.pc = "log"]
<1>2. /\ e.pc = "write" /\ Fresh(e.contract, e.row)
      /\ Writes(e.contract, e.row, e.new, e.action, "hand")
      /\ edit' = [edit EXCEPT ![u] = d]
      /\ UNCHANGED <<trail, today, locks, dailyJob, leaseFaults>>
  BY <1>1 DEF WriteContract
<1>3. e \in Editing /\ EditSound(e)
  BY <1>1, <1>2, Known DEF Idle
<1>4. /\ e.contract \in Contracts /\ e.row \in LeaseRows /\ e.new \in LeaseRows
      /\ e.action \in LeaseActions
  BY <1>3, Fields
<1>5. Remembered(e.contract, e.row) /\ e.row.status # "terminated"
  BY <1>2, <1>3 DEF EditSound
<1>6. /\ Grows /\ RowsTyped' /\ AllJudged'
      /\ Tells(LeaseEntry(e.contract, e.row, e.new.status, e.action))'
  BY <1>2, <1>4, <1>5, WriteKeeps
<1>7. /\ d \in Editing /\ d.pc = "log" /\ d.contract = e.contract /\ d.row = e.row
      /\ d.new = e.new /\ d.action = e.action
  BY <1>3 DEF Editing
<1>8. EditSound(d)'
  <2> HIDE DEF d
  <2> QED  BY <1>6, <1>7 DEF EditSound
<1>9. RestTyped' /\ \A x \in trail' : Tells(x)'
  <2>1. \A x \in trail : x \in LeaseLog /\ Tells(x)
    BY Known DEF RestTyped
  <2> QED  BY <1>2, <1>6, <2>1, Known DEF RestTyped, Grows
<1> HIDE DEF d
<1> QED  BY <1>2, <1>6, <1>7, <1>8, <1>9, UserMoves

LEMMA RefusedKeeps ==
  ASSUME LeaseIInv, NEW u \in Users, WriteRefused(u)  PROVE LeaseIInv'
<1>1. /\ edit' = [edit EXCEPT ![u] = Idle] /\ leaseFaults' \in 0..MaxLeaseFaults
      /\ UNCHANGED <<contract, history, trail, today, locks, dailyJob>>
  BY Known, Faults DEF WriteRefused, RestTyped
<1>2. RestTyped'
  BY <1>1, Known DEF RestTyped
<1>3. EditSound(Idle)'
  BY DEF EditSound, Idle
<1>4. Grows /\ RowsTyped' /\ AllJudged' /\ \A x \in trail' : Tells(x)'
  BY <1>1, Quiet
<1> QED  BY <1>1, <1>2, <1>3, <1>4, UserMoves

LEMMA LogKeeps ==
  ASSUME LeaseIInv, NEW u \in Users, LogChange(u)  PROVE LeaseIInv'
<1>1. PICK e \in Editing \cup {Idle} : e = edit[u]
  BY Known
<1>2. e.pc = "log" /\ e \in Editing /\ EditSound(e)
  BY <1>1, Known DEF LogChange, Idle
<1>3. PICK y \in LeaseLog : y = LeaseEntry(e.contract, e.row, e.new.status, e.action)
  BY <1>2, Fields
<1>4. Tells(y)
  BY <1>2, <1>3 DEF EditSound
<1>5. /\ edit' = [edit EXCEPT ![u] = Idle]
      /\ trail' \subseteq trail \cup {y} /\ leaseFaults' \in 0..MaxLeaseFaults
      /\ UNCHANGED <<contract, history, today, locks, dailyJob>>
  BY <1>1, <1>3, Known, Faults DEF LogChange, Logs, RestTyped
<1>6. Grows /\ RowsTyped' /\ AllJudged'
  BY <1>5, Untouched, Known
<1>7. RestTyped' /\ \A x \in trail' : Tells(x)'
  BY <1>4, <1>5, <1>6, Known DEF RestTyped, Grows
<1>8. EditSound(Idle)'
  BY DEF EditSound, Idle
<1> QED  BY <1>5, <1>6, <1>7, <1>8, UserMoves

------------------------------------------------------------------------------
(* The steps of the daily job.                                             *)

\* A step of a run that writes no contract and no log.
LEMMA QuietRun ==
  ASSUME LeaseIInv, NEW j \in Jobs, NEW k \in Running \cup {Idle},
         dailyJob' = [dailyJob EXCEPT ![j] = k],
         UNCHANGED <<contract, history, trail, today, edit>>,
         locks' \subseteq (FirstMonth..LastMonth) \X Jobs, leaseFaults' \in 0..MaxLeaseFaults,
         JobSound(k)'
  PROVE  LeaseIInv'
<1>1. Grows /\ RowsTyped' /\ AllJudged' /\ \A x \in trail' : Tells(x)'
  BY Quiet
<1>2. RestTyped'
  BY Known DEF RestTyped
<1> QED  BY <1>1, <1>2, JobRuns

LEMMA BeginKeeps ==
  ASSUME LeaseIInv, NEW j \in Jobs, Begin(j)  PROVE LeaseIInv'
<1>1. PICK day \in FirstMonth..LastMonth : day = today
  BY Known DEF RestTyped
<1> DEFINE k == [pc |-> "renewList", lock |-> <<day, j>>, left |-> {}, entry |-> <<>>]
<1>2. /\ dailyJob' = [dailyJob EXCEPT ![j] = k] /\ locks' = locks \cup {<<day, j>>}
      /\ UNCHANGED <<contract, history, trail, today, edit, leaseFaults>>
  BY <1>1 DEF Begin
<1>3. k \in Running
  BY DEF Running
<1>4. JobSound(k)'
  BY DEF JobSound
<1>5. locks' \subseteq (FirstMonth..LastMonth) \X Jobs /\ leaseFaults' \in 0..MaxLeaseFaults
  BY <1>2, Known DEF RestTyped
<1> HIDE DEF k
<1> QED  BY <1>2, <1>3, <1>4, <1>5, QuietRun

LEMMA ListKeeps ==
  ASSUME LeaseIInv, NEW j \in Jobs, ListDue(j)  PROVE LeaseIInv'
<1>1. PICK old \in Running \cup {Idle} : old = dailyJob[j]
  BY Known
<1>2. PICK next \in {"renew", "expire"} : Lists(j, next, Due(next = "renew"))
  BY DEF ListDue
<1>3. old \in Running
  <2>1. old.pc \in {"renewList", "expireList"}
    BY <1>1 DEF ListDue
  <2> QED  BY <2>1 DEF Idle
<1> DEFINE found == {<<c, contract[c]>> : c \in Due(next = "renew")}
<1>4. /\ found \subseteq Contracts \X LeaseRows
      /\ \A p \in found : /\ contract[p[1]] = p[2] /\ p[2].status = "active"
                          /\ p[2].auto = (next = "renew") /\ p[2].end < today
  <2>1. \A c \in Due(next = "renew") : c \in Contracts /\ contract[c] \in LeaseRows
    BY Known DEF Due, RowsTyped, Absent
  <2> QED  BY <2>1 DEF Due
<1>5. PICK chosen \in SUBSET (Contracts \X LeaseRows) : chosen = found
  BY <1>4
<1> HIDE DEF found
<1> DEFINE k == [old EXCEPT !.pc = next, !.left = chosen]
<1>6. /\ dailyJob' = [dailyJob EXCEPT ![j] = k]
      /\ UNCHANGED <<contract, history, trail, today, locks, edit, leaseFaults>>
  BY <1>1, <1>2, <1>5 DEF Lists, found
<1>7. k \in Running /\ k.pc = next /\ k.left = chosen
  BY <1>3 DEF Running
<1>8. JobSound(k)'
  <2>1. \A p \in chosen :
          /\ Remembered(p[1], p[2])' /\ p[2].status = "active" /\ p[2].end < today'
          /\ p[2].auto = (next = "renew")
    BY <1>4, <1>5, <1>6, Fields DEF Remembered
  <2> HIDE DEF k
  <2> QED  BY <1>7, <2>1 DEF JobSound
<1>9. locks' \subseteq (FirstMonth..LastMonth) \X Jobs /\ leaseFaults' \in 0..MaxLeaseFaults
  BY <1>6, Known DEF RestTyped
<1> HIDE DEF k
<1> QED  BY <1>6, <1>7, <1>8, <1>9, QuietRun

LEMMA YearsBehind ==
  ASSUME NEW start \in Nat, NEW end \in Nat  PROVE RenewEndDate(start, end) \in Nat
<1>1. Years(start, end) \in 1..MaxRenewYears => Years(start, end) * MonthsPerYear \in Nat
  BY LeaseAssumption
<1> QED  BY <1>1, LeaseAssumption DEF RenewEndDate

\* RenewDue and ExpireDue.
LEMMA DailyKeeps ==
  ASSUME LeaseIInv, NEW j \in Jobs,
         RenewDue(j) \/ ExpireDue(j)
  PROVE  LeaseIInv'
<1>1. PICK old \in Running \cup {Idle} : old = dailyJob[j]
  BY Known
<1>2. PICK step \in {"renew", "expire"}, to \in {"active", "expired"},
           action \in {"renew", "expire"}, logStep \in {"renewLog", "expireLog"} :
        /\ Daily(j, step, to, action, logStep) /\ action = step
        /\ logStep = "renewLog" <=> step = "renew"
  BY DEF RenewDue, ExpireDue
<1>3. old \in Running /\ old.pc = step /\ JobSound(old)
  BY <1>1, <1>2, Known DEF Daily, Idle
<1>4. PICK p \in old.left :
        /\ IF StillDue(p[1], p[2])
           THEN /\ Writes(p[1], p[2],
                     [p[2] EXCEPT !.status = to,
                                           !.end = IF action = "renew"
                                          THEN RenewEndDate(p[2].start, @) ELSE @],
                     action, "job")
                /\ dailyJob' = [dailyJob EXCEPT ![j].pc = logStep, ![j].left = @ \ {p},
                                   ![j].entry = LeaseEntry(p[1], p[2], to, action)]
           ELSE /\ dailyJob' = [dailyJob EXCEPT ![j].left = @ \ {p}]
                /\ UNCHANGED <<contract, history>>
        /\ UNCHANGED <<trail, today, locks, edit, leaseFaults>>
  <2>1. Daily(j, step, to, action, logStep) /\ dailyJob[j].left = old.left
    BY <1>1, <1>2
  <2> QED  BY ONLY <2>1 DEF Daily
<1>5. PICK c \in Contracts, copy \in LeaseRows : c = p[1] /\ copy = p[2]
  BY <1>3, <1>4, Fields
<1>6. /\ Remembered(c, copy) /\ copy.status = "active" /\ copy.end < today
      /\ copy.auto = (step = "renew")
  BY <1>3, <1>4, <1>5 DEF JobSound
<1>7. locks' \subseteq (FirstMonth..LastMonth) \X Jobs /\ leaseFaults' \in 0..MaxLeaseFaults
  BY <1>4, Known DEF RestTyped
<1>8. CASE StillDue(c, copy)
  <2>1. PICK new \in LeaseRows : new = [copy EXCEPT !.status = to,
                                           !.end = IF action = "renew"
                                                  THEN RenewEndDate(copy.start, copy.end) ELSE copy.end]
    <3>1. copy.start \in Nat /\ copy.end \in Nat /\ RenewEndDate(copy.start, copy.end) \in Nat
      BY Fields, YearsBehind
    <3> QED  BY <3>1 DEF LeaseRows, LeaseStatuses
  <2>2. new.status = to
    BY <2>1 DEF LeaseRows
  <2>3. Writes(c, copy, new, action, "job") /\ Fresh(c, copy)
    BY <1>4, <1>5, <1>8, <2>1 DEF StillDue
  <2>4. action \in LeaseActions
    BY DEF LeaseActions
  <2>5. /\ Grows /\ RowsTyped' /\ AllJudged' /\ Tells(LeaseEntry(c, copy, new.status, action))'
    BY <1>2, <1>4, <1>6, <2>3, <2>4, WriteKeeps
  <2>6. PICK y \in LeaseLog : y = LeaseEntry(c, copy, to, action)
    BY Fields DEF LeaseEntry, LeaseLog, LeaseStatuses, LeaseActions
  <2>7. Tells(y)'
    BY <2>2, <2>5, <2>6
  <2> DEFINE k == [old EXCEPT !.pc = logStep, !.left = old.left \ {p}, !.entry = y]
  <2>8. dailyJob' = [dailyJob EXCEPT ![j] = k]
    <3>1. dailyJob' = [dailyJob EXCEPT ![j].pc = logStep, ![j].left = @ \ {p}, ![j].entry = y]
      BY <1>4, <1>5, <1>8, <2>6
    <3> QED  BY <1>1, <3>1
  <2>9. /\ k \in Running /\ k.pc = logStep /\ k.left = old.left \ {p} /\ k.entry = y
    BY <1>3 DEF Running
  <2>10. JobSound(k)'
    <3>1. JobSound(old)'
      BY <1>3, <1>4, <2>5, Known, SoundStays
    <3> HIDE DEF k
    <3> QED  BY <1>2, <1>3, <2>7, <2>9, <3>1 DEF JobSound
  <2>11. RestTyped' /\ \A x \in trail' : Tells(x)'
    BY <1>4, <2>5, Known DEF RestTyped, Grows
  <2> HIDE DEF k
  <2> QED  BY <1>4, <2>5, <2>8, <2>9, <2>10, <2>11, JobRuns
<1>9. CASE ~StillDue(c, copy)
  <2> DEFINE k == [old EXCEPT !.left = old.left \ {p}]
  <2>1. dailyJob' = [dailyJob EXCEPT ![j] = k] /\ UNCHANGED <<contract, history>>
    <3>1. /\ dailyJob' = [dailyJob EXCEPT ![j].left = @ \ {p}]
          /\ UNCHANGED <<contract, history>>
      BY <1>4, <1>5, <1>9
    <3> QED  BY <1>1, <3>1
  <2>2. k \in Running /\ k.pc = old.pc /\ k.left = old.left \ {p}
    BY <1>3 DEF Running
  <2>3. JobSound(k)'
    <3>1. Grows
      BY <1>4, <2>1, Quiet
    <3>2. JobSound(old)'
      BY <1>3, <1>4, <3>1, Known, SoundStays
    <3> HIDE DEF k
    <3> QED  BY <1>3, <2>2, <3>2 DEF JobSound
  <2> HIDE DEF k
  <2> QED  BY <1>4, <1>7, <2>1, <2>2, <2>3, QuietRun
<1> QED  BY <1>8, <1>9

LEMMA DailyLogKeeps ==
  ASSUME LeaseIInv, NEW j \in Jobs, DailyLog(j)  PROVE LeaseIInv'
<1>1. PICK old \in Running \cup {Idle} : old = dailyJob[j]
  BY Known
<1>2. /\ old \in Running /\ old.pc \in {"renewLog", "expireLog"} /\ JobSound(old)
  BY <1>1, Known DEF DailyLog, Idle
<1>3. old.entry \in LeaseLog /\ Tells(old.entry)
  BY <1>2 DEF JobSound
<1> DEFINE k == [old EXCEPT !.pc = IF old.pc = "renewLog" THEN "renew" ELSE "expire",
                            !.entry = <<>>]
<1>4. /\ dailyJob' = [dailyJob EXCEPT ![j] = k] /\ trail' \subseteq trail \cup {old.entry}
      /\ UNCHANGED <<contract, history, today, locks, edit>>
      /\ leaseFaults' \in 0..MaxLeaseFaults
  BY <1>1, Known, Faults DEF DailyLog, RestTyped
<1>5. /\ k \in Running /\ k.left = old.left
      /\ k.pc = IF old.pc = "renewLog" THEN "renew" ELSE "expire"
  BY <1>2 DEF Running
<1>6. Grows /\ RowsTyped' /\ AllJudged'
  BY <1>4, Untouched, Known
<1>7. JobSound(k)'
  <2>1. JobSound(old)'
    BY <1>2, <1>4, <1>6, Known, SoundStays
  <2> HIDE DEF k
  <2> QED  BY <1>2, <1>5, <2>1 DEF JobSound
<1>8. RestTyped' /\ \A x \in trail' : Tells(x)'
  BY <1>3, <1>4, <1>6, Known DEF RestTyped, Grows
<1> HIDE DEF k
<1> QED  BY <1>4, <1>5, <1>6, <1>7, <1>8, JobRuns

LEMMA MovesKeep ==
  ASSUME LeaseIInv, NEW j \in Jobs, Proceed(j) \/ Aborts(j)  PROVE LeaseIInv'
<1>1. PICK old \in Running \cup {Idle} : old = dailyJob[j]
  BY Known
<1>2. old \in Running
  BY <1>1 DEF Proceed, Aborts, Idle
<1>3. PICK next \in {"expireList", "release"} : JobMoves(j, next)
  BY DEF Proceed, Aborts
<1> DEFINE k == [old EXCEPT !.pc = next]
<1>4. /\ dailyJob' = [dailyJob EXCEPT ![j] = k]
      /\ UNCHANGED <<contract, history, trail, today, locks, edit>>
      /\ leaseFaults' \in 0..MaxLeaseFaults
  BY <1>1, <1>3, Known, Faults DEF Proceed, Aborts, JobMoves, RestTyped
<1>5. k \in Running /\ k.pc = next
  BY <1>2 DEF Running
<1> HIDE DEF k
<1>6. JobSound(k)'
  BY <1>5 DEF JobSound
<1>7. locks' \subseteq (FirstMonth..LastMonth) \X Jobs
  BY <1>4, Known DEF RestTyped
<1> QED  BY <1>4, <1>5, <1>6, <1>7, QuietRun

LEMMA EndsKeep ==
  ASSUME LeaseIInv, NEW j \in Jobs, ReleaseDay(j) \/ JobDies(j)  PROVE LeaseIInv'
<1>1. /\ dailyJob' = [dailyJob EXCEPT ![j] = Idle]
      /\ UNCHANGED <<contract, history, trail, today, edit>>
      /\ locks' \subseteq locks /\ leaseFaults' \in 0..MaxLeaseFaults
  BY Known, Faults DEF ReleaseDay, JobDies, RestTyped
<1>2. JobSound(Idle)'
  BY DEF JobSound, Idle
<1>3. locks' \subseteq (FirstMonth..LastMonth) \X Jobs
  BY <1>1, Known DEF RestTyped
<1> QED  BY <1>1, <1>2, <1>3, QuietRun

\* A key lapses, a month passes.
LEMMA TimeKeeps ==
  ASSUME LeaseIInv, Lapse \/ MonthPasses  PROVE LeaseIInv'
<1>1. UNCHANGED <<contract, history, trail, edit, dailyJob>> /\ today <= today'
  BY Known DEF Lapse, MonthPasses
<1>2. RestTyped'
  BY Known, Faults, LeaseAssumption DEF Lapse, MonthPasses, RestTyped
<1>3. Grows /\ RowsTyped' /\ AllJudged'
  BY <1>1, Untouched
<1>4. today \in Int /\ today' \in Int
  BY <1>2, Known, LeaseAssumption DEF RestTyped
<1>5. \A x \in trail' : Tells(x)'
  BY <1>1, <1>3, Known DEF RestTyped, Grows
<1>6. ASSUME NEW u \in Users  PROVE EditSound(edit[u])'
  <2>1. PICK d \in Editing \cup {Idle} : d = edit[u] /\ d = edit'[u]
    BY <1>1, Known
  <2>2. EditSound(d)'
    BY <1>3, <1>4, <2>1, Known, SoundStays
  <2> QED  BY <2>1, <2>2 DEF EditSound
<1>7. ASSUME NEW j \in Jobs  PROVE JobSound(dailyJob[j])'
  <2>1. PICK k \in Running \cup {Idle} : k = dailyJob[j] /\ k = dailyJob'[j]
    BY <1>1, Known
  <2>2. JobSound(k)'
    BY <1>3, <1>4, <2>1, Known, SoundStays
  <2> QED  BY <2>1, <2>2 DEF JobSound
<1>8. LeaseTypeOK'
  BY <1>1, <1>2, <1>3, Known DEF LeaseTypeOK, RowsTyped, RestTyped
<1> QED  BY <1>3, <1>5, <1>6, <1>7, <1>8 DEF LeaseIInv

LEMMA LeaseKeeps == LeaseIInv /\ [LeaseNext]_leaseVars => LeaseIInv'
<1> SUFFICES ASSUME LeaseIInv, [LeaseNext]_leaseVars  PROVE LeaseIInv'
  OBVIOUS
<1>1. CASE UNCHANGED leaseVars
  BY <1>1 DEF leaseVars, LeaseIInv, LeaseTypeOK, AllJudged, Judged, Tells, EditSound, JobSound,
              Remembered
<1>2. ASSUME NEW c \in Contracts, NEW start \in Starts, NEW term \in Terms, NEW auto \in BOOLEAN,
             CreateContract(c, start, term, auto)
      PROVE  LeaseIInv'
  BY <1>2, CreateKeeps
<1>3. ASSUME NEW u \in Users, NEW c \in Contracts, NEW action \in LeaseActions, NEW term \in Terms,
             LoadContract(u, c, action, term)
      PROVE  LeaseIInv'
  BY <1>3, LoadKeeps
<1>4. ASSUME NEW u \in Users, WriteContract(u) \/ WriteRefused(u) \/ LogChange(u)
      PROVE  LeaseIInv'
  BY <1>4, WriteByHandKeeps, RefusedKeeps, LogKeeps
<1>5. ASSUME NEW j \in Jobs, Begin(j) \/ ListDue(j) \/ RenewDue(j) \/ ExpireDue(j) \/ DailyLog(j)
      PROVE  LeaseIInv'
  BY <1>5, BeginKeeps, ListKeeps, DailyKeeps, DailyLogKeeps
<1>6. ASSUME NEW j \in Jobs, Proceed(j) \/ Aborts(j) \/ ReleaseDay(j) \/ JobDies(j)
      PROVE  LeaseIInv'
  BY <1>6, MovesKeep, EndsKeep
<1>7. CASE Lapse \/ MonthPasses
  BY <1>7, TimeKeeps
<1> QED  BY <1>1, <1>2, <1>3, <1>4, <1>5, <1>6, <1>7 DEF LeaseNext

\* Jobs and people never undo each other, for any number of them.
THEOREM LeaseCorrect == LeaseSpec => []NothingOverwritten
<1>1. LeaseInit => LeaseIInv
  BY LeaseStarts
<1>2. LeaseIInv /\ [LeaseNext]_leaseVars => LeaseIInv'
  BY LeaseKeeps
<1>3. LeaseIInv => NothingOverwritten
  <2> SUFFICES ASSUME LeaseIInv, NEW c \in Contracts
               PROVE  /\ \A h \in Past(c) : Judged(h)
                      /\ \A e \in trail : e.contract = c => Tells(e)
    BY DEF NothingOverwritten, Judged, Tells
  <2> QED  BY Known DEF Past, AllJudged
<1> QED  BY <1>1, <1>2, <1>3, PTL DEF LeaseSpec

------------------------------------------------------------------------------
(* Fees.                                                                   *)

\* A rule's numbers, the built-in rule's as well.
LEMMA AppliedFits ==
  ASSUME NEW r \in FeeRules \cup {NoFeeRule}
  PROVE  Applied(r).free \in Nat /\ Applied(r).hourly \in Nat /\ Applied(r).cap \in Nat
BY FeeAssumption DEF FeeParameters, Applied, BuiltIn

\* Half a minute more is a minute more at most, and a minute an hour or a day.
LEMMA UnitsGrow ==
  ASSUME NEW t \in Nat
  PROVE  /\ Minutes(t) \in Nat /\ Minutes(t + 1) \in {Minutes(t), Minutes(t) + 1}
         /\ StartedHours(Minutes(t)) \in Nat /\ Days(Minutes(t)) \in Nat
         /\ StartedHours(Minutes(t + 1)) \in {StartedHours(Minutes(t)), StartedHours(Minutes(t)) + 1}
         /\ Days(Minutes(t + 1)) \in {Days(Minutes(t)), Days(Minutes(t)) + 1}
<1>1. Minutes(t) \in Nat /\ Minutes(t + 1) \in {Minutes(t), Minutes(t) + 1}
  BY DEF Minutes, UpTo
<1>2. ASSUME NEW m \in Nat
      PROVE  /\ StartedHours(m) \in Nat /\ StartedHours(m + 1) \in {StartedHours(m), StartedHours(m) + 1}
             /\ Days(m) \in Nat /\ Days(m + 1) \in {Days(m), Days(m) + 1}
  BY DEF StartedHours, Days, UpTo
<1> QED  BY <1>1, <1>2

\* One factor grows by one.
LEMMA OneMore ==
  ASSUME NEW a \in Nat, NEW b \in {a, a + 1}, NEW c \in Nat
  PROVE  a * c \in Nat /\ b * c \in {a * c, a * c + c}
OBVIOUS

\* The fee of a longer stay, by CalcFeeByRule.
LEMMA FeeStep ==
  ASSUME NEW v, NEW r, r.free \in Nat, r.hourly \in Nat, r.cap \in Nat, NEW t \in Nat
  PROVE  /\ Fee(v, r, t) \in Nat /\ Fee(v, r, t) <= Fee(v, r, t + 1) /\ Fee(v, r, t + 1) \in Nat
         /\ Fee(v, r, t) > 0 =>
              \/ Fee(v, r, t + 1) - Fee(v, r, t) <= r.hourly
              \/ Fee(v, r, t + 1) - Fee(v, r, t) <= r.cap
<1> DEFINE m == Minutes(t)
           n == Minutes(t + 1)
           used == StartedHours(m) * r.hourly
           usedNext == StartedHours(n) * r.hourly
           most == Days(m) * r.cap
           mostNext == Days(n) * r.cap
<1>1. m \in Nat /\ n \in {m, m + 1}
  BY UnitsGrow
<1>2. used \in Nat /\ usedNext \in {used, used + r.hourly}
  BY UnitsGrow, OneMore
<1>3. most \in Nat /\ mostNext \in {most, most + r.cap}
  BY UnitsGrow, OneMore
<1>4. /\ Fee(v, r, t) = IF v # "temp" \/ m <= r.free THEN 0
                        ELSE IF r.cap > 0 THEN Smaller(used, most) ELSE used
      /\ Fee(v, r, t + 1) = IF v # "temp" \/ n <= r.free THEN 0
                            ELSE IF r.cap > 0 THEN Smaller(usedNext, mostNext) ELSE usedNext
  BY DEF Fee
<1> HIDE DEF m, n, used, usedNext, most, mostNext
<1> QED  BY <1>1, <1>2, <1>3, <1>4 DEF Smaller

\* The fee never falls as a car stays on, and once there is one it grows by an hour or
\* by a day's cap at a time, for any rules, vehicles and lengths of stay.
THEOREM FeeCorrect == FeeSpec => FeeGrows
<1>1. FeeInit => FeeTypeOK
  BY DEF FeeInit, FeeTypeOK
<1>2. FeeTypeOK /\ [FeeNext]_feeVars => FeeTypeOK'
  BY FeeAssumption DEF FeeTypeOK, FeeNext, Stay, feeVars, FeeParameters
<1>3. ASSUME FeeTypeOK, FeeTypeOK', [FeeNext]_feeVars
      PROVE  LET r    == Applied(feeRule)
                 step == AmountDue' - AmountDue
             IN  /\ step >= 0
                 /\ AmountDue > 0 => step <= r.hourly \/ step <= r.cap
  <2>1. Applied(feeRule).free \in Nat /\ Applied(feeRule).hourly \in Nat /\ Applied(feeRule).cap \in Nat
        /\ stay \in Nat
    BY <1>3, AppliedFits, FeeAssumption DEF FeeTypeOK, FeeParameters
  <2>2. AmountDue = Fee(vehicle, Applied(feeRule), stay) /\ AmountDue \in Nat
    BY <2>1, FeeStep DEF AmountDue
  <2>3. CASE FeeNext
    <3>1. AmountDue' = Fee(vehicle, Applied(feeRule), stay + 1)
      BY <2>3 DEF AmountDue, FeeNext, Stay
    <3> QED  BY <2>1, <2>2, <3>1, FeeStep
  <2>4. CASE UNCHANGED feeVars
    <3>1. AmountDue' = AmountDue
      BY <2>4 DEF AmountDue, feeVars
    <3> QED  BY <2>1, <2>2, <3>1
  <2> QED  BY <1>3, <2>3, <2>4
<1> QED  BY <1>1, <1>2, <1>3, PTL DEF FeeSpec, FeeGrows
------------------------------------------------------------------------------
(* Bills: the tiers of a rule, filled one after the other.                 *)

Line == [usage : Int, amount : Int]

LEMMA LinesAppend ==
  ASSUME NEW items \in Seq(Line), NEW x \in Line
  PROVE  /\ Append(items, x) \in Seq(Line)
         /\ Usages(items) \in Int /\ Usages(Append(items, x)) = Usages(items) + x.usage
         /\ Amounts(items) \in Int /\ Amounts(Append(items, x)) = Amounts(items) + x.amount
<1> DEFINE all == Append(items, x)
           n == Len(items)
           old == 1..n
           new == 1..(n + 1)
           u == [i \in DOMAIN all |-> all[i].usage]
           v == [i \in DOMAIN items |-> items[i].usage]
           a == [i \in DOMAIN all |-> all[i].amount]
           b == [i \in DOMAIN items |-> items[i].amount]
<1>1. /\ n \in Nat /\ DOMAIN items = old /\ DOMAIN all = new /\ all \in Seq(Line)
      /\ all[n + 1] = x /\ \A i \in old : all[i] = items[i] /\ items[i] \in Line
  OBVIOUS
<1>2. /\ IsFiniteSet(old) /\ IsFiniteSet(new) /\ n + 1 \in new /\ new \ {n + 1} = old
      /\ old \in SUBSET new
  <2>1. IsFiniteSet(old) /\ IsFiniteSet(new)
    BY <1>1, FS_Interval
  <2>2. n + 1 \in new /\ new \ {n + 1} = old /\ old \in SUBSET new
    <3> HIDE DEF n
    <3> QED BY <1>1
  <2> QED BY <2>1, <2>2
<1>3. IntsOn(u, new) /\ IntsOn(v, old) /\ Agree(u, v, old) /\ u[n + 1] = x.usage /\ DOMAIN u = new /\ DOMAIN v = old
  BY <1>1, <1>2 DEF IntsOn, Agree, Line
<1>4. IntsOn(a, new) /\ IntsOn(b, old) /\ Agree(a, b, old) /\ a[n + 1] = x.amount /\ DOMAIN a = new /\ DOMAIN b = old
  BY <1>1, <1>2 DEF IntsOn, Agree, Line
<1>5. /\ Usages(items) = SumFunctionOnSet(v, old) /\ Usages(all) = SumFunctionOnSet(u, new)
      /\ Amounts(items) = SumFunctionOnSet(b, old) /\ Amounts(all) = SumFunctionOnSet(a, new)
  BY <1>3, <1>4 DEF Usages, Amounts, SumFunction
<1> HIDE DEF u, v, a, b, old, new
<1>6. SumFunctionOnSet(u, new) = x.usage + SumFunctionOnSet(u, old)
  BY <1>2, <1>3, SumRemove
<1>7. SumFunctionOnSet(a, new) = x.amount + SumFunctionOnSet(a, old)
  BY <1>2, <1>4, SumRemove
<1>8. IntsOn(u, old) /\ IntsOn(a, old)
  BY <1>2, <1>3, <1>4 DEF IntsOn
<1>9. SumFunctionOnSet(u, old) = SumFunctionOnSet(v, old) /\ SumFunctionOnSet(v, old) \in Int
  BY <1>2, <1>3, <1>8, SumAgree, SumType
<1>10. SumFunctionOnSet(a, old) = SumFunctionOnSet(b, old) /\ SumFunctionOnSet(b, old) \in Int
  BY <1>2, <1>4, <1>8, SumAgree, SumType
<1>11. x.usage \in Int /\ x.amount \in Int
  BY DEF Line
<1> HIDE DEF all
<1>12. Usages(items) \in Int /\ Usages(all) = Usages(items) + x.usage
  BY <1>5, <1>6, <1>9, <1>11
<1>13. Amounts(items) \in Int /\ Amounts(all) = Amounts(items) + x.amount
  BY <1>5, <1>7, <1>10, <1>11
<1> QED BY <1>1, <1>12, <1>13 DEF all

Tiering == [top : Int \cup {NoTop}, price : Int]
Filling == [usage : Int, used : Int, lower : Int, items : Seq(Line)]

Taken(acc, t) ==
  IF t.top = NoTop THEN acc.usage - acc.used ELSE Min({acc.usage - acc.used, t.top - acc.lower})

LEMMA LessOf ==
  ASSUME NEW x \in Int, NEW y \in Int
  PROVE  Min({x, y}) = IF x <= y THEN x ELSE y
<1>1. {x, y} \in SUBSET Int /\ {x, y} # {} /\ IsFiniteSet({x, y})
  <2>1. IsFiniteSet({x})
    BY FS_Singleton
  <2>2. IsFiniteSet({x} \cup {y})
    BY <2>1, FS_AddElement
  <2>3. {x} \cup {y} = {x, y}
    OBVIOUS
  <2>4. IsFiniteSet({x, y})
    BY <2>2, <2>3, Zenon
  <2> QED BY <2>4
<1>2. Min({x, y}) \in {x, y} /\ \A z \in {x, y} : Min({x, y}) <= z
  BY <1>1, MaxMin
<1> QED BY <1>2

LEMMA TierStep ==
  ASSUME NEW acc \in Filling, NEW t \in Tiering
  PROVE  /\ Taken(acc, t) \in Int
         /\ Tier(acc, t) \in Filling
         /\ Taken(acc, t) <= 0 => Tier(acc, t) = acc
         /\ Taken(acc, t) > 0 =>
              /\ Tier(acc, t).usage = acc.usage
              /\ Tier(acc, t).used  = acc.used + Taken(acc, t)
              /\ Tier(acc, t).lower = IF t.top = NoTop THEN acc.lower ELSE t.top
              /\ Tier(acc, t).items = Append(acc.items, Item(Taken(acc, t), t.price))
<1>1. Taken(acc, t) \in Int
  <2>1. CASE t.top = NoTop
    BY <2>1 DEF Taken, Filling
  <2>2. CASE t.top # NoTop
    <3>1. t.top \in Int /\ acc.usage - acc.used \in Int /\ t.top - acc.lower \in Int
      BY <2>2 DEF Tiering, Filling
    <3> QED BY <2>2, <3>1, LessOf DEF Taken
  <2> QED BY <2>1, <2>2
<1> DEFINE take == Taken(acc, t)
           next == [acc EXCEPT !.used  = @ + take,
                               !.lower = IF t.top = NoTop THEN @ ELSE t.top,
                               !.items = Append(@, Item(take, t.price))]
<1>2. Tier(acc, t) = IF take <= 0 THEN acc ELSE next
  BY DEF Tier, Room, Taken
<1> HIDE DEF take
<1>3. take \in Int
  BY <1>1 DEF take
<1>4. Item(take, t.price) \in Line
  <2>1. t.price \in Int
    BY DEF Tiering
  <2>2. take * t.price \in Int
    BY <1>3, <2>1
  <2> QED BY <1>3, <2>2 DEF Item, Line
<1>5. next \in Filling /\ next.usage = acc.usage /\ next.used = acc.used + take
      /\ next.lower = (IF t.top = NoTop THEN acc.lower ELSE t.top)
      /\ next.items = Append(acc.items, Item(take, t.price))
  <2> DEFINE line == Item(take, t.price)
             low == IF t.top = NoTop THEN acc.lower ELSE t.top
  <2>1. line \in Line /\ low \in Int
    BY <1>4 DEF Tiering, Filling
  <2> HIDE DEF line
  <2>2. Append(acc.items, line) \in Seq(Line)
    BY <2>1 DEF Filling
  <2>3. next = [usage |-> acc.usage, used |-> acc.used + take, lower |-> low,
                items |-> Append(acc.items, line)]
    <3> DEFINE longer == Append(acc.items, line)
    <3>1. next = [acc EXCEPT !.used = acc.used + take, !.lower = low, !.items = longer]
      BY DEF line
    <3>2. acc = [usage |-> acc.usage, used |-> acc.used, lower |-> acc.lower, items |-> acc.items]
      BY DEF Filling
    <3> HIDE DEF longer, next, low, take
    <3>3. next = [usage |-> acc.usage, used |-> acc.used + take, lower |-> low, items |-> longer]
      BY <3>1, <3>2
    <3> QED BY <3>3 DEF longer
  <2> DEFINE longer == Append(acc.items, line)
  <2>4. acc.usage \in Int /\ acc.used + take \in Int
    BY <1>3 DEF Filling
  <2> HIDE DEF longer, low, next
  <2>5. longer \in Seq(Line)
    BY <2>2 DEF longer
  <2>6. next = [usage |-> acc.usage, used |-> acc.used + take, lower |-> low, items |-> longer]
    BY <2>3 DEF longer
  <2>7. next \in Filling
    BY <2>1, <2>4, <2>5, <2>6 DEF Filling
  <2> QED BY <2>6, <2>7 DEF longer, low, line
<1> HIDE DEF next
<1> QED BY <1>1, <1>2, <1>3, <1>5 DEF take

Unplaced(usage) == [usage |-> usage, used |-> 0, lower |-> 0, items |-> <<>>]

LEMMA TieredSteps ==
  ASSUME NEW tiers \in Seq(Tiering), NEW usage \in Nat
  PROVE  \E a : /\ a[0] = Unplaced(usage)
                /\ \A k \in 1..Len(tiers) : a[k] = Tier(a[k - 1], tiers[k])
                /\ TieredItems(tiers, usage) = a[Len(tiers)].items
<1> DEFINE n == Len(tiers)
           S == 1..n
           base == Unplaced(usage)
           step == [p \in S \X Filling |-> Tier(p[2], tiers[p[1]])]
           pick == [s \in SUBSET S |-> Max(s)]
           IsFill(h) == h = [s \in SUBSET S |-> IF s = {} THEN base
                                                ELSE Tier(h[s \ {Max(s)}], tiers[Max(s)])]
           iter == CHOOSE h : IsFill(h)
<1>0. n \in Nat /\ DOMAIN tiers = S /\ IsFiniteSet(S) /\ S \in SUBSET Int
  BY FS_Interval
<1>1. base \in Filling
  <2>1. <<>> \in Seq(Line)
    OBVIOUS
  <2> QED BY <2>1 DEF Unplaced, Filling
<1>2. step \in [S \X Filling -> Filling]
  <2>1. ASSUME NEW p \in S \X Filling PROVE Tier(p[2], tiers[p[1]]) \in Filling
    <3>1. p[2] \in Filling /\ tiers[p[1]] \in Tiering
      BY <1>0
    <3> QED BY <3>1, TierStep
  <2> QED BY <2>1
<1>3. ASSUME NEW s \in SUBSET S, s # {} PROVE Max(s) \in s /\ \A y \in s : y <= Max(s)
  BY <1>0, <1>3, MaxMin, FS_Subset
<1>4. PICK g \in [SUBSET S -> Filling] : Folds(g, S, base, step, pick)
  <2>1. Picks(pick, S)
    BY <1>3 DEF Picks
  <2> HIDE DEF base, step, pick, S
  <2> QED BY <1>0, <1>1, <1>2, <2>1, FoldExists
<1>5. IsFill(g)
  <2>1. ASSUME NEW s \in SUBSET S
        PROVE  g[s] = IF s = {} THEN base ELSE Tier(g[s \ {Max(s)}], tiers[Max(s)])
    <3>1. CASE s = {}
      BY <1>4, <3>1 DEF Folds
    <3>2. CASE s # {}
      <4>1. Max(s) \in S /\ pick[s] = Max(s) /\ s \ {Max(s)} \in SUBSET S
        BY <1>3, <3>2
      <4>2. g[s] = step[<<Max(s), g[s \ {Max(s)}]>>]
        <5> HIDE DEF step, pick, base
        <5> QED BY <1>4, <3>2, <4>1 DEF Folds
      <4>3. <<Max(s), g[s \ {Max(s)}]>> \in S \X Filling
        BY <4>1
      <4> QED BY <3>2, <4>2, <4>3
    <3> QED BY <3>1, <3>2
  <2> QED BY <2>1
<1>6. IsFill(iter)
  BY <1>5
<1>7. TieredItems(tiers, usage) = iter[S].items
  BY <1>0 DEF TieredItems, FoldLeft, MapThenFoldSet, Unplaced
<1> HIDE DEF iter
<1> DEFINE a == [k \in 0..n |-> iter[1..k]]
<1>8. a[0] = base
  <2>1. 1..0 = {} /\ {} \in SUBSET S /\ a[0] = iter[1..0]
    BY <1>0
  <2> QED BY <1>6, <2>1
<1>9. ASSUME NEW k \in 1..n PROVE a[k] = Tier(a[k - 1], tiers[k])
  <2> DEFINE s == 1..k
  <2>1. s \in SUBSET S /\ s # {} /\ k \in s /\ \A y \in s : y <= k
    BY <1>0
  <2>2. Max(s) = k
    <3>1. Max(s) \in s /\ \A y \in s : y <= Max(s)
      BY <1>3, <2>1
    <3>2. Max(s) <= k /\ k <= Max(s)
      BY <2>1, <3>1
    <3> QED BY <3>1, <3>2
  <2>3. s \ {k} = 1..(k - 1) /\ k - 1 \in 0..n /\ k \in 0..n
    BY <1>0
  <2>4. iter[s] = Tier(iter[s \ {k}], tiers[k])
    <3> HIDE DEF s
    <3> QED BY <1>6, <2>1, <2>2
  <2> QED BY <2>3, <2>4
<1>10. a[n] = iter[S]
  BY <1>0
<1> HIDE DEF a
<1> QED BY <1>7, <1>8, <1>9, <1>10

LEMMA SomeOf ==
  ASSUME NEW n \in Nat, NEW s \in SUBSET (1..n)
  PROVE  s \in SUBSET Int /\ IsFiniteSet(s)
<1> DEFINE S == 1..n
<1>1. IsFiniteSet(S) /\ S \subseteq Int
  BY FS_Interval
<1> HIDE DEF S
<1>2. s \in SUBSET S
  BY DEF S
<1> QED BY <1>1, <1>2, FS_Subset

\* What a unit costs, and that it is the same on a whole tier.
LEMMA UnitPriceOf ==
  ASSUME NEW tiers \in Seq(Tiering), NEW j \in Nat, NEW k \in 1..Len(tiers),
         \A i \in 1..(k - 1) : tiers[i].top # NoTop /\ ~(j <= tiers[i].top),
         tiers[k].top = NoTop \/ j <= tiers[k].top
  PROVE  UnitPrice(tiers, j) = tiers[k].price
<1> DEFINE holds == {i \in DOMAIN tiers : tiers[i].top = NoTop \/ j <= tiers[i].top}
<1>1. DOMAIN tiers = 1..Len(tiers) /\ Len(tiers) \in Nat
  OBVIOUS
<1>2. k \in holds /\ holds \in SUBSET (1..Len(tiers)) /\ \A i \in holds : k <= i
  <2>1. ASSUME NEW i \in holds PROVE k <= i
    <3> SUFFICES ASSUME i < k PROVE FALSE
      BY <1>1
    <3> QED BY <1>1
  <2> QED BY <1>1, <2>1
<1>3. UnitPrice(tiers, j) = IF holds = {} THEN 0 ELSE tiers[Min(holds)].price
  BY DEF UnitPrice
<1> HIDE DEF holds
<1>4. holds \in SUBSET Int /\ IsFiniteSet(holds)
  BY <1>1, <1>2, SomeOf
<1>5. Min(holds) \in holds /\ \A y \in holds : Min(holds) <= y
  BY <1>2, <1>4, MaxMin
<1>6. Min(holds) = k
  <2>1. Min(holds) <= k /\ k <= Min(holds) /\ Min(holds) \in Int
    BY <1>2, <1>4, <1>5
  <2> QED BY <2>1
<1> QED BY <1>2, <1>3, <1>6

LEMMA UnitPriceType ==
  ASSUME NEW tiers \in Seq(Tiering), NEW j \in Nat
  PROVE  UnitPrice(tiers, j) \in Int
<1> DEFINE holds == {i \in DOMAIN tiers : tiers[i].top = NoTop \/ j <= tiers[i].top}
<1>1. DOMAIN tiers = 1..Len(tiers) /\ Len(tiers) \in Nat /\ holds \subseteq 1..Len(tiers)
  OBVIOUS
<1>2. UnitPrice(tiers, j) = IF holds = {} THEN 0 ELSE tiers[Min(holds)].price
  BY DEF UnitPrice
<1> HIDE DEF holds
<1>3. holds \in SUBSET Int /\ IsFiniteSet(holds)
  BY <1>1, SomeOf
<1>4. CASE holds # {}
  <2> DEFINE i == Min(holds)
  <2>1. i \in 1..Len(tiers)
    BY <1>1, <1>3, <1>4, MaxMin
  <2> HIDE DEF i
  <2>2. tiers[i] \in Tiering
    BY <1>1, <2>1
  <2>3. tiers[i].price \in Int
    BY <2>2 DEF Tiering
  <2> QED BY <1>2, <1>4, <2>3 DEF i
<1> QED BY <1>2, <1>4

LEMMA ReferenceGrows ==
  ASSUME NEW tiers \in Seq(Tiering), NEW m \in Nat, NEW n \in Nat, m <= n, NEW u \in Int,
         \A j \in (m + 1)..n : UnitPrice(tiers, j) = u
  PROVE  /\ TieredReference(tiers, m) \in Int
         /\ TieredReference(tiers, n) = TieredReference(tiers, m) + (n - m) * u
<1> DEFINE f == [j \in 1..n |-> UnitPrice(tiers, j)]
           h == [j \in 1..m |-> UnitPrice(tiers, j)]
           M == 1..m
<1>1. IntsOn(f, 1..n)
  BY UnitPriceType DEF IntsOn
<1>2. IntsOn(h, M) /\ IntsOn(f, M) /\ Agree(h, f, M) /\ IsFiniteSet(M)
  BY UnitPriceType, FS_Interval DEF IntsOn, Agree
<1>3. TieredReference(tiers, m) = SumFunctionOnSet(h, M)
  BY DEF TieredReference, SumFunction
<1>4. TieredReference(tiers, n) = SumFunctionOnSet(f, 1..n)
  BY DEF TieredReference, SumFunction
<1>5. \A j \in (m + 1)..n : f[j] = u
  OBVIOUS
<1> HIDE DEF f, h
<1>6. SumFunctionOnSet(f, 1..n) = SumFunctionOnSet(f, 1..m) + (n - m) * u
  BY <1>1, <1>5, SumConstant
<1> HIDE DEF M
<1>7. SumFunctionOnSet(h, M) = SumFunctionOnSet(f, M) /\ SumFunctionOnSet(h, M) \in Int
  BY <1>2, SumAgree, SumType
<1>8. SumFunctionOnSet(f, 1..m) = SumFunctionOnSet(h, M)
  BY <1>7 DEF M
<1> QED BY <1>3, <1>4, <1>6, <1>7, <1>8

\* validateRule on tiers: limits rise, and only the last may be open.
Rise(tiers) ==
  /\ tiers # <<>>
  /\ \A i \in DOMAIN tiers :
       IF tiers[i].top = NoTop THEN i = Len(tiers)
       ELSE tiers[i].top > (IF i = 1 THEN 0 ELSE tiers[i - 1].top)

\* After k tiers: everything is placed, or the use up to the limit of the k-th.
Placed(acc, tiers, usage, k) ==
  /\ acc \in Filling /\ acc.usage = usage /\ 0 <= acc.used /\ acc.used <= usage
  /\ Usages(acc.items) = acc.used
  /\ Amounts(acc.items) = TieredReference(tiers, acc.used)
  /\ acc.used < usage =>
       /\ acc.lower = acc.used
       /\ acc.used = IF k = 0 THEN 0 ELSE tiers[k].top
       /\ \A i \in 1..k : tiers[i].top # NoTop /\ tiers[i].top <= acc.used

LEMMA NothingPlaced ==
  ASSUME NEW tiers \in Seq(Tiering), NEW usage \in Nat
  PROVE  Placed(Unplaced(usage), tiers, usage, 0)
<1> DEFINE none == <<>>
<1>1. none \in Seq(Line) /\ DOMAIN none = {}
  OBVIOUS
<1>2. Unplaced(usage) \in Filling
  BY <1>1 DEF Unplaced, Filling
<1>3. Usages(none) = 0 /\ Amounts(none) = 0
  <2> DEFINE u == [i \in DOMAIN none |-> none[i].usage]
             a == [i \in DOMAIN none |-> none[i].amount]
  <2>1. DOMAIN u = {} /\ DOMAIN a = {}
    BY <1>1
  <2>2. Usages(none) = SumFunctionOnSet(u, DOMAIN u) /\ Amounts(none) = SumFunctionOnSet(a, DOMAIN a)
    BY DEF Usages, Amounts, SumFunction
  <2> HIDE DEF u, a
  <2> QED BY <2>1, <2>2, SumEmpty
<1>4. TieredReference(tiers, 0) = 0
  <2> DEFINE f == [j \in 1..0 |-> UnitPrice(tiers, j)]
  <2>1. DOMAIN f = {}
    OBVIOUS
  <2>2. TieredReference(tiers, 0) = SumFunctionOnSet(f, DOMAIN f)
    BY DEF TieredReference, SumFunction
  <2> HIDE DEF f
  <2> QED BY <2>1, <2>2, SumEmpty
<1> QED BY <1>2, <1>3, <1>4 DEF Placed, Unplaced

LEMMA TierPlaces ==
  ASSUME NEW tiers \in Seq(Tiering), Rise(tiers), NEW usage \in Nat,
         NEW k \in 1..Len(tiers), NEW acc, Placed(acc, tiers, usage, k - 1)
  PROVE  Placed(Tier(acc, tiers[k]), tiers, usage, k)
<1> DEFINE t == tiers[k]
           next == Tier(acc, t)
           take == Taken(acc, t)
<1>1. t \in Tiering /\ acc \in Filling /\ k \in DOMAIN tiers /\ k \in Nat /\ k # 0 /\ k - 1 \in Nat
  BY DEF Placed
<1>2. acc.used \in Int /\ acc.lower \in Int /\ acc.usage = usage /\ 0 <= acc.used /\ acc.used <= usage
  BY DEF Placed, Filling
<1>3. take = IF t.top = NoTop THEN usage - acc.used
             ELSE IF usage - acc.used <= t.top - acc.lower THEN usage - acc.used
             ELSE t.top - acc.lower
  <2>1. CASE t.top = NoTop
    BY <1>2, <2>1 DEF Taken
  <2>2. CASE t.top # NoTop
    <3>1. t.top \in Int
      BY <1>1, <2>2 DEF Tiering
    <3>2. usage - acc.used \in Int /\ t.top - acc.lower \in Int
      BY <1>2, <3>1
    <3> QED BY <1>2, <2>2, <3>2, LessOf DEF Taken
  <2> QED BY <2>1, <2>2
<1>4. /\ take \in Int /\ next \in Filling
      /\ take <= 0 => next = acc
      /\ take > 0 => /\ next.usage = acc.usage
                     /\ next.used = acc.used + take
                     /\ next.lower = IF t.top = NoTop THEN acc.lower ELSE t.top
                     /\ next.items = Append(acc.items, Item(take, t.price))
  BY <1>1, TierStep
<1>5. t.top = NoTop \/ (t.top \in Int /\ t.top > (IF k = 1 THEN 0 ELSE tiers[k - 1].top))
  BY <1>1 DEF Rise, Tiering
<1> HIDE DEF take, next
<1>6. CASE acc.used = usage
  <2>1. take <= 0
    <3>1. CASE t.top = NoTop
      BY <1>2, <1>3, <1>6, <3>1
    <3>2. CASE t.top # NoTop
      BY <1>1, <1>2, <1>3, <1>6, <3>2 DEF Tiering
    <3> QED BY <3>1, <3>2
  <2> QED BY <1>2, <1>4, <1>6, <2>1 DEF Placed, next
<1>7. CASE acc.used < usage
  <2>1. /\ acc.lower = acc.used
        /\ acc.used = IF k = 1 THEN 0 ELSE tiers[k - 1].top
        /\ \A i \in 1..(k - 1) : tiers[i].top # NoTop /\ tiers[i].top <= acc.used
    BY <1>1, <1>7 DEF Placed
  <2>2. take > 0 /\ take <= usage - acc.used
        /\ (t.top # NoTop => take <= t.top - acc.used)
        /\ (take < usage - acc.used => t.top # NoTop /\ take = t.top - acc.used)
    <3>1. CASE t.top = NoTop
      BY <1>2, <1>3, <1>7, <3>1
    <3>2. CASE t.top # NoTop
      BY <1>2, <1>3, <1>5, <1>7, <2>1, <3>2
    <3> QED BY <3>1, <3>2
  <2>3. /\ next.usage = usage /\ next.used = acc.used + take
        /\ next.lower = IF t.top = NoTop THEN acc.lower ELSE t.top
        /\ next.items = Append(acc.items, Item(take, t.price))
        /\ 0 <= next.used /\ next.used <= usage /\ next.used \in Nat /\ acc.used \in Nat
        /\ acc.used <= next.used
    BY <1>2, <1>4, <2>2
  <2>4. t.price \in Int /\ take \in Int /\ take * t.price \in Int
    BY <1>1, <1>4 DEF Tiering
  <2>5. /\ Usages(next.items) = acc.used + take
        /\ Amounts(next.items) = TieredReference(tiers, acc.used) + take * t.price
    <3>1. Item(take, t.price) \in Line /\ Item(take, t.price).usage = take
          /\ Item(take, t.price).amount = take * t.price
      BY <2>4 DEF Item, Line
    <3>2. acc.items \in Seq(Line) /\ Usages(acc.items) = acc.used
          /\ Amounts(acc.items) = TieredReference(tiers, acc.used)
      BY DEF Placed, Filling
    <3> QED BY <2>3, <3>1, <3>2, LinesAppend
  <2>6. ASSUME NEW j \in (acc.used + 1)..next.used PROVE UnitPrice(tiers, j) = t.price
    <3>1. j \in Nat /\ j > acc.used /\ j <= acc.used + take
      BY <2>3
    <3>2. ASSUME NEW i \in 1..(k - 1) PROVE tiers[i].top # NoTop /\ ~(j <= tiers[i].top)
      <4>1. tiers[i].top # NoTop /\ tiers[i].top <= acc.used
        BY <2>1
      <4>2. tiers[i].top \in Int
        <5>1. tiers[i] \in Tiering
          BY <1>1
        <5> QED BY <4>1, <5>1 DEF Tiering
      <4> QED BY <1>2, <3>1, <4>1, <4>2
    <3>3. tiers[k].top = NoTop \/ j <= tiers[k].top
      BY <1>2, <1>5, <2>2, <2>4, <3>1
    <3> QED BY <3>1, <3>2, <3>3, UnitPriceOf
  <2>7. TieredReference(tiers, next.used)
        = TieredReference(tiers, acc.used) + (next.used - acc.used) * t.price
    <3> DEFINE m == acc.used
               n == next.used
               u == t.price
    <3>1. m \in Nat /\ n \in Nat /\ m <= n /\ u \in Int
      BY <2>3, <2>4
    <3>2. \A j \in (m + 1)..n : UnitPrice(tiers, j) = u
      BY <2>6
    <3> HIDE DEF m, n, u
    <3>3. TieredReference(tiers, n) = TieredReference(tiers, m) + (n - m) * u
      BY <3>1, <3>2, ReferenceGrows
    <3> QED BY <3>3 DEF m, n, u
  <2>8. next.used - acc.used = take
    BY <1>2, <2>3, <2>4
  <2>9. Usages(next.items) = next.used /\ Amounts(next.items) = TieredReference(tiers, next.used)
    BY <2>3, <2>5, <2>7, <2>8
  <2>10. ASSUME next.used < usage
         PROVE  /\ next.lower = next.used /\ next.used = tiers[k].top
                /\ \A i \in 1..k : tiers[i].top # NoTop /\ tiers[i].top <= next.used
    <3>1. t.top # NoTop /\ take = t.top - acc.used
      BY <1>2, <2>2, <2>3, <2>4, <2>10
    <3>2. next.used = t.top /\ next.lower = t.top /\ t.top \in Int
      BY <1>2, <1>5, <2>3, <3>1
    <3>3. ASSUME NEW i \in 1..k PROVE tiers[i].top # NoTop /\ tiers[i].top <= next.used
      <4>1. CASE i = k
        BY <3>1, <3>2, <4>1
      <4>2. CASE i # k
        <5>1. i \in 1..(k - 1)
          BY <1>1, <4>2
        <5>2. tiers[i].top # NoTop /\ tiers[i].top <= acc.used
          BY <2>1, <5>1
        <5>3. tiers[i].top \in Int
          <6>1. tiers[i] \in Tiering
            BY <1>1
          <6> QED BY <5>2, <6>1 DEF Tiering
        <5> QED BY <1>2, <2>3, <5>2, <5>3
      <4> QED BY <4>1, <4>2
    <3> QED BY <3>2, <3>3
  <2> QED BY <1>1, <1>4, <2>3, <2>9, <2>10 DEF Placed, next
<1> QED BY <1>2, <1>6, <1>7

LEMMA TieredPlaces ==
  ASSUME NEW tiers \in Seq(Tiering), Rise(tiers), NEW usage \in Nat
  PROVE  /\ TieredItems(tiers, usage) \in Seq(Line)
         /\ Amounts(TieredItems(tiers, usage)) = TieredReference(tiers, usage)
         /\ \/ Usages(TieredItems(tiers, usage)) = usage
            \/ Last(tiers).top # NoTop /\ usage > Last(tiers).top
<1> DEFINE n == Len(tiers)
<1>1. n \in Nat /\ n # 0 /\ DOMAIN tiers = 1..n /\ Last(tiers) = tiers[n]
  BY DEF Rise, Last
<1>2. PICK a : /\ a[0] = Unplaced(usage)
               /\ \A k \in 1..n : a[k] = Tier(a[k - 1], tiers[k])
               /\ TieredItems(tiers, usage) = a[n].items
  BY TieredSteps
<1> DEFINE C == {k \in Nat : k <= n => Placed(a[k], tiers, usage, k)}
<1>3. ASSUME NEW k \in Nat, \A m \in Nat : m < k => m \in C PROVE k \in C
  <2>1. CASE k = 0
    BY <1>2, <2>1, NothingPlaced
  <2>2. CASE k # 0 /\ k <= n
    <3>1. k - 1 \in Nat /\ k - 1 < k /\ k - 1 <= n /\ k \in 1..n
      BY <1>1, <2>2
    <3>2. Placed(a[k - 1], tiers, usage, k - 1) /\ a[k] = Tier(a[k - 1], tiers[k])
      BY <1>2, <1>3, <3>1
    <3>3. Placed(Tier(a[k - 1], tiers[k]), tiers, usage, k)
      BY <3>1, <3>2, TierPlaces
    <3> QED BY <3>2, <3>3
  <2> QED BY <1>1, <2>1, <2>2
<1>4. n \in C
  <2> HIDE DEF C
  <2> QED BY <1>1, <1>3, Induction
<1> DEFINE acc == a[n]
<1>5. Placed(acc, tiers, usage, n)
  BY <1>1, <1>4
<1> HIDE DEF acc
<1>6. /\ acc \in Filling /\ acc.used \in Nat /\ acc.used <= usage
      /\ Usages(acc.items) = acc.used
      /\ Amounts(acc.items) = TieredReference(tiers, acc.used)
      /\ acc.used < usage =>
           /\ acc.used = tiers[n].top
           /\ \A i \in 1..n : tiers[i].top # NoTop /\ tiers[i].top <= acc.used
  BY <1>1, <1>5 DEF Placed, Filling
<1>7. TieredItems(tiers, usage) = acc.items
  BY <1>2 DEF acc
<1>8. acc.items \in Seq(Line)
  BY <1>6 DEF Filling
<1>9. CASE acc.used = usage
  BY <1>6, <1>7, <1>8, <1>9
<1>10. CASE acc.used < usage
  <2>1. ASSUME NEW j \in (acc.used + 1)..usage PROVE UnitPrice(tiers, j) = 0
    <3>1. ASSUME NEW i \in DOMAIN tiers PROVE ~(tiers[i].top = NoTop \/ j <= tiers[i].top)
      <4>1. tiers[i].top # NoTop /\ tiers[i].top <= acc.used
        BY <1>1, <1>6, <1>10
      <4>2. tiers[i].top \in Int
        <5>1. tiers[i] \in Tiering
          BY <1>1
        <5> QED BY <4>1, <5>1 DEF Tiering
      <4> QED BY <1>6, <4>1, <4>2
    <3> QED BY <3>1 DEF UnitPrice
  <2>2. TieredReference(tiers, usage) = TieredReference(tiers, acc.used) + (usage - acc.used) * 0
        /\ TieredReference(tiers, acc.used) \in Int
    <3>1. 0 \in Int
      OBVIOUS
    <3> QED BY <1>6, <2>1, <3>1, ReferenceGrows
  <2>3. (usage - acc.used) * 0 = 0
    BY <1>6
  <2>4. tiers[n].top # NoTop /\ usage > tiers[n].top
    BY <1>1, <1>6, <1>10
  <2> QED BY <1>1, <1>6, <1>7, <1>8, <2>2, <2>3, <2>4
<1> QED BY <1>6, <1>9, <1>10

------------------------------------------------------------------------------
(* Bills: lines by the hour.                                               *)

Sample == [slot : 1..MaxSlot, kwh : Counts]

Recorded == reading \in [Meters -> Seq(Sample)]

Rising == \A d \in Meters : ~SetBack(d)

\* Hours that meters close, up to the m-th reading of one meter and all in all.
ClosedBy(d, m) == {<<d, i>> : i \in {j \in 1..m : Closes(d, j)}}
Closed == {p \in UNION {{d} \X (1..Len(reading[d])) : d \in Meters} : Closes(p[1], p[2])}
UsedIn == [p \in Closed |-> Used(p[1], p[2])]

LEMMA ReadingType ==
  ASSUME Recorded, NEW d \in Meters
  PROVE  /\ Len(reading[d]) \in Nat /\ DOMAIN reading[d] = 1..Len(reading[d])
         /\ \A i \in 1..Len(reading[d]) : reading[d][i] \in Sample
         /\ \A i \in 1..Len(reading[d]) : reading[d][i].kwh \in Nat
<1>1. reading[d] \in Seq(Sample)
  BY DEF Recorded
<1>2. /\ Len(reading[d]) \in Nat /\ DOMAIN reading[d] = 1..Len(reading[d])
      /\ \A i \in 1..Len(reading[d]) : reading[d][i] \in Sample
  <2> DEFINE r == reading[d]
  <2>1. r \in Seq(Sample)
    BY <1>1
  <2> HIDE DEF r
  <2>2. Len(r) \in Nat /\ DOMAIN r = 1..Len(r) /\ \A i \in 1..Len(r) : r[i] \in Sample
    BY <2>1
  <2> QED BY <2>2 DEF r
<1> QED BY <1>2, BillingAssumption DEF Sample, BillingParameters

LEMMA BeforeIs ==
  ASSUME NEW d, NEW i \in Nat \ {0}
  PROVE  /\ Before(d, i) \in 1..i
         /\ i # 1 => Before(d, i) < i
         /\ Before(d, 1) = 1
         /\ \A j \in 1..(i - 1) : Closes(d, j) => j <= Before(d, i)
         /\ Before(d, i) # 1 => Closes(d, Before(d, i))
<1> DEFINE W == {1} \cup {j \in 1..(i - 1) : Closes(d, j)}
<1>1. W \in SUBSET (1..i) /\ W # {} /\ W \in SUBSET Int
  OBVIOUS
<1>2. Before(d, i) = Max(W)
  BY DEF Before
<1>3. Max(W) \in W /\ \A y \in W : y <= Max(W)
  <2> HIDE DEF W
  <2> QED BY <1>1, SomeOf, MaxMin
<1>4. Before(d, 1) = 1
  <2> DEFINE V == {1} \cup {j \in 1..(1 - 1) : Closes(d, j)}
  <2>1. V = {1}
    OBVIOUS
  <2>2. V \in SUBSET (1..1) /\ V # {} /\ V \in SUBSET Int /\ Before(d, 1) = Max(V)
    BY <2>1 DEF Before
  <2>3. Max(V) \in V
    <3> HIDE DEF V
    <3>1. 1 \in Nat
      OBVIOUS
    <3>2. IsFiniteSet(V)
      BY <2>2, <3>1, SomeOf
    <3> QED BY <2>2, <3>2, MaxMin
  <2> QED BY <2>1, <2>2, <2>3
<1> QED BY <1>1, <1>2, <1>3, <1>4

LEMMA BeforeNext ==
  ASSUME NEW d, NEW m \in Nat \ {0}
  PROVE  Before(d, m + 1) = IF Closes(d, m) THEN m ELSE Before(d, m)
<1>1. /\ Before(d, m + 1) \in 1..(m + 1) /\ (m + 1 # 1 => Before(d, m + 1) < m + 1)
      /\ \A j \in 1..((m + 1) - 1) : Closes(d, j) => j <= Before(d, m + 1)
      /\ Before(d, m + 1) # 1 => Closes(d, Before(d, m + 1))
  <2>1. m + 1 \in Nat \ {0}
    OBVIOUS
  <2> QED BY <2>1, BeforeIs
<1>2. /\ Before(d, m) \in 1..m /\ (m # 1 => Before(d, m) < m)
      /\ \A j \in 1..(m - 1) : Closes(d, j) => j <= Before(d, m)
      /\ Before(d, m) # 1 => Closes(d, Before(d, m))
  BY BeforeIs
<1> DEFINE b == Before(d, m)
           c == Before(d, m + 1)
<1> HIDE DEF b, c
<1>3. c \in 1..m /\ (\A j \in 1..m : Closes(d, j) => j <= c) /\ (c # 1 => Closes(d, c))
  BY <1>1 DEF c
<1>4. b \in 1..m /\ (\A j \in 1..(m - 1) : Closes(d, j) => j <= b) /\ (b # 1 => Closes(d, b))
  BY <1>2 DEF b
<1>5. CASE Closes(d, m)
  BY <1>3, <1>5 DEF c
<1>6. CASE ~Closes(d, m)
  <2>1. b <= c
    <3>1. CASE b = 1
      BY <1>3, <3>1
    <3>2. CASE b # 1
      BY <1>3, <1>4, <3>2
    <3> QED BY <3>1, <3>2
  <2>2. c <= b
    <3>1. CASE c = 1
      BY <1>4, <3>1
    <3>2. CASE c # 1
      <4>1. c \in 1..(m - 1)
        BY <1>3, <1>6, <3>2
      <4> QED BY <1>3, <1>4, <3>2, <4>1
    <3> QED BY <3>1, <3>2
  <2>3. b = c
    BY <1>3, <1>4, <2>1, <2>2
  <2> QED BY <1>6, <2>3 DEF b, c
<1> QED BY <1>5, <1>6

\* A meter that is not set back never shows less than before.
LEMMA NeverLess ==
  ASSUME Recorded, NEW d \in Meters, ~SetBack(d)
  PROVE  \A j \in 1..Len(reading[d]) : \A i \in 1..j : reading[d][i].kwh <= reading[d][j].kwh
<1> DEFINE n == Len(reading[d])
           k(i) == reading[d][i].kwh
           C == {j \in Nat : j \in 1..n => \A i \in 1..j : k(i) <= k(j)}
<1>1. n \in Nat /\ \A i \in 1..n : k(i) \in Nat
  BY ReadingType
<1>2. \A i \in 1..n : i > 1 => k(i - 1) <= k(i)
  <2>1. ASSUME NEW i \in 1..n, i > 1 PROVE ~(k(i) < k(i - 1))
    BY <2>1, ReadingType DEF SetBack
  <2>2. ASSUME NEW i \in 1..n, i > 1 PROVE k(i - 1) <= k(i)
    <3>1. i - 1 \in 1..n
      BY <1>1, <2>2
    <3>2. k(i) \in Nat /\ k(i - 1) \in Nat
      BY <1>1, <3>1
    <3> HIDE DEF k
    <3> QED BY <2>1, <2>2, <3>2
  <2> QED BY <2>2
<1> HIDE DEF k
<1>3. ASSUME NEW j \in Nat, \A m \in Nat : m < j => m \in C PROVE j \in C
  <2>1. SUFFICES ASSUME j \in 1..n, NEW i \in 1..j PROVE k(i) <= k(j)
    OBVIOUS
  <2>2. k(i) \in Nat /\ k(j) \in Nat
    BY <1>1, <2>1
  <2>3. CASE i = j
    BY <2>2, <2>3
  <2>4. CASE i # j
    <3>1. j - 1 \in Nat /\ j - 1 < j /\ j - 1 \in 1..n /\ i \in 1..(j - 1) /\ j > 1
      BY <1>1, <2>1, <2>4
    <3>2. k(i) <= k(j - 1)
      BY <1>3, <3>1
    <3>3. k(j - 1) <= k(j) /\ k(j - 1) \in Nat
      BY <1>1, <1>2, <2>1, <3>1
    <3> QED BY <2>2, <3>2, <3>3
  <2> QED BY <2>3, <2>4
<1>4. Nat \subseteq C
  <2> HIDE DEF C
  <2> QED BY <1>3, Induction
<1>5. \A j \in 1..n : \A i \in 1..j : k(i) <= k(j)
  BY <1>1, <1>4
<1> QED BY <1>5 DEF k

LEMMA UsedType ==
  ASSUME Recorded, NEW d \in Meters, NEW i \in 1..Len(reading[d])
  PROVE  /\ Used(d, i) \in Nat
         /\ ~SetBack(d) => Used(d, i) = reading[d][i].kwh - reading[d][Before(d, i)].kwh
<1> DEFINE b == Before(d, i)
           x == reading[d][i].kwh - reading[d][b].kwh
<1>1. b \in 1..i /\ i \in Nat \ {0} /\ Len(reading[d]) \in Nat
  <2>1. Len(reading[d]) \in Nat
    BY ReadingType
  <2>2. i \in Nat \ {0}
    BY <2>1
  <2> QED BY <2>1, <2>2, BeforeIs
<1>2. b \in 1..Len(reading[d])
  <2> HIDE DEF b
  <2> QED BY <1>1
<1>3. reading[d][i].kwh \in Nat /\ reading[d][b].kwh \in Nat
  BY <1>2, ReadingType
<1>4. ~SetBack(d) => reading[d][b].kwh <= reading[d][i].kwh
  BY <1>1, NeverLess
<1>5. x \in Int
  BY <1>3
<1>6. ~SetBack(d) => x >= 0
  BY <1>3, <1>4
<1>7. Used(d, i) = Max({0, x})
  BY DEF Used
<1> HIDE DEF x
<1>8. {0, x} \in SUBSET Int /\ {0, x} # {} /\ IsFiniteSet({0, x})
  <2>1. IsFiniteSet({0})
    BY FS_Singleton
  <2>2. IsFiniteSet({0} \cup {x})
    BY <2>1, FS_AddElement
  <2>3. {0} \cup {x} = {0, x}
    OBVIOUS
  <2>4. IsFiniteSet({0, x})
    BY <2>2, <2>3, Zenon
  <2> QED BY <1>5, <2>4
<1>9. Max({0, x}) \in {0, x} /\ \A z \in {0, x} : z <= Max({0, x})
  BY <1>8, MaxMin
<1>10. Used(d, i) \in Nat /\ (~SetBack(d) => Used(d, i) = x)
  BY <1>5, <1>6, <1>7, <1>9
<1> QED BY <1>10 DEF x, b

LEMMA ClosedType ==
  ASSUME Recorded
  PROVE  /\ IsFiniteSet(Closed)
         /\ \A p \in Closed : /\ p[1] \in Meters /\ p[2] \in 1..Len(reading[p[1]])
                              /\ p = <<p[1], p[2]>> /\ Closes(p[1], p[2])
                              /\ UsedIn[p] \in Nat
         /\ IntsOn(UsedIn, Closed)
<1> DEFINE f == [d \in Meters |-> {d} \X (1..Len(reading[d]))]
           F == {f[d] : d \in Meters}
<1>1. IsFiniteSet(Meters)
  BY BillingAssumption DEF BillingParameters
<1>2. IsFiniteSet(F)
  <2> HIDE DEF f
  <2> QED BY <1>1, ImageFinite
<1>3. ASSUME NEW T \in F PROVE IsFiniteSet(T)
  <2>1. PICK d \in Meters : T = {d} \X (1..Len(reading[d]))
    OBVIOUS
  <2> DEFINE s == {d}
             r == 1..Len(reading[d])
  <2>2. IsFiniteSet(s) /\ IsFiniteSet(r)
    <3>1. Len(reading[d]) \in Int
      BY ReadingType
    <3>2. IsFiniteSet(r)
      BY <3>1, FS_Interval
    <3> QED BY <3>2, FS_Singleton
  <2> HIDE DEF s, r
  <2>3. IsFiniteSet(s \X r)
    BY <2>2, FS_Product
  <2> QED BY <2>1, <2>3 DEF s, r
<1>4. IsFiniteSet(UNION F)
  <2> HIDE DEF F
  <2> QED BY <1>2, <1>3, FS_UNION
<1>5. Closed \subseteq UNION F
  BY DEF Closed
<1>6. IsFiniteSet(Closed)
  <2> HIDE DEF F
  <2> QED BY <1>4, <1>5, FS_Subset
<1>7. ASSUME NEW p \in Closed
      PROVE  /\ p[1] \in Meters /\ p[2] \in 1..Len(reading[p[1]])
             /\ p = <<p[1], p[2]>> /\ Closes(p[1], p[2])
             /\ UsedIn[p] \in Nat
  <2>1. PICK d \in Meters : p \in {d} \X (1..Len(reading[d]))
    BY DEF Closed
  <2>2. p[1] = d /\ p[2] \in 1..Len(reading[d]) /\ p = <<p[1], p[2]>>
    BY <2>1
  <2>3. Closes(p[1], p[2])
    BY DEF Closed
  <2>4. UsedIn[p] = Used(p[1], p[2])
    BY DEF UsedIn
  <2> QED BY <2>2, <2>3, <2>4, UsedType
<1> QED BY <1>6, <1>7 DEF IntsOn

\* What an hour used is what the readings that close it used.
HourOf == [p \in Closed |-> reading[p[1]][p[2]].slot % Cardinality(Hours)]

LEMMA HourSum ==
  ASSUME Recorded, NEW h
  PROVE  /\ HourUsage(h) = SumFunctionOnSet(UsedIn, {p \in Closed : HourOf[p] = h})
         /\ HourUsage(h) \in Nat
<1> DEFINE closing == UNION {{<<d, i>> : i \in {j \in DOMAIN reading[d] :
                             Closes(d, j) /\ reading[d][j].slot % Cardinality(Hours) = h}} :
                          d \in Meters}
           those == {p \in Closed : HourOf[p] = h}
           g == [p \in closing |-> Used(p[1], p[2])]
<1>1. closing = those
  <2>1. ASSUME NEW p \in closing PROVE p \in those
    <3>1. PICK d \in Meters : \E i \in DOMAIN reading[d] :
             p = <<d, i>> /\ Closes(d, i) /\ reading[d][i].slot % Cardinality(Hours) = h
      OBVIOUS
    <3>2. PICK i \in DOMAIN reading[d] :
             p = <<d, i>> /\ Closes(d, i) /\ reading[d][i].slot % Cardinality(Hours) = h
      BY <3>1
    <3>3. i \in 1..Len(reading[d])
      BY <3>2, ReadingType
    <3>4. p \in Closed
      BY <3>2, <3>3 DEF Closed
    <3> QED BY <3>2, <3>4 DEF HourOf
  <2>2. ASSUME NEW p \in those PROVE p \in closing
    <3>1. /\ p[1] \in Meters /\ p[2] \in DOMAIN reading[p[1]] /\ p = <<p[1], p[2]>>
          /\ Closes(p[1], p[2])
      BY ClosedType, ReadingType
    <3>2. reading[p[1]][p[2]].slot % Cardinality(Hours) = h
      BY DEF HourOf
    <3> QED BY <3>1, <3>2
  <2> QED BY <2>1, <2>2
<1>2. HourUsage(h) = SumFunctionOnSet(g, closing)
  BY DEF HourUsage, SumFunction
<1>3. Agree(g, UsedIn, those)
  BY <1>1 DEF Agree, UsedIn
<1>4. IsFiniteSet(those) /\ IntsOn(UsedIn, those) /\ \A p \in those : UsedIn[p] >= 0
  <2>1. those \subseteq Closed
    OBVIOUS
  <2> HIDE DEF those
  <2> QED BY <2>1, ClosedType, FS_Subset DEF IntsOn
<1>5. IntsOn(g, those)
  <2> HIDE DEF g, those
  <2> QED BY <1>3, <1>4 DEF IntsOn, Agree
<1>6. SumFunctionOnSet(g, closing) = SumFunctionOnSet(g, those)
  <2> HIDE DEF g, those, closing
  <2> QED BY <1>1
<1> HIDE DEF g, those, closing
<1>7. SumFunctionOnSet(g, those) = SumFunctionOnSet(UsedIn, those)
  BY <1>3, <1>4, <1>5, SumAgree
<1>8. SumFunctionOnSet(UsedIn, those) \in Int /\ 0 <= SumFunctionOnSet(UsedIn, those)
  <2>1. 0 * Cardinality(those) <= SumFunctionOnSet(UsedIn, those)
    <3>1. 0 \in Int /\ \A p \in those : 0 <= UsedIn[p]
      BY <1>4 DEF IntsOn
    <3> QED BY <1>4, <3>1, SumAtLeast
  <2>2. 0 * Cardinality(those) = 0
    BY <1>4, FS_CardinalityType
  <2> QED BY <1>4, <2>1, <2>2, SumType
<1> QED BY <1>2, <1>6, <1>7, <1>8 DEF those

\* What a meter that is not set back used is the difference of its ends.
LEMMA ClosedByStep ==
  ASSUME Recorded, NEW d \in Meters, NEW m \in 1..Len(reading[d])
  PROVE  /\ ClosedBy(d, m) \in SUBSET Closed
         /\ ~Closes(d, m) => ClosedBy(d, m) = ClosedBy(d, m - 1)
         /\ Closes(d, m) => <<d, m>> \in ClosedBy(d, m) /\ ClosedBy(d, m) \ {<<d, m>>} = ClosedBy(d, m - 1)
<1>0. Len(reading[d]) \in Nat /\ m \in Nat
  <2>1. Len(reading[d]) \in Nat
    BY ReadingType
  <2> QED BY <2>1
<1>1. ClosedBy(d, m) \in SUBSET Closed
  <2>1. ASSUME NEW p \in ClosedBy(d, m) PROVE p \in Closed
    <3>1. PICK i \in 1..m : Closes(d, i) /\ p = <<d, i>>
      BY DEF ClosedBy
    <3>2. i \in 1..Len(reading[d])
      BY <1>0, <3>1
    <3> QED BY <3>1, <3>2 DEF Closed
  <2> QED BY <2>1
<1>2. \A i : i \in 1..m <=> i \in 1..(m - 1) \/ i = m
  BY <1>0
<1>3. m \notin 1..(m - 1)
  BY <1>0
<1>4. ~Closes(d, m) => ClosedBy(d, m) = ClosedBy(d, m - 1)
  BY <1>2 DEF ClosedBy
<1>5. Closes(d, m) => <<d, m>> \in ClosedBy(d, m) /\ ClosedBy(d, m) \ {<<d, m>>} = ClosedBy(d, m - 1)
  BY <1>2, <1>3 DEF ClosedBy
<1> QED BY <1>1, <1>4, <1>5

LEMMA MeterSum ==
  ASSUME Recorded, NEW d \in Meters, ~SetBack(d)
  PROVE  SumFunctionOnSet(UsedIn, {p \in Closed : p[1] = d}) = MeterTotal(d)
<1> DEFINE n == Len(reading[d])
           k(i) == reading[d][i].kwh
           sum(m) == SumFunctionOnSet(UsedIn, ClosedBy(d, m))
           C == {m \in Nat : n # 0 /\ m <= n => sum(m) = k(Before(d, m + 1)) - k(1)}
<1>1. n \in Nat /\ \A i \in 1..n : k(i) \in Nat
  BY ReadingType
<1>2. Stepwise(UsedIn, Closed)
  BY ClosedType, SumStep
<1>3. ClosedBy(d, 0) = {}
  BY DEF ClosedBy
<1>4. ASSUME NEW m \in Nat, \A j \in Nat : j < m => j \in C PROVE m \in C
  <2> HIDE DEF k
  <2>1. SUFFICES ASSUME n # 0, m <= n PROVE sum(m) = k(Before(d, m + 1)) - k(1)
    OBVIOUS
  <2>2. k(1) \in Nat
    BY <1>1, <2>1
  <2>3. CASE m = 0
    <3>1. sum(m) = 0
      BY <1>3, <2>3, SumEmpty
    <3>2. Before(d, m + 1) = 1
      BY <2>3, BeforeIs
    <3> QED BY <2>2, <3>1, <3>2
  <2>4. CASE m # 0
    <3> DEFINE b == Before(d, m)
    <3>1. m \in Nat \ {0} /\ m \in 1..n /\ m - 1 \in Nat /\ m - 1 < m /\ m - 1 <= n
          /\ (m - 1) + 1 = m
      BY <1>1, <2>1, <2>4
    <3>2. sum(m - 1) = k(b) - k(1)
      <4> HIDE DEF sum
      <4> QED BY <1>4, <2>1, <3>1
    <3>3. b \in 1..n
      <4>1. b \in 1..m
        BY <3>1, BeforeIs
      <4> HIDE DEF b
      <4> QED BY <1>1, <3>1, <4>1
    <3>4. k(b) \in Nat /\ k(m) \in Nat
      BY <1>1, <3>1, <3>3
    <3>5. Before(d, m + 1) = IF Closes(d, m) THEN m ELSE b
      BY <3>1, BeforeNext
    <3>6. CASE ~Closes(d, m)
      <4>1. sum(m) = sum(m - 1)
        BY <3>1, <3>6, ClosedByStep
      <4> HIDE DEF sum, b
      <4> QED BY <3>2, <3>5, <3>6, <4>1
    <3>7. CASE Closes(d, m)
      <4> DEFINE p == <<d, m>>
      <4>1. p \in ClosedBy(d, m) /\ ClosedBy(d, m) \ {p} = ClosedBy(d, m - 1)
            /\ ClosedBy(d, m) \in SUBSET Closed
        BY <3>1, <3>7, ClosedByStep
      <4>2. UsedIn[p] = k(m) - k(b)
        <5>1. p \in Closed
          BY <4>1
        <5>2. UsedIn[p] = Used(d, m)
          BY <5>1 DEF UsedIn
        <5> QED BY <3>1, <5>2, UsedType DEF k
      <4>3. sum(m) = UsedIn[p] + sum(m - 1)
        <5> HIDE DEF p
        <5>1. SumFunctionOnSet(UsedIn, ClosedBy(d, m))
              = UsedIn[p] + SumFunctionOnSet(UsedIn, ClosedBy(d, m) \ {p})
          BY <1>2, <4>1 DEF Stepwise
        <5> QED BY <4>1, <5>1
      <4> HIDE DEF sum, p, b
      <4>4. sum(m) = (k(m) - k(b)) + (k(b) - k(1))
        BY <3>2, <4>2, <4>3
      <4> QED BY <2>2, <3>4, <3>5, <3>7, <4>4
    <3> QED BY <3>6, <3>7
  <2> QED BY <2>3, <2>4
<1>5. n \in C
  <2>1. Nat \subseteq C
    <3> HIDE DEF C
    <3> QED BY <1>4, Induction
  <2> HIDE DEF C
  <2> QED BY <1>1, <2>1
<1>6. {p \in Closed : p[1] = d} = ClosedBy(d, n)
  <2>1. ASSUME NEW p \in Closed, p[1] = d PROVE p \in ClosedBy(d, n)
    <3>1. p[2] \in 1..n /\ p = <<d, p[2]>> /\ Closes(d, p[2])
      BY <2>1, ClosedType
    <3> QED BY <3>1 DEF ClosedBy
  <2>2. ASSUME NEW p \in ClosedBy(d, n) PROVE p \in Closed /\ p[1] = d
    <3>1. PICK i \in 1..n : Closes(d, i) /\ p = <<d, i>>
      BY DEF ClosedBy
    <3> QED BY <3>1 DEF Closed
  <2> QED BY <2>1, <2>2
<1>7. CASE n = 0
  <2>1. ClosedBy(d, n) = {}
    BY <1>3, <1>7
  <2>2. reading[d] = <<>>
    <3>1. reading[d] \in Seq(Sample)
      BY DEF Recorded
    <3> QED BY <1>7, <3>1
  <2> QED BY <1>6, <2>1, <2>2, SumEmpty DEF MeterTotal
<1>8. CASE n # 0
  <2>1. sum(n) = k(Before(d, n + 1)) - k(1)
    BY <1>1, <1>5, <1>8
  <2>2. Before(d, n + 1) = n
    <3>1. Closes(d, n)
      BY DEF Closes
    <3> QED BY <1>1, <1>8, <3>1, BeforeNext
  <2>3. \A i \in 1..n : k(1) <= k(i) /\ k(i) <= k(n)
    <3>1. \A j \in 1..n : \A i \in 1..j : k(i) <= k(j)
      BY NeverLess
    <3> HIDE DEF k
    <3>2. ASSUME NEW i \in 1..n PROVE k(1) <= k(i) /\ k(i) <= k(n)
      <4>1. n \in 1..n /\ i \in 1..n /\ 1 \in 1..i
        BY <1>1
      <4> QED BY <3>1, <4>1
    <3> QED BY <3>2
  <2>4. Kwh(d) = {k(i) : i \in 1..n}
    BY ReadingType DEF Kwh
  <2> DEFINE K == Kwh(d)
  <2>5. K \in SUBSET Int /\ IsFiniteSet(K) /\ K # {}
    <3> DEFINE f == [i \in 1..n |-> k(i)]
               T == 1..n
    <3>1. IsFiniteSet(T)
      BY <1>1, FS_Interval
    <3>2. K = {f[i] : i \in T}
      BY <2>4
    <3>3. IsFiniteSet(K)
      <4> HIDE DEF K, f, T
      <4> QED BY <3>1, <3>2, ImageFinite
    <3>4. K \in SUBSET Int /\ K # {}
      <4> HIDE DEF k
      <4>1. k(1) \in K
        BY <1>1, <1>8, <2>4
      <4>2. K \subseteq Int
        BY <1>1, <2>4
      <4> QED BY <4>1, <4>2
    <3> QED BY <3>3, <3>4
  <2>6. /\ Max(K) \in K /\ \A y \in K : y <= Max(K)
        /\ Min(K) \in K /\ \A y \in K : Min(K) <= y
    <3> HIDE DEF K
    <3> QED BY <2>5, MaxMin
  <2>7. Max(K) = k(n) /\ Min(K) = k(1)
    <3> HIDE DEF k
    <3>1. k(n) \in K /\ k(1) \in K
      BY <1>1, <1>8, <2>4
    <3>2. \A y \in K : k(1) <= y /\ y <= k(n)
      BY <2>3, <2>4
    <3> HIDE DEF K
    <3>3. k(n) <= Max(K) /\ Max(K) <= k(n) /\ k(1) <= Min(K) /\ Min(K) <= k(1)
      BY <2>6, <3>1, <3>2
    <3>4. Max(K) \in Int /\ Min(K) \in Int /\ k(n) \in Int /\ k(1) \in Int
      BY <2>5, <2>6, <3>1
    <3> QED BY <3>3, <3>4
  <2>8. reading[d] # <<>>
    <3>1. Len(<<>>) = 0
      OBVIOUS
    <3> QED BY <1>8, <3>1
  <2>9. MeterTotal(d) = Max(K) - Min(K)
    BY <2>8 DEF MeterTotal
  <2> HIDE DEF K, k
  <2>10. sum(n) = MeterTotal(d)
    <3> HIDE DEF sum
    <3> QED BY <2>1, <2>2, <2>7, <2>9
  <2> QED BY <1>6, <2>10
<1> QED BY <1>7, <1>8

\* Lines by the hour come to the use of all meters, unless one was set back.
LEMMA TouUsage ==
  ASSUME Recorded, Rising, NEW c
  PROVE  Usages(TouItems(c)) = TotalUsage
<1> DEFINE P == {h \in Hours : HourUsage(h) > 0}
           lines == [h \in P |-> TouItems(c)[h].usage]
           hourly == [h \in Hours |-> HourUsage(h)]
           metered == [d \in Meters |-> MeterTotal(d)]
           MeterOf == [p \in Closed |-> p[1]]
           byHour == Part(UsedIn, HourOf, Hours, Closed)
           byMeter == Part(UsedIn, MeterOf, Meters, Closed)
<1>1. IsFiniteSet(Hours) /\ IsFiniteSet(Meters) /\ P \in SUBSET Hours /\ IsFiniteSet(P)
  <2>1. P \subseteq Hours
    OBVIOUS
  <2> HIDE DEF P
  <2> QED BY <2>1, BillingAssumption, FS_Subset DEF BillingParameters
<1>2. \A h \in Hours : HourUsage(h) \in Nat
  BY HourSum
<1>3. IntsOn(hourly, Hours) /\ IntsOn(lines, P) /\ Agree(lines, hourly, P)
  BY <1>2 DEF IntsOn, Agree, TouItems, Item
<1>4. Usages(TouItems(c)) = SumFunctionOnSet(lines, P)
  BY DEF Usages, SumFunction, TouItems
<1>5. \A h \in Hours \ P : hourly[h] = 0
  BY <1>2
<1>6. \A p \in Closed : HourOf[p] \in Hours
  <2>1. ASSUME NEW p \in Closed PROVE HourOf[p] \in Hours
    <3>1. reading[p[1]][p[2]] \in Sample
      BY ClosedType, ReadingType
    <3>2. reading[p[1]][p[2]].slot \in Nat
      BY <3>1, BillingAssumption DEF Sample, BillingParameters
    <3> DEFINE n == Cardinality(Hours)
               s == reading[p[1]][p[2]].slot
    <3>3. n \in Nat /\ n # 0 /\ Hours = 0..(n - 1)
      BY <1>1, FS_CardinalityType, FS_EmptySet, BillingAssumption DEF BillingParameters
    <3>4. HourOf[p] = s % n
      BY DEF HourOf
    <3> HIDE DEF n, s
    <3>5. s \in Nat
      BY <3>2 DEF s
    <3>6. s % n \in 0..(n - 1)
      BY <3>3, <3>5
    <3> QED BY <3>3, <3>4, <3>6
  <2> QED BY <2>1
<1>7. \A p \in Closed : MeterOf[p] \in Meters
  BY ClosedType
<1>8. IsFiniteSet(Closed) /\ IntsOn(UsedIn, Closed)
  BY ClosedType
<1>9. Agree(hourly, byHour, Hours)
  BY HourSum DEF Agree, Part
<1>10. Agree(byMeter, metered, Meters)
  <2>1. ASSUME NEW d \in Meters PROVE byMeter[d] = metered[d]
    <3>1. byMeter[d] = SumFunctionOnSet(UsedIn, {p \in Closed : MeterOf[p] = d})
      BY DEF Part
    <3>2. {p \in Closed : MeterOf[p] = d} = {p \in Closed : p[1] = d}
      OBVIOUS
    <3>3. SumFunctionOnSet(UsedIn, {p \in Closed : p[1] = d}) = MeterTotal(d)
      BY MeterSum DEF Rising
    <3> HIDE DEF byMeter, MeterOf
    <3>4. byMeter[d] = MeterTotal(d)
      BY <3>1, <3>2, <3>3
    <3> QED BY <3>4
  <2> HIDE DEF byMeter, metered
  <2> QED BY <2>1 DEF Agree
<1>11. TotalUsage = SumFunctionOnSet(metered, Meters)
  BY DEF TotalUsage, SumFunction
<1>12. IntsOn(byMeter, Meters)
  <2> HIDE DEF MeterOf
  <2> QED BY <1>8, PartInts
<1> HIDE DEF P, lines, hourly, metered, MeterOf, byHour, byMeter
<1>13. SumFunctionOnSet(lines, P) = SumFunctionOnSet(hourly, P)
  BY <1>1, <1>3, SumAgree
<1>14. SumFunctionOnSet(hourly, Hours) = SumFunctionOnSet(hourly, P)
  BY <1>1, <1>3, <1>5, SumDrop
<1>15. SumFunctionOnSet(hourly, Hours) = SumFunctionOnSet(byHour, Hours)
  BY <1>1, <1>3, <1>9, SumAgree
<1>16. SumFunctionOnSet(byHour, Hours) = SumFunctionOnSet(UsedIn, Closed)
  BY <1>1, <1>6, <1>8, SumPartition DEF byHour
<1>17. SumFunctionOnSet(byMeter, Meters) = SumFunctionOnSet(UsedIn, Closed)
  BY <1>1, <1>7, <1>8, SumPartition DEF byMeter
<1>18. SumFunctionOnSet(byMeter, Meters) = SumFunctionOnSet(metered, Meters)
  BY <1>1, <1>10, <1>12, SumAgree
<1> QED BY <1>4, <1>11, <1>13, <1>14, <1>15, <1>16, <1>17, <1>18

LEMMA TotalType ==
  ASSUME Recorded
  PROVE  TotalUsage \in Int
<1> DEFINE metered == [d \in Meters |-> MeterTotal(d)]
<1>1. TotalUsage = SumFunctionOnSet(metered, Meters)
  BY DEF TotalUsage, SumFunction
<1>2. ASSUME NEW d \in Meters PROVE MeterTotal(d) \in Int
  <2>1. CASE reading[d] = <<>>
    BY <2>1 DEF MeterTotal
  <2>2. CASE reading[d] # <<>>
    <3> DEFINE n == Len(reading[d])
               T == 1..n
               f == [i \in T |-> reading[d][i].kwh]
               K == Kwh(d)
    <3>1. n \in Nat /\ \A i \in T : f[i] \in Nat
      BY ReadingType
    <3>2. K = {f[i] : i \in T}
      BY ReadingType DEF Kwh
    <3>3. n # 0
      <4>1. reading[d] \in Seq(Sample)
        BY DEF Recorded
      <4> QED BY <2>2, <4>1
    <3>4. IsFiniteSet(T) /\ T # {}
      <4>1. n \in Int
        BY <3>1
      <4>2. T # {}
        <5> HIDE DEF n
        <5> QED BY <3>1, <3>3
      <4> HIDE DEF n
      <4> QED BY <4>1, <4>2, FS_Interval
    <3>5. MeterTotal(d) = Max(K) - Min(K)
      BY <2>2 DEF MeterTotal
    <3> HIDE DEF T, f, K
    <3>6. IsFiniteSet(K) /\ K \in SUBSET Int /\ K # {}
      BY <3>1, <3>2, <3>4, ImageFinite
    <3>7. Max(K) \in Int /\ Min(K) \in Int
      BY <3>6, MaxMin
    <3> QED BY <3>5, <3>7
  <2> QED BY <2>1, <2>2
<1>3. IntsOn(metered, Meters)
  BY <1>2 DEF IntsOn
<1>4. IsFiniteSet(Meters)
  BY BillingAssumption DEF BillingParameters
<1> HIDE DEF metered
<1> QED BY <1>1, <1>3, <1>4, SumType

LEMMA TouType ==
  ASSUME Recorded, NEW c \in Configs, c.kind = "tou"
  PROVE  TouItems(c) \in [{h \in Hours : HourUsage(h) > 0} -> Line]
<1>1. ASSUME NEW h \in Hours PROVE TouPrice(c, h) \in Int
  <2> DEFINE hits == {i \in DOMAIN c.periods : InPeriod(h, c.periods[i])}
             n == Len(c.periods)
  <2>1. c.base \in Int /\ c.periods \in Seq([from : Int, to : Int, price : Int])
    BY BillingAssumption DEF ConfigsFit
  <2>2. n \in Nat /\ DOMAIN c.periods = 1..n /\ hits \in SUBSET (1..n)
        /\ \A i \in 1..n : c.periods[i] \in [from : Int, to : Int, price : Int]
    <3> DEFINE q == c.periods
               Period == [from : Int, to : Int, price : Int]
    <3>1. q \in Seq(Period)
      BY <2>1
    <3> HIDE DEF q, Period
    <3>2. Len(q) \in Nat /\ DOMAIN q = 1..Len(q) /\ \A i \in 1..Len(q) : q[i] \in Period
      BY <3>1
    <3> QED BY <3>2 DEF q, Period
  <2>3. TouPrice(c, h) = IF hits = {} THEN c.base ELSE c.periods[Min(hits)].price
    BY DEF TouPrice
  <2> HIDE DEF hits, n
  <2>4. CASE hits # {}
    <3>1. Min(hits) \in hits
      BY <2>2, <2>4, SomeOf, MaxMin
    <3> DEFINE i == Min(hits)
    <3>2. i \in 1..n
      BY <2>2, <3>1
    <3> HIDE DEF i
    <3>3. c.periods[i].price \in Int
      BY <2>2, <3>2
    <3> QED BY <2>3, <2>4, <3>3 DEF i
  <2> QED BY <2>1, <2>3, <2>4
<1>2. ASSUME NEW h \in Hours PROVE Item(HourUsage(h), TouPrice(c, h)) \in Line
  <2>1. HourUsage(h) \in Int /\ TouPrice(c, h) \in Int
    <3>1. HourUsage(h) \in Nat
      BY HourSum
    <3> QED BY <1>1, <3>1
  <2>2. HourUsage(h) * TouPrice(c, h) \in Int
    BY <2>1
  <2> QED BY <2>1, <2>2 DEF Item, Line
<1> QED BY <1>2 DEF TouItems

\* What the lines of a bill owe to its rule and its use.
Account(c, usage, items, moved) ==
  /\ CASE c.kind = "flat"   -> Amounts(items) = usage * c.price
       [] c.kind = "tiered" -> Amounts(items) = TieredReference(c.tiers, usage)
       [] c.kind = "tou"    -> TRUE
  /\ \/ Usages(items) = usage
     \/ Capped(c) /\ usage > Last(c.tiers).top
     \/ c.kind = "tou" /\ moved

LEMMA ItemsAccount ==
  ASSUME Recorded, NEW c \in Configs, Valid(c), NEW usage \in Nat, NEW moved \in BOOLEAN,
         ~moved => usage = TotalUsage /\ Rising
  PROVE  /\ Items(c, usage) \in Seq(Line) \/ \E P \in SUBSET Hours : Items(c, usage) \in [P -> Line]
         /\ Account(c, usage, Items(c, usage), moved)
<1>0. c.kind \in {"flat", "tiered", "tou"}
  BY BillingAssumption DEF ConfigsFit
<1>1. CASE c.kind = "flat"
  <2> DEFINE line == Item(usage, c.price)
             none == <<>>
  <2>1. c.price \in Int
    BY <1>1, BillingAssumption DEF ConfigsFit
  <2>2. usage * c.price \in Int
    BY <2>1
  <2>3. line \in Line /\ line.usage = usage /\ line.amount = usage * c.price
    BY <2>2 DEF Item, Line
  <2>4. none \in Seq(Line) /\ Append(none, line) = <<line>>
    OBVIOUS
  <2>5. Usages(none) = 0 /\ Amounts(none) = 0
    <3> DEFINE u == [i \in DOMAIN none |-> none[i].usage]
               a == [i \in DOMAIN none |-> none[i].amount]
    <3>1. DOMAIN u = {} /\ DOMAIN a = {}
      OBVIOUS
    <3>2. Usages(none) = SumFunctionOnSet(u, DOMAIN u) /\ Amounts(none) = SumFunctionOnSet(a, DOMAIN a)
      BY DEF Usages, Amounts, SumFunction
    <3> HIDE DEF u, a
    <3> QED BY <3>1, <3>2, SumEmpty
  <2>6. Items(c, usage) = <<line>>
    BY <1>1 DEF Items
  <2> DEFINE cost == usage * c.price
  <2> HIDE DEF line, none, cost
  <2>7. <<line>> \in Seq(Line) /\ Usages(<<line>>) = usage /\ Amounts(<<line>>) = usage * c.price
    <3>1. /\ <<line>> \in Seq(Line) /\ Usages(<<line>>) = Usages(none) + line.usage
          /\ Amounts(<<line>>) = Amounts(none) + line.amount
      BY <2>3, <2>4, LinesAppend
    <3>2. cost \in Int /\ line.amount = cost
      BY <2>2, <2>3 DEF cost
    <3>3. Usages(<<line>>) = usage /\ Amounts(<<line>>) = cost
      BY <2>3, <2>5, <3>1, <3>2
    <3> QED BY <3>1, <3>3 DEF cost
  <2> QED BY <1>1, <2>6, <2>7 DEF Account
<1>2. CASE c.kind = "tiered"
  <2>1. c.tiers \in Seq(Tiering) /\ Rise(c.tiers)
    BY <1>2, BillingAssumption DEF ConfigsFit, Valid, Rise, Tiering
  <2>2. Items(c, usage) = TieredItems(c.tiers, usage)
    BY <1>2 DEF Items
  <2>3. /\ TieredItems(c.tiers, usage) \in Seq(Line)
        /\ Amounts(TieredItems(c.tiers, usage)) = TieredReference(c.tiers, usage)
        /\ \/ Usages(TieredItems(c.tiers, usage)) = usage
           \/ Last(c.tiers).top # NoTop /\ usage > Last(c.tiers).top
    BY <2>1, TieredPlaces
  <2> QED BY <1>2, <2>2, <2>3 DEF Account, Capped
<1>3. CASE c.kind = "tou"
  <2>1. Items(c, usage) = TouItems(c)
    BY <1>3 DEF Items
  <2>2. TouItems(c) \in [{h \in Hours : HourUsage(h) > 0} -> Line]
    BY <1>3, TouType
  <2>3. ~moved => Usages(TouItems(c)) = usage
    BY TouUsage
  <2> QED BY <1>3, <2>1, <2>2, <2>3 DEF Account
<1> QED BY <1>0, <1>1, <1>2, <1>3

Priced == {c \in Configs : Valid(c)}
Lines  == Seq(Line) \cup UNION {[P -> Line] : P \in SUBSET Hours}
Call   == [tenant : Tenants \cup {NoTenant}, at : Steps, usage : Int, rule : Nat \cup {NoRule},
           items : Lines, moved : BOOLEAN]

BillingKinds ==
  /\ Recorded
  /\ rulebook \in Seq([tenant : Tenants, config : Priced, own : BOOLEAN])
  /\ gen \in [Generators -> Call]
  /\ monthLock \in ByCron \cup {NoOne}

\* What a call knows at each of its steps.
KnownBy(call) ==
  /\ call.at \in Steps \ {"idle"} => call.tenant \in Tenants
  /\ call.at \in {"rule", "price", "check", "insert"} => call.usage > 0
  /\ call.at \in {"rule", "price"} /\ ~call.moved => call.usage = TotalUsage
  /\ call.at \in {"price", "check", "insert"} => call.rule \in DOMAIN rulebook
  /\ call.at \in {"check", "insert"} =>
       Account(rulebook[call.rule].config, call.usage, call.items, call.moved)

Stored ==
  bill # NoBill => /\ bill.tenant \in Tenants /\ bill.usage > 0
                   /\ bill.amount = Amounts(bill.items)
                   /\ Account(bill.config, bill.usage, bill.items, bill.moved)

BillingIInv == BillingKinds /\ (\A g \in Generators : KnownBy(gen[g])) /\ Stored

LEMMA BillingStarts == BillingInit => BillingIInv
<1> SUFFICES ASSUME BillingInit PROVE BillingIInv
  OBVIOUS
<1>1. <<>> \in Seq(Sample) /\ <<>> \in Seq([tenant : Tenants, config : Priced, own : BOOLEAN])
      /\ <<>> \in Seq(Line)
  OBVIOUS
<1>2. NewCall \in Call /\ NewCall.at = "idle"
  BY <1>1 DEF NewCall, Call, Lines, Steps
<1>3. BillingKinds
  BY <1>1, <1>2 DEF BillingKinds, BillingInit, Recorded
<1>4. \A g \in Generators : gen[g].at = "idle"
  BY <1>2 DEF BillingInit
<1>5. \A g \in Generators : KnownBy(gen[g])
  BY <1>4 DEF KnownBy
<1> QED BY <1>3, <1>5 DEF BillingIInv, Stored, BillingInit

\* Steps that leave the readings and the rules alone leave what is known.
LEMMA SameTotal ==
  ASSUME UNCHANGED reading
  PROVE  TotalUsage' = TotalUsage
BY DEF TotalUsage, MeterTotal, Kwh

\* A step of one call: the other calls know what they knew.
OnlyCall(g, call) == gen' = [gen EXCEPT ![g] = call]

LEMMA CallMoves ==
  ASSUME BillingIInv, NEW g \in Generators, NEW call \in Call, OnlyCall(g, call),
         UNCHANGED <<reading, rulebook>>, monthLock' \in ByCron \cup {NoOne},
         KnownBy(call)', Stored'
  PROVE  BillingIInv'
<1>1. gen' \in [Generators -> Call]
  BY DEF BillingIInv, BillingKinds, OnlyCall
<1>2. BillingKinds'
  BY <1>1 DEF BillingIInv, BillingKinds, Recorded
<1>3. gen'[g] = call
  BY DEF BillingIInv, BillingKinds, OnlyCall
<1>4. ASSUME NEW h \in Generators PROVE KnownBy(gen[h])'
  <2>1. CASE h = g
    <3>1. gen[h]' = call
      BY <1>3, <2>1
    <3> QED BY <3>1 DEF KnownBy
  <2>2. CASE h # g
    <3>1. gen'[h] = gen[h] /\ KnownBy(gen[h])
      BY <2>2 DEF BillingIInv, BillingKinds, OnlyCall
    <3> QED BY <3>1, SameTotal DEF KnownBy
  <2> QED BY <2>1, <2>2
<1> QED BY <1>2, <1>4 DEF BillingIInv

LEMMA ReportKeeps ==
  ASSUME BillingIInv, NEW d \in Meters, NEW slot \in 1..MaxSlot, NEW kwh \in Counts,
         Report(d, slot, kwh)
  PROVE  BillingIInv'
<1>0. BillingKinds /\ Stored /\ \A g \in Generators : KnownBy(gen[g]) /\ gen[g] \in Call
  BY DEF BillingIInv, BillingKinds
<1>1. reading' \in [Meters -> Seq(Sample)]
  <2> DEFINE x == [slot |-> slot, kwh |-> kwh]
             r == Append(reading[d], x)
  <2>1. x \in Sample
    BY DEF Sample
  <2>2. reading[d] \in Seq(Sample)
    BY <1>0 DEF BillingKinds, Recorded
  <2> HIDE DEF x
  <2>3. r \in Seq(Sample)
    BY <2>1, <2>2
  <2>4. reading' = [reading EXCEPT ![d] = r]
    BY DEF Report, x
  <2> HIDE DEF r
  <2> QED BY <1>0, <2>3, <2>4 DEF BillingKinds, Recorded
<1>2. ASSUME NEW g \in Generators
      PROVE  /\ gen'[g] \in Call
             /\ gen'[g].at = gen[g].at /\ gen'[g].tenant = gen[g].tenant
             /\ gen'[g].usage = gen[g].usage /\ gen'[g].rule = gen[g].rule
             /\ gen'[g].items = gen[g].items
             /\ gen[g].at \in {"rule", "price"} => gen'[g].moved
             /\ gen[g].at \notin {"rule", "price"} => gen'[g].moved = gen[g].moved
  <2>1. gen'[g] = IF gen[g].at \in {"rule", "price"} THEN [gen[g] EXCEPT !.moved = TRUE] ELSE gen[g]
    BY DEF Report
  <2>2. [gen[g] EXCEPT !.moved = TRUE] \in Call
    BY <1>0 DEF Call
  <2> QED BY <1>0, <2>1, <2>2 DEF Call
<1>3. gen' \in [Generators -> Call]
  BY <1>2 DEF Report
<1>4. BillingKinds'
  BY <1>0, <1>1, <1>3 DEF BillingKinds, Recorded, Report
<1>5. ASSUME NEW g \in Generators PROVE KnownBy(gen[g])'
  <2>1. rulebook' = rulebook
    BY DEF Report
  <2> QED BY <1>0, <1>2, <2>1 DEF KnownBy
<1>6. Stored'
  BY <1>0 DEF Stored, Report
<1> QED BY <1>4, <1>5, <1>6 DEF BillingIInv

LEMMA RuleCreateKeeps ==
  ASSUME BillingIInv, NEW t \in Tenants, NEW c \in Configs, NEW own \in BOOLEAN,
         RuleCreate(t, c, own)
  PROVE  BillingIInv'
<1> DEFINE Rule == [tenant : Tenants, config : Priced, own : BOOLEAN]
           new == [tenant |-> t, config |-> c, own |-> own]
<1>0. BillingKinds /\ Stored /\ \A g \in Generators : KnownBy(gen[g])
  BY DEF BillingIInv
<1>1. new \in Rule /\ rulebook \in Seq(Rule) /\ rulebook' = Append(rulebook, new)
  BY <1>0 DEF RuleCreate, Priced, BillingKinds
<1>2. rulebook' \in Seq(Rule) /\ \A i \in DOMAIN rulebook : i \in DOMAIN rulebook' /\ rulebook'[i] = rulebook[i]
  <2> HIDE DEF Rule, new
  <2> QED BY <1>1
<1>3. BillingKinds'
  BY <1>0, <1>2 DEF BillingKinds, Recorded, RuleCreate
<1>4. ASSUME NEW g \in Generators PROVE KnownBy(gen[g])'
  <2>1. KnownBy(gen[g]) /\ gen'[g] = gen[g] /\ TotalUsage' = TotalUsage
    BY <1>0, SameTotal DEF RuleCreate
  <2> QED BY <1>2, <2>1 DEF KnownBy
<1>5. Stored'
  BY <1>0 DEF Stored, RuleCreate
<1> QED BY <1>3, <1>4, <1>5 DEF BillingIInv

LEMMA BeginBillKeeps ==
  ASSUME BillingIInv, NEW g \in Generators, NEW t \in Tenants, BeginBill(g, t)
  PROVE  BillingIInv'
<1>0. BillingKinds /\ Stored /\ KnownBy(gen[g]) /\ gen[g] \in Call
  BY DEF BillingIInv, BillingKinds
<1>1. PICK call : call = [gen[g] EXCEPT !.tenant = t, !.at = "usage"]
  OBVIOUS
<1>2. call \in Call /\ call.at = "usage" /\ call.tenant = t
  BY <1>0, <1>1 DEF Call, Steps
<1>3. OnlyCall(g, call)
  BY <1>0, <1>1 DEF OnlyCall, BeginBill, BillingKinds
<1>4. monthLock' \in ByCron \cup {NoOne}
  BY <1>0 DEF BeginBill, BillingKinds
<1>5. KnownBy(call)'
  BY <1>2 DEF KnownBy
<1>6. UNCHANGED <<reading, rulebook>> /\ Stored'
  BY <1>0 DEF BeginBill, Stored
<1> QED BY <1>2, <1>3, <1>4, <1>5, <1>6, CallMoves

LEMMA MeasureKeeps ==
  ASSUME BillingIInv, NEW g \in Generators, Measure(g)
  PROVE  BillingIInv'
<1>0. BillingKinds /\ Stored /\ KnownBy(gen[g]) /\ gen[g] \in Call /\ gen[g].at = "usage"
  BY DEF BillingIInv, BillingKinds, Measure
<1>1. PICK call : call = [gen[g] EXCEPT !.usage = TotalUsage,
                                        !.at = IF TotalUsage > 0 THEN "rule" ELSE "refused"]
  OBVIOUS
<1>2. TotalUsage \in Int
  BY <1>0, TotalType DEF BillingKinds
<1>3. /\ call \in Call /\ call.at = (IF TotalUsage > 0 THEN "rule" ELSE "refused")
      /\ call.usage = TotalUsage /\ call.tenant = gen[g].tenant
  BY <1>0, <1>1, <1>2 DEF Call, Steps
<1>4. OnlyCall(g, call)
  BY <1>0, <1>1 DEF OnlyCall, Measure, BillingKinds
<1>5. UNCHANGED <<reading, rulebook, monthLock>> /\ Stored'
  BY <1>0 DEF Measure, Stored
<1>6. KnownBy(call)'
  <2>1. TotalUsage' = TotalUsage /\ call.tenant \in Tenants
    BY <1>0, <1>3, <1>5, SameTotal DEF KnownBy, Steps
  <2> QED BY <1>3, <2>1 DEF KnownBy
<1> QED BY <1>0, <1>3, <1>4, <1>5, <1>6, CallMoves DEF BillingKinds

LEMMA ApplicableIs ==
  ASSUME BillingKinds, NEW t
  PROVE  Applicable(t) = NoRule \/ Applicable(t) \in DOMAIN rulebook
<1> DEFINE of(own) == {i \in DOMAIN rulebook : rulebook[i].tenant = t /\ rulebook[i].own = own}
           n == Len(rulebook)
<1>1. n \in Nat /\ DOMAIN rulebook = 1..n
  BY DEF BillingKinds
<1>2. ASSUME NEW own, of(own) # {} PROVE Max(of(own)) \in of(own)
  <2> DEFINE s == of(own)
  <2>1. s \in SUBSET (1..n) /\ s # {}
    BY <1>1, <1>2
  <2> HIDE DEF s
  <2>2. Max(s) \in s
    BY <1>1, <2>1, SomeOf, MaxMin
  <2> QED BY <2>2 DEF s
<1>3. Applicable(t) = IF of(TRUE) # {} THEN Max(of(TRUE))
                      ELSE IF of(FALSE) # {} THEN Max(of(FALSE)) ELSE NoRule
  BY DEF Applicable
<1>4. \A own : of(own) \subseteq DOMAIN rulebook
  OBVIOUS
<1> HIDE DEF of
<1> QED BY <1>2, <1>3, <1>4

LEMMA PickRuleKeeps ==
  ASSUME BillingIInv, NEW g \in Generators, PickRule(g)
  PROVE  BillingIInv'
<1>0. BillingKinds /\ Stored /\ KnownBy(gen[g]) /\ gen[g] \in Call /\ gen[g].at = "rule"
  BY DEF BillingIInv, BillingKinds, PickRule
<1>1. PICK r : r = Applicable(gen[g].tenant)
  OBVIOUS
<1>2. r = NoRule \/ r \in DOMAIN rulebook
  BY <1>0, <1>1, ApplicableIs
<1>3. r \in Nat \cup {NoRule}
  BY <1>0, <1>2 DEF BillingKinds
<1>4. PICK call : call = [gen[g] EXCEPT !.rule = r, !.at = IF r = NoRule THEN "refused" ELSE "price"]
  OBVIOUS
<1>5. /\ call \in Call /\ call.at = (IF r = NoRule THEN "refused" ELSE "price") /\ call.rule = r
      /\ call.usage = gen[g].usage /\ call.tenant = gen[g].tenant /\ call.moved = gen[g].moved
  BY <1>0, <1>3, <1>4 DEF Call, Steps
<1>6. OnlyCall(g, call)
  BY <1>0, <1>1, <1>4 DEF OnlyCall, PickRule, BillingKinds
<1>7. UNCHANGED <<reading, rulebook, monthLock>> /\ Stored'
  BY <1>0 DEF PickRule, Stored
<1>8. KnownBy(call)'
  <2>1. TotalUsage' = TotalUsage
    BY <1>7, SameTotal
  <2>2. /\ call.tenant \in Tenants /\ call.usage > 0
        /\ ~call.moved => call.usage = TotalUsage
    BY <1>0, <1>5 DEF KnownBy, Steps
  <2> QED BY <1>2, <1>5, <1>7, <2>1, <2>2 DEF KnownBy
<1> QED BY <1>0, <1>5, <1>6, <1>7, <1>8, CallMoves DEF BillingKinds

LEMMA CalculateKeeps ==
  ASSUME BillingIInv, NEW g \in Generators, Calculate(g)
  PROVE  BillingIInv'
<1>0. BillingKinds /\ Stored /\ KnownBy(gen[g]) /\ gen[g] \in Call /\ gen[g].at = "price"
  BY DEF BillingIInv, BillingKinds, Calculate
<1>1. PICK c : c = rulebook[gen[g].rule].config
  OBVIOUS
<1>2. PICK items : items = Items(c, gen[g].usage)
  OBVIOUS
<1>3. PICK moved \in BOOLEAN : moved = (gen[g].moved \/ \E d \in Meters : SetBack(d))
  OBVIOUS
<1>4. PICK call : call = [gen[g] EXCEPT !.items = items, !.moved = moved, !.at = "check"]
  OBVIOUS
<1>5. /\ gen[g].tenant \in Tenants /\ gen[g].usage > 0 /\ gen[g].rule \in DOMAIN rulebook
      /\ ~gen[g].moved => gen[g].usage = TotalUsage
  BY <1>0 DEF KnownBy, Steps
<1>6. c \in Configs /\ Valid(c)
  <2> DEFINE Rule == [tenant : Tenants, config : Priced, own : BOOLEAN]
  <2>1. rulebook \in Seq(Rule)
    BY <1>0 DEF BillingKinds
  <2> HIDE DEF Rule
  <2>2. rulebook[gen[g].rule] \in Rule
    BY <1>5, <2>1
  <2> QED BY <1>1, <2>2 DEF Rule, Priced
<1>7. gen[g].usage \in Nat /\ Recorded
  BY <1>0, <1>5 DEF Call, BillingKinds
<1>8. ~moved => gen[g].usage = TotalUsage /\ Rising
  BY <1>3, <1>5 DEF Rising
<1>9. items \in Lines /\ Account(c, gen[g].usage, items, moved)
  BY <1>2, <1>6, <1>7, <1>8, ItemsAccount DEF Lines
<1>10. /\ call \in Call /\ call.at = "check" /\ call.items = items /\ call.moved = moved
       /\ call.usage = gen[g].usage /\ call.tenant = gen[g].tenant /\ call.rule = gen[g].rule
  BY <1>0, <1>3, <1>4, <1>9 DEF Call, Steps
<1>11. OnlyCall(g, call)
  BY <1>0, <1>1, <1>2, <1>3, <1>4 DEF OnlyCall, Calculate, BillingKinds
<1>12. UNCHANGED <<reading, rulebook, monthLock>> /\ Stored'
  BY <1>0 DEF Calculate, Stored
<1>13. KnownBy(call)'
  <2>1. Account(rulebook'[call.rule].config, call.usage, call.items, call.moved)
    BY <1>1, <1>9, <1>10, <1>12
  <2> QED BY <1>5, <1>10, <1>12, <2>1 DEF KnownBy
<1> QED BY <1>0, <1>10, <1>11, <1>12, <1>13, CallMoves DEF BillingKinds

\* A call that only moves on, knowing what it knew or less.
LEMMA CallGoes ==
  ASSUME BillingIInv, NEW g \in Generators, NEW step \in Steps \ {"idle"}, To(g, step),
         gen[g].at # "idle", UNCHANGED <<reading, rulebook>>,
         monthLock' \in ByCron \cup {NoOne}, Stored',
         step \in {"billed", "refused", "failed"} \/ (step = "insert" /\ gen[g].at = "check")
  PROVE  BillingIInv'
<1>0. BillingKinds /\ KnownBy(gen[g]) /\ gen[g] \in Call
  BY DEF BillingIInv, BillingKinds
<1>1. PICK call : call = [gen[g] EXCEPT !.at = step]
  OBVIOUS
<1>2. /\ call \in Call /\ call.at = step /\ call.items = gen[g].items /\ call.moved = gen[g].moved
      /\ call.usage = gen[g].usage /\ call.tenant = gen[g].tenant /\ call.rule = gen[g].rule
  BY <1>0, <1>1 DEF Call
<1>3. OnlyCall(g, call)
  BY <1>0, <1>1 DEF OnlyCall, To, BillingKinds
<1>4. call.tenant \in Tenants
  BY <1>0, <1>2 DEF KnownBy, Call
<1>5. KnownBy(call)'
  <2>1. CASE step \in {"billed", "refused", "failed"}
    BY <1>2, <1>4, <2>1 DEF KnownBy
  <2>2. CASE step = "insert" /\ gen[g].at = "check"
    BY <1>0, <1>2, <1>4, <2>2 DEF KnownBy
  <2> QED BY <2>1, <2>2
<1> QED BY <1>2, <1>3, <1>5, CallMoves

LEMMA CheckKeeps ==
  ASSUME BillingIInv, NEW g \in Generators, CheckPeriod(g)
  PROVE  BillingIInv'
<1>1. PICK step : step = IF bill # NoBill /\ bill.tenant = gen[g].tenant THEN "refused" ELSE "insert"
  OBVIOUS
<1>2. To(g, step) /\ step \in Steps \ {"idle"} /\ gen[g].at = "check" /\ step \in {"refused", "insert"}
  BY <1>1 DEF CheckPeriod, Steps
<1>3. UNCHANGED <<reading, rulebook>> /\ monthLock' \in ByCron \cup {NoOne} /\ Stored'
  BY DEF CheckPeriod, BillingIInv, BillingKinds, Stored
<1> QED BY <1>2, <1>3, CallGoes

LEMMA InsertBillKeeps ==
  ASSUME BillingIInv, NEW g \in Generators, InsertBill(g)
  PROVE  BillingIInv'
<1>0. Stored /\ KnownBy(gen[g]) /\ gen[g].at = "insert"
  BY DEF BillingIInv, InsertBill
<1>1. UNCHANGED <<reading, rulebook>> /\ monthLock' \in ByCron \cup {NoOne}
  BY DEF InsertBill, BillingIInv, BillingKinds
<1>2. CASE bill = NoBill
  <2>1. /\ bill' = [tenant |-> gen[g].tenant, config |-> rulebook[gen[g].rule].config,
                    usage |-> gen[g].usage, items |-> gen[g].items,
                    amount |-> Amounts(gen[g].items), moved |-> gen[g].moved]
        /\ To(g, "billed")
    BY <1>2 DEF InsertBill
  <2>2. gen[g].tenant \in Tenants /\ gen[g].usage > 0
        /\ Account(rulebook[gen[g].rule].config, gen[g].usage, gen[g].items, gen[g].moved)
    BY <1>0 DEF KnownBy, Steps
  <2>3. PICK new : new = bill'
    OBVIOUS
  <2>4. /\ new.tenant = gen[g].tenant /\ new.usage = gen[g].usage /\ new.items = gen[g].items
        /\ new.config = rulebook[gen[g].rule].config /\ new.moved = gen[g].moved
        /\ new.amount = Amounts(gen[g].items)
    BY <2>1, <2>3
  <2>5. Stored'
    BY <2>2, <2>3, <2>4 DEF Stored
  <2>6. "billed" \in Steps \ {"idle"}
    BY DEF Steps
  <2> QED BY <1>0, <1>1, <2>1, <2>5, <2>6, CallGoes
<1>3. CASE bill # NoBill
  <2>1. To(g, "failed") /\ Stored' /\ "failed" \in Steps \ {"idle"}
    BY <1>0, <1>3 DEF InsertBill, Stored, Steps
  <2> QED BY <1>0, <1>1, <2>1, CallGoes
<1> QED BY <1>2, <1>3

LEMMA FailsKeeps ==
  ASSUME BillingIInv, NEW g \in Generators, Fails(g)
  PROVE  BillingIInv'
<1>1. To(g, "refused") /\ "refused" \in Steps \ {"idle"} /\ gen[g].at # "idle"
  BY DEF Fails, Steps
<1>2. UNCHANGED <<reading, rulebook>> /\ monthLock' \in ByCron \cup {NoOne} /\ Stored'
  BY DEF Fails, BillingIInv, BillingKinds, Stored
<1> QED BY <1>1, <1>2, CallGoes

\* Only the lock of the monthly job moves.
LEMMA LockKeeps ==
  ASSUME BillingIInv, UNCHANGED <<reading, rulebook, gen, bill>>,
         monthLock' \in ByCron \cup {NoOne}
  PROVE  BillingIInv'
<1>1. TotalUsage' = TotalUsage
  BY SameTotal
<1>2. BillingKinds'
  BY DEF BillingIInv, BillingKinds, Recorded
<1>3. ASSUME NEW g \in Generators PROVE KnownBy(gen[g])'
  BY <1>1 DEF BillingIInv, KnownBy
<1> QED BY <1>2, <1>3 DEF BillingIInv, Stored

LEMMA BillingKeeps == BillingIInv /\ [BillingNext]_billingVars => BillingIInv'
<1> SUFFICES ASSUME BillingIInv, [BillingNext]_billingVars PROVE BillingIInv'
  OBVIOUS
<1>1. CASE UNCHANGED billingVars
  BY <1>1, LockKeeps DEF billingVars, BillingIInv, BillingKinds
<1>2. ASSUME NEW d \in Meters, NEW slot \in 1..MaxSlot, NEW kwh \in Counts, Report(d, slot, kwh)
      PROVE  BillingIInv'
  BY <1>2, ReportKeeps
<1>3. ASSUME NEW t \in Tenants, NEW c \in Configs, NEW own \in BOOLEAN, RuleCreate(t, c, own)
      PROVE  BillingIInv'
  BY <1>3, RuleCreateKeeps
<1>4. ASSUME NEW g \in Generators, NEW t \in Tenants, BeginBill(g, t) PROVE BillingIInv'
  BY <1>4, BeginBillKeeps
<1>5. ASSUME NEW g \in Generators, Measure(g) PROVE BillingIInv'
  BY <1>5, MeasureKeeps
<1>6. ASSUME NEW g \in Generators, PickRule(g) PROVE BillingIInv'
  BY <1>6, PickRuleKeeps
<1>7. ASSUME NEW g \in Generators, Calculate(g) PROVE BillingIInv'
  BY <1>7, CalculateKeeps
<1>8. ASSUME NEW g \in Generators, CheckPeriod(g) PROVE BillingIInv'
  BY <1>8, CheckKeeps
<1>9. ASSUME NEW g \in Generators, InsertBill(g) PROVE BillingIInv'
  BY <1>9, InsertBillKeeps
<1>10. ASSUME NEW g \in Generators, ReleaseMonth(g) PROVE BillingIInv'
  BY <1>10, LockKeeps DEF ReleaseMonth
<1>11. ASSUME NEW g \in Generators, Fails(g) PROVE BillingIInv'
  BY <1>11, FailsKeeps
<1>12. CASE MonthLockExpires
  BY <1>12, LockKeeps DEF MonthLockExpires
<1> QED BY <1>1, <1>2, <1>3, <1>4, <1>5, <1>6, <1>7, <1>8, <1>9, <1>10, <1>11, <1>12
        DEF BillingNext

\* Readings, rules, calls and the bill keep their kinds (billing-service).
THEOREM BillingTypes == BillingSpec => []BillingTypeOK
<1>1. BillingIInv => BillingTypeOK
  <2> SUFFICES ASSUME BillingIInv PROVE BillingTypeOK
    OBVIOUS
  <2>1. BillingKinds /\ Stored
    BY DEF BillingIInv
  <2>2. \A d \in Meters : \A i \in DOMAIN reading[d] :
           reading[d][i].slot \in 1..MaxSlot /\ reading[d][i].kwh \in Counts
    BY <2>1, ReadingType DEF BillingKinds, Sample
  <2>3. \A i \in DOMAIN rulebook : rulebook[i].tenant \in Tenants /\ rulebook[i].config \in Configs
    <3> DEFINE Rule == [tenant : Tenants, config : Priced, own : BOOLEAN]
    <3>1. rulebook \in Seq(Rule)
      BY <2>1 DEF BillingKinds
    <3> HIDE DEF Rule
    <3>2. \A i \in DOMAIN rulebook : rulebook[i] \in Rule
      BY <3>1
    <3> QED BY <3>2 DEF Rule, Priced
  <2>4. \A g \in Generators : gen[g].tenant \in Tenants \cup {NoTenant} /\ gen[g].at \in Steps
    BY <2>1 DEF BillingKinds, Call
  <2> QED BY <2>1, <2>2, <2>3, <2>4 DEF BillingTypeOK, BillingKinds, Stored
<1> QED BY <1>1, BillingStarts, BillingKeeps, PTL DEF BillingSpec

\* The lines of a bill account for the use it bills and for what it charges,
\* for tiers, prices, periods and readings of any number (Generate, CalcTiered,
\* ListHourlyUsage).
THEOREM BillsCorrect == BillingSpec => []BillsReconcile
<1>1. BillingIInv => BillsReconcile
  BY DEF BillingIInv, Stored, Account, BillsReconcile
<1> QED BY <1>1, BillingStarts, BillingKeeps, PTL DEF BillingSpec

------------------------------------------------------------------------------
(* The run.  A behaviour of MCOperations is one of each service, so what is *)
(* proved of a service holds of the run.                                   *)

operationsVars == <<service, vars, thingVars, commerceVars>>

LEMMA OperationsStart ==
  OperationsInit => /\ Init /\ DoorInit /\ ShadowInit /\ LeaseInit
                    /\ VisitorInit /\ BillingInit /\ FeeInit
<1>1. ASSUME vehicle = "temp", feeRule = NoFeeRule, stay = 0 PROVE FeeInit
  BY <1>1, FeeAssumption DEF FeeInit, VehicleTypes, FeeParameters
<1> QED  BY <1>1 DEF OperationsInit

OneService ==
  service \in {"dispatch", "door", "shadow", "lease", "visitor", "billing", "fee"}

\* A step of the run is a step of each service or leaves it alone.
LEMMA OperationsStep ==
  [OperationsNext]_operationsVars =>
    /\ [Next]_vars /\ [DoorNext]_<<deviceVars, doorVars>> /\ [ShadowNext]_shadowVars
    /\ [LeaseNext]_leaseVars /\ [VisitorNext]_visitorVars /\ [BillingNext]_billingVars
    /\ [FeeNext]_feeVars
BY DEF OperationsNext, operationsVars, thingVars, commerceVars, openingVars

LEMMA OperationsImplements ==
  OperationsSpec => /\ Spec /\ DoorSpec /\ ShadowSpec /\ LeaseSpec
                    /\ VisitorSpec /\ BillingSpec /\ FeeSpec
BY OperationsStart, OperationsStep, PTL
   DEF OperationsSpec, operationsVars, Spec, DoorSpec, ShadowSpec, LeaseSpec, VisitorSpec,
       BillingSpec, FeeSpec

LEMMA DoorTypes == DoorSpec => [](DeviceTypeOK /\ DoorTypeOK)
<1>1. DoorIInv => DeviceTypeOK /\ DoorTypeOK
  BY DEF DoorIInv, DeviceIInv
<1> QED  BY <1>1, DoorStarts, DoorKeeps, PTL DEF DoorSpec

LEMMA ShadowTypes == ShadowSpec => []ShadowTypeOK
<1>1. ShadowIInv => ShadowTypeOK
  BY DEF ShadowIInv
<1> QED  BY <1>1, ShadowStarts, ShadowKeeps, PTL DEF ShadowSpec

LEMMA LeaseTypes == LeaseSpec => []LeaseTypeOK
<1>1. LeaseIInv => LeaseTypeOK
  BY DEF LeaseIInv
<1> QED  BY <1>1, LeaseStarts, LeaseKeeps, PTL DEF LeaseSpec

LEMMA VisitorTypes == VisitorSpec => []VisitorTypeOK
<1>1. VisitorIInv => VisitorTypeOK
  BY DEF VisitorIInv
<1> QED  BY <1>1, VisitorStarts, VisitorKeeps, PTL DEF VisitorSpec

LEMMA FeeTypes == FeeSpec => []FeeTypeOK
<1>1. FeeInit => FeeTypeOK
  BY DEF FeeInit, FeeTypeOK
<1>2. FeeTypeOK /\ [FeeNext]_feeVars => FeeTypeOK'
  BY FeeAssumption DEF FeeTypeOK, FeeNext, Stay, feeVars, FeeParameters
<1> QED  BY <1>1, <1>2, PTL DEF FeeSpec

\* Whatever service a behaviour drives, its rows, copies in hand, locks and logs
\* keep their types: those of dispatch orders, doors, shadows, leases, visitors,
\* bills and parking fees.
THEOREM ServicesTyped == OperationsSpec => []ServiceTypes
<1>1. OneService /\ TypeOK /\ DeviceTypeOK /\ DoorTypeOK /\ ShadowTypeOK /\ LeaseTypeOK
      /\ VisitorTypeOK /\ BillingTypeOK /\ FeeTypeOK => ServiceTypes
  BY DEF ServiceTypes, OneService
<1>2. OperationsInit => OneService
  BY DEF OperationsInit, OneService
<1>3. OneService /\ [OperationsNext]_operationsVars => OneService'
  BY DEF OperationsNext, operationsVars, OneService
<1>4. OperationsSpec => []OneService
  BY <1>2, <1>3, PTL DEF OperationsSpec, operationsVars
<1> QED
  BY <1>1, <1>4, OperationsImplements, TypeCorrect, DoorTypes, ShadowTypes, LeaseTypes,
     VisitorTypes, BillingTypes, FeeTypes, PTL
==================================================================================
