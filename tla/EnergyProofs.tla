------------------------------ MODULE EnergyProofs ------------------------------
(***************************************************************************)
(* Theorems about what is made of the telemetry.                           *)
(*                                                                         *)
(* EnergyIngest, for any partition, any discarded messages and any number  *)
(* of failures: types, and that a reading is lost in the two ways          *)
(* LossExplained names and in no other.                                    *)
(*                                                                         *)
(* Parking, for any gates, requests, workers and faults: the events of a   *)
(* stay are those of its record.                                           *)
(*                                                                         *)
(* And the run MCTelemetry, which composes the two, keeps their types.     *)
(***************************************************************************)
EXTENDS MCTelemetry, TLAPS

\* Safe and LossExplained speak of what the reader has passed.  The group's own
\* offset needs the stronger fact that it never rests on memory alone.
Explained(o) == o \in rows \/ o \in overlooked \/ \E d \in discarded : d > o

\* Before p every reading is accounted for, or is still in the batch.
PassedTo(p) == \A o \in 1..end \ Dirty : o < p => Explained(o) \/ o \in Collected

\* Where the offsets lie, and what memory holds at each place of the loop.
Placed ==
    /\ position <= end + 1 /\ group <= end + 1
    /\ Collected \subseteq 1..end \ Dirty
    /\ bad <= end
    /\ loop = "discard" => bad \in Dirty
    /\ loop = "down" => pending = <<>>
    /\ loop = "commit" => Collected \subseteq rows

IInv ==
    /\ TypeOK
    /\ Placed
    /\ \A o \in 1..end \ Dirty : o < group => Explained(o)
    /\ loop # "down" => PassedTo(position)
    /\ \A p \in Collected : PassedTo(p)

------------------------------------------------------------------------------
LEMMA EmptyBatch == <<>> \in Seq(1..MaxMessages)
OBVIOUS

LEMMA AppendType ==
  ASSUME NEW S, NEW s \in Seq(S), NEW e \in S
  PROVE  Append(s, e) \in Seq(S)
OBVIOUS

\* What Append adds to the batch.
LEMMA CollectedAppend ==
  ASSUME TypeOK, NEW o, pending' = Append(pending, o)
  PROVE  Collected' = Collected \cup {o}
BY DEF Collected, TypeOK

LEMMA CollectedEmpty ==
  ASSUME pending' = <<>>
  PROVE  Collected' = {}
BY DEF Collected

\* A step that forgets nothing keeps every explanation.
LEMMA ExplainedStays ==
  ASSUME NEW o, Explained(o),
         rows \subseteq rows', overlooked \subseteq overlooked', discarded \subseteq discarded'
  PROVE  Explained(o)'
BY DEF Explained

LEMMA InitHolds == ASSUME EnergyParameters, Init PROVE IInv
<1>1. Collected = {}
  BY DEF Init, Collected
<1>2. TypeOK
  <2>1. pending \in Seq(1..MaxMessages)
    BY EmptyBatch DEF Init
  <2>2. end \in 0..MaxMessages /\ bad \in 0..MaxMessages /\ meterFaults \in 0..MaxMeterFaults
    BY DEF Init, EnergyParameters
  <2>3. group \in 0..(MaxMessages + 1) /\ position \in 1..(MaxMessages + 1)
    BY DEF Init, EnergyParameters
  <2>4. rows \subseteq 1..end /\ refused \subseteq 1..end /\ overlooked \subseteq 1..end
    BY DEF Init
  <2> QED
    BY <2>1, <2>2, <2>3, <2>4 DEF Init, TypeOK
<1> QED
  BY <1>1, <1>2 DEF Init, IInv, Placed, PassedTo, EnergyParameters

\* The types, which no step disturbs.
LEMMA TypeKept ==
  ASSUME EnergyParameters, IInv, [Next]_energyVars
  PROVE  TypeOK'
<1> USE DEF EnergyParameters, IInv, Placed, TypeOK
<1>1. CASE Produce
  BY <1>1 DEF Produce
<1>2. CASE Fetch
  <2>1. position' \in 1..(MaxMessages + 1) /\ position \in 1..MaxMessages
    BY <1>2 DEF Fetch
  <2>2. pending' = pending \/ pending' = Append(pending, position)
    BY <1>2 DEF Fetch
  <2>3. pending' \in Seq(1..MaxMessages)
    <3>1. Append(pending, position) \in Seq(1..MaxMessages)
      BY <2>1, AppendType
    <3> QED
      BY <2>2, <3>1
  <2>4. bad' \in 0..MaxMessages /\ loop' \in {"fetch", "insert", "discard"}
    BY <1>2, <2>1 DEF Fetch
  <2> QED
    BY <1>2, <2>1, <2>3, <2>4 DEF Fetch
<1>3. CASE Tick
  BY <1>3 DEF Tick
<1>4. CASE Leave
  BY <1>4 DEF Leave
<1>5. CASE Insert
  BY <1>5 DEF Insert
<1>6. CASE InsertFails
  <2>1. pending' \in Seq(1..MaxMessages)
    BY <1>6, EmptyBatch DEF InsertFails
  <2>2. meterFaults' \in 0..MaxMeterFaults /\ loop' \in {"fetch", "down"}
    BY <1>6 DEF InsertFails, Faults
  <2> QED
    BY <1>6, <2>1, <2>2 DEF InsertFails
<1>7. CASE InsertUnanswered
  BY <1>7 DEF InsertUnanswered, Faults
<1>8. CASE Commit
  BY <1>8, EmptyBatch DEF Commit, Faults
<1>9. CASE Discard
  <2>1. group' \in 0..(MaxMessages + 1)
    BY <1>9 DEF Discard
  <2>2. discarded' \subseteq Dirty
    BY <1>9 DEF Discard
  <2>3. meterFaults' \in 0..MaxMeterFaults
    BY <1>9 DEF Discard, Faults
  <2> QED
    BY <1>9, <2>1, <2>2, <2>3 DEF Discard
<1>10. CASE Stop
  BY <1>10 DEF Stop
<1>11. CASE Crash
  BY <1>11, EmptyBatch DEF Crash, Faults
<1>12. CASE Restart
  <2>1. position' \in 1..(MaxMessages + 1)
    BY <1>12 DEF Restart, Assign
  <2>2. overlooked' \subseteq 1..end
    BY <1>12 DEF Restart, Assign
  <2> QED
    BY <1>12, <2>1, <2>2 DEF Restart
<1>13. CASE Rebalance
  BY <1>13 DEF Rebalance, Assign, Faults
<1>14. CASE UNCHANGED energyVars
  BY <1>14 DEF energyVars
<1> QED
  BY <1>1, <1>2, <1>3, <1>4, <1>5, <1>6, <1>7, <1>8, <1>9, <1>10, <1>11, <1>12, <1>13,
     <1>14 DEF Next, Loop

------------------------------------------------------------------------------
\* The offsets, and memory.
LEMMA PlacedKept ==
  ASSUME EnergyParameters, IInv, [Next]_energyVars
  PROVE  Placed'
<1> USE DEF IInv, Placed, TypeOK, EnergyParameters
<1>1. CASE Produce
  BY <1>1 DEF Produce, Collected
<1>2. CASE Fetch
  <2>1. CASE position \in Dirty
    BY <1>2, <2>1 DEF Fetch, Collected
  <2>2. CASE position \notin Dirty
    <3>1. Collected' = Collected \cup {position}
      BY <1>2, <2>2, CollectedAppend DEF Fetch
    <3> QED
      BY <1>2, <2>2, <3>1 DEF Fetch
  <2> QED
    BY <2>1, <2>2
<1>3. CASE Tick
  BY <1>3 DEF Tick, Collected
<1>4. CASE Leave
  BY <1>4 DEF Leave, Collected
<1>5. CASE Insert
  BY <1>5 DEF Insert, Collected
<1>6. CASE InsertFails
  <2>1. CASE leaving
    BY <1>6, <2>1, CollectedEmpty DEF InsertFails
  <2>2. CASE ~leaving
    <3>1. Collected' = Collected
      BY <1>6, <2>2 DEF InsertFails, Collected
    <3> QED
      BY <1>6, <2>2, <3>1 DEF InsertFails
  <2> QED
    BY <2>1, <2>2
<1>7. CASE InsertUnanswered
  BY <1>7 DEF InsertUnanswered, Collected
<1>8. CASE Commit
  BY <1>8, CollectedEmpty DEF Commit
<1>9. CASE Discard
  <2>1. Collected' = Collected
    BY <1>9 DEF Discard, Collected
  <2> QED
    BY <1>9, <2>1 DEF Discard
<1>10. CASE Stop
  BY <1>10 DEF Stop, Collected
<1>11. CASE Crash
  BY <1>11, CollectedEmpty DEF Crash
<1>12. CASE Restart
  BY <1>12 DEF Restart, Assign, Collected
<1>13. CASE Rebalance
  BY <1>13 DEF Rebalance, Assign, Collected
<1>14. CASE UNCHANGED energyVars
  BY <1>14 DEF energyVars, Collected
<1> QED
  BY <1>1, <1>2, <1>3, <1>4, <1>5, <1>6, <1>7, <1>8, <1>9, <1>10, <1>11, <1>12, <1>13,
     <1>14 DEF Next, Loop

------------------------------------------------------------------------------
(* What lies behind the offsets is accounted for.                          *)

Behind ==
    /\ \A o \in 1..end \ Dirty : o < group => Explained(o)
    /\ loop # "down" => PassedTo(position)
    /\ \A p \in Collected : PassedTo(p)

\* A step that leaves the offsets and the batch, and forgets no row, message or start.
LEMMA BehindStays ==
  ASSUME IInv, UNCHANGED <<end, group, position, pending>>,
         rows \subseteq rows', overlooked \subseteq overlooked', discarded \subseteq discarded',
         loop = "down" => loop' = "down"
  PROVE  Behind'
<1>1. \A o : Explained(o) => Explained(o)'
  BY ExplainedStays
<1>2. Collected' = Collected
  BY DEF Collected
<1> QED
  BY <1>1, <1>2 DEF IInv, Behind, PassedTo

\* The reader begins where its group left off, or at the end.
LEMMA BehindAssigned ==
  ASSUME IInv, Assign, UNCHANGED <<end, group, pending, rows, discarded>>
  PROVE  Behind'
<1>1. Collected' = Collected
  BY DEF Collected
<1>2. CASE group = 0
  BY <1>1, <1>2 DEF Assign, IInv, Placed, TypeOK, Behind, PassedTo, Explained
<1>3. CASE group # 0
  BY <1>1, <1>3 DEF Assign, IInv, TypeOK, Behind, PassedTo, Explained
<1> QED
  BY <1>2, <1>3

LEMMA BehindKept ==
  ASSUME EnergyParameters, IInv, [Next]_energyVars
  PROVE  Behind'
<1>1. CASE Produce
  <2>1. \A o : Explained(o) => Explained(o)'
    BY <1>1, ExplainedStays DEF Produce
  <2>2. Collected' = Collected
    BY <1>1 DEF Produce, Collected
  <2> QED
    BY <1>1, <2>1, <2>2 DEF Produce, IInv, Placed, TypeOK, EnergyParameters, Behind, PassedTo
<1>2. CASE Fetch
  <2>1. \A o : Explained(o)' <=> Explained(o)
    BY <1>2 DEF Fetch, Explained
  <2>2. CASE position \in Dirty
    <3>1. Collected' = Collected
      BY <1>2, <2>2 DEF Fetch, Collected
    <3> QED
      BY <1>2, <2>1, <2>2, <3>1 DEF Fetch, IInv, TypeOK, Behind, PassedTo
  <2>3. CASE position \notin Dirty
    <3>1. Collected' = Collected \cup {position}
      BY <1>2, <2>3, CollectedAppend DEF Fetch, IInv
    <3> QED
      BY <1>2, <2>1, <2>3, <3>1 DEF Fetch, IInv, TypeOK, Behind, PassedTo
  <2> QED
    BY <2>2, <2>3
<1>3. CASE Tick
  BY <1>3, BehindStays DEF Tick
<1>4. CASE Leave
  BY <1>4, BehindStays DEF Leave
<1>5. CASE Insert
  BY <1>5, BehindStays DEF Insert
<1>6. CASE InsertFails
  <2>1. CASE leaving
    <3>1. Collected' = {} /\ loop' = "down"
      BY <1>6, <2>1, CollectedEmpty DEF InsertFails
    <3>2. \A o : Explained(o)' <=> Explained(o)
      BY <1>6 DEF InsertFails, Explained
    <3> QED
      BY <1>6, <3>1, <3>2 DEF InsertFails, IInv, Behind
  <2>2. CASE ~leaving
    BY <1>6, <2>2, BehindStays DEF InsertFails
  <2> QED
    BY <2>1, <2>2
<1>7. CASE InsertUnanswered
  BY <1>7, BehindStays DEF InsertUnanswered
<1>8. CASE Commit
  <2>1. Collected' = {}
    BY <1>8, CollectedEmpty DEF Commit
  <2>2. \A o : Explained(o)' <=> Explained(o)
    BY <1>8 DEF Commit, Explained
  <2>3. \A o \in Collected : Explained(o)
    BY <1>8 DEF Commit, IInv, Placed, Explained
  <2>4. PassedTo(position)'
    BY <1>8, <2>2, <2>3 DEF Commit, IInv, PassedTo
  <2>5. CASE group' = group
    BY <1>8, <2>1, <2>2, <2>4, <2>5 DEF Commit, IInv, Behind
  <2>6. CASE \E o \in Collected : (\A p \in Collected : p <= o) /\ group' = o + 1
    <3>1. PICK o \in Collected : group' = o + 1
      BY <2>6
    <3>2. o \in 1..end
      BY DEF IInv, Placed
    <3>3. \A q \in 1..end \ Dirty : q < group' => Explained(q)
      BY <2>3, <3>1, <3>2 DEF IInv, TypeOK, PassedTo
    <3> QED
      BY <1>8, <2>1, <2>2, <2>4, <3>3 DEF Commit, Behind
  <2> QED
    BY <1>8, <2>5, <2>6 DEF Commit
<1>9. CASE Discard
  <2>1. Collected' = Collected
    BY <1>9 DEF Discard, Collected
  <2>2. \A o : Explained(o) => Explained(o)'
    BY <1>9, ExplainedStays DEF Discard
  <2>3. PassedTo(position)' /\ \A p \in Collected' : PassedTo(p)'
    BY <1>9, <2>1, <2>2 DEF Discard, IInv, PassedTo
  <2>4. CASE group' = group
    BY <1>9, <2>2, <2>3, <2>4 DEF Discard, IInv, Behind
  <2>5. CASE group' = bad + 1 /\ discarded' = discarded \cup {bad}
    <3>1. \A o \in 1..end \ Dirty : o < group' => o < bad
      BY <1>9, <2>5 DEF Discard, IInv, Placed, TypeOK
    <3> QED
      BY <1>9, <2>3, <2>5, <3>1 DEF Discard, Behind, Explained
  <2> QED
    BY <1>9, <2>4, <2>5 DEF Discard
<1>10. CASE Stop
  BY <1>10, BehindStays DEF Stop
<1>11. CASE Crash
  <2>1. Collected' = {}
    BY <1>11, CollectedEmpty DEF Crash
  <2>2. \A o : Explained(o)' <=> Explained(o)
    BY <1>11 DEF Crash, Explained
  <2> QED
    BY <1>11, <2>1, <2>2 DEF Crash, IInv, Behind
<1>12. CASE Restart
  BY <1>12, BehindAssigned DEF Restart
<1>13. CASE Rebalance
  BY <1>13, BehindAssigned DEF Rebalance
<1>14. CASE UNCHANGED energyVars
  BY <1>14, BehindStays DEF energyVars
<1> QED
  BY <1>1, <1>2, <1>3, <1>4, <1>5, <1>6, <1>7, <1>8, <1>9, <1>10, <1>11, <1>12, <1>13,
     <1>14 DEF Next, Loop

------------------------------------------------------------------------------
LEMMA IInvKept ==
  ASSUME EnergyParameters, IInv, [Next]_energyVars
  PROVE  IInv'
BY TypeKept, PlacedKept, BehindKept DEF IInv, Behind

LEMMA IInvImplies == ASSUME IInv PROVE LossExplained
<1> SUFFICES ASSUME NEW o \in 1..end \ Dirty, ~(\E d \in discarded : d > o), o \notin overlooked
             PROVE  Safe(o)
  BY DEF LossExplained
<1>1. CASE loop = "down"
  BY <1>1 DEF IInv, TypeOK, Safe, NextRead, Explained
<1>2. CASE loop # "down"
  BY <1>2 DEF IInv, TypeOK, Safe, NextRead, Explained, PassedTo
<1> QED
  BY <1>1, <1>2

\* The types of the consumer's state, for every partition and every history.
THEOREM TypeCorrect == ASSUME EnergyParameters PROVE EnergySpec => []TypeOK
<1>1. Init => IInv
  BY InitHolds
<1>2. IInv /\ [Next]_energyVars => IInv'
  BY IInvKept
<1>3. IInv => TypeOK
  BY DEF IInv
<1> QED
  BY <1>1, <1>2, <1>3, PTL DEF EnergySpec

\* A reading is lost only behind a message that was thrown away after it, or
\* before the end at which a group without offsets begins; whatever fails, crashes
\* or is rebalanced, and however large the batch.
THEOREM LossCorrect == ASSUME EnergyParameters PROVE EnergySpec => []LossExplained
<1>1. Init => IInv
  BY InitHolds
<1>2. IInv /\ [Next]_energyVars => IInv'
  BY IInvKept
<1>3. IInv => LossExplained
  BY IInvImplies
<1> QED
  BY <1>1, <1>2, <1>3, PTL DEF EnergySpec

------------------------------------------------------------------------------
(* Parking records and their events.                                       *)

Exit(p) == job[p] \in Exits

\* p handles an exit that it has claimed and not yet carried out.
Holding(p) == pc[p] \in {"find", "settle", "release"} /\ Exit(p)

\* p is about to tell that the stay s began, or that it ended.
TellsEntry(p, s) == pc[p] = "announce" /\ job[p] = s
TellsExit(p, s)  == pc[p] = "announce" /\ job[p] \notin EntryMsgs /\ found[p] = s

\* What a process knows of its job.
Knows(p) ==
  /\ pc[p] = "insert" => p \in Workers /\ job[p] \in EntryMsgs
  /\ pc[p] = "find" => Exit(p)
  /\ pc[p] = "settle" => Exit(p) /\ found[p] \in Stays /\ PlateOf[job[p]] = PlateOf[found[p]]
  /\ p \in HttpExits => pc[p] \in {"idle", "over"} \/ job[p] = p
  /\ p \in Workers => pc[p] = "idle" \/ job[p] \in Messages

\* A publication was unanswered, and its event may be there twice.
Doubtful == "publishUnanswered" \in happened

\* The beginning of a stay is told once, and after there is a record of it ...
EntryOnce(s) ==
  /\ entered[s] <= 1 \/ Doubtful
  /\ status[s] = "none" => entered[s] = 0 /\ \A p \in Procs : ~TellsEntry(p, s)
  /\ \A p \in Procs : TellsEntry(p, s) => entered[s] = 0
  /\ \A p, q \in Procs : TellsEntry(p, s) /\ TellsEntry(q, s) => p = q

\* ... and its end once, and after the record was closed.
ExitOnce(s) ==
  /\ left[s] <= 1 \/ Doubtful
  /\ status[s] # "done" => left[s] = 0 /\ \A p \in Procs : ~TellsExit(p, s)
  /\ \A p \in Procs : TellsExit(p, s) => left[s] = 0
  /\ \A p, q \in Procs : TellsExit(p, s) /\ TellsExit(q, s) => p = q

\* As long as no key expires and no UPDATE is unanswered, an exit is in one pair of
\* hands, its key stays, and it has closed one record at most.
Shut == happened \cap Reopening = {}

Alone(p) ==
  Holding(p) =>
    /\ \A s \in Stays : settledBy[s] # job[p]
    /\ \A q \in Procs : Holding(q) /\ job[q] = job[p] => q = p
    /\ job[p] \in ExitMsgs => job[p] \in keys

ClosedOnce(s) ==
  /\ settledBy[s] \in ExitMsgs => settledBy[s] \in keys
  /\ settledBy[s] # NoOne => \A u \in Stays : settledBy[u] = settledBy[s] => u = s

KeysProtect ==
  Shut => (\A p \in Procs : Alone(p)) /\ \A s \in Stays : ClosedOnce(s)

\* Whatever happens, records are closed by exits of their plate, and an HTTP request
\* that has not begun has closed none.
Closers ==
  /\ \A s \in Stays : settledBy[s] # NoOne => PlateOf[settledBy[s]] = PlateOf[s]
  /\ \A h \in HttpExits : pc[h] = "idle" => \A s \in Stays : settledBy[s] # h

ParkingIInv ==
  /\ ParkingTypeOK
  /\ \A p \in Procs : Knows(p)
  /\ \A s \in Stays : EntryOnce(s) /\ ExitOnce(s)
  /\ Closers
  /\ KeysProtect

\* Messages, requests, records and processes are told apart.
LEMMA Apart ==
  /\ \A p \in Procs : p \in Workers <=> p \notin HttpExits
  /\ \A x \in Exits : x \notin Stays /\ x # NoOne
  /\ \A x \in Messages : x \notin HttpExits /\ x \notin HttpEntries /\ x # NoOne
  /\ NoOne \notin Stays /\ NoOne \notin Messages
  /\ \A m \in Messages : m \notin EntryMsgs <=> m \in ExitMsgs
  /\ EntryMsgs \subseteq Stays /\ HttpEntries \subseteq Stays /\ Messages \subseteq Messages
  /\ ExitMsgs \subseteq Exits /\ HttpExits \subseteq Exits
  /\ Workers \subseteq Procs /\ HttpExits \subseteq Procs
BY ParkingAssumption DEF Procs, Exits, Stays, Messages

LEMMA ParkingStarts == ASSUME ParkingInit PROVE ParkingIInv
<1>1. ParkingTypeOK
  BY Apart, ParkingAssumption DEF ParkingInit, ParkingTypeOK, Stages
<1>2. \A p \in Procs : pc[p] = "idle"
  BY DEF ParkingInit
<1>3. \A s \in Stays : entered[s] = 0 /\ left[s] = 0 /\ settledBy[s] = NoOne
  BY DEF ParkingInit
<1>4. \A p \in Procs : Knows(p) /\ Alone(p)
  BY <1>2 DEF Knows, Alone, Holding
<1>5. \A s \in Stays : EntryOnce(s) /\ ExitOnce(s) /\ ClosedOnce(s)
  BY <1>2, <1>3, Apart DEF EntryOnce, ExitOnce, TellsEntry, TellsExit, ClosedOnce, Exits, Messages
<1>6. Closers
  BY <1>3, Apart DEF Closers
<1> QED  BY <1>1, <1>4, <1>5, <1>6 DEF ParkingIInv, KeysProtect

------------------------------------------------------------------------------
(* What a step that leaves something alone keeps.                          *)

Same(p) == pc'[p] = pc[p] /\ job'[p] = job[p] /\ found'[p] = found[p]

LEMMA EntryKeeps ==
  ASSUME ParkingIInv, entered' = entered, happened \subseteq happened',
         \A s \in Stays : status'[s] = "none" => status[s] = "none",
         \A p \in Procs : Same(p) \/ pc'[p] # "announce" \/ job'[p] \notin Stays
  PROVE  \A s \in Stays : EntryOnce(s)'
<1> SUFFICES ASSUME NEW s \in Stays  PROVE EntryOnce(s)'
  OBVIOUS
<1>1. \A p \in Procs : TellsEntry(p, s)' => TellsEntry(p, s)
  BY DEF TellsEntry, Same
<1>2. EntryOnce(s)
  BY DEF ParkingIInv
<1> QED  BY <1>1, <1>2 DEF EntryOnce, Doubtful

LEMMA ExitKeeps ==
  ASSUME ParkingIInv, left' = left, happened \subseteq happened',
         \A s \in Stays : status[s] = "done" => status'[s] = "done",
         \A p \in Procs : Same(p) \/ pc'[p] # "announce" \/ job'[p] \in EntryMsgs
  PROVE  \A s \in Stays : ExitOnce(s)'
<1> SUFFICES ASSUME NEW s \in Stays  PROVE ExitOnce(s)'
  OBVIOUS
<1>1. \A p \in Procs : TellsExit(p, s)' => TellsExit(p, s)
  BY DEF TellsExit, Same
<1>2. ExitOnce(s)
  BY DEF ParkingIInv
<1> QED  BY <1>1, <1>2 DEF ExitOnce, Doubtful

LEMMA ClosersKeep ==
  ASSUME ParkingIInv, settledBy' = settledBy,
         \A h \in HttpExits : pc'[h] = "idle" => pc[h] = "idle"
  PROVE  Closers'
BY DEF ParkingIInv, Closers

LEMMA KeysKeep ==
  ASSUME ParkingIInv, settledBy' = settledBy,
         happened \subseteq happened',
         Shut' => \A m \in ExitMsgs \cap keys : m \in keys',
         \A p \in Procs : Holding(p)' => Holding(p) /\ job'[p] = job[p]
  PROVE  KeysProtect'
<1> SUFFICES ASSUME Shut'
             PROVE  (\A p \in Procs : Alone(p)') /\ \A s \in Stays : ClosedOnce(s)'
  BY DEF KeysProtect
<1>1. (\A p \in Procs : Alone(p)) /\ \A s \in Stays : ClosedOnce(s)
  BY DEF ParkingIInv, KeysProtect, Shut
<1>2. ASSUME NEW p \in Procs  PROVE Alone(p)'
  BY <1>1 DEF Alone
<1>3. ASSUME NEW s \in Stays  PROVE ClosedOnce(s)'
  BY <1>1 DEF ClosedOnce
<1> QED  BY <1>2, <1>3

\* A process that is not about to tell or to close anything it was not before.
Aside(p) ==
  /\ pc'[p] # "announce"
  /\ p \in HttpExits => pc'[p] # "idle"
  /\ Knows(p)'
  /\ Holding(p)' => Holding(p) /\ job'[p] = job[p]

LEMMA FrameKeeps ==
  ASSUME ParkingIInv, ParkingTypeOK', entered' = entered, left' = left, settledBy' = settledBy,
         \A s \in Stays : (status'[s] = "none" => status[s] = "none")
                          /\ (status[s] = "done" => status'[s] = "done"),
         happened \subseteq happened',
         Shut' => \A m \in ExitMsgs \cap keys : m \in keys',
         \A p \in Procs : Same(p) \/ Aside(p)
  PROVE  ParkingIInv'
<1>1. ASSUME NEW p \in Procs  PROVE Knows(p)'
  <2>1. CASE Same(p)
    <3>1. Knows(p)
      BY DEF ParkingIInv
    <3> QED  BY <2>1, <3>1 DEF Same, Knows, Exit
  <2> QED  BY <2>1 DEF Aside
<1>2. \A p \in Procs : Holding(p)' => Holding(p) /\ job'[p] = job[p]
  BY DEF Same, Aside, Holding, Exit
<1>3. \A p \in Procs : Same(p) \/ pc'[p] # "announce"
  BY DEF Aside
<1>4. \A h \in HttpExits : pc'[h] = "idle" => pc[h] = "idle"
  BY Apart DEF Same, Aside
<1>5. (\A s \in Stays : EntryOnce(s)') /\ \A s \in Stays : ExitOnce(s)'
  BY <1>3, EntryKeeps, ExitKeeps
<1>6. Closers' /\ KeysProtect'
  BY <1>2, <1>4, ClosersKeep, KeysKeep
<1> QED  BY <1>1, <1>5, <1>6 DEF ParkingIInv

------------------------------------------------------------------------------
(* Types.                                                                  *)

LEMMA Fewest ==
  ASSUME ParkingTypeOK, NEW kind, Fault(kind)
  PROVE  /\ faults' \in 0 .. MaxFaults /\ happened' \subseteq FaultKinds
         /\ happened \subseteq happened'
BY ParkingAssumption DEF ParkingTypeOK, Fault

\* Where a process is, what it handles and what it found.
Place ==
  /\ pc \in [Procs -> Stages]
  /\ \A w \in Workers : pc[w] # "over"
  /\ \A h \in HttpExits : pc[h] \notin {"claim", "insert", "release", "commit"}
  /\ job \in [Procs -> Messages \cup HttpExits \cup {NoOne}]
  /\ found \in [Procs -> Stays \cup {NoOne}]

LEMMA DoneMoves ==
  ASSUME ParkingTypeOK, NEW p \in Procs, Done(p)
  PROVE  /\ \A q \in Procs \ {p} : Same(q)
         /\ pc'[p] = IF p \in HttpExits THEN "over" ELSE "idle"
         /\ Aside(p) /\ Place'
<1>1. pc'[p] = IF p \in HttpExits THEN "over" ELSE "idle"
  BY DEF ParkingTypeOK, Done, Goto
<1>2. \A q \in Procs \ {p} : Same(q)
  BY DEF ParkingTypeOK, Done, Goto, Same
<1>3. Aside(p)
  BY <1>1, Apart DEF Aside, Knows, Holding
<1>4. pc' \in [Procs -> Stages] /\ job' \in [Procs -> Messages \cup HttpExits \cup {NoOne}]
      /\ found' \in [Procs -> Stays \cup {NoOne}]
  BY DEF ParkingTypeOK, Done, Goto, Stages
<1>5. Place'
  BY <1>1, <1>2, <1>4, Apart DEF ParkingTypeOK, Same, Place
<1> QED  BY <1>1, <1>2, <1>3, <1>5

LEMMA GoMoves ==
  ASSUME ParkingTypeOK, NEW p \in Procs, NEW x \in Stages, Goto(p, x),
         p \in Workers => x # "over",
         p \in HttpExits => x \notin {"claim", "insert", "release", "commit"},
         job' \in [Procs -> Messages \cup HttpExits \cup {NoOne}],
         found' \in [Procs -> Stays \cup {NoOne}],
         \A q \in Procs \ {p} : job'[q] = job[q] /\ found'[q] = found[q]
  PROVE  /\ \A q \in Procs \ {p} : Same(q)
         /\ pc'[p] = x /\ Place'
<1>1. pc'[p] = x /\ pc' \in [Procs -> Stages] /\ \A q \in Procs \ {p} : Same(q)
  BY DEF ParkingTypeOK, Goto, Same
<1> QED  BY <1>1, Apart DEF ParkingTypeOK, Same, Place

LEMMA FinishMoves ==
  ASSUME ParkingTypeOK, NEW p \in Procs, Goto(p, Finish(p)), UNCHANGED <<job, found>>,
         Knows(p), pc[p] # "idle", pc[p] # "over"
  PROVE  /\ \A q \in Procs \ {p} : Same(q)
         /\ Aside(p) /\ Place'
<1>1. /\ Finish(p) \in Stages
      /\ p \in Workers => Finish(p) = "commit"
      /\ p \in HttpExits => Finish(p) = "over"
  BY Apart DEF Finish, Stages
<1>2. (\A q \in Procs \ {p} : Same(q)) /\ pc'[p] = Finish(p) /\ Place'
  BY <1>1, GoMoves, Apart DEF ParkingTypeOK
<1>3. Aside(p)
  BY <1>1, <1>2, Apart DEF Aside, Knows, Holding, Exit
<1> QED  BY <1>2, <1>3

------------------------------------------------------------------------------
(* The steps of a handler.                                                 *)

LEMMA FetchKeeps ==
  ASSUME ParkingIInv, NEW w \in Workers, NEW m \in Messages, FetchMessage(w, m)
  PROVE  ParkingIInv'
<1>0. ParkingTypeOK /\ w \in Procs
  BY Apart DEF ParkingIInv
<1>1. /\ pc[w] = "idle" /\ job' = [job EXCEPT ![w] = m] /\ Goto(w, "claim")
      /\ UNCHANGED << records, keys, offsets, found, events, history >>
      /\ faults' \in 0 .. MaxFaults /\ happened' \subseteq FaultKinds
      /\ happened \subseteq happened'
  BY <1>0, Fewest DEF FetchMessage, failures, ParkingTypeOK
<1>2. job' \in [Procs -> Messages \cup HttpExits \cup {NoOne}] /\ job'[w] = m
  BY <1>0, <1>1 DEF ParkingTypeOK
<1>3. (\A q \in Procs \ {w} : Same(q)) /\ pc'[w] = "claim" /\ Place'
  <2>1. \A q \in Procs \ {w} : job'[q] = job[q] /\ found'[q] = found[q]
    BY <1>0, <1>1 DEF ParkingTypeOK
  <2> QED  BY <1>0, <1>1, <1>2, <2>1, GoMoves, Apart DEF ParkingTypeOK, Stages
<1>4. Aside(w)
  BY <1>2, <1>3, Apart DEF Aside, Knows, Holding
<1>5. ParkingTypeOK'
  BY <1>0, <1>1, <1>3 DEF ParkingTypeOK, Place, records, offsets, events, history
<1> QED  BY <1>1, <1>3, <1>4, <1>5, FrameKeeps DEF records, events, history

LEMMA ClaimKeeps ==
  ASSUME ParkingIInv, NEW w \in Workers, Claim(w)  PROVE ParkingIInv'
<1> DEFINE m == job[w]
<1>0. ParkingTypeOK /\ w \in Procs /\ m \in Messages /\ pc[w] = "claim" /\ Knows(w)
  BY Apart DEF ParkingIInv, Claim, Knows
<1>1. UNCHANGED << records, committed, events, history >>
  BY DEF Claim
<1>2. CASE Seen(m) /\ Goto(w, "commit") /\ UNCHANGED << keys, failed, job, found, failures >>
  <2>1. (\A q \in Procs \ {w} : Same(q)) /\ pc'[w] = "commit" /\ Place'
    BY <1>0, <1>2, GoMoves, Apart DEF ParkingTypeOK, Stages
  <2>2. Aside(w)
    BY <1>0, <1>2, <2>1, Apart DEF Aside, Knows, Holding
  <2>3. ParkingTypeOK'
    BY <1>0, <1>1, <1>2, <2>1 DEF ParkingTypeOK, Place, records, events, history, failures
  <2> QED  BY <1>1, <1>2, <2>1, <2>2, <2>3, FrameKeeps DEF records, events, history, failures
<1>3. CASE /\ ~Seen(m) /\ keys' = keys \cup {m}
           /\ Goto(w, IF m \in EntryMsgs THEN "insert" ELSE "find")
           /\ UNCHANGED << failed, job, found, failures >>
  <2>1. /\ \A q \in Procs \ {w} : Same(q)
        /\ pc'[w] = (IF m \in EntryMsgs THEN "insert" ELSE "find") /\ Place'
    BY <1>0, <1>3, GoMoves, Apart DEF ParkingTypeOK, Stages
  <2>2. ParkingTypeOK'
    BY <1>0, <1>1, <1>3, <2>1 DEF ParkingTypeOK, Place, records, events, history, failures
  <2>3. Knows(w)'
    BY <1>0, <1>3, <2>1, Apart DEF Knows, Exit
  <2>4. CASE m \in EntryMsgs
    <3>1. Aside(w)
      BY <1>3, <2>1, <2>3, <2>4, Apart DEF Aside, Holding
    <3> QED  BY <1>1, <1>3, <2>1, <2>2, <3>1, FrameKeeps DEF records, events, history, failures
  <2>5. CASE m \notin EntryMsgs
    <3>1. m \in ExitMsgs /\ pc'[w] = "find"
      BY <1>0, <2>1, <2>5, Apart
    <3>2. (\A s \in Stays : EntryOnce(s)') /\ \A s \in Stays : ExitOnce(s)'
      <4>1. \A p \in Procs : Same(p) \/ pc'[p] # "announce"
        BY <2>1, <3>1
      <4> QED  BY <1>1, <1>3, <4>1, EntryKeeps, ExitKeeps DEF records, events, failures
    <3>3. Closers'
      <4>1. \A h \in HttpExits : pc'[h] = "idle" => pc[h] = "idle"
        BY <2>1, <3>1, Apart DEF Same
      <4> QED  BY <1>1, <4>1, ClosersKeep DEF history
    <3>4. \A p \in Procs : Knows(p)'
      BY <2>1, <2>3 DEF ParkingIInv, Same, Knows, Exit
    <3>5. ASSUME Shut
          PROVE  (\A p \in Procs : Alone(p)') /\ \A s \in Stays : ClosedOnce(s)'
      <4>1. (\A p \in Procs : Alone(p)) /\ \A s \in Stays : ClosedOnce(s)
        BY <3>5 DEF ParkingIInv, KeysProtect
      <4>2. \A s \in Stays : settledBy[s] # m
        BY <1>3, <3>1, <4>1 DEF ClosedOnce, Seen
      <4>3. \A p \in Procs : Holding(p) => job[p] # m
        BY <1>3, <3>1, <4>1 DEF Alone, Seen
      <4>4. \A p \in Procs \ {w} : Holding(p)' = Holding(p) /\ job'[p] = job[p]
        BY <2>1 DEF Same, Holding, Exit
      <4>5. job'[w] = m /\ settledBy' = settledBy /\ m \in keys' /\ keys \subseteq keys'
        BY <1>1, <1>3 DEF history
      <4>6. Alone(w)'
        BY <4>2, <4>3, <4>4, <4>5 DEF Alone
      <4>7. ASSUME NEW p \in Procs \ {w}  PROVE Alone(p)'
        BY <4>1, <4>3, <4>4, <4>5 DEF Alone
      <4>8. ASSUME NEW s \in Stays  PROVE ClosedOnce(s)'
        BY <4>1, <4>5 DEF ClosedOnce
      <4> QED  BY <4>6, <4>7, <4>8
    <3> QED  BY <1>3, <2>2, <3>2, <3>3, <3>4, <3>5 DEF ParkingIInv, KeysProtect, Shut, failures
  <2> QED  BY <2>4, <2>5
<1>4. ASSUME NEW kind, Fault(kind), keys' = keys \/ keys' = keys \cup {m},
             Fails(w) \/ (Goto(w, "commit") /\ UNCHANGED << failed, job, found >>)
      PROVE  ParkingIInv'
  <2>1. (\A q \in Procs \ {w} : Same(q)) /\ Aside(w) /\ Place'
    <3>1. CASE Fails(w)
      BY <1>0, <3>1, DoneMoves DEF Fails
    <3>2. CASE Goto(w, "commit") /\ UNCHANGED << failed, job, found >>
      <4>1. (\A q \in Procs \ {w} : Same(q)) /\ pc'[w] = "commit" /\ Place'
        BY <1>0, <3>2, GoMoves, Apart DEF ParkingTypeOK, Stages
      <4> QED  BY <1>0, <3>2, <4>1, Apart DEF Aside, Knows, Holding
    <3> QED  BY <1>4, <3>1, <3>2
  <2>2. /\ faults' \in 0 .. MaxFaults /\ happened' \subseteq FaultKinds
        /\ happened \subseteq happened'
    BY <1>0, <1>4, Fewest
  <2>3. failed' \subseteq Messages /\ failed \subseteq failed'
    BY <1>0, <1>4 DEF Fails, ParkingTypeOK
  <2>4. ParkingTypeOK'
    BY <1>0, <1>1, <1>4, <2>1, <2>2, <2>3 DEF ParkingTypeOK, Place, records, events, history
  <2> QED  BY <1>1, <1>4, <2>1, <2>2, <2>4, FrameKeeps DEF records, events, history
<1>5. CASE Fault("redis") /\ Fails(w) /\ UNCHANGED keys
  BY <1>4, <1>5
<1>6. CASE /\ Fault("claimUnanswered") /\ keys' = keys \cup {m}
           /\ Fails(w) \/ (Goto(w, "commit") /\ UNCHANGED << failed, job, found >>)
  BY <1>4, <1>6
<1> QED  BY <1>2, <1>3, <1>5, <1>6 DEF Claim

LEMMA InsertKeeps ==
  ASSUME ParkingIInv, NEW w \in Workers, InsertEntry(w)  PROVE ParkingIInv'
<1> DEFINE m == job[w]
<1>0. /\ ParkingTypeOK /\ w \in Procs /\ pc[w] = "insert" /\ Knows(w)
      /\ m \in EntryMsgs /\ m \in Stays /\ m \in Messages
  BY Apart DEF ParkingIInv, InsertEntry, Knows, Messages
<1>1. UNCHANGED << keys, offsets, job, found, events, history >>
  BY DEF InsertEntry
<1>a. ASSUME NewRow(m) \/ UNCHANGED records
      PROVE  /\ status' \in [Stays -> {"none", "parking", "done"}] /\ id' \in [Stays -> Nat] /\ nextId' \in Nat
             /\ \A s \in Stays : (status'[s] = "none" => status[s] = "none")
                                /\ (status[s] = "done" => status'[s] = "done")
  <2>1. CASE UNCHANGED records
    BY <1>0, <2>1 DEF records, ParkingTypeOK
  <2>2. CASE NewRow(m) /\ status[m] = "none"
    BY <1>0, <2>2 DEF NewRow, ParkingTypeOK
  <2> QED  BY <1>a, <2>1, <2>2 DEF NewRow
<1>2. CASE NewRow(m) /\ Goto(w, AfterInsert(m)) /\ UNCHANGED failures
  <2>1. AfterInsert(m) = IF status[m] = "none" THEN "announce" ELSE "commit"
    BY DEF AfterInsert
  <2>2. (\A q \in Procs \ {w} : Same(q)) /\ pc'[w] = AfterInsert(m) /\ Place'
    BY <1>0, <1>1, <1>2, <2>1, GoMoves, Apart DEF ParkingTypeOK, Stages
  <2>3. /\ status' \in [Stays -> {"none", "parking", "done"}] /\ id' \in [Stays -> Nat] /\ nextId' \in Nat
        /\ status'[m] # "none" /\ \A s \in Stays \ {m} : status'[s] = status[s]
        /\ status[m] # "none" => status' = status
    BY <1>0, <1>2 DEF NewRow, records, ParkingTypeOK
  <2>4. ParkingTypeOK'
    BY <1>0, <1>1, <1>2, <2>2, <2>3 DEF ParkingTypeOK, Place, offsets, events, history, failures
  <2>5. Knows(w)' /\ ~Holding(w)'
    BY <1>0, <1>1, <2>1, <2>2, Apart DEF Knows, Holding, Exit
  <2>6. CASE status[m] # "none"
    <3>1. Aside(w)
      BY <2>1, <2>2, <2>5, <2>6, Apart DEF Aside
    <3> QED  BY <1>1, <1>2, <2>2, <2>3, <2>4, <2>6, <3>1, FrameKeeps DEF events, history, failures
  <2>7. CASE status[m] = "none"
    <3>1. pc'[w] = "announce" /\ job'[w] = m /\ entered' = entered
      BY <1>1, <2>1, <2>2, <2>7 DEF events
    <3>2. ASSUME NEW s \in Stays  PROVE EntryOnce(s)'
      <4>1. EntryOnce(s)
        BY DEF ParkingIInv
      <4>2. \A p \in Procs \ {w} : TellsEntry(p, s)' = TellsEntry(p, s)
        BY <2>2 DEF TellsEntry, Same
      <4>3. CASE s = m
        BY <1>2, <2>3, <2>7, <3>1, <4>1, <4>2, <4>3 DEF EntryOnce, Doubtful, failures
      <4>4. CASE s # m
        <5>1. ~TellsEntry(w, s)' /\ status'[s] = status[s]
          BY <2>3, <3>1, <4>4 DEF TellsEntry
        <5> QED  BY <1>2, <3>1, <4>1, <4>2, <5>1 DEF EntryOnce, Doubtful, failures
      <4> QED  BY <4>3, <4>4
    <3>3. \A s \in Stays : ExitOnce(s)'
      <4>1. \A s \in Stays : status[s] = "done" => status'[s] = "done"
        BY <2>3, <2>7
      <4>2. \A p \in Procs : Same(p) \/ job'[p] \in EntryMsgs
        BY <1>0, <2>2, <3>1
      <4> QED  BY <1>1, <1>2, <4>1, <4>2, ExitKeeps DEF events, failures
    <3>4. Closers'
      <4>1. \A h \in HttpExits : pc'[h] = "idle" => pc[h] = "idle"
        BY <2>2, Apart DEF Same
      <4> QED  BY <1>1, <4>1, ClosersKeep DEF history
    <3>5. KeysProtect'
      <4>1. \A p \in Procs : Holding(p)' => Holding(p) /\ job'[p] = job[p]
        BY <2>2, <2>5 DEF Same, Holding, Exit
      <4> QED  BY <1>1, <1>2, <4>1, KeysKeep DEF history, failures
    <3>6. \A p \in Procs : Knows(p)'
      BY <2>2, <2>5 DEF ParkingIInv, Same, Knows, Exit
    <3> QED  BY <2>4, <3>2, <3>3, <3>4, <3>5, <3>6 DEF ParkingIInv
  <2> QED  BY <2>6, <2>7
<1>3. ASSUME NEW kind, Fault(kind), Goto(w, "release"), NewRow(m) \/ UNCHANGED records
      PROVE  ParkingIInv'
  <2>1. (\A q \in Procs \ {w} : Same(q)) /\ pc'[w] = "release" /\ Place'
    BY <1>0, <1>1, <1>3, GoMoves, Apart DEF ParkingTypeOK, Stages
  <2>2. Aside(w)
    BY <1>0, <1>1, <2>1, Apart DEF Aside, Knows, Holding, Exit
  <2>3. /\ faults' \in 0 .. MaxFaults /\ happened' \subseteq FaultKinds
        /\ happened \subseteq happened'
    BY <1>0, <1>3, Fewest
  <2>4. ParkingTypeOK'
    BY <1>0, <1>1, <1>3, <1>a, <2>1, <2>3 DEF ParkingTypeOK, Place, offsets, events, history
  <2> QED  BY <1>1, <1>3, <1>a, <2>1, <2>2, <2>3, <2>4, FrameKeeps DEF events, history
<1>4. CASE Fault("insert") /\ Goto(w, "release") /\ UNCHANGED records
  BY <1>3, <1>4
<1>5. CASE Fault("insertUnanswered") /\ NewRow(m) /\ Goto(w, "release")
  BY <1>3, <1>5
<1> QED  BY <1>2, <1>4, <1>5 DEF InsertEntry

LEMMA HttpEntryKeeps ==
  ASSUME ParkingIInv, NEW h \in HttpEntries, HttpEntry(h)  PROVE ParkingIInv'
<1>0. ParkingTypeOK /\ h \in Stays /\ EntryOnce(h)
  BY Apart DEF ParkingIInv
<1>1. /\ status[h] = "none" /\ UNCHANGED << keys, offsets, pc, job, found, left, history >>
      /\ \/ entered' \in {entered, [entered EXCEPT ![h] = @ + 1]} /\ UNCHANGED failures
         \/ Fault("publishUnanswered") /\ entered' = [entered EXCEPT ![h] = @ + Copies]
  BY DEF HttpEntry
<1>a. /\ faults' \in 0 .. MaxFaults /\ happened' \subseteq FaultKinds
      /\ happened \subseteq happened'
  BY <1>0, <1>1, Fewest DEF failures, ParkingTypeOK
<1>2. /\ status' \in [Stays -> {"none", "parking", "done"}] /\ id' \in [Stays -> Nat] /\ nextId' \in Nat
      /\ status'[h] = "parking" /\ \A s \in Stays \ {h} : status'[s] = status[s]
  BY <1>0, <1>1 DEF HttpEntry, NewRow, ParkingTypeOK
<1>3. /\ entered' \in [Stays -> Nat] /\ \A s \in Stays \ {h} : entered'[s] = entered[s]
      /\ entered'[h] = entered[h] \/ entered'[h] = entered[h] + 1 \/ Doubtful'
  <2>1. CASE entered' = entered
    BY <1>0, <2>1 DEF ParkingTypeOK
  <2>2. CASE entered' = [entered EXCEPT ![h] = @ + 1]
    BY <1>0, <2>2 DEF ParkingTypeOK
  <2>3. CASE Fault("publishUnanswered") /\ entered' = [entered EXCEPT ![h] = @ + Copies]
    BY <1>0, <2>3 DEF ParkingTypeOK, Copies, Fault, Telling, Doubtful
  <2> QED  BY <1>1, <2>1, <2>2, <2>3
<1>4. ParkingTypeOK'
  BY <1>0, <1>1, <1>a, <1>2, <1>3 DEF ParkingTypeOK, offsets, history
<1>5. \A p \in Procs : Same(p)
  BY <1>1 DEF Same
<1>6. ASSUME NEW s \in Stays  PROVE EntryOnce(s)'
  <2>1. EntryOnce(s)
    BY DEF ParkingIInv
  <2>2. \A p \in Procs : TellsEntry(p, s)' <=> TellsEntry(p, s)
    BY <1>1 DEF TellsEntry
  <2>3. CASE s = h
    <3>1. entered[h] = 0 /\ \A p \in Procs : ~TellsEntry(p, s)
      BY <1>1, <2>1, <2>3 DEF EntryOnce
    <3> QED  BY <1>2, <1>3, <2>2, <2>3, <3>1 DEF EntryOnce, Doubtful
  <2>4. CASE s # h
    BY <1>2, <1>3, <1>a, <2>1, <2>2, <2>4 DEF EntryOnce, Doubtful
  <2> QED  BY <2>3, <2>4
<1>7. \A s \in Stays : ExitOnce(s)'
  <2>1. \A s \in Stays : status[s] = "done" => status'[s] = "done"
    BY <1>1, <1>2
  <2> QED  BY <1>1, <1>a, <1>5, <2>1, ExitKeeps
<1>8. Closers' /\ KeysProtect'
  <2>1. \A p \in Procs : Holding(p)' => Holding(p) /\ job'[p] = job[p]
    BY <1>1 DEF Holding, Exit
  <2> QED  BY <1>1, <1>a, <2>1, ClosersKeep, KeysKeep DEF history
<1>9. \A p \in Procs : Knows(p)'
  BY <1>1 DEF ParkingIInv, Knows, Exit
<1> QED  BY <1>4, <1>6, <1>7, <1>8, <1>9 DEF ParkingIInv

LEMMA HttpExitKeeps ==
  ASSUME ParkingIInv, NEW h \in HttpExits, HttpExit(h)  PROVE ParkingIInv'
<1>0. ParkingTypeOK /\ h \in Procs /\ h \in Exits /\ h \notin Messages /\ h \notin Workers
  BY Apart DEF ParkingIInv
<1>1. /\ pc[h] = "idle" /\ job' = [job EXCEPT ![h] = h] /\ Goto(h, "find")
      /\ UNCHANGED << records, keys, offsets, found, events, history, failures >>
  BY DEF HttpExit
<1>2. /\ job'[h] = h /\ job' \in [Procs -> Messages \cup HttpExits \cup {NoOne}]
      /\ \A q \in Procs \ {h} : job'[q] = job[q]
  BY <1>0, <1>1 DEF ParkingTypeOK
<1>3. (\A q \in Procs \ {h} : Same(q)) /\ pc'[h] = "find" /\ Place'
  BY <1>0, <1>1, <1>2, GoMoves DEF ParkingTypeOK, Stages
<1>4. ParkingTypeOK'
  BY <1>0, <1>1, <1>3 DEF ParkingTypeOK, Place, records, offsets, events, history, failures
<1>5. Knows(h)'
  BY <1>0, <1>2, <1>3 DEF Knows, Exit
<1>6. (\A s \in Stays : EntryOnce(s)') /\ \A s \in Stays : ExitOnce(s)'
  <2>1. \A p \in Procs : Same(p) \/ pc'[p] # "announce"
    BY <1>3
  <2> QED  BY <1>1, <2>1, EntryKeeps, ExitKeeps DEF records, events, failures
<1>7. Closers'
  <2>1. \A g \in HttpExits : pc'[g] = "idle" => pc[g] = "idle"
    BY <1>3, Apart DEF Same
  <2> QED  BY <1>1, <2>1, ClosersKeep DEF history
<1>8. \A p \in Procs : Knows(p)'
  BY <1>3, <1>5 DEF ParkingIInv, Same, Knows, Exit
<1>9. ASSUME Shut
      PROVE  (\A p \in Procs : Alone(p)') /\ \A s \in Stays : ClosedOnce(s)'
  <2>1. (\A p \in Procs : Alone(p)) /\ \A s \in Stays : ClosedOnce(s)
    BY <1>9 DEF ParkingIInv, KeysProtect
  <2>2. \A s \in Stays : settledBy[s] # h
    BY <1>1 DEF ParkingIInv, Closers
  <2>3. ASSUME NEW p \in Procs, p # h, Holding(p)  PROVE job[p] # h
    <3>1. Knows(p) /\ pc[p] # "idle" /\ pc[p] # "over"
      BY <2>3 DEF ParkingIInv, Holding
    <3> QED  BY <1>0, <2>3, <3>1, Apart DEF Knows
  <2>4. \A p \in Procs \ {h} : Holding(p)' = Holding(p) /\ job'[p] = job[p]
    BY <1>3 DEF Same, Holding, Exit
  <2>5. settledBy' = settledBy /\ keys' = keys
    BY <1>1 DEF history
  <2>6. Alone(h)'
    BY <1>0, <1>2, <2>2, <2>3, <2>4, <2>5, Apart DEF Alone, Messages
  <2>7. ASSUME NEW p \in Procs \ {h}  PROVE Alone(p)'
    BY <1>2, <2>1, <2>3, <2>4, <2>5 DEF Alone
  <2>8. ASSUME NEW s \in Stays  PROVE ClosedOnce(s)'
    BY <2>1, <2>5 DEF ClosedOnce
  <2> QED  BY <2>6, <2>7, <2>8
<1> QED  BY <1>1, <1>4, <1>6, <1>7, <1>8, <1>9 DEF ParkingIInv, KeysProtect, Shut, failures

LEMMA FindKeeps ==
  ASSUME ParkingIInv, NEW p \in Procs, Find(p)  PROVE ParkingIInv'
<1>0. /\ ParkingTypeOK /\ pc[p] = "find" /\ Knows(p) /\ Exit(p) /\ Holding(p)
      /\ p \in Workers => job[p] \in Messages
  BY DEF ParkingIInv, Find, Knows, Holding
<1>1. UNCHANGED << records, keys, committed, events, settledBy, passed >>
  BY DEF Find
<1>2. ASSUME NEW s \in Newest(PlateOf[job[p]]), found' = [found EXCEPT ![p] = s],
             Goto(p, "settle"), UNCHANGED << job, moot, failed, failures >>
      PROVE  ParkingIInv'
  <2>1. s \in Stays /\ PlateOf[s] = PlateOf[job[p]]
    BY <1>2 DEF Newest, Parking
  <2>2. found'[p] = s /\ found' \in [Procs -> Stays \cup {NoOne}]
        /\ \A q \in Procs \ {p} : found'[q] = found[q]
    BY <1>0, <1>2, <2>1 DEF ParkingTypeOK
  <2>3. (\A q \in Procs \ {p} : Same(q)) /\ pc'[p] = "settle" /\ Place'
    BY <1>0, <1>2, <2>2, GoMoves DEF ParkingTypeOK, Stages
  <2>4. Aside(p)
    BY <1>0, <1>2, <2>1, <2>2, <2>3 DEF Aside, Knows, Holding, Exit
  <2>5. ParkingTypeOK'
    BY <1>0, <1>1, <1>2, <2>3 DEF ParkingTypeOK, Place, records, events, failures
  <2> QED  BY <1>1, <1>2, <2>3, <2>4, <2>5, FrameKeeps DEF records, events, failures
<1>3. CASE /\ moot' = moot \cup {job[p]} /\ Goto(p, Finish(p))
           /\ UNCHANGED << job, found, failed, failures >>
  <2>1. (\A q \in Procs \ {p} : Same(q)) /\ Aside(p) /\ Place'
    BY <1>0, <1>3, FinishMoves
  <2>2. ParkingTypeOK'
    BY <1>0, <1>1, <1>3, <2>1 DEF ParkingTypeOK, Place, Exit, records, events, failures
  <2> QED  BY <1>1, <1>3, <2>1, <2>2, FrameKeeps DEF records, events, failures
<1>4. CASE LookupFails(p)
  <2>1. (\A q \in Procs \ {p} : Same(q)) /\ Aside(p) /\ Place'
    BY <1>0, <1>4, DoneMoves DEF LookupFails, Fails
  <2>2. /\ faults' \in 0 .. MaxFaults /\ happened' \subseteq FaultKinds
        /\ happened \subseteq happened'
    BY <1>0, <1>4, Fewest DEF LookupFails
  <2>3. ParkingTypeOK'
    BY <1>0, <1>1, <1>4, <2>1, <2>2 DEF ParkingTypeOK, Place, LookupFails, Fails, records, events
  <2> QED  BY <1>1, <2>1, <2>2, <2>3, FrameKeeps DEF records, events
<1> QED  BY <1>2, <1>3, <1>4 DEF Find

\* The exit closes the record, and p goes on to tell of it, or is told that it failed.
LEMMA CloseKeeps ==
  ASSUME ParkingIInv, NEW p \in Procs, pc[p] = "settle", Close(p),
         \A q \in Procs \ {p} : Same(q), Place',
         \/ pc'[p] = "announce" /\ UNCHANGED << job, found, failures >>
         \/ Aside(p) /\ ~Shut',
         faults' \in 0 .. MaxFaults, happened' \subseteq FaultKinds, happened \subseteq happened',
         UNCHANGED << id, nextId, keys, offsets, events, passed, moot >>
  PROVE  ParkingIInv'
<1> DEFINE s == found[p]
           x == job[p]
<1>0. /\ ParkingTypeOK /\ Knows(p) /\ Exit(p) /\ Holding(p) /\ s \in Stays /\ x \in Exits
      /\ PlateOf[x] = PlateOf[s] /\ x \notin Stays /\ x # NoOne /\ x \notin EntryMsgs
      /\ status' = [status EXCEPT ![s] = "done"] /\ settledBy' = [settledBy EXCEPT ![s] = x]
      /\ status[s] = "parking"
  BY Apart DEF ParkingIInv, Knows, Holding, Exit, Close, StillParking
<1>1. (\A q \in Procs \ {p} : Same(q)) /\ Place' /\ (p \in HttpExits => pc'[p] # "idle")
  BY DEF Aside
<1>2. /\ status' \in [Stays -> {"none", "parking", "done"}] /\ settledBy' \in [Stays -> Exits \cup {NoOne}]
      /\ status'[s] = "done" /\ settledBy'[s] = x
      /\ \A u \in Stays \ {s} : status'[u] = status[u] /\ settledBy'[u] = settledBy[u]
  BY <1>0 DEF ParkingTypeOK
<1>3. ParkingTypeOK'
  BY <1>0, <1>1, <1>2 DEF ParkingTypeOK, Place, offsets, events
<1>4. \A u \in Stays : EntryOnce(u)'
  <2>1. \A u \in Stays : status'[u] = "none" => status[u] = "none"
    BY <1>2
  <2>2. \A q \in Procs : Same(q) \/ pc'[q] # "announce" \/ job'[q] \notin Stays
    BY <1>0, <1>1 DEF Aside
  <2> QED  BY <2>1, <2>2, EntryKeeps DEF events
<1>5. ASSUME NEW u \in Stays  PROVE ExitOnce(u)'
  <2>1. ExitOnce(u) /\ left' = left
    BY DEF ParkingIInv, events
  <2>2. \A q \in Procs \ {p} : TellsExit(q, u)' <=> TellsExit(q, u)
    BY <1>1 DEF TellsExit, Same
  <2>3. CASE u = s
    <3>1. left[u] = 0 /\ \A q \in Procs : ~TellsExit(q, u)
      BY <1>0, <2>1, <2>3 DEF ExitOnce
    <3> QED  BY <1>2, <2>1, <2>2, <2>3, <3>1 DEF ExitOnce, Doubtful
  <2>4. CASE u # s
    <3>1. ~TellsExit(p, u)' /\ status'[u] = status[u]
      BY <1>2, <2>4 DEF TellsExit, Aside
    <3> QED  BY <2>1, <2>2, <3>1 DEF ExitOnce, Doubtful
  <2> QED  BY <2>3, <2>4
<1>6. Closers'
  <2>1. \A u \in Stays : settledBy'[u] # NoOne => PlateOf[settledBy'[u]] = PlateOf[u]
    BY <1>0, <1>2 DEF ParkingIInv, Closers
  <2>2. ASSUME NEW h \in HttpExits, pc'[h] = "idle"  PROVE h # x /\ \A u \in Stays : settledBy[u] # h
    <3>1. h # p /\ pc[h] = "idle"
      BY <1>1, <2>2, Apart DEF Same
    <3>2. x # h
      BY <1>0, <3>1, Apart DEF Knows
    <3> QED  BY <3>1, <3>2 DEF ParkingIInv, Closers
  <2>3. \A h \in HttpExits : pc'[h] = "idle" => \A u \in Stays : settledBy'[u] # h
    BY <1>2, <2>2
  <2> QED  BY <2>1, <2>3 DEF Closers
<1>7. \A q \in Procs : Knows(q)'
  <2>1. Knows(p)'
    BY <1>0, <1>1, Apart DEF Knows, Aside
  <2> QED  BY <1>1, <2>1 DEF ParkingIInv, Same, Knows, Exit
<1>8. ASSUME Shut'
      PROVE  (\A q \in Procs : Alone(q)') /\ \A u \in Stays : ClosedOnce(u)'
  <2>1. (\A q \in Procs : Alone(q)) /\ \A u \in Stays : ClosedOnce(u)
    BY <1>8 DEF ParkingIInv, KeysProtect, Shut
  <2>2. /\ \A u \in Stays : settledBy[u] # x
        /\ \A q \in Procs : Holding(q) /\ job[q] = x => q = p
        /\ x \in ExitMsgs => x \in keys
    BY <1>0, <2>1 DEF Alone
  <2>3. ~Holding(p)' /\ \A q \in Procs \ {p} : Holding(q)' = Holding(q)
    BY <1>1, <1>8 DEF Same, Holding, Exit
  <2>4. ASSUME NEW q \in Procs, Holding(q)'  PROVE Alone(q)'
    <3>1. q # p /\ Holding(q) /\ job[q] # x /\ Alone(q)
      BY <2>1, <2>2, <2>3, <2>4
    <3>2. \A u \in Stays : settledBy'[u] # job[q]
      BY <1>2, <3>1 DEF Alone
    <3>3. keys' = keys /\ \A r \in Procs \ {p} : job'[r] = job[r]
      BY <1>1 DEF Same
    <3> QED  BY <2>3, <3>1, <3>2, <3>3 DEF Alone
  <2>5. ASSUME NEW u \in Stays  PROVE ClosedOnce(u)'
    <3>1. ClosedOnce(u) /\ keys' = keys
      BY <2>1
    <3>2. CASE u = s
      <4>1. \A v \in Stays : settledBy'[v] = x => v = s
        BY <1>2, <2>2
      <4> QED  BY <1>2, <2>2, <3>1, <3>2, <4>1 DEF ClosedOnce
    <3>3. CASE u # s
      <4>1. settledBy'[u] = settledBy[u] /\ settledBy[u] # x
        BY <1>2, <2>2, <3>3
      <4>2. \A v \in Stays : settledBy'[v] = settledBy[u] => settledBy[v] = settledBy[u]
        BY <1>2, <4>1
      <4> QED  BY <3>1, <4>1, <4>2 DEF ClosedOnce
    <3> QED  BY <3>2, <3>3
  <2>6. \A q \in Procs : ~Holding(q)' => Alone(q)'
    BY DEF Alone
  <2> QED  BY <2>4, <2>5, <2>6
<1> QED  BY <1>3, <1>4, <1>5, <1>6, <1>7, <1>8 DEF ParkingIInv, KeysProtect

LEMMA SettleKeeps ==
  ASSUME ParkingIInv, NEW p \in Procs, Settle(p)  PROVE ParkingIInv'
<1>0. /\ ParkingTypeOK /\ pc[p] = "settle" /\ Knows(p) /\ Exit(p) /\ Holding(p)
      /\ p \in Workers => job[p] \in Messages
  BY DEF ParkingIInv, Settle, Knows, Holding
<1>1. UNCHANGED << id, nextId, keys, offsets, events, passed >>
  BY DEF Settle
<1>2. CASE Close(p) /\ Goto(p, "announce") /\ UNCHANGED << job, found, moot, failures >>
  <2>1. (\A q \in Procs \ {p} : Same(q)) /\ pc'[p] = "announce" /\ Place'
    BY <1>0, <1>2, GoMoves DEF ParkingTypeOK, Stages
  <2>2. faults' \in 0 .. MaxFaults /\ happened' \subseteq FaultKinds /\ happened \subseteq happened'
    BY <1>0, <1>2 DEF failures, ParkingTypeOK
  <2> QED  BY <1>0, <1>1, <1>2, <2>1, <2>2, CloseKeeps
<1>3. CASE /\ moot' = moot \cup {job[p]} /\ Goto(p, Finish(p))
           /\ UNCHANGED << status, job, found, settledBy, failures >>
  <2>1. (\A q \in Procs \ {p} : Same(q)) /\ Aside(p) /\ Place'
    BY <1>0, <1>3, FinishMoves
  <2>2. ParkingTypeOK'
    BY <1>0, <1>1, <1>3, <2>1 DEF ParkingTypeOK, Place, Exit, offsets, events, failures
  <2> QED  BY <1>1, <1>3, <2>1, <2>2, FrameKeeps DEF events, failures
<1>4. ASSUME NEW kind, Fault(kind), UNCHANGED moot,
             IF p \in Workers THEN Goto(p, "release") /\ UNCHANGED << job, found >> ELSE Done(p),
             \/ UNCHANGED << status, settledBy >>
             \/ Close(p) /\ ~Shut'
      PROVE  ParkingIInv'
  <2>1. /\ faults' \in 0 .. MaxFaults /\ happened' \subseteq FaultKinds
        /\ happened \subseteq happened'
    BY <1>0, <1>4, Fewest
  <2>2. (\A q \in Procs \ {p} : Same(q)) /\ Aside(p) /\ Place'
    <3>1. CASE p \in Workers
      <4>1. (\A q \in Procs \ {p} : Same(q)) /\ pc'[p] = "release" /\ Place'
        BY <1>0, <1>4, <3>1, GoMoves, Apart DEF ParkingTypeOK, Stages
      <4>2. Aside(p)
        BY <1>0, <1>4, <3>1, <4>1, Apart DEF Aside, Knows, Holding, Exit
      <4> QED  BY <4>1, <4>2
    <3>2. CASE p \notin Workers
      BY <1>0, <1>4, <3>2, DoneMoves
    <3> QED  BY <3>1, <3>2
  <2>3. CASE UNCHANGED << status, settledBy >>
    <3>1. ParkingTypeOK'
      BY <1>0, <1>1, <1>4, <2>1, <2>2, <2>3 DEF ParkingTypeOK, Place, offsets, events
    <3> QED  BY <1>1, <1>4, <2>1, <2>2, <2>3, <3>1, FrameKeeps DEF events
  <2>4. CASE Close(p) /\ ~Shut'
    BY <1>0, <1>1, <1>4, <2>1, <2>2, <2>4, CloseKeeps
  <2> QED  BY <1>4, <2>3, <2>4
<1>5. CASE SettleFails(p)
  <2>1. ASSUME Fault("settleUnanswered")  PROVE ~Shut'
    BY <2>1 DEF Fault, Shut, Telling, Reopening
  <2> QED  BY <1>4, <1>5, <2>1 DEF SettleFails
<1> QED  BY <1>2, <1>3, <1>5 DEF Settle

LEMMA ReleaseKeeps ==
  ASSUME ParkingIInv, NEW w \in Workers, ReleaseKey(w)  PROVE ParkingIInv'
<1> DEFINE m == job[w]
<1>0. ParkingTypeOK /\ w \in Procs /\ pc[w] = "release" /\ m \in Messages
  BY Apart DEF ParkingIInv, ReleaseKey, Knows
<1>1. /\ UNCHANGED << records, committed, events, history >> /\ Fails(w) /\ failed' = failed \cup {m}
      /\ keys' = keys \ {m} \/ keys' = keys
  BY DEF ReleaseKey, Release, Fails
<1>2. /\ faults' \in 0 .. MaxFaults /\ happened' \subseteq FaultKinds
      /\ happened \subseteq happened'
  BY <1>0, Fewest DEF ReleaseKey, Release, failures, ParkingTypeOK
<1>3. /\ \A q \in Procs \ {w} : Same(q)
      /\ pc'[w] = "idle" /\ Aside(w) /\ Place'
  BY <1>0, <1>1, DoneMoves, Apart DEF Fails
<1>4. ParkingTypeOK'
  BY <1>0, <1>1, <1>2, <1>3 DEF ParkingTypeOK, Place, records, events, history
<1>5. CASE m \notin ExitMsgs
  BY <1>1, <1>2, <1>3, <1>4, <1>5, FrameKeeps DEF records, events, history
<1>6. CASE m \in ExitMsgs
  <2>1. Holding(w)
    BY <1>0, <1>6, Apart DEF Holding, Exit
  <2>2. (\A s \in Stays : EntryOnce(s)') /\ \A s \in Stays : ExitOnce(s)'
    <3>1. \A p \in Procs : Same(p) \/ pc'[p] # "announce"
      BY <1>3
    <3> QED  BY <1>1, <1>2, <3>1, EntryKeeps, ExitKeeps DEF records, events
  <2>3. Closers'
    <3>1. \A h \in HttpExits : pc'[h] = "idle" => pc[h] = "idle"
      BY <1>3, Apart DEF Same
    <3> QED  BY <1>1, <3>1, ClosersKeep DEF history
  <2>4. \A p \in Procs : Knows(p)'
    BY <1>3 DEF ParkingIInv, Same, Aside, Knows, Exit
  <2>5. ASSUME Shut'
        PROVE  (\A p \in Procs : Alone(p)') /\ \A s \in Stays : ClosedOnce(s)'
    <3>1. (\A p \in Procs : Alone(p)) /\ \A s \in Stays : ClosedOnce(s)
      BY <1>2, <2>5 DEF ParkingIInv, KeysProtect, Shut
    <3>2. /\ \A s \in Stays : settledBy[s] # m
          /\ \A p \in Procs \ {w} : Holding(p) => job[p] # m
      BY <1>0, <2>1, <3>1 DEF Alone
    <3>3. ~Holding(w)' /\ \A p \in Procs \ {w} : Holding(p)' = Holding(p) /\ job'[p] = job[p]
      BY <1>3 DEF Same, Holding, Exit
    <3>4. settledBy' = settledBy /\ \A y \in keys : y # m => y \in keys'
      BY <1>1 DEF history
    <3>5. ASSUME NEW p \in Procs  PROVE Alone(p)'
      BY <3>1, <3>2, <3>3, <3>4 DEF Alone
    <3>6. ASSUME NEW s \in Stays  PROVE ClosedOnce(s)'
      BY <3>1, <3>2, <3>4 DEF ClosedOnce
    <3> QED  BY <3>5, <3>6
  <2> QED  BY <1>4, <2>2, <2>3, <2>4, <2>5 DEF ParkingIInv, KeysProtect
<1> QED  BY <1>5, <1>6

LEMMA AnnounceKeeps ==
  ASSUME ParkingIInv, NEW p \in Procs, Announce(p)  PROVE ParkingIInv'
<1> DEFINE m == job[p]
<1>0. ParkingTypeOK /\ pc[p] = "announce" /\ Knows(p)
  BY DEF ParkingIInv, Announce
<1>1. UNCHANGED << records, keys, offsets, job, found, history >> /\ Goto(p, Finish(p))
  BY DEF Announce
<1>2. (\A q \in Procs \ {p} : Same(q)) /\ Aside(p) /\ Place'
  BY <1>0, <1>1, FinishMoves
<1>3. /\ faults' \in 0 .. MaxFaults /\ happened' \subseteq FaultKinds
      /\ happened \subseteq happened'
  BY <1>0, Fewest DEF Announce, failures, ParkingTypeOK
<1>4. CASE UNCHANGED events
  <2>1. ParkingTypeOK'
    BY <1>0, <1>1, <1>2, <1>3, <1>4 DEF ParkingTypeOK, Place, records, offsets, events, history
  <2> QED  BY <1>1, <1>2, <1>3, <1>4, <2>1, FrameKeeps DEF records, events, history
<1>5. Closers' /\ KeysProtect' /\ \A q \in Procs : Knows(q)'
  <2>1. \A h \in HttpExits : pc'[h] = "idle" => pc[h] = "idle"
    BY <1>2, Apart DEF Same, Aside
  <2>2. \A q \in Procs : Holding(q)' => Holding(q) /\ job'[q] = job[q]
    BY <1>2 DEF Same, Aside, Holding, Exit
  <2>3. \A q \in Procs : Knows(q)'
    BY <1>2 DEF ParkingIInv, Same, Aside, Knows, Exit
  <2>4. settledBy' = settledBy /\ keys' = keys
    BY <1>1 DEF history
  <2> QED  BY <1>3, <2>1, <2>2, <2>3, <2>4, ClosersKeep, KeysKeep
<1>6. status' = status /\ \A q \in Procs : Same(q) \/ pc'[q] # "announce"
  BY <1>1, <1>2 DEF Aside, records
<1>7. ASSUME NEW n \in Nat, Tell(p, n), n = 1 \/ Doubtful'
      PROVE  ParkingIInv'
  <2>1. CASE m \in EntryMsgs /\ entered' = [entered EXCEPT ![m] = @ + n] /\ UNCHANGED left
    <3>1. m \in Stays /\ TellsEntry(p, m)
      BY <1>0, <2>1, Apart DEF TellsEntry
    <3>2. /\ entered' \in [Stays -> Nat] /\ entered'[m] = entered[m] + n
          /\ \A s \in Stays \ {m} : entered'[s] = entered[s]
      BY <1>0, <1>7, <2>1, <3>1 DEF ParkingTypeOK
    <3>3. ParkingTypeOK'
      BY <1>0, <1>1, <1>2, <1>3, <2>1, <3>2 DEF ParkingTypeOK, Place, records, offsets, history
    <3>4. \A s \in Stays : ExitOnce(s)'
      BY <1>3, <1>6, <2>1, ExitKeeps
    <3>5. ASSUME NEW s \in Stays  PROVE EntryOnce(s)'
      <4>1. EntryOnce(s) /\ \A q \in Procs : TellsEntry(q, s)' => TellsEntry(q, s) /\ q # p
        BY <1>2 DEF ParkingIInv, Aside, TellsEntry, Same
      <4>2. CASE s = m
        <5>1. entered[s] = 0 /\ status[s] # "none" /\ \A q \in Procs : ~TellsEntry(q, s)'
          BY <3>1, <4>1, <4>2 DEF EntryOnce
        <5>2. entered'[s] <= 1 \/ Doubtful'
          BY <1>7, <3>2, <4>2, <5>1
        <5> QED  BY <1>6, <5>1, <5>2 DEF EntryOnce
      <4>3. CASE s # m
        <5>1. entered'[s] = entered[s]
          BY <3>2, <4>3
        <5> QED  BY <1>3, <1>6, <4>1, <5>1 DEF EntryOnce, Doubtful
      <4> QED  BY <4>2, <4>3
    <3> QED  BY <1>5, <3>3, <3>4, <3>5 DEF ParkingIInv
  <2>2. CASE m \notin EntryMsgs /\ left' = [left EXCEPT ![found[p]] = @ + n] /\ UNCHANGED entered
    <3>1. /\ left' \in [Stays -> Nat]
          /\ \A s \in Stays : left'[s] = IF s = found[p] THEN left[s] + n ELSE left[s]
      <4>1. CASE found[p] \in Stays
        BY <1>0, <1>7, <2>2, <4>1 DEF ParkingTypeOK
      <4>2. CASE found[p] \notin Stays
        BY <1>0, <2>2, <4>2 DEF ParkingTypeOK
      <4> QED  BY <4>1, <4>2
    <3>2. ParkingTypeOK'
      BY <1>0, <1>1, <1>2, <1>3, <2>2, <3>1 DEF ParkingTypeOK, Place, records, offsets, history
    <3>3. \A s \in Stays : EntryOnce(s)'
      BY <1>3, <1>6, <2>2, EntryKeeps
    <3>4. ASSUME NEW s \in Stays  PROVE ExitOnce(s)'
      <4>1. ExitOnce(s) /\ \A q \in Procs : TellsExit(q, s)' => TellsExit(q, s) /\ q # p
        BY <1>2 DEF ParkingIInv, Aside, TellsExit, Same
      <4>2. CASE s = found[p]
        <5>1. TellsExit(p, s)
          BY <1>0, <2>2, <4>2 DEF TellsExit
        <5>2. left[s] = 0 /\ status[s] = "done" /\ \A q \in Procs : ~TellsExit(q, s)'
          BY <4>1, <5>1 DEF ExitOnce
        <5>3. left'[s] <= 1 \/ Doubtful'
          BY <1>7, <3>1, <4>2, <5>2
        <5> QED  BY <1>6, <5>2, <5>3 DEF ExitOnce
      <4>3. CASE s # found[p]
        <5>1. left'[s] = left[s]
          BY <3>1, <4>3
        <5> QED  BY <1>3, <1>6, <4>1, <5>1 DEF ExitOnce, Doubtful
      <4> QED  BY <4>2, <4>3
    <3> QED  BY <1>5, <3>2, <3>3, <3>4 DEF ParkingIInv
  <2> QED  BY <1>7, <2>1, <2>2 DEF Tell
<1>8. ASSUME Fault("publishUnanswered"), Tell(p, Copies)  PROVE ParkingIInv'
  <2>1. Doubtful' /\ Copies \in Nat
    BY <1>8 DEF Fault, Doubtful, Telling, Copies
  <2> QED  BY <1>7, <1>8, <2>1
<1> QED  BY <1>4, <1>7, <1>8 DEF Announce

LEMMA CommitKeeps ==
  ASSUME ParkingIInv, NEW w \in Workers, CommitOffset(w) \/ WorkerDies(w)  PROVE ParkingIInv'
<1>0. ParkingTypeOK /\ w \in Procs /\ pc[w] # "idle" /\ job[w] \in Messages /\ Done(w)
  BY Apart DEF ParkingIInv, CommitOffset, WorkerDies, Knows
<1>1. /\ UNCHANGED << records, keys, failed, events, history >>
      /\ committed' = committed \cup {job[w]} \/ committed' = committed
  BY DEF CommitOffset, WorkerDies, offsets
<1>2. /\ faults' \in 0 .. MaxFaults /\ happened' \subseteq FaultKinds
      /\ happened \subseteq happened'
  BY <1>0, Fewest DEF CommitOffset, WorkerDies, failures, ParkingTypeOK
<1>3. (\A q \in Procs \ {w} : Same(q)) /\ Aside(w) /\ Place'
  BY <1>0, DoneMoves
<1>4. ParkingTypeOK'
  BY <1>0, <1>1, <1>2, <1>3 DEF ParkingTypeOK, Place, records, events, history
<1> QED  BY <1>1, <1>2, <1>3, <1>4, FrameKeeps DEF records, events, history

LEMMA ElsewhereKeeps ==
  ASSUME ParkingIInv, NEW m \in Messages, PassOver(m) \/ KeyExpires(m)  PROVE ParkingIInv'
<1>0. ParkingTypeOK
  BY DEF ParkingIInv
<1>1. /\ UNCHANGED << records, failed, pc, job, found, events, settledBy, moot >>
      /\ \A p \in Procs : Same(p)
  BY DEF PassOver, KeyExpires, offsets, history, Same
<1>2. CASE PassOver(m)
  <2>1. ParkingTypeOK'
    BY <1>0, <1>2 DEF PassOver, ParkingTypeOK, records, events, failures
  <2> QED  BY <1>1, <1>2, <2>1, FrameKeeps DEF PassOver, records, events, failures
<1>3. CASE KeyExpires(m)
  <2>1. /\ faults' \in 0 .. MaxFaults /\ happened' \subseteq FaultKinds
        /\ happened \subseteq happened' /\ ~Shut'
    BY <1>0, <1>3, Fewest DEF KeyExpires, Fault, Shut, Telling, Reopening
  <2>2. ParkingTypeOK'
    BY <1>0, <1>3, <2>1 DEF KeyExpires, ParkingTypeOK, records, offsets, events, history
  <2> QED  BY <1>1, <2>1, <2>2, FrameKeeps DEF records, events
<1> QED  BY <1>2, <1>3

LEMMA ParkingKeeps == ASSUME ParkingIInv, [ParkingNext]_parkingVars PROVE ParkingIInv'
<1>1. CASE UNCHANGED parkingVars
  <2>1. ParkingTypeOK' /\ \A p \in Procs : Same(p)
    BY <1>1 DEF ParkingIInv, parkingVars, ParkingTypeOK, Same
  <2> QED  BY <1>1, <2>1, FrameKeeps DEF parkingVars
<1>2. ASSUME NEW w \in Workers, HandlerStep(w)  PROVE ParkingIInv'
  BY <1>2, ClaimKeeps, InsertKeeps, FindKeeps, SettleKeeps, AnnounceKeeps, ReleaseKeeps, CommitKeeps, Apart
     DEF HandlerStep, ExitStep
<1>3. ASSUME NEW h \in HttpExits, HttpExit(h) \/ ExitStep(h)  PROVE ParkingIInv'
  BY <1>3, HttpExitKeeps, FindKeeps, SettleKeeps, AnnounceKeeps, Apart DEF ExitStep
<1> QED  BY <1>1, <1>2, <1>3, CommitKeeps, ElsewhereKeeps, FetchKeeps, HttpEntryKeeps DEF ParkingNext

\* Subscribers see a stay begin and end only when its record says so, and once at most
\* unless a publication was unanswered; an exit closes stays of its own plate, and one
\* of them unless a key expired or an UPDATE was unanswered, for any messages,
\* requests, workers, plates and faults.
THEOREM EventsCorrect == ParkingSpec => []EventsMatchRecords
<1>1. ParkingInit => ParkingIInv
  BY ParkingStarts
<1>2. ParkingIInv /\ [ParkingNext]_parkingVars => ParkingIInv'
  BY ParkingKeeps
<1>3. ASSUME ParkingIInv  PROVE EventsMatchRecords
  <2>1. ASSUME NEW s \in Stays
        PROVE  /\ entered[s] > 0 => status[s] # "none"
               /\ left[s] > 0 => status[s] = "done"
               /\ "publishUnanswered" \notin happened => entered[s] <= 1 /\ left[s] <= 1
    <3>1. EntryOnce(s) /\ ExitOnce(s)
      BY <1>3 DEF ParkingIInv
    <3> QED  BY <3>1 DEF EntryOnce, ExitOnce, Doubtful
  <2>2. ASSUME NEW s \in Stays, settledBy[s] # NoOne
        PROVE  /\ PlateOf[settledBy[s]] = PlateOf[s]
               /\ happened \cap Reopening = {} => \A u \in Stays : settledBy[u] = settledBy[s] => u = s
    BY <1>3, <2>2 DEF ParkingIInv, Closers, KeysProtect, ClosedOnce, Shut
  <2> QED  BY <2>1, <2>2 DEF EventsMatchRecords
<1> QED  BY <1>1, <1>2, <1>3, PTL DEF ParkingSpec

------------------------------------------------------------------------------
(* The run.  A behaviour of MCTelemetry is one of the meters' consumer and  *)
(* one of the car park, so what is proved of either holds of the run.      *)

LEMMA TelemetryStep ==
  [TelemetryNext]_allVars => [Next]_energyVars /\ [ParkingNext]_parkingVars
BY DEF TelemetryNext, allVars

LEMMA TelemetryImplements == TelemetrySpec => EnergySpec /\ ParkingSpec
<1>1. TelemetryInit => Init /\ ParkingInit
  BY DEF TelemetryInit
<1> QED  BY <1>1, TelemetryStep, PTL DEF TelemetrySpec, EnergySpec, ParkingSpec

LEMMA ParkingTypes == ParkingSpec => []ParkingTypeOK
<1>1. ParkingIInv => ParkingTypeOK
  BY DEF ParkingIInv
<1> QED  BY <1>1, ParkingStarts, ParkingKeeps, PTL DEF ParkingSpec

\* Offsets, batches and rows of readings, and the records, keys and processes of the
\* car park keep their types, for any partition, batch, plates, workers and faults.
THEOREM TelemetryTyped == TelemetrySpec => []TelemetryTypes
<1>1. TypeOK /\ ParkingTypeOK => TelemetryTypes
  BY DEF TelemetryTypes
<1>2. EnergySpec => []TypeOK
  BY TelemetryFits, TypeCorrect
<1> QED  BY <1>1, <1>2, TelemetryImplements, ParkingTypes, PTL
=================================================================================
