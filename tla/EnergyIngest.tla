------------------------------ MODULE EnergyIngest ------------------------------
(***************************************************************************)
(* energy-data-service: the consumer of meter telemetry.  Readings are     *)
(* collected in memory, written BatchSize at a time or when the ticker     *)
(* fires, and their offsets committed after the write; a message that is   *)
(* no reading is committed at once.  One partition, one reader of the      *)
(* group; the rows themselves, which duplicates do not change, are a set.  *)
(***************************************************************************)
EXTENDS Integers, Sequences

CONSTANTS
    Dirty,           \* offsets whose message is malformed or fails cleaning
    FirstOffsets,    \* what the group may have committed before, 0 for nothing
    BatchSize,       \* batchSize
    MaxMessages,     \* bound on the messages of the partition
    MaxMeterFaults   \* bound on failed calls, crashes and rebalances

EnergyParameters ==
    /\ Dirty \subseteq 1..MaxMessages
    /\ FirstOffsets \subseteq {0, 1}
    /\ BatchSize \in Nat \ {0} /\ MaxMessages \in Nat /\ MaxMeterFaults \in Nat

VARIABLES
    end,          \* the partition holds the messages 1..end
    group,        \* the next offset of the group, 0 when it never committed
    position,     \* the next offset the reader fetches
    pending,      \* batch and msgs: the offsets fetched and not yet written
    bad,          \* the message about to be discarded
    loop,         \* where the consumption loop is, "down" when there is none
    leaving,      \* its context is cancelled
    rows,         \* the readings in the table
    refused,      \* ghost: readings whose write failed
    discarded,    \* ghost: discarded messages that were committed
    overlooked,   \* ghost: messages before the end at which a new group began
    meterFaults

energyVars == <<end, group, position, pending, bad, loop, leaving, rows, refused,
                discarded, overlooked, meterFaults>>

\* The offsets of batch and msgs.
Collected == {pending[i] : i \in DOMAIN pending}

TypeOK ==
    /\ end \in 0..MaxMessages
    /\ group \in 0..(MaxMessages + 1) /\ position \in 1..(MaxMessages + 1)
    /\ pending \in Seq(1..MaxMessages)
    /\ bad \in 0..MaxMessages
    /\ loop \in {"fetch", "insert", "commit", "discard", "down"}
    /\ leaving \in BOOLEAN
    /\ rows \subseteq 1..end /\ refused \subseteq 1..end
    /\ discarded \subseteq Dirty /\ overlooked \subseteq 1..end
    /\ meterFaults \in 0..MaxMeterFaults

Init ==
    /\ end = 0
    /\ group \in FirstOffsets
    /\ position = 1
    /\ pending = <<>>
    /\ bad = 0
    /\ loop = "fetch"
    /\ leaving = FALSE
    /\ rows = {} /\ refused = {} /\ discarded = {} /\ overlooked = {}
    /\ meterFaults = 0

Faults == meterFaults < MaxMeterFaults /\ meterFaults' = meterFaults + 1

\* External: the producer.
Produce ==
    /\ end < MaxMessages
    /\ end' = end + 1
    /\ UNCHANGED <<group, position, pending, bad, loop, leaving, rows, refused, discarded,
                   overlooked, meterFaults>>

------------------------------------------------------------------------------
(* The loop.                                                               *)

\* FetchMessage, cleaning, and the flush of a full batch.
Fetch ==
    /\ loop = "fetch" /\ ~leaving /\ position <= end
    /\ position' = position + 1
    /\ IF position \in Dirty
       THEN bad' = position /\ loop' = "discard" /\ UNCHANGED pending
       ELSE /\ pending' = Append(pending, position)
            /\ loop' = IF Len(pending') >= BatchSize THEN "insert" ELSE "fetch"
            /\ UNCHANGED bad
    /\ UNCHANGED <<end, group, leaving, rows, refused, discarded, overlooked, meterFaults>>

\* The ticker, which fires whether or not a message comes.
Tick ==
    /\ loop = "fetch" /\ ~leaving /\ pending # <<>>
    /\ loop' = "insert"
    /\ UNCHANGED <<end, group, position, pending, bad, leaving, rows, refused, discarded,
                   overlooked, meterFaults>>

\* The loop sees that its context is cancelled: a last flush.
Leave ==
    /\ loop = "fetch" /\ leaving
    /\ loop' = IF pending = <<>> THEN "down" ELSE "insert"
    /\ UNCHANGED <<end, group, position, pending, bad, leaving, rows, refused, discarded,
                   overlooked, meterFaults>>

\* BatchInsert.
Insert ==
    /\ loop = "insert" /\ ~leaving
    /\ rows' = rows \cup Collected
    /\ loop' = "commit"
    /\ UNCHANGED <<end, group, position, pending, bad, leaving, refused, discarded,
                   overlooked, meterFaults>>

\* Mutant: the error is logged, and the commit follows all the same.
InsertGoesOn ==
    /\ loop = "insert" /\ Faults
    /\ loop' = "commit"
    /\ refused' = refused \cup Collected
    /\ UNCHANGED <<end, group, position, pending, bad, leaving, rows, discarded, overlooked>>

\* The insert fails, as it does when the context is cancelled: the batch stays
\* for the next flush, which never comes once the loop returns.
InsertFails ==
    /\ loop = "insert"
    /\ IF leaving THEN loop' = "down" /\ UNCHANGED meterFaults
                  ELSE loop' = "fetch" /\ Faults
    /\ pending' = IF leaving THEN <<>> ELSE pending
    /\ refused' = refused \cup Collected
    /\ UNCHANGED <<end, group, position, bad, leaving, rows, discarded, overlooked>>

\* The insert fails after the database carried it out.
InsertUnanswered ==
    /\ loop = "insert" /\ ~leaving /\ Faults
    /\ rows' = rows \cup Collected
    /\ refused' = refused \cup Collected
    /\ loop' = "fetch"
    /\ UNCHANGED <<end, group, position, pending, bad, leaving, discarded, overlooked>>

\* CommitMessages of the batch, which is forgotten whether or not it succeeds.
Commit ==
    /\ loop = "commit"
    /\ \/ /\ ~leaving /\ UNCHANGED meterFaults
          /\ \E o \in Collected : (\A p \in Collected : p <= o) /\ group' = o + 1
       \/ leaving /\ UNCHANGED <<group, meterFaults>>
       \/ ~leaving /\ Faults /\ UNCHANGED group
    /\ pending' = <<>>
    /\ loop' = "fetch"
    /\ UNCHANGED <<end, position, bad, leaving, rows, refused, discarded, overlooked>>

\* CommitMessages of a message that is thrown away.
Discard ==
    /\ loop = "discard"
    /\ \/ /\ ~leaving /\ group' = bad + 1 /\ discarded' = discarded \cup {bad}
          /\ UNCHANGED meterFaults
       \/ leaving /\ UNCHANGED <<group, discarded, meterFaults>>
       \/ ~leaving /\ Faults /\ UNCHANGED <<group, discarded>>
    /\ bad' = 0
    /\ loop' = "fetch"
    /\ UNCHANGED <<end, position, pending, leaving, rows, refused, overlooked>>

------------------------------------------------------------------------------
(* The process and the group.                                              *)

\* Stop.
Stop ==
    /\ loop # "down" /\ ~leaving
    /\ leaving' = TRUE
    /\ UNCHANGED <<end, group, position, pending, bad, loop, rows, refused, discarded,
                   overlooked, meterFaults>>

Crash ==
    /\ loop # "down" /\ Faults
    /\ loop' = "down" /\ pending' = <<>> /\ bad' = 0
    /\ UNCHANGED <<end, group, position, leaving, rows, refused, discarded, overlooked>>

\* StartOffset: a group that never committed begins at the end.
Assign ==
    /\ position' = IF group = 0 THEN end + 1 ELSE group
    /\ overlooked' = IF group = 0 THEN 1..end ELSE overlooked

\* NewConsumer and Start.
Restart ==
    /\ loop = "down"
    /\ Assign
    /\ loop' = "fetch" /\ leaving' = FALSE
    /\ UNCHANGED <<end, group, pending, bad, rows, refused, discarded, meterFaults>>

\* External: the reader joins its group anew while the loop goes on.
Rebalance ==
    /\ loop # "down" /\ ~leaving /\ Faults
    /\ Assign
    /\ UNCHANGED <<end, group, pending, bad, loop, leaving, rows, refused, discarded>>

Loop == Fetch \/ Tick \/ Leave \/ Insert \/ InsertFails \/ InsertUnanswered \/ Commit \/ Discard

Next == Produce \/ Loop \/ Stop \/ Crash \/ Restart \/ Rebalance

EnergySpec == Init /\ [][Next]_energyVars

------------------------------------------------------------------------------
(* Properties.                                                             *)

\* The offset from which the group will read.
NextRead == IF loop = "down" THEN group ELSE position

Safe(o) == o \in rows \cup Collected \/ o >= NextRead

\* "a write that failed does not commit the offset, so that it can be consumed
\* again" (consumer.go:118): what could not be written is in memory, in the table
\* by now, or still to be read.
RefusedComesAgain == \A o \in refused : Safe(o)

\* A reading is lost in two ways only: a message thrown away after it took the
\* group's offset past the unwritten batch, or the group had never committed when
\* its reader began anew, at the end.  A batch is not committed before it is written.
LossExplained ==
    \A o \in 1..end \ Dirty : Safe(o) \/ o \in overlooked \/ \E d \in discarded : d > o
==================================================================================
