---------------------------------- MODULE IdGen ----------------------------------
(***************************************************************************)
(* common/idgen: snowflake identifiers, (ts - epoch) << 22 | worker << 12  *)
(* | seq.  Each node runs one Generator; all read the clock of their host, *)
(* which is one clock here and may be set back.                            *)
(***************************************************************************)
EXTENDS Integers, Sequences

CONSTANTS
    Nodes,         \* nodes, by their workerID: a set of numbers
    MaxWorkerId,   \* 1023
    SequenceMask,  \* 4095: identifiers a millisecond has, less one
    Start,         \* the clock when the nodes start, later than the epoch
    MaxClock,      \* (bound) latest time
    MaxSetBack,    \* (bound) how often the clock is set back or a node restarts
    MaxIds         \* (bound) identifiers a node issues

ASSUME IdAssumption ==
    /\ MaxWorkerId \in Nat /\ Nodes \subseteq 0..MaxWorkerId
    /\ SequenceMask \in Nat /\ Start \in Nat \ {0}
    /\ MaxClock \in Nat /\ Start <= MaxClock
    /\ MaxSetBack \in Nat /\ MaxIds \in Nat

VARIABLES
    clock,         \* milliseconds since epochMillis
    lastTS, seq,   \* fields of the Generator, per node
    spins,         \* spins[n]: n is in the loop that waits for the next millisecond
    issued,        \* issued[n]: identifiers n has returned, in order
    mishaps,       \* restarts and changes of the clock so far
    restarted,     \* history: nodes that were restarted
    setBack        \* history: the clock has been set back

idVars == <<clock, lastTS, seq, spins, issued, mishaps, restarted, setBack>>

IdInit ==
    /\ clock = Start
    /\ lastTS = [n \in Nodes |-> 0]
    /\ seq = [n \in Nodes |-> 0]
    /\ spins = [n \in Nodes |-> FALSE]
    /\ issued = [n \in Nodes |-> <<>>]
    /\ mishaps = 0
    /\ restarted = {}
    /\ setBack = FALSE

\* The three fields do not overlap: the shifts and ors are this sum.
Id(ts, n, s) == (ts * (MaxWorkerId + 1) + n) * (SequenceMask + 1) + s

Return(n, ts, s) ==
    /\ lastTS' = [lastTS EXCEPT ![n] = ts]
    /\ seq' = [seq EXCEPT ![n] = s]
    /\ issued' = [issued EXCEPT ![n] = Append(@, Id(ts, n, s))]
    /\ UNCHANGED <<clock, mishaps, restarted, setBack>>

Wanted(n) == ~spins[n] /\ Len(issued[n]) < MaxIds

\* (g.seq + 1) & sequenceMask
NextSeq(n) == (seq[n] + 1) % (SequenceMask + 1)

\* The sequence of this millisecond is used up.
Exhausted(n) == NextSeq(n) = 0

\* Mutant: the time is compared for equality only.
NotBack(n) == TRUE

\* NextID refuses when the clock is behind the last identifier ("clock moved
\* backwards"); the refusal changes nothing.
NotBehind(n) == clock >= lastTS[n]

NextIDSameMilli(n) ==
    /\ Wanted(n)
    /\ NotBehind(n)
    /\ clock = lastTS[n]
    /\ ~Exhausted(n)
    /\ spins' = spins
    /\ Return(n, clock, NextSeq(n))

NextIDNewMilli(n) ==
    /\ Wanted(n)
    /\ NotBehind(n)
    /\ clock # lastTS[n]
    /\ spins' = spins
    /\ Return(n, clock, 0)

\* seq has become 0 and the loop starts, with the mutex held.
NextIDWaits(n) ==
    /\ Wanted(n)
    /\ NotBehind(n)
    /\ clock = lastTS[n]
    /\ Exhausted(n)
    /\ seq' = [seq EXCEPT ![n] = NextSeq(n)]
    /\ spins' = [spins EXCEPT ![n] = TRUE]
    /\ UNCHANGED <<clock, lastTS, issued, mishaps, restarted, setBack>>

NextIDResumes(n) ==
    /\ spins[n]
    /\ clock > lastTS[n]
    /\ spins' = [spins EXCEPT ![n] = FALSE]
    /\ Return(n, clock, 0)

ClockTicks ==
    /\ clock < MaxClock
    /\ clock' = clock + 1
    /\ UNCHANGED <<lastTS, seq, spins, issued, mishaps, restarted, setBack>>

ClockSetBack ==
    /\ mishaps < MaxSetBack
    /\ clock' \in Start..clock - 1
    /\ mishaps' = mishaps + 1
    /\ setBack' = TRUE
    /\ UNCHANGED <<lastTS, seq, spins, issued, restarted>>

\* A node restarts, which takes a millisecond, with a new Generator.
NodeRestarts(n) ==
    /\ mishaps < MaxSetBack
    /\ clock < MaxClock
    /\ mishaps' = mishaps + 1
    /\ clock' = clock + 1
    /\ lastTS' = [lastTS EXCEPT ![n] = 0]
    /\ seq' = [seq EXCEPT ![n] = 0]
    /\ spins' = [spins EXCEPT ![n] = FALSE]
    /\ restarted' = restarted \cup {n}
    /\ UNCHANGED <<issued, setBack>>

IdNext ==
    \/ \E n \in Nodes : NextIDSameMilli(n) \/ NextIDNewMilli(n) \/ NextIDWaits(n)
                        \/ NextIDResumes(n) \/ NodeRestarts(n)
    \/ ClockTicks \/ ClockSetBack

IdSpec == IdInit /\ [][IdNext]_idVars

---------------------------------------------------------------------------
IdTypeOK ==
    /\ clock \in Start..MaxClock
    /\ lastTS \in [Nodes -> 0..MaxClock]
    /\ seq \in [Nodes -> 0..SequenceMask]
    /\ spins \in [Nodes -> BOOLEAN]
    /\ issued \in [Nodes -> Seq(Nat)]
    /\ mishaps \in 0..MaxSetBack
    /\ restarted \subseteq Nodes
    /\ setBack \in BOOLEAN

IdsOf(n) == {issued[n][i] : i \in DOMAIN issued[n]}

\* Two nodes never return the same identifier, and those of one node grow,
\* whatever the clock does; only a node that was restarted, with the clock set
\* back before or after, may repeat its own (lastTS, idgen.go:52, lives in the process).
UniqueIds ==
    /\ \A m, n \in Nodes : m # n => IdsOf(m) \cap IdsOf(n) = {}
    /\ \A n \in Nodes : \/ setBack /\ n \in restarted
                        \/ \A i, j \in DOMAIN issued[n] : i < j => issued[n][i] < issued[n][j]
==================================================================================
