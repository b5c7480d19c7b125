--------------------------------- MODULE Overview ---------------------------------
(***************************************************************************)
(* dashboard-service: the aggregated overview, its 30 s cache in Redis,    *)
(* the singleflight group in front of the aggregation (overviewlogic.go),  *)
(* and the loop that pushes a snapshot every 5 s after it has invalidated  *)
(* the cache if an event came in since the last one (wsserver).            *)
(*                                                                         *)
(* What the sources hold is a version that grows with every change; an     *)
(* aggregate is the version it was read at, or Degraded.                   *)
(***************************************************************************)
EXTENDS Naturals

CONSTANTS
    Users,           \* HTTP requests for the overview
    Pusher,          \* the snapshot loop
    MaxVersion,      \* (bound) changes of the sources
    MaxAsks,         \* (bound) HTTP requests in all
    MaxViewFaults    \* (bound) failures of Redis, of a source, of a caller

VARIABLES
    version,         \* what the sources hold
    marked,          \* history: version at the last event that was consumed
    dirty,           \* Dirty.flag
    cached,          \* the cache of the tenant: at most one aggregate
    at,              \* at[r]: where request r, or the loop, is
    flight,          \* overviewSF: "none", "reading", "writing", "answering"
    leader,          \* who runs the aggregation
    fetched,         \* the aggregate it has read
    shown,           \* history: the aggregate last pushed
    asks, viewFaults

viewVars == <<version, marked, dirty, cached, at, flight, leader, fetched, shown, asks,
              viewFaults>>

Requests == Users \cup {Pusher}
Degraded == 0

Init ==
    /\ version = 1
    /\ marked = 1
    /\ dirty = FALSE
    /\ cached = {}
    /\ at = [r \in Requests |-> "idle"]
    /\ flight = "none"
    /\ leader = Pusher
    /\ fetched = Degraded
    /\ shown = Degraded
    /\ asks = 0
    /\ viewFaults = 0

Fault == viewFaults < MaxViewFaults /\ viewFaults' = viewFaults + 1
NoFault == viewFaults' = viewFaults

---------------------------------------------------------------------------
(* Events *)

\* An alarm or a work order changes in its own service.
Change ==
    /\ version < MaxVersion
    /\ version' = version + 1
    /\ UNCHANGED <<marked, dirty, cached, at, flight, leader, fetched, shown, asks,
                   viewFaults>>

\* EventRunner.handle: the change is known to be out, and the flag is set.
Mark ==
    /\ marked < version
    /\ marked' = version
    /\ dirty' = TRUE
    /\ UNCHANGED <<version, cached, at, flight, leader, fetched, shown, asks,
                   viewFaults>>

---------------------------------------------------------------------------
(* The snapshot loop *)

\* Dirty.Take
Take ==
    /\ at[Pusher] = "idle"
    /\ at' = [at EXCEPT ![Pusher] = IF dirty THEN "invalidate" ELSE "lookup"]
    /\ dirty' = FALSE
    /\ UNCHANGED <<version, marked, cached, flight, leader, fetched, shown, asks,
                   viewFaults>>

\* InvalidateOverviewCache; if it fails the loop goes on, and the flag is gone.
Invalidate ==
    /\ at[Pusher] = "invalidate"
    /\ at' = [at EXCEPT ![Pusher] = "lookup"]
    /\ \/ cached' = {} /\ NoFault
       \/ cached' = cached /\ Fault
    /\ UNCHANGED <<version, marked, dirty, flight, leader, fetched, shown, asks>>

---------------------------------------------------------------------------
(* Overview *)

Ask(u) ==
    /\ asks < MaxAsks
    /\ at[u] = "idle"
    /\ at' = [at EXCEPT ![u] = "lookup"]
    /\ asks' = asks + 1
    /\ UNCHANGED <<version, marked, dirty, cached, flight, leader, fetched, shown,
                   viewFaults>>

\* The answers of the requests R; the loop's is pushed.
Answer(R, a) ==
    /\ at' = [r \in Requests |-> IF r \in R THEN "idle" ELSE at[r]]
    /\ shown' = IF Pusher \in R THEN a ELSE shown

Hit(r) ==
    /\ at[r] = "lookup"
    /\ \E a \in cached : Answer({r}, a)
    /\ UNCHANGED <<version, marked, dirty, cached, flight, leader, fetched, asks,
                   viewFaults>>

\* Nothing under the key, or Redis does not answer.
Miss(r) ==
    /\ at[r] = "lookup"
    /\ \/ cached = {} /\ NoFault
       \/ cached # {} /\ Fault
    /\ at' = [at EXCEPT ![r] = "missed"]
    /\ UNCHANGED <<version, marked, dirty, cached, flight, leader, fetched, shown,
                   asks>>

\* overviewSF.Do: the first one aggregates, the others wait for its result.
Do(r) ==
    /\ at[r] = "missed"
    /\ at' = [at EXCEPT ![r] = "waiting"]
    /\ flight' = IF flight = "none" THEN "reading" ELSE flight
    /\ leader' = IF flight = "none" THEN r ELSE leader
    /\ UNCHANGED <<version, marked, dirty, cached, fetched, shown, asks, viewFaults>>

\* computeOverview: a source that fails or is late leaves its card out.
ReadSources ==
    /\ flight = "reading"
    /\ \/ fetched' = version /\ NoFault
       \/ fetched' = Degraded /\ Fault
    /\ flight' = "writing"
    /\ UNCHANGED <<version, marked, dirty, cached, at, leader, shown, asks>>

\* The context is the leader's: when his client goes away, all sources fail and
\* so does the write, for everybody who waits.
LeaderGone ==
    /\ flight = "reading"
    /\ leader \in Users
    /\ Fault
    /\ fetched' = Degraded
    /\ flight' = "answering"
    /\ UNCHANGED <<version, marked, dirty, cached, at, leader, shown, asks>>

WriteCache ==
    /\ flight = "writing"
    /\ \/ cached' = {fetched} /\ NoFault
       \/ cached' = cached /\ Fault
    /\ flight' = "answering"
    /\ UNCHANGED <<version, marked, dirty, at, leader, fetched, shown, asks>>

Return ==
    /\ flight = "answering"
    /\ flight' = "none"
    /\ Answer({r \in Requests : at[r] = "waiting"}, fetched)
    /\ UNCHANGED <<version, marked, dirty, cached, leader, fetched, asks, viewFaults>>

\* Mutant: the cache is written without a TTL.
NeverExpires == FALSE

CanExpire == cached # {}

Expire ==
    /\ CanExpire
    /\ cached' = {}
    /\ UNCHANGED <<version, marked, dirty, at, flight, leader, fetched, shown, asks,
                   viewFaults>>

Loop    == Take \/ Invalidate
Goes(r) == Hit(r) \/ Miss(r) \/ Do(r)
Compute == ReadSources \/ WriteCache \/ Return

Next ==
    \/ Change \/ Mark
    \/ Loop
    \/ \E u \in Users : Ask(u)
    \/ \E r \in Requests : Goes(r)
    \/ Compute \/ LeaderGone
    \/ Expire

Spec == Init /\ [][Next]_viewVars

---------------------------------------------------------------------------
TypeOK ==
    /\ version \in 1..MaxVersion /\ marked \in 1..version
    /\ cached \subseteq Degraded..MaxVersion
    /\ at \in [Requests -> {"idle", "invalidate", "lookup", "missed", "waiting"}]
    /\ flight \in {"none", "reading", "writing", "answering"}
    /\ fetched \in Degraded..MaxVersion /\ shown \in Degraded..MaxVersion

\* An event that was consumed shows in a snapshot in the end, whatever went wrong.
EventuallyShown == \A n \in 2..MaxVersion : (marked >= n) ~> (shown >= n)
==================================================================================
