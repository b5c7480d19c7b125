---------------------------------- MODULE Lock ----------------------------------
(***************************************************************************)
(* common/lock/lock.go: a Redis lock taken with SET NX under a random      *)
(* token, kept alive by a watchdog that renews it every third of its TTL,  *)
(* and released by a script that compares the token.                       *)
(*                                                                         *)
(* A handle is one call of TryLock, so a handle stands for its token.      *)
(* Time is counted in thirds of the TTL: the period of the watchdog.       *)
(***************************************************************************)
EXTENDS Naturals

CONSTANTS
    Handles,      \* calls of TryLock, each with a token of its own
    NoToken,      \* the key is absent
    Thirds,       \* the TTL in periods of the watchdog: 3 in the code
    MaxLockFaults,    \* (bound) failed or late commands and crashes
    MaxTime       \* (bound) periods that pass

ASSUME LockAssumption ==
    /\ NoToken \notin Handles
    /\ Thirds \in Nat /\ Thirds >= 2
    /\ MaxLockFaults \in Nat /\ MaxTime \in Nat

VARIABLES
    token,        \* Redis: the token stored under the key, or NoToken
    ttl,          \* Redis: periods until the key expires
    holder,       \* holder[h]: where the caller of h is
    watchdog,     \* watchdog[h]: the goroutine of startWatchdog
    due,          \* handles whose ticker has fired and whose renewal is not sent
    disturbed,    \* history: handles one of whose renewals failed or came late
    lockFaults,   \* faults so far
    elapsed       \* periods so far

lockVars == <<token, ttl, holder, watchdog, due, disturbed, lockFaults, elapsed>>

HolderStates   == {"new", "held", "failed", "released", "dead"}
WatchdogStates == {"off", "on", "renewing", "stray"}

LockInit ==
    /\ token = NoToken
    /\ ttl = 0
    /\ holder = [h \in Handles |-> "new"]
    /\ watchdog = [h \in Handles |-> "off"]
    /\ due = {}
    /\ disturbed = {}
    /\ lockFaults = 0
    /\ elapsed = 0

Fault == lockFaults < MaxLockFaults /\ lockFaults' = lockFaults + 1

---------------------------------------------------------------------------
(* TryLock *)

TryLock(h) ==
    /\ holder[h] = "new"
    /\ token = NoToken
    /\ token' = h
    /\ ttl' = Thirds
    /\ holder' = [holder EXCEPT ![h] = "held"]
    /\ watchdog' = [watchdog EXCEPT ![h] = "on"]
    /\ UNCHANGED <<due, disturbed, lockFaults, elapsed>>

\* ErrLockAcquired
TryLockRefused(h) ==
    /\ holder[h] = "new"
    /\ token # NoToken
    /\ holder' = [holder EXCEPT ![h] = "failed"]
    /\ UNCHANGED <<token, ttl, watchdog, due, disturbed, lockFaults, elapsed>>

\* The answer of SET NX is lost: the caller gives up, the key may be set and
\* nobody renews it.
TryLockFails(h) ==
    /\ holder[h] = "new"
    /\ Fault
    /\ holder' = [holder EXCEPT ![h] = "failed"]
    /\ \/ token = NoToken /\ token' = h /\ ttl' = Thirds
       \/ UNCHANGED <<token, ttl>>
    /\ UNCHANGED <<watchdog, due, disturbed, elapsed>>

---------------------------------------------------------------------------
(* startWatchdog *)

RenewSend(h) ==
    /\ watchdog[h] = "on"
    /\ h \in due
    /\ due' = due \ {h}
    /\ watchdog' = [watchdog EXCEPT ![h] = "renewing"]
    /\ UNCHANGED <<token, ttl, holder, disturbed, lockFaults, elapsed>>

\* The test of both scripts: GET KEYS[1] == ARGV[1].
Owns(h) == token = h

\* Mutant: PEXPIRE is given the period of the ticker.
RenewedForPeriod == 1

RenewedFor == Thirds

\* renewScript has run.  A watchdog cancelled meanwhile ends all the same.
Renew(h) ==
    /\ watchdog[h] \in {"renewing", "stray"}
    /\ ttl' = IF Owns(h) THEN RenewedFor ELSE ttl
    /\ watchdog' = [watchdog EXCEPT ![h] =
                      IF watchdog[h] = "renewing" /\ Owns(h) THEN "on" ELSE "off"]
    /\ UNCHANGED <<token, holder, due, disturbed, lockFaults, elapsed>>

\* An error, of the script or of its answer, ends the watchdog for good.
RenewFails(h) ==
    /\ watchdog[h] \in {"renewing", "stray"}
    /\ Fault
    /\ ttl' \in {ttl, IF Owns(h) THEN RenewedFor ELSE ttl}
    /\ watchdog' = [watchdog EXCEPT ![h] = "off"]
    /\ disturbed' = disturbed \cup {h}
    /\ UNCHANGED <<token, holder, due, elapsed>>

---------------------------------------------------------------------------
(* Unlock *)

\* Unlock cancels the watchdog; a renewal already sent is not recalled, and a
\* select that finds the tick and the end may still take the tick.
Cancelled(h) ==
    /\ \/ /\ watchdog[h] = "renewing" \/ h \in due
          /\ watchdog' = [watchdog EXCEPT ![h] = "stray"]
       \/ /\ watchdog[h] # "renewing"
          /\ watchdog' = [watchdog EXCEPT ![h] = "off"]
    /\ due' = due \ {h}

\* unlockScript
Deletes(h) ==
    /\ token' = IF Owns(h) THEN NoToken ELSE token
    /\ ttl' = IF Owns(h) THEN 0 ELSE ttl

Unlock(h) ==
    /\ holder[h] = "held"
    /\ holder' = [holder EXCEPT ![h] = "released"]
    /\ Cancelled(h)
    /\ Deletes(h)
    /\ UNCHANGED <<disturbed, lockFaults, elapsed>>

\* The script is not run; sync.Once leaves no second attempt.
UnlockFails(h) ==
    /\ holder[h] = "held"
    /\ Fault
    /\ holder' = [holder EXCEPT ![h] = "released"]
    /\ Cancelled(h)
    /\ UNCHANGED <<token, ttl, disturbed, elapsed>>

---------------------------------------------------------------------------
(* Redis and the processes *)

\* The process of h dies, and its watchdog with it.
HolderDies(h) ==
    /\ holder[h] = "held"
    /\ Fault
    /\ holder' = [holder EXCEPT ![h] = "dead"]
    /\ watchdog' = [watchdog EXCEPT ![h] = "off"]
    /\ due' = due \ {h}
    /\ UNCHANGED <<token, ttl, disturbed, elapsed>>

Expires ==
    /\ ttl' = IF ttl = 0 THEN 0 ELSE ttl - 1
    /\ token' = IF ttl <= 1 THEN NoToken ELSE token

Pass ==
    /\ elapsed' = elapsed + 1
    /\ Expires
    /\ due' = due \cup {h \in Handles : watchdog[h] \in {"on", "renewing"}}
    /\ UNCHANGED <<holder, watchdog>>

Late == {h \in Handles : h \in due \/ watchdog[h] = "renewing"}

\* A period passes in which every watchdog keeps up.
Tick ==
    /\ elapsed < MaxTime
    /\ Late = {}
    /\ Pass
    /\ UNCHANGED <<disturbed, lockFaults>>

\* A period passes in which some do not: a pause, a slow network.
TickLate ==
    /\ elapsed < MaxTime
    /\ Late # {}
    /\ Fault
    /\ Pass
    /\ disturbed' = disturbed \cup Late

LockStep(h) == RenewSend(h) \/ Renew(h)

LockNext ==
    \/ \E h \in Handles :
         \/ TryLock(h) \/ TryLockRefused(h) \/ TryLockFails(h)
         \/ RenewSend(h) \/ Renew(h) \/ RenewFails(h)
         \/ Unlock(h) \/ UnlockFails(h) \/ HolderDies(h)
    \/ Tick \/ TickLate

LockSpec == LockInit /\ [][LockNext]_lockVars

---------------------------------------------------------------------------
(* Properties *)

LockTypeOK ==
    /\ token \in Handles \cup {NoToken}
    /\ ttl \in 0..Thirds
    /\ holder \in [Handles -> HolderStates]
    /\ watchdog \in [Handles -> WatchdogStates]
    /\ due \subseteq Handles
    /\ disturbed \subseteq Handles
    /\ lockFaults \in 0..MaxLockFaults
    /\ elapsed \in 0..MaxTime

\* Whoever believes to hold the lock does hold it, so nobody else does, as long as
\* no renewal of his failed or came late (lock.go:118 ends the watchdog after one
\* error).
HeldIsOwned == \A h \in Handles : holder[h] = "held" /\ h \notin disturbed => token = h
==================================================================================
