----------------------------- MODULE NoticeInbox -----------------------------
(***************************************************************************)
(* Work-order events turned into letters of the users they concern         *)
(* (notice-service, WorkorderHandler), and the unread counts that browsers *)
(* poll, kept in a cache beside the table of letters.                      *)
(***************************************************************************)
EXTENDS Integers, FiniteSets

CONSTANTS
    OrderEvents,        \* messages of workorder-event that decode
    Readers,            \* users
    Targets,            \* [Events -> SUBSET Users] buildNoticeDraft
    Handlers,           \* consumers that may be handling a message
    Polls,              \* requests for an unread count
    Marks,              \* requests to mark a letter read
    NoEvent, NoUser,
    MaxInboxFaults      \* (bound) failed calls, crashes, messages delivered again

ASSUME InboxAssumption ==
    /\ IsFiniteSet(OrderEvents)
    /\ Targets \in [OrderEvents -> SUBSET Readers]
    /\ NoEvent \notin OrderEvents /\ NoUser \notin Readers
    /\ MaxInboxFaults \in Nat

NoCount == -1

VARIABLES
    stored,         \* events whose notice row is there (uk_source)
    letter,         \* notice_read: per event and user
    handler,        \* per handler: its message and its next step
    handled,        \* messages the handler returned nil for
    cache,          \* per user: cached unread count
    poll,           \* per request: user, next step, count read, and whether a
                    \* mark has changed the table since
    mark,           \* per request: user and next step
    excused,        \* users whose cached count is known to be out of step
    inboxFaults

inboxVars ==
    <<stored, letter, handler, handled, cache, poll, mark, excused, inboxFaults>>

LetterStates == {"none", "unread", "read"}

InboxTypeOK ==
    /\ stored \subseteq OrderEvents
    /\ letter \in [OrderEvents -> [Readers -> LetterStates]]
    /\ handler \in [Handlers -> [event : OrderEvents \cup {NoEvent},
                                 at : {"idle", "notice", "letters", "commit"}]]
    /\ handled \subseteq OrderEvents
    /\ cache \in [Readers -> {NoCount} \cup 0..Cardinality(OrderEvents)]
    /\ poll \in [Polls -> [user : Readers \cup {NoUser}, at : {"new", "count", "fill", "done"},
                           count : 0..Cardinality(OrderEvents), old : BOOLEAN]]
    /\ mark \in [Marks -> [user : Readers \cup {NoUser}, at : {"new", "forget", "done"}]]
    /\ excused \subseteq Readers
    /\ inboxFaults \in 0..MaxInboxFaults

InboxInit ==
    /\ stored = {}
    /\ letter = [e \in OrderEvents |-> [u \in Readers |-> "none"]]
    /\ handler = [h \in Handlers |-> [event |-> NoEvent, at |-> "idle"]]
    /\ handled = {}
    /\ cache = [u \in Readers |-> NoCount]
    /\ poll = [a \in Polls |-> [user |-> NoUser, at |-> "new", count |-> 0, old |-> FALSE]]
    /\ mark = [k \in Marks |-> [user |-> NoUser, at |-> "new"]]
    /\ excused = {}
    /\ inboxFaults = 0

InboxFault ==
    /\ inboxFaults < MaxInboxFaults
    /\ inboxFaults' = inboxFaults + 1

Unread(u) == Cardinality({e \in OrderEvents : letter[e][u] = "unread"})

letterVars == <<stored, letter, handler, handled>>
countVars  == <<cache, poll, mark, excused>>

------------------------------------------------------------------------------
(* WorkorderHandler.Handle.  A message is delivered until it is committed, *)
(* and to somebody else when the partitions move.                          *)
Take(h, e) ==
    /\ handler[h].at = "idle"
    /\ \/ e \notin handled /\ UNCHANGED inboxFaults
       \/ e \in handled /\ InboxFault
    /\ handler' = [handler EXCEPT ![h] = [event |-> e, at |-> "notice"]]
    /\ UNCHANGED <<stored, letter, handled, countVars>>

\* A key that is there already is taken for a message done.
StoreNotice(h) ==
    LET e == handler[h].event
    IN  /\ handler[h].at = "notice"
        /\ stored' = stored \cup {e}
        /\ handler' = [handler EXCEPT ![h].at =
                        IF e \in stored \/ Targets[e] = {} THEN "commit" ELSE "letters"]
        /\ UNCHANGED <<letter, handled, countVars, inboxFaults>>

\* One INSERT IGNORE for all targets.
StoreLetters(h) ==
    LET e == handler[h].event
    IN  /\ handler[h].at = "letters"
        /\ letter' = [letter EXCEPT ![e] =
                       [u \in Readers |-> IF u \in Targets[e] /\ @[u] = "none"
                                        THEN "unread" ELSE @[u]]]
        /\ handler' = [handler EXCEPT ![h].at = "commit"]
        /\ UNCHANGED <<stored, handled, countVars, inboxFaults>>

HandlerReturns(h) ==
    /\ handler[h].at = "commit"
    /\ handled' = handled \cup {handler[h].event}
    /\ handler' = [handler EXCEPT ![h] = [event |-> NoEvent, at |-> "idle"]]
    /\ UNCHANGED <<stored, letter, countVars, inboxFaults>>

\* A statement fails and the handler returns its error, or the process dies.
GiveUp(h) ==
    /\ handler[h].at # "idle"
    /\ InboxFault
    /\ handler' = [handler EXCEPT ![h] = [event |-> NoEvent, at |-> "idle"]]
    /\ UNCHANGED <<stored, letter, handled, countVars>>

------------------------------------------------------------------------------
(* NoticeUnreadCount: from the cache, else counted and put there.          *)
Hit(a, u) ==
    /\ poll[a].at = "new"
    /\ cache[u] # NoCount
    /\ poll' = [poll EXCEPT ![a].user = u, ![a].at = "done"]
    /\ UNCHANGED <<letterVars, cache, mark, excused, inboxFaults>>

\* No entry, or the cache does not answer.
Miss(a, u) ==
    /\ poll[a].at = "new"
    /\ \/ cache[u] = NoCount /\ UNCHANGED inboxFaults
       \/ cache[u] # NoCount /\ InboxFault
    /\ poll' = [poll EXCEPT ![a].user = u, ![a].at = "count"]
    /\ UNCHANGED <<letterVars, cache, mark, excused>>

Count(a) ==
    /\ poll[a].at = "count"
    /\ poll' = [poll EXCEPT ![a].at = "fill", ![a].count = Unread(poll[a].user)]
    /\ UNCHANGED <<letterVars, cache, mark, excused, inboxFaults>>

Fill(a) ==
    LET u == poll[a].user
    IN  /\ poll[a].at = "fill"
        /\ poll' = [poll EXCEPT ![a].at = "done"]
        /\ \/ /\ cache' = [cache EXCEPT ![u] = poll[a].count]
              /\ excused' = IF poll[a].old THEN excused \cup {u} ELSE excused \ {u}
              /\ UNCHANGED inboxFaults
           \/ InboxFault /\ UNCHANGED <<cache, excused>>
        /\ UNCHANGED <<letterVars, mark>>

------------------------------------------------------------------------------
(* MarkNoticeRead: the letter first, the cached count second.              *)
Mark(k, e, u) ==
    /\ mark[k].at = "new"
    /\ letter[e][u] # "none"
    /\ letter' = [letter EXCEPT ![e][u] = "read"]
    /\ mark' = [mark EXCEPT ![k] = [user |-> u, at |-> "forget"]]
    /\ poll' = [a \in Polls |-> IF poll[a].user = u /\ poll[a].at = "fill"
                                 /\ letter[e][u] = "unread"
                              THEN [poll[a] EXCEPT !.old = TRUE] ELSE poll[a]]
    /\ UNCHANGED <<stored, handler, handled, cache, excused, inboxFaults>>

\* Mutant: the count is left to expire.
Kept(u) == cache
Forgotten(u) == [cache EXCEPT ![u] = NoCount]

\* invalidateUnreadCache: a failure is logged.
Forget(k) ==
    LET u == mark[k].user
    IN  /\ mark[k].at = "forget"
        /\ mark' = [mark EXCEPT ![k].at = "done"]
        /\ \/ /\ cache' = Forgotten(u)
              /\ excused' = excused \ {u}
              /\ UNCHANGED inboxFaults
           \/ /\ InboxFault
              /\ excused' = excused \cup {u}
              /\ UNCHANGED cache
        /\ UNCHANGED <<letterVars, poll>>

\* unreadCacheTTL
Expire(u) ==
    /\ cache[u] # NoCount
    /\ cache' = [cache EXCEPT ![u] = NoCount]
    /\ excused' = excused \ {u}
    /\ UNCHANGED <<letterVars, poll, mark, inboxFaults>>

InboxNext ==
    \/ \E h \in Handlers :
         \/ \E e \in OrderEvents : Take(h, e)
         \/ StoreNotice(h) \/ StoreLetters(h) \/ HandlerReturns(h) \/ GiveUp(h)
    \/ \E a \in Polls :
         \/ \E u \in Readers : Hit(a, u) \/ Miss(a, u)
         \/ Count(a) \/ Fill(a)
    \/ \E k \in Marks :
         \/ \E e \in OrderEvents, u \in Readers : Mark(k, e, u)
         \/ Forget(k)
    \/ \E u \in Readers : Expire(u)

InboxSpec == InboxInit /\ [][InboxNext]_inboxVars

------------------------------------------------------------------------------
(* A badge shows a letter that has been read only while the request that   *)
(* read it still has the cached count to delete, after that delete has     *)
(* failed, or when somebody who had counted before wrote his count after   *)
(* (unreadcache.go promises one less at once, or a minute's delay).        *)
ReadIsCounted ==
    \A u \in Readers :
        cache[u] > Unread(u) =>
            \/ u \in excused
            \/ \E k \in Marks : mark[k] = [user |-> u, at |-> "forget"]

(* A message of workorder-event is done with when its letters are there    *)
(* (handler.go:39: nil means that this message has been dealt with).       *)
HandledIsDelivered ==
    \A e \in handled : \A u \in Targets[e] : letter[e][u] # "none"
==============================================================================
