-------------------------------- MODULE Session --------------------------------
(***************************************************************************)
(* auth-service and user-manage: an account with its status and its roles, *)
(* and the sessions that Login and Refresh open for it.  A session is a    *)
(* pair of signed tokens that carry the roles they were made with: one for *)
(* access, which Verify judges by itself and a list of revoked ones in     *)
(* Redis, and one that Refresh takes if it is still listed there and the   *)
(* account is in order.  A Redis that does not answer stops nobody.        *)
(*                                                                         *)
(* One account; passwords and signatures are those of the account.         *)
(***************************************************************************)
EXTENDS Naturals

CONSTANTS
    Roles,
    Calls,                      \* requests to auth-service at a time
    Pairs, NoPair,              \* (bound) pairs of tokens that have not expired
    AccessLife, RefreshLife     \* ticks that a new pair is good for

\* What the constants must satisfy.
SessionParameters ==
    /\ AccessLife \in Nat \ {0} /\ RefreshLife \in Nat \ {0}
    /\ AccessLife <= RefreshLife

VARIABLES
    status,      \* sys_user: "none", "active", "disabled", "deleted"
    granted,     \* sys_user_role
    pair,        \* pair[p]: ticks that each token has left, its roles, and
                 \*   whether a client holds it
    listed,      \* auth:refresh:<jti>
    blocked,     \* tokblk:<jti>
    redis,       \* Redis answers
    call         \* call[c]: next step, refreshed pair, roles it read, pair it made

sessionVars == <<status, granted, pair, listed, blocked, redis, call>>

Spent == [access |-> 0, refresh |-> 0, roles |-> {}, held |-> FALSE]
Done  == [at |-> "idle", old |-> NoPair, roles |-> {}, new |-> NoPair]

TypeOK ==
    /\ status \in {"none", "active", "disabled", "deleted"}
    /\ granted \subseteq Roles
    /\ pair \in [Pairs -> [access : 0..AccessLife, refresh : 0..RefreshLife,
                           roles : SUBSET Roles, held : BOOLEAN]]
    /\ listed \subseteq Pairs /\ blocked \subseteq Pairs
    /\ redis \in BOOLEAN
    /\ call \in [Calls -> [at : {"idle", "account", "roles", "issue", "revoke", "store"},
                           old : Pairs \cup {NoPair}, roles : SUBSET Roles,
                           new : Pairs \cup {NoPair}]]

Init ==
    /\ status = "none" /\ granted = {}
    /\ pair = [p \in Pairs |-> Spent]
    /\ listed = {} /\ blocked = {} /\ redis = TRUE
    /\ call = [c \in Calls |-> Done]

------------------------------------------------------------------------------
(* user-manage                                                             *)

\* A request without a status makes an active account.  A role it names is
\* inserted by a statement of its own, as by RoleAssign; if that fails, so does
\* the request, and the account is there without it.
UserCreate(s) ==
    /\ status = "none" /\ s \in {"active", "disabled"}
    /\ status' = s
    /\ UNCHANGED <<granted, pair, listed, blocked, redis, call>>

\* The row is read and then updated by its id, unless it was deleted meanwhile; a
\* request without a status disables.
UserUpdate(s) ==
    /\ status \in {"active", "disabled"} /\ s \in {"active", "disabled"} \ {status}
    /\ status' = s
    /\ UNCHANGED <<granted, pair, listed, blocked, redis, call>>

\* A soft deletion: the roles stay, and so does the name, which is taken for good.
UserDelete ==
    /\ status \in {"active", "disabled"}
    /\ status' = "deleted"
    /\ UNCHANGED <<granted, pair, listed, blocked, redis, call>>

\* The account was there when it was looked up.  No operation takes a role away.
RoleAssign(r) ==
    /\ status # "none" /\ r \notin granted
    /\ granted' = granted \cup {r}
    /\ UNCHANGED <<status, pair, listed, blocked, redis, call>>

------------------------------------------------------------------------------
(* auth-service                                                            *)

\* Mutant: an account that is there is in order.
Exists == status \in {"active", "disabled"}

\* FindUserByUsername and FindUserByID leave deleted accounts out.
InOrder == status = "active"

\* Any other account, and a wrong password, is refused and changes nothing.
Login(c) ==
    /\ call[c] = Done
    /\ InOrder
    /\ call' = [call EXCEPT ![c].at = "roles"]
    /\ UNCHANGED <<status, granted, pair, listed, blocked, redis>>

\* A token that has expired, or is not listed any more, is refused.
Refresh(c, p) ==
    /\ call[c] = Done
    /\ pair[p].held /\ pair[p].refresh > 0
    /\ redis => p \in listed
    /\ call' = [call EXCEPT ![c].at = "account", ![c].old = p]
    /\ UNCHANGED <<status, granted, pair, listed, blocked, redis>>

ReadAccount(c) ==
    /\ call[c].at = "account"
    /\ call' = [call EXCEPT ![c] = IF InOrder THEN [@ EXCEPT !.at = "roles"] ELSE Done]
    /\ UNCHANGED <<status, granted, pair, listed, blocked, redis>>

ReadRoles(c) ==
    /\ call[c].at = "roles"
    /\ call' = [call EXCEPT ![c].at = "issue", ![c].roles = granted]
    /\ UNCHANGED <<status, granted, pair, listed, blocked, redis>>

\* No call and no store remembers the pair p.
Free(p) == pair[p] = Spent /\ \A c \in Calls : p \notin {call[c].old, call[c].new}

Issue(c) ==
    /\ call[c].at = "issue"
    /\ \E p \in Pairs :
         /\ Free(p)
         /\ pair' = [pair EXCEPT ![p] = [access |-> AccessLife, refresh |-> RefreshLife,
                                         roles |-> call[c].roles, held |-> FALSE]]
         /\ call' = [call EXCEPT ![c].new = p,
                       ![c].at = IF call[c].old = NoPair THEN "store" ELSE "revoke"]
    /\ UNCHANGED <<status, granted, listed, blocked, redis>>

RevokeOld(c) ==
    /\ call[c].at = "revoke"
    /\ listed' = IF redis THEN listed \ {call[c].old} ELSE listed
    /\ call' = [call EXCEPT ![c].at = "store"]
    /\ UNCHANGED <<status, granted, pair, blocked, redis>>

\* The pair is answered, listed or not (a pair that has expired is of no use).
Store(c) ==
    LET p == call[c].new  good == pair[p] # Spent IN
    /\ call[c].at = "store"
    /\ listed' = IF redis /\ good THEN listed \cup {p} ELSE listed
    /\ pair' = [pair EXCEPT ![p].held = good]
    /\ call' = [call EXCEPT ![c] = Done]
    /\ UNCHANGED <<status, granted, blocked, redis>>

\* A statement of MySQL fails, or the process ends.
GiveUp(c) ==
    /\ call[c] # Done
    /\ call' = [call EXCEPT ![c] = Done]
    /\ UNCHANGED <<status, granted, pair, listed, blocked, redis>>

\* A refresh token is taken from the list, an access token is blocked for the
\* rest of its life; an error is answered if Redis does not.
Logout(p) ==
    /\ pair[p].held /\ redis
    /\ \/ pair[p].refresh > 0 /\ listed' = listed \ {p} /\ UNCHANGED blocked
       \/ pair[p].access > 0 /\ blocked' = blocked \cup {p} /\ UNCHANGED listed
    /\ UNCHANGED <<status, granted, pair, redis, call>>

\* Verify has no effect: what it answers for the access token of p.
Verify(p) == pair[p].held /\ pair[p].access > 0 /\ (redis => p \notin blocked)

------------------------------------------------------------------------------
(* Redis and the clock                                                     *)

RedisTurns ==
    /\ redis' = ~redis
    /\ UNCHANGED <<status, granted, pair, listed, blocked, call>>

Less(n) == IF n = 0 THEN 0 ELSE n - 1

Older(t) ==
    IF t.refresh <= 1 THEN Spent
    ELSE [t EXCEPT !.access = Less(@), !.refresh = Less(@)]

Tick ==
    /\ \E p \in Pairs : pair[p] # Spent
    /\ pair' = [p \in Pairs |-> Older(pair[p])]
    /\ listed' = {p \in listed : pair'[p] # Spent}
    /\ blocked' = {p \in blocked : pair'[p].access > 0}
    /\ UNCHANGED <<status, granted, redis, call>>

CallStep(c) ==
    \/ ReadAccount(c) \/ ReadRoles(c) \/ Issue(c) \/ RevokeOld(c) \/ Store(c)
    \/ GiveUp(c)

Next ==
    \/ \E s \in {"active", "disabled"} : UserCreate(s) \/ UserUpdate(s)
    \/ UserDelete \/ \E r \in Roles : RoleAssign(r)
    \/ \E c \in Calls : Login(c) \/ \E p \in Pairs : Refresh(c, p)
    \/ \E c \in Calls : CallStep(c)
    \/ \E p \in Pairs : Logout(p)
    \/ RedisTurns \/ Tick

\* Time passes; nothing else is bound to happen.
Fairness == WF_sessionVars(Tick)

Spec == Init /\ [][Next]_sessionVars /\ Fairness

------------------------------------------------------------------------------
\* What an accepted access token says of the account.
Accurate == \A p \in Pairs : Verify(p) => status = "active" /\ pair[p].roles = granted

\* When an account changes no more, no token is accepted in the end that says
\* something else of it: a disabled or deleted account has none left, and those
\* of an active one carry its roles, however often they were refreshed, whatever
\* Redis answers ("每次刷新都校验账号是否被禁用/删除", Refresh).
EventuallyCurrent == <>[][FALSE]_<<status, granted>> => <>[]Accurate
================================================================================
