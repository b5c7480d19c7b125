---------------------------------- MODULE Lease ----------------------------------
(***************************************************************************)
(* Lease contracts (leasing-service): changed by hand through              *)
(* ContractUpdate, and by the daily job that renews or expires those whose *)
(* last day is over.  Every instance runs the job, at start-up too; a      *)
(* Redis key keeps most runs apart, the version of the row all of them.    *)
(*                                                                         *)
(* A date is a month.  A change reads the row, writes it under the version *)
(* read, then writes its audit row.                                        *)
(***************************************************************************)
EXTENDS Integers, Sequences, FiniteSets

CONSTANTS
    Contracts,
    Users,             \* requests of ContractUpdate at a time
    Jobs,              \* instances that run the daily job
    Terms,             \* lengths of a new contract and of a renewal by hand
    MonthsPerYear,     \* 12
    MaxRenewYears,     \* maxRenewYears: 30
    Starts,            \* start dates asked for
    FirstMonth, LastMonth,  \* bound: the months that pass
    MaxWrites,         \* bound: changes made by hand
    MaxLeaseFaults     \* bound: failed statements, crashes, lapsed locks

ASSUME LeaseAssumption ==
    /\ MonthsPerYear \in Nat \ {0} /\ MaxRenewYears \in Nat \ {0}
    /\ Terms \subseteq Nat \ {0}
    /\ Starts \subseteq Nat /\ FirstMonth \in Nat
    /\ LastMonth \in Nat /\ FirstMonth <= LastMonth /\ MaxWrites \in Nat /\ MaxLeaseFaults \in Nat

VARIABLES
    contract,     \* lease_contract
    history,      \* what every write of a contract did, in order (not in the code)
    trail,        \* lease_contract_status_log, but for the entries of creation
    today,
    locks,        \* m5:lease:lock:daily:<day>: the run that holds it
    edit,         \* user -> the request it is in
    dailyJob,     \* job -> the run it is in
    leaseFaults

leaseVars == <<contract, history, trail, today, locks, edit, dailyJob, leaseFaults>>

LeaseStatuses == {"pending", "active", "expired", "terminated"}
LeaseActions  == {"activate", "renew", "terminate", "expire", "update"}

(* state.Next.  An update changes the terms and needs no transition, only  *)
(* a contract that is not over.                                            *)
Allowed(status, action) ==
    CASE action = "activate"  -> status = "pending"
      [] action = "renew"     -> status \in {"active", "expired"}
      [] action = "expire"    -> status = "active"
      [] action = "terminate" -> status \in {"pending", "active", "expired"}
      [] action = "update"    -> status # "terminated"

Target(status, action) ==
    CASE action \in {"activate", "renew"} -> "active"
      [] action = "expire"                -> "expired"
      [] action = "terminate"             -> "terminated"
      [] action = "update"                -> status

Absent == [status |-> "absent"]
LeaseRows == [status : LeaseStatuses, start : Nat, end : Nat, auto : BOOLEAN, version : Nat]

LeaseEntry(c, row, to, action) ==
    [contract |-> c, version |-> row.version, from |-> row.status, to |-> to,
     action |-> action]

Idle == [pc |-> "idle"]

(* A write of a contract, a request and a run of the job.                   *)
Writings == [was : LeaseRows, read : LeaseRows, now : LeaseStatuses, end : Nat,
             action : LeaseActions, by : {"hand", "job"}, on : Nat]

Editing == [pc : {"write", "log"}, contract : Contracts, row : LeaseRows,
            action : LeaseActions, new : LeaseRows]

LeaseLog == [contract : Contracts, version : Nat, from : LeaseStatuses,
             to : LeaseStatuses, action : LeaseActions]

Running == [pc : {"renewList", "renew", "renewLog", "expireList", "expire",
                  "expireLog", "release"},
            lock : (FirstMonth..LastMonth) \X Jobs,
            left : SUBSET (Contracts \X LeaseRows), entry : LeaseLog \cup {<<>>}]

LeaseTypeOK ==
    /\ contract \in [Contracts -> LeaseRows \cup {Absent}]
    /\ history \in [Contracts -> Seq(Writings)]
    /\ \A c \in Contracts :
          Len(history[c]) = IF contract[c] = Absent THEN 0 ELSE contract[c].version
    /\ trail \subseteq LeaseLog
    /\ today \in FirstMonth..LastMonth
    /\ locks \subseteq (FirstMonth..LastMonth) \X Jobs
    /\ edit \in [Users -> Editing \cup {Idle}]
    /\ dailyJob \in [Jobs -> Running \cup {Idle}]
    /\ leaseFaults \in 0..MaxLeaseFaults

LeaseInit ==
    /\ contract = [c \in Contracts |-> Absent]
    /\ history = [c \in Contracts |-> <<>>]
    /\ trail = {}
    /\ today = FirstMonth /\ locks = {}
    /\ edit = [u \in Users |-> Idle]
    /\ dailyJob = [j \in Jobs |-> Idle]
    /\ leaseFaults = 0

LeaseFaulty == leaseFaults < MaxLeaseFaults /\ leaseFaults' = leaseFaults + 1

----------------------------------------------------------------------------------

(* ContractCreate: the row and its log in one transaction.                 *)
CreateContract(c, start, term, auto) ==
    /\ contract[c] = Absent
    /\ contract' = [contract EXCEPT ![c] =
          [status |-> "pending", start |-> start, end |-> start + term,
           auto |-> auto, version |-> 0]]
    /\ UNCHANGED <<history, trail, today, locks, edit, dailyJob, leaseFaults>>

(* An update WHERE id and version are as read; the ghost notes what the    *)
(* row was before it.                                                      *)
Fresh(c, row) == contract[c].version = row.version

Writes(c, row, new, action, by) ==
    /\ contract' = [contract EXCEPT ![c] =
          [new EXCEPT !.version = contract[c].version + 1]]
    /\ history' = [history EXCEPT ![c] = Append(@,
          [was |-> contract[c], read |-> row, now |-> new.status, end |-> new.end,
           action |-> action, by |-> by, on |-> today])]

Logs(c, row, to, action) == trail' = trail \cup {LeaseEntry(c, row, to, action)}

HandWrites == Cardinality(UNION
    {{<<c, i>> : i \in {k \in 1..Len(history[c]) : history[c][k].by = "hand"}} :
        c \in Contracts})

(* ContractUpdate: load and judge.  A renewal must end later; an update     *)
(* here changes auto_renew, the one of the terms the jobs look at.         *)
Changed(row, action, term) ==
    [row EXCEPT !.status = Target(@, action),
                !.end = IF action = "renew" THEN @ + term ELSE @,
                !.auto = IF action = "update" THEN ~@ ELSE @]

LoadContract(u, c, action, term) ==
    /\ edit[u] = Idle /\ contract[c] # Absent /\ HandWrites < MaxWrites
    /\ Allowed(contract[c].status, action)
    /\ edit' = [edit EXCEPT ![u] =
          [pc |-> "write", contract |-> c, row |-> contract[c], action |-> action,
           new |-> Changed(contract[c], action, term)]]
    /\ UNCHANGED <<contract, history, trail, today, locks, dailyJob, leaseFaults>>

WriteContract(u) ==
    LET e == edit[u] IN
    /\ e.pc = "write" /\ HandWrites < MaxWrites
    /\ Fresh(e.contract, e.row)
    /\ Writes(e.contract, e.row, e.new, e.action, "hand")
    /\ edit' = [edit EXCEPT ![u].pc = "log"]
    /\ UNCHANGED <<trail, today, locks, dailyJob, leaseFaults>>

(* Someone changed it since: refused.  Or the statement failed.            *)
WriteRefused(u) ==
    LET e == edit[u] IN
    /\ e.pc = "write"
    /\ \/ ~Fresh(e.contract, e.row) /\ UNCHANGED leaseFaults
       \/ LeaseFaulty
    /\ edit' = [edit EXCEPT ![u] = Idle]
    /\ UNCHANGED <<contract, history, trail, today, locks, dailyJob>>

(* Every allowed action either changes the status, renews or updates, so   *)
(* all are logged; a log that fails is only reported.                      *)
LogChange(u) ==
    LET e == edit[u] IN
    /\ e.pc = "log"
    /\ \/ Logs(e.contract, e.row, e.new.status, e.action) /\ UNCHANGED leaseFaults
       \/ LeaseFaulty /\ UNCHANGED trail
    /\ edit' = [edit EXCEPT ![u] = Idle]
    /\ UNCHANGED <<contract, history, today, locks, dailyJob>>

----------------------------------------------------------------------------------

JobMoves(j, pc) == dailyJob' = [dailyJob EXCEPT ![j].pc = pc]

(* SetNX of the day's key: it is held while a run lasts, not for the day.  *)
Begin(j) ==
    /\ dailyJob[j] = Idle /\ ~\E k \in Jobs : <<today, k>> \in locks
    /\ locks' = locks \cup {<<today, j>>}
    /\ dailyJob' = [dailyJob EXCEPT ![j] =
          [pc |-> "renewList", lock |-> <<today, j>>, left |-> {}, entry |-> <<>>]]
    /\ UNCHANGED <<contract, history, trail, today, edit, leaseFaults>>

Due(auto) == {c \in Contracts :
    /\ contract[c].status = "active"
    /\ contract[c].auto = auto /\ contract[c].end < today}

Lists(j, pc, chosen) ==
    /\ dailyJob' = [dailyJob EXCEPT ![j].pc = pc,
                          ![j].left = {<<c, contract[c]>> : c \in chosen}]
    /\ UNCHANGED <<contract, history, trail, today, locks, edit, leaseFaults>>

ListDue(j) ==
    \/ dailyJob[j].pc = "renewList"  /\ Lists(j, "renew", Due(TRUE))
    \/ dailyJob[j].pc = "expireList" /\ Lists(j, "expire", Due(FALSE))

(* renewEndDate: the whole years from start to end; one year when there    *)
(* are none, or too many.                                                  *)
Years(start, end) == (end - start) \div MonthsPerYear

RenewEndDate(start, end) ==
    IF Years(start, end) \in 1..MaxRenewYears
    THEN end + Years(start, end) * MonthsPerYear
    ELSE end + MonthsPerYear

(* Mutant: the update of the job without the version.                      *)
StillActive(c, row) == contract[c].status = "active"

(* The update of the job: version as listed, still active.                 *)
StillDue(c, row) == Fresh(c, row) /\ contract[c].status = "active"

Daily(j, step, to, action, logStep) ==
    /\ dailyJob[j].pc = step
    /\ \E listed \in dailyJob[j].left : LET c == listed[1]  row == listed[2] IN
        /\ IF StillDue(c, row)
           THEN /\ Writes(c, row,
                     [row EXCEPT !.status = to,
                                 !.end = IF action = "renew"
                                         THEN RenewEndDate(row.start, @) ELSE @],
                     action, "job")
                /\ dailyJob' = [dailyJob EXCEPT ![j].pc = logStep,
                                      ![j].left = @ \ {listed},
                                      ![j].entry = LeaseEntry(c, row, to, action)]
           ELSE /\ dailyJob' = [dailyJob EXCEPT ![j].left = @ \ {listed}]
                /\ UNCHANGED <<contract, history>>
        /\ UNCHANGED <<trail, today, locks, edit, leaseFaults>>

RenewDue(j)  == Daily(j, "renew", "active", "renew", "renewLog")
ExpireDue(j) == Daily(j, "expire", "expired", "expire", "expireLog")

DailyLog(j) ==
    /\ dailyJob[j].pc \in {"renewLog", "expireLog"}
    /\ \/ trail' = trail \cup {dailyJob[j].entry} /\ UNCHANGED leaseFaults
       \/ LeaseFaulty /\ UNCHANGED trail
    /\ dailyJob' = [dailyJob EXCEPT ![j].pc = IF @ = "renewLog" THEN "renew" ELSE "expire",
                          ![j].entry = <<>>]
    /\ UNCHANGED <<contract, history, today, locks, edit>>

Proceed(j) ==
    /\ dailyJob[j].pc \in {"renew", "expire"} /\ dailyJob[j].left = {}
    /\ JobMoves(j, IF dailyJob[j].pc = "renew" THEN "expireList" ELSE "release")
    /\ UNCHANGED <<contract, history, trail, today, locks, edit, leaseFaults>>

(* A failed list or update ends the run; the lock is released all the same.*)
Aborts(j) ==
    /\ dailyJob[j].pc \in {"renewList", "renew", "expireList", "expire"}
    /\ LeaseFaulty
    /\ JobMoves(j, "release")
    /\ UNCHANGED <<contract, history, trail, today, locks, edit>>

(* releaseLockScript: only while the key holds this run's token.           *)
ReleaseDay(j) ==
    /\ dailyJob[j].pc = "release"
    /\ locks' = locks \ {dailyJob[j].lock}
    /\ dailyJob' = [dailyJob EXCEPT ![j] = Idle]
    /\ UNCHANGED <<contract, history, trail, today, edit, leaseFaults>>

(* The process dies: its key stays until the TTL.  A key may also lapse    *)
(* under a run that is slow.                                               *)
JobDies(j) ==
    /\ dailyJob[j] # Idle /\ LeaseFaulty
    /\ dailyJob' = [dailyJob EXCEPT ![j] = Idle]
    /\ UNCHANGED <<contract, history, trail, today, locks, edit>>

Lapse ==
    /\ LeaseFaulty
    /\ \E k \in locks : locks' = locks \ {k}
    /\ UNCHANGED <<contract, history, trail, today, edit, dailyJob>>

MonthPasses ==
    /\ today < LastMonth
    /\ today' = today + 1
    /\ UNCHANGED <<contract, history, trail, locks, edit, dailyJob, leaseFaults>>

LeaseNext ==
    \/ \E c \in Contracts, start \in Starts, term \in Terms, auto \in BOOLEAN :
          CreateContract(c, start, term, auto)
    \/ \E u \in Users :
          \/ \E c \in Contracts, action \in LeaseActions, term \in Terms :
                LoadContract(u, c, action, term)
          \/ WriteContract(u) \/ WriteRefused(u) \/ LogChange(u)
    \/ \E j \in Jobs :
          \/ Begin(j) \/ ListDue(j) \/ RenewDue(j) \/ ExpireDue(j) \/ DailyLog(j)
          \/ Proceed(j) \/ Aborts(j) \/ ReleaseDay(j) \/ JobDies(j)
    \/ Lapse \/ MonthPasses

LeaseSpec == LeaseInit /\ [][LeaseNext]_leaseVars

----------------------------------------------------------------------------------

Past(c) == {history[c][i] : i \in 1..Len(history[c])}

(* Jobs and people never undo each other: every write, by hand or by job,  *)
(* was judged on the row it replaced, although it was read earlier and the *)
(* lock may have lapsed; a terminated contract is not written again; the   *)
(* job touches an active contract whose last day is over and does with it  *)
(* what its terms say at that moment; and each audit row tells a write     *)
(* that happened (daily.go 105-121, 156-169; contractupdatelogic.go 150-   *)
(* 168).                                                                   *)
NothingOverwritten ==
    \A c \in Contracts :
        /\ \A h \in Past(c) :
              /\ h.was = h.read /\ h.was.status # "terminated"
              /\ h.by = "job" =>
                    /\ h.was.status = "active" /\ h.was.end < h.on
                    /\ h.was.auto = (h.action = "renew")
        /\ \A e \in trail : e.contract = c =>
              /\ e.version < Len(history[c])
              /\ LET h == history[c][e.version + 1] IN
                 e.from = h.was.status /\ e.to = h.now /\ e.action = h.action

(* renewEndDate: "the original length of the lease": an automatic renewal  *)
(* of a contract nobody renewed by hand adds the term it was signed for,   *)
(* as many whole years as that is.                                         *)
RenewsOriginalTerm ==
    \A c \in Contracts :
        (\A h \in Past(c) : h.by = "hand" => h.action # "renew") =>
            \A i, k \in 1..Len(history[c]) :
                history[c][i].by = "job" /\ history[c][k].by = "job"
                /\ history[c][i].action = "renew" /\ history[c][k].action = "renew"
                => history[c][i].end - history[c][i].was.end
                     = history[c][k].end - history[c][k].was.end
==================================================================================
