------------------------------ MODULE RecordPlan ------------------------------
(***************************************************************************)
(* The recording plans of one camera (video-service): created, edited and  *)
(* deleted by concurrent requests, cleaned up when the camera is deleted,  *)
(* and turned into the windows that can be played back.  An edit reads the *)
(* row, checks the whole it would make, and writes the columns it changes. *)
(***************************************************************************)
EXTENDS Integers, FiniteSets, Sequences, SequencesExt

CONSTANTS
    Names,                  \* names of plans, unique per camera (uk_camera_name)
    Creates, Edits,         \* requests that create a plan, that change one
    Drafts,                 \* what a plan is created with: settings and "on"
    Patches,                \* what an edit sends: some settings, "on" or a name
    MinutesPerDay, DaysPerWeek,
    DefaultKeep, MaxKeep,   \* retention in days: when not given, and the limit
    NoPlan,
    MaxMinute               \* (bound) the last minute of a behaviour

VARIABLES
    now,                    \* minutes
    camera,                 \* is the row of the camera there
    plan,                   \* record_plan: per request that created it, the row
    create,                 \* per request: its next step
    edit,                   \* per request: next step, the id and the row it read
    removal,                \* DeleteCamera: not asked, between its statements, over
    muddled,                \* history: rows last written by an edit that had read
                            \* them otherwise
    raced, uncleaned        \* history: rows inserted when the camera was gone; did
                            \* the clean-up fail

planVars == <<now, camera, plan, create, edit, removal, muddled, raced, uncleaned>>

Settings == {"strategy", "days", "start", "end", "keep"}

\* A draft has all settings, a patch some, and times are numbers; what else they say
\* is for normalizePlanFields to judge.
ASSUME PlanAssumption ==
    /\ \A f \in Drafts :
         /\ DOMAIN f = Settings \cup {"on"}
         /\ f.start \in Int /\ f.end \in Int /\ f.keep \in Int /\ f.on \in BOOLEAN
    /\ \A f \in Patches :
         /\ DOMAIN f \subseteq Settings \cup {"on", "name"}
         /\ \A s \in {"start", "end", "keep"} \cap DOMAIN f : f[s] \in Int
         /\ "on" \in DOMAIN f => f.on \in BOOLEAN
         /\ "name" \in DOMAIN f => f.name \in Names
    /\ MinutesPerDay \in Nat \ {0} /\ MaxMinute \in Nat
    /\ MaxKeep \in Nat /\ DefaultKeep \in 1..MaxKeep

PlanTypeOK ==
    /\ now \in 0..MaxMinute
    /\ camera \in BOOLEAN
    /\ \A q \in Creates : plan[q] # NoPlan =>
         /\ plan[q].name \in Names /\ plan[q].created \in 0..now
         /\ plan[q].start \in 0..MinutesPerDay /\ plan[q].end \in 0..MinutesPerDay
         /\ plan[q].keep \in 1..MaxKeep /\ plan[q].on \in BOOLEAN
         /\ \A p \in Creates \ {q} : plan[p] = NoPlan \/ plan[p].name # plan[q].name
    /\ create \in [Creates -> {"new", "guarded", "done"}]
    /\ \A e \in Edits : edit[e].at \in {"new", "read", "done"}
    /\ removal \in {"none", "cleanup", "done"}
    /\ muddled \subseteq Creates /\ raced \subseteq Creates /\ uncleaned \in BOOLEAN

PlanInit ==
    /\ now = 0
    /\ camera = TRUE
    /\ plan = [q \in Creates |-> NoPlan]
    /\ create = [q \in Creates |-> "new"]
    /\ edit = [e \in Edits |-> [at |-> "new", id |-> NoPlan, row |-> NoPlan]]
    /\ removal = "none"
    /\ muddled = {} /\ raced = {} /\ uncleaned = FALSE

Earlier(a, b) == IF a < b THEN a ELSE b
Later(a, b)   == IF a < b THEN b ELSE a

------------------------------------------------------------------------------
(* normalizePlanFields.                                                    *)
Clamp(minute) == Earlier(Later(minute, 0), MinutesPerDay)

\* Mutant: the order of the two minutes is not checked.
AnyOrder(f) == f.keep <= MaxKeep /\ f.strategy \in {"always", "scheduled"}

Accepted(f) ==
    /\ f.keep <= MaxKeep
    /\ f.strategy \in {"always", "scheduled"}
    /\ f.strategy = "scheduled" => Clamp(f.start) < Clamp(f.end)

Normalized(f) ==
    [f EXCEPT !.days  = IF f.strategy = "always" THEN {} ELSE @,
              !.start = IF f.strategy = "always" THEN 0 ELSE Clamp(@),
              !.end   = IF f.strategy = "always" THEN 0 ELSE Clamp(@),
              !.keep  = IF @ <= 0 THEN DefaultKeep ELSE @]

------------------------------------------------------------------------------
(* CreateRecordPlan: planGuard looks the camera up, the row is inserted    *)
(* later, unless its name is taken.                                        *)
PlanGuard(q) ==
    /\ create[q] = "new" /\ camera
    /\ create' = [create EXCEPT ![q] = "guarded"]
    /\ UNCHANGED <<now, camera, plan, edit, removal, muddled, raced, uncleaned>>

Taken(q, name) == \E p \in Creates \ {q} : plan[p] # NoPlan /\ plan[p].name = name

\* The row of a new plan.
NewPlan(n, f) ==
    [s \in Settings \cup {"on", "name", "created"} |->
       IF s \in Settings THEN Normalized(f)[s]
       ELSE IF s = "on" THEN f.on ELSE IF s = "name" THEN n ELSE now]

CreateRecordPlan(q, n, f) ==
    /\ create[q] = "guarded" /\ Accepted(f)
    /\ create' = [create EXCEPT ![q] = "done"]
    /\ \/ /\ ~Taken(q, n)
          /\ plan' = [plan EXCEPT ![q] = NewPlan(n, f)]
          /\ raced' = IF camera THEN raced ELSE raced \cup {q}
       \/ Taken(q, n) /\ UNCHANGED <<plan, raced>>
    /\ UNCHANGED <<now, camera, edit, removal, muddled, uncleaned>>

------------------------------------------------------------------------------
(* UpdateRecordPlan.                                                       *)
ReadPlan(e, q) ==
    /\ edit[e].at = "new" /\ plan[q] # NoPlan
    /\ edit' = [edit EXCEPT ![e] = [at |-> "read", id |-> q, row |-> plan[q]]]
    /\ UNCHANGED <<now, camera, plan, create, removal, muddled, raced, uncleaned>>

\* What the row read would become.
Merged(row, patch) == [s \in Settings |-> IF s \in DOMAIN patch THEN patch[s] ELSE row[s]]

\* The columns written: the settings that differ from the row read, and the
\* name and the status if they were sent.
Columns(row, patch) ==
    LET wanted  == Normalized(Merged(row, patch))
        changed == {s \in Settings : wanted[s] # row[s]}
    IN  [s \in changed \cup (DOMAIN patch \ Settings) |->
           IF s \in Settings THEN wanted[s] ELSE patch[s]]

\* UPDATE record_plan SET columns.
Overwritten(row, columns) ==
    [s \in DOMAIN row |-> IF s \in DOMAIN columns THEN columns[s] ELSE row[s]]

UpdateRecordPlan(e, patch) ==
    LET q       == edit[e].id
        columns == Columns(edit[e].row, patch)
        written == /\ plan[q] # NoPlan /\ columns # << >>
                   /\ "name" \in DOMAIN columns => ~Taken(q, columns.name)
    IN  /\ edit[e].at = "read"
        /\ Accepted(Merged(edit[e].row, patch))
        /\ edit' = [edit EXCEPT ![e] = [at |-> "done", id |-> NoPlan, row |-> NoPlan]]
        /\ \/ /\ written
              /\ plan' = [plan EXCEPT ![q] = Overwritten(@, columns)]
              /\ muddled' = IF plan[q] = edit[e].row THEN muddled \ {q} ELSE muddled \cup {q}
           \/ ~written /\ UNCHANGED <<plan, muddled>>
        /\ UNCHANGED <<now, camera, create, removal, raced, uncleaned>>

DeleteRecordPlan(q) ==
    /\ plan[q] # NoPlan
    /\ plan' = [plan EXCEPT ![q] = NoPlan]
    /\ UNCHANGED <<now, camera, create, edit, removal, muddled, raced, uncleaned>>

------------------------------------------------------------------------------
(* DeleteCamera, and then cleanupPlans, whose failure is only logged.      *)
DeleteCamera ==
    /\ camera
    /\ camera' = FALSE /\ removal' = "cleanup"
    /\ UNCHANGED <<now, plan, create, edit, muddled, raced, uncleaned>>

CleanupPlans ==
    /\ removal = "cleanup"
    /\ plan' = [q \in Creates |-> NoPlan]
    /\ removal' = "done"
    /\ UNCHANGED <<now, camera, create, edit, muddled, raced, uncleaned>>

CleanupFails ==
    /\ removal = "cleanup"
    /\ removal' = "done" /\ uncleaned' = TRUE
    /\ UNCHANGED <<now, camera, plan, create, edit, muddled, raced>>

TimePasses ==
    /\ now < MaxMinute
    /\ now' = now + 1
    /\ UNCHANGED <<camera, plan, create, edit, removal, muddled, raced, uncleaned>>

PlanNext ==
    \/ \E q \in Creates : PlanGuard(q)
    \/ \E q \in Creates, n \in Names, f \in Drafts : CreateRecordPlan(q, n, f)
    \/ \E e \in Edits, q \in Creates : ReadPlan(e, q)
    \/ \E e \in Edits, patch \in Patches : UpdateRecordPlan(e, patch)
    \/ \E q \in Creates : DeleteRecordPlan(q)
    \/ DeleteCamera \/ CleanupPlans \/ CleanupFails
    \/ TimePasses

PlanSpec == PlanInit /\ [][PlanNext]_planVars

------------------------------------------------------------------------------
(* Playback: the windows of each plan, day by day, cut to the question,    *)
(* the age of the plan and its retention, and then merged.                 *)

PlanWindows(row, from, to) ==
    LET floor == Later(now - row.keep * MinutesPerDay, row.created)
        days  == {d \in (from \div MinutesPerDay)..(to \div MinutesPerDay) :
                    \/ row.strategy = "always" \/ row.days = {}
                    \/ d % DaysPerWeek \in row.days}
        first == IF row.strategy = "always" THEN 0 ELSE row.start
        last  == IF row.strategy = "always" THEN MinutesPerDay ELSE row.end
        cut(d) == [start |-> Later(Later(d * MinutesPerDay + first, from), floor),
                   end   |-> Earlier(d * MinutesPerDay + last, to)]
    IN  {w \in {cut(d) : d \in days} : row.on /\ first < last /\ w.start < w.end}

\* Mutant: a window that begins in the last one ends it.
Replace(merged, w) ==
    IF merged # << >> /\ w.start <= Last(merged).end
    THEN Front(merged) \o <<[Last(merged) EXCEPT !.end = w.end]>>
    ELSE Append(merged, w)

Absorb(merged, w) ==
    IF merged # << >> /\ w.start <= Last(merged).end
    THEN Front(merged) \o <<[Last(merged) EXCEPT !.end = Later(@, w.end)]>>
    ELSE Append(merged, w)

LatestStart(windows) == CHOOSE w \in windows : \A v \in windows : v.start <= w.start

\* The windows are absorbed in the order in which they start.
Merge(windows) ==
    MapThenFoldSet(LAMBDA w, merged : Absorb(merged, w), << >>, LAMBDA w : w,
                   LatestStart, windows)

AvailableWindows(from, to) ==
    Merge(UNION {PlanWindows(plan[q], from, to) : q \in {p \in Creates : plan[p] # NoPlan}})

\* Playback asks until now at the latest.
Playback(from, to) == AvailableWindows(from, Earlier(to, now))

------------------------------------------------------------------------------
(* What is wanted.                                                         *)

\* Was the minute t recorded, and is the recording still kept?
Recorded(t) ==
    \E q \in Creates :
      /\ plan[q] # NoPlan /\ plan[q].on
      /\ plan[q].created <= t /\ t < now
      /\ now - plan[q].keep * MinutesPerDay <= t
      /\ \/ plan[q].strategy = "always"
         \/ /\ plan[q].days = {} \/ (t \div MinutesPerDay) % DaysPerWeek \in plan[q].days
            /\ t % MinutesPerDay \in plan[q].start..(plan[q].end - 1)

\* Whatever is asked for, playback offers each recorded minute exactly once,
\* nothing else, and in windows that neither overlap nor touch
\* (availableWindows and its three cuts).
PlaybackExact ==
    camera => \A from \in 0..now, to \in 0..MaxMinute : from < Earlier(to, now) =>
      LET windows == Playback(from, to)
          covered == UNION {windows[i].start..(windows[i].end - 1) : i \in DOMAIN windows}
      IN  /\ covered = {t \in from..(to - 1) : Recorded(t)}
          /\ \A i \in DOMAIN windows : windows[i].start < windows[i].end
          /\ \A i \in 1..(Len(windows) - 1) : windows[i].end < windows[i + 1].start

Contradicts(row) ==
    IF row.strategy = "scheduled" THEN row.end <= row.start
    ELSE row.days # {} \/ row.start # 0 \/ row.end # 0

\* A stored plan contradicts itself - it is scheduled and ends before it
\* starts, so that it records nothing, or runs always and has hours - only when
\* the last edit had read it otherwise; and a plan outlives its camera only when
\* the clean-up failed or the plan was being created while the camera went
\* (UpdateRecordPlan, planGuard, cleanupPlans).
PlansExplained ==
    \A q \in Creates : plan[q] # NoPlan =>
      /\ Contradicts(plan[q]) => q \in muddled
      /\ removal = "done" => q \in raced \/ uncleaned
==============================================================================
