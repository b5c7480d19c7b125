--------------------------------- MODULE Agent ---------------------------------
(***************************************************************************)
(* energy-agent-service: the daily job and the requests that inspect one   *)
(* day's consumption (RunInspect), the rules they judge by                 *)
(* (internal/rules), the table of suggestions they fill, and its review.   *)
(*                                                                         *)
(* A step is one query or statement; the queries about one zone, and those *)
(* about its devices, are one step each.  Abstracted: texts (and with them *)
(* the language model, whose failures leave the rules' own words), numbers *)
(* and evidence of a finding, traces of tool calls and lists.  kWh are     *)
(* integers, ratios percentages; a meter reports once in an hour at most   *)
(* and stays in its zone.                                                  *)
(***************************************************************************)
EXTENDS Integers, Sequences, FiniteSets, FiniteSetsExt, Functions

CONSTANTS
  Zones, Meters,
  ZoneOf,               \* Meters -> Zones
  NoDevice, AllZones,   \* device_id = '', and zone_id = '' of a request
  Samples,              \* what the meters have reported when a behaviour begins (bound)
  Late,                 \* readings that come later (bound)
  Jobs, Requests,       \* instances of InspectJob, and concurrent requests
  Reviewers, NoReviewer, \* concurrent reviews; reviewer = ''
  FirstDay, LastDay,    \* days of a behaviour (bound)
  Dates,                \* days that requests ask for (bound)
  MaxRuns, MaxReviews,  \* inspections and reviews in a behaviour (bound)
  MaxLate, MaxAgentFaults,   \* readings that come late, and faults (bound)
  BaselineDays, MinBaselineDays, MaxDeviceFindingsPerZone,
  SpikeRatio, ZoneRatio, NightRatio, MinUsage, MinConfidence

Inspectors == Jobs \cup Requests
Days  == 1 .. LastDay
Readings == [ hour : 0 .. 23, kwh : Nat ]

AgentParameters ==
  /\ IsFiniteSet(Meters) /\ ZoneOf \in [Meters -> Zones]
  /\ NoDevice \notin Meters /\ AllZones \notin Zones /\ NoReviewer \notin Reviewers
  /\ Jobs \cap Requests = {}
  /\ FirstDay \in Nat \ {0} /\ LastDay \in Nat /\ FirstDay <= LastDay
  /\ Dates \subseteq 1 .. LastDay
  /\ {MaxRuns, MaxReviews, MaxLate, MaxAgentFaults} \subseteq Nat
  /\ {BaselineDays, MinBaselineDays, SpikeRatio, ZoneRatio, NightRatio, MinConfidence}
       \subseteq Nat \ {0}
  /\ MinUsage \in Nat /\ MaxDeviceFindingsPerZone \in Nat
  /\ \A s \in Samples : s \in [Meters -> [Days -> Seq(Readings)]]
  /\ Late \subseteq Readings

ASSUME AgentAssumption == AgentParameters

Categories == {"night_idle", "device_spike", "zone_surge", "meter_backward", "data_missing"}

\* uk_dedup
DedupKeys == [ date : Days, zone : Zones, device : Meters \cup {NoDevice}, category : Categories ]

VARIABLES
  data,                 \* energy_reading: device -> day -> its readings, as they were stored
  day, reached,             \* the current day, and whether the job's hour has come
  lastDate,             \* InspectJob.lastDate per instance, 0 if there is none
  runs,                 \* agent_run: date and status, in the order of the ids
  sugs,                 \* agent_suggestion: key -> none or severity, status, text and reviewer
  insp,                 \* what each process that inspects is at
  rev,                  \* what each review has read
  decided,              \* history: keys a review was written for
  late,                 \* history: devices and the days they have reported late of
  reviews, agentFaults

agentVars == << data, day, reached, lastDate, runs, sugs, insp, rev, decided, reviews, late,
               agentFaults >>

------------------------------------------------------------------------------
(***************************************************************************)
(* internal/model/energy_reading.go: consumption from readings.            *)
(***************************************************************************)
Stored(s) == { s[i] : i \in DOMAIN s }

\* MAX(energy_kwh) - MIN(energy_kwh)
Usage(s) ==
  IF s = << >> THEN 0
  ELSE LET kwh == { x.kwh : x \in Stored(s) } IN Max(kwh) - Min(kwh)

Hours      == 0 .. 23
NightHours == {23} \cup 0 .. 5

DeviceUse(d, x) == Usage(data[d][x])
DevicesOf(z)    == { d \in Meters : ZoneOf[d] = z }
ZoneUse(z, x)   == SumFunction([d \in DevicesOf(z) |-> DeviceUse(d, x)])

\* ListZoneHourlyUsage of one device: each hour's reading less the one before,
\* falls left out.
Rises(s, hours) ==
  LET Before(r) == { x \in Stored(s) : x.hour < r.hour }
      Previous(r) == CHOOSE x \in Before(r) : \A y \in Before(r) : y.hour <= x.hour
      Rise(r) == IF Before(r) = {} \/ r.kwh < Previous(r).kwh THEN 0 ELSE r.kwh - Previous(r).kwh
  IN SumFunction([r \in { x \in Stored(s) : x.hour \in hours } |-> Rise(r)])

ZoneRises(z, x, hours) == SumFunction([d \in DevicesOf(z) |-> Rises(data[d][x], hours)])

\* ListBackwardDevices: the reading stored last is below the highest one.
Fell(d, x) ==
  LET s == data[d][x] IN s # << >> /\ \E r \in Stored(s) : r.kwh > s[Len(s)].kwh

------------------------------------------------------------------------------
(***************************************************************************)
(* internal/rules.  A history is a function from days to consumption.      *)
(***************************************************************************)
Window(date) == { x \in Days : date - BaselineDays <= x /\ x < date }

Valid(hist) == { x \in DOMAIN hist : hist[x] > 0 }

HasHistory(hist) == \E x \in DOMAIN hist : hist[x] > 0

Total(hist) == SumFunctionOnSet(hist, Valid(hist))
ValidDays(hist) == Cardinality(Valid(hist))

\* Baseline, Ratio and the thresholds of DetectZoneSurge and DetectDeviceSpike:
\* today is at least ratio per cent of the average of the valid days.
Exceeds(today, hist, ratio) ==
  LET n == ValidDays(hist) sum == Total(hist) IN
  /\ n >= MinBaselineDays
  /\ today >= MinUsage /\ sum >= MinUsage * n
  /\ 100 * today * n >= ratio * sum
  /\ MinConfidence <= 95                              \* ConfidenceByRatio
  /\ MinConfidence * sum <= 50 * sum + 30 * (today * n - sum)

SeverityByRatio(today, hist) ==
  LET a == today * ValidDays(hist) sum == Total(hist) IN
  IF a >= 2 * sum THEN 3 ELSE IF 2 * a >= 3 * sum THEN 2 ELSE 1

DetectNightIdle(night, total) ==
  /\ total > 0 /\ total >= MinUsage
  /\ 100 * night >= NightRatio * total
  /\ MinConfidence <= 95                              \* ConfidenceByExcess
  /\ MinConfidence * total <= 50 * total + 2 * (100 * night - NightRatio * total)

SeverityByNightShare(night, total) ==
  IF 100 * night >= 50 * total THEN 3 ELSE IF 100 * night >= 35 * total THEN 2 ELSE 1

Finding(date, z, d, category, severity) ==
  [ key |-> [date |-> date, zone |-> z, device |-> d, category |-> category],
    severity |-> severity ]

\* Analyze for one zone; hours says whether the query by hours succeeded.
ZoneFindings(z, date, hours) ==
  LET hist  == [ x \in Window(date) |-> ZoneUse(z, x) ]
      today == ZoneUse(z, date)
      night == ZoneRises(z, date, NightHours)
      total == ZoneRises(z, date, Hours)
      Found(category, severity) == { Finding(date, z, NoDevice, category, severity) }
  IN IF today = 0 /\ HasHistory(hist)
     THEN Found("data_missing", 2)
     ELSE   (IF Exceeds(today, hist, ZoneRatio)
             THEN Found("zone_surge", SeverityByRatio(today, hist)) ELSE {})
       \cup (IF hours /\ DetectNightIdle(night, total)
             THEN Found("night_idle", SeverityByNightShare(night, total)) ELSE {})

\* What more a device used than its average, over a common denominator.
More(d, date, hist) ==
  [ n |-> DeviceUse(d, date) * ValidDays(hist) - Total(hist), of |-> ValidDays(hist) ]

\* The devices of a zone: those with a reading on the day.  hist[d] is {} when
\* its query failed.  Of equal excesses any may be left out.
DeviceFindings(z, date, backward, hist) ==
  LET listed == { d \in DevicesOf(z) : data[d][date] # << >> }
      fell   == { Finding(date, z, d, "meter_backward", 2) : d \in listed \cap backward }
      silent == { Finding(date, z, d, "data_missing", 2) :
                    d \in { e \in listed : DeviceUse(e, date) = 0 /\ HasHistory(hist[e]) } }
      spikes == { d \in listed : Exceeds(DeviceUse(d, date), hist[d], SpikeRatio) }
      Above(d, e) == LET a == More(d, date, hist[d]) b == More(e, date, hist[e])
                     IN a.n * b.of >= b.n * a.of
      tops   == { top \in SUBSET spikes :
                    /\ Cardinality(top) = Min({MaxDeviceFindingsPerZone, Cardinality(spikes)})
                    /\ \A d \in top, e \in spikes \ top : Above(d, e) }
  IN { fell \cup silent \cup
         { Finding(date, z, d, "device_spike",
                   SeverityByRatio(DeviceUse(d, date), hist[d])) : d \in top } : top \in tops }

------------------------------------------------------------------------------
(***************************************************************************)
(* RunInspect.                                                             *)
(***************************************************************************)
InspectStages == {"idle", "zones", "backward", "zone", "devices", "finish"}

NoInspection == [ stage |-> "idle", run |-> 0, date |-> 0, scope |-> AllZones, todo |-> {},
                  zone |-> AllZones, backward |-> {}, found |-> {} ]

NoSug == [ status |-> "none", severity |-> 0, run |-> 0, reviewer |-> NoReviewer ]

InspectFaults == {"create", "zones", "backward", "zone", "hours", "devices", "history",
               "save", "finish", "crash"}

Findings == [ key : DedupKeys, severity : 1 .. 3 ]

Inspections ==
  [ stage : InspectStages, run : 0 .. MaxRuns, date : {0} \cup Days,
    scope : Zones \cup {AllZones}, todo : SUBSET Zones, zone : Zones \cup {AllZones},
    backward : SUBSET Meters, found : SUBSET Findings ]

RunRows == [ date : Days, status : {"running", "success", "failed"} ]

SugRows == [ status : {"pending", "approved", "rejected"}, severity : 1 .. 3,
             run : DOMAIN runs, reviewer : Reviewers \cup {NoReviewer} ]

AgentTypeOK ==
  /\ data \in [Meters -> [Days -> Seq(Readings)]]
  /\ day \in FirstDay .. LastDay /\ reached \in BOOLEAN
  /\ lastDate \in [Jobs -> {0} \cup Days]
  /\ runs \in Seq(RunRows) /\ Len(runs) <= MaxRuns
  /\ DOMAIN sugs \subseteq DedupKeys
  /\ \A k \in DOMAIN sugs : sugs[k] \in SugRows
  /\ insp \in [Inspectors -> Inspections]
  /\ rev \in [Reviewers -> SUBSET DOMAIN sugs]
  /\ decided \subseteq DOMAIN sugs
  /\ late \in SUBSET (Meters \X Days)
  /\ reviews \in 0 .. MaxReviews /\ agentFaults \in 0 .. MaxAgentFaults

AgentInit ==
  /\ data \in Samples
  /\ day = FirstDay /\ reached = FALSE
  /\ lastDate = [j \in Jobs |-> 0]
  /\ runs = << >>
  /\ sugs = [k \in {} |-> NoSug]
  /\ insp = [p \in Inspectors |-> NoInspection]
  /\ rev = [v \in Reviewers |-> {}]
  /\ decided = {}
  /\ late = {}
  /\ reviews = 0 /\ agentFaults = 0

AgentFault(kind) ==
  /\ kind \in InspectFaults
  /\ agentFaults < MaxAgentFaults /\ agentFaults' = agentFaults + 1

Goes(p, stage) == insp' = [insp EXCEPT ![p].stage = stage]

\* CreateRun; run_no is unique, so two inspections of one second are a fault.  A
\* statement that is not answered may leave a run that nobody carries out.
Begin(p, date, scope) ==
  /\ insp[p].stage = "idle" /\ Len(runs) < MaxRuns
  /\ \/ /\ runs' = Append(runs, [date |-> date, status |-> "running"])
        /\ insp' = [insp EXCEPT ![p] = [NoInspection EXCEPT !.stage = "zones",
                                   !.run = Len(runs) + 1, !.date = date, !.scope = scope]]
        /\ UNCHANGED agentFaults
     \/ /\ AgentFault("create")
        /\ UNCHANGED runs \/ runs' = Append(runs, [date |-> date, status |-> "running"])
        /\ UNCHANGED insp

\* tryRun: the day is marked before it is inspected.
TryRun(j) ==
  /\ reached /\ day > 1 /\ lastDate[j] # day - 1
  /\ lastDate' = [lastDate EXCEPT ![j] = day - 1]
  /\ Begin(j, day - 1, AllZones)
  /\ UNCHANGED << data, day, reached, sugs, rev, decided, reviews, late >>

\* POST /inspect, of a day that is not in the future.
Inspect(p, date, scope) ==
  /\ date <= day
  /\ Begin(p, date, scope)
  /\ UNCHANGED << data, day, reached, lastDate, sugs, rev, decided, reviews, late >>

HasData(z) == \E d \in DevicesOf(z), x \in Days : data[d][x] # << >>

Ends(p, status) ==
  /\ runs' = [runs EXCEPT ![insp[p].run].status = status]
  /\ insp' = [insp EXCEPT ![p] = NoInspection]

\* listZones; a zone that was asked for and has no data fails the inspection.
ListZones(p) ==
  LET scope == insp[p].scope
      zones == { z \in Zones : HasData(z) /\ scope \in {AllZones, z} }
  IN
  /\ insp[p].stage = "zones"
  /\ \/ /\ scope = AllZones \/ zones # {}
        /\ insp' = [insp EXCEPT ![p].todo = zones, ![p].scope = AllZones, ![p].stage = "backward"]
        /\ UNCHANGED << runs, agentFaults >>
     \/ scope # AllZones /\ zones = {} /\ Ends(p, "failed") /\ UNCHANGED agentFaults
     \/ AgentFault("zones") /\ Ends(p, "failed")
  /\ UNCHANGED << data, day, reached, lastDate, sugs, rev, decided, reviews, late >>

Reads == UNCHANGED << data, day, reached, lastDate, runs, sugs, rev, decided, reviews, late >>

\* ListBackwardDevices; if it fails no device is taken to have fallen.
ListBackward(p) ==
  /\ insp[p].stage = "backward"
  /\ \/ /\ insp' = [insp EXCEPT ![p].backward = { d \in Meters : Fell(d, insp[p].date) },
                                ![p].stage = "zone"]
        /\ UNCHANGED agentFaults
     \/ AgentFault("backward") /\ Goes(p, "zone")
  /\ Reads

\* buildZoneInput; a zone that fails is left out with its devices.
BuildZoneInput(p) ==
  \E z \in insp[p].todo :
    LET next == [insp[p] EXCEPT !.todo = @ \ {z}]
        With(hours) == [next EXCEPT !.found = @ \cup ZoneFindings(z, insp[p].date, hours),
                                    !.zone = z, !.stage = "devices"]
    IN
    /\ insp[p].stage = "zone"
    /\ \/ insp' = [insp EXCEPT ![p] = With(TRUE)] /\ UNCHANGED agentFaults
       \/ AgentFault("hours") /\ insp' = [insp EXCEPT ![p] = With(FALSE)]
       \/ AgentFault("zone") /\ insp' = [insp EXCEPT ![p] = next]
    /\ Reads

\* The devices of the zone; a failed history is none, a failed list is no device.
ListDevices(p) ==
  LET z == insp[p].zone
      date == insp[p].date
      Hist(failed) == [ d \in DevicesOf(z) |->
                          [ x \in IF d \in failed THEN {} ELSE Window(date) |-> DeviceUse(d, x) ] ]
      Takes(failed) == \E found \in DeviceFindings(z, date, insp[p].backward, Hist(failed)) :
                         insp' = [insp EXCEPT ![p].found = @ \cup found, ![p].zone = AllZones,
                                              ![p].stage = "zone"]
  IN
  /\ insp[p].stage = "devices"
  /\ \/ Takes({}) /\ UNCHANGED agentFaults
     \/ \E d \in DevicesOf(z) : AgentFault("history") /\ Takes({d})
     \/ AgentFault("devices")
        /\ insp' = [insp EXCEPT ![p].zone = AllZones, ![p].stage = "zone"]
  /\ Reads

\* Mutant: every column is updated.
Anew(old, f, run) ==
  [ status |-> "pending", severity |-> f.severity, run |-> run, reviewer |-> NoReviewer ]

\* ON DUPLICATE KEY UPDATE: the review of a suggestion stays.
Upserted(old, f, run) ==
  IF old = NoSug
  THEN [ status |-> "pending", severity |-> f.severity, run |-> run, reviewer |-> NoReviewer ]
  ELSE [old EXCEPT !.severity = f.severity, !.run = run]

Sug(k) == IF k \in DOMAIN sugs THEN sugs[k] ELSE NoSug

\* SaveSuggestions; a failure is only logged.
SaveSuggestions(p) ==
  LET found == insp[p].found
      keys  == { f.key : f \in found }
      Of(k) == CHOOSE f \in found : f.key = k
  IN
  /\ insp[p].stage = "zone" /\ insp[p].todo = {}
  /\ \/ /\ sugs' = [ k \in DOMAIN sugs \cup keys |->
                       IF k \in keys THEN Upserted(Sug(k), Of(k), insp[p].run) ELSE sugs[k] ]
        /\ UNCHANGED agentFaults
     \/ AgentFault("save") /\ UNCHANGED sugs
  /\ insp' = [insp EXCEPT ![p].stage = "finish", ![p].found = {}, ![p].backward = {}]
  /\ UNCHANGED << data, day, reached, lastDate, runs, rev, decided, reviews, late >>

\* finishRun; if it fails the run stays running.
FinishRun(p) ==
  /\ insp[p].stage = "finish"
  /\ \/ Ends(p, "success") /\ UNCHANGED agentFaults
     \/ AgentFault("finish") /\ insp' = [insp EXCEPT ![p] = NoInspection] /\ UNCHANGED runs
  /\ UNCHANGED << data, day, reached, lastDate, sugs, rev, decided, reviews, late >>

\* An instance restarts, and with it the memory of its job.
RestartJob(j) ==
  /\ AgentFault("crash")
  /\ insp' = [insp EXCEPT ![j] = NoInspection]
  /\ lastDate' = [lastDate EXCEPT ![j] = 0]
  /\ UNCHANGED << data, day, reached, runs, sugs, rev, decided, reviews, late >>

------------------------------------------------------------------------------
(***************************************************************************)
(* Approve: read the suggestion, refuse it if it has been reviewed, write  *)
(* the decision, whatever the row is by then.                              *)
(***************************************************************************)
GetSuggestion(v, k) ==
  /\ rev[v] = {} /\ reviews < MaxReviews
  /\ sugs[k].status = "pending"
  /\ rev' = [rev EXCEPT ![v] = {k}]
  /\ reviews' = reviews + 1
  /\ UNCHANGED << data, day, reached, lastDate, runs, sugs, insp, decided, late, agentFaults >>

ApproveSuggestion(v, approved) ==
  \E k \in rev[v] :
    /\ sugs' = [sugs EXCEPT ![k].status = IF approved THEN "approved" ELSE "rejected",
                            ![k].reviewer = v]
    /\ decided' = decided \cup {k}
    /\ rev' = [rev EXCEPT ![v] = {}]
    /\ UNCHANGED << data, day, reached, lastDate, runs, insp, reviews, late, agentFaults >>

------------------------------------------------------------------------------
\* A reading of yesterday comes, before today is inspected (bound).
Arrives(d, x, r) ==
  /\ x = day - 1 /\ << d, x >> \notin late /\ Cardinality(late) < MaxLate
  /\ \A i \in DOMAIN runs : runs[i].date <= x
  /\ \A y \in Stored(data[d][x]) : y.hour # r.hour
  /\ data' = [data EXCEPT ![d][x] = Append(@, r)]
  /\ late' = late \cup {<< d, x >>}
  /\ UNCHANGED << day, reached, lastDate, runs, sugs, insp, rev, decided, reviews, agentFaults >>

TimePasses ==
  /\ \/ ~reached /\ reached' = TRUE /\ UNCHANGED day
     \/ reached /\ day < LastDay /\ day' = day + 1 /\ reached' = FALSE
  /\ UNCHANGED << data, lastDate, runs, sugs, insp, rev, decided, reviews, late, agentFaults >>

RunStep(p) == \/ ListZones(p) \/ ListBackward(p) \/ BuildZoneInput(p) \/ ListDevices(p)
              \/ SaveSuggestions(p) \/ FinishRun(p)

AgentNext ==
  \/ \E j \in Jobs : TryRun(j) \/ RestartJob(j)
  \/ \E p \in Requests, date \in Dates, scope \in Zones \cup {AllZones} : Inspect(p, date, scope)
  \/ \E p \in Inspectors : RunStep(p)
  \/ \E v \in Reviewers : \/ \E k \in DOMAIN sugs : GetSuggestion(v, k)
                          \/ \E approved \in BOOLEAN : ApproveSuggestion(v, approved)
  \/ \E d \in Meters, x \in Days, r \in Late : Arrives(d, x, r)
  \/ TimePasses

AgentSpec == AgentInit /\ [][AgentNext]_agentVars
------------------------------------------------------------------------------

(***************************************************************************)
(* Whatever fails, comes late or overlaps, a suggestion has a cause in the *)
(* data of its day ("宁漏勿误", internal/rules/types.go:7-8), and a review   *)
(* that was given is not taken back by an inspection (SaveSuggestions):    *)
(* what used no more than on each day it was in use is no spike, an idle   *)
(* night saw no consumption.  What "data_missing" means is that nothing    *)
(* was used, late readings aside, by what was in use before: HasData is    *)
(* usage > 0 (inspect.go:112,218), so a device that gets it has reported   *)
(* that day, though the rule speaks of not one report (detect.go:152).     *)
(***************************************************************************)
Caused(k) ==
  LET before == Window(k.date)
      scope == IF k.device = NoDevice THEN DevicesOf(k.zone) ELSE {k.device}
      rows == data[k.device][k.date]
      MoreThanOnce(use) == \E x \in before : 0 < use[x] /\ use[x] < use[k.date]
  IN CASE k.category = "device_spike"   -> MoreThanOnce([x \in Days |-> DeviceUse(k.device, x)])
       [] k.category = "zone_surge"     -> MoreThanOnce([x \in Days |-> ZoneUse(k.zone, x)])
       [] k.category = "data_missing"   ->
            /\ \A d \in scope : DeviceUse(d, k.date) = 0 \/ << d, k.date >> \in late
            /\ IF k.device = NoDevice THEN \E x \in before : ZoneUse(k.zone, x) > 0
               ELSE rows # << >> /\ \E x \in before : DeviceUse(k.device, x) > 0
       [] k.category = "meter_backward" ->
            \E a, b \in DOMAIN rows : a < b /\ rows[b].kwh < rows[a].kwh
       [] k.category = "night_idle"     ->
            \E d \in DevicesOf(k.zone) : \E r \in Stored(data[d][k.date]) : r.hour \in NightHours

SuggestionsExplained ==
  \A k \in DOMAIN sugs :
    /\ Caused(k)
    /\ sugs[k].status = "pending" <=> k \notin decided
    /\ sugs[k].status = "pending" <=> sugs[k].reviewer = NoReviewer
==============================================================================
