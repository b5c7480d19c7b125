------------------------------- MODULE MCAlarmPath -------------------------------
(***************************************************************************)
(* The way of an alarm in one run: a device reports it (EventDispatcher),  *)
(* it is stored (AlarmIngest), pushed to browsers (WsHub), handled by      *)
(* operators (AlarmLifecycle) and turned into a dispatch order             *)
(* (DispatchIntake), and what the cameras recorded of it is looked up      *)
(* (RecordPlan).  These share no state, so a behaviour takes the steps of  *)
(* one of them, chosen at the start; the variables of the others keep one  *)
(* initial value.                                                          *)
(***************************************************************************)
EXTENDS MCAlarmIngest, EventDispatcher, AlarmLifecycle, DispatchIntake, WsHub, RecordPlan

CONSTANTS q1, q2, q3, q4,                                       \* requests of operators
          p1, p2,                                               \* processes that take alarms
          c1, c2, i1, i2, m1, m2,                               \* WsHub
          n1                                                    \* RecordPlan

VARIABLE part

TwoOfEach  == q1 :> "ack" @@ q2 :> "ack" @@ q3 :> "resolve" @@ q4 :> "resolve"
OneThread  == p1 :> p1 @@ p2 :> p2
Home       == c1 :> i1 @@ c2 :> i2
FromEach   == m1 :> i1 @@ m2 :> i2
ToAll      == [m \in Messages |-> Clients]

\* A plan that runs all day, and one of every other day, from its second minute on.
Always     == [strategy |-> "always", days |-> {}, start |-> 0, end |-> 0, keep |-> 0,
               on |-> TRUE]
EveryOther == [strategy |-> "scheduled", days |-> {1}, start |-> 1, end |-> 4, keep |-> 2,
               on |-> TRUE]
\* Each is good for a plan, but both for EveryOther make it end as it starts.
UntilTwo == [strategy |-> "scheduled", days |-> {}, end |-> 2]
FromTwo  == [start |-> 2, on |-> FALSE, name |-> n1]
TwoDrafts  == {Always, EveryOther}
TwoPatches == {UntilTwo, FromTwo}

PathInit ==
    /\ part \in {"ingest", "operators", "dispatch", "hub", "plans", "devices"}
    /\ Init /\ LifecycleInit /\ IntakeInit /\ HubInit /\ PlanInit /\ DispatcherInit
    /\ part # "dispatch" => counter = [p \in Processes |-> 0]
    /\ part # "hub" => mode = "fanout"
    /\ part # "devices" => profile = Gone

PathNext ==
    \/ part = "devices" /\ DispatcherNext
         /\ UNCHANGED <<part, vars, lifecycleVars, intakeVars, hubVars, planVars>>
    \/ part = "ingest" /\ Next
         /\ UNCHANGED <<part, lifecycleVars, intakeVars, hubVars, planVars, dispVars>>
    \/ part = "operators" /\ LifecycleNext
         /\ UNCHANGED <<part, vars, intakeVars, hubVars, planVars, dispVars>>
    \/ part = "dispatch" /\ IntakeNext
         /\ UNCHANGED <<part, vars, lifecycleVars, hubVars, planVars, dispVars>>
    \/ part = "hub" /\ HubNext
         /\ UNCHANGED <<part, vars, lifecycleVars, intakeVars, planVars, dispVars>>
    \/ part = "plans" /\ PlanNext
         /\ UNCHANGED <<part, vars, lifecycleVars, intakeVars, hubVars, dispVars>>

PathSpec ==
    PathInit /\ [][PathNext]_<<part, vars, lifecycleVars, intakeVars, hubVars, planVars, dispVars>>

\* The types of the part that moves.
PathTypes ==
    CASE part = "ingest"    -> TypeOK
      [] part = "devices"   -> DispatcherTypeOK
      [] part = "operators" -> LifecycleTypeOK
      [] part = "dispatch"  -> IntakeTypeOK
      [] part = "hub"       -> HubTypeOK
      [] part = "plans"     -> PlanTypeOK
==================================================================================
