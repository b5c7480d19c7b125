------------------------------ MODULE MCWorkOrder ------------------------------
(***************************************************************************)
(* What is written once and counted on: work orders (WorkOrder), the       *)
(* letters about them (NoticeInbox), announcements (Notice), identifiers   *)
(* (IdGen), the ledger of bad alarm messages (AlarmIngest) and suggestions *)
(* to save energy (Agent).  A behaviour takes the steps of one of them,    *)
(* which the initial state chooses.                                        *)
(***************************************************************************)
EXTENDS WorkOrder, Notice, NoticeInbox, IdGen, Agent

CONSTANTS o1, o2, s1, a1, k1, c1, c2, r1, r2,
          Workers, e1, e2, e3, d1, HardRule, NoRule,                \* AlarmIngest
          MaxAlarmFaults,
          z1, z2, da, db                                            \* Agent

VARIABLES
    part,
    stage, ev, entry, attempt, windows, drafts, current, dedup, cooling, window, alarms, dlq,
    published, acked, excuse, doubtful, deliveries, replays, alarmFaults

\* The actions of UpdateWorkOrderStatusReq (workorder.api:27).
Documented == {"submit", "approve", "reject", "close"}
ToAll      == [e \in OrderEvents |-> Readers]

\* A good event, one that cannot be decoded and one without a tenant, of one
\* device: a threshold rule and a time-window rule match each.
A == INSTANCE AlarmIngest WITH
       pc <- stage, faults <- alarmFaults, MaxFaults <- MaxAlarmFaults,
       Events <- {e1, e2, e3}, Rules <- {r1, r2}, WindowRules <- {r2}, Threshold <- 2,
       Matches <- [e \in {e1, e2, e3} |-> {r1, r2}], Device <- [e \in {e1, e2, e3} |-> d1],
       Kind <- [e \in {e1, e2, e3} |->
                 CASE e = e1 -> "ok" [] e = e2 -> "malformed" [] OTHER -> "noTenant"],
       Intrusions <- {e1}, LegacyFallback <- TRUE, MaxRetries <- 1,
       FailPoints <- {"rules", "window", "dedup", "cooldown", "create", "notify",
                      "release", "ledger", "clear", "mark"},
       CanCrash <- TRUE, MaxDeliveries <- 1, MaxReplays <- 1

\* Two meters in one zone and a zone without; da does not report one day.  Then
\* da uses twice of what it did and db falls.
At(h, k) == [hour |-> h, kwh |-> k]
Uses(u)  == << At(8, 0), At(12, u) >>
Past     == [d \in {da, db} |->
              IF d = da THEN << Uses(2), << >>, Uses(2), Uses(4), << >>, << >> >>
              ELSE << Uses(2), Uses(2), Uses(2), << At(8, 6), At(12, 0) >>, << >>, << >> >>]

OneZone == [d \in Meters |-> z1]
OnePast == {Past}
OneLate == {At(23, 8)}

\* What the configuration says of itself: only use above the average is found.
Sparing == MinConfidence > 50 \/ (SpikeRatio > 100 /\ ZoneRatio > 100)

ASSUME OrdersFit ==
    /\ Sparing
    /\ HardRule \notin {r1, r2} /\ NoRule \notin {r1, r2, HardRule}
    /\ NoEvent \notin {e1, e2, e3} /\ MaxAlarmFaults \in Nat

alarmVars  == <<stage, ev, entry, attempt, windows, drafts, current, dedup, cooling, window,
                alarms, dlq, published, acked, excuse, doubtful, deliveries, replays, alarmFaults>>
allVars    == <<part, vars, noticeVars, inboxVars, idVars, alarmVars, agentVars>>

OrderInit ==
    /\ part \in {"order", "notice", "inbox", "idgen", "alarm", "agent"}
    /\ Init /\ NoticeInit /\ InboxInit /\ IdInit /\ A!Init /\ AgentInit

OrderNext ==
    \/ part = "order" /\ Next
         /\ UNCHANGED <<part, noticeVars, inboxVars, idVars, alarmVars, agentVars>>
    \/ part = "notice" /\ NoticeNext
         /\ UNCHANGED <<part, vars, inboxVars, idVars, alarmVars, agentVars>>
    \/ part = "inbox" /\ InboxNext
         /\ UNCHANGED <<part, vars, noticeVars, idVars, alarmVars, agentVars>>
    \/ part = "idgen" /\ IdNext
         /\ UNCHANGED <<part, vars, noticeVars, inboxVars, alarmVars, agentVars>>
    \/ part = "alarm" /\ A!Next
         /\ UNCHANGED <<part, vars, noticeVars, inboxVars, idVars, agentVars>>
    \/ part = "agent" /\ AgentNext
         /\ UNCHANGED <<part, vars, noticeVars, inboxVars, idVars, alarmVars>>

OrderSpec == OrderInit /\ [][OrderNext]_allVars

\* The types of the part that moves; those of AlarmIngest are checked by alarm_path.
OrderTypes ==
    CASE part = "order"  -> TypeOK
      [] part = "notice" -> NoticeTypeOK
      [] part = "inbox"  -> InboxTypeOK
      [] part = "idgen"  -> IdTypeOK
      [] part = "agent"  -> AgentTypeOK
      [] part = "alarm"  -> TRUE
BadMessagesLedgered == A!BadMessagesLedgered
==============================================================================
