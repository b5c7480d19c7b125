--------------------------------- MODULE Visitor ---------------------------------
(***************************************************************************)
(* visitor-service: a visitor is invited, scans in at the gate, which asks *)
(* device-service to open the door, and checks out.  Two scans of one code *)
(* are kept apart by a Redis key and, when Redis is away, by the status    *)
(* the update of the record names.                                         *)
(*                                                                         *)
(* All visits are of one person, who is on the blocklist or not; which row *)
(* of it matches, by phone or by card, is left out.                        *)
(***************************************************************************)
EXTENDS Naturals

CONSTANTS
    Visits,           \* visitor_record rows; one person makes them
    Scans,            \* requests of check-in at a time
    ByCode,           \* visits verified by QR code; the others by credential
    NoVisit,
    MaxEdits,         \* bound: changes of the blocklist
    MaxVisitorFaults  \* bound: failed calls and crashes

ASSUME VisitorAssumption ==
    /\ ByCode \subseteq Visits /\ NoVisit \notin Visits
    /\ MaxEdits \in Nat /\ MaxVisitorFaults \in Nat

VARIABLES
    visit,        \* visitor_record.status
    late,         \* visits whose expire_time has passed
    gate,         \* keys visitor:redeem:<id>
    blocklisted,  \* whether an active row matches the person
    edits,
    visitScan,    \* request -> [pc, visit, read]
    doors,        \* commands sent to the door for a visit
    leftovers,    \* visits whose key a fault left behind (not in the code)
    visitorFaults

visitorVars == <<visit, late, gate, blocklisted, edits, visitScan, doors, leftovers, visitorFaults>>

VisitStatuses == {"none", "pending", "checkin", "checkout", "expired"}
Scanning == [pc : {"idle", "check", "claim", "redeem", "release", "open"},
             visit : Visits \cup {NoVisit}, read : VisitStatuses]
NoVisitScan == [pc |-> "idle", visit |-> NoVisit, read |-> "none"]

VisitorTypeOK ==
    /\ visit \in [Visits -> VisitStatuses]
    /\ late \subseteq Visits /\ gate \subseteq Visits /\ leftovers \subseteq Visits
    /\ blocklisted \in BOOLEAN
    /\ edits \in 0..MaxEdits
    /\ visitScan \in [Scans -> Scanning]
    /\ doors \in [Visits -> Nat]
    /\ visitorFaults \in 0..MaxVisitorFaults

VisitorInit ==
    /\ visit = [v \in Visits |-> "none"]
    /\ late = {} /\ gate = {} /\ blocklisted = FALSE /\ edits = 0
    /\ visitScan = [s \in Scans |-> NoVisitScan]
    /\ doors = [v \in Visits |-> 0]
    /\ leftovers = {} /\ visitorFaults = 0

Faulty == visitorFaults < MaxVisitorFaults /\ visitorFaults' = visitorFaults + 1
ScanMoves(s, pc) == visitScan' = [visitScan EXCEPT ![s].pc = pc]
Answers(s) == visitScan' = [visitScan EXCEPT ![s] = NoVisitScan]

----------------------------------------------------------------------------------

(* VisitorInvite: refused while blocked, or when the list cannot be read.  *)
Invite(v) ==
    /\ visit[v] = "none" /\ ~blocklisted
    /\ visit' = [visit EXCEPT ![v] = "pending"]
    /\ UNCHANGED <<late, gate, blocklisted, edits, visitScan, doors, leftovers, visitorFaults>>

(* The lookup: a code finds its record whatever its status, a credential   *)
(* only a pending one.                                                     *)
LookUp(s, v) ==
    /\ visitScan[s] = NoVisitScan /\ visit[v] # "none"
    /\ v \in ByCode \/ visit[v] = "pending"
    /\ visitScan' = [visitScan EXCEPT ![s] = [NoVisitScan EXCEPT !.pc = "check", !.visit = v,
                                                                 !.read = visit[v]]]
    /\ UNCHANGED <<visit, late, gate, blocklisted, edits, doors, leftovers, visitorFaults>>

(* The blocklist is read, failing closed; then the expiry, which writes    *)
(* the record whatever its status is by now; then the status as looked up. *)
Check(s) ==
    LET v == visitScan[s].visit IN
    /\ visitScan[s].pc = "check"
    /\ \/ blocklisted /\ Answers(s) /\ UNCHANGED <<visit, visitorFaults>>
       \/ Faulty /\ Answers(s) /\ UNCHANGED visit
       \/ /\ ~blocklisted /\ v \in late
          /\ visit' = IF visitScan[s].read = "expired" THEN visit
                      ELSE [visit EXCEPT ![v] = "expired"]
          /\ Answers(s) /\ UNCHANGED visitorFaults
       \/ /\ ~blocklisted /\ v \notin late
          /\ IF visitScan[s].read \in {"checkin", "checkout"}
             THEN Answers(s) ELSE ScanMoves(s, "claim")
          /\ UNCHANGED <<visit, visitorFaults>>
    /\ UNCHANGED <<late, gate, blocklisted, edits, doors, leftovers>>

(* SETNX of the key; after an error, which may have set it, the scan goes  *)
(* on, on the status alone.                                                *)
ClaimKey(s) ==
    LET v == visitScan[s].visit IN
    /\ visitScan[s].pc = "claim"
    /\ \/ /\ v \notin gate
          /\ gate' = gate \cup {v}
          /\ ScanMoves(s, "redeem") /\ UNCHANGED visitorFaults
       \/ v \in gate /\ Answers(s) /\ UNCHANGED <<gate, visitorFaults>>
       \/ Faulty /\ ScanMoves(s, "redeem") /\ gate' \in {gate, gate \cup {v}}
    /\ UNCHANGED <<visit, late, blocklisted, edits, doors, leftovers>>

(* UPDATE ... WHERE status = pending; an update that reports an error may  *)
(* have been made.                                                         *)

(* Mutant: a visit may be redeemed until it is over.                       *)
NotOver(v) == visit[v] \in {"pending", "checkin"}

Redeemable(v) == visit[v] = "pending"

Redeem(s) ==
    LET v == visitScan[s].visit IN
    /\ visitScan[s].pc = "redeem"
    /\ \/ /\ Redeemable(v)
          /\ visit' = [visit EXCEPT ![v] = "checkin"]
          /\ ScanMoves(s, "open") /\ UNCHANGED visitorFaults
       \/ ~Redeemable(v) /\ ScanMoves(s, "release") /\ UNCHANGED <<visit, visitorFaults>>
       \/ /\ Faulty /\ ScanMoves(s, "release")
          /\ \/ UNCHANGED visit
             \/ Redeemable(v) /\ visit' = [visit EXCEPT ![v] = "checkin"]
    /\ UNCHANGED <<late, gate, blocklisted, edits, doors, leftovers>>

(* releaseRedeemLock: DEL of the key, whoever set it; best effort.         *)
ReleaseKey(s) ==
    LET v == visitScan[s].visit IN
    /\ visitScan[s].pc = "release" /\ Answers(s)
    /\ \/ gate' = gate \ {v} /\ UNCHANGED <<leftovers, visitorFaults>>
       \/ Faulty /\ leftovers' = leftovers \cup {v} /\ UNCHANGED gate
    /\ UNCHANGED <<visit, late, blocklisted, edits, doors>>

(* openDoor: SendCommand of device-service; an error only changes what the *)
(* visitor is told, and the command may have gone out all the same.        *)
OpenDoor(s) ==
    LET v == visitScan[s].visit IN
    /\ visitScan[s].pc = "open" /\ Answers(s)
    /\ \/ doors' = [doors EXCEPT ![v] = @ + 1] /\ UNCHANGED visitorFaults
       \/ Faulty /\ doors' \in {doors, [doors EXCEPT ![v] = @ + 1]}
    /\ UNCHANGED <<visit, late, gate, blocklisted, edits, leftovers>>

Crash(s) ==
    /\ visitScan[s].pc \in {"redeem", "release", "open"} /\ Faulty
    /\ Answers(s)
    /\ leftovers' = leftovers \cup {visitScan[s].visit}
    /\ UNCHANGED <<visit, late, gate, blocklisted, edits, doors>>

(* VisitorCheckout: a visit that is pending or checked in.                 *)
CheckOut(v) ==
    /\ visit[v] \in {"pending", "checkin"}
    /\ visit' = [visit EXCEPT ![v] = "checkout"]
    /\ UNCHANGED <<late, gate, blocklisted, edits, visitScan, doors, leftovers, visitorFaults>>

(* expire_time passes, and the TTL of the key with it.                     *)
VisitExpires(v) ==
    /\ visit[v] # "none" /\ v \notin late
    /\ late' = late \cup {v}
    /\ gate' = gate \ {v} /\ leftovers' = leftovers \ {v}
    /\ UNCHANGED <<visit, blocklisted, edits, visitScan, doors, visitorFaults>>

(* AddVisitorBlocklist and UnblockVisitorBlocklist.                        *)
EditBlocklist ==
    /\ edits < MaxEdits /\ edits' = edits + 1
    /\ blocklisted' = ~blocklisted
    /\ UNCHANGED <<visit, late, gate, visitScan, doors, leftovers, visitorFaults>>

VisitorNext ==
    \/ \E v \in Visits : Invite(v) \/ CheckOut(v) \/ VisitExpires(v)
    \/ \E s \in Scans :
          \/ \E v \in Visits : LookUp(s, v)
          \/ Check(s) \/ ClaimKey(s) \/ Redeem(s) \/ ReleaseKey(s) \/ OpenDoor(s) \/ Crash(s)
    \/ EditBlocklist

VisitorSpec == VisitorInit /\ [][VisitorNext]_visitorVars

----------------------------------------------------------------------------------

(* One invitation opens the door once, however often and by how many gates *)
(* its code is scanned, with or without Redis, and only for a visit that   *)
(* is no longer open for a scan; and the key that fends off a second scan  *)
(* does not outlive a refused first one, unless a fault left it: an        *)
(* invited visitor no one is scanning can come in (visitorcheckinlogic.go  *)
(* 146-177).                                                               *)
EntersOnce ==
    /\ \A v \in Visits :
          /\ doors[v] <= 1
          /\ doors[v] = 1 \/ (\E s \in Scans : visitScan[s].pc = "open" /\ visitScan[s].visit = v)
                => visit[v] # "pending"
          /\ visit[v] = "pending" /\ v \in gate \ leftovers
                => \E s \in Scans : visitScan[s].visit = v
==================================================================================
