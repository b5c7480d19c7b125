------------------------------ MODULE ParkingFee ------------------------------
(***************************************************************************)
(* What a stay costs (parking-service, svc/consumer.go:310-359): a car has *)
(* been there for any time, and stays on.  Time runs in half minutes, so   *)
(* that the rounding up to full minutes shows; money is counted in whole   *)
(* units.                                                                  *)
(***************************************************************************)
EXTENDS Integers

CONSTANTS
    FeeRules,       \* configured rules [free, hourly, cap] that UpsertParkingFeeRule accepts
    NoFeeRule,      \* none is configured, or it cannot be read
    MaxStay         \* (bound) longest stay, in half minutes

VARIABLES
    vehicle,        \* vehicle_type of the record, resolved on entry
    feeRule,        \* the rule in force
    stay            \* half minutes since the entry

feeVars == <<vehicle, feeRule, stay>>

VehicleTypes == {"temp", "monthly", "vip"}

\* UpsertParkingFeeRule refuses a price of zero and negative limits.
FeeParameters ==
    /\ FeeRules \subseteq [free : Nat, hourly : Nat \ {0}, cap : Nat]
    /\ NoFeeRule \notin FeeRules
    /\ MaxStay \in Nat

ASSUME FeeAssumption == FeeParameters

FeeTypeOK ==
    /\ vehicle \in VehicleTypes
    /\ feeRule \in FeeRules \cup {NoFeeRule}
    /\ stay \in 0..MaxStay

-------------------------------------------------------------------------------
\* a / b for positive b, rounded up
UpTo(a, b) == (a + b - 1) \div b

Minutes(t) == UpTo(t, 2)

StartedHours(m) == (m + 59) \div 60

Days(m) == IF m = 0 THEN 1 ELSE UpTo(m, 1440)

Smaller(a, b) == IF a < b THEN a ELSE b

\* CalcFee, the rule built in.
BuiltIn == [free |-> 15, hourly |-> 5, cap |-> 0]

Applied(r) == IF r = NoFeeRule THEN BuiltIn ELSE r

\* Mutant: the hours of the last day only.
FeeOfLastDay(v, r, t) ==
    LET m    == Minutes(t)
        used == StartedHours(m % 1440) * r.hourly
    IN  IF v # "temp" \/ m <= r.free THEN 0
        ELSE IF r.cap > 0 THEN Smaller(used, Days(m) * r.cap) ELSE used

\* CalcFeeByRule
Fee(v, r, t) ==
    LET m    == Minutes(t)
        used == StartedHours(m) * r.hourly
    IN  IF v # "temp" \/ m <= r.free THEN 0
        ELSE IF r.cap > 0 THEN Smaller(used, Days(m) * r.cap) ELSE used

AmountDue == Fee(vehicle, Applied(feeRule), stay)

-------------------------------------------------------------------------------
FeeInit ==
    /\ vehicle \in VehicleTypes
    /\ feeRule \in FeeRules \cup {NoFeeRule}
    /\ stay \in 0..MaxStay

\* Half a minute passes.
Stay ==
    /\ stay < MaxStay
    /\ stay' = stay + 1
    /\ UNCHANGED <<vehicle, feeRule>>

FeeNext == Stay

FeeSpec == FeeInit /\ [][FeeNext]_feeVars

-------------------------------------------------------------------------------
(* Staying longer is never cheaper, and once a stay costs something half a *)
(* minute adds one hour at most - or, when a new day begins, one daily cap *)
(* (CalcFeeByRule: free time, rounding to hours and the cap per day meet   *)
(* in one number).                                                         *)
FeeGrows ==
    [][ LET r    == Applied(feeRule)
            step == AmountDue' - AmountDue
        IN  /\ step >= 0
            /\ AmountDue > 0 => step <= r.hourly \/ step <= r.cap ]_feeVars
===============================================================================
