------------------------------ MODULE MCOperations ------------------------------
(***************************************************************************)
(* The services of a park in one run, a behaviour taking the steps of one  *)
(* of them: dispatch orders (DispatchTask), the opening of a door from     *)
(* afar (RemoteOpen with DeviceCommand), device shadows (Shadow), leases   *)
(* (Lease), visitors (Visitor), electricity bills (Billing) and parking    *)
(* fees (ParkingFee).  The variables of the others keep one initial value. *)
(***************************************************************************)
EXTENDS MCDispatchTask, RemoteOpen, Shadow, Visitor, Lease, ParkingFee, Billing

CONSTANTS k1, k2, id

VARIABLE service

OneRequest == k1 :> id @@ k2 :> id

\* Two tiers with a limit; a period from 1 o'clock across midnight.
Tiers == [kind |-> "tiered", tiers |-> <<[top |-> 1, price |-> 1], [top |-> 2, price |-> 2]>>]
Tou   == [kind |-> "tou", base |-> 1, periods |-> <<[from |-> 1, to |-> 0, price |-> 3]>>]

\* A free quarter of an hour and a cap, no cap, a cap below the price of an hour.
Prices == {[free |-> 15, hourly |-> 5, cap |-> 30], [free |-> 0, hourly |-> 3, cap |-> 0],
           [free |-> 30, hourly |-> 5, cap |-> 4]}

TwoConfigs == {Tiers, Tou}

openingVars == <<deviceVars, doorVars>>

commerceVars == <<leaseVars, visitorVars, billingVars, feeVars>>
thingVars    == <<openingVars, shadowVars>>

OperationsInit ==
    /\ service \in {"dispatch", "door", "shadow", "lease", "visitor", "billing", "fee"}
    /\ IF service = "dispatch" THEN Init ELSE onDuty = {} /\ Init
    /\ IF service = "door" THEN DoorInit ELSE downlink = TRUE /\ DoorInit
    /\ IF service = "shadow" THEN ShadowInit ELSE local = NoShadow /\ remote = NoShadow /\ ShadowInit
    /\ IF service = "fee" THEN FeeInit
       ELSE vehicle = "temp" /\ feeRule = NoFeeRule /\ stay = 0
    /\ LeaseInit /\ VisitorInit /\ BillingInit

OperationsNext ==
    \/ service = "dispatch" /\ Next
         /\ UNCHANGED <<service, thingVars, commerceVars>>
    \/ service = "door" /\ DoorNext
         /\ UNCHANGED <<service, vars, shadowVars, commerceVars>>
    \/ service = "shadow" /\ ShadowNext
         /\ UNCHANGED <<service, vars, openingVars, commerceVars>>
    \/ service = "lease" /\ LeaseNext
         /\ UNCHANGED <<service, vars, thingVars, visitorVars, billingVars, feeVars>>
    \/ service = "visitor" /\ VisitorNext
         /\ UNCHANGED <<service, vars, thingVars, leaseVars, billingVars, feeVars>>
    \/ service = "billing" /\ BillingNext
         /\ UNCHANGED <<service, vars, thingVars, leaseVars, visitorVars, feeVars>>
    \/ service = "fee" /\ FeeNext
         /\ UNCHANGED <<service, vars, thingVars, leaseVars, visitorVars, billingVars>>

OperationsSpec ==
    OperationsInit
    /\ [][OperationsNext]_<<service, vars, thingVars, commerceVars>>

\* The types of the service that moves.
ServiceTypes ==
    CASE service = "dispatch" -> TypeOK
      [] service = "door"     -> DeviceTypeOK /\ DoorTypeOK
      [] service = "shadow"   -> ShadowTypeOK
      [] service = "lease"    -> LeaseTypeOK
      [] service = "visitor"  -> VisitorTypeOK
      [] service = "billing"  -> BillingTypeOK
      [] service = "fee"      -> FeeTypeOK
==================================================================================
