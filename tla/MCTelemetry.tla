------------------------------- MODULE MCTelemetry -------------------------------
(***************************************************************************)
(* The services that turn device telemetry into rows: readings of meters   *)
(* (EnergyIngest) and stays of cars (Parking), two of one car begun and    *)
(* ended by a gate or by an operator.  A behaviour takes the steps of one  *)
(* of them, which the initial state chooses.                               *)
(***************************************************************************)
EXTENDS EnergyIngest, Parking

CONSTANTS e1, x1, h1, h2, w1, w2, plateA

VARIABLE part

ASSUME TelemetryFits == EnergyParameters

OnePlate == [op \in {e1, h2, x1, h1} |-> plateA]

allVars == <<part, energyVars, parkingVars>>

TelemetryInit ==
    /\ part \in {"meter", "car"}
    /\ Init /\ ParkingInit
    /\ part = "car" => group = 0

TelemetryNext ==
    \/ part = "meter" /\ Next /\ UNCHANGED <<part, parkingVars>>
    \/ part = "car" /\ ParkingNext /\ UNCHANGED <<part, energyVars>>

Cars(Act) == part = "car" /\ Act /\ UNCHANGED <<part, energyVars>>

\* The fairness of Parking.
TelemetryFairness ==
    /\ \A w \in Workers : WF_allVars(Cars(HandlerStep(w)))
    /\ \A m \in Messages :
         SF_allVars(Cars(\E w \in Workers : FetchMessage(w, m) /\ ~Busy(m) /\ m \notin failed))

TelemetrySpec == TelemetryInit /\ [][TelemetryNext]_allVars /\ TelemetryFairness

TelemetryTypes == TypeOK /\ ParkingTypeOK
CarsHandled    == part = "car" => EventuallyHandled
===================================================================================
