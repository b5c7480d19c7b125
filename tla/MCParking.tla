------------------------------- MODULE MCParking -------------------------------
(* Two stays of one car, begun and ended by a gate or by an operator.      *)
EXTENDS Parking

CONSTANTS e1, x1, h1, h2, w1, w2, plateA

OnePlate == [op \in Stays \cup Exits |-> plateA]
==============================================================================
