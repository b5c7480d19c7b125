---------------------------- MODULE MCAlarmIngest ----------------------------
(* Model-checking instances of AlarmIngest: up to three events of one      *)
(* device, so that they share cooldown keys and windows; r1 is a threshold *)
(* rule, r2 a time-window rule.                                            *)
EXTENDS AlarmIngest, TLC

CONSTANTS w1, w2, e1, e2, e3, r1, r2, d1

MatchThreshold == [e \in Events |-> {r1}]

OneDevice == [e \in Events |-> d1]

AllOk == [e \in Events |-> "ok"]

Everything == AllFailPoints

(* Workers are interchangeable, and so are events of the same kind. *)
Symmetry == Permutations({w1, w2}) \cup Permutations({e1, e2})
==============================================================================
