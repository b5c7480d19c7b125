---------------------------- MODULE MCDispatchTask ----------------------------
(* Model-checking instances of DispatchTask.                                 *)
EXTENDS DispatchTask, TLC

CONSTANTS t1, t2, s1, s2, c1, c2, q1, q2

\* The actions dispatch.api:88 names, and those state.Next accepts.
Documented == {"start", "finish", "close"}
Accepted   == Actions

Symmetry == Permutations({s1, s2}) \cup Permutations({c1, c2})
            \cup Permutations({q1, q2})
==============================================================================
