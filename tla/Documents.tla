----------------------------- MODULE Documents -----------------------------
(***************************************************************************)
(* The algorithms of StreamRules, PlanRules, ReleaseGates and StartupRules *)
(* side by side.  A behaviour follows one of them through its input, and   *)
(* after every piece of it what the algorithm has is compared with what it *)
(* is for: each of the four modules states that as one invariant.          *)
(***************************************************************************)
EXTENDS StreamRules, PlanRules, ReleaseGates, StartupRules

Init == StreamInit \/ PlanInit \/ GateInit \/ StartupInit

Next == StreamNext \/ PlanNext \/ GateNext \/ StartupNext

Spec == Init /\ [][Next]_vars
=============================================================================
