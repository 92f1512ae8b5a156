--------------------------- MODULE MCKubernetesJob ---------------------------
(***************************************************************************)
(* Every mode; a deployment with and without an encrypting key and an      *)
(* outbox, which concern what follows the apply; a plan with a logs key    *)
(* that cannot be used.  The monitor sees no more of a program than that   *)
(* it started and ended, so it is followed for the shortest one.           *)
(***************************************************************************)
EXTENDS KubernetesJob

MCJobChoices ==
  {[mode |-> m, key |-> m \in {"deploy", "plan"}, edge |-> m = "deploy",
    badLogsKey |-> m = "plan"] : m \in Modes}
    \cup {[mode |-> "deploy", key |-> FALSE, edge |-> FALSE, badLogsKey |-> FALSE]}

MCWatchedJobs == {j \in MCJobChoices : j.mode = "other"}
=============================================================================
