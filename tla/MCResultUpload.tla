--------------------------- MODULE MCResultUpload ---------------------------
(***************************************************************************)
(* Two runs of one deployment, as after a Pod was replaced, and two        *)
(* flushers, as during a rollout.                                          *)
(***************************************************************************)
EXTENDS ResultUpload, TLC

CONSTANTS r1, r2, d1

MCDeploymentOf == (r1 :> d1) @@ (r2 :> d1)

\* The result's file comes before that of the logs.
MCNameOrder ==
  (<<"result", d1>> :> 1) @@ (<<"logs", d1>> :> 2)

MCRefused == {{}, {Upload("logs", r2)}}
=============================================================================
