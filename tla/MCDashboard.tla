---------------------------- MODULE MCDashboard ----------------------------
(***************************************************************************)
(* An instance of Dashboard.  Bounds of the summary: two requests that     *)
(* overlap, and three changes, so that one falls before, between and after *)
(* the SELECTs of a summary; those of the updates are MCWebSocketBridge's. *)
(***************************************************************************)
EXTENDS Dashboard, MCWebSocketBridge

\* What the updates start with only matters when they are in focus.
MCInit == DashboardInit /\ (focus = "updates" \/ redisUp)

MCSpec == MCInit /\ [][DashboardNext]_<<focus, vars, summaryVars>> /\ Fairness
=============================================================================
