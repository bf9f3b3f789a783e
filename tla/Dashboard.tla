----------------------------- MODULE Dashboard -----------------------------
(***************************************************************************)
(* What a dashboard client is served by the API process: the live updates  *)
(* (WebSocketBridge, extended) and the cached summary (an instance of      *)
(* Summary).  The two share no state the modules model, so a behaviour is  *)
(* one of the component `focus` names and the state graphs add up instead  *)
(* of multiplying.                                                         *)
(***************************************************************************)
EXTENDS WebSocketBridge

CONSTANTS Clients, MaxChanges  \* of Summary

ASSUME DashboardAssumption == MaxChanges \in Nat

VARIABLES focus, version, cache, req

summaryVars == <<version, cache, req>>

Cached == INSTANCE Summary

DashboardInit ==
  /\ focus \in {"updates", "summary"}
  /\ Init /\ Cached!Init

DashboardNext ==
  \/ focus = "updates" /\ Next /\ UNCHANGED <<focus, summaryVars>>
  \/ focus = "summary" /\ Cached!Next /\ UNCHANGED <<focus, vars>>

Fairness ==
  /\ focus = "updates" => WF_vars(Listen)
  /\ focus = "summary" => Cached!Fairness

DashboardSpec ==
  DashboardInit /\ [][DashboardNext]_<<focus, vars, summaryVars>> /\ Fairness

\* The components' properties, stated in their modules.
DashboardTypeOK == TypeOK /\ Cached!TypeOK

Converges == Cached!Converges
=============================================================================
