----------------------------- MODULE MCServices -----------------------------
(***************************************************************************)
(* An instance of Services: two concurrent requests; two ids of payments,  *)
(* reviews and guardrails, where rows are compared, one of recommendations *)
(* and of catalogue rows, where a row is compared with its own past;       *)
(* prices within and above a guardrail's limits, and limits that cross.    *)
(***************************************************************************)
EXTENDS Services, TLC

MCLimits == {[min |-> 1, max |-> 1], [min |-> 3, max |-> 2]}

MCAnswers == {[status |-> "ACCEPTED", applied |-> Null],
              [status |-> "MODIFIED", applied |-> 2],
              [status |-> "DISMISSED", applied |-> Null]}

\* What a component starts with only matters when it is in focus.
MCInit ==
  /\ ServicesInit
  /\ focus = "recommendations" \/ price = [type \in RoomTypes |-> 1]
  /\ focus = "reviews" \/ connected

MCSpec == MCInit /\ [][ServicesNext]_<<focus, vars, guVars, recVars, rowVars, revVars>>

Symmetry == Permutations(Clients) \cup Permutations(GuardIds)
=============================================================================
