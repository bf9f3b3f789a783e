---------------------------- MODULE MCGuardrails ----------------------------
(* One client is enough: no two requests need to overlap. *)
EXTENDS Guardrails

MCLimits == {[min |-> 1, max |-> 2]}
=============================================================================
