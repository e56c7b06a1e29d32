----------------------------- MODULE MCTrigger -----------------------------
(* Trigger with few handlers and nested pulls, for TLC.                     *)
EXTENDS Trigger

=============================================================================
