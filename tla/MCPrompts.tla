----------------------------- MODULE MCPrompts -----------------------------
(* Prompts with a client of two requests and one of a single request: three *)
(* prompts can wait, those of one client around the one of the other.       *)
EXTENDS Prompts, TLC

CONSTANTS c1, c2

MCRequests == c1 :> 2 @@ c2 :> 1

=============================================================================
