------------------------------ MODULE MCDaemon ------------------------------
(* Daemon with two modes and few requests, for TLC.                         *)
EXTENDS Daemon, TLC

Symmetry == Permutations(Trigger)

=============================================================================
