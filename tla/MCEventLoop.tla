---------------------------- MODULE MCEventLoop ----------------------------
(* EventLoop with few descriptors or few timeouts, for TLC.                 *)
EXTENDS EventLoop

=============================================================================
