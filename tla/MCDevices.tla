----------------------------- MODULE MCDevices -----------------------------
(* Devices with one SimpleDRM device, a graphics card and its frame buffer  *)
(* for TLC.                                                                 *)
EXTENDS Devices, TLC

CONSTANTS simple, gpu, fb, lo, hi

MCCardOf == [f \in FrameBuffer |-> gpu]

MCConnected == (simple :> {{lo}, {hi}}) @@ (gpu :> {{}, {hi}, {lo, hi}})
                   @@ (fb :> {{hi}})

=============================================================================
