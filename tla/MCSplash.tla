---------------------------- MODULE MCSplash ----------------------------
(* Two screens, found both, one or none by the first splash *)
EXTENDS Splash
CONSTANTS d1, d2
MCAttached == {{}, {d1}, {d1, d2}}
=============================================================================
