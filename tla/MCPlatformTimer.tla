--------------------------- MODULE MCPlatformTimer ---------------------------
(* The instance of PlatformTimer for TLC: one interrupting thread, and more *)
(* starts than kernel timers, so that generations are used again.           *)
EXTENDS PlatformTimer

CONSTANT i1
=============================================================================
