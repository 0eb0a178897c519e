--------------------------- MODULE MCFinalityCore ---------------------------
(* Instance of FinalityCoreBranch for TLC. *)
EXTENDS FinalityCoreBranch
=============================================================================
