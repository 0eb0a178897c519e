---------------------------- MODULE MCController ----------------------------
(* Instance of Controller for TLC. *)
EXTENDS Controller
=============================================================================
