---------------------------- MODULE MCCoreTimer ----------------------------
(* Instances of CoreTimer for TLC. *)
EXTENDS CoreTimer
============================================================================
