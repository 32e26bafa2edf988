-------------------------- MODULE MCEventBufferRust --------------------------
(***************************************************************************)
(* TLC's instance of EventBufferRust; bounds as in MCEventBufferTs, and a   *)
(* broadcast channel of 1, so that the feeder can lag.                      *)
(***************************************************************************)
EXTENDS EventBufferRust
=============================================================================
