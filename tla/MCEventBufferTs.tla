--------------------------- MODULE MCEventBufferTs ---------------------------
(***************************************************************************)
(* TLC's instance of EventBufferTs.  Two event names tell a filter from its *)
(* absence; a ring of 2 and 3 events make an eviction happen; two Instances *)
(* make a stale event, a stale wait and a stale cursor possible.            *)
(***************************************************************************)
EXTENDS EventBufferTs
=============================================================================
