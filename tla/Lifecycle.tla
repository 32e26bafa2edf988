------------------------------ MODULE Lifecycle ------------------------------
(***************************************************************************)
(* What the server promises about its Instance (README.md, "One machine at  *)
(* a time"), without calls, awaits, locks or processes that take time:      *)
(*                                                                          *)
(*     NONE -> STARTING -> RUNNING <-> PAUSED -> STOPPED -> NONE            *)
(*                                                                          *)
(* and back to NONE from STARTING when a create fails, and from RUNNING or  *)
(* PAUSED when QEMU exits on its own.  There is an Instance to act on       *)
(* exactly in RUNNING and PAUSED, and each create makes a new one.          *)
(***************************************************************************)
EXTENDS Naturals

VARIABLES
    state,   \* the lifecycle state
    handle,  \* the Instance there is to act on, 0 when there is none
    newest   \* the Instances are numbered as they are launched

Up == {"RUNNING", "PAUSED"}

Init == state = "NONE" /\ handle = 0 /\ newest = 0

\* A create claims the one slot, and may launch a QEMU while it holds it.
Start == state = "NONE" /\ state' = "STARTING" /\ UNCHANGED <<handle, newest>>
Launch ==
    /\ state = "STARTING"
    /\ newest' = newest + 1
    /\ UNCHANGED <<state, handle>>

\* It gives the slot back, or publishes the Instance it launched.
Fail == state = "STARTING" /\ state' = "NONE" /\ UNCHANGED <<handle, newest>>
Publish ==
    /\ state = "STARTING"
    /\ state' \in Up
    /\ handle' = newest
    /\ UNCHANGED newest

\* pause_instance and resume_instance, of the Instance there is.
PauseOrResume ==
    /\ state \in Up
    /\ state' \in Up
    /\ UNCHANGED <<handle, newest>>

\* destroy_instance takes the Instance, and ends with the slot free.
Stop ==
    /\ state \in Up
    /\ state' = "STOPPED"
    /\ handle' = 0
    /\ UNCHANGED newest
Stopped == state = "STOPPED" /\ state' = "NONE" /\ UNCHANGED <<handle, newest>>

\* QEMU went away on its own.
Gone ==
    /\ state \in Up
    /\ state' = "NONE"
    /\ handle' = 0
    /\ UNCHANGED newest

Next ==
    \/ Start \/ Launch \/ Fail \/ Publish \/ PauseOrResume
    \/ Stop \/ Stopped \/ Gone

Spec == Init /\ [][Next]_<<state, handle, newest>>

=============================================================================
