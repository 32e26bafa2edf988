--------------------------- MODULE MCInstanceTasks ---------------------------
(* An instance of InstanceTasks.  A Serial Port over QEMU's own ring and a  *)
(* recording meet only at the lock, which a port over a socket shows too:   *)
(* the hosts with a ringbuf have no ffmpeg.  What a recording needs is      *)
(* missing once, for each thing it needs.                                   *)
EXTENDS InstanceTasks, FiniteSets

Missing(h) == {need \in {"ffmpeg", "dir", "encoder"} : ~h[need]}
OneThingMissing ==
    {h \in Host : IF h.backend = "socket" THEN Cardinality(Missing(h)) <= 1
                                          ELSE Missing(h) = {"ffmpeg"}}
=============================================================================
