--------------------------- MODULE MCTsOrchestrator ---------------------------
(***************************************************************************)
(* TLC's instance of TsOrchestrator.  Two creates, a destroy, a stop or     *)
(* cont and the shutdown overlap, with two or three QEMU processes so that  *)
(* one can be leaving while the next ones come; a spec asks for nothing or  *)
(* for a Viewer and a serial bridge.                                        *)
(***************************************************************************)
EXTENDS TsOrchestrator

Headless == {{}}
Everything == {Companions}
AllSpecs == {{}, Companions}
=============================================================================
