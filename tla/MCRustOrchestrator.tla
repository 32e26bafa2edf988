-------------------------- MODULE MCRustOrchestrator --------------------------
(***************************************************************************)
(* TLC's instance of RustOrchestrator: calls that queue for the lock behind *)
(* each other and behind an exit watcher, two QEMU processes, and a server  *)
(* that exits or is killed once, leaving what it had.  Every Instance has a  *)
(* serial bridge and a Viewer: one without takes the same steps but theirs. *)
(***************************************************************************)
EXTENDS RustOrchestrator

FullSpecs == {Companions}
=============================================================================
