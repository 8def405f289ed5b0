-------------------------- MODULE MCServerLifecycle --------------------------
(***************************************************************************)
(* Finite instances of ServerLifecycle.  The calls of a server are         *)
(* interchangeable, but the runs check a liveness property, under which    *)
(* TLC may not use symmetry.                                               *)
(***************************************************************************)
EXTENDS ServerLifecycle
=============================================================================
