--------------------------- MODULE MCResilientEmitter ---------------------------
(* Model checking ResilientEmitter. *)
EXTENDS ResilientEmitter
===============================================================================
