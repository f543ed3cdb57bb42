------------------------- MODULE MCSmopInterpreter -------------------------
(* One interpreter with a few frames and objects, some destroyed by a method. *)
EXTENDS SmopInterpreter

CONSTANTS f1, f2, f3, f4, f5, x, y, z
=============================================================================
