------------------------------ MODULE MCContext ------------------------------
(* Context with small sets of objects, values and levels. *)
EXTENDS Context
=============================================================================
