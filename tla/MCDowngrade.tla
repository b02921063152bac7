---------------------------- MODULE MCDowngrade ----------------------------
(* Model values for the small instances of Downgrade; the bounds are in the *)
(* cfg files.                                                               *)
EXTENDS Downgrade
=============================================================================
