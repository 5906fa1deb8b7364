--------------------------- MODULE MCTargetHandler ---------------------------
(* A board with every pin wired. *)
EXTENDS TargetHandler

AllPins == Pins
=============================================================================
