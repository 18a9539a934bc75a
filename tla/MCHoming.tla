------------------------------ MODULE MCHoming ------------------------------
(***************************************************************************)
(* An instance of Homing for TLC: one axis homed first, then two together, *)
(* from on the switch, near it, just within reach and too far.             *)
(***************************************************************************)
EXTENDS Homing

MCCycles == <<{"Z"}, {"X", "Y"}>>
MCStarts == {-5, -4, -1, 0}
MCMove == [a \in Axes |-> IF a = "Z" THEN 0 ELSE -1]

=============================================================================
