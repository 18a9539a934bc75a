----------------------------- MODULE MCSettings -----------------------------
(***************************************************************************)
(* An instance of Settings for TLC: an EEPROM of 26 bytes with two         *)
(* coordinate records and two startup lines of two bytes, laid out as the  *)
(* records of the code are.  As there, the settings take an odd number of  *)
(* bytes, the other records an even one.                                   *)
(***************************************************************************)
EXTENDS Settings

MCDefaults == [pulse |-> 3, mask |-> 0, homing |-> FALSE, soft |-> FALSE, pulloff |-> 8]
MCCoords == {<<1, 2>>}
MCTexts == {<<1, 2>>, <<0, 1>>}

=============================================================================
