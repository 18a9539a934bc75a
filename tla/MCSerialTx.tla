----------------------------- MODULE MCSerialTx -----------------------------
(* Instances of SerialTx for TLC, with the real checksum.                   *)
EXTENDS SerialTx, LlpCrc

(* Lines that fit the payload: an empty one, and one with a character.      *)
ShortLines == { <<NewLine>>, <<7, NewLine>> }

(* A line that fills the line buffer, as the 73 characters of the help text *)
(* fill the 64 of the firmware.                                             *)
HelpLine == { <<7, 7, 7, 7, NewLine>> }
=============================================================================
