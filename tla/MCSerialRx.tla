----------------------------- MODULE MCSerialRx -----------------------------
(* Instances of SerialRx for TLC.                                           *)
EXTENDS SerialRx

(* Pieces of lines: code, blanks, comments begun and ended in other frames  *)
(* than the line, ends of lines, and resets and other realtime characters   *)
(* between them.                                                            *)
Pieces == { <<"g">>, <<"G", ")">>, <<" ", "(">>, <<";", "G">>, <<"(", ";">>, <<")", "g">>,
            <<EndOfLine>>, <<"G", EndOfLine, "g">>, <<"reset", "G">>,
            <<"g", "realtime", EndOfLine>> }
=============================================================================
