----------------------------- MODULE MCLlpLink ------------------------------
(* An instance of LlpLink for TLC, with the real checksum.  Payloads exercise *)
(* stuffing (AA in the data, in a length or a layer), an empty data part is   *)
(* left out because the firmware ignores it.                                  *)
EXTENDS LlpLink, LlpCrc

(* A final layer with the data AA; a final layer with 55 AA; a passthrough    *)
(* layer with one byte of metadata before the data 7.                         *)
SomePayloads == << <<0, 170>>, <<0, 85, 170>>, <<1, 1, 170, 0, 7>> >>

(* Magic bytes, the escape, and lengths that do not fit.                      *)
SomeNoise == {170, 85, 0, 6}

SomeGaps == {2, 3}
=============================================================================
