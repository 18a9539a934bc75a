------------------------------ MODULE MCRtExec ------------------------------
(* Instances of RtExec for TLC; the configurations give the constants.     *)
EXTENDS RtExec

(* All realtime inputs and all kinds of line.                              *)
EveryCommand == AllCommands
EveryLine == AllLines

(* Inputs for the liveness run: no limit, whose alarm discards a reset,    *)
(* no jog cancel, which can leave the machine waiting for a resume, and no *)
(* probe, whose end races with a resume.                                   *)
CalmCommands == {"reset", "start", "hold", "door"}
CalmLines == {"move", "jog", "dwell"}
=============================================================================
