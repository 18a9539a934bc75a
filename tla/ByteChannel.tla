---------------------------- MODULE ByteChannel ----------------------------
(***************************************************************************)
(* What the firmware promises of its serial output: bytes leave in the     *)
(* order in which they were accepted, each once, and nothing else leaves.  *)
(***************************************************************************)
EXTENDS Integers, Sequences

VARIABLES accepted, sent

Init == accepted = <<>> /\ sent = <<>>

Accept == /\ Len(accepted') = Len(accepted) + 1
          /\ accepted' = Append(accepted, accepted'[Len(accepted')])
          /\ UNCHANGED sent

Send == /\ Len(sent) < Len(accepted)
        /\ sent' = Append(sent, accepted[Len(sent) + 1])
        /\ UNCHANGED accepted

Next == Accept \/ Send
Spec == Init /\ [][Next]_<<accepted, sent>>
=============================================================================
