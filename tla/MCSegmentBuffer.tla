-------------------------- MODULE MCSegmentBuffer ---------------------------
(***************************************************************************)
(* An instance of SegmentBuffer for TLC: a ring of four segments, three of *)
(* which may be filled, and blocks of one and two steps, so that the ring  *)
(* may hold segments of as many blocks as there are slots for block data.  *)
(***************************************************************************)
EXTENDS SegmentBuffer
=============================================================================
