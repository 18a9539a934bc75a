------------------------------ MODULE MCGcode -------------------------------
(***************************************************************************)
(* An instance of Gcode for TLC: one axis with a travel of two             *)
(* millimetres, an inch of two millimetres, two work coordinate systems.   *)
(***************************************************************************)
EXTENDS Gcode

Gc(words) == [jog |-> FALSE, words |-> words]
Jog(words) == [jog |-> TRUE, words |-> words]

G(c) == <<c>>

MCLines == {
  Gc(<<G("G0"), <<"X", -2>>>>),
  Gc(<<G("G1"), <<"X", -1>>, <<"F", 1>>>>),
  Gc(<<G("G93")>>), Gc(<<G("G94"), G("G91")>>), Gc(<< <<"X", 1>> >>),
  Gc(<<G("G20"), G("G90"), G("G55"), <<"X", -1>>>>),
  Gc(<<G("G2"), <<"X", -2>>, <<"R", 1>>, <<"F", 1>>>>),
  Gc(<<G("G92"), <<"X", 0>>>>), Gc(<<G("G92.1")>>),
  Gc(<<G("G10"), <<"L", 20>>, <<"P", 1>>, <<"X", 0>>>>),
  Gc(<<G("G10"), <<"L", 2>>, <<"P", 2>>, <<"X", -1>>>>),
  Gc(<<G("G28.1")>>), Gc(<<G("G28"), <<"X", -1>>>>),
  Gc(<<G("G38.2"), <<"X", -2>>, <<"F", 1>>>>), Gc(<<G("G30.1"), G("G38.3"), <<"X", -1>>, <<"F", 1>>>>),
  Gc(<<G("G80")>>), Gc(<<G("G4"), <<"P", 0>>>>), Gc(<<G("G53"), G("G0"), <<"X", 0>>>>),
  Jog(<<G("G91"), <<"X", -1>>, <<"F", 1>>>>)
}

MCGarbage == {[a \in Axes |-> -1], Torn}

=============================================================================
