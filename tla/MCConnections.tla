--------------------------- MODULE MCConnections ---------------------------
(* Model checking instance of Connections. *)
EXTENDS Connections
CONSTANTS u1, c1, c2, s1, s2, nobody, nothing
One == {u1}
TwoConns == {c1, c2}
TwoSegments == {s1, s2}
OnOff == {"PAUSED", "NORMAL"}
=============================================================================
