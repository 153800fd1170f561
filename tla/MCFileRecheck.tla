---------------------------- MODULE MCFileRecheck ----------------------------
(* Model checking instances of FileRecheck. *)
EXTENDS FileRecheck
CONSTANTS u1, u2
Both == {u1, u2}
Nobody == {}
=============================================================================
