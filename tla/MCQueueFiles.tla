----------------------------- MODULE MCQueueFiles -----------------------------
(* Model checking instance of QueueFiles. *)
EXTENDS QueueFiles
CONSTANTS i1, i2, nofile
TwoItems == {i1, i2}
=============================================================================
