--------------------------- MODULE MCFileDownload ---------------------------
(* Model checking instances of FileDownload. *)
EXTENDS FileDownload
CONSTANTS u1, u2, u3
Both == {u1, u2}
Three == {u1, u2, u3}
OnlyFirst == {u1}
Nobody == {}
=============================================================================
