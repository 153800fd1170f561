--------------------------- MODULE MCSegmentSets ----------------------------
(* Model checking instance of SegmentSets and SegmentLoops: a file of 7 bytes
   in blocks of 2, the last of them short, so that every byte subset is a
   reachable set of finished segments (128 of them). *)
EXTENDS SegmentLoops
=============================================================================
