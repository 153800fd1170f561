------------------------------ MODULE Segments ------------------------------
(***************************************************************************)
(* Segments of a file, the set of finished segments a queue item keeps,    *)
(* and the choice of the next segment to ask a source for.                 *)
(*                                                                         *)
(* A segment is a start and a size in bytes (client/Segment.h).  A queue   *)
(* item records what it has downloaded and verified as a std::set of       *)
(* segments (QueueItem::done); addSegment inserts a segment and            *)
(* consolidates the set.  All operators are functions of their arguments,  *)
(* so that theorems can be proved about them.                              *)
(***************************************************************************)
EXTENDS Integers

CONSTANTS
  Size,       \* size of the file in bytes
  BlockSize   \* bytes per leaf of the Merkle tree the file is verified with

ASSUME SizeAssumption == Size \in Nat \ {0}
ASSUME BlockAssumption == BlockSize \in Nat \ {0}

(***************************************************************************)
(* Segments.  The overlapped flag of the C++ class takes no part in == and *)
(* <; it is kept with the download that carries it (FileDownload).         *)
(***************************************************************************)
Segment(st, sz) == [start |-> st, size |-> sz]
SegmentType == [start : Nat, size : Nat \ {0}]

End(s) == s.start + s.size

Overlaps(s, t) == s.start < End(t) /\ t.start < End(s)

\* s holds t and both end at the same byte
Contains(s, t) == s.start <= t.start /\ End(s) = End(t)

Less(s, t) == s.start < t.start \/ (s.start = t.start /\ s.size < t.size)

WholeFile == Segment(0, Size)

\* The bytes of a segment, and of a set of segments.
Bytes(s) == s.start .. End(s) - 1
Covered(D) == UNION {Bytes(s) : s \in D}

AlignDown(x) == x - (x % BlockSize)

\* Util::roundDown and Util::roundUp; the former rounds to the NEAREST multiple.
RoundDown(x) == ((x + BlockSize \div 2) \div BlockSize) * BlockSize
RoundUp(x) == ((x + BlockSize - 1) \div BlockSize) * BlockSize
Lowest(a, b) == IF a <= b THEN a ELSE b

(***************************************************************************)
(* QueueItem::addSegment.  The set before the call is consolidated (see    *)
(* Consolidated), so the consolidating loop can only merge the new segment *)
(* with its predecessor in the order Less, when that one reaches it, and   *)
(* then with its successor, when that one starts no later than its end.    *)
(* Every merge takes the END OF THE LATER segment, whatever the earlier    *)
(* one reached.  SegmentLoops states the loop itself.                      *)
(***************************************************************************)
Before(D, s) == {d \in D : Less(d, s) /\ End(d) >= s.start}

After(D, s) == {d \in D : /\ Less(s, d)
                          /\ d.start <= End(s)
                          /\ \A e \in D : Less(s, e) => ~Less(e, d)}

MergedStart(D, s) ==
  IF Before(D, s) = {} THEN s.start ELSE (CHOOSE d \in Before(D, s) : TRUE).start
MergedEnd_Own(D, s) == End(s)
MergedEnd(D, s) ==
  IF After(D, s) = {} THEN End(s) ELSE End(CHOOSE d \in After(D, s) : TRUE)

AddSegment_NoMerge(D, s) == D \cup {s}
AddSegment_NoTouch(D, s) ==      \* merges overlaps, not neighbours
  LET near == {d \in D : Overlaps(d, s)} IN
  IF near = {} THEN D \cup {s}
  ELSE (D \ near) \cup {Segment(MergedStart(D, s), MergedEnd(D, s) - MergedStart(D, s))}

AddSegment(D, s) ==
  IF s \in D THEN D
  ELSE (D \ (Before(D, s) \cup After(D, s)))
         \cup {Segment(MergedStart(D, s), MergedEnd(D, s) - MergedStart(D, s))}

IsFinished(D) == D = {WholeFile}

\* What addSegment keeps true of the set: two segments never touch.
Consolidated(D) ==
  \A s, t \in D : s # t => End(s) < t.start \/ End(t) < s.start

\* A segment of whole blocks of the file, of which the last may be short.
OnBoundary(s) == /\ s.start % BlockSize = 0
                 /\ End(s) <= Size
                 /\ End(s) % BlockSize = 0 \/ End(s) = Size

(***************************************************************************)
(* QueueItem::isChunkDownloaded: the number of bytes, out of len wanted at *)
(* pos, that can be read from the unfinished file; 0 when it answers false.*)
(***************************************************************************)
Holding(D, pos) == {d \in D : d.start <= pos /\ pos < End(d)}

ChunkDownloaded_NoClip(D, pos, len) ==
  IF len <= 0 \/ Holding(D, pos) = {} THEN 0 ELSE len

ChunkDownloaded(D, pos, len) ==
  IF len <= 0 \/ Holding(D, pos) = {} THEN 0
  ELSE Lowest(len, End(CHOOSE d \in Holding(D, pos) : TRUE) - pos)

(***************************************************************************)
(* QueueItem::getNextSegment for a source that has the whole file.         *)
(*                                                                         *)
(* MULTI_CHUNK: the scan tries, at each block boundary, the target size    *)
(* and then one block less at a time, down to one block, and returns the   *)
(* first candidate that meets neither a running download nor a finished    *)
(* segment; a candidate of a single block is rejected only when one        *)
(* finished segment holds all of it.  blocks is the target size in blocks. *)
(***************************************************************************)
Candidate(st, n) == Segment(st, Lowest(Size, st + n * BlockSize) - st)

IsFree_IgnoresRunning(D, R, st, n) ==
  LET c == Candidate(st, n) IN
  IF n = 1 THEN \A d \in D : ~(d.start <= st /\ End(d) >= End(c))
           ELSE \A d \in D : ~Overlaps(c, d)
IsFree_Within(D, R, st, n) ==    \* only a finished segment that holds it all counts
  LET c == Candidate(st, n) IN
  /\ \A r \in R : ~Overlaps(c, r)
  /\ \A d \in D : ~(d.start <= st /\ End(d) >= End(c))

IsFree(D, R, st, n) ==
  LET c == Candidate(st, n) IN
  /\ \A r \in R : ~Overlaps(c, r)
  /\ IF n = 1 THEN \A d \in D : ~(d.start <= st /\ End(d) >= End(c))
              ELSE \A d \in D : ~Overlaps(c, d)

ScanPoints == {st \in 0 .. Size - 1 : st % BlockSize = 0}

FreeSegments(D, R, blocks) ==
  {Candidate(p[1], p[2]) : p \in
     {q \in ScanPoints \X (1 .. blocks) :
        /\ IsFree(D, R, q[1], q[2])
        /\ \A n \in q[2] + 1 .. blocks : ~IsFree(D, R, q[1], n)
        /\ \A st \in ScanPoints, n \in 1 .. blocks :
             st < q[1] => ~IsFree(D, R, st, n)}}

\* Without MULTI_CHUNK: one download at a time, of the first gap in done.
FirstOf(D) == CHOOSE d \in D : \A e \in D : d = e \/ Less(d, e)

FirstGap_ToTheEnd(D) ==      \* forgets the second finished segment
  IF D = {} THEN WholeFile
  ELSE LET from == IF FirstOf(D).start > 0 THEN 0 ELSE RoundDown(End(FirstOf(D)))
       IN  Segment(from, Size - from)

FirstGap(D) ==
  IF D = {} THEN WholeFile
  ELSE LET first == FirstOf(D)
           rest  == D \ {first}
           from  == IF first.start > 0 THEN 0 ELSE RoundDown(End(first))
           to    == IF first.start > 0 THEN RoundUp(first.start)
                    ELSE IF rest = {} THEN Size
                    ELSE RoundUp(FirstOf(rest).start)
       IN  Segment(from, Lowest(Size, to) - from)

\* The tail of a slow chunk, from the block its download is in.
SlowTail(s, pos) == Segment(s.start + AlignDown(pos), s.size - AlignDown(pos))
=============================================================================
