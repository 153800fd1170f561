---------------------------- MODULE SegmentSets -----------------------------
(***************************************************************************)
(* A queue item's set of finished segments under every sequence of         *)
(* addSegment calls, and what the operators of Segments promise about it.  *)
(***************************************************************************)
EXTENDS Segments

CONSTANT MaxRunning   \* bound on the downloads that run when another is asked for

ASSUME MaxRunningAssumption == MaxRunning \in Nat

VARIABLE done

\* Segments addSegment is called with: non-empty and inside the file.
Legal == {s \in [start : 0 .. Size - 1, size : 1 .. Size] : End(s) <= Size}

Init == done = {}
Add(s) == done' = AddSegment(done, s)
Next == \E s \in Legal : Add(s)
Spec == Init /\ [][Next]_done

(***************************************************************************)
(* Two finished segments never touch or overlap, whatever was added.  The  *)
(* consolidation in QueueItem::addSegment keeps this, and isFinished,      *)
(* which wants exactly one segment, relies on it.                          *)
(***************************************************************************)
DoneConsolidated == Consolidated(done)

(***************************************************************************)
(* isFinished (one segment equal to the whole file) recognises exactly the *)
(* sets that cover every byte.                                             *)
(***************************************************************************)
FinishedIffAllCovered == IsFinished(done) <=> Covered(done) = 0 .. Size - 1

(***************************************************************************)
(* addSegment loses no byte when the new segment is not strictly inside a  *)
(* finished one and covers none: the case of every segment that            *)
(* getNextSegment chose while no running download overlapped another.      *)
(***************************************************************************)
Inside(s, t) == t.start <= s.start /\ End(s) < End(t)
KeepsAllWhenNotNested ==
  \A s \in Legal :
    (\A d \in done : ~Inside(s, d) /\ ~Inside(d, s))
      => Covered(AddSegment(done, s)) = Covered(done) \cup Bytes(s)

(***************************************************************************)
(* What isChunkDownloaded says an uploader may send from the unfinished    *)
(* file has been downloaded and verified, byte for byte, and it answers    *)
(* for every byte that has.                                                *)
(***************************************************************************)
OffersOnlyDone ==
  \A pos \in 0 .. Size - 1, len \in 1 .. Size :
    LET n == ChunkDownloaded(done, pos, len) IN
    /\ pos .. pos + n - 1 \subseteq Covered(done)
    /\ n = 0 <=> pos \notin Covered(done)
    /\ n < len /\ n > 0 => pos + n \notin Covered(done)

AlignedByte(x) == x % BlockSize = 0 \/ x = Size
Aligned(D) == \A d \in D : AlignedByte(d.start) /\ AlignedByte(End(d))

\* What may be being downloaded: at most MaxRunning segments, any of the file.
RunningSets ==
  {{}} \cup {{r[i] : i \in 1 .. MaxRunning} : r \in [1 .. MaxRunning -> Legal]}

(***************************************************************************)
(* A segment getNextSegment hands out starts on a block boundary, holds a  *)
(* byte that is still missing and no byte that is being downloaded; and it *)
(* finds one whenever some whole block is neither finished nor touched by  *)
(* a running download.  With block-aligned finished segments, the only     *)
(* kind putDownload adds, it holds no finished byte either.                *)
(***************************************************************************)
NextSegmentUseful ==
  \A R \in RunningSets, blocks \in 1 .. RoundUp(Size) \div BlockSize :
    LET found == FreeSegments(done, R, blocks) IN
    /\ \A c \in found : /\ c.start % BlockSize = 0
                        /\ ~(Bytes(c) \subseteq Covered(done))
                        /\ Bytes(c) \cap Covered(R) = {}
                        /\ Aligned(done) => Bytes(c) \cap Covered(done) = {}
    /\ found = {} => \A st \in ScanPoints :
          LET c == Bytes(Candidate(st, 1)) IN
          c \subseteq Covered(done) \/ c \cap Covered(R) # {}

(***************************************************************************)
(* Without MULTI_CHUNK, and with block-aligned finished segments, the gap  *)
(* chosen by getNextSegment is the first run of missing bytes: its start   *)
(* survives Util::roundDown, which rounds to the nearest boundary, and its *)
(* end survives Util::roundUp.                                             *)
(***************************************************************************)
GapIsFirstMissing ==
  Aligned(done) /\ ~IsFinished(done) =>
    LET gap == FirstGap(done)
        missing == (0 .. Size - 1) \ Covered(done)
        first == CHOOSE b \in missing : \A c \in missing : b <= c
    IN Bytes(gap) = {b \in missing : first .. b \subseteq missing}
=============================================================================
