------------------------- MODULE SegmentSets_proofs --------------------------
(***************************************************************************)
(* Theorems about SegmentSets, for any size of the file and of its blocks: *)
(* what every set that addSegment can build is like, what isFinished,      *)
(* isChunkDownloaded and getNextSegment answer on it, and that the closed  *)
(* forms of addSegment and getNextSegment are the loops of the code.       *)
(***************************************************************************)
EXTENDS SegmentLoops, SegmentLemmas, FiniteSetTheorems

\* The inductive invariant: consolidated, and inside the file.
SInv ==
  /\ done \in SUBSET SegmentType
  /\ Consolidated(done)
  /\ \A d \in done : End(d) <= Size

LEMMA LegalFact == Legal \subseteq SegmentType /\ \A s \in Legal : End(s) <= Size
BY SizeAssumption DEF Legal, SegmentType

LEMMA AddKeeps == ASSUME SInv, NEW s \in Legal, Add(s)  PROVE SInv'
<1>1. s \in SegmentType /\ End(s) <= Size  BY LegalFact
<1>2. done' = AddSegment(done, s)  BY DEF Add
<1>3. done' \in SUBSET SegmentType /\ Consolidated(done')
  BY <1>1, <1>2, AddSegmentType, AddSegmentConsolidated DEF SInv
<1>4. \A d \in done' : End(d) <= Size
  <2>1. CASE s \in done  BY <1>2, <2>1 DEF AddSegment, SInv
  <2>2. CASE s \notin done
    <3>1. MergedEnd(done, s) <= Size
      <4>1. \A a \in After(done, s) : End(a) <= Size  BY DEF After, SInv
      <4>. QED  BY <1>1, <4>1, EndFact DEF SInv
    <3>2. End(Merged(done, s)) <= Size  BY <1>1, <3>1, MergedType DEF SInv
    <3>. QED  BY <1>1, <1>2, <2>2, <3>2, AddSegmentShape DEF SInv
  <2>. QED  BY <2>1, <2>2
<1>. QED  BY <1>3, <1>4 DEF SInv

LEMMA SetsInvariance == Spec => []SInv
<1>1. Init => SInv  BY DEF Init, SInv, Consolidated
<1>2. SInv /\ [Next]_done => SInv'
  <2>1. SUFFICES ASSUME SInv, [Next]_done  PROVE SInv'  OBVIOUS
  <2>2. CASE done' = done  BY <2>1, <2>2 DEF SInv
  <2>3. CASE Next  BY <2>1, <2>3, AddKeeps DEF Next
  <2>. QED  BY <2>1, <2>2, <2>3
<1>. QED  BY <1>1, <1>2, PTL DEF Spec

-----------------------------------------------------------------------------
\* The set QueueItem::done is consolidated after any sequence of calls of
\* addSegment, with any segments of the file.
THEOREM DoneStaysConsolidated == Spec => []DoneConsolidated
<1>1. SInv => DoneConsolidated  BY DEF SInv, DoneConsolidated
<1>. QED  BY <1>1, SetsInvariance, PTL

\* isFinished answers true exactly when the finished segments cover every byte
\* of the file (which an addSegment within one of them may have forgotten).
THEOREM FinishedMeansAll == Spec => []FinishedIffAllCovered
<1>1. SInv => FinishedIffAllCovered
  BY AllCovered, FinishedCovers DEF SInv, FinishedIffAllCovered
<1>. QED  BY <1>1, SetsInvariance, PTL

\* addSegment loses nothing, as long as no segment lies within another.
THEOREM NothingLost == Spec => []KeepsAllWhenNotNested
<1>1. ASSUME SInv, NEW s \in Legal, \A d \in done : ~Inside(s, d) /\ ~Inside(d, s)
      PROVE  Covered(AddSegment(done, s)) = Covered(done) \cup Bytes(s)
  <2>1. \A d \in done : /\ ~(d.start <= s.start /\ End(s) < End(d))
                        /\ ~(s.start <= d.start /\ End(d) < End(s))
    BY <1>1 DEF Inside
  <2>. QED  BY <1>1, <2>1, LegalFact, AddSegmentAllBytes DEF SInv
<1>2. SInv => KeepsAllWhenNotNested  BY <1>1 DEF KeepsAllWhenNotNested
<1>. QED  BY <1>2, SetsInvariance, PTL

-----------------------------------------------------------------------------
(* isChunkDownloaded.                                                      *)

LEMMA ChunkFact ==
  ASSUME SInv, NEW pos \in 0 .. Size - 1, NEW len \in 1 .. Size
  PROVE  LET n == ChunkDownloaded(done, pos, len) IN
         /\ pos .. pos + n - 1 \subseteq Covered(done)
         /\ n = 0 <=> pos \notin Covered(done)
         /\ n < len /\ n > 0 => pos + n \notin Covered(done)
<1>. DEFINE n == ChunkDownloaded(done, pos, len)
<1>0. pos \in Nat /\ len \in Nat \ {0}  BY SizeAssumption
<1>1. \A d \in done : d.start \in Nat /\ d.size \in Nat \ {0}  BY DEF SInv, SegmentType
<1>2. \A d \in done : pos \in Bytes(d) <=> d \in Holding(done, pos)
  BY <1>0, <1>1 DEF Holding, Bytes, End
<1>3. CASE Holding(done, pos) = {}
  <2>1. n = 0  BY <1>3 DEF ChunkDownloaded
  <2>2. pos \notin Covered(done)  BY <1>2, <1>3 DEF Covered
  <2>. HIDE DEF n
  <2>3. pos .. pos + n - 1 = {}  BY <1>0, <2>1
  <2>4. ~(n > 0)  BY <2>1
  <2>5. /\ pos .. pos + n - 1 \subseteq Covered(done)
        /\ n = 0 <=> pos \notin Covered(done)
        /\ n < len /\ n > 0 => pos + n \notin Covered(done)
    BY <2>1, <2>2, <2>3, <2>4
  <2>. QED  BY <2>5 DEF n
<1>4. CASE Holding(done, pos) # {}
  <2>. DEFINE d == CHOOSE x \in Holding(done, pos) : TRUE
  <2>1. d \in Holding(done, pos)  BY <1>4
  <2>2. n = Lowest(len, End(d) - pos)  BY <1>0, <1>4 DEF ChunkDownloaded
  <2>. HIDE DEF d, n
  <2>3. d \in done /\ d.start <= pos /\ pos < End(d)  BY <2>1 DEF Holding
  <2>4. End(d) \in Nat  BY <1>1, <2>3 DEF End
  <2>5. n \in 1 .. len /\ pos + n <= End(d) /\ (n < len => pos + n = End(d))
    BY <1>0, <2>2, <2>3, <2>4 DEF Lowest
  <2>6. pos .. pos + n - 1 \subseteq Covered(done)
    BY <1>0, <1>1, <2>3, <2>4, <2>5 DEF Covered, Bytes
  <2>7. pos \in Covered(done)  BY <1>2, <2>1, <2>3 DEF Covered
  <2>8. n < len => pos + n \notin Covered(done)
    <3>1. SUFFICES ASSUME NEW e \in done, End(d) \in Bytes(e)  PROVE FALSE
      BY <2>5 DEF Covered
    <3>2. e.start <= End(d) /\ End(d) < End(e)  BY <1>1, <2>4, <3>1 DEF Bytes, End
    <3>3. e # d  BY <2>4, <3>2
    <3>4. End(d) < e.start \/ End(e) < d.start  BY <2>3, <3>3 DEF SInv, Consolidated
    <3>. QED  BY <1>1, <2>3, <3>2, <3>4 DEF End
  <2>9. n # 0  BY <2>5
  <2>. QED  BY <2>6, <2>7, <2>8, <2>9 DEF n
<1>. QED  BY <1>3, <1>4

\* An uploader who serves the unfinished file (isChunkDownloaded) sends only
\* bytes that are downloaded and verified, and every one that is.
THEOREM OnlyDoneIsOffered == Spec => []OffersOnlyDone
<1>1. SInv => OffersOnlyDone  BY ChunkFact DEF OffersOnlyDone
<1>. QED  BY <1>1, SetsInvariance, PTL

-----------------------------------------------------------------------------
(* getNextSegment.                                                         *)

LEMMA AlignedFact == ASSUME SInv, Aligned(done)
                     PROVE  \A d \in done : OnBoundary(d)
<1>1. SUFFICES ASSUME NEW d \in done  PROVE OnBoundary(d)  OBVIOUS
<1>2. d.start \in Nat /\ d.size \in Nat \ {0} /\ End(d) <= Size  BY DEF SInv, SegmentType
<1>3. d.start # Size  BY <1>2, SizeAssumption DEF End
<1>. QED  BY <1>2, <1>3 DEF Aligned, AlignedByte, OnBoundary

\* Segments that share no byte do not overlap, and the other way round.
LEMMA SharedByte == ASSUME NEW s \in SegmentType, NEW t \in SegmentType
                    PROVE  Overlaps(s, t) <=> Bytes(s) \cap Bytes(t) # {}
<1>1. s.start \in Nat /\ s.size \in Nat \ {0} /\ t.start \in Nat /\ t.size \in Nat \ {0}
  BY DEF SegmentType
<1>2. ASSUME Overlaps(s, t)  PROVE Bytes(s) \cap Bytes(t) # {}
  <2>1. CASE s.start <= t.start
    <3>1. t.start \in Bytes(s) /\ t.start \in Bytes(t)  BY <1>1, <1>2, <2>1 DEF Overlaps, Bytes, End
    <3>. QED  BY <3>1
  <2>2. CASE t.start <= s.start
    <3>1. s.start \in Bytes(s) /\ s.start \in Bytes(t)  BY <1>1, <1>2, <2>2 DEF Overlaps, Bytes, End
    <3>. QED  BY <3>1
  <2>. QED  BY <1>1, <2>1, <2>2
<1>3. ASSUME NEW b \in Bytes(s) \cap Bytes(t)  PROVE Overlaps(s, t)
  BY <1>1, <1>3 DEF Overlaps, Bytes, End
<1>. QED  BY <1>2, <1>3

\* Bytes that follow each other and are finished are in one segment.
LEMMA HeldByOne ==
  ASSUME SInv, NEW c \in SegmentType, Bytes(c) \subseteq Covered(done)
  PROVE  \E d \in done : d.start <= c.start /\ End(d) >= End(c)
<1>1. c.start \in Nat /\ c.size \in Nat \ {0}  BY DEF SegmentType
<1>2. \A d \in done : d.start \in Nat /\ d.size \in Nat \ {0}  BY DEF SInv, SegmentType
<1>3. c.start \in Bytes(c)  BY <1>1 DEF Bytes, End
<1>4. PICK d \in done : c.start \in Bytes(d)  BY <1>3 DEF Covered
<1>5. d.start <= c.start /\ c.start < End(d)  BY <1>1, <1>2, <1>4 DEF Bytes, End
<1>6. End(d) >= End(c)
  <2>1. SUFFICES ASSUME End(d) < End(c)  PROVE FALSE  BY <1>1, <1>2 DEF End
  <2>2. End(d) \in Bytes(c)  BY <1>1, <1>2, <1>5, <2>1 DEF Bytes, End
  <2>3. PICK e \in done : End(d) \in Bytes(e)  BY <2>2 DEF Covered
  <2>4. e.start <= End(d) /\ End(d) < End(e)  BY <1>2, <2>3 DEF Bytes, End
  <2>5. e # d  BY <1>2, <2>4 DEF End
  <2>6. End(d) < e.start \/ End(e) < d.start  BY <2>5 DEF SInv, Consolidated
  <2>. QED  BY <1>2, <2>4, <2>6 DEF End
<1>. QED  BY <1>5, <1>6

\* However many downloads run, theirs are segments.
LEMMA RunningFact ==
  ASSUME NEW R \in RunningSets
  PROVE  R \in SUBSET SegmentType
<1>1. CASE R = {}  BY <1>1
<1>2. ASSUME NEW r \in [1 .. MaxRunning -> Legal], R = {r[i] : i \in 1 .. MaxRunning}
      PROVE  R \in SUBSET SegmentType
  BY <1>2, LegalFact
<1>. QED  BY <1>1, <1>2 DEF RunningSets

LEMMA FoundIsUseful ==
  ASSUME SInv, NEW R \in RunningSets, NEW blocks \in 1 .. RoundUp(Size) \div BlockSize,
         NEW c \in FreeSegments(done, R, blocks)
  PROVE  /\ c.start % BlockSize = 0
         /\ ~(Bytes(c) \subseteq Covered(done))
         /\ Bytes(c) \cap Covered(R) = {}
         /\ Aligned(done) => Bytes(c) \cap Covered(done) = {}
<1>1. PICK p \in ScanPoints \X (1 .. blocks) : c = Candidate(p[1], p[2]) /\ IsFree(done, R, p[1], p[2])
  BY DEF FreeSegments
<1>2. p[1] \in ScanPoints /\ p[2] \in Nat \ {0}  BY <1>1, OneBlock
<1>3. c \in SegmentType /\ OnBoundary(c)  BY <1>1, <1>2, CandidateFact
<1>4. R \in SUBSET SegmentType /\ done \in SUBSET SegmentType
  BY RunningFact DEF SInv
<1>5. c.start = p[1]  BY <1>1 DEF Candidate, Segment
<1>6. ~(Bytes(c) \subseteq Covered(done))
  <2>1. SUFFICES ASSUME Bytes(c) \subseteq Covered(done)  PROVE FALSE  OBVIOUS
  <2>2. PICK d \in done : d.start <= c.start /\ End(d) >= End(c)  BY <1>3, <2>1, HeldByOne
  <2>3. Overlaps(c, d)
    BY <1>3, <1>4, <2>2 DEF SegmentType, Overlaps, End
  <2>. QED  BY <1>1, <1>5, <2>2, <2>3 DEF IsFree
<1>7. Bytes(c) \cap Covered(R) = {}
  <2>1. \A r \in R : ~Overlaps(c, r)  BY <1>1 DEF IsFree
  <2>2. \A r \in R : Bytes(c) \cap Bytes(r) = {}  BY <1>3, <1>4, <2>1, SharedByte
  <2>. QED  BY <2>2 DEF Covered
<1>8. ASSUME Aligned(done)  PROVE Bytes(c) \cap Covered(done) = {}
  <2>1. \A d \in done : OnBoundary(d)  BY <1>8, AlignedFact
  <2>2. \A d \in done : ~Overlaps(c, d)  BY <1>1, <1>2, <1>4, <2>1, FreeMeetsNothing
  <2>3. \A d \in done : Bytes(c) \cap Bytes(d) = {}  BY <1>3, <1>4, <2>2, SharedByte
  <2>. QED  BY <2>3 DEF Covered
<1>. QED  BY <1>3, <1>6, <1>7, <1>8 DEF OnBoundary

LEMMA NoneFound ==
  ASSUME SInv, NEW R \in RunningSets, NEW blocks \in 1 .. RoundUp(Size) \div BlockSize,
         FreeSegments(done, R, blocks) = {}, NEW st \in ScanPoints
  PROVE  LET c == Bytes(Candidate(st, 1))
         IN  c \subseteq Covered(done) \/ c \cap Covered(R) # {}
<1>. DEFINE c == Candidate(st, 1)
<1>1. SUFFICES ASSUME ~(Bytes(c) \subseteq Covered(done)), Bytes(c) \cap Covered(R) = {}
               PROVE  FALSE
  OBVIOUS
<1>2. blocks \in Nat /\ 1 \in 1 .. blocks  BY OneBlock
<1>3. c \in SegmentType  BY CandidateFact
<1>4. R \in SUBSET SegmentType /\ done \in SUBSET SegmentType
  BY RunningFact DEF SInv
<1>5. \A r \in R : ~Overlaps(c, r)
  <2>1. \A r \in R : Bytes(c) \cap Bytes(r) = {}  BY <1>1 DEF Covered
  <2>. QED  BY <1>3, <1>4, <2>1, SharedByte
<1>6. \A d \in done : ~(d.start <= st /\ End(d) >= End(c))
  <2>1. SUFFICES ASSUME NEW d \in done, d.start <= st, End(d) >= End(c)  PROVE FALSE  OBVIOUS
  <2>2. c.start = st  BY DEF Candidate, Segment
  <2>. HIDE DEF c
  <2>3. Bytes(c) \subseteq Bytes(d)  BY <1>3, <1>4, <2>1, <2>2 DEF Bytes, End, SegmentType
  <2>. QED  BY <1>1, <2>3 DEF Covered
<1>7. IsFree(done, R, st, 1)  BY <1>5, <1>6 DEF IsFree
<1>. QED  BY <1>2, <1>7, ScanFinds

\* What getNextSegment hands out holds a byte that is missing and none that is
\* being fetched, and none that is finished if the finished segments are
\* aligned; and it hands out something while a whole block is neither finished
\* nor touched by a running download, however many of them there are.
THEOREM NextSegmentIsUseful == Spec => []NextSegmentUseful
<1>1. SInv => NextSegmentUseful  BY FoundIsUseful, NoneFound DEF NextSegmentUseful
<1>. QED  BY <1>1, SetsInvariance, PTL

LEMMA GapFact ==
  ASSUME SInv, Aligned(done), ~IsFinished(done)
  PROVE  LET gap == FirstGap(done)
             missing == (0 .. Size - 1) \ Covered(done)
             first == CHOOSE b \in missing : \A c \in missing : b <= c
         IN  Bytes(gap) = {b \in missing : first .. b \subseteq missing}
<1>. DEFINE gap == FirstGap(done)
            missing == (0 .. Size - 1) \ Covered(done)
            first == CHOOSE b \in missing : \A c \in missing : b <= c
<1>1. SegmentsOK(done)  BY AlignedFact DEF SegmentsOK, SInv
<1>2. /\ gap \in SegmentType /\ End(gap) <= Size
      /\ 0 .. gap.start - 1 \subseteq Covered(done)
      /\ Bytes(gap) \cap Covered(done) = {}
      /\ End(gap) = Size \/ End(gap) \in Covered(done)
  BY <1>1, GapIsFirst DEF SInv
<1>3. gap.start \in Nat /\ gap.size \in Nat \ {0}  BY <1>2 DEF SegmentType
<1>. HIDE DEF gap
<1>4. Bytes(gap) \subseteq missing  BY <1>2, <1>3, SizeAssumption DEF Bytes, End
<1>5. gap.start \in missing  BY <1>3, <1>4 DEF Bytes, End
<1>6. \A c \in missing : gap.start <= c  BY <1>2, <1>3, SizeAssumption
<1>7. missing \subseteq Int  OBVIOUS
<1>8. first = gap.start
  <2>. HIDE DEF missing
  <2>1. first \in missing /\ \A c \in missing : first <= c  BY <1>5, <1>6
  <2>. HIDE DEF first
  <2>2. first <= gap.start /\ gap.start <= first  BY <1>5, <1>6, <2>1
  <2>3. first \in Int /\ gap.start \in Int  BY <1>3, <1>7, <2>1
  <2>. QED  BY <2>2, <2>3
<1>. HIDE DEF first
<1>9. ASSUME NEW b \in Bytes(gap)  PROVE b \in missing /\ first .. b \subseteq missing
  <2>1. first .. b \subseteq Bytes(gap)  BY <1>3, <1>8 DEF Bytes, End
  <2>. QED  BY <1>4, <2>1
<1>10. ASSUME NEW b \in missing, first .. b \subseteq missing  PROVE b \in Bytes(gap)
  <2>1. b \in Nat /\ b < Size /\ gap.start <= b  BY <1>6, SizeAssumption
  <2>2. b < End(gap)
    <3>1. SUFFICES ASSUME b >= End(gap)  PROVE FALSE  BY <1>3, <2>1 DEF End
    <3>2. End(gap) \in first .. b  BY <1>3, <1>8, <2>1, <3>1 DEF End
    <3>3. End(gap) \in missing  BY <1>10, <3>2
    <3>. QED  BY <1>2, <2>1, <3>1, <3>3, SizeAssumption
  <2>. QED  BY <1>3, <2>1, <2>2 DEF Bytes, End
<1>11. Bytes(gap) = {b \in missing : first .. b \subseteq missing}
  <2>. HIDE DEF missing, first
  <2>. QED  BY <1>9, <1>10
<1>. QED  BY <1>11 DEF gap, first

\* Without MULTI_CHUNK: what is asked for is the first run of missing bytes.
THEOREM GapIsFirstRun == Spec => []GapIsFirstMissing
<1>1. SInv => GapIsFirstMissing  BY GapFact DEF GapIsFirstMissing
<1>. QED  BY <1>1, SetsInvariance, PTL

-----------------------------------------------------------------------------
(***************************************************************************)
(* The scan of getNextSegment.  What it returns from a place on is, of the *)
(* candidates that are still to come, the first that is free.              *)
(***************************************************************************)
ToCome(start, n, blocks) ==
  {q \in ScanPoints \X (1 .. blocks) : start < q[1] \/ (start = q[1] /\ q[2] <= n)}
Sooner(r, q) == r[1] < q[1] \/ (r[1] = q[1] /\ q[2] < r[2])

First(D, R, T) == {q \in T : /\ IsFree(D, R, q[1], q[2])
                             /\ \A r \in T : Sooner(r, q) => ~IsFree(D, R, r[1], r[2])}
FirstFree(D, R, T) == {Candidate(p[1], p[2]) : p \in First(D, R, T)}

\* The body of the loop, f being what it returns from elsewhere.
ScanStep(D, R, blocks, f, start, curSize) ==
  LET end   == Lowest(Size, start + curSize)
      block == Segment(start, end - start)
  IN  IF start >= Size THEN {}
      ELSE IF ~Taken(D, R, block, curSize) THEN {block}
      ELSE IF curSize > BlockSize THEN f[<<start, curSize - BlockSize>>]
      ELSE f[<<end, blocks * BlockSize>>]

IsScan(D, R, blocks, f) ==
  f = [at \in ScanPlaces(blocks) |-> ScanStep(D, R, blocks, f, at[1], at[2])]

ScanStarts == ScanPoints \cup {Size}
OneBlockOn(start) == Lowest(Size, start + BlockSize)

LEMMA ScanIs == ASSUME NEW D, NEW R, NEW blocks
                PROVE  NextSegmentScan(D, R, blocks)
                         = (CHOOSE f : IsScan(D, R, blocks, f))[<<0, blocks * BlockSize>>]
BY DEF NextSegmentScan, IsScan, ScanStep

LEMMA PointFact == ASSUME NEW st \in ScanPoints
                   PROVE  st \in Nat /\ st < Size /\ st % BlockSize = 0
BY SizeAssumption DEF ScanPoints

LEMMA SizesFact == ASSUME NEW n \in Nat \ {0}
                   PROVE  /\ n * BlockSize \in Nat /\ (n * BlockSize) \div BlockSize = n
                          /\ n * BlockSize > BlockSize <=> n > 1
                          /\ n * BlockSize - BlockSize = (n - 1) * BlockSize
                          /\ 1 * BlockSize = BlockSize
BY BlockAssumption

\* A block on from a boundary is the next boundary, or the end of the file.
LEMMA NextStart == ASSUME NEW st \in ScanPoints
                   PROVE  /\ OneBlockOn(st) \in ScanStarts /\ st < OneBlockOn(st)
                          /\ \A x \in ScanPoints : st < x => OneBlockOn(st) <= x
<1>1. st \in Nat /\ st < Size /\ st % BlockSize = 0  BY PointFact
<1>2. BlockSize % BlockSize = 0  BY WholeBlocks, SizesFact
<1>3. (st + BlockSize) % BlockSize = 0  BY <1>1, <1>2, BoundarySum, BlockAssumption
<1>4. OneBlockOn(st) \in ScanStarts
  <2>1. CASE st + BlockSize < Size
    BY <1>1, <1>3, <2>1, SizeAssumption, BlockAssumption DEF OneBlockOn, Lowest, ScanStarts, ScanPoints
  <2>2. CASE ~(st + BlockSize < Size)
    BY <1>1, <2>2, SizeAssumption, BlockAssumption DEF OneBlockOn, Lowest, ScanStarts
  <2>. QED  BY <2>1, <2>2
<1>5. ASSUME NEW x \in ScanPoints, st < x  PROVE OneBlockOn(st) <= x
  <2>1. x \in Nat /\ x < Size /\ x % BlockSize = 0  BY PointFact
  <2>2. st + BlockSize <= x
    BY <1>1, <1>3, <1>5, <2>1, NextBoundary, BlockAssumption
  <2>. QED  BY <1>1, <2>1, <2>2, SizeAssumption, BlockAssumption DEF OneBlockOn, Lowest
<1>6. st < OneBlockOn(st)  BY <1>1, SizeAssumption, BlockAssumption DEF OneBlockOn, Lowest
<1>. QED  BY <1>4, <1>5, <1>6

\* The test in the loop is the one of the closed form.
LEMMA TakenIs == ASSUME NEW D, NEW R, NEW st \in ScanPoints, NEW n \in Nat \ {0}
                 PROVE  Taken(D, R, Candidate(st, n), n * BlockSize) <=> ~IsFree(D, R, st, n)
<1>1. n * BlockSize <= BlockSize <=> n = 1  BY SizesFact, BlockAssumption
<1>2. Candidate(st, n).start = st  BY DEF Candidate, Segment
<1>. QED  BY <1>1, <1>2 DEF Taken, IsFree

\* A candidate that is not free may be passed by.
LEMMA PassBy == ASSUME NEW D, NEW R, NEW S, NEW T, NEW q, T = S \cup {q},
                       ~IsFree(D, R, q[1], q[2])
                PROVE  First(D, R, T) = First(D, R, S)
BY DEF First

LEMMA StepIs ==
  ASSUME NEW D, NEW R, NEW blocks \in Nat, NEW start \in ScanStarts, NEW n \in 1 .. blocks, NEW f,
         n > 1 => f[<<start, (n - 1) * BlockSize>>] = FirstFree(D, R, ToCome(start, n - 1, blocks)),
         start < Size => f[<<OneBlockOn(start), blocks * BlockSize>>]
                           = FirstFree(D, R, ToCome(OneBlockOn(start), blocks, blocks))
  PROVE  ScanStep(D, R, blocks, f, start, n * BlockSize) = FirstFree(D, R, ToCome(start, n, blocks))
<1>. DEFINE T == ToCome(start, n, blocks)
            q == <<start, n>>
<1>1. CASE start = Size
  <2>1. T = {}
    BY <1>1, PointFact, SizeAssumption DEF ToCome
  <2>2. FirstFree(D, R, T) = {}  BY <2>1 DEF FirstFree, First
  <2>. QED  BY <1>1, <2>2, SizeAssumption DEF ScanStep
<1>2. CASE start # Size
  <2>1. start \in ScanPoints /\ start \in Nat /\ start < Size  BY <1>2, PointFact DEF ScanStarts
  <2>2. n \in Nat \ {0}  OBVIOUS
  <2>3. Segment(start, Lowest(Size, start + n * BlockSize) - start) = Candidate(start, n)
    BY DEF Candidate
  <2>4. /\ \A st \in ScanPoints : st \in Nat
        /\ q \in T /\ q[1] = start /\ q[2] = n
    BY <2>1, PointFact DEF ToCome
  <2>5. CASE IsFree(D, R, start, n)
    <3>1. \A r \in T : r = q \/ Sooner(q, r)
      <4>1. TAKE r \in T
      <4>2. r = <<r[1], r[2]>> /\ r[1] \in Nat /\ r[2] \in Int /\ (start < r[1] \/ (start = r[1] /\ r[2] <= n))
        BY <2>4 DEF ToCome
      <4>. QED  BY <2>2, <2>4, <4>2 DEF Sooner
    <3>2. \A r \in T : ~Sooner(r, q)
      <4>1. TAKE r \in T
      <4>2. r[1] \in Nat /\ r[2] \in Int /\ (start < r[1] \/ (start = r[1] /\ r[2] <= n))
        BY <2>4 DEF ToCome
      <4>. QED  BY <2>1, <2>2, <2>4, <4>2 DEF Sooner
    <3>3. First(D, R, T) = {q}
      <4>. HIDE DEF T, q
      <4>. QED  BY <2>4, <2>5, <3>1, <3>2 DEF First
    <3>4. FirstFree(D, R, T) = {Candidate(start, n)}  BY <2>4, <3>3 DEF FirstFree
    <3>5. ~(start >= Size) /\ ~Taken(D, R, Candidate(start, n), n * BlockSize)
      BY <2>1, <2>2, <2>5, TakenIs, SizeAssumption
    <3>. QED  BY <2>3, <3>4, <3>5 DEF ScanStep
  <2>6. CASE ~IsFree(D, R, start, n)
    <3>1. ~(start >= Size) /\ Taken(D, R, Candidate(start, n), n * BlockSize)
      BY <2>1, <2>2, <2>6, TakenIs, SizeAssumption
    <3>2. CASE n > 1
      <4>1. T = ToCome(start, n - 1, blocks) \cup {q}
        BY <2>1, <2>4, <3>2 DEF ToCome
      <4>2. First(D, R, T) = First(D, R, ToCome(start, n - 1, blocks))
        BY <2>4, <2>6, <4>1, PassBy
      <4>3. FirstFree(D, R, T) = f[<<start, (n - 1) * BlockSize>>]
        BY <3>2, <4>2 DEF FirstFree
      <4>4. n * BlockSize > BlockSize /\ n * BlockSize - BlockSize = (n - 1) * BlockSize
        BY <2>2, <3>2, SizesFact
      <4>. QED  BY <2>3, <3>1, <4>3, <4>4 DEF ScanStep
    <3>3. CASE n = 1
      <4>. DEFINE next == OneBlockOn(start)
      <4>1. /\ next \in ScanStarts /\ start < next
            /\ \A x \in ScanPoints : start < x => next <= x
        BY <2>1, NextStart
      <4>2. next \in Nat  BY <4>1, <2>4, SizeAssumption DEF ScanStarts
      <4>3. \A x \in ScanPoints : start < x <=> next < x \/ next = x
        <5>. HIDE DEF next
        <5>. QED  BY <2>1, <2>4, <4>1, <4>2
      <4>4. T = ToCome(next, blocks, blocks) \cup {q}
        <5>. HIDE DEF next
        <5>1. ASSUME NEW r \in ScanPoints \X (1 .. blocks)
              PROVE  r \in T <=> r \in ToCome(next, blocks, blocks) \/ r = q
          <6>1. r = <<r[1], r[2]>> /\ r[1] \in ScanPoints /\ r[2] \in 1 .. blocks  BY <5>1
          <6>2. r[2] <= 1 <=> r[2] = 1  BY <6>1
          <6>3. r \in T <=> start < r[1] \/ (start = r[1] /\ r[2] = 1)  BY <3>3, <6>1, <6>2 DEF ToCome
          <6>4. r \in ToCome(next, blocks, blocks) <=> start < r[1]  BY <4>3, <6>1 DEF ToCome
          <6>5. r = q <=> start = r[1] /\ r[2] = 1  BY <3>3, <6>1
          <6>. QED  BY <6>3, <6>4, <6>5
        <5>2. T \subseteq ScanPoints \X (1 .. blocks)
              /\ ToCome(next, blocks, blocks) \subseteq ScanPoints \X (1 .. blocks)
          BY DEF ToCome
        <5>3. q \in T  BY <2>4
        <5>. HIDE DEF T, q
        <5>. QED  BY <5>1, <5>2, <5>3
      <4>5. First(D, R, T) = First(D, R, ToCome(next, blocks, blocks))
        <5>1. ~IsFree(D, R, q[1], q[2])  BY <2>4, <2>6
        <5>. HIDE DEF T, q, next
        <5>. QED  BY <4>4, <5>1, PassBy
      <4>6. FirstFree(D, R, T) = f[<<next, blocks * BlockSize>>]
        BY <2>1, <4>5 DEF FirstFree
      <4>7. n * BlockSize = BlockSize  BY <2>2, <3>3, SizesFact
      <4>8. ~(n * BlockSize > BlockSize)  BY <4>7, BlockAssumption
      <4>9. Lowest(Size, start + n * BlockSize) = next  BY <4>7 DEF OneBlockOn
      <4>. QED  BY <2>3, <3>1, <4>6, <4>8, <4>9 DEF ScanStep
    <3>. QED  BY <3>2, <3>3
  <2>. QED  BY <2>5, <2>6
<1>. QED  BY <1>1, <1>2

LEMMA PlaceFact == ASSUME NEW blocks \in Nat, NEW at \in ScanPlaces(blocks)
                   PROVE  /\ at[1] \in ScanStarts
                          /\ \E n \in 1 .. blocks : at = <<at[1], n * BlockSize>>
BY DEF ScanPlaces, ScanStarts

LEMMA PlaceThere == ASSUME NEW blocks \in Nat, NEW start \in ScanStarts, NEW n \in 1 .. blocks
                    PROVE  <<start, n * BlockSize>> \in ScanPlaces(blocks)
BY DEF ScanPlaces, ScanStarts

\* The recursion of the scan has a value.
LEMMA ScanThere == ASSUME NEW D, NEW R, NEW blocks \in Nat
                   PROVE  \E f : IsScan(D, R, blocks, f)
<1>. DEFINE V(start, n) == FirstFree(D, R, ToCome(start, n, blocks))
            g == [at \in ScanPlaces(blocks) |-> V(at[1], at[2] \div BlockSize)]
            h == [at \in ScanPlaces(blocks) |-> ScanStep(D, R, blocks, g, at[1], at[2])]
<1>1. ASSUME NEW start \in ScanStarts, NEW n \in 1 .. blocks
      PROVE  g[<<start, n * BlockSize>>] = V(start, n)
  <2>1. (n * BlockSize) \div BlockSize = n  BY SizesFact
  <2>2. <<start, n * BlockSize>> \in ScanPlaces(blocks)  BY PlaceThere
  <2>. HIDE DEF V
  <2>. QED  BY <2>1, <2>2
<1>2. ASSUME NEW at \in ScanPlaces(blocks)  PROVE g[at] = h[at]
  <2>1. PICK n \in 1 .. blocks : at = <<at[1], n * BlockSize>>  BY PlaceFact
  <2>2. at[1] \in ScanStarts  BY PlaceFact
  <2>. DEFINE start == at[1]
  <2>3. g[at] = V(start, n)  BY <1>1, <2>1, <2>2
  <2>4. n > 1 => g[<<start, (n - 1) * BlockSize>>] = V(start, n - 1)
    <3>1. n > 1 => n - 1 \in 1 .. blocks  OBVIOUS
    <3>. HIDE DEF g, V
    <3>. QED  BY <1>1, <2>2, <3>1
  <2>5. start < Size => g[<<OneBlockOn(start), blocks * BlockSize>>] = V(OneBlockOn(start), blocks)
    <3>1. blocks \in 1 .. blocks  BY <2>1
    <3>2. start < Size => OneBlockOn(start) \in ScanStarts
      BY <2>2, NextStart, SizeAssumption DEF ScanStarts
    <3>. HIDE DEF g, V
    <3>. QED  BY <1>1, <3>1, <3>2
  <2>6. ScanStep(D, R, blocks, g, start, n * BlockSize) = V(start, n)
    <3>. HIDE DEF g
    <3>. QED  BY <2>2, <2>4, <2>5, StepIs
  <2>7. h[at] = ScanStep(D, R, blocks, g, at[1], at[2])  BY DEF h
  <2>8. at[2] = n * BlockSize  BY <2>1
  <2>. HIDE DEF g, h, V
  <2>. QED  BY <2>3, <2>6, <2>7, <2>8
<1>3. g = h
  <2>. HIDE DEF V
  <2>. QED  BY <1>2
<1>. QED  BY <1>3 DEF IsScan

\* It is the first free candidate to come: otherwise there is a last start,
\* and for it a smallest size, from which it is not.
LEMMA ScanValue == ASSUME NEW D, NEW R, NEW blocks \in Nat, NEW f, IsScan(D, R, blocks, f),
                          NEW st \in ScanStarts, NEW m \in 1 .. blocks
                   PROVE  f[<<st, m * BlockSize>>] = FirstFree(D, R, ToCome(st, m, blocks))
<1>. DEFINE V(start, n) == FirstFree(D, R, ToCome(start, n, blocks))
            Wrong(start, n) == f[<<start, n * BlockSize>>] # V(start, n)
            left == {k \in Nat : \E start \in ScanStarts, n \in 1 .. blocks : k = Size - start /\ Wrong(start, n)}
<1>1. SUFFICES ASSUME Wrong(st, m)  PROVE FALSE  OBVIOUS
<1>. HIDE DEF V, Wrong
<1>2. \A start \in ScanStarts : start \in Nat /\ start <= Size
  BY PointFact, SizeAssumption DEF ScanStarts
<1>3. Size - st \in left
  <2>1. Size - st \in Nat  BY <1>2, SizeAssumption
  <2>. QED  BY <1>1, <2>1
<1>4. PICK k \in left : \A y \in left : k <= y  BY <1>3, LeastElement
<1>5. PICK start \in ScanStarts : k = Size - start /\ \E n \in 1 .. blocks : Wrong(start, n)  BY <1>4
<1>. DEFINE sizes == {n \in 1 .. blocks : Wrong(start, n)}
<1>6. sizes \in SUBSET Nat /\ sizes # {}  BY <1>5
<1>7. PICK n \in sizes : \A y \in sizes : n <= y  BY <1>6, LeastElement
<1>8. n \in 1 .. blocks /\ Wrong(start, n)  BY <1>7
<1>9. n > 1 => f[<<start, (n - 1) * BlockSize>>] = V(start, n - 1)
  <2>1. n > 1 => n - 1 \in 1 .. blocks /\ ~(n <= n - 1)  BY <1>8
  <2>. QED  BY <1>7, <2>1 DEF Wrong
<1>10. start < Size => f[<<OneBlockOn(start), blocks * BlockSize>>] = V(OneBlockOn(start), blocks)
  <2>. SUFFICES ASSUME start < Size  PROVE ~Wrong(OneBlockOn(start), blocks)  BY DEF Wrong
  <2>1. start \in ScanPoints  BY SizeAssumption DEF ScanStarts
  <2>2. OneBlockOn(start) \in ScanStarts /\ start < OneBlockOn(start)  BY <2>1, NextStart
  <2>3. Size - OneBlockOn(start) \in Nat /\ Size - OneBlockOn(start) < Size - start
    BY <1>2, <2>2, SizeAssumption
  <2>4. Size - OneBlockOn(start) \notin left
    <3>1. Size - start \in Nat  BY <1>2, SizeAssumption
    <3>2. \A y \in left : Size - start <= y  BY <1>4, <1>5
    <3>. HIDE DEF left
    <3>. QED  BY <2>3, <3>1, <3>2
  <2>5. blocks \in 1 .. blocks  BY <1>8
  <2>. QED  BY <2>2, <2>3, <2>4, <2>5
<1>11. ScanStep(D, R, blocks, f, start, n * BlockSize) = V(start, n)
  BY <1>8, <1>9, <1>10, StepIs DEF V
<1>12. f[<<start, n * BlockSize>>] = ScanStep(D, R, blocks, f, start, n * BlockSize)
  <2>1. <<start, n * BlockSize>> \in ScanPlaces(blocks)  BY <1>8, PlaceThere
  <2>. QED  BY <2>1 DEF IsScan
<1>. QED  BY <1>8, <1>11, <1>12 DEF Wrong

\* From the start of the file, it is what the closed form says.
LEMMA AllToCome == ASSUME NEW D, NEW R, NEW blocks \in Nat
                   PROVE  FirstFree(D, R, ToCome(0, blocks, blocks)) = FreeSegments(D, R, blocks)
<1>. DEFINE T == ScanPoints \X (1 .. blocks)
<1>1. \A st \in ScanPoints : st \in Nat  BY PointFact
<1>2. ToCome(0, blocks, blocks) = T
  <2>1. \A q \in T : 0 < q[1] \/ (0 = q[1] /\ q[2] <= blocks)  BY <1>1
  <2>. QED  BY <2>1 DEF ToCome
<1>3. ASSUME NEW q \in T
      PROVE  (\A r \in T : Sooner(r, q) => ~IsFree(D, R, r[1], r[2]))
             <=> /\ \A n \in q[2] + 1 .. blocks : ~IsFree(D, R, q[1], n)
                 /\ \A st \in ScanPoints, n \in 1 .. blocks : st < q[1] => ~IsFree(D, R, st, n)
  <2>1. q[1] \in ScanPoints /\ q[2] \in 1 .. blocks  BY <1>3
  <2>2. ASSUME \A r \in T : Sooner(r, q) => ~IsFree(D, R, r[1], r[2])
        PROVE  /\ \A n \in q[2] + 1 .. blocks : ~IsFree(D, R, q[1], n)
               /\ \A st \in ScanPoints, n \in 1 .. blocks : st < q[1] => ~IsFree(D, R, st, n)
    <3>1. ASSUME NEW n \in q[2] + 1 .. blocks  PROVE ~IsFree(D, R, q[1], n)
      <4>1. <<q[1], n>> \in T /\ Sooner(<<q[1], n>>, q)  BY <2>1, <3>1 DEF Sooner
      <4>. QED  BY <2>2, <4>1
    <3>2. ASSUME NEW st \in ScanPoints, NEW n \in 1 .. blocks, st < q[1]  PROVE ~IsFree(D, R, st, n)
      <4>1. <<st, n>> \in T /\ Sooner(<<st, n>>, q)  BY <3>2 DEF Sooner
      <4>. QED  BY <2>2, <4>1
    <3>. QED  BY <3>1, <3>2
  <2>3. ASSUME \A n \in q[2] + 1 .. blocks : ~IsFree(D, R, q[1], n),
               \A st \in ScanPoints, n \in 1 .. blocks : st < q[1] => ~IsFree(D, R, st, n),
               NEW r \in T, Sooner(r, q)
        PROVE  ~IsFree(D, R, r[1], r[2])
    <3>1. r[1] \in ScanPoints /\ r[2] \in 1 .. blocks  BY <2>3
    <3>2. r[1] < q[1] \/ (r[1] = q[1] /\ r[2] \in q[2] + 1 .. blocks)  BY <2>1, <2>3, <3>1 DEF Sooner
    <3>. QED  BY <2>3, <3>1, <3>2
  <2>. QED  BY <2>2, <2>3
<1>4. First(D, R, T) =
        {q \in T : /\ IsFree(D, R, q[1], q[2])
                   /\ \A n \in q[2] + 1 .. blocks : ~IsFree(D, R, q[1], n)
                   /\ \A st \in ScanPoints, n \in 1 .. blocks : st < q[1] => ~IsFree(D, R, st, n)}
  <2>. HIDE DEF T
  <2>. QED  BY <1>3 DEF First
<1>. QED  BY <1>2, <1>4 DEF FirstFree, FreeSegments

\* The closed form of getNextSegment, on which every other theorem about it
\* rests, is what the loop over start and curSize returns, for any size of the
\* file and of the wish, any finished segments that calls of addSegment can
\* build, and the segments of up to MaxRunning downloads, whatever MaxRunning.
THEOREM NextSegmentLoops == Spec => []NextSegmentIsTheScan
<1>1. ASSUME NEW R, NEW blocks \in 1 .. RoundUp(Size) \div BlockSize
      PROVE  FreeSegments(done, R, blocks) = NextSegmentScan(done, R, blocks)
  <2>. DEFINE f == CHOOSE g : IsScan(done, R, blocks, g)
  <2>1. blocks \in Nat /\ blocks \in 1 .. blocks  BY OneBlock
  <2>2. IsScan(done, R, blocks, f)  BY <2>1, ScanThere
  <2>3. 0 \in ScanStarts  BY SizeAssumption, BlockAssumption DEF ScanStarts, ScanPoints
  <2>. HIDE DEF f
  <2>4. f[<<0, blocks * BlockSize>>] = FreeSegments(done, R, blocks)
    BY <2>1, <2>2, <2>3, ScanValue, AllToCome
  <2>. QED  BY <2>4, ScanIs DEF f
<1>2. NextSegmentIsTheScan  BY <1>1 DEF NextSegmentIsTheScan
<1>. QED  BY <1>2, PTL

-----------------------------------------------------------------------------
(***************************************************************************)
(* The loop of addSegment.  First the order of the std::set: neighbours.   *)
(***************************************************************************)
InFile(E) == E \subseteq SegmentType /\ \A e \in E : End(e) <= Size

LEMMA LessFact ==
  /\ \A a, b \in SegmentType : a = b \/ Less(a, b) \/ Less(b, a)
  /\ \A a, b \in SegmentType : ~(Less(a, b) /\ Less(b, a))
  /\ \A a, b, c \in SegmentType : Less(a, b) /\ Less(b, c) => Less(a, c)
<1>1. \A a \in SegmentType : a.start \in Nat /\ a.size \in Nat  BY DEF SegmentType
<1>2. \A a, b \in SegmentType : a.start = b.start /\ a.size = b.size => a = b  BY DEF SegmentType
<1>3. ASSUME NEW a \in SegmentType, NEW b \in SegmentType
      PROVE  (a = b \/ Less(a, b) \/ Less(b, a)) /\ ~(Less(a, b) /\ Less(b, a))
  BY <1>1, <1>2 DEF Less
<1>4. ASSUME NEW a \in SegmentType, NEW b \in SegmentType, NEW c \in SegmentType,
             Less(a, b), Less(b, c)
      PROVE  Less(a, c)
  BY <1>1, <1>4 DEF Less
<1>. QED  BY <1>3, <1>4

LEMMA LeastThere == ASSUME NEW E \in SUBSET SegmentType, E # {}
                    PROVE  \E e \in E : \A f \in E : f = e \/ Less(e, f)
<1>. DEFINE starts == {e.start : e \in E}
<1>1. \A e \in E : e.start \in Nat /\ e.size \in Nat  BY DEF SegmentType
<1>2. starts \in SUBSET Nat /\ starts # {}  BY <1>1
<1>3. PICK x \in starts : \A y \in starts : x <= y  BY <1>2, LeastElement
<1>. DEFINE sizes == {e.size : e \in {d \in E : d.start = x}}
<1>4. sizes \in SUBSET Nat /\ sizes # {}  BY <1>1, <1>3
<1>5. PICK z \in sizes : \A y \in sizes : z <= y  BY <1>4, LeastElement
<1>6. PICK e \in E : e.start = x /\ e.size = z  BY <1>5
<1>7. ASSUME NEW f \in E  PROVE f = e \/ Less(e, f)
  <2>1. x <= f.start  BY <1>3
  <2>2. f.start = x => z <= f.size  BY <1>5
  <2>3. e \in SegmentType /\ f \in SegmentType /\ ~Less(f, e)
    BY <1>1, <1>6, <2>1, <2>2 DEF Less
  <2>. QED  BY <2>3, LessFact
<1>. QED  BY <1>7

LEMMA GreatestThere == ASSUME NEW E, InFile(E), E # {}
                       PROVE  \E e \in E : \A f \in E : f = e \/ Less(f, e)
<1>. DEFINE over == {Size - e.start : e \in E}
<1>1. \A e \in E : e.start \in 0 .. Size /\ e.size \in 0 .. Size /\ e \in SegmentType
  BY SizeAssumption DEF InFile, SegmentType, End
<1>2. over \in SUBSET Nat /\ over # {}  BY <1>1, SizeAssumption
<1>3. PICK x \in over : \A y \in over : x <= y  BY <1>2, LeastElement
<1>. DEFINE sizes == {Size - e.size : e \in {d \in E : Size - d.start = x}}
<1>4. sizes \in SUBSET Nat /\ sizes # {}  BY <1>1, <1>3, SizeAssumption
<1>5. PICK z \in sizes : \A y \in sizes : z <= y  BY <1>4, LeastElement
<1>6. PICK e \in E : Size - e.start = x /\ Size - e.size = z  BY <1>5
<1>7. ASSUME NEW f \in E  PROVE f = e \/ Less(f, e)
  <2>1. Size - e.start <= Size - f.start  BY <1>3, <1>6
  <2>2. Size - f.start = Size - e.start => Size - e.size <= Size - f.size  BY <1>5, <1>6
  <2>3. ~Less(e, f)  BY <1>1, <1>6, <2>1, <2>2, SizeAssumption DEF Less
  <2>. QED  BY <1>1, <1>6, <2>3, LessFact
<1>. QED  BY <1>7

\* ++i is one element or the end, --i one element when there is one.
LEMMA FollowingOne == ASSUME NEW E \in SUBSET SegmentType, NEW x \in SegmentType
                      PROVE  \/ Following(E, x) = {} /\ \A f \in E : ~Less(x, f)
                             \/ \E y \in E : /\ Following(E, x) = {y} /\ Less(x, y)
                                             /\ \A f \in E : Less(x, f) => ~Less(f, y)
<1>. DEFINE T == {f \in E : Less(x, f)}
<1>1. CASE T = {}  BY <1>1 DEF Following
<1>2. CASE T # {}
  <2>1. PICK y \in T : \A f \in T : f = y \/ Less(y, f)  BY <1>2, LeastThere
  <2>2. y \in E /\ Less(x, y) /\ \A f \in E : Less(x, f) => ~Less(f, y)  BY <2>1, LessFact
  <2>3. \A f \in E : Less(x, f) /\ f # y => Less(y, f)  BY <2>1
  <2>4. Following(E, x) = {y}  BY <2>2, <2>3 DEF Following
  <2>. QED  BY <2>2, <2>4
<1>. QED  BY <1>1, <1>2

LEMMA PrecedingOne == ASSUME NEW E, InFile(E), NEW x \in SegmentType, NEW e \in E, Less(e, x)
                      PROVE  \E p \in E : /\ Preceding(E, x) = {p} /\ Less(p, x)
                                          /\ \A f \in E : Less(f, x) => f = p \/ Less(f, p)
<1>. DEFINE T == {f \in E : Less(f, x)}
<1>1. InFile(T) /\ T # {}  BY DEF InFile
<1>2. PICK p \in T : \A f \in T : f = p \/ Less(f, p)  BY <1>1, GreatestThere
<1>3. p \in E /\ Less(p, x) /\ \A f \in E : Less(f, x) => f = p \/ Less(f, p)  BY <1>2
<1>4. \A f \in E : f \in SegmentType  BY DEF InFile
<1>5. \A f \in E : Less(f, x) => ~Less(p, f)  BY <1>3, <1>4, LessFact
<1>6. Preceding(E, x) = {p}  BY <1>3, <1>5 DEF Preceding
<1>. QED  BY <1>3, <1>6

LEMMA FollowingSame == ASSUME NEW E, NEW F, NEW x, \A y : Less(x, y) => (y \in E <=> y \in F)
                       PROVE  Following(E, x) = Following(F, x)
BY DEF Following

\* One turn of the loop.
LEMMA TurnIs ==
  ASSUME NEW loop, NEW x, NEW p, loop.iter = {x}, Preceding(loop.set, x) = {p}
  PROVE  /\ Consolidate(loop).iter = Following(loop.set, x)
         /\ End(p) >= x.start =>
              Consolidate(loop).set = (loop.set \ {p, x}) \cup {Segment(p.start, End(x) - p.start)}
         /\ ~(End(p) >= x.start) => Consolidate(loop).set = loop.set
<1>1. (CHOOSE y \in loop.iter : TRUE) = x  OBVIOUS
<1>2. (CHOOSE y \in Preceding(loop.set, x) : TRUE) = p  OBVIOUS
<1>. QED  BY <1>1, <1>2 DEF Consolidate

\* Where no two segments touch it only moves on.
LEMMA TurnMovesOn ==
  ASSUME NEW loop, NEW x \in SegmentType, loop.iter = {x}, InFile(loop.set),
         \A e \in loop.set : Less(e, x) => End(e) < x.start, NEW e \in loop.set, Less(e, x)
  PROVE  Consolidate(loop).set = loop.set /\ Consolidate(loop).iter = Following(loop.set, x)
<1>1. PICK p \in loop.set : Preceding(loop.set, x) = {p} /\ Less(p, x)  BY PrecedingOne
<1>2. End(p) < x.start /\ p \in SegmentType  BY <1>1 DEF InFile
<1>3. ~(End(p) >= x.start)  BY <1>2 DEF SegmentType, End
<1>. QED  BY <1>1, <1>3, TurnIs

\* In a consolidated set what comes before a segment ends before it.
LEMMA ApartInOrder ==
  ASSUME NEW E \in SUBSET SegmentType, Consolidated(E), NEW e \in E, NEW x \in E, Less(e, x)
  PROVE  End(e) < x.start
<1>1. /\ e.start \in Nat /\ e.size \in Nat \ {0} /\ x.start \in Nat /\ x.size \in Nat \ {0}
  BY DEF SegmentType
<1>2. e # x  BY <1>1 DEF Less
<1>3. End(e) < x.start \/ End(x) < e.start  BY <1>2 DEF Consolidated
<1>. QED  BY <1>1, <1>3 DEF Less, End

(***************************************************************************)
(* The stages of the walk, when the new segment s was not there: before it *)
(* has been met nothing changes; then it has been joined to its            *)
(* predecessor, if that one reaches it, and the iterator is at its         *)
(* successor; then that one has been merged too, if s reaches it, and the  *)
(* set is the one of the closed form.                                      *)
(***************************************************************************)
Inserted(D, s) == D \cup {s}
Joined(D, s) == Segment(MergedStart(D, s), End(s) - MergedStart(D, s))
WithJoined(D, s) == (D \ Before(D, s)) \cup {Joined(D, s)}

NotYetMet(D, s, loop) ==
  /\ loop.set = Inserted(D, s)
  /\ \E x \in Inserted(D, s) : loop.iter = {x} /\ ~Less(s, x) /\ \E e \in Inserted(D, s) : Less(e, x)
AtSuccessor(D, s, loop) ==
  /\ loop.set = WithJoined(D, s)
  /\ loop.iter = Following(D, s)
AllMerged(D, s, loop) ==
  /\ loop.set = AddSegment(D, s)
  /\ \/ loop.iter = {}
     \/ \E x \in D : loop.iter = {x} /\ Less(s, x) /\ x \notin After(D, s)

Stage(D, s, loop) == NotYetMet(D, s, loop) \/ AtSuccessor(D, s, loop) \/ AllMerged(D, s, loop)

\* What the loop is called with.
Callable(D, s) == InFile(D) /\ Consolidated(D) /\ s \in SegmentType /\ End(s) <= Size

LEMMA JoinedFact ==
  ASSUME NEW D, NEW s, Callable(D, s), s \notin D
  PROVE  /\ Joined(D, s) \in SegmentType
         /\ Joined(D, s).start = MergedStart(D, s) /\ End(Joined(D, s)) = End(s)
         /\ Joined(D, s) \notin D \ Before(D, s)
         /\ \A d \in D : Less(s, d) => d \notin Before(D, s) /\ Less(Joined(D, s), d)
         /\ \A d \in D \ Before(D, s) : Less(d, s) => Less(d, Joined(D, s)) /\ End(d) < s.start
<1>. DEFINE j == Joined(D, s)
<1>1. D \in SUBSET SegmentType /\ Consolidated(D) /\ s \in SegmentType
  BY DEF Callable, InFile
<1>2. /\ s.start \in Nat /\ s.size \in Nat \ {0}
      /\ \A d \in D : d.start \in Nat /\ d.size \in Nat \ {0}
  BY <1>1 DEF SegmentType
<1>3. MergedStart(D, s) \in Nat /\ MergedStart(D, s) <= s.start  BY <1>1, MergedFact
<1>4. j \in SegmentType /\ j.start = MergedStart(D, s) /\ End(j) = End(s)
  BY <1>2, <1>3 DEF Joined, Segment, SegmentType, End
<1>5. \/ MergedStart(D, s) = s.start /\ Before(D, s) = {}
      \/ \E p \in Before(D, s) : MergedStart(D, s) = p.start
  BY <1>1, StartFact
<1>6. \A d, e \in D : d # e => End(d) < e.start \/ End(e) < d.start  BY <1>1 DEF Consolidated
<1>7. j.start = s.start /\ j.size = s.size => j = s  BY <1>1, <1>4 DEF SegmentType
<1>8. j.size = s.start + s.size - j.start  BY <1>2, <1>3 DEF Joined, Segment, End
<1>9. ASSUME NEW d \in D, Less(s, d)  PROVE d \notin Before(D, s) /\ Less(j, d)
  <2>1. d \notin Before(D, s)  BY <1>1, <1>9, LessFact DEF Before
  <2>2. CASE MergedStart(D, s) = s.start
    BY <1>2, <1>4, <1>8, <1>9, <2>1, <2>2 DEF Less
  <2>3. CASE MergedStart(D, s) # s.start
    BY <1>2, <1>3, <1>4, <1>9, <2>1, <2>3 DEF Less
  <2>. QED  BY <2>1, <2>2, <2>3
<1>10. ASSUME NEW d \in D \ Before(D, s), Less(d, s)  PROVE Less(d, j) /\ End(d) < s.start
  <2>1. End(d) < s.start  BY <1>2, <1>10 DEF Before, End
  <2>2. CASE MergedStart(D, s) = s.start  BY <1>2, <1>4, <2>1, <2>2 DEF Less, End
  <2>3. ASSUME NEW p \in Before(D, s), MergedStart(D, s) = p.start  PROVE d.start < p.start
    <3>1. p \in D /\ p # d /\ End(p) >= s.start  BY <1>10 DEF Before
    <3>2. End(d) < p.start \/ End(p) < d.start  BY <1>6, <1>10, <3>1
    <3>. QED  BY <1>2, <2>1, <3>1, <3>2 DEF End
  <2>4. Less(d, j)  BY <1>5, <2>2, <2>3, <1>4 DEF Less
  <2>. QED  BY <2>1, <2>4
<1>11. j \notin D \ Before(D, s)
  <2>1. SUFFICES ASSUME j \in D, j \notin Before(D, s)  PROVE FALSE  OBVIOUS
  <2>2. j # s  BY <2>1
  <2>3. ~(Less(s, j) /\ Less(j, j)) /\ ~(Less(j, s) /\ Less(j, j))
    BY <1>4, LessFact
  <2>4. Less(s, j) \/ Less(j, s)  BY <1>1, <1>4, <2>2, LessFact
  <2>. QED  BY <1>9, <1>10, <2>1, <2>3, <2>4
<1>. QED  BY <1>4, <1>9, <1>10, <1>11

LEMMA BeforeIs ==
  ASSUME NEW D, NEW s, Callable(D, s), s \notin D, NEW p \in D, Less(p, s),
         \A f \in D : Less(f, s) => f = p \/ Less(f, p)
  PROVE  /\ End(p) >= s.start => Before(D, s) = {p} /\ MergedStart(D, s) = p.start
         /\ ~(End(p) >= s.start) => Before(D, s) = {} /\ MergedStart(D, s) = s.start
<1>1. D \in SUBSET SegmentType /\ Consolidated(D) /\ s \in SegmentType
  BY DEF Callable, InFile
<1>2. /\ s.start \in Nat /\ s.size \in Nat \ {0}
      /\ \A d \in D : d.start \in Nat /\ d.size \in Nat \ {0}
  BY <1>1 DEF SegmentType
<1>3. ASSUME NEW d \in Before(D, s), d # p  PROVE FALSE
  <2>1. d \in D /\ Less(d, p) /\ End(d) >= s.start  BY <1>3 DEF Before
  <2>2. End(d) < p.start  BY <1>1, <2>1, ApartInOrder
  <2>3. p.start <= s.start  BY <1>2 DEF Less
  <2>. QED  BY <1>2, <2>1, <2>2, <2>3 DEF End
<1>4. p \in Before(D, s) <=> End(p) >= s.start  BY DEF Before
<1>5. Before(D, s) = IF End(p) >= s.start THEN {p} ELSE {}  BY <1>3, <1>4
<1>. QED  BY <1>1, <1>5, StartFact

LEMMA NoneBefore == ASSUME NEW D, NEW s, Callable(D, s), \A d \in D : ~Less(d, s)
                    PROVE  WithJoined(D, s) = Inserted(D, s)
<1>1. D \in SUBSET SegmentType /\ s \in SegmentType  BY DEF Callable, InFile
<1>2. Before(D, s) = {}  BY DEF Before
<1>3. MergedStart(D, s) = s.start  BY <1>1, <1>2, StartFact
<1>4. Joined(D, s) = s  BY <1>1, <1>3 DEF Joined, Segment, SegmentType, End
<1>. QED  BY <1>2, <1>4 DEF WithJoined, Inserted

\* The successor is merged when s reaches it.
LEMMA AfterIs == ASSUME NEW D, NEW s, Callable(D, s)
                 PROVE  /\ Following(D, s) = {} => After(D, s) = {} /\ MergedEnd(D, s) = End(s)
                        /\ \A x : Following(D, s) = {x} =>
                             /\ x.start <= End(s) => After(D, s) = {x} /\ MergedEnd(D, s) = End(x)
                             /\ ~(x.start <= End(s)) => After(D, s) = {} /\ MergedEnd(D, s) = End(s)
<1>1. D \in SUBSET SegmentType /\ s \in SegmentType  BY DEF Callable, InFile
<1>2. After(D, s) = {d \in Following(D, s) : d.start <= End(s)}  BY DEF After, Following
<1>3. \A x : Following(D, s) = {x} => After(D, s) = IF x.start <= End(s) THEN {x} ELSE {}  BY <1>2
<1>. QED  BY <1>1, <1>2, <1>3, EndFact

LEMMA NothingToMerge == ASSUME NEW D, NEW s, Callable(D, s), s \notin D, After(D, s) = {},
                               MergedEnd(D, s) = End(s)
                        PROVE  WithJoined(D, s) = AddSegment(D, s)
BY DEF AddSegment, WithJoined, Joined

LEMMA InsertedFact == ASSUME NEW D, NEW s, Callable(D, s)
                      PROVE  /\ InFile(Inserted(D, s)) /\ Inserted(D, s) \in SUBSET SegmentType
                             /\ D \in SUBSET SegmentType /\ s \in SegmentType
BY DEF Callable, InFile, Inserted

\* What the later stages have in common with the set the loop began with is
\* all that lies behind s.
LEMMA SameBehind ==
  ASSUME NEW D, NEW s, Callable(D, s), s \notin D, NEW x \in SegmentType
  PROVE  /\ x = s \/ Less(s, x) => /\ Following(Inserted(D, s), x) = Following(D, x)
                                  /\ Following(WithJoined(D, s), x) = Following(D, x)
         /\ Less(s, x) /\ x \in D => Following(AddSegment(D, s), x) = Following(D, x)
<1>1. D \in SUBSET SegmentType /\ s \in SegmentType  BY InsertedFact
<1>2. ASSUME x = s \/ Less(s, x)
      PROVE  /\ Following(Inserted(D, s), x) = Following(D, x)
             /\ Following(WithJoined(D, s), x) = Following(D, x)
  <2>1. ~Less(x, s)  BY <1>1, <1>2, LessFact
  <2>2. ~Less(x, Joined(D, s))
    <3>1. ~Less(s, Joined(D, s))
      <4>1. Joined(D, s).start <= s.start /\ Joined(D, s).start \in Nat /\ s.start \in Nat
            /\ s.size \in Nat /\ Joined(D, s).size \in Nat /\ End(Joined(D, s)) = End(s)
        BY <1>1, JoinedFact, MergedFact DEF SegmentType
      <4>. QED  BY <4>1 DEF Less, End
    <3>. QED  BY <1>1, <1>2, <3>1, JoinedFact, LessFact
  <2>3. ASSUME NEW y \in D, Less(x, y)  PROVE y \notin Before(D, s)
    <3>1. Less(s, y)  BY <1>1, <1>2, <2>3, LessFact
    <3>. QED  BY <3>1, JoinedFact
  <2>4. \A y : Less(x, y) => (y \in Inserted(D, s) <=> y \in D)  BY <2>1 DEF Inserted
  <2>5. \A y : Less(x, y) => (y \in WithJoined(D, s) <=> y \in D)  BY <2>2, <2>3 DEF WithJoined
  <2>. QED  BY <2>4, <2>5, FollowingSame
<1>3. ASSUME Less(s, x), x \in D  PROVE Following(AddSegment(D, s), x) = Following(D, x)
  <2>1. ASSUME NEW y \in D, Less(x, y)  PROVE y \notin Before(D, s) /\ y \notin After(D, s)
    <3>1. Less(s, y)  BY <1>1, <1>3, <2>1, LessFact
    <3>. QED  BY <1>3, <2>1, <3>1, JoinedFact DEF After
  <2>2. ~Less(x, Merged(D, s))
    <3>1. /\ Merged(D, s) \in SegmentType /\ Merged(D, s).start = MergedStart(D, s)
          /\ MergedStart(D, s) <= s.start /\ End(Merged(D, s)) = MergedEnd(D, s)
      BY <1>1, MergedType, MergedFact
    <3>2. /\ s.start \in Nat /\ s.size \in Nat \ {0} /\ x.start \in Nat /\ x.size \in Nat \ {0}
          /\ Merged(D, s).start \in Nat /\ Merged(D, s).size \in Nat \ {0}
      BY <1>1, <3>1 DEF SegmentType
    <3>3. s.start <= x.start  BY <1>3, <3>2 DEF Less
    <3>4. CASE Merged(D, s).start < x.start  BY <3>2, <3>4 DEF Less
    <3>5. CASE Merged(D, s).start = x.start
      <4>1. s.start = x.start /\ s.size < x.size  BY <1>3, <3>1, <3>2, <3>3, <3>5 DEF Less
      <4>2. x \in After(D, s)
        <5>1. x.start <= End(s)  BY <3>2, <4>1 DEF End
        <5>2. After(D, s) # {}  BY <1>1, <1>3, <5>1, AfterNotEmpty DEF Callable
        <5>3. PICK a \in After(D, s) : TRUE  BY <5>2
        <5>4. a \in D /\ Less(s, a) /\ ~Less(x, a)  BY <1>3, <5>3 DEF After
        <5>5. a.start \in Nat /\ a.size \in Nat \ {0} /\ a.start = x.start
          BY <1>1, <3>2, <4>1, <5>4 DEF SegmentType, Less
        <5>6. a = x
          <6>1. a # x => End(a) < x.start \/ End(x) < a.start
            BY <1>3, <5>4 DEF Callable, Consolidated
          <6>. QED  BY <3>2, <5>5, <6>1 DEF End
        <5>. QED  BY <5>3, <5>6
      <4>3. End(Merged(D, s)) = End(x)
        <5>1. \A a \in After(D, s) : a = x
          <6>1. TAKE a \in After(D, s)
          <6>2. a \in D /\ ~Less(x, a) /\ ~Less(a, x)  BY <1>3, <4>2 DEF After
          <6>. QED  BY <1>1, <1>3, <6>2, LessFact
        <5>. QED  BY <1>1, <3>1, <4>2, <5>1, EndFact
      <4>. QED  BY <3>2, <3>5, <4>3 DEF Less, End
    <3>. QED  BY <3>1, <3>2, <3>3, <3>4, <3>5
  <2>3. AddSegment(D, s) = (D \ (Before(D, s) \cup After(D, s))) \cup {Merged(D, s)}
    BY <1>1, AddSegmentShape
  <2>4. \A y : Less(x, y) => (y \in AddSegment(D, s) <=> y \in D)  BY <2>1, <2>2, <2>3
  <2>. QED  BY <2>4, FollowingSame
<1>. QED  BY <1>2, <1>3

LEMMA AddedInFile == ASSUME NEW D, NEW s, Callable(D, s)
                     PROVE  InFile(AddSegment(D, s)) /\ Consolidated(AddSegment(D, s))
<1>1. D \in SUBSET SegmentType /\ Consolidated(D) /\ s \in SegmentType /\ InFile(D) /\ End(s) <= Size
  BY DEF Callable, InFile
<1>2. AddSegment(D, s) \in SUBSET SegmentType /\ Consolidated(AddSegment(D, s))
  BY <1>1, AddSegmentType, AddSegmentConsolidated
<1>3. \A d \in AddSegment(D, s) : End(d) <= Size
  <2>1. CASE s \in D  BY <1>1, <2>1 DEF AddSegment, InFile
  <2>2. CASE s \notin D
    <3>1. MergedEnd(D, s) <= Size  BY <1>1, EndFact DEF After, InFile
    <3>2. End(Merged(D, s)) <= Size  BY <1>1, <3>1, MergedType
    <3>. QED  BY <1>1, <2>2, <3>2, AddSegmentShape DEF InFile
  <2>. QED  BY <2>1, <2>2
<1>. QED  BY <1>2, <1>3 DEF InFile

LEMMA TurnBefore ==
  ASSUME NEW D, NEW s, Callable(D, s), s \notin D, NEW loop, NotYetMet(D, s, loop),
         NEW x, loop.iter = {x}
  PROVE  /\ Stage(D, s, Consolidate(loop))
         /\ Consolidate(loop).iter = Following(Inserted(D, s), x)
<1>. DEFINE E == Inserted(D, s)
            next == Consolidate(loop)
<1>1. /\ InFile(E) /\ E \in SUBSET SegmentType /\ D \in SUBSET SegmentType /\ s \in SegmentType
      /\ Consolidated(D)
  BY InsertedFact DEF Callable
<1>2. loop.set = E /\ x \in E /\ ~Less(s, x) /\ x \in SegmentType  BY <1>1 DEF NotYetMet
<1>3. PICK e \in E : Less(e, x)  BY DEF NotYetMet
<1>4. PICK p \in E : /\ Preceding(E, x) = {p} /\ Less(p, x)
                     /\ \A f \in E : Less(f, x) => f = p \/ Less(f, p)
  BY <1>1, <1>2, <1>3, PrecedingOne
<1>5. p \in D
  BY <1>2, <1>4 DEF Inserted
<1>. HIDE DEF E, next
<1>6. /\ next.iter = Following(E, x)
      /\ End(p) >= x.start => next.set = (E \ {p, x}) \cup {Segment(p.start, End(x) - p.start)}
      /\ ~(End(p) >= x.start) => next.set = E
  <2>1. Preceding(loop.set, x) = {p}  BY <1>2, <1>4, Zenon
  <2>2. /\ next.iter = Following(loop.set, x)
        /\ End(p) >= x.start =>
             next.set = (loop.set \ {p, x}) \cup {Segment(p.start, End(x) - p.start)}
        /\ ~(End(p) >= x.start) => next.set = loop.set
    BY <2>1, TurnIs DEF next
  <2>3. loop.set = E  BY <1>2
  <2>. QED  BY <2>2, <2>3, Zenon
<1>. USE DEF E, next
<1>7. CASE x # s
  <2>1. x \in D /\ Less(x, s)  BY <1>1, <1>2, <1>7, LessFact DEF Inserted
  <2>2. End(p) < x.start  BY <1>1, <1>4, <1>5, <2>1, ApartInOrder
  <2>3. ~(End(p) >= x.start)  BY <1>1, <1>5, <2>1, <2>2 DEF SegmentType, End
  <2>4. next.set = E  BY <1>6, <2>3
  <2>5. s \in E  BY DEF Inserted
  <2>6. PICK y \in E : Following(E, x) = {y} /\ Less(x, y) /\ \A f \in E : Less(x, f) => ~Less(f, y)
    BY <1>1, <1>2, <2>1, <2>5, FollowingOne
  <2>7. ~Less(s, y)  BY <2>1, <2>5, <2>6
  <2>8. NotYetMet(D, s, next)
    <3>. HIDE DEF next
    <3>. QED  BY <1>2, <1>6, <2>4, <2>6, <2>7 DEF NotYetMet
  <2>. QED  BY <1>6, <2>8 DEF Stage
<1>8. CASE x = s
  <2>1. next.iter = Following(D, s)  BY <1>1, <1>6, <1>8, SameBehind
  <2>2. \A f \in D : Less(f, s) => f = p \/ Less(f, p)  BY <1>4, <1>8 DEF Inserted
  <2>3. next.set = WithJoined(D, s)
    <3>1. CASE End(p) >= s.start
      <4>1. Before(D, s) = {p} /\ MergedStart(D, s) = p.start
        BY <1>4, <1>5, <1>8, <2>2, <3>1, BeforeIs
      <4>2. next.set = (E \ {p, s}) \cup {Segment(p.start, End(s) - p.start)}
        BY <1>6, <1>8, <3>1
      <4>. QED  BY <4>1, <4>2 DEF WithJoined, Joined, Inserted
    <3>2. CASE ~(End(p) >= s.start)
      <4>1. Before(D, s) = {} /\ MergedStart(D, s) = s.start
        BY <1>4, <1>5, <1>8, <2>2, <3>2, BeforeIs
      <4>2. next.set = E  BY <1>6, <1>8, <3>2
      <4>3. Joined(D, s) = s  BY <1>1, <4>1 DEF Joined, Segment, SegmentType, End
      <4>. QED  BY <4>1, <4>2, <4>3 DEF WithJoined, Inserted
    <3>. QED  BY <3>1, <3>2
  <2>4. AtSuccessor(D, s, next)  BY <2>1, <2>3 DEF AtSuccessor
  <2>. QED  BY <1>6, <2>4 DEF Stage
<1>. QED  BY <1>7, <1>8

LEMMA TurnAtSuccessor ==
  ASSUME NEW D, NEW s, Callable(D, s), s \notin D, NEW loop, AtSuccessor(D, s, loop),
         NEW x, loop.iter = {x}
  PROVE  /\ Stage(D, s, Consolidate(loop))
         /\ Consolidate(loop).iter = Following(Inserted(D, s), x)
<1>. DEFINE j == Joined(D, s)
            W == WithJoined(D, s)
            next == Consolidate(loop)
<1>1. D \in SUBSET SegmentType /\ s \in SegmentType  BY InsertedFact
<1>2. loop.set = W /\ Following(D, s) = {x}  BY DEF AtSuccessor
<1>3. x \in D /\ Less(s, x) /\ \A f \in D : Less(s, f) => ~Less(f, x)  BY <1>2 DEF Following
<1>4. x \in SegmentType /\ j \in SegmentType /\ Less(j, x) /\ x \notin Before(D, s)
  BY <1>1, <1>3, JoinedFact
<1>5. \A d \in W : Less(d, x) => d = j \/ Less(d, j)
  <2>1. SUFFICES ASSUME NEW d \in D \ Before(D, s), Less(d, x)  PROVE Less(d, j)
    BY DEF WithJoined
  <2>2. d # s /\ d \in SegmentType /\ ~Less(s, d)  BY <1>1, <1>3, <2>1
  <2>3. Less(d, s)  BY <1>1, <2>2, LessFact
  <2>. QED  BY <2>1, <2>3, JoinedFact
<1>6. Preceding(W, x) = {j}
  <2>1. j \in W /\ \A d \in W : d \in SegmentType  BY <1>1, <1>4 DEF WithJoined
  <2>2. \A d \in W : Less(d, x) => ~Less(j, d)  BY <1>4, <1>5, <2>1, LessFact
  <2>. HIDE DEF j, W
  <2>. QED  BY <1>4, <1>5, <2>1, <2>2 DEF Preceding
<1>7. End(j) = End(s) /\ j.start = MergedStart(D, s) /\ j \notin D \ Before(D, s)  BY JoinedFact
<1>. HIDE DEF j, W, next
<1>8. /\ next.iter = Following(W, x)
      /\ End(j) >= x.start => next.set = (W \ {j, x}) \cup {Segment(j.start, End(x) - j.start)}
      /\ ~(End(j) >= x.start) => next.set = W
  <2>1. Preceding(loop.set, x) = {j}  BY <1>2, <1>6, Zenon
  <2>2. /\ next.iter = Following(loop.set, x)
        /\ End(j) >= x.start =>
             next.set = (loop.set \ {j, x}) \cup {Segment(j.start, End(x) - j.start)}
        /\ ~(End(j) >= x.start) => next.set = loop.set
    BY <2>1, TurnIs DEF next
  <2>3. loop.set = W  BY <1>2
  <2>. QED  BY <2>2, <2>3, Zenon
<1>. USE DEF j, W, next
<1>9. next.iter = Following(D, x) /\ next.iter = Following(Inserted(D, s), x)
  BY <1>3, <1>4, <1>8, SameBehind
<1>10. next.set = AddSegment(D, s)
  <2>1. CASE x.start <= End(s)
    <3>1. After(D, s) = {x} /\ MergedEnd(D, s) = End(x)  BY <1>2, <2>1, AfterIs
    <3>2. End(j) >= x.start
      BY <1>1, <1>4, <1>7, <2>1 DEF SegmentType, End
    <3>3. next.set = (W \ {j, x}) \cup {Segment(j.start, End(x) - j.start)}
      BY <1>8, <3>2
    <3>4. W \ {j, x} = D \ (Before(D, s) \cup After(D, s))  BY <1>7, <3>1 DEF WithJoined
    <3>5. Segment(j.start, End(x) - j.start) = Merged(D, s)  BY <1>7, <3>1 DEF Merged
    <3>. HIDE DEF j, W, next
    <3>. QED  BY <1>1, <3>3, <3>4, <3>5, AddSegmentShape
  <2>2. CASE ~(x.start <= End(s))
    <3>1. After(D, s) = {} /\ MergedEnd(D, s) = End(s)  BY <1>2, <2>2, AfterIs
    <3>2. ~(End(j) >= x.start)  BY <1>1, <1>4, <1>7, <2>2 DEF SegmentType, End
    <3>3. next.set = W  BY <1>8, <3>2
    <3>. QED  BY <3>1, <3>3, NothingToMerge
  <2>. QED  BY <2>1, <2>2
<1>11. AllMerged(D, s, next)
  <2>1. CASE Following(D, x) = {}  BY <1>9, <1>10, <2>1 DEF AllMerged
  <2>2. CASE Following(D, x) # {}
    <3>1. PICK y \in D : Following(D, x) = {y} /\ Less(x, y)  BY <1>1, <1>4, <2>2, FollowingOne
    <3>2. Less(s, y)  BY <1>1, <1>3, <1>4, <3>1, LessFact
    <3>3. y \notin After(D, s)  BY <1>3, <3>1 DEF After
    <3>. HIDE DEF next
    <3>. QED  BY <1>9, <1>10, <3>1, <3>2, <3>3 DEF AllMerged
  <2>. QED  BY <2>1, <2>2
<1>. QED  BY <1>9, <1>11 DEF Stage

LEMMA TurnAfter ==
  ASSUME NEW D, NEW s, Callable(D, s), s \notin D, NEW loop, AllMerged(D, s, loop),
         NEW x, loop.iter = {x}
  PROVE  /\ Stage(D, s, Consolidate(loop))
         /\ Consolidate(loop).iter = Following(Inserted(D, s), x)
<1>. DEFINE A == AddSegment(D, s)
            m == Merged(D, s)
            next == Consolidate(loop)
<1>1. D \in SUBSET SegmentType /\ s \in SegmentType /\ InFile(A) /\ Consolidated(A) /\ Consolidated(D)
  BY InsertedFact, AddedInFile DEF Callable
<1>2. loop.set = A /\ x \in D /\ Less(s, x) /\ x \notin After(D, s)  BY DEF AllMerged
<1>3. x \in SegmentType /\ x \notin Before(D, s)  BY <1>1, <1>2, JoinedFact
<1>4. A = (D \ (Before(D, s) \cup After(D, s))) \cup {m}  BY <1>1, AddSegmentShape
<1>5. x \in A /\ m \in A  BY <1>2, <1>3, <1>4
<1>6. Less(m, x)
  <2>1. End(x) < MergedStart(D, s) \/ MergedEnd(D, s) < x.start
    BY <1>1, <1>2, <1>3, OthersApart
  <2>2. MergedStart(D, s) <= s.start /\ MergedStart(D, s) \in Nat /\ MergedEnd(D, s) \in Nat
        /\ s.start < MergedEnd(D, s) /\ m.start = MergedStart(D, s)
    BY <1>1, MergedFact, MergedType
  <2>3. /\ s.start \in Nat /\ s.size \in Nat \ {0} /\ x.start \in Nat /\ x.size \in Nat \ {0}
    BY <1>1, <1>3 DEF SegmentType
  <2>. HIDE DEF m
  <2>. QED  BY <1>2, <2>1, <2>2, <2>3 DEF Less, End
<1>7. A \in SUBSET SegmentType  BY <1>1 DEF InFile
<1>8. \A e \in A : Less(e, x) => End(e) < x.start  BY <1>1, <1>5, <1>7, ApartInOrder
<1>9. next.set = A /\ next.iter = Following(A, x)
  BY <1>1, <1>2, <1>3, <1>5, <1>6, <1>8, TurnMovesOn
<1>10. next.iter = Following(D, x) /\ next.iter = Following(Inserted(D, s), x)
  BY <1>2, <1>3, <1>9, SameBehind
<1>11. AllMerged(D, s, next)
  <2>1. CASE Following(D, x) = {}  BY <1>9, <1>10, <2>1 DEF AllMerged
  <2>2. CASE Following(D, x) # {}
    <3>1. PICK y \in D : Following(D, x) = {y} /\ Less(x, y)  BY <1>1, <1>3, <2>2, FollowingOne
    <3>2. Less(s, y)  BY <1>1, <1>2, <1>3, <3>1, LessFact
    <3>3. y \notin After(D, s)  BY <1>2, <3>1 DEF After
    <3>. HIDE DEF next
    <3>. QED  BY <1>9, <1>10, <3>1, <3>2, <3>3 DEF AllMerged
  <2>. QED  BY <2>1, <2>2
<1>. QED  BY <1>10, <1>11 DEF Stage

\* A segment that was there already: the set was consolidated, and stays.
Unchanged(D, loop) ==
  /\ loop.set = D
  /\ loop.iter = {} \/ \E x \in D : loop.iter = {x} /\ \E e \in D : Less(e, x)

LEMMA TurnUnchanged ==
  ASSUME NEW D, InFile(D), Consolidated(D), NEW loop, Unchanged(D, loop)
  PROVE  Unchanged(D, Consolidate(loop))
<1>1. CASE loop.iter = {}  BY <1>1 DEF Consolidate
<1>2. CASE loop.iter # {}
  <2>1. PICK x \in D : loop.iter = {x} /\ \E e \in D : Less(e, x)  BY <1>2 DEF Unchanged
  <2>2. D \in SUBSET SegmentType /\ x \in SegmentType /\ loop.set = D
    BY DEF InFile, Unchanged
  <2>3. \A e \in D : Less(e, x) => End(e) < x.start  BY <2>2, ApartInOrder
  <2>4. Consolidate(loop).set = D /\ Consolidate(loop).iter = Following(D, x)
    BY <2>1, <2>2, <2>3, TurnMovesOn
  <2>5. Following(D, x) = {} \/ \E y \in D : Following(D, x) = {y} /\ Less(x, y)
    BY <2>2, FollowingOne
  <2>. QED  BY <2>4, <2>5 DEF Unchanged
<1>. QED  BY <1>1, <1>2

\* How far the iterator has come: n turns leave n + 1 segments behind it.
Behind(D, s, x) == {e \in Inserted(D, s) : Less(e, x)}
Passed(D, s, n, loop) ==
  \A x \in loop.iter : x \in Inserted(D, s) /\ Cardinality(Behind(D, s, x)) >= n + 1

LEMMA BehindFact ==
  ASSUME NEW D, NEW s, Callable(D, s), IsFiniteSet(D), NEW x
  PROVE  /\ IsFiniteSet(Inserted(D, s)) /\ Cardinality(Inserted(D, s)) <= Cardinality(D) + 1
         /\ Cardinality(D) \in Nat /\ Cardinality(Inserted(D, s)) \in Nat
         /\ IsFiniteSet(Behind(D, s, x)) /\ Cardinality(Behind(D, s, x)) \in Nat
         /\ \A T \in SUBSET Inserted(D, s) :
              IsFiniteSet(T) /\ Cardinality(T) \in Nat /\ Cardinality(T) <= Cardinality(Inserted(D, s))
<1>1. Cardinality(D) \in Nat  BY FS_CardinalityType
<1>2. /\ IsFiniteSet(D \cup {s})
      /\ Cardinality(D \cup {s}) = IF s \in D THEN Cardinality(D) ELSE Cardinality(D) + 1
  BY FS_AddElement
<1>3. IsFiniteSet(Inserted(D, s)) /\ Cardinality(Inserted(D, s)) <= Cardinality(D) + 1
      /\ Cardinality(Inserted(D, s)) \in Nat
  BY <1>1, <1>2 DEF Inserted
<1>4. ASSUME NEW T \in SUBSET Inserted(D, s)
      PROVE  IsFiniteSet(T) /\ Cardinality(T) \in Nat /\ Cardinality(T) <= Cardinality(Inserted(D, s))
  BY <1>3, FS_Subset, FS_CardinalityType
<1>5. Behind(D, s, x) \in SUBSET Inserted(D, s)  BY DEF Behind
<1>. QED  BY <1>1, <1>3, <1>4, <1>5

LEMMA OneMoreBehind ==
  ASSUME NEW D, NEW s, Callable(D, s), IsFiniteSet(D), NEW x \in Inserted(D, s),
         NEW y \in Inserted(D, s), Less(x, y)
  PROVE  Cardinality(Behind(D, s, y)) >= Cardinality(Behind(D, s, x)) + 1
<1>1. Inserted(D, s) \in SUBSET SegmentType  BY InsertedFact
<1>2. x \notin Behind(D, s, x)  BY <1>1, LessFact DEF Behind
<1>3. Behind(D, s, x) \cup {x} \subseteq Behind(D, s, y)
  <2>1. \A e \in Inserted(D, s) : Less(e, x) => Less(e, y)  BY <1>1, LessFact
  <2>. QED  BY <2>1 DEF Behind
<1>4. IsFiniteSet(Behind(D, s, x)) /\ IsFiniteSet(Behind(D, s, y))
      /\ Cardinality(Behind(D, s, x)) \in Nat /\ Cardinality(Behind(D, s, y)) \in Nat
  BY BehindFact
<1>5. Cardinality(Behind(D, s, x) \cup {x}) = Cardinality(Behind(D, s, x)) + 1
  BY <1>2, <1>4, FS_AddElement
<1>6. Cardinality(Behind(D, s, x) \cup {x}) <= Cardinality(Behind(D, s, y))
  BY <1>3, <1>4, FS_Subset
<1>. QED  BY <1>4, <1>5, <1>6

\* There are only so many segments.
LEMMA ThenAtEnd ==
  ASSUME NEW D, NEW s, Callable(D, s), IsFiniteSet(D), NEW loop, Passed(D, s, Cardinality(D), loop)
  PROVE  loop.iter = {}
<1>. SUFFICES ASSUME NEW x \in loop.iter  PROVE FALSE  OBVIOUS
<1>1. x \in Inserted(D, s) /\ Cardinality(Behind(D, s, x)) >= Cardinality(D) + 1  BY DEF Passed
<1>2. Inserted(D, s) \in SUBSET SegmentType  BY InsertedFact
<1>3. x \notin Behind(D, s, x)  BY <1>1, <1>2, LessFact DEF Behind
<1>4. IsFiniteSet(Behind(D, s, x)) /\ Cardinality(Behind(D, s, x)) \in Nat  BY BehindFact
<1>5. Cardinality(Behind(D, s, x) \cup {x}) = Cardinality(Behind(D, s, x)) + 1
  BY <1>3, <1>4, FS_AddElement
<1>6. Behind(D, s, x) \cup {x} \in SUBSET Inserted(D, s)  BY <1>1 DEF Behind
<1>7. Cardinality(Behind(D, s, x) \cup {x}) <= Cardinality(Inserted(D, s))  BY <1>6, BehindFact
<1>8. Cardinality(Inserted(D, s)) <= Cardinality(D) + 1 /\ Cardinality(D) \in Nat
      /\ Cardinality(Inserted(D, s)) \in Nat
  BY BehindFact
<1>. QED  BY <1>1, <1>4, <1>5, <1>7, <1>8

LEMMA AnyTurn ==
  ASSUME NEW D, NEW s, Callable(D, s), IsFiniteSet(D), s \notin D, NEW loop, Stage(D, s, loop),
         NEW n \in Nat, Passed(D, s, n, loop)
  PROVE  Stage(D, s, Consolidate(loop)) /\ Passed(D, s, n + 1, Consolidate(loop))
<1>. DEFINE next == Consolidate(loop)
<1>1. CASE loop.iter = {}
  <2>1. next = loop  BY <1>1 DEF Consolidate
  <2>. QED  BY <1>1, <2>1 DEF Passed
<1>2. CASE loop.iter # {}
  <2>1. PICK x : loop.iter = {x}
    <3>1. CASE NotYetMet(D, s, loop)  BY <3>1 DEF NotYetMet
    <3>2. CASE AtSuccessor(D, s, loop)
      <4>1. D \in SUBSET SegmentType /\ s \in SegmentType  BY InsertedFact
      <4>2. Following(D, s) = {} \/ \E y \in D : Following(D, s) = {y}  BY <4>1, FollowingOne
      <4>3. loop.iter = Following(D, s)  BY <3>2 DEF AtSuccessor
      <4>. QED  BY <1>2, <4>2, <4>3
    <3>3. CASE AllMerged(D, s, loop)  BY <1>2, <3>3 DEF AllMerged
    <3>. QED  BY <3>1, <3>2, <3>3 DEF Stage
  <2>2. Stage(D, s, next) /\ next.iter = Following(Inserted(D, s), x)
    BY <2>1, TurnBefore, TurnAtSuccessor, TurnAfter DEF Stage
  <2>3. x \in Inserted(D, s) /\ Cardinality(Behind(D, s, x)) >= n + 1  BY <2>1 DEF Passed
  <2>4. ASSUME NEW y \in next.iter
        PROVE  y \in Inserted(D, s) /\ Cardinality(Behind(D, s, y)) >= n + 1 + 1
    <3>1. y \in Inserted(D, s) /\ Less(x, y)  BY <2>2, <2>4 DEF Following
    <3>2. Cardinality(Behind(D, s, y)) >= Cardinality(Behind(D, s, x)) + 1
      BY <2>3, <3>1, OneMoreBehind
    <3>3. Cardinality(Behind(D, s, x)) \in Nat /\ Cardinality(Behind(D, s, y)) \in Nat  BY BehindFact
    <3>. QED  BY <2>3, <3>1, <3>2, <3>3
  <2>5. Passed(D, s, n + 1, next)
    <3>. HIDE DEF next
    <3>. QED  BY <2>4 DEF Passed
  <2>. QED  BY <2>2, <2>5
<1>. QED  BY <1>1, <1>2

LoopStart(D, s) == [set |-> D \cup {s}, iter |-> Second(D \cup {s})]

\* The loop begins at the second segment.
LEMMA StartIs ==
  ASSUME NEW D, NEW s, Callable(D, s)
  PROVE  \E x \in Inserted(D, s) :
           /\ \A e \in Inserted(D, s) : e = x \/ Less(x, e)
           /\ LoopStart(D, s).iter = Following(Inserted(D, s), x)
<1>. DEFINE E == Inserted(D, s)
<1>1. E \in SUBSET SegmentType /\ E # {}  BY InsertedFact DEF Inserted
<1>2. PICK x \in E : \A e \in E : e = x \/ Less(x, e)  BY <1>1, LeastThere
<1>3. {f \in E : \A g \in E : ~Less(g, f)} = {x}
  <2>1. \A g \in E : ~Less(g, x)  BY <1>1, <1>2, LessFact
  <2>2. \A f \in E : (\A g \in E : ~Less(g, f)) => f = x  BY <1>2
  <2>. QED  BY <1>2, <2>1, <2>2
<1>4. Second(E) = UNION {Following(E, e) : e \in {x}}  BY <1>3, Zenon DEF Second
<1>5. Second(E) = Following(E, x)
  <2>. HIDE DEF E
  <2>. QED  BY <1>4
<1>6. LoopStart(D, s).iter = Second(E)  BY DEF LoopStart, Inserted
<1>. QED  BY <1>2, <1>5, <1>6

LEMMA StartStage ==
  ASSUME NEW D, NEW s, Callable(D, s), IsFiniteSet(D), s \notin D
  PROVE  Stage(D, s, LoopStart(D, s)) /\ Passed(D, s, 0, LoopStart(D, s))
<1>. DEFINE E == Inserted(D, s)
            loop == LoopStart(D, s)
<1>1. E \in SUBSET SegmentType /\ D \in SUBSET SegmentType /\ s \in SegmentType /\ s \in E
  BY InsertedFact DEF Inserted
<1>2. PICK x \in E : (\A e \in E : e = x \/ Less(x, e)) /\ loop.iter = Following(E, x)
  BY StartIs
<1>3. loop.set = E  BY DEF LoopStart, Inserted
<1>4. Passed(D, s, 0, loop)
  <2>1. ASSUME NEW y \in loop.iter  PROVE y \in E /\ Cardinality(Behind(D, s, y)) >= 0 + 1
    <3>1. y \in E /\ Less(x, y)  BY <1>2, <2>1 DEF Following
    <3>2. Cardinality(Behind(D, s, y)) >= Cardinality(Behind(D, s, x)) + 1
      BY <1>2, <3>1, OneMoreBehind
    <3>3. Cardinality(Behind(D, s, x)) \in Nat /\ Cardinality(Behind(D, s, y)) \in Nat  BY BehindFact
    <3>. QED  BY <3>1, <3>2, <3>3
  <2>. HIDE DEF loop
  <2>. QED  BY <2>1 DEF Passed
<1>5. CASE x = s
  <2>1. \A d \in D : ~Less(d, s)
    <3>1. \A d \in D : d \in E  BY DEF Inserted
    <3>. QED  BY <1>1, <1>2, <1>5, <3>1, LessFact
  <2>2. WithJoined(D, s) = E  BY <2>1, NoneBefore
  <2>3. loop.iter = Following(D, s)  BY <1>1, <1>2, <1>5, SameBehind
  <2>4. AtSuccessor(D, s, loop)
    <3>. HIDE DEF loop
    <3>. QED  BY <1>3, <2>2, <2>3 DEF AtSuccessor
  <2>. QED  BY <1>4, <2>4 DEF Stage
<1>6. CASE x # s
  <2>1. Less(x, s)  BY <1>1, <1>2, <1>6
  <2>2. PICK y \in E : Following(E, x) = {y} /\ Less(x, y) /\ \A f \in E : Less(x, f) => ~Less(f, y)
    BY <1>1, <1>2, <2>1, FollowingOne
  <2>3. ~Less(s, y)  BY <1>1, <2>1, <2>2
  <2>4. NotYetMet(D, s, loop)
    <3>. HIDE DEF loop
    <3>. QED  BY <1>2, <1>3, <2>2, <2>3 DEF NotYetMet
  <2>. QED  BY <1>4, <2>4 DEF Stage
<1>. QED  BY <1>5, <1>6

LEMMA StartUnchanged ==
  ASSUME NEW D, NEW s, Callable(D, s), s \in D
  PROVE  Unchanged(D, LoopStart(D, s))
<1>1. Inserted(D, s) = D  BY DEF Inserted
<1>2. PICK x \in D : LoopStart(D, s).iter = Following(D, x)  BY <1>1, StartIs
<1>3. D \in SUBSET SegmentType  BY InsertedFact
<1>4. Following(D, x) = {} \/ \E y \in D : Following(D, x) = {y} /\ Less(x, y)
  BY <1>3, FollowingOne
<1>5. LoopStart(D, s).set = D  BY <1>1 DEF LoopStart, Inserted
<1>. QED  BY <1>2, <1>4, <1>5 DEF Unchanged

\* Counting up to k.
LEMMA CountUp == ASSUME NEW k \in Nat, NEW T, 0 \in T, \A n \in 0 .. k : n \in T /\ n < k => n + 1 \in T
                 PROVE  k \in T
<1>. DEFINE missing == {n \in 0 .. k : n \notin T}
<1>1. SUFFICES ASSUME k \notin T  PROVE FALSE  OBVIOUS
<1>2. missing \in SUBSET Nat /\ missing # {}  BY <1>1
<1>3. PICK m \in missing : \A y \in missing : m <= y  BY <1>2, LeastElement
<1>4. m # 0  BY <1>3
<1>5. m - 1 \in 0 .. k /\ m - 1 < k /\ m - 1 \notin missing  BY <1>3, <1>4
<1>6. m \in T  BY <1>3, <1>5
<1>. QED  BY <1>3, <1>6

IsLoop(D, s, k, f) ==
  f = [n \in 0 .. k |-> IF n = 0 THEN LoopStart(D, s) ELSE Consolidate(f[n - 1])]

LEMMA LoopThere == ASSUME NEW D, NEW s, NEW k \in Nat  PROVE \E f : IsLoop(D, s, k, f)
<1>. DEFINE T == {n \in Nat : \E f : IsLoop(D, s, n, f)}
<1>1. 0 \in T
  <2>1. IsLoop(D, s, 0, [n \in 0 .. 0 |-> LoopStart(D, s)])  BY DEF IsLoop
  <2>. QED  BY <2>1
<1>2. ASSUME NEW n \in 0 .. k, n \in T  PROVE n + 1 \in T
  <2>1. PICK f : IsLoop(D, s, n, f)  BY <1>2
  <2>. DEFINE g == [i \in 0 .. n + 1 |-> IF i = n + 1 THEN Consolidate(f[n]) ELSE f[i]]
              h == [i \in 0 .. n + 1 |-> IF i = 0 THEN LoopStart(D, s) ELSE Consolidate(g[i - 1])]
  <2>2. ASSUME NEW i \in 0 .. n + 1  PROVE g[i] = h[i]
    <3>1. CASE i = n + 1
      <4>1. g[n] = f[n]  OBVIOUS
      <4>. QED  BY <3>1, <4>1
    <3>2. CASE i = 0  BY <2>1, <3>2 DEF IsLoop
    <3>3. CASE i # n + 1 /\ i # 0
      <4>1. i \in 0 .. n /\ i - 1 \in 0 .. n  BY <3>3
      <4>2. f[i] = Consolidate(f[i - 1])  BY <2>1, <3>3, <4>1 DEF IsLoop
      <4>3. g[i] = f[i] /\ g[i - 1] = f[i - 1]  BY <3>3, <4>1
      <4>. QED  BY <3>3, <4>2, <4>3
    <3>. QED  BY <3>1, <3>2, <3>3
  <2>3. g = h  BY <2>2
  <2>4. IsLoop(D, s, n + 1, g)  BY <2>3 DEF IsLoop
  <2>. QED  BY <2>4
<1>3. k \in T
  <2>. HIDE DEF T
  <2>. QED  BY <1>1, <1>2, CountUp
<1>. QED  BY <1>3

LEMMA LoopIs == ASSUME NEW D, NEW s
                PROVE  AddSegmentLoop(D, s) = (CHOOSE f : IsLoop(D, s, Cardinality(D), f))[Cardinality(D)].set
BY DEF AddSegmentLoop, IsLoop, LoopStart

LEMMA LoopValue ==
  ASSUME NEW D, NEW s, Callable(D, s), IsFiniteSet(D)
  PROVE  AddSegmentLoop(D, s) = AddSegment(D, s)
<1>. DEFINE k == Cardinality(D)
            f == CHOOSE g : IsLoop(D, s, k, g)
<1>1. k \in Nat  BY FS_CardinalityType
<1>2. IsLoop(D, s, k, f)  BY <1>1, LoopThere
<1>. HIDE DEF f, k
<1>3. f[0] = LoopStart(D, s) /\ \A n \in 0 .. k : n < k => f[n + 1] = Consolidate(f[n])
  BY <1>1, <1>2 DEF IsLoop
<1>4. CASE s \in D
  <2>. DEFINE T == {n \in 0 .. k : Unchanged(D, f[n])}
  <2>1. 0 \in T  BY <1>1, <1>3, <1>4, StartUnchanged
  <2>2. ASSUME NEW n \in 0 .. k, n \in T, n < k  PROVE n + 1 \in T
    <3>1. Unchanged(D, Consolidate(f[n]))  BY <2>2, TurnUnchanged DEF Callable
    <3>. QED  BY <1>1, <1>3, <2>2, <3>1
  <2>3. k \in T
    <3>. HIDE DEF T
    <3>. QED  BY <1>1, <2>1, <2>2, CountUp
  <2>4. f[k].set = D  BY <2>3 DEF Unchanged
  <2>. QED  BY <1>4, <2>4, LoopIs DEF AddSegment, f, k
<1>5. CASE s \notin D
  <2>. DEFINE T == {n \in 0 .. k : Stage(D, s, f[n]) /\ Passed(D, s, n, f[n])}
  <2>1. 0 \in T  BY <1>1, <1>3, <1>5, StartStage
  <2>2. ASSUME NEW n \in 0 .. k, n \in T, n < k  PROVE n + 1 \in T
    <3>1. Stage(D, s, Consolidate(f[n])) /\ Passed(D, s, n + 1, Consolidate(f[n]))
      BY <1>5, <2>2, AnyTurn
    <3>. QED  BY <1>1, <1>3, <2>2, <3>1
  <2>3. k \in T
    <3>. HIDE DEF T
    <3>. QED  BY <1>1, <2>1, <2>2, CountUp
  <2>4. f[k].iter = {}  BY <2>3, ThenAtEnd DEF k
  <2>5. f[k].set = AddSegment(D, s)
    <3>1. CASE AtSuccessor(D, s, f[k])
      <4>1. Following(D, s) = {} /\ f[k].set = WithJoined(D, s)  BY <2>4, <3>1 DEF AtSuccessor
      <4>2. After(D, s) = {} /\ MergedEnd(D, s) = End(s)  BY <4>1, AfterIs
      <4>. QED  BY <1>5, <4>1, <4>2, NothingToMerge
    <3>2. CASE AllMerged(D, s, f[k])  BY <3>2 DEF AllMerged
    <3>3. CASE NotYetMet(D, s, f[k])  BY <2>4, <3>3 DEF NotYetMet
    <3>. QED  BY <2>3, <3>1, <3>2, <3>3 DEF Stage
  <2>. QED  BY <2>5, LoopIs DEF f, k
<1>. QED  BY <1>4, <1>5

\* Sets that calls of addSegment build are finite.
LEMMA FinitelyMany == Spec => []IsFiniteSet(done)
<1>1. Init => IsFiniteSet(done)  BY FS_EmptySet DEF Init
<1>2. IsFiniteSet(done) /\ [Next]_done => IsFiniteSet(done)'
  <2>1. SUFFICES ASSUME IsFiniteSet(done), [Next]_done  PROVE IsFiniteSet(done')  OBVIOUS
  <2>2. CASE done' = done  BY <2>1, <2>2
  <2>3. CASE Next
    <3>1. PICK s \in Legal : done' = AddSegment(done, s)  BY <2>3 DEF Next, Add
    <3>2. CASE s \in done  BY <2>1, <3>1, <3>2 DEF AddSegment
    <3>3. CASE s \notin done
      <4>1. done' = (done \ (Before(done, s) \cup After(done, s))) \cup {Merged(done, s)}
        BY <3>1, <3>3 DEF AddSegment, Merged
      <4>2. IsFiniteSet(done \ (Before(done, s) \cup After(done, s)))  BY <2>1, FS_Subset
      <4>. QED  BY <4>1, <4>2, FS_AddElement
    <3>. QED  BY <3>2, <3>3
  <2>. QED  BY <2>1, <2>2, <2>3
<1>. QED  BY <1>1, <1>2, PTL DEF Spec

\* The closed form of addSegment, on which every other theorem about finished
\* segments rests, is what the consolidating loop over the std::set leaves,
\* on every set that calls of addSegment can build.
THEOREM AddSegmentLoops == Spec => []AddSegmentIsTheLoop
<1>1. SInv /\ IsFiniteSet(done) => AddSegmentIsTheLoop
  <2>1. SUFFICES ASSUME SInv, IsFiniteSet(done), NEW s \in Legal
                 PROVE  AddSegment(done, s) = AddSegmentLoop(done, s)
    BY DEF AddSegmentIsTheLoop
  <2>2. Callable(done, s)  BY <2>1, LegalFact DEF Callable, InFile, SInv
  <2>. QED  BY <2>1, <2>2, LoopValue
<1>. QED  BY <1>1, SetsInvariance, FinitelyMany, PTL
=============================================================================
