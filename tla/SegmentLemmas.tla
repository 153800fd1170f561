---------------------------- MODULE SegmentLemmas ----------------------------
(***************************************************************************)
(* Lemmas about Segments, for every size of the file and of its blocks:    *)
(* the block arithmetic, and what addSegment makes of the finished         *)
(* segments.                                                               *)
(***************************************************************************)
EXTENDS Segments, WellFoundedInduction, TLAPS

-----------------------------------------------------------------------------
(* Block arithmetic.                                                       *)

\* A remainder is smaller than a block.
LEMMA Remainder == \A x \in Nat : x % BlockSize \in 0 .. BlockSize - 1
BY BlockAssumption

\* A number is its whole blocks and the remainder.
LEMMA Division == \A x \in Int : x = BlockSize * (x \div BlockSize) + (x % BlockSize)
BY BlockAssumption

\* So many whole blocks leave no remainder.
LEMMA WholeBlocks == \A k \in Int : (k * BlockSize) % BlockSize = 0
BY BlockAssumption

\* A number without remainder is so many whole blocks.
LEMMA InBlocks == ASSUME NEW x \in Int, x % BlockSize = 0
                  PROVE  \E k \in Int : x = k * BlockSize
BY Division, BlockAssumption

\* Block boundaries add up to a block boundary.
LEMMA BoundarySum == ASSUME NEW x \in Int, NEW y \in Int,
                            x % BlockSize = 0, y % BlockSize = 0
                     PROVE  (x + y) % BlockSize = 0
<1>1. PICK j \in Int : x = j * BlockSize  BY InBlocks
<1>2. PICK k \in Int : y = k * BlockSize  BY InBlocks
<1>3. x + y = (j + k) * BlockSize /\ j + k \in Int  BY <1>1, <1>2, BlockAssumption
<1>. QED  BY <1>3, WholeBlocks

\* putDownload's rounding gives a block boundary no further than pos.
LEMMA AlignDownFact == ASSUME NEW x \in Nat
                       PROVE  AlignDown(x) \in 0 .. x /\ AlignDown(x) % BlockSize = 0
<1>1. AlignDown(x) = (x \div BlockSize) * BlockSize  BY Division, BlockAssumption DEF AlignDown
<1>2. x \div BlockSize \in Nat  BY BlockAssumption
<1>3. x % BlockSize \in 0 .. x  BY Division, Remainder, <1>2, BlockAssumption
<1>4. AlignDown(x) \in 0 .. x  BY <1>3 DEF AlignDown
<1>. QED  BY <1>1, <1>2, <1>4, WholeBlocks

\* Util::roundDown and roundUp give block boundaries.
LEMMA RoundFact == ASSUME NEW x \in Nat
                   PROVE  /\ RoundDown(x) \in Nat /\ RoundDown(x) % BlockSize = 0
                          /\ RoundUp(x) \in Nat /\ RoundUp(x) % BlockSize = 0
<1>1. (x + BlockSize \div 2) \div BlockSize \in Nat  BY BlockAssumption
<1>2. (x + BlockSize - 1) \div BlockSize \in Nat  BY BlockAssumption
<1>3. \A k \in Nat : k * BlockSize \in Nat  BY BlockAssumption
<1>. QED  BY <1>1, <1>2, <1>3, WholeBlocks DEF RoundDown, RoundUp

\* Two block boundaries less than a block apart are in order.
LEMMA NextBoundary == ASSUME NEW x \in Nat, NEW y \in Nat,
                             x % BlockSize = 0, y % BlockSize = 0, x < y + BlockSize
                      PROVE  x <= y
<1>1. PICK j \in Int : x = j * BlockSize  BY InBlocks
<1>2. PICK k \in Int : y = k * BlockSize  BY InBlocks
<1>3. SUFFICES ASSUME y < x PROVE FALSE  BY <1>1, <1>2
<1>4. (j - k) * BlockSize > 0 /\ (j - k) * BlockSize < BlockSize
  BY <1>1, <1>2, <1>3, BlockAssumption
<1>5. j - k <= 0 \/ j - k >= 1  BY <1>1, <1>2
<1>6. j - k <= 0 => (j - k) * BlockSize <= 0  BY BlockAssumption
<1>7. j - k >= 1 => (j - k) * BlockSize >= BlockSize
  <2>1. (j - k) * BlockSize = (j - k - 1) * BlockSize + BlockSize  BY BlockAssumption
  <2>2. j - k >= 1 => (j - k - 1) * BlockSize >= 0  BY BlockAssumption
  <2>. QED  BY <2>1, <2>2, BlockAssumption
<1>8. (j - k) * BlockSize \in Int  BY BlockAssumption
<1>. QED  BY <1>4, <1>5, <1>6, <1>7, <1>8, BlockAssumption

\* Rounding leaves a block boundary where it is.
LEMMA RoundOfBoundary == ASSUME NEW x \in Nat, x % BlockSize = 0
                         PROVE  RoundDown(x) = x /\ RoundUp(x) = x
<1>1. PICK k \in Int : x = k * BlockSize  BY InBlocks
<1>2. BlockSize \div 2 \in 0 .. BlockSize - 1  BY BlockAssumption
<1>3. \A r \in 0 .. BlockSize - 1 : (k * BlockSize + r) \div BlockSize = k
  <2>1. TAKE r \in 0 .. BlockSize - 1
  <2>. DEFINE q == (k * BlockSize + r) \div BlockSize
              m == (k * BlockSize + r) % BlockSize
  <2>2. k * BlockSize + r = BlockSize * q + m /\ k * BlockSize \in Int /\ k * BlockSize + r \in Nat
    BY Division, <1>1, BlockAssumption
  <2>3. m \in 0 .. BlockSize - 1  BY <2>2, Remainder
  <2>4. q \in Int  BY <2>2, BlockAssumption
  <2>. HIDE DEF q, m
  <2>5. (k - q) * BlockSize = m - r  BY <2>2, <2>3, <2>4, BlockAssumption
  <2>6. k - q >= 1 => (k - q) * BlockSize >= BlockSize
    <3>1. (k - q) * BlockSize = (k - q - 1) * BlockSize + BlockSize  BY <2>4, BlockAssumption
    <3>2. k - q >= 1 => (k - q - 1) * BlockSize >= 0  BY <2>4, BlockAssumption
    <3>. QED  BY <2>4, <3>1, <3>2, BlockAssumption
  <2>7. k - q <= -1 => (k - q) * BlockSize <= -BlockSize
    <3>1. (k - q) * BlockSize = (k - q + 1) * BlockSize - BlockSize  BY <2>4, BlockAssumption
    <3>2. k - q <= -1 => (k - q + 1) * BlockSize <= 0  BY <2>4, BlockAssumption
    <3>. QED  BY <2>4, <3>1, <3>2, BlockAssumption
  <2>8. k = q  BY <2>3, <2>4, <2>5, <2>6, <2>7, BlockAssumption
  <2>. QED  BY <2>8 DEF q
<1>4. (x + BlockSize \div 2) \div BlockSize = k  BY <1>1, <1>2, <1>3
<1>5. (x + BlockSize - 1) \div BlockSize = k
  <2>1. x + BlockSize - 1 = k * BlockSize + (BlockSize - 1)  BY <1>1, BlockAssumption
  <2>2. BlockSize - 1 \in 0 .. BlockSize - 1  BY BlockAssumption
  <2>. QED  BY <1>3, <2>1, <2>2
<1>. QED  BY <1>1, <1>4, <1>5 DEF RoundDown, RoundUp

-----------------------------------------------------------------------------
(* Least elements: the order of the naturals, as a relation.               *)

NatOrder == {p \in Nat \X Nat : p[1] < p[2]}

\* Every set of naturals has a least element.
LEMMA LeastElement == ASSUME NEW T \in SUBSET Nat, T # {}
                      PROVE  \E x \in T : \A y \in T : x <= y
<1>1. OpToRel(<, Nat) = NatOrder  BY DEF OpToRel, NatOrder
<1>2. IsWellFoundedOn(NatOrder, Nat)  BY <1>1, NatLessThanWellFounded, Zenon
<1>3. PICK x \in T : \A y \in T : ~(<<y, x>> \in NatOrder)  BY <1>2, WFMin
<1>4. \A y \in T : ~(y < x)
  <2>1. TAKE y \in T
  <2>2. <<y, x>> \in Nat \X Nat  OBVIOUS
  <2>. QED  BY <1>3, <2>2 DEF NatOrder
<1>5. \A y \in T : x <= y  BY <1>4
<1>. QED  BY <1>5

-----------------------------------------------------------------------------
(* addSegment: where the merged segment starts and ends.                   *)

\* It starts where the new segment or one that reaches it starts.
LEMMA StartFact == ASSUME NEW D \in SUBSET SegmentType, NEW s \in SegmentType
                   PROVE  \/ /\ Before(D, s) = {}
                             /\ MergedStart(D, s) = s.start
                          \/ \E d \in Before(D, s) : MergedStart(D, s) = d.start
<1>1. CASE Before(D, s) = {}  BY <1>1 DEF MergedStart
<1>2. CASE Before(D, s) # {}
  <2>1. (CHOOSE d \in Before(D, s) : TRUE) \in Before(D, s)  BY <1>2
  <2>. QED  BY <1>2, <2>1 DEF MergedStart
<1>. QED  BY <1>1, <1>2

\* It ends where the new segment or one it reaches ends.
LEMMA EndFact == ASSUME NEW D \in SUBSET SegmentType, NEW s \in SegmentType
                 PROVE  \/ /\ After(D, s) = {}
                           /\ MergedEnd(D, s) = End(s)
                        \/ \E d \in After(D, s) : MergedEnd(D, s) = End(d)
<1>1. CASE After(D, s) = {}  BY <1>1 DEF MergedEnd
<1>2. CASE After(D, s) # {}
  <2>1. (CHOOSE d \in After(D, s) : TRUE) \in After(D, s)  BY <1>2
  <2>. QED  BY <1>2, <2>1 DEF MergedEnd
<1>. QED  BY <1>1, <1>2

\* The merged segment is not empty.
LEMMA MergedFact == ASSUME NEW D \in SUBSET SegmentType, NEW s \in SegmentType
                    PROVE  /\ MergedStart(D, s) \in Nat /\ MergedEnd(D, s) \in Nat
                           /\ MergedStart(D, s) <= s.start
                           /\ s.start < MergedEnd(D, s)
<1>1. s.start \in Nat /\ s.size \in Nat \ {0}  BY DEF SegmentType
<1>2. \A d \in D : d.start \in Nat /\ d.size \in Nat \ {0}  BY DEF SegmentType
<1>3. MergedStart(D, s) \in Nat /\ MergedStart(D, s) <= s.start
  BY <1>1, <1>2, StartFact DEF Before, Less
<1>4. MergedEnd(D, s) \in Nat /\ s.start < MergedEnd(D, s)
  BY <1>1, <1>2, EndFact DEF After, Less, End
<1>. QED  BY <1>3, <1>4

Merged(D, s) == Segment(MergedStart(D, s), MergedEnd(D, s) - MergedStart(D, s))

LEMMA MergedType == ASSUME NEW D \in SUBSET SegmentType, NEW s \in SegmentType
                    PROVE  /\ Merged(D, s) \in SegmentType
                           /\ Merged(D, s).start = MergedStart(D, s)
                           /\ End(Merged(D, s)) = MergedEnd(D, s)
BY MergedFact DEF Merged, Segment, SegmentType, End

LEMMA AddSegmentShape == ASSUME NEW D \in SUBSET SegmentType, NEW s \in SegmentType, s \notin D
                         PROVE  AddSegment(D, s) = (D \ (Before(D, s) \cup After(D, s)))
                                                     \cup {Merged(D, s)}
BY DEF AddSegment, Merged

\* addSegment keeps a set of segments.
LEMMA AddSegmentType == ASSUME NEW D \in SUBSET SegmentType, NEW s \in SegmentType
                        PROVE  AddSegment(D, s) \in SUBSET SegmentType
<1>1. CASE s \in D  BY <1>1 DEF AddSegment
<1>2. CASE s \notin D  BY <1>2, AddSegmentShape, MergedType
<1>. QED  BY <1>1, <1>2

\* addSegment keeps segments of whole blocks.
LEMMA AddSegmentOnBoundary ==
  ASSUME NEW D \in SUBSET SegmentType, NEW s \in SegmentType,
         OnBoundary(s), \A d \in D : OnBoundary(d)
  PROVE  \A d \in AddSegment(D, s) : OnBoundary(d)
<1>1. CASE s \in D  BY <1>1 DEF AddSegment
<1>2. CASE s \notin D
  <2>1. MergedStart(D, s) % BlockSize = 0  BY StartFact DEF Before, OnBoundary
  <2>2. /\ MergedEnd(D, s) <= Size
        /\ MergedEnd(D, s) % BlockSize = 0 \/ MergedEnd(D, s) = Size
    BY EndFact DEF After, OnBoundary
  <2>3. OnBoundary(Merged(D, s))  BY <2>1, <2>2, MergedType DEF OnBoundary
  <2>. QED  BY <1>2, <2>3, AddSegmentShape
<1>. QED  BY <1>1, <1>2

-----------------------------------------------------------------------------
(* addSegment keeps the set consolidated.                                  *)

\* When a finished segment that follows s starts no later than s ends, one
\* of them is the successor of s.
LEMMA AfterNotEmpty ==
  ASSUME NEW D \in SUBSET SegmentType, Consolidated(D), NEW s \in SegmentType,
         NEW e \in D, Less(s, e), e.start <= End(s)
  PROVE  After(D, s) # {}
<1>. DEFINE near   == {d \in D : Less(s, d) /\ d.start <= End(s)}
            starts == {d.start : d \in near}
<1>1. starts \in SUBSET Nat /\ starts # {}  BY DEF SegmentType
<1>2. PICK x \in starts : \A y \in starts : x <= y  BY <1>1, LeastElement
<1>3. PICK d \in near : d.start = x  BY <1>2
<1>4. \A f \in D : Less(s, f) => ~Less(f, d)
  <2>1. SUFFICES ASSUME NEW f \in D, Less(s, f), Less(f, d)  PROVE FALSE  OBVIOUS
  <2>2. /\ d.start \in Nat /\ d.size \in Nat \ {0}
        /\ f.start \in Nat /\ f.size \in Nat \ {0}
        /\ s.start \in Nat /\ s.size \in Nat \ {0}
    BY DEF SegmentType
  <2>3. f.start <= d.start  BY <2>1, <2>2 DEF Less
  <2>4. f \in near  BY <2>1, <2>2, <2>3 DEF End
  <2>5. f.start = d.start  BY <2>2, <2>3, <2>4, <1>2, <1>3
  <2>6. f # d  BY <2>1, <2>2 DEF Less
  <2>7. End(f) < d.start \/ End(d) < f.start  BY <2>6 DEF Consolidated
  <2>. QED  BY <2>2, <2>5, <2>7 DEF End
<1>5. d \in After(D, s)  BY <1>3, <1>4 DEF After
<1>. QED  BY <1>5

\* A finished segment that is not merged does not touch the merged one.
LEMMA OthersApart ==
  ASSUME NEW D \in SUBSET SegmentType, Consolidated(D), NEW s \in SegmentType, s \notin D,
         NEW e \in D, e \notin Before(D, s), e \notin After(D, s)
  PROVE  End(e) < MergedStart(D, s) \/ MergedEnd(D, s) < e.start
<1>1. s.start \in Nat /\ s.size \in Nat \ {0}  BY DEF SegmentType
<1>2. \A d \in D : d.start \in Nat /\ d.size \in Nat \ {0}  BY DEF SegmentType
<1>3. \A d \in D : d # e => End(e) < d.start \/ End(d) < e.start  BY DEF Consolidated
<1>4. Less(e, s) \/ Less(s, e)
  <2>1. e = s <=> e.start = s.start /\ e.size = s.size  BY DEF SegmentType
  <2>. QED  BY <2>1, <1>1, <1>2 DEF Less
<1>5. CASE Less(e, s)
  <2>1. End(e) < s.start  BY <1>1, <1>2, <1>5 DEF Before, End
  <2>2. CASE MergedStart(D, s) = s.start  BY <2>1, <2>2
  <2>3. ASSUME NEW d \in Before(D, s), MergedStart(D, s) = d.start
        PROVE  End(e) < d.start
    <3>1. d \in D /\ End(d) >= s.start /\ d # e  BY DEF Before
    <3>. QED  BY <1>1, <1>2, <1>3, <2>1, <3>1 DEF End
  <2>. QED  BY <2>2, <2>3, StartFact
<1>6. CASE Less(s, e)
  <2>1. CASE e.start > End(s)
    <3>1. CASE MergedEnd(D, s) = End(s)  BY <2>1, <3>1, <1>1, <1>2 DEF End
    <3>2. ASSUME NEW d \in After(D, s), MergedEnd(D, s) = End(d)
          PROVE  End(d) < e.start
      <4>1. d \in D /\ d.start <= End(s) /\ d # e  BY DEF After
      <4>. QED  BY <1>1, <1>2, <1>3, <2>1, <4>1 DEF End
    <3>. QED  BY <3>1, <3>2, EndFact
  <2>2. CASE e.start <= End(s)
    <3>1. After(D, s) # {}  BY <1>6, <2>2, AfterNotEmpty
    <3>2. PICK d \in After(D, s) : MergedEnd(D, s) = End(d)  BY <3>1, EndFact
    <3>3. d \in D /\ d # e /\ ~Less(e, d)  BY <1>6, <3>2 DEF After
    <3>4. d.start <= e.start  BY <1>2, <3>3 DEF Less
    <3>. QED  BY <1>2, <1>3, <3>2, <3>3, <3>4 DEF End
  <2>. QED  BY <1>1, <1>2, <2>1, <2>2 DEF End
<1>. QED  BY <1>4, <1>5, <1>6

\* The finished segments never touch: QueueItem::addSegment, called with any
\* segment on a consolidated set, leaves a consolidated set.
THEOREM AddSegmentConsolidated ==
  ASSUME NEW D \in SUBSET SegmentType, Consolidated(D), NEW s \in SegmentType
  PROVE  Consolidated(AddSegment(D, s))
<1>1. CASE s \in D  BY <1>1 DEF AddSegment
<1>2. CASE s \notin D
  <2>. DEFINE rest == D \ (Before(D, s) \cup After(D, s))
              m    == Merged(D, s)
  <2>1. AddSegment(D, s) = rest \cup {m}  BY <1>2, AddSegmentShape
  <2>2. m.start = MergedStart(D, s) /\ End(m) = MergedEnd(D, s)  BY MergedType
  <2>3. \A e \in rest : End(e) < m.start \/ End(m) < e.start  BY <1>2, <2>2, OthersApart
  <2>4. \A e, f \in rest : e # f => End(e) < f.start \/ End(f) < e.start  BY DEF Consolidated
  <2>. HIDE DEF rest, m
  <2>. QED  BY <2>1, <2>3, <2>4 DEF Consolidated
<1>. QED  BY <1>1, <1>2

-----------------------------------------------------------------------------
(* addSegment and what is downloaded: the bytes of the set.                *)

\* What meets a segment of the new set meets the added one or an old one.
LEMMA AddSegmentMeets ==
  ASSUME NEW D \in SUBSET SegmentType, NEW s \in SegmentType, NEW t \in SegmentType,
         NEW e \in AddSegment(D, s), Overlaps(t, e)
  PROVE  Overlaps(t, s) \/ \E d \in D : Overlaps(t, d)
<1>1. CASE e \in D  BY <1>1
<1>2. CASE e \notin D
  <2>1. s \notin D  BY <1>2 DEF AddSegment
  <2>2. e = Merged(D, s)  BY <1>2, <2>1, AddSegmentShape
  <2>3. t.start < MergedEnd(D, s) /\ MergedStart(D, s) < End(t)
    BY <2>2, MergedType DEF Overlaps
  <2>4. /\ t.start \in Nat /\ t.size \in Nat \ {0} /\ s.start \in Nat /\ s.size \in Nat \ {0}
        /\ \A d \in D : d.start \in Nat /\ d.size \in Nat \ {0}
    BY DEF SegmentType
  <2>5. SUFFICES ASSUME ~Overlaps(t, s), \A d \in D : ~Overlaps(t, d)  PROVE FALSE  OBVIOUS
  <2>6. End(t) <= s.start \/ End(s) <= t.start  BY <2>4, <2>5 DEF Overlaps, End
  <2>7. CASE End(t) <= s.start
    <3>1. PICK b \in Before(D, s) : MergedStart(D, s) = b.start  BY <2>3, <2>4, <2>7, StartFact DEF End
    <3>2. b \in D /\ End(b) >= s.start  BY <3>1 DEF Before
    <3>3. b.start < End(t)  BY <2>3, <3>1
    <3>4. t.start < End(t)  BY <2>4 DEF End
    <3>5. b \in D /\ t.start < End(b)
      <4>1. b.start \in Nat /\ b.size \in Nat  BY <2>4, <3>2
      <4>. QED  BY <2>4, <2>7, <3>2, <3>4, <4>1 DEF End
    <3>. QED  BY <2>5, <3>3, <3>5 DEF Overlaps
  <2>8. CASE End(s) <= t.start
    <3>1. PICK a \in After(D, s) : MergedEnd(D, s) = End(a)  BY <2>3, <2>4, <2>8, EndFact DEF End
    <3>2. a \in D /\ a.start <= End(s)  BY <3>1 DEF After
    <3>3. t.start < End(a)  BY <2>3, <3>1
    <3>4. t.start < End(t)  BY <2>4 DEF End
    <3>5. a \in D /\ a.start < End(t)
      <4>1. a.start \in Nat  BY <2>4, <3>2
      <4>. QED  BY <2>4, <2>8, <3>2, <3>4, <4>1 DEF End
    <3>. QED  BY <2>5, <3>3, <3>5 DEF Overlaps
  <2>. QED  BY <2>6, <2>7, <2>8
<1>. QED  BY <1>1, <1>2

\* addSegment adds no byte but those of the segment.
LEMMA AddSegmentBytes ==
  ASSUME NEW D \in SUBSET SegmentType, NEW s \in SegmentType
  PROVE  Covered(AddSegment(D, s)) \subseteq Covered(D) \cup Bytes(s)
<1>. SUFFICES ASSUME NEW b \in Covered(AddSegment(D, s))  PROVE b \in Covered(D) \cup Bytes(s)
  OBVIOUS
<1>1. PICK e \in AddSegment(D, s) : b \in Bytes(e)  BY DEF Covered
<1>. DEFINE t == Segment(b, 1)
<1>2. e \in SegmentType  BY AddSegmentType
<1>3. e.start \in Nat /\ e.size \in Nat  BY <1>2 DEF SegmentType
<1>4. b \in Nat /\ e.start <= b /\ b < End(e)  BY <1>1, <1>3 DEF Bytes, End
<1>5. t \in SegmentType /\ t.start = b /\ End(t) = b + 1  BY <1>4 DEF Segment, SegmentType, End
<1>. HIDE DEF t
<1>6. Overlaps(t, e)  BY <1>3, <1>4, <1>5 DEF Overlaps, End
<1>7. \A d \in SegmentType : Overlaps(t, d) => b \in Bytes(d)
  BY <1>4, <1>5 DEF Overlaps, Bytes, SegmentType, End
<1>8. Overlaps(t, s) \/ \E d \in D : Overlaps(t, d)  BY <1>5, <1>6, AddSegmentMeets
<1>. QED  BY <1>7, <1>8 DEF Covered

\* addSegment forgets no byte when the new segment neither lies strictly
\* inside a finished one (which would be cut off at its end) nor covers one.
LEMMA AddSegmentAllBytes ==
  ASSUME NEW D \in SUBSET SegmentType, Consolidated(D), NEW s \in SegmentType,
         \A d \in D : /\ ~(d.start <= s.start /\ End(s) < End(d))
                     /\ ~(s.start <= d.start /\ End(d) < End(s))
  PROVE  Covered(AddSegment(D, s)) = Covered(D) \cup Bytes(s)
<1>1. /\ s.start \in Nat /\ s.size \in Nat \ {0}
      /\ \A d \in D : d.start \in Nat /\ d.size \in Nat \ {0}
  BY DEF SegmentType
<1>2. \A d, e \in D : d # e => End(d) < e.start \/ End(e) < d.start  BY DEF Consolidated
<1>3. CASE s \in D  BY <1>3 DEF AddSegment, Covered
<1>4. CASE s \notin D
  <2>1. AddSegment(D, s) = (D \ (Before(D, s) \cup After(D, s))) \cup {Merged(D, s)}
    BY <1>4, AddSegmentShape
  <2>2. /\ Merged(D, s).start = MergedStart(D, s) /\ End(Merged(D, s)) = MergedEnd(D, s)
        /\ MergedStart(D, s) \in Nat /\ MergedEnd(D, s) \in Nat
        /\ MergedStart(D, s) <= s.start /\ s.start < MergedEnd(D, s)
    BY MergedType, MergedFact
  <2>3. End(s) <= MergedEnd(D, s)
    <3>1. ASSUME NEW a \in After(D, s)  PROVE End(s) <= End(a)
      <4>1. a \in D /\ Less(s, a)  BY DEF After
      <4>2. s.start <= a.start  BY <1>1, <4>1 DEF Less
      <4>. QED  BY <1>1, <4>1, <4>2 DEF End
    <3>. QED  BY <1>1, <2>2, <3>1, EndFact DEF End
  <2>4. Bytes(s) \subseteq Bytes(Merged(D, s))  BY <1>1, <2>2, <2>3 DEF Bytes, End
  <2>5. ASSUME NEW d \in Before(D, s)  PROVE Bytes(d) \subseteq Bytes(Merged(D, s))
    <3>1. d \in D /\ Less(d, s) /\ End(d) >= s.start  BY DEF Before
    <3>2. PICK b \in Before(D, s) : MergedStart(D, s) = b.start  BY StartFact
    <3>3. b \in D /\ Less(b, s) /\ End(b) >= s.start  BY DEF Before
    <3>4. b = d  BY <1>1, <1>2, <3>1, <3>3 DEF Less, End
    <3>5. d.start <= s.start  BY <1>1, <3>1 DEF Less
    <3>6. End(d) <= End(s)  BY <1>1, <3>1, <3>5 DEF End
    <3>. QED  BY <1>1, <2>2, <2>3, <3>1, <3>2, <3>4, <3>6 DEF Bytes, End
  <2>6. ASSUME NEW d \in After(D, s)  PROVE Bytes(d) \subseteq Bytes(Merged(D, s))
    <3>1. /\ d \in D /\ Less(s, d)
          /\ \A e \in D : Less(s, e) => ~Less(e, d)
      BY DEF After
    <3>2. PICK a \in After(D, s) : MergedEnd(D, s) = End(a)  BY EndFact
    <3>3. /\ a \in D /\ Less(s, a)
          /\ \A e \in D : Less(s, e) => ~Less(e, a)
      BY DEF After
    <3>4. ~Less(a, d) /\ ~Less(d, a)  BY <3>1, <3>3
    <3>5. a = d  BY <1>1, <1>2, <3>1, <3>3, <3>4 DEF Less, End
    <3>. QED  BY <1>1, <2>2, <3>1, <3>2, <3>5 DEF Bytes, Less, End
  <2>7. ASSUME NEW d \in D  PROVE \E e \in AddSegment(D, s) : Bytes(d) \subseteq Bytes(e)
    BY <2>1, <2>5, <2>6
  <2>8. Covered(D) \cup Bytes(s) \subseteq Covered(AddSegment(D, s))
    BY <2>1, <2>4, <2>7 DEF Covered
  <2>. QED  BY <2>8, AddSegmentBytes
<1>. QED  BY <1>3, <1>4

\* In particular a segment that meets no finished one.
LEMMA AddSegmentKeepsBytes ==
  ASSUME NEW D \in SUBSET SegmentType, Consolidated(D), NEW s \in SegmentType,
         \A d \in D : ~Overlaps(s, d)
  PROVE  Covered(D) \subseteq Covered(AddSegment(D, s))
<1>1. \A d \in D : /\ ~(d.start <= s.start /\ End(s) < End(d))
                  /\ ~(s.start <= d.start /\ End(d) < End(s))
  BY DEF SegmentType, Overlaps, End
<1>. QED  BY <1>1, AddSegmentAllBytes

-----------------------------------------------------------------------------
(* Sets of finished segments of whole blocks, and what getNextSegment makes *)
(* of them.                                                                *)

\* Consolidated segments of whole blocks: what the queue keeps.
SegmentsOK(D) == Consolidated(D) /\ \A s \in D : OnBoundary(s)

\* A nonempty consolidated set has a first segment.
LEMMA FirstFact == ASSUME NEW D \in SUBSET SegmentType, D # {}, Consolidated(D)
                   PROVE  /\ FirstOf(D) \in D
                          /\ \A e \in D : FirstOf(D) = e \/ Less(FirstOf(D), e)
<1>. DEFINE starts == {d.start : d \in D}
<1>1. starts \in SUBSET Nat /\ starts # {}  BY DEF SegmentType
<1>2. PICK x \in starts : \A y \in starts : x <= y  BY <1>1, LeastElement
<1>3. PICK d \in D : d.start = x  BY <1>2
<1>4. \A e \in D : d = e \/ Less(d, e)
  <2>1. SUFFICES ASSUME NEW e \in D, d # e  PROVE Less(d, e)  OBVIOUS
  <2>2. /\ d.start \in Nat /\ d.size \in Nat \ {0}
        /\ e.start \in Nat /\ e.size \in Nat \ {0}
    BY DEF SegmentType
  <2>3. d.start <= e.start  BY <1>2, <1>3
  <2>4. End(d) < e.start \/ End(e) < d.start  BY <2>1 DEF Consolidated
  <2>. QED  BY <2>2, <2>3, <2>4 DEF Less, End
<1>. QED  BY <1>4 DEF FirstOf

\* A file is finished when every byte is.
LEMMA AllCovered ==
  ASSUME NEW D \in SUBSET SegmentType, Consolidated(D), \A d \in D : End(d) <= Size,
         Covered(D) = 0 .. Size - 1
  PROVE  IsFinished(D)
<1>1. \A d \in D : d.start \in Nat /\ d.size \in Nat \ {0} /\ End(d) <= Size
  BY DEF SegmentType
<1>2. \A d, e \in D : d # e => End(d) < e.start \/ End(e) < d.start
  BY DEF Consolidated
<1>3. 0 \in Covered(D)  BY SizeAssumption
<1>4. PICK d \in D : 0 \in Bytes(d)  BY <1>3 DEF Covered
<1>5. d.start = 0  BY <1>1, <1>4 DEF Bytes
<1>6. End(d) = Size
  <2>1. SUFFICES ASSUME End(d) < Size  PROVE FALSE  BY <1>1, SizeAssumption DEF End
  <2>2. End(d) \in Covered(D)  BY <1>1, <2>1, SizeAssumption DEF End
  <2>3. PICK e \in D : End(d) \in Bytes(e)  BY <2>2 DEF Covered
  <2>4. e.start <= End(d) /\ End(d) < End(e)  BY <1>1, <2>3 DEF Bytes, End
  <2>5. e # d  BY <1>1, <2>4 DEF End
  <2>. QED  BY <1>1, <1>2, <1>5, <2>4, <2>5 DEF End
<1>7. d = WholeFile
  <2>1. d.size = Size  BY <1>1, <1>5, <1>6, SizeAssumption DEF End
  <2>. QED  BY <1>5, <2>1 DEF WholeFile, Segment, SegmentType
<1>8. \A e \in D : e = d  BY <1>1, <1>2, <1>5, <1>6, SizeAssumption DEF End
<1>. QED  BY <1>7, <1>8 DEF IsFinished

\* Every byte of a finished file is.
LEMMA FinishedCovers == ASSUME NEW D, IsFinished(D)  PROVE Covered(D) = 0 .. Size - 1
<1>1. Bytes(WholeFile) = 0 .. Size - 1  BY SizeAssumption DEF Bytes, End, WholeFile, Segment
<1>. QED  BY <1>1 DEF IsFinished, Covered

\* The candidates of the scan are segments of whole blocks.
LEMMA CandidateFact == ASSUME NEW st \in ScanPoints, NEW n \in Nat \ {0}
                       PROVE  Candidate(st, n) \in SegmentType /\ OnBoundary(Candidate(st, n))
<1>1. st \in 0 .. Size - 1 /\ st % BlockSize = 0 /\ Size \in Nat \ {0}
  BY SizeAssumption DEF ScanPoints
<1>2. n * BlockSize \in Nat \ {0}  BY BlockAssumption
<1>3. (st + n * BlockSize) % BlockSize = 0  BY <1>1, <1>2, WholeBlocks, BoundarySum
<1>4. Lowest(Size, st + n * BlockSize) \in st + 1 .. Size  BY <1>1, <1>2 DEF Lowest
<1>5. \/ Lowest(Size, st + n * BlockSize) % BlockSize = 0
      \/ Lowest(Size, st + n * BlockSize) = Size
  BY <1>3 DEF Lowest
<1>. QED  BY <1>1, <1>4, <1>5 DEF Candidate, Segment, SegmentType, OnBoundary, End

\* A candidate that is free meets nothing finished and nothing running.
LEMMA FreeMeetsNothing ==
  ASSUME NEW D \in SUBSET SegmentType, \A d \in D : OnBoundary(d), NEW R,
         NEW st \in ScanPoints, NEW n \in Nat \ {0}, IsFree(D, R, st, n)
  PROVE  /\ \A d \in D : ~Overlaps(Candidate(st, n), d)
         /\ \A r \in R : ~Overlaps(Candidate(st, n), r)
<1>. DEFINE c == Candidate(st, n)
<1>1. \A r \in R : ~Overlaps(c, r)  BY DEF IsFree
<1>2. CASE n # 1  BY <1>1, <1>2 DEF IsFree
<1>3. CASE n = 1
  <2>1. SUFFICES ASSUME NEW d \in D, Overlaps(c, d)  PROVE FALSE  BY <1>1
  <2>2. ~(d.start <= st /\ End(d) >= End(c))  BY <1>3 DEF IsFree
  <2>3. /\ d.start \in Nat /\ d.size \in Nat \ {0} /\ d.start % BlockSize = 0
        /\ End(d) <= Size /\ (End(d) % BlockSize = 0 \/ End(d) = Size)
    BY DEF SegmentType, OnBoundary
  <2>4. st \in Nat /\ st % BlockSize = 0 /\ st < Size  BY SizeAssumption DEF ScanPoints
  <2>5. c.start = st /\ End(c) = Lowest(Size, st + BlockSize)
    BY <1>3, <2>4, SizeAssumption, BlockAssumption DEF Candidate, Segment, End, Lowest
  <2>. HIDE DEF c
  <2>6. End(c) <= Size /\ End(c) <= st + BlockSize  BY <2>4, <2>5, SizeAssumption, BlockAssumption DEF Lowest
  <2>7. End(d) \in Nat /\ d.start < End(c) /\ st < End(d)  BY <2>1, <2>3, <2>5 DEF Overlaps, End
  <2>8. d.start < st + BlockSize  BY <2>3, <2>4, <2>6, <2>7, <2>5, SizeAssumption, BlockAssumption DEF Lowest
  <2>9. d.start <= st  BY <2>3, <2>4, <2>8, NextBoundary
  <2>10. CASE End(d) = Size  BY <2>2, <2>6, <2>9, <2>10
  <2>11. CASE End(d) % BlockSize = 0
    <3>1. ~(End(d) < st + BlockSize)  BY <2>4, <2>7, <2>11, NextBoundary
    <3>. QED  BY <2>2, <2>4, <2>5, <2>7, <2>9, <3>1, SizeAssumption, BlockAssumption DEF Lowest
  <2>. QED  BY <2>3, <2>10, <2>11
<1>. QED  BY <1>2, <1>3

\* The file has a block.
LEMMA OneBlock == RoundUp(Size) \div BlockSize \in Nat \ {0}
<1>. DEFINE k == (Size + BlockSize - 1) \div BlockSize
            r == (Size + BlockSize - 1) % BlockSize
            q == (k * BlockSize) \div BlockSize
<1>1. Size + BlockSize - 1 \in Nat  BY SizeAssumption, BlockAssumption
<1>2. Size + BlockSize - 1 = BlockSize * k + r  BY <1>1, Division
<1>3. r \in 0 .. BlockSize - 1 /\ k \in Int  BY <1>1, Remainder, BlockAssumption
<1>4. RoundUp(Size) \div BlockSize = q  BY DEF RoundUp
<1>5. k * BlockSize \in Int  BY <1>3, BlockAssumption
<1>6. k * BlockSize = BlockSize * q + ((k * BlockSize) % BlockSize) /\ (k * BlockSize) % BlockSize = 0
  BY <1>3, <1>5, Division, WholeBlocks
<1>7. q \in Int  BY <1>5, BlockAssumption
<1>. HIDE DEF k, r, q
<1>8. BlockSize * k >= Size  BY <1>2, <1>3, <1>5, SizeAssumption, BlockAssumption
<1>9. BlockSize * q > 0  BY <1>3, <1>6, <1>7, <1>8, SizeAssumption, BlockAssumption
<1>10. q <= 0 => BlockSize * q <= 0  BY <1>7, BlockAssumption
<1>11. BlockSize * q \in Int  BY <1>7, BlockAssumption
<1>12. q > 0  BY <1>7, <1>9, <1>10, <1>11
<1>. QED  BY <1>4, <1>7, <1>12

\* The scan stops at the first candidate that is free.
LEMMA ScanFinds ==
  ASSUME NEW D, NEW R, NEW blocks \in Nat, NEW st \in ScanPoints, NEW n \in 1 .. blocks,
         IsFree(D, R, st, n)
  PROVE  FreeSegments(D, R, blocks) # {}
<1>. DEFINE points == {x \in ScanPoints : \E m \in 1 .. blocks : IsFree(D, R, x, m)}
<1>1. points \in SUBSET Nat /\ points # {}  BY SizeAssumption DEF ScanPoints
<1>2. PICK x \in points : \A y \in points : x <= y  BY <1>1, LeastElement
<1>. DEFINE less == {y \in 0 .. blocks - 1 : IsFree(D, R, x, blocks - y)}
<1>3. less \in SUBSET Nat /\ less # {}
  <2>1. PICK m \in 1 .. blocks : IsFree(D, R, x, m)  BY <1>2
  <2>2. blocks - m \in 0 .. blocks - 1 /\ blocks - (blocks - m) = m  BY <2>1
  <2>3. blocks - m \in less  BY <2>1, <2>2
  <2>4. less \in SUBSET Nat  OBVIOUS
  <2>. HIDE DEF less
  <2>. QED  BY <2>3, <2>4
<1>4. PICK y \in less : \A z \in less : y <= z  BY <1>3, LeastElement
<1>. DEFINE m == blocks - y
<1>5. m \in 1 .. blocks /\ IsFree(D, R, x, m)  BY <1>4
<1>6. \A k \in m + 1 .. blocks : ~IsFree(D, R, x, k)
  <2>1. SUFFICES ASSUME NEW k \in m + 1 .. blocks, IsFree(D, R, x, k)  PROVE FALSE  OBVIOUS
  <2>2. blocks - k \in 0 .. blocks - 1 /\ blocks - (blocks - k) = k /\ blocks - k < y  BY <1>4, <1>5, <2>1
  <2>3. blocks - k \in less  BY <2>1, <2>2
  <2>. QED  BY <1>4, <2>2, <2>3
<1>7. \A z \in ScanPoints, k \in 1 .. blocks : z < x => ~IsFree(D, R, z, k)
  <2>1. SUFFICES ASSUME NEW z \in ScanPoints, NEW k \in 1 .. blocks, z < x, IsFree(D, R, z, k)
                 PROVE FALSE
    OBVIOUS
  <2>2. z \in points  BY <2>1
  <2>. QED  BY <1>1, <1>2, <2>1, <2>2
<1>8. x \in ScanPoints  BY <1>2
<1>. HIDE DEF m
<1>9. <<x, m>> \in {q \in ScanPoints \X (1 .. blocks) :
                      /\ IsFree(D, R, q[1], q[2])
                      /\ \A k \in q[2] + 1 .. blocks : ~IsFree(D, R, q[1], k)
                      /\ \A z \in ScanPoints, k \in 1 .. blocks : z < q[1] => ~IsFree(D, R, z, k)}
  BY <1>5, <1>6, <1>7, <1>8
<1>10. Candidate(x, m) \in FreeSegments(D, R, blocks)  BY <1>9 DEF FreeSegments
<1>. QED  BY <1>10

\* A byte that is not finished is in a block that no finished segment holds.
LEMMA UnfinishedBlock ==
  ASSUME NEW D \in SUBSET SegmentType, SegmentsOK(D), ~IsFinished(D)
  PROVE  \E st \in ScanPoints : IsFree(D, {}, st, 1)
<1>1. \A d \in D : d.start \in Nat /\ d.size \in Nat \ {0} /\ End(d) <= Size
  BY DEF SegmentType, SegmentsOK, OnBoundary
<1>2. Covered(D) \subseteq 0 .. Size - 1  BY <1>1, SizeAssumption DEF Covered, Bytes, End
<1>3. PICK b \in 0 .. Size - 1 : b \notin Covered(D)  BY <1>1, <1>2, AllCovered DEF SegmentsOK
<1>. DEFINE st == AlignDown(b)
<1>4. b \in Nat /\ b < Size  BY <1>3, SizeAssumption
<1>5. st \in 0 .. b /\ st % BlockSize = 0  BY <1>4, AlignDownFact
<1>6. b < st + BlockSize
  <2>1. b % BlockSize \in 0 .. BlockSize - 1  BY <1>4, Remainder
  <2>. QED  BY <1>4, <2>1, BlockAssumption DEF AlignDown
<1>. HIDE DEF st
<1>7. st \in ScanPoints  BY <1>4, <1>5, SizeAssumption DEF ScanPoints
<1>8. End(Candidate(st, 1)) = Lowest(Size, st + BlockSize)
  BY <1>4, <1>5, SizeAssumption, BlockAssumption DEF Candidate, Segment, End, Lowest
<1>9. b < End(Candidate(st, 1)) /\ End(Candidate(st, 1)) \in Nat
  BY <1>4, <1>5, <1>6, <1>8, SizeAssumption, BlockAssumption DEF Lowest
<1>10. \A d \in D : ~(d.start <= st /\ End(d) >= End(Candidate(st, 1)))
  <2>1. SUFFICES ASSUME NEW d \in D, d.start <= st, End(d) >= End(Candidate(st, 1))  PROVE FALSE
    OBVIOUS
  <2>2. b \in Bytes(d)  BY <1>1, <1>4, <1>5, <1>9, <2>1 DEF Bytes, End
  <2>. QED  BY <1>3, <2>2 DEF Covered
<1>. QED  BY <1>7, <1>10 DEF IsFree

\* Without MULTI_CHUNK: the first gap is a segment of whole blocks.
LEMMA FirstGapFact == ASSUME NEW D \in SUBSET SegmentType, SegmentsOK(D), FirstGap(D).size > 0
                      PROVE  FirstGap(D) \in SegmentType /\ OnBoundary(FirstGap(D))
<1>1. CASE D = {}
  BY <1>1, SizeAssumption, BlockAssumption DEF FirstGap, WholeFile, Segment, SegmentType, OnBoundary, End
<1>2. CASE D # {}
  <2>. DEFINE first == FirstOf(D)
              rest  == D \ {first}
              from  == IF first.start > 0 THEN 0 ELSE RoundDown(End(first))
              to    == IF first.start > 0 THEN RoundUp(first.start)
                       ELSE IF rest = {} THEN Size ELSE RoundUp(FirstOf(rest).start)
  <2>1. FirstGap(D) = Segment(from, Lowest(Size, to) - from)  BY <1>2 DEF FirstGap
  <2>2. first.start \in Nat /\ End(first) \in Nat  BY <1>2, FirstFact DEF SegmentsOK, SegmentType, End
  <2>3. rest # {} => FirstOf(rest).start \in Nat
    <3>1. Consolidated(rest)  BY DEF SegmentsOK, Consolidated
    <3>. QED  BY <3>1, FirstFact DEF SegmentType
  <2>4. from \in Nat /\ from % BlockSize = 0  BY <2>2, RoundFact, BlockAssumption
  <2>5. to \in Nat /\ (to % BlockSize = 0 \/ to = Size)  BY <2>2, <2>3, RoundFact, SizeAssumption
  <2>6. Lowest(Size, to) \in 0 .. Size /\ (Lowest(Size, to) % BlockSize = 0 \/ Lowest(Size, to) = Size)
    BY <2>5, SizeAssumption DEF Lowest
  <2>. HIDE DEF first, rest, from, to
  <2>. QED  BY <2>1, <2>4, <2>6 DEF Segment, SegmentType, OnBoundary, End
<1>. QED  BY <1>1, <1>2

\* The first gap of an unfinished file meets no finished segment.
LEMMA GapMeetsNothing ==
  ASSUME NEW D \in SUBSET SegmentType, SegmentsOK(D), ~IsFinished(D), FirstGap(D).size > 0
  PROVE  \A d \in D : ~Overlaps(FirstGap(D), d)
<1>1. CASE D = {}  BY <1>1
<1>2. CASE D # {}
  <2>. DEFINE first == FirstOf(D)
              rest  == D \ {first}
              next  == FirstOf(rest)
              from  == IF first.start > 0 THEN 0 ELSE RoundDown(End(first))
              to    == IF first.start > 0 THEN RoundUp(first.start)
                       ELSE IF rest = {} THEN Size ELSE RoundUp(next.start)
  <2>1. FirstGap(D) = Segment(from, Lowest(Size, to) - from)  BY <1>2 DEF FirstGap
  <2>2. first \in D /\ \A e \in D : first = e \/ Less(first, e)
    BY <1>2, FirstFact DEF SegmentsOK
  <2>3. \A d \in D : /\ d.start \in Nat /\ d.size \in Nat \ {0} /\ d.start % BlockSize = 0
                     /\ End(d) <= Size /\ (End(d) % BlockSize = 0 \/ End(d) = Size)
    BY DEF SegmentType, OnBoundary, SegmentsOK
  <2>4. rest # {} => next \in rest /\ \A e \in rest : next = e \/ Less(next, e)
    <3>1. Consolidated(rest)  BY DEF SegmentsOK, Consolidated
    <3>. QED  BY <3>1, FirstFact
  <2>5. \A d \in D : RoundUp(d.start) = d.start /\ RoundDown(d.start) = d.start
    BY <2>3, RoundOfBoundary
  <2>6. CASE first.start > 0
    <3>1. from = 0 /\ to = first.start  BY <2>2, <2>5, <2>6
    <3>2. first.start <= Size  BY <2>2, <2>3, SizeAssumption DEF End
    <3>3. FirstGap(D).start = 0 /\ End(FirstGap(D)) = first.start
      BY <2>1, <2>2, <2>3, <3>1, <3>2, SizeAssumption DEF Segment, End, Lowest
    <3>4. \A d \in D : first.start <= d.start  BY <2>2, <2>3 DEF Less
    <3>. QED  BY <2>2, <2>3, <3>3, <3>4 DEF Overlaps
  <2>7. CASE ~(first.start > 0)
    <3>1. first.start = 0  BY <2>2, <2>3, <2>7
    <3>2. \A d \in rest : End(first) < d.start
      BY <2>2, <2>3, <3>1 DEF SegmentsOK, Consolidated, End
    <3>3. End(first) # Size
      <4>1. SUFFICES ASSUME End(first) = Size  PROVE FALSE  OBVIOUS
      <4>2. rest = {}  BY <2>3, <3>2, <4>1, SizeAssumption DEF End
      <4>3. first = WholeFile  BY <2>2, <3>1, <4>1, SizeAssumption DEF WholeFile, Segment, SegmentType, End
      <4>. QED  BY <2>2, <4>2, <4>3 DEF IsFinished
    <3>4. End(first) \in Nat /\ End(first) % BlockSize = 0  BY <2>2, <2>3, <3>3 DEF End
    <3>5. from = End(first)  BY <2>7, <3>4, RoundOfBoundary
    <3>6. CASE rest = {}
      <4>1. FirstGap(D).start = End(first)  BY <2>1, <3>5 DEF Segment
      <4>. QED  BY <3>6, <4>1, <3>4 DEF Overlaps
    <3>7. CASE rest # {}
      <4>1. next \in D /\ to = next.start  BY <2>4, <2>5, <2>7, <3>7
      <4>2. FirstGap(D).start = End(first) /\ End(FirstGap(D)) <= next.start
        BY <2>1, <2>3, <3>4, <3>5, <4>1, SizeAssumption DEF Segment, End, Lowest
      <4>3. End(FirstGap(D)) \in Int
        <5>1. FirstGap(D) \in SegmentType  BY FirstGapFact
        <5>. QED  BY <5>1 DEF SegmentType, End
      <4>4. \A d \in D : d \in rest \/ d = first  OBVIOUS
      <4>. HIDE DEF first, rest, next
      <4>5. \A d \in D \cap rest : next.start <= d.start  BY <2>3, <2>4, <3>7, <4>1 DEF Less
      <4>. QED  BY <2>2, <2>3, <3>4, <4>1, <4>2, <4>3, <4>4, <4>5 DEF Overlaps
    <3>. QED  BY <3>6, <3>7
  <2>. QED  BY <2>6, <2>7
<1>. QED  BY <1>1, <1>2

\* An unfinished file has a first gap.
LEMMA GapThere ==
  ASSUME NEW D \in SUBSET SegmentType, SegmentsOK(D), ~IsFinished(D)
  PROVE  FirstGap(D).size > 0
<1>1. CASE D = {}  BY <1>1, SizeAssumption DEF FirstGap, WholeFile, Segment
<1>2. CASE D # {}
  <2>. DEFINE first == FirstOf(D)
              rest  == D \ {first}
              next  == FirstOf(rest)
              from  == IF first.start > 0 THEN 0 ELSE RoundDown(End(first))
              to    == IF first.start > 0 THEN RoundUp(first.start)
                       ELSE IF rest = {} THEN Size ELSE RoundUp(next.start)
  <2>1. FirstGap(D) = Segment(from, Lowest(Size, to) - from)  BY <1>2 DEF FirstGap
  <2>2. first \in D  BY <1>2, FirstFact DEF SegmentsOK
  <2>3. \A d \in D : /\ d.start \in Nat /\ d.size \in Nat \ {0} /\ d.start % BlockSize = 0
                     /\ End(d) <= Size /\ (End(d) % BlockSize = 0 \/ End(d) = Size)
    BY DEF SegmentType, OnBoundary, SegmentsOK
  <2>4. rest # {} => next \in rest
    <3>1. Consolidated(rest)  BY DEF SegmentsOK, Consolidated
    <3>. QED  BY <3>1, FirstFact
  <2>5. \A d \in D : RoundUp(d.start) = d.start  BY <2>3, RoundOfBoundary
  <2>6. CASE first.start > 0
    <3>1. from = 0 /\ to = first.start  BY <2>2, <2>5, <2>6
    <3>. QED  BY <2>1, <2>2, <2>3, <2>6, <3>1, SizeAssumption DEF Segment, Lowest
  <2>7. CASE ~(first.start > 0)
    <3>1. first.start = 0  BY <2>2, <2>3, <2>7
    <3>2. \A d \in rest : End(first) < d.start
      BY <2>2, <2>3, <3>1 DEF SegmentsOK, Consolidated, End
    <3>3. End(first) # Size
      <4>1. SUFFICES ASSUME End(first) = Size  PROVE FALSE  OBVIOUS
      <4>2. rest = {}  BY <2>3, <3>2, <4>1, SizeAssumption DEF End
      <4>3. first = WholeFile  BY <2>2, <3>1, <4>1, SizeAssumption DEF WholeFile, Segment, SegmentType, End
      <4>. QED  BY <2>2, <4>2, <4>3 DEF IsFinished
    <3>4. End(first) \in Nat /\ End(first) % BlockSize = 0 /\ End(first) < Size
      BY <2>2, <2>3, <3>3, SizeAssumption DEF End
    <3>5. from = End(first)  BY <2>7, <3>4, RoundOfBoundary
    <3>6. to \in Nat /\ End(first) < to
      <4>1. CASE rest = {}  BY <2>7, <3>4, <4>1, SizeAssumption
      <4>2. CASE rest # {}
        <5>1. next \in D /\ to = next.start  BY <2>4, <2>5, <2>7, <4>2
        <5>. QED  BY <2>3, <2>4, <3>2, <4>2, <5>1
      <4>. QED  BY <4>1, <4>2
    <3>. HIDE DEF first, rest, next, from, to
    <3>. QED  BY <2>1, <3>4, <3>5, <3>6, SizeAssumption DEF Segment, Lowest
  <2>. QED  BY <2>6, <2>7
<1>. QED  BY <1>1, <1>2

\* The first gap begins with the first byte that is missing, and ends where
\* the file or the run of missing bytes ends.
LEMMA GapIsFirst ==
  ASSUME NEW D \in SUBSET SegmentType, SegmentsOK(D), ~IsFinished(D)
  PROVE  /\ FirstGap(D) \in SegmentType /\ End(FirstGap(D)) <= Size
         /\ 0 .. FirstGap(D).start - 1 \subseteq Covered(D)
         /\ Bytes(FirstGap(D)) \cap Covered(D) = {}
         /\ End(FirstGap(D)) = Size \/ End(FirstGap(D)) \in Covered(D)
<1>. DEFINE g == FirstGap(D)
<1>1. g \in SegmentType /\ OnBoundary(g)  BY GapThere, FirstGapFact
<1>2. \A d \in D : ~Overlaps(g, d)  BY GapThere, GapMeetsNothing
<1>3. \A d \in D : /\ d.start \in Nat /\ d.size \in Nat \ {0} /\ d.start % BlockSize = 0
                   /\ End(d) <= Size /\ (End(d) % BlockSize = 0 \/ End(d) = Size)
  BY DEF SegmentType, OnBoundary, SegmentsOK
<1>4. g.start \in Nat /\ g.size \in Nat \ {0} /\ End(g) <= Size  BY <1>1 DEF SegmentType, OnBoundary
<1>5. Bytes(g) \cap Covered(D) = {}
  <2>1. \A d \in D : Bytes(g) \cap Bytes(d) = {}  BY <1>2, <1>3, <1>4 DEF Overlaps, Bytes, End
  <2>. QED  BY <2>1 DEF Covered
<1>6. \A d \in D : d.start \in Covered(D)  BY <1>3 DEF Covered, Bytes, End
<1>7. CASE D = {}
  <2>1. g.start = 0 /\ End(g) = Size  BY <1>7, SizeAssumption DEF FirstGap, WholeFile, Segment, End
  <2>. HIDE DEF g
  <2>2. 0 .. g.start - 1 = {}  BY <2>1
  <2>. QED  BY <1>1, <1>4, <1>5, <2>1, <2>2 DEF g
<1>8. CASE D # {}
  <2>. DEFINE first == FirstOf(D)
              rest  == D \ {first}
              next  == FirstOf(rest)
              from  == IF first.start > 0 THEN 0 ELSE RoundDown(End(first))
              to    == IF first.start > 0 THEN RoundUp(first.start)
                       ELSE IF rest = {} THEN Size ELSE RoundUp(next.start)
  <2>1. g = Segment(from, Lowest(Size, to) - from)  BY <1>8 DEF FirstGap
  <2>2. first \in D  BY <1>8, FirstFact DEF SegmentsOK
  <2>3. rest # {} => next \in D
    <3>1. Consolidated(rest)  BY DEF SegmentsOK, Consolidated
    <3>. QED  BY <3>1, FirstFact
  <2>4. \A d \in D : RoundUp(d.start) = d.start /\ d.start < Size  BY <1>3, RoundOfBoundary, SizeAssumption DEF End
  <2>5. CASE first.start > 0
    <3>1. from = 0 /\ to = first.start  BY <2>2, <2>4, <2>5
    <3>. HIDE DEF from, to, first
    <3>2. g.start = 0 /\ End(g) = first.start
      BY <1>3, <2>1, <2>2, <2>4, <3>1, SizeAssumption DEF Segment, Lowest, End
    <3>. HIDE DEF g
    <3>3. 0 .. g.start - 1 = {}  BY <3>2
    <3>. QED  BY <1>1, <1>4, <1>5, <1>6, <2>2, <3>2, <3>3 DEF g
  <2>6. CASE ~(first.start > 0)
    <3>1. first.start = 0  BY <1>3, <2>2, <2>6
    <3>2. g.start = RoundDown(End(first))  BY <2>1, <2>6 DEF Segment
    <3>3. End(first) < Size
      <4>1. SUFFICES ASSUME End(first) >= Size  PROVE FALSE  BY <1>3, <2>2, SizeAssumption DEF End
      <4>2. End(first) = Size  BY <1>3, <2>2, <4>1, SizeAssumption DEF End
      <4>3. first = WholeFile
        BY <2>2, <3>1, <4>2, SizeAssumption DEF WholeFile, Segment, SegmentType, End
      <4>4. \A d \in D : d = first
        BY <1>3, <2>2, <3>1, <4>2, SizeAssumption DEF SegmentsOK, Consolidated, End
      <4>. QED  BY <2>2, <4>3, <4>4 DEF IsFinished
    <3>4. g.start = End(first)
      <4>1. End(first) \in Nat /\ End(first) % BlockSize = 0  BY <1>3, <2>2, <3>3 DEF End
      <4>. QED  BY <3>2, <4>1, RoundOfBoundary
    <3>5. 0 .. g.start - 1 \subseteq Covered(D)
      BY <1>3, <2>2, <3>1, <3>4 DEF Covered, Bytes, End
    <3>6. End(g) = Lowest(Size, to)
      <4>1. Lowest(Size, to) \in Int
        <5>1. rest # {} => RoundUp(next.start) = next.start /\ next.start \in Nat  BY <1>3, <2>3, <2>4
        <5>2. to \in Int  BY <2>6, <5>1, SizeAssumption
        <5>. QED  BY <5>2, SizeAssumption DEF Lowest
      <4>2. from \in Int
        <5>1. from = g.start  BY <2>6, <3>2
        <5>. QED  BY <1>4, <5>1
      <4>. HIDE DEF from, to, first, rest, next
      <4>. QED  BY <2>1, <4>1, <4>2 DEF Segment, End
    <3>7. CASE rest = {}
      <4>1. to = Size  BY <2>6, <3>7
      <4>. HIDE DEF g, to
      <4>2. End(g) = Size  BY <3>6, <4>1, SizeAssumption DEF Lowest
      <4>. QED  BY <1>1, <1>4, <1>5, <3>5, <4>2 DEF g
    <3>8. CASE rest # {}
      <4>1. next \in D /\ to = next.start /\ next.start < Size  BY <2>3, <2>4, <2>6, <3>8
      <4>. HIDE DEF g, to, next
      <4>2. End(g) = next.start  BY <1>3, <3>6, <4>1, SizeAssumption DEF Lowest
      <4>. QED  BY <1>1, <1>4, <1>5, <1>6, <3>5, <4>1, <4>2 DEF g
    <3>. QED  BY <3>7, <3>8
  <2>. QED  BY <2>5, <2>6
<1>. QED  BY <1>7, <1>8
=============================================================================
