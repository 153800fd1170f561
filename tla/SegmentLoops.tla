---------------------------- MODULE SegmentLoops ----------------------------
(***************************************************************************)
(* The loops of QueueItem.cpp that Segments states in closed form, step by *)
(* step as the code runs them, and that they come to the same on every set *)
(* of finished segments that SegmentSets builds.                           *)
(***************************************************************************)
EXTENDS SegmentSets, FiniteSets

(***************************************************************************)
(* addSegment: insert, then walk the std::set from its second element.     *)
(* iter holds the element the iterator is at, and is empty at done.end();  *)
(* ++ and -- go to the neighbour in the order Less.                        *)
(***************************************************************************)
Following(E, x) == {e \in E : Less(x, e) /\ \A f \in E : Less(x, f) => ~Less(f, e)}
Preceding(E, x) == {e \in E : Less(e, x) /\ \A f \in E : Less(f, x) => ~Less(e, f)}

\* ++done.begin()
Second(E) == UNION {Following(E, e) : e \in {f \in E : \A g \in E : ~Less(g, f)}}

Consolidate(loop) ==
  IF loop.iter = {} THEN loop
  ELSE LET i    == CHOOSE x \in loop.iter : TRUE
           prev == CHOOSE x \in Preceding(loop.set, i) : TRUE
           big  == Segment(prev.start, End(i) - prev.start)
       IN [set  |-> IF End(prev) >= i.start
                    THEN (loop.set \ {prev, i}) \cup {big} ELSE loop.set,
           iter |-> Following(loop.set, i)]

\* The iterator leaves an element behind it each time, and starts at the second.
AddSegmentLoop(D, s) ==
  LET loop[n \in 0 .. Cardinality(D)] ==
        IF n = 0 THEN [set |-> D \cup {s}, iter |-> Second(D \cup {s})]
        ELSE Consolidate(loop[n - 1])
  IN  loop[Cardinality(D)].set

(***************************************************************************)
(* The closed form of addSegment used by the other modules is the loop of  *)
(* QueueItem::addSegment, on every set it can be called with.              *)
(***************************************************************************)
AddSegmentIsTheLoop ==
  \A s \in Legal : AddSegment(done, s) = AddSegmentLoop(done, s)

(***************************************************************************)
(* getNextSegment with MULTI_CHUNK and no partial source: the scan over    *)
(* start and curSize.  {} when no candidate is free.                       *)
(***************************************************************************)
Taken(D, R, block, curSize) ==
  \/ \E d \in D : IF curSize <= BlockSize
                  THEN d.start <= block.start /\ End(d) >= End(block)
                  ELSE Overlaps(block, d)
  \/ \E r \in R : Overlaps(block, r)

\* Where the loop may be: start, curSize.
ScanPlaces(blocks) == (ScanPoints \cup {Size}) \X {n * BlockSize : n \in 1 .. blocks}

NextSegmentScan(D, R, blocks) ==
  LET targetSize == blocks * BlockSize
      scan[at \in ScanPlaces(blocks)] ==
        LET start   == at[1]
            curSize == at[2]
            end     == Lowest(Size, start + curSize)
            block   == Segment(start, end - start)
        IN  IF start >= Size THEN {}
            ELSE IF ~Taken(D, R, block, curSize) THEN {block}
            ELSE IF curSize > BlockSize THEN scan[<<start, curSize - BlockSize>>]
            ELSE scan[<<end, targetSize>>]
  IN  scan[<<0, targetSize>>]

(***************************************************************************)
(* The closed form of getNextSegment is the scan of the code.              *)
(***************************************************************************)
NextSegmentIsTheScan ==
  \A R \in RunningSets, blocks \in 1 .. RoundUp(Size) \div BlockSize :
    FreeSegments(done, R, blocks) = NextSegmentScan(done, R, blocks)
=============================================================================
