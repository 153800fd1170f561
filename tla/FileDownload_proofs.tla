------------------------- MODULE FileDownload_proofs -------------------------
(***************************************************************************)
(* Theorems about FileDownload, for any number of users, honest or not,    *)
(* any file and block size, any number of segments, restarts and losses,   *)
(* and all settings: types and finished segments; without OVERLAP_CHUNKS,  *)
(* that downloads keep apart; with it, what two users who overlap do to    *)
(* one another.                                                            *)
(***************************************************************************)
EXTENDS FileDownload, SegmentLemmas

(***************************************************************************)
(* The inductive invariant.  That the finished segments stay whole blocks  *)
(* rests on the segments being downloaded and on those of the saved queue: *)
(* the former are added to them, the latter replace them.                  *)
(***************************************************************************)
DownloadOK(d) ==
  /\ OnBoundary(d.seg)
  /\ d.pos <= d.seg.size
  /\ d.phase \in {"none", "asked"} => d.pos = 0
  /\ d.phase \in {"running", "finishing"} => d.seg # NoSegment
  /\ d.phase \in {"running", "failing"} => d.pos < d.seg.size \/ d.seg = NoSegment

IInv ==
  /\ TypeOK
  /\ DoneOK
  /\ SegmentsOK(saved.done)
  /\ \A u \in Users : DownloadOK(dl[u])

-----------------------------------------------------------------------------
(* What getNextSegment may answer.                                         *)

LEMMA FreshFact == ASSUME NEW D \in SUBSET SegmentType, SegmentsOK(D), NEW s \in FreshSegments(D)
                   PROVE  s \in SegmentType /\ OnBoundary(s)
<1>1. CASE MULTI_CHUNK
  <2>1. PICK n \in 1 .. RoundUp(Size) \div BlockSize : s \in FreeSegments(D, Running, n)
    BY <1>1 DEF FreshSegments
  <2>2. PICK p \in ScanPoints \X (1 .. n) : s = Candidate(p[1], p[2])
    BY <2>1 DEF FreeSegments
  <2>3. p[1] \in ScanPoints /\ p[2] \in Nat \ {0}
    <3>1. RoundUp(Size) \div BlockSize \in Int  BY RoundFact, SizeAssumption, BlockAssumption
    <3>. QED  BY <2>2, <3>1
  <2>. QED  BY <2>2, <2>3, CandidateFact
<1>2. CASE ~MULTI_CHUNK
  <2>1. s = FirstGap(D) /\ FirstGap(D).size > 0  BY <1>2 DEF FreshSegments
  <2>. QED  BY <2>1, FirstGapFact
<1>. QED  BY <1>1, <1>2

LEMMA SlowTailFact == ASSUME IInv, NEW v \in Users, Slow(v)
                      PROVE  /\ SlowTail(dl[v].seg, dl[v].pos) \in SegmentType
                             /\ OnBoundary(SlowTail(dl[v].seg, dl[v].pos))
<1>. DEFINE d    == dl[v]
            down == AlignDown(d.pos)
<1>1. d \in Download /\ DownloadOK(d)  BY DEF IInv, TypeOK
<1>2. d.seg \in SegmentType /\ d.pos \in Nat  BY <1>1 DEF Slow, Download
<1>3. d.pos < d.seg.size  BY <1>1, <1>2 DEF Slow, DownloadOK
<1>4. down \in 0 .. d.pos /\ down % BlockSize = 0  BY <1>2, AlignDownFact
<1>5. d.seg.start \in Nat /\ d.seg.size \in Nat  BY <1>2 DEF SegmentType
<1>6. (d.seg.start + down) % BlockSize = 0
  BY <1>1, <1>4, <1>5, BoundarySum DEF DownloadOK, OnBoundary
<1>. HIDE DEF down
<1>7. SlowTail(d.seg, d.pos) = [start |-> d.seg.start + down, size |-> d.seg.size - down]
  BY DEF SlowTail, Segment, down
<1>8. OnBoundary(d.seg)  BY <1>1 DEF DownloadOK
<1>. HIDE DEF d
<1>9. SlowTail(d.seg, d.pos) \in SegmentType /\ OnBoundary(SlowTail(d.seg, d.pos))
  BY <1>2, <1>3, <1>4, <1>5, <1>6, <1>7, <1>8 DEF SegmentType, OnBoundary, End
<1>. QED  BY <1>9 DEF d

\* getNextSegment answers with a segment of whole blocks.
LEMMA NextSegmentsFact ==
  ASSUME IInv, NEW D \in SUBSET SegmentType, SegmentsOK(D), NEW c \in NextSegments(D)
  PROVE  c.seg \in SegmentType /\ OnBoundary(c.seg) /\ c.overlap \in BOOLEAN
<1>1. CASE \E s \in FreshSegments(D) : c = [seg |-> s, overlap |-> FALSE]
  BY <1>1, FreshFact
<1>2. CASE \E s \in SlowTails(D) : c = [seg |-> s, overlap |-> TRUE]
  BY <1>2, SlowTailFact DEF SlowTails
<1>. QED  BY <1>1, <1>2 DEF NextSegments

-----------------------------------------------------------------------------
(* The facts about downloads that the actions need.                        *)

LEMMA ConstantsFact == /\ WholeFile \in SegmentType /\ OnBoundary(WholeFile)
                       /\ WholeFile # NoSegment /\ OnBoundary(NoSegment)
                       /\ NoDownload \in Download /\ DownloadOK(NoDownload)
<1>1. 0 % BlockSize = 0  BY BlockAssumption
<1>2. WholeFile \in SegmentType /\ OnBoundary(WholeFile)
  BY <1>1, SizeAssumption DEF WholeFile, Segment, SegmentType, OnBoundary, End
<1>3. WholeFile # NoSegment /\ OnBoundary(NoSegment)
  BY <1>1, SizeAssumption DEF WholeFile, NoSegment, Segment, OnBoundary, End
<1>4. NoDownload \in Download  BY <1>2 DEF NoDownload, Download, Phases
<1>5. DownloadOK(NoDownload)
  BY <1>2, SizeAssumption DEF NoDownload, DownloadOK, SegmentType, WholeFile, Segment
<1>. QED  BY <1>2, <1>3, <1>4, <1>5

\* What putDownload(d, true) adds.
LEMMA AddedWhole ==
  ASSUME IInv, NEW u \in Users, dl[u].phase = "finishing"
  PROVE  /\ AddSegment(done, dl[u].seg) \in SUBSET SegmentType
         /\ SegmentsOK(AddSegment(done, dl[u].seg))
<1>1. dl[u].seg \in SegmentType /\ OnBoundary(dl[u].seg)
  BY DEF IInv, TypeOK, Download, DownloadOK
<1>2. done \in SUBSET SegmentType /\ Consolidated(done) /\ \A s \in done : OnBoundary(s)
  BY DEF IInv, TypeOK, DoneOK
<1>. QED  BY <1>1, <1>2, AddSegmentType, AddSegmentConsolidated, AddSegmentOnBoundary DEF SegmentsOK

\* What putDownload(d, false) adds.
LEMMA AddedKept ==
  ASSUME IInv, NEW u \in Users, dl[u].phase = "failing", Kept(u) > 0
  PROVE  LET D == AddSegment(done, Segment(dl[u].seg.start, Kept(u)))
         IN  D \in SUBSET SegmentType /\ SegmentsOK(D)
<1>. DEFINE s == Segment(dl[u].seg.start, Kept(u))
<1>1. dl[u].pos \in Nat /\ dl[u].pos <= dl[u].seg.size /\ OnBoundary(dl[u].seg)
  BY DEF IInv, TypeOK, Download, DownloadOK
<1>2. dl[u].seg.start \in Nat /\ dl[u].seg.size \in Nat
  BY DEF IInv, TypeOK, Download, SegmentType, NoSegment, Segment
<1>3. Kept(u) \in 0 .. dl[u].pos /\ Kept(u) % BlockSize = 0  BY <1>1, AlignDownFact DEF Kept
<1>4. (dl[u].seg.start + Kept(u)) % BlockSize = 0
  BY <1>1, <1>2, <1>3, BoundarySum DEF OnBoundary
<1>5. s \in SegmentType  BY <1>2, <1>3 DEF Segment, SegmentType
<1>6. OnBoundary(s)
  <2>1. dl[u].seg.start % BlockSize = 0 /\ dl[u].seg.start + dl[u].seg.size <= Size
    BY <1>1 DEF OnBoundary, End
  <2>2. dl[u].seg.start + Kept(u) <= Size  BY <1>1, <1>2, <1>3, <2>1, SizeAssumption
  <2>. QED  BY <1>4, <2>1, <2>2 DEF OnBoundary, End, Segment
<1>7. done \in SUBSET SegmentType /\ Consolidated(done) /\ \A d \in done : OnBoundary(d)
  BY DEF IInv, TypeOK, DoneOK
<1>. HIDE DEF s
<1>8. AddSegment(done, s) \in SUBSET SegmentType /\ SegmentsOK(AddSegment(done, s))
  BY <1>5, <1>6, <1>7, AddSegmentType, AddSegmentConsolidated, AddSegmentOnBoundary DEF SegmentsOK
<1>. QED  BY <1>8 DEF s

LEMMA ContentFact == ASSUME TypeOK
                     PROVE  /\ NoContent \in [Offsets -> Contents]
                            /\ Extended \in [Offsets -> Contents]
                            /\ Verdict \in Contents
                            /\ \A p : \A x \in {"good", "bad"} : Written(p, x) \in [Offsets -> Contents]
BY DEF TypeOK, NoContent, Extended, Written, Verdict, Contents

\* userQueue.remove leaves the downloads what they were, but for two flags.
LEMMA DroppedFact == ASSUME IInv
                     PROVE  /\ Dropped \in [Users -> Download]
                            /\ \A v \in Users : DownloadOK(Dropped[v])
<1>1. dl \in [Users -> Download] /\ \A v \in Users : DownloadOK(dl[v])  BY DEF IInv, TypeOK
<1>2. Dropped \in [Users -> Download]  BY <1>1 DEF Dropped, Download
<1>3. \A v \in Users : Dropped[v].seg = dl[v].seg /\ Dropped[v].pos = dl[v].pos
                        /\ Dropped[v].phase = dl[v].phase
  BY <1>1 DEF Dropped, Download
<1>. QED  BY <1>1, <1>2, <1>3 DEF DownloadOK

LEMMA UnlistedFact == ASSUME IInv
                      PROVE  /\ Unlisted \in [Users -> Download]
                             /\ \A v \in Users : DownloadOK(Unlisted[v])
                             /\ \A v \in Users :
                                  /\ Unlisted[v].seg = dl[v].seg /\ Unlisted[v].phase = dl[v].phase
                                  /\ Unlisted[v].pos = dl[v].pos /\ Unlisted[v].file = dl[v].file
                                  /\ Unlisted[v].tainted = dl[v].tainted
<1>1. dl \in [Users -> Download] /\ \A v \in Users : DownloadOK(dl[v])  BY DEF IInv, TypeOK
<1>2. Unlisted \in [Users -> Download]  BY <1>1 DEF Unlisted, Download
<1>3. \A v \in Users : /\ Unlisted[v].seg = dl[v].seg /\ Unlisted[v].pos = dl[v].pos
                        /\ Unlisted[v].phase = dl[v].phase /\ Unlisted[v].file = dl[v].file
                        /\ Unlisted[v].tainted = dl[v].tainted
  BY <1>1 DEF Unlisted, Download
<1>. QED  BY <1>1, <1>2, <1>3 DEF DownloadOK

\* remove takes downloads off the list, and puts them on its own.
LEMMA RemovedFact == ASSUME dl \in [Users -> Download]
                     PROVE  /\ Removed \in [Users -> Download]
                            /\ \A v \in Users :
                                 /\ Removed[v].seg = dl[v].seg /\ Removed[v].phase = dl[v].phase
                                 /\ Removed[v].pos = dl[v].pos /\ Removed[v].file = dl[v].file
                                 /\ Removed[v].tainted = dl[v].tainted
                                 /\ Removed[v].over = dl[v].over
                                 /\ Removed[v].overlapped = dl[v].overlapped
                                 /\ Removed[v].disc = dl[v].disc
                                 /\ Removed[v].due = (dl[v].due \/ dl[v].listed)
                                 /\ Removed[v].listed = (dl[v].listed /\ IsFinished(done))
<1>. DEFINE F == IsFinished(done)
<1>1. Removed = [v \in Users |-> [dl[v] EXCEPT !.listed = @ /\ F, !.due = @ \/ dl[v].listed]]
  BY DEF Removed
<1>. HIDE DEF F
<1>2. Removed \in [Users -> Download]  BY <1>1 DEF Download
<1>3. \A v \in Users :
        /\ Removed[v].seg = dl[v].seg /\ Removed[v].phase = dl[v].phase
        /\ Removed[v].pos = dl[v].pos /\ Removed[v].file = dl[v].file
        /\ Removed[v].tainted = dl[v].tainted /\ Removed[v].over = dl[v].over
        /\ Removed[v].overlapped = dl[v].overlapped /\ Removed[v].disc = dl[v].disc
        /\ Removed[v].due = (dl[v].due \/ dl[v].listed)
        /\ Removed[v].listed = (dl[v].listed /\ F)
  BY <1>1 DEF Download
<1>. QED  BY <1>2, <1>3 DEF F

\* remove's disconnect strikes one name off its list.
LEMMA RemoveDisconnectsFact ==
  ASSUME dl \in [Users -> Download], NEW u \in Users, RemoveDisconnects(u)
  PROVE  /\ dl' \in [Users -> Download]
         /\ \A v \in Users : /\ dl'[v].seg = dl[v].seg /\ dl'[v].pos = dl[v].pos
                             /\ dl'[v].phase = dl[v].phase /\ dl'[v].listed = dl[v].listed
                             /\ dl'[v].file = dl[v].file /\ dl'[v].tainted = dl[v].tainted
                             /\ dl'[v].over = dl[v].over /\ dl'[v].overlapped = dl[v].overlapped
                             /\ dl[v].disc => dl'[v].disc
                             /\ dl[v].due => dl'[v].due \/ dl'[v].disc
         /\ UNCHANGED <<done, inFile, inUser, temp, disk, target, moving, dirty, saved, completed,
                         restarts, losses>>
<1>1. /\ dl' = [dl EXCEPT ![u].due = FALSE, ![u].disc = TRUE]
      /\ UNCHANGED <<done, inFile, inUser, temp, disk, target, moving, dirty, saved, completed,
                      restarts, losses>>
  BY DEF RemoveDisconnects, queueVars, fileVars
<1>. QED  BY <1>1 DEF Download

\* Renaming, moving and deleting the temporary file leave the types alone.
LEMMA RenameFact == ASSUME TypeOK, NEW H, RenameTemp(H), moving' \in BOOLEAN
                    PROVE  /\ temp' \in BOOLEAN /\ disk' \in [Offsets -> Contents]
                           /\ target' \in Contents /\ moving' \in BOOLEAN
BY ContentFact DEF TypeOK, RenameTemp, Erase

LEMMA MoveFact == ASSUME TypeOK, NEW H, MoveTemp(H)
                  PROVE  /\ temp' \in BOOLEAN /\ disk' \in [Offsets -> Contents]
                         /\ target' \in Contents /\ moving' \in BOOLEAN
BY RenameFact DEF TypeOK, MoveTemp

LEMMA DeleteFact == ASSUME TypeOK, NEW H, DeleteTemp(H)
                    PROVE  /\ temp' \in BOOLEAN /\ disk' \in [Offsets -> Contents]
                           /\ target' \in Contents /\ moving' \in BOOLEAN
BY ContentFact DEF TypeOK, DeleteTemp, Erase

-----------------------------------------------------------------------------
(* Every action preserves the invariant.                                   *)

LEMMA GetDownloadKeeps == ASSUME IInv, NEW u \in Users, GetDownload(u)  PROVE IInv'
<1>1. done \in SUBSET SegmentType /\ SegmentsOK(done)  BY DEF IInv, TypeOK, DoneOK, SegmentsOK
<1>2. Resumable \in SUBSET SegmentType /\ SegmentsOK(Resumable)
  BY <1>1 DEF Resumable, SegmentsOK, Consolidated
<1>3. dl \in [Users -> Download] /\ \A v \in Users : DownloadOK(dl[v])  BY DEF IInv, TypeOK
<1>4. ASSUME NEW c, c.seg \in SegmentType \cup {NoSegment}, OnBoundary(c.seg), c.overlap \in BOOLEAN
      PROVE  Asking(u, c) \in Download /\ DownloadOK(Asking(u, c))
  <2>1. NoDownload \in Download /\ NoDownload.pos = 0  BY ConstantsFact DEF NoDownload
  <2>2. Asking(u, c) \in Download  BY <1>4, <2>1 DEF Asking, Download, Phases
  <2>3. /\ Asking(u, c).seg = c.seg
        /\ Asking(u, c).pos = 0
        /\ Asking(u, c).phase = "asked"
    BY <2>1 DEF Asking, Download
  <2>4. c.seg.size \in Nat  BY <1>4 DEF SegmentType, NoSegment, Segment
  <2>. QED  BY <1>4, <2>2, <2>3, <2>4 DEF DownloadOK
<1>5. dl' \in [Users -> Download] /\ \A v \in Users : DownloadOK(dl'[v])
  <2>1. ASSUME NEW c \in NextSegments(Resumable), ~c.overlap, dl' = [dl EXCEPT ![u] = Asking(u, c)]
        PROVE  dl' \in [Users -> Download] /\ \A v \in Users : DownloadOK(dl'[v])
    <3>1. Asking(u, c) \in Download /\ DownloadOK(Asking(u, c))
      BY <1>2, <1>4, NextSegmentsFact
    <3>. QED  BY <1>3, <2>1, <3>1
  <2>2. ASSUME NEW c \in NextSegments(Resumable), NEW w \in Listed,
               dl' = [dl EXCEPT ![u] = Asking(u, c), ![w].overlapped = TRUE]
        PROVE  dl' \in [Users -> Download] /\ \A v \in Users : DownloadOK(dl'[v])
    <3>1. Asking(u, c) \in Download /\ DownloadOK(Asking(u, c))
      BY <1>2, <1>4, NextSegmentsFact
    <3>. DEFINE f == [dl EXCEPT ![u] = Asking(u, c)]
    <3>2. f \in [Users -> Download] /\ \A v \in Users : DownloadOK(f[v])  BY <1>3, <3>1
    <3>3. dl' = [f EXCEPT ![w].overlapped = TRUE]  BY <2>2
    <3>. HIDE DEF f
    <3>4. dl' \in [Users -> Download]  BY <3>2, <3>3 DEF Download
    <3>5. \A v \in Users : /\ dl'[v].seg = f[v].seg /\ dl'[v].pos = f[v].pos
                            /\ dl'[v].phase = f[v].phase
      BY <3>2, <3>3 DEF Download
    <3>. QED  BY <3>2, <3>4, <3>5 DEF DownloadOK
  <2>3. ASSUME dl' = [dl EXCEPT ![u] = Asking(u, [seg |-> NoSegment, overlap |-> FALSE])]
        PROVE  dl' \in [Users -> Download] /\ \A v \in Users : DownloadOK(dl'[v])
    <3>. DEFINE c == [seg |-> NoSegment, overlap |-> FALSE]
    <3>1. Asking(u, c) \in Download /\ DownloadOK(Asking(u, c))  BY <1>4, ConstantsFact
    <3>. QED  BY <1>3, <2>3, <3>1
  <2>. QED  BY <2>1, <2>2, <2>3 DEF GetDownload
<1>6. /\ done' = Resumable
      /\ UNCHANGED <<inFile, inUser, fileVars, dirty, saved, completed, restarts, losses>>
  BY DEF GetDownload
<1>7. TypeOK'  BY <1>2, <1>5, <1>6 DEF IInv, TypeOK, fileVars
<1>. QED  BY <1>2, <1>5, <1>6, <1>7 DEF IInv, DoneOK, SegmentsOK

LEMMA StartDataKeeps == ASSUME IInv, NEW u \in Users, StartData(u)  PROVE IInv'
<1>1. dl \in [Users -> Download] /\ \A v \in Users : DownloadOK(dl[v])  BY DEF IInv, TypeOK
<1>2. ASSUME NEW f \in [Users -> Download], \A v \in Users : DownloadOK(f[v]),
             f[u].phase = "asked", StartFails(f, u) \/ OpenTemp(f, u)
      PROVE  /\ dl' \in [Users -> Download] /\ \A v \in Users : DownloadOK(dl'[v])
             /\ temp' \in BOOLEAN /\ disk' \in [Offsets -> Contents]
             /\ target' \in Contents /\ moving' \in BOOLEAN
  <2>1. temp \in BOOLEAN /\ disk \in [Offsets -> Contents] /\ target \in Contents /\ moving \in BOOLEAN
    BY DEF IInv, TypeOK
  <2>2. f[u] \in Download /\ DownloadOK(f[u]) /\ f[u].pos = 0  BY <1>2 DEF DownloadOK
  <2>3. f[u].seg.size \in Nat /\ (f[u].seg.size = 0 <=> f[u].seg = NoSegment)
    BY <2>2 DEF Download, SegmentType, NoSegment, Segment
  <2>4. CASE StartFails(f, u)
    <3>1. dl' = [f EXCEPT ![u].phase = "failing", ![u].overlapped = FALSE]
          /\ UNCHANGED <<temp, disk, target, moving>>
      BY <2>4 DEF StartFails, fileVars
    <3>2. dl' \in [Users -> Download]  BY <1>2, <3>1 DEF Download, Phases
    <3>3. /\ dl'[u].seg = f[u].seg /\ dl'[u].pos = f[u].pos /\ dl'[u].phase = "failing"
          /\ \A v \in Users \ {u} : dl'[v] = f[v]
      BY <1>2, <3>1 DEF Download
    <3>. QED  BY <1>2, <2>1, <2>2, <2>3, <3>1, <3>2, <3>3 DEF DownloadOK
  <2>5. CASE OpenTemp(f, u) /\ ~StartFails(f, u)
    <3>. DEFINE ph == IF f[u].seg.size = 0 THEN "failing" ELSE "running"
    <3>1. /\ dl' = [f EXCEPT ![u].phase = ph, ![u].file = TRUE, ![u].overlapped = FALSE]
          /\ temp' = TRUE /\ disk' \in {Extended, disk} /\ UNCHANGED <<target, moving>>
      BY <2>5 DEF OpenTemp
    <3>5. ph \in {"failing", "running"} /\ (ph = "failing" <=> f[u].seg.size = 0)  OBVIOUS
    <3>. HIDE DEF ph
    <3>2. dl' \in [Users -> Download]
      <4>1. ph \in Phases  BY <3>5 DEF Phases
      <4>. QED  BY <1>2, <3>1, <4>1 DEF Download
    <3>3. /\ dl'[u].seg = f[u].seg /\ dl'[u].pos = f[u].pos /\ dl'[u].phase = ph
          /\ \A v \in Users \ {u} : dl'[v] = f[v]
      BY <1>2, <3>1 DEF Download
    <3>4. \A v \in Users : DownloadOK(dl'[v])  BY <1>2, <2>2, <2>3, <3>3, <3>5 DEF DownloadOK
    <3>. QED  BY <2>1, <3>1, <3>2, <3>4, ContentFact DEF IInv
  <2>. QED  BY <1>2, <2>4, <2>5
<1>3. ASSUME NEW v \in Users
      PROVE  /\ Disconnect(v) \in [Users -> Download] /\ \A w \in Users : DownloadOK(Disconnect(v)[w])
             /\ \A w \in Users : Disconnect(v)[w].phase = dl[w].phase
  <2>1. Disconnect(v) \in [Users -> Download]  BY <1>1 DEF Disconnect, Download
  <2>2. \A w \in Users : /\ Disconnect(v)[w].seg = dl[w].seg /\ Disconnect(v)[w].pos = dl[w].pos
                          /\ Disconnect(v)[w].phase = dl[w].phase
    BY <1>1 DEF Disconnect, Download
  <2>. QED  BY <1>1, <2>1, <2>2 DEF DownloadOK
<1>4. \/ StartFails(dl, u) \/ OpenTemp(dl, u)
      \/ \E v \in Users : OpenTemp(Disconnect(v), u)
  BY DEF StartData, Overlapped, Listed
<1>5. dl[u].phase = "asked"  BY DEF StartData
<1>6. /\ dl' \in [Users -> Download] /\ \A v \in Users : DownloadOK(dl'[v])
      /\ temp' \in BOOLEAN /\ disk' \in [Offsets -> Contents]
      /\ target' \in Contents /\ moving' \in BOOLEAN
  BY <1>1, <1>2, <1>3, <1>4, <1>5
<1>7. UNCHANGED <<queueVars, dirty, saved, completed, restarts, losses>>  BY DEF StartData
<1>8. TypeOK'  BY <1>6, <1>7 DEF IInv, TypeOK, queueVars
<1>. QED  BY <1>6, <1>7, <1>8 DEF IInv, DoneOK, SegmentsOK, queueVars

LEMMA ReceiveKeeps == ASSUME IInv, NEW u \in Users, Receive(u)  PROVE IInv'
<1>1. dl \in [Users -> Download] /\ \A v \in Users : DownloadOK(dl[v])  BY DEF IInv, TypeOK
<1>2. dl[u] \in Download /\ dl[u].phase = "running" /\ dl[u].seg \in SegmentType
      /\ dl[u].pos \in Nat /\ dl[u].pos < dl[u].seg.size
  BY <1>1 DEF Receive, Download, DownloadOK
<1>3. dl[u].seg.size \in Nat  BY <1>2 DEF SegmentType
<1>4. PICK x \in Sendable(u) :
        LET d    == dl[u]
            p    == d.seg.start + d.pos
            bad  == d.tainted \/ x = "bad"
            full == (p + 1) % BlockSize = 0
            last == d.pos + 1 = d.seg.size
        IN \/ /\ bad /\ full
              /\ dl' = [dl EXCEPT ![u].phase = "failing"]
              /\ UNCHANGED disk
           \/ /\ ~(bad /\ full)
              /\ disk' = Written(p, x)
              /\ dl' = [dl EXCEPT ![u].pos = IF last /\ bad THEN 0 ELSE d.pos + 1,
                                  ![u].tainted = bad,
                                  ![u].phase = IF ~last THEN "running"
                                               ELSE AfterLast(bad)]
  BY DEF Receive
<1>. DEFINE bad  == dl[u].tainted \/ x = "bad"
            last == dl[u].pos + 1 = dl[u].seg.size
            p    == dl[u].seg.start + dl[u].pos
            np   == IF last /\ bad THEN 0 ELSE dl[u].pos + 1
            nph  == IF ~last THEN "running" ELSE AfterLast(bad)
<1>5. x \in {"good", "bad"}  BY DEF Sendable
<1>6. disk' \in [Offsets -> Contents]
  <2>1. disk' = disk \/ disk' = Written(p, x)  BY <1>4
  <2>. QED  BY <1>5, <2>1, ContentFact DEF IInv, TypeOK
<1>7. \/ dl' = [dl EXCEPT ![u].phase = "failing"]
      \/ dl' = [dl EXCEPT ![u].pos = np, ![u].tainted = bad, ![u].phase = nph]
  BY <1>4
<1>8. bad \in BOOLEAN /\ np \in Nat /\ nph \in Phases
  BY <1>2 DEF AfterLast, Phases
<1>9. \/ nph = "running" /\ np < dl[u].seg.size
      \/ nph = "finishing" /\ np <= dl[u].seg.size
      \/ nph = "failing" /\ np < dl[u].seg.size
  BY <1>2, <1>3 DEF AfterLast
<1>. HIDE DEF np, nph, bad
<1>10. ASSUME dl' = [dl EXCEPT ![u].phase = "failing"]
       PROVE  dl' \in [Users -> Download] /\ \A v \in Users : DownloadOK(dl'[v])
  <2>1. dl' \in [Users -> Download]  BY <1>1, <1>10 DEF Download, Phases
  <2>2. /\ dl'[u].seg = dl[u].seg /\ dl'[u].pos = dl[u].pos /\ dl'[u].phase = "failing"
        /\ \A v \in Users \ {u} : dl'[v] = dl[v]
    BY <1>1, <1>10 DEF Download
  <2>3. \A v \in Users : DownloadOK(dl'[v])  BY <1>1, <1>2, <2>2 DEF DownloadOK
  <2>. QED  BY <2>1, <2>3
<1>11. ASSUME dl' = [dl EXCEPT ![u].pos = np, ![u].tainted = bad, ![u].phase = nph]
       PROVE  dl' \in [Users -> Download] /\ \A v \in Users : DownloadOK(dl'[v])
  <2>1. dl' \in [Users -> Download]
    <3>. DEFINE f == [dl EXCEPT ![u].pos = np]
                g == [f EXCEPT ![u].tainted = bad]
    <3>1. dl' = [g EXCEPT ![u].phase = nph]  BY <1>11
    <3>2. f \in [Users -> Download]  BY <1>1, <1>8 DEF Download
    <3>. HIDE DEF f
    <3>3. g \in [Users -> Download]  BY <1>8, <3>2 DEF Download
    <3>. HIDE DEF g
    <3>. QED  BY <1>8, <3>1, <3>3 DEF Download
  <2>2. /\ dl'[u].seg = dl[u].seg /\ dl'[u].pos = np /\ dl'[u].phase = nph
        /\ \A v \in Users \ {u} : dl'[v] = dl[v]
    BY <1>1, <1>11 DEF Download
  <2>3. dl[u].seg # NoSegment  BY <1>1, <1>2 DEF SegmentType, NoSegment, Segment
  <2>4. np <= dl[u].seg.size  BY <1>3, <1>8, <1>9
  <2>5. DownloadOK(dl'[u])  BY <1>1, <1>9, <2>2, <2>3, <2>4 DEF DownloadOK
  <2>. QED  BY <1>1, <2>1, <2>2, <2>5
<1>12. dl' \in [Users -> Download] /\ \A v \in Users : DownloadOK(dl'[v])  BY <1>7, <1>10, <1>11
<1>13. UNCHANGED <<queueVars, temp, target, moving, dirty, saved, completed, restarts, losses>>
  BY DEF Receive
<1>14. TypeOK'  BY <1>6, <1>12, <1>13 DEF IInv, TypeOK, queueVars
<1>. QED  BY <1>12, <1>13, <1>14 DEF IInv, DoneOK, SegmentsOK, queueVars

LEMMA ConnectionFailsKeeps == ASSUME IInv, NEW u \in Users, ConnectionFails(u)  PROVE IInv'
<1>1. dl \in [Users -> Download] /\ \A v \in Users : DownloadOK(dl[v])  BY DEF IInv, TypeOK
<1>2. dl' = [dl EXCEPT ![u].phase = "failing"] /\ dl[u].phase \in {"asked", "running"}
  BY DEF ConnectionFails
<1>3. dl' \in [Users -> Download]  BY <1>1, <1>2 DEF Download, Phases
<1>4. /\ dl'[u].seg = dl[u].seg /\ dl'[u].pos = dl[u].pos /\ dl'[u].phase = "failing"
      /\ \A v \in Users \ {u} : dl'[v] = dl[v]
  BY <1>1, <1>2 DEF Download
<1>5. dl[u].seg.size \in Nat /\ (dl[u].seg.size = 0 => dl[u].seg = NoSegment)
  BY <1>1 DEF Download, SegmentType, NoSegment, Segment
<1>6. \A v \in Users : DownloadOK(dl'[v])  BY <1>1, <1>2, <1>4, <1>5 DEF DownloadOK
<1>7. UNCHANGED <<queueVars, fileVars, dirty, saved, completed, restarts, losses>>
  BY DEF ConnectionFails
<1>8. TypeOK'  BY <1>3, <1>7 DEF IInv, TypeOK, queueVars, fileVars
<1>. QED  BY <1>6, <1>7, <1>8 DEF IInv, DoneOK, SegmentsOK, queueVars

LEMMA PutOrphanKeeps == ASSUME IInv, NEW u \in Users, PutOrphan(u)  PROVE IInv'
<1>1. dl \in [Users -> Download] /\ \A v \in Users : DownloadOK(dl[v])  BY DEF IInv, TypeOK
<1>2. dl' = [dl EXCEPT ![u] = NoDownload]  BY DEF PutOrphan
<1>3. dl' \in [Users -> Download] /\ \A v \in Users : DownloadOK(dl'[v])
  BY <1>1, <1>2, ConstantsFact
<1>4. /\ temp' \in BOOLEAN /\ disk' \in [Offsets -> Contents]
      /\ target' \in Contents /\ moving' \in BOOLEAN
  BY DeleteFact DEF PutOrphan, IInv
<1>5. UNCHANGED <<queueVars, dirty, saved, completed, restarts, losses>>  BY DEF PutOrphan
<1>6. TypeOK'  BY <1>3, <1>4, <1>5 DEF IInv, TypeOK, queueVars
<1>. QED  BY <1>3, <1>5, <1>6 DEF IInv, DoneOK, SegmentsOK, queueVars

LEMMA PutSegmentKeeps == ASSUME IInv, NEW u \in Users, PutSegment(u)  PROVE IInv'
<1>1. dl \in [Users -> Download] /\ \A v \in Users : DownloadOK(dl[v])  BY DEF IInv, TypeOK
<1>2. dl' = [dl EXCEPT ![u] = NoDownload]  BY DEF PutSegment
<1>3. dl' \in [Users -> Download] /\ \A v \in Users : DownloadOK(dl'[v])
  BY <1>1, <1>2, ConstantsFact
<1>4. done' \in SUBSET SegmentType /\ SegmentsOK(done')  BY AddedWhole DEF PutSegment
<1>5. dirty' = TRUE /\ UNCHANGED <<inFile, inUser, fileVars, saved, completed, restarts, losses>>
  BY DEF PutSegment
<1>6. TypeOK'  BY <1>3, <1>4, <1>5 DEF IInv, TypeOK, fileVars
<1>. QED  BY <1>3, <1>4, <1>5, <1>6 DEF IInv, DoneOK, SegmentsOK

LEMMA PutLastSegmentKeeps == ASSUME IInv, NEW u \in Users, PutLastSegment(u)  PROVE IInv'
<1>1. dl' = [Dropped EXCEPT ![u] = NoDownload]  BY DEF PutLastSegment
<1>2. dl' \in [Users -> Download] /\ \A v \in Users : DownloadOK(dl'[v])
  BY <1>1, DroppedFact, ConstantsFact
<1>3. done' \in SUBSET SegmentType /\ SegmentsOK(done')  BY AddedWhole DEF PutLastSegment
<1>4. /\ temp' \in BOOLEAN /\ disk' \in [Offsets -> Contents]
      /\ target' \in Contents /\ moving' \in BOOLEAN
  <2>1. TypeOK /\ MoveTemp(Open \ {u})  BY DEF PutLastSegment, IInv
  <2>. QED  BY <2>1, MoveFact
<1>5. /\ inUser' = FALSE /\ inFile' = KEEP_FINISHED_FILES /\ completed' = TRUE /\ dirty' = TRUE
      /\ UNCHANGED <<saved, restarts, losses>>
  BY DEF PutLastSegment
<1>6. TypeOK'  BY <1>2, <1>3, <1>4, <1>5, SettingAssumption DEF IInv, TypeOK
<1>. QED  BY <1>2, <1>3, <1>5, <1>6 DEF IInv, DoneOK, SegmentsOK

LEMMA PutFailedKeeps == ASSUME IInv, NEW u \in Users, PutFailed(u)  PROVE IInv'
<1>1. dl \in [Users -> Download] /\ \A v \in Users : DownloadOK(dl[v])  BY DEF IInv, TypeOK
<1>. DEFINE f == [dl EXCEPT ![u] = NoDownload]
<1>2. f \in [Users -> Download] /\ \A v \in Users : DownloadOK(f[v])  BY <1>1, ConstantsFact
<1>3. dl' = f \/ \E w \in Users : dl' = [f EXCEPT ![w].overlapped = FALSE]
  BY DEF PutFailed, PutBack, Overlapped, Listed
<1>. HIDE DEF f
<1>4. dl' \in [Users -> Download] /\ \A v \in Users : DownloadOK(dl'[v])
  <2>1. ASSUME NEW w \in Users, dl' = [f EXCEPT ![w].overlapped = FALSE]
        PROVE  dl' \in [Users -> Download] /\ \A v \in Users : DownloadOK(dl'[v])
    <3>1. dl' \in [Users -> Download]  BY <1>2, <2>1 DEF Download
    <3>2. \A v \in Users : /\ dl'[v].seg = f[v].seg /\ dl'[v].pos = f[v].pos
                            /\ dl'[v].phase = f[v].phase
      BY <1>2, <2>1 DEF Download
    <3>. QED  BY <1>2, <3>1, <3>2 DEF DownloadOK
  <2>. QED  BY <1>2, <1>3, <2>1
<1>5. done' \in SUBSET SegmentType /\ SegmentsOK(done')
  <2>1. CASE Kept(u) > 0  BY <2>1, AddedKept DEF PutFailed
  <2>2. CASE ~(Kept(u) > 0)  BY <2>2 DEF PutFailed, IInv, TypeOK, DoneOK, SegmentsOK
  <2>. QED  BY <2>1, <2>2
<1>6. /\ dirty' \in BOOLEAN
      /\ UNCHANGED <<inFile, inUser, fileVars, saved, completed, restarts, losses>>
  BY DEF PutFailed
<1>7. TypeOK'  BY <1>4, <1>5, <1>6 DEF IInv, TypeOK, fileVars
<1>. QED  BY <1>4, <1>5, <1>6, <1>7 DEF IInv, DoneOK, SegmentsOK

LEMMA RunMoverKeeps == ASSUME IInv, RunMover  PROVE IInv'
<1>1. /\ temp' \in BOOLEAN /\ disk' \in [Offsets -> Contents]
      /\ target' \in Contents /\ moving' \in BOOLEAN
  BY RenameFact DEF RunMover, IInv
<1>2. UNCHANGED <<queueVars, dl, dirty, saved, completed, restarts, losses>>  BY DEF RunMover
<1>3. TypeOK'  BY <1>1, <1>2 DEF IInv, TypeOK, queueVars
<1>. QED  BY <1>2, <1>3 DEF IInv, DoneOK, SegmentsOK, queueVars

LEMMA UserRemovesKeeps == ASSUME IInv, UserRemoves  PROVE IInv'
<1>1. dl \in [Users -> Download] /\ \A v \in Users : DownloadOK(dl[v])  BY DEF IInv, TypeOK
<1>2. /\ temp' \in BOOLEAN /\ disk' \in [Offsets -> Contents]
      /\ target' \in Contents /\ moving' \in BOOLEAN
  <2>1. CASE Listed = {}  BY <2>1, DeleteFact DEF UserRemoves, IInv
  <2>2. CASE Listed # {}  BY <2>2 DEF UserRemoves, IInv, TypeOK, fileVars
  <2>. QED  BY <2>1, <2>2
<1>3. dl' = Removed /\ inUser' \in BOOLEAN  BY DEF UserRemoves
<1>4. \A v \in Users : /\ Removed[v].seg = dl[v].seg /\ Removed[v].pos = dl[v].pos
                       /\ Removed[v].phase = dl[v].phase
  BY <1>1, RemovedFact
<1>5. dl' \in [Users -> Download] /\ \A v \in Users : DownloadOK(dl'[v])
  BY <1>1, <1>3, <1>4, RemovedFact DEF DownloadOK
<1>6. inFile' = FALSE /\ dirty' = TRUE /\ UNCHANGED <<done, saved, completed, restarts, losses>>
  BY DEF UserRemoves
<1>7. TypeOK'  BY <1>2, <1>3, <1>5, <1>6 DEF IInv, TypeOK
<1>. QED  BY <1>5, <1>6, <1>7 DEF IInv, DoneOK, SegmentsOK

LEMMA RemoveDisconnectsKeeps == ASSUME IInv, NEW u \in Users, RemoveDisconnects(u)  PROVE IInv'
<1>1. dl \in [Users -> Download] /\ \A v \in Users : DownloadOK(dl[v])  BY DEF IInv, TypeOK
<1>2. /\ dl' \in [Users -> Download]
      /\ \A v \in Users : /\ dl'[v].seg = dl[v].seg /\ dl'[v].pos = dl[v].pos
                          /\ dl'[v].phase = dl[v].phase
      /\ UNCHANGED <<done, inFile, inUser, temp, disk, target, moving, dirty, saved, completed,
                      restarts, losses>>
  BY <1>1, RemoveDisconnectsFact
<1>3. TypeOK'  BY <1>2 DEF IInv, TypeOK
<1>. QED  BY <1>1, <1>2, <1>3 DEF IInv, DoneOK, SegmentsOK, DownloadOK

LEMMA LoseTempKeeps == ASSUME IInv, LoseTemp  PROVE IInv'
<1>1. /\ temp' = FALSE /\ disk' = NoContent /\ losses' = losses + 1 /\ losses < MaxLosses
      /\ UNCHANGED <<queueVars, dl, target, moving, dirty, saved, completed, restarts>>
  BY DEF LoseTemp
<1>2. losses' \in 0 .. MaxLosses  BY <1>1, LimitAssumption DEF IInv, TypeOK
<1>3. disk' \in [Offsets -> Contents]  BY <1>1, ContentFact DEF IInv
<1>4. TypeOK'  BY <1>1, <1>2, <1>3 DEF IInv, TypeOK, queueVars
<1>. QED  BY <1>1, <1>4 DEF IInv, DoneOK, SegmentsOK, queueVars

LEMMA SaveQueueKeeps == ASSUME IInv, SaveQueue  PROVE IInv'
<1>1. /\ saved' = [queued |-> inFile, done |-> IF inFile THEN done ELSE {}, completed |-> completed]
      /\ dirty' = FALSE
      /\ UNCHANGED <<queueVars, dl, fileVars, completed, restarts, losses>>
  BY DEF SaveQueue
<1>2. saved'.done = IF inFile THEN done ELSE {}  BY <1>1
<1>3. SegmentsOK(saved'.done)  BY <1>2 DEF IInv, DoneOK, SegmentsOK, Consolidated
<1>4. TypeOK'  BY <1>1 DEF IInv, TypeOK, queueVars, fileVars
<1>. QED  BY <1>1, <1>3, <1>4 DEF IInv, DoneOK, SegmentsOK, queueVars

LEMMA RestartKeeps == ASSUME IInv, Restart  PROVE IInv'
<1>1. /\ restarts < MaxRestarts /\ restarts' = restarts + 1
      /\ dl' = [u \in Users |-> NoDownload]
      /\ done' = saved.done /\ inFile' = saved.queued /\ inUser' = QueuedAgain
      /\ completed' = saved.completed /\ moving' = FALSE /\ dirty' = FALSE
      /\ UNCHANGED <<temp, disk, target, saved, losses>>
  BY DEF Restart
<1>2. saved.done \in SUBSET SegmentType /\ saved.queued \in BOOLEAN /\ saved.completed \in BOOLEAN
  BY DEF IInv, TypeOK
<1>3. QueuedAgain \in BOOLEAN  BY <1>2 DEF QueuedAgain
<1>4. restarts' \in 0 .. MaxRestarts  BY <1>1, LimitAssumption DEF IInv, TypeOK
<1>5. dl' \in [Users -> Download] /\ \A v \in Users : DownloadOK(dl'[v])  BY <1>1, ConstantsFact
<1>6. TypeOK'  BY <1>1, <1>2, <1>3, <1>4, <1>5 DEF IInv, TypeOK
<1>. QED  BY <1>1, <1>5, <1>6 DEF IInv, DoneOK, SegmentsOK

-----------------------------------------------------------------------------
LEMMA InitEstablishes == Init => IInv
<1>. SUFFICES ASSUME Init PROVE IInv  OBVIOUS
<1>1. dl \in [Users -> Download] /\ \A v \in Users : DownloadOK(dl[v])  BY ConstantsFact DEF Init
<1>2. done = {} /\ saved = [queued |-> FALSE, done |-> {}, completed |-> FALSE]  BY DEF Init
<1>3. NoContent \in [Offsets -> Contents]  BY DEF NoContent, Contents
<1>4. restarts \in 0 .. MaxRestarts /\ losses \in 0 .. MaxLosses  BY LimitAssumption DEF Init
<1>5. /\ inFile \in BOOLEAN /\ inUser \in BOOLEAN /\ temp \in BOOLEAN /\ moving \in BOOLEAN
      /\ dirty \in BOOLEAN /\ completed \in BOOLEAN /\ target \in Contents /\ disk = NoContent
  BY DEF Init, Contents
<1>6. TypeOK  BY <1>1, <1>2, <1>3, <1>4, <1>5 DEF TypeOK
<1>. QED  BY <1>1, <1>2, <1>6 DEF IInv, DoneOK, SegmentsOK, Consolidated

LEMMA StepPreserves == IInv /\ [Next]_vars => IInv'
<1>. SUFFICES ASSUME IInv, [Next]_vars PROVE IInv'  OBVIOUS
<1>1. ASSUME NEW u \in Users, UserNext(u)  PROVE IInv'
  BY <1>1, GetDownloadKeeps, StartDataKeeps, ReceiveKeeps, ConnectionFailsKeeps,
     PutOrphanKeeps, PutSegmentKeeps, PutLastSegmentKeeps, PutFailedKeeps,
     RemoveDisconnectsKeeps DEF UserNext
<1>2. CASE RunMover \/ UserRemoves \/ LoseTemp \/ SaveQueue \/ Restart
  BY <1>2, RunMoverKeeps, UserRemovesKeeps, LoseTempKeeps, SaveQueueKeeps, RestartKeeps
<1>3. CASE UNCHANGED vars
  BY <1>3 DEF vars, IInv, TypeOK, DoneOK, SegmentsOK
<1>. QED  BY <1>1, <1>2, <1>3 DEF Next

\* The invariant holds in every reachable state.
THEOREM Invariance == Spec => []IInv
BY InitEstablishes, StepPreserves, PTL DEF Spec

\* Every variable of the download keeps its type.
THEOREM TypeCorrect == Spec => []TypeOK
<1>1. IInv => TypeOK  BY DEF IInv
<1>. QED  BY <1>1, Invariance, PTL

\* The finished segments never touch and consist of whole blocks: addSegment
\* is only ever given segments of whole blocks, by getNextSegment through
\* putDownload(d, true), by the rounding in putDownload(d, false), and by
\* loadQueue through what saveQueue wrote.
THEOREM DoneSegmentsCorrect == Spec => []DoneOK
<1>1. IInv => DoneOK  BY DEF IInv
<1>. QED  BY <1>1, Invariance, PTL

-----------------------------------------------------------------------------
(***************************************************************************)
(* Downloads the queue has lost sight of.  Only two actions drop listed    *)
(* downloads: putDownload tells them first, remove has them in its list    *)
(* until it tells them; only getDownload starts one, and lists it.         *)
(***************************************************************************)
Told(d) == d.phase # "none" /\ ~d.listed => d.disc \/ d.due

LEMMA ToldDropped == ASSUME dl \in [Users -> Download], DroppedAreTold
                     PROVE  \A v \in Users : Told(Dropped[v])
<1>. TAKE v \in Users
<1>1. dl[v] \in Download /\ (dl[v].phase # "none" /\ ~dl[v].listed => dl[v].disc \/ dl[v].due)
  BY DEF DroppedAreTold
<1>2. CASE dl[v].listed
  <2>1. Dropped[v] = [dl[v] EXCEPT !.listed = FALSE, !.disc = TRUE]  BY <1>2 DEF Dropped, Listed
  <2>. QED  BY <1>1, <2>1 DEF Told, Download
<1>3. CASE ~dl[v].listed
  <2>1. Dropped[v] = dl[v]  BY <1>3 DEF Dropped, Listed
  <2>. QED  BY <1>1, <2>1 DEF Told
<1>. QED  BY <1>2, <1>3

LEMMA ToldStep == ASSUME IInv, DroppedAreTold, [Next]_vars
                  PROVE  \A v \in Users : Told(dl'[v])
<1>1. dl \in [Users -> Download] /\ \A v \in Users : dl[v] \in Download  BY DEF IInv, TypeOK
<1>2. \A v \in Users : Told(dl[v])  BY DEF DroppedAreTold, Told
<1>3. Told(NoDownload)  BY DEF Told, NoDownload
<1>4. ASSUME NEW u \in Users, GetDownload(u)  PROVE \A v \in Users : Told(dl'[v])
  <2>1. \A c : Told(Asking(u, c))  BY DEF Told, Asking, NoDownload
  <2>2. PICK c : \/ dl' = [dl EXCEPT ![u] = Asking(u, c)]
                 \/ \E w \in Users : dl' = [dl EXCEPT ![u] = Asking(u, c), ![w].overlapped = TRUE]
    BY <1>4 DEF GetDownload, Listed
  <2>. DEFINE f == [dl EXCEPT ![u] = Asking(u, c)]
  <2>3. \A v \in Users : Told(f[v])  BY <1>1, <1>2, <2>1
  <2>4. f \in [Users -> {f[v] : v \in Users}]  BY <1>1
  <2>5. dl' = f \/ \E w \in Users : dl' = [f EXCEPT ![w].overlapped = TRUE]  BY <2>2
  <2>. HIDE DEF f
  <2>6. ASSUME NEW w \in Users, dl' = [f EXCEPT ![w].overlapped = TRUE], NEW v \in Users
        PROVE  Told(dl'[v])
    <3>1. CASE v = w
      <4>1. dl'[v] = [f[v] EXCEPT !.overlapped = TRUE]  BY <2>4, <2>6, <3>1
      <4>2. f[v].phase = dl'[v].phase /\ f[v].listed = dl'[v].listed
            /\ f[v].disc = dl'[v].disc /\ f[v].due = dl'[v].due
        BY <4>1
      <4>. QED  BY <2>3, <4>2 DEF Told
    <3>2. CASE v # w  BY <2>3, <2>4, <2>6, <3>2
    <3>. QED  BY <3>1, <3>2
  <2>. QED  BY <2>3, <2>5, <2>6
<1>5. ASSUME NEW u \in Users, StartData(u) \/ Receive(u) \/ ConnectionFails(u)
      PROVE  \A v \in Users : Told(dl'[v])
  <2>1. dl[u].phase # "none"  BY <1>5 DEF StartData, Receive, ConnectionFails
  <2>2. \A v \in Users : /\ dl[v].listed = dl'[v].listed /\ (dl[v].disc => dl'[v].disc)
                          /\ dl[v].due = dl'[v].due
                          /\ (v # u => dl[v].phase = dl'[v].phase)
    <3>1. CASE StartData(u)
      <4>1. PICK f \in {dl} \cup {Disconnect(v) : v \in Users} : StartFails(f, u) \/ OpenTemp(f, u)
        BY <3>1 DEF StartData, Overlapped, Listed
      <4>2. f \in [Users -> Download] /\ \A v \in Users :
              /\ f[v].listed = dl[v].listed /\ (dl[v].disc => f[v].disc)
              /\ f[v].phase = dl[v].phase /\ f[v].due = dl[v].due
        <5>1. f = dl \/ \E w \in Users : f = [dl EXCEPT ![w].disc = TRUE]  BY DEF Disconnect
        <5>2. CASE f = dl  BY <1>1, <5>2
        <5>3. ASSUME NEW w \in Users, f = [dl EXCEPT ![w].disc = TRUE]
              PROVE  f \in [Users -> Download] /\ \A v \in Users :
                       /\ f[v].listed = dl[v].listed /\ (dl[v].disc => f[v].disc)
                       /\ f[v].phase = dl[v].phase /\ f[v].due = dl[v].due
          BY <1>1, <5>3 DEF Download
        <5>. QED  BY <5>1, <5>2, <5>3
      <4>3. PICK ph : \/ dl' = [f EXCEPT ![u].phase = ph, ![u].overlapped = FALSE]
                      \/ dl' = [f EXCEPT ![u].phase = ph, ![u].file = TRUE, ![u].overlapped = FALSE]
        BY <4>1 DEF StartFails, OpenTemp
      <4>4. \A v \in Users : /\ dl'[v].listed = f[v].listed /\ dl'[v].disc = f[v].disc
                              /\ dl'[v].due = f[v].due
                              /\ (v # u => dl'[v].phase = f[v].phase)
        BY <4>2, <4>3 DEF Download
      <4>. QED  BY <4>2, <4>4
    <3>2. CASE Receive(u)
      <4>1. PICK x \in Sendable(u) :
              LET d    == dl[u]
                  bad  == d.tainted \/ x = "bad"
                  last == d.pos + 1 = d.seg.size
              IN  \/ dl' = [dl EXCEPT ![u].phase = "failing"]
                  \/ dl' = [dl EXCEPT ![u].pos = IF last /\ bad THEN 0 ELSE d.pos + 1,
                                      ![u].tainted = bad,
                                      ![u].phase = IF ~last THEN "running" ELSE AfterLast(bad)]
        BY <3>2 DEF Receive
      <4>. DEFINE bad  == dl[u].tainted \/ x = "bad"
                  last == dl[u].pos + 1 = dl[u].seg.size
                  np   == IF last /\ bad THEN 0 ELSE dl[u].pos + 1
                  nph  == IF ~last THEN "running" ELSE AfterLast(bad)
      <4>2. \/ dl' = [dl EXCEPT ![u].phase = "failing"]
            \/ dl' = [dl EXCEPT ![u].pos = np, ![u].tainted = bad, ![u].phase = nph]
        BY <4>1
      <4>. HIDE DEF bad, np, nph
      <4>. QED  BY <1>1, <4>2 DEF Download
    <3>3. CASE ConnectionFails(u)  BY <1>1, <3>3 DEF ConnectionFails, Download
    <3>. QED  BY <1>5, <3>1, <3>2, <3>3
  <2>. QED  BY <1>2, <2>1, <2>2 DEF Told
<1>6. ASSUME NEW u \in Users, PutOrphan(u) \/ PutSegment(u) \/ PutLastSegment(u)
      PROVE  \A v \in Users : Told(dl'[v])
  <2>1. dl' = [dl EXCEPT ![u] = NoDownload] \/ dl' = [Dropped EXCEPT ![u] = NoDownload]
    BY <1>6 DEF PutOrphan, PutSegment, PutLastSegment
  <2>2. \A v \in Users : Told(Dropped[v])  BY <1>1, ToldDropped
  <2>3. Dropped \in [Users -> {Dropped[v] : v \in Users}]  BY DEF Dropped
  <2>. QED  BY <1>1, <1>2, <1>3, <2>1, <2>2, <2>3
<1>7. ASSUME NEW u \in Users, PutFailed(u)  PROVE \A v \in Users : Told(dl'[v])
  <2>. DEFINE f == [dl EXCEPT ![u] = NoDownload]
  <2>1. f \in [Users -> Download] /\ \A v \in Users : Told(f[v])  BY <1>1, <1>2, <1>3, ConstantsFact
  <2>2. dl' = f \/ \E w \in Users : dl' = [f EXCEPT ![w].overlapped = FALSE]
    BY <1>7 DEF PutFailed, PutBack, Overlapped, Listed
  <2>. HIDE DEF f
  <2>3. \A v \in Users : /\ dl'[v].phase = f[v].phase /\ dl'[v].listed = f[v].listed
                          /\ dl'[v].disc = f[v].disc /\ dl'[v].due = f[v].due
    BY <2>1, <2>2 DEF Download
  <2>. QED  BY <2>1, <2>3 DEF Told
<1>8. CASE UserRemoves
  <2>1. \A v \in Users : /\ dl'[v].phase = dl[v].phase /\ dl'[v].disc = dl[v].disc
                         /\ dl'[v].due = (dl[v].due \/ dl[v].listed)
    BY <1>1, <1>8, RemovedFact DEF UserRemoves
  <2>. QED  BY <1>2, <2>1 DEF Told
<1>9. CASE Restart  BY <1>3, <1>9 DEF Restart
<1>11. ASSUME NEW u \in Users, RemoveDisconnects(u)  PROVE \A v \in Users : Told(dl'[v])
  BY <1>1, <1>2, <1>11, RemoveDisconnectsFact DEF Told
<1>10. CASE RunMover \/ LoseTemp \/ SaveQueue \/ UNCHANGED vars
  BY <1>2, <1>10 DEF RunMover, LoseTemp, SaveQueue, vars
<1>. QED  BY <1>4, <1>5, <1>6, <1>7, <1>8, <1>9, <1>10, <1>11 DEF Next, UserNext

\* A download the queue has lost sight of has been told to disconnect, by the
\* putDownload that finished its item or by remove, or remove, which tells only
\* after it has released the lock, still holds it in its list.
THEOREM LostDownloadsAreTold == Spec => []DroppedAreTold
<1>1. Init => DroppedAreTold  BY DEF Init, DroppedAreTold, NoDownload
<1>2. IInv /\ DroppedAreTold /\ [Next]_vars => DroppedAreTold'
  <2>. SUFFICES ASSUME IInv, DroppedAreTold, [Next]_vars PROVE DroppedAreTold'  OBVIOUS
  <2>. QED  BY ToldStep DEF DroppedAreTold, Told
<1>. QED  BY <1>1, <1>2, Invariance, PTL DEF Spec

-----------------------------------------------------------------------------
(* getNextSegment answers with bytes nobody has and nobody fetches.        *)

LEMMA FreshMeetsNoRunning ==
  ASSUME NEW D \in SUBSET SegmentType, SegmentsOK(D), NEW s \in FreshSegments(D)
  PROVE  \A v \in Listed : ~Overlaps(s, dl[v].seg)
<1>1. CASE MULTI_CHUNK
  <2>1. PICK n \in 1 .. RoundUp(Size) \div BlockSize : s \in FreeSegments(D, Running, n)
    BY <1>1 DEF FreshSegments
  <2>2. PICK p \in ScanPoints \X (1 .. n) : s = Candidate(p[1], p[2]) /\ IsFree(D, Running, p[1], p[2])
    BY <2>1 DEF FreeSegments
  <2>. QED  BY <2>2 DEF IsFree, Running
<1>2. CASE ~MULTI_CHUNK
  BY <1>2 DEF FreshSegments
<1>. QED  BY <1>1, <1>2

LEMMA FreshMeetsNothing ==
  ASSUME NEW D \in SUBSET SegmentType, SegmentsOK(D), ~IsFinished(D), NEW s \in FreshSegments(D)
  PROVE  /\ \A d \in D : ~Overlaps(s, d)
         /\ \A v \in Listed : ~Overlaps(s, dl[v].seg)
<1>1. CASE MULTI_CHUNK
  <2>1. PICK n \in 1 .. RoundUp(Size) \div BlockSize : s \in FreeSegments(D, Running, n)
    BY <1>1 DEF FreshSegments
  <2>2. PICK p \in ScanPoints \X (1 .. n) : s = Candidate(p[1], p[2]) /\ IsFree(D, Running, p[1], p[2])
    BY <2>1 DEF FreeSegments
  <2>3. p[1] \in ScanPoints /\ p[2] \in Nat \ {0}
    <3>1. RoundUp(Size) \div BlockSize \in Int  BY RoundFact, SizeAssumption, BlockAssumption
    <3>. QED  BY <2>2, <3>1
  <2>4. \A d \in D : OnBoundary(d)  BY DEF SegmentsOK
  <2>5. /\ \A d \in D : ~Overlaps(s, d)
        /\ \A r \in Running : ~Overlaps(s, r)
    BY <2>2, <2>3, <2>4, FreeMeetsNothing
  <2>. QED  BY <2>5 DEF Running
<1>2. CASE ~MULTI_CHUNK
  <2>1. s = FirstGap(D) /\ FirstGap(D).size > 0 /\ Listed = {}  BY <1>2 DEF FreshSegments
  <2>. QED  BY <2>1, GapMeetsNothing
<1>. QED  BY <1>1, <1>2

-----------------------------------------------------------------------------
(***************************************************************************)
(* The inductive invariant.  That nobody fetches what another fetches or   *)
(* what is finished rests on the lists: only while the item is queued and  *)
(* unfinished is a download handed out, every download of bytes is then    *)
(* listed (getNextSegment sees it), and it stays so until it is put back.  *)
(***************************************************************************)
Active(u) == dl[u].phase # "none"

Apart ==
  \A u \in Users : Active(u) =>
    /\ \A v \in Users \ {u} : Active(v) => ~Overlaps(dl[u].seg, dl[v].seg)
    /\ \A s \in done : ~Overlaps(dl[u].seg, s)

Listing ==
  /\ \A u \in Users : dl[u].listed => Active(u)
  /\ inUser <=> inFile /\ ~IsFinished(done)
  /\ Listed # {} => inUser
  /\ \A u \in Users : Active(u) /\ ~dl[u].listed /\ inFile => dl[u].seg = NoSegment

DInv == IInv /\ Apart /\ Listing

LEMMA NothingMeets == \A t \in SegmentType \cup {NoSegment} :
                        ~Overlaps(NoSegment, t) /\ ~Overlaps(t, NoSegment)
BY DEF SegmentType, NoSegment, Segment, Overlaps, End

LEMMA OverlapsBothWays == \A s, t : Overlaps(s, t) <=> Overlaps(t, s)
BY DEF Overlaps

\* Steps that leave the queue, the segments and the lists alone.
SameWork == /\ \A v \in Users : /\ dl'[v].seg = dl[v].seg
                                /\ dl'[v].listed = dl[v].listed
                                /\ dl'[v].phase = "none" <=> dl[v].phase = "none"
            /\ UNCHANGED <<done, inFile, inUser>>

LEMMA SameWorkKeeps == ASSUME Apart, Listing, SameWork  PROVE Apart' /\ Listing'
<1>1. \A v \in Users : Active(v)' <=> Active(v)  BY DEF SameWork, Active
<1>2. Listed' = Listed  BY DEF SameWork, Listed
<1>3. Apart'  BY <1>1 DEF Apart, SameWork
<1>4. Listing'  BY <1>1, <1>2 DEF Listing, SameWork
<1>. QED  BY <1>3, <1>4

LEMMA StartDataFact ==
  ASSUME IInv, NEW u \in Users, StartData(u)
  PROVE  /\ \A v \in Users : /\ dl'[v].seg = dl[v].seg /\ dl'[v].pos = dl[v].pos
                             /\ dl'[v].listed = dl[v].listed /\ dl'[v].tainted = dl[v].tainted
                             /\ v # u => dl'[v].phase = dl[v].phase /\ dl'[v].file = dl[v].file
         /\ dl[u].phase = "asked" /\ dl'[u].phase \in {"failing", "running"}
         /\ \/ dl'[u].file = dl[u].file /\ dl'[u].phase = "failing" /\ UNCHANGED fileVars
            \/ /\ dl'[u].file /\ ~(SomethingDownloaded /\ ~temp) /\ temp' = TRUE
               /\ disk' \in {disk, Extended}
<1>. DEFINE Rest   == \A v \in Users : /\ dl'[v].seg = dl[v].seg /\ dl'[v].pos = dl[v].pos
                                       /\ dl'[v].listed = dl[v].listed /\ dl'[v].tainted = dl[v].tainted
                                       /\ v # u => dl'[v].phase = dl[v].phase /\ dl'[v].file = dl[v].file
            Phase  == dl[u].phase = "asked" /\ dl'[u].phase \in {"failing", "running"}
            Fails  == dl'[u].file = dl[u].file /\ dl'[u].phase = "failing" /\ UNCHANGED fileVars
            Opens  == /\ dl'[u].file /\ ~(SomethingDownloaded /\ ~temp) /\ temp' = TRUE
                      /\ disk' \in {disk, Extended}
<1>0. SUFFICES Rest /\ Phase /\ (Fails \/ Opens)  OBVIOUS
<1>1. dl \in [Users -> Download] /\ \A v \in Users : DownloadOK(dl[v])  BY DEF IInv, TypeOK
<1>2. PICK f \in {dl} \cup {Disconnect(v) : v \in Users} : StartFails(f, u) \/ OpenTemp(f, u)
  BY DEF StartData, Overlapped, Listed
<1>3. f \in [Users -> Download] /\ \A v \in Users :
        /\ f[v].seg = dl[v].seg /\ f[v].pos = dl[v].pos /\ f[v].listed = dl[v].listed
        /\ f[v].tainted = dl[v].tainted /\ f[v].phase = dl[v].phase /\ f[v].file = dl[v].file
  <2>1. f = dl \/ \E w \in Users : f = [dl EXCEPT ![w].disc = TRUE]  BY DEF Disconnect
  <2>2. CASE f = dl  BY <1>1, <2>2
  <2>3. ASSUME NEW w \in Users, f = [dl EXCEPT ![w].disc = TRUE]
        PROVE  f \in [Users -> Download] /\ \A v \in Users :
                 /\ f[v].seg = dl[v].seg /\ f[v].pos = dl[v].pos /\ f[v].listed = dl[v].listed
                 /\ f[v].tainted = dl[v].tainted /\ f[v].phase = dl[v].phase /\ f[v].file = dl[v].file
    BY <1>1, <2>3 DEF Download
  <2>. QED  BY <2>1, <2>2, <2>3
<1>4. dl[u].phase = "asked"  BY DEF StartData
<1>5. CASE StartFails(f, u)
  <2>1. dl' = [f EXCEPT ![u].phase = "failing", ![u].overlapped = FALSE] /\ UNCHANGED fileVars
    BY <1>5 DEF StartFails
  <2>2. /\ \A v \in Users : /\ dl'[v].seg = f[v].seg /\ dl'[v].pos = f[v].pos
                            /\ dl'[v].listed = f[v].listed /\ dl'[v].tainted = f[v].tainted
                            /\ dl'[v].file = f[v].file
                            /\ v # u => dl'[v].phase = f[v].phase
        /\ dl'[u].phase = "failing"
    BY <1>3, <2>1 DEF Download
  <2>3. Rest   BY <1>3, <2>2
  <2>4. Phase  BY <1>4, <2>2
  <2>5. Fails  BY <1>3, <2>1, <2>2
  <2>. HIDE DEF Rest, Phase, Fails, Opens
  <2>. QED  BY <2>3, <2>4, <2>5
<1>6. CASE OpenTemp(f, u) /\ ~StartFails(f, u)
  <2>. DEFINE ph == IF f[u].seg.size = 0 THEN "failing" ELSE "running"
  <2>1. /\ dl' = [f EXCEPT ![u].phase = ph, ![u].file = TRUE, ![u].overlapped = FALSE]
        /\ temp' = TRUE /\ disk' \in {disk, Extended} /\ ~(SomethingDownloaded /\ ~temp)
    BY <1>6 DEF OpenTemp
  <2>2. ph \in {"failing", "running"}  OBVIOUS
  <2>. HIDE DEF ph
  <2>3. /\ \A v \in Users : /\ dl'[v].seg = f[v].seg /\ dl'[v].pos = f[v].pos
                            /\ dl'[v].listed = f[v].listed /\ dl'[v].tainted = f[v].tainted
                            /\ v # u => dl'[v].phase = f[v].phase /\ dl'[v].file = f[v].file
        /\ dl'[u].phase = ph /\ dl'[u].file
    BY <1>3, <2>1 DEF Download
  <2>4. Rest   BY <1>3, <2>3
  <2>5. Phase  BY <1>4, <2>2, <2>3
  <2>6. Opens  BY <2>1, <2>3
  <2>. HIDE DEF Rest, Phase, Fails, Opens
  <2>. QED  BY <2>4, <2>5, <2>6
<1>. HIDE DEF Rest, Phase, Fails, Opens
<1>. QED  BY <1>2, <1>5, <1>6

\* on(Data): the byte that arrives, and what becomes of the download.
LEMMA ReceiveFact ==
  ASSUME IInv, NEW u \in Users, Receive(u)
  PROVE  LET p == dl[u].seg.start + dl[u].pos IN
         /\ dl[u].phase = "running" /\ dl[u].seg \in SegmentType /\ dl[u].pos < dl[u].seg.size
         /\ \A v \in Users : /\ dl'[v].seg = dl[v].seg /\ dl'[v].listed = dl[v].listed
                             /\ dl'[v].file = dl[v].file /\ dl'[v].disc = dl[v].disc
                             /\ dl'[v].over = dl[v].over /\ dl'[v].overlapped = dl[v].overlapped
                             /\ v # u => dl'[v] = dl[v]
         /\ \/ /\ dl'[u].phase = "failing" /\ dl'[u].pos = dl[u].pos
               /\ dl'[u].tainted = dl[u].tainted /\ UNCHANGED disk
            \/ /\ dl'[u].phase \in {"running", "finishing"}
               /\ disk' = Written(p, "good") /\ ~dl[u].tainted /\ ~dl'[u].tainted
               /\ dl'[u].pos = dl[u].pos + 1
               /\ dl'[u].phase = "finishing" => dl'[u].pos = dl[u].seg.size
            \/ /\ dl'[u].phase = "running" /\ dl'[u].tainted
               /\ dl[u].tainted \/ u \in BadUsers
               /\ \E x \in {"good", "bad"} : disk' = Written(p, x)
               /\ dl'[u].pos = dl[u].pos + 1 /\ (p + 1) % BlockSize # 0
            \/ /\ dl'[u].phase = "failing" /\ dl'[u].pos = 0
               /\ dl[u].tainted \/ u \in BadUsers
               /\ \E x \in {"good", "bad"} : disk' = Written(p, x)
<1>1. dl \in [Users -> Download] /\ \A v \in Users : DownloadOK(dl[v])  BY DEF IInv, TypeOK
<1>2. dl[u] \in Download /\ dl[u].phase = "running" /\ dl[u].seg \in SegmentType
      /\ dl[u].pos \in Nat /\ dl[u].pos < dl[u].seg.size /\ dl[u].tainted \in BOOLEAN
  BY <1>1 DEF Receive, Download, DownloadOK
<1>. DEFINE p    == dl[u].seg.start + dl[u].pos
            full == (p + 1) % BlockSize = 0
            last == dl[u].pos + 1 = dl[u].seg.size
<1>3. PICK x \in Sendable(u) :
        LET bad == dl[u].tainted \/ x = "bad"
        IN \/ /\ bad /\ full
              /\ dl' = [dl EXCEPT ![u].phase = "failing"]
              /\ UNCHANGED disk
           \/ /\ ~(bad /\ full)
              /\ disk' = Written(p, x)
              /\ dl' = [dl EXCEPT ![u].pos = IF last /\ bad THEN 0 ELSE dl[u].pos + 1,
                                  ![u].tainted = bad,
                                  ![u].phase = IF ~last THEN "running" ELSE AfterLast(bad)]
  BY DEF Receive
<1>4. x \in {"good", "bad"}  /\ (x = "bad" => u \in BadUsers)  BY DEF Sendable
<1>. DEFINE bad == dl[u].tainted \/ x = "bad"
            np  == IF last /\ bad THEN 0 ELSE dl[u].pos + 1
            nph == IF ~last THEN "running" ELSE AfterLast(bad)
<1>5. CASE dl' = [dl EXCEPT ![u].phase = "failing"] /\ UNCHANGED disk
  <2>1. /\ \A v \in Users : /\ dl'[v].seg = dl[v].seg /\ dl'[v].listed = dl[v].listed
                            /\ dl'[v].file = dl[v].file /\ dl'[v].disc = dl[v].disc
                            /\ dl'[v].over = dl[v].over /\ dl'[v].overlapped = dl[v].overlapped
                            /\ (v # u => dl'[v] = dl[v])
        /\ dl'[u].phase = "failing" /\ dl'[u].pos = dl[u].pos /\ dl'[u].tainted = dl[u].tainted
    BY <1>1, <1>5 DEF Download
  <2>. QED  BY <1>2, <1>5, <2>1
<1>6. CASE /\ ~(bad /\ full) /\ disk' = Written(p, x)
           /\ dl' = [dl EXCEPT ![u].pos = np, ![u].tainted = bad, ![u].phase = nph]
  <2>1. bad \in BOOLEAN /\ np \in Nat /\ nph \in Phases  BY <1>2 DEF AfterLast, Phases
  <2>2. CASE ~bad
    <3>1. x = "good" /\ np = dl[u].pos + 1 /\ nph \in {"running", "finishing"}
          /\ (nph = "finishing" => np = dl[u].seg.size)
      BY <1>2, <1>4, <2>2 DEF AfterLast
    <3>. HIDE DEF np, nph, bad
    <3>2. /\ \A v \in Users : /\ dl'[v].seg = dl[v].seg /\ dl'[v].listed = dl[v].listed
                              /\ dl'[v].file = dl[v].file /\ dl'[v].disc = dl[v].disc
                              /\ dl'[v].over = dl[v].over /\ dl'[v].overlapped = dl[v].overlapped
                              /\ (v # u => dl'[v] = dl[v])
          /\ dl'[u].phase = nph /\ dl'[u].pos = np /\ dl'[u].tainted = bad
      BY <1>1, <1>6 DEF Download
    <3>3. ~dl[u].tainted  BY <2>2 DEF bad
    <3>. QED  BY <1>2, <1>6, <2>2, <3>1, <3>2, <3>3
  <2>3. CASE bad
    <3>1. ~full /\ (last => np = 0 /\ nph = "failing")
          /\ (~last => np = dl[u].pos + 1 /\ nph = "running")
      BY <1>6, <2>3 DEF AfterLast
    <3>0. dl[u].tainted \/ u \in BadUsers  BY <1>4, <2>3
    <3>. HIDE DEF np, nph, bad
    <3>2. /\ \A v \in Users : /\ dl'[v].seg = dl[v].seg /\ dl'[v].listed = dl[v].listed
                              /\ dl'[v].file = dl[v].file /\ dl'[v].disc = dl[v].disc
                              /\ dl'[v].over = dl[v].over /\ dl'[v].overlapped = dl[v].overlapped
                              /\ (v # u => dl'[v] = dl[v])
          /\ dl'[u].phase = nph /\ dl'[u].pos = np /\ dl'[u].tainted = bad
      BY <1>1, <1>6 DEF Download
    <3>. QED  BY <1>2, <1>4, <1>6, <2>3, <3>0, <3>1, <3>2
  <2>. QED  BY <2>2, <2>3
<1>. QED  BY <1>3, <1>5, <1>6

LEMMA ConnectionFailsFact ==
  ASSUME IInv, NEW u \in Users, ConnectionFails(u)
  PROVE  /\ \A v \in Users : /\ dl'[v].seg = dl[v].seg /\ dl'[v].pos = dl[v].pos
                             /\ dl'[v].listed = dl[v].listed /\ dl'[v].file = dl[v].file
                             /\ dl'[v].tainted = dl[v].tainted /\ dl'[v].disc = dl[v].disc
                             /\ dl'[v].over = dl[v].over /\ dl'[v].overlapped = dl[v].overlapped
                             /\ v # u => dl'[v] = dl[v]
         /\ dl[u].phase \in {"asked", "running"} /\ dl'[u].phase = "failing"
<1>1. dl \in [Users -> Download]  BY DEF IInv, TypeOK
<1>2. dl' = [dl EXCEPT ![u].phase = "failing"] /\ dl[u].phase \in {"asked", "running"}
  BY DEF ConnectionFails
<1>. QED  BY <1>1, <1>2 DEF Download

-----------------------------------------------------------------------------
(* Every action preserves Apart and Listing.                               *)

LEMMA QuietKeeps ==
  ASSUME DInv, NEW u \in Users,
         StartData(u) \/ Receive(u) \/ ConnectionFails(u) \/ RemoveDisconnects(u)
  PROVE  Apart' /\ Listing'
<1>1. UNCHANGED <<done, inFile, inUser>>
  BY DEF StartData, Receive, ConnectionFails, RemoveDisconnects, queueVars
<1>2. CASE StartData(u)
  <2>1. SameWork  BY <1>1, <1>2, StartDataFact DEF DInv, SameWork
  <2>. QED  BY <2>1, SameWorkKeeps DEF DInv
<1>3. CASE Receive(u)
  <2>1. SameWork
    <3>1. /\ dl[u].phase # "none" /\ dl'[u].phase # "none"
          /\ \A v \in Users : /\ dl'[v].seg = dl[v].seg /\ dl'[v].listed = dl[v].listed
                              /\ v # u => dl'[v] = dl[v]
      BY <1>3, ReceiveFact DEF DInv
    <3>. QED  BY <1>1, <3>1 DEF SameWork
  <2>. QED  BY <2>1, SameWorkKeeps DEF DInv
<1>4. CASE ConnectionFails(u)
  <2>1. SameWork  BY <1>1, <1>4, ConnectionFailsFact DEF DInv, SameWork
  <2>. QED  BY <2>1, SameWorkKeeps DEF DInv
<1>5. CASE RemoveDisconnects(u)
  <2>1. dl \in [Users -> Download]  BY DEF DInv, IInv, TypeOK
  <2>2. SameWork  BY <1>1, <1>5, <2>1, RemoveDisconnectsFact DEF SameWork
  <2>. QED  BY <2>2, SameWorkKeeps DEF DInv
<1>. QED  BY <1>2, <1>3, <1>4, <1>5

\* getDownload starts one download; another may be marked as overlapped.
LEMMA GetDownloadIs ==
  ASSUME IInv, NEW u \in Users, GetDownload(u)
  PROVE  /\ dl[u].phase = "none" /\ inFile /\ inUser
         /\ UNCHANGED <<inFile, inUser, fileVars, dirty, saved, completed, restarts, losses>>
         /\ \A v \in Users \ {u} :
              /\ dl'[v].seg = dl[v].seg /\ dl'[v].phase = dl[v].phase /\ dl'[v].pos = dl[v].pos
              /\ dl'[v].file = dl[v].file /\ dl'[v].tainted = dl[v].tainted
         /\ dl'[u].phase = "asked" /\ dl'[u].pos = 0 /\ ~dl'[u].file /\ ~dl'[u].tainted
         /\ done' \in {done, {}} /\ (temp => done' = done)
<1>1. dl \in [Users -> Download]  BY DEF IInv, TypeOK
<1>2. /\ dl[u].phase = "none" /\ inFile /\ inUser /\ done' = Resumable
      /\ UNCHANGED <<inFile, inUser, fileVars, dirty, saved, completed, restarts, losses>>
  BY DEF GetDownload
<1>3. \A c : /\ Asking(u, c).phase = "asked" /\ Asking(u, c).pos = 0
             /\ ~Asking(u, c).file /\ ~Asking(u, c).tainted
  BY DEF Asking, NoDownload
<1>4. PICK c : \/ dl' = [dl EXCEPT ![u] = Asking(u, c)]
               \/ \E w \in Users : dl' = [dl EXCEPT ![u] = Asking(u, c), ![w].overlapped = TRUE]
  BY DEF GetDownload, Listed
<1>. DEFINE f == [dl EXCEPT ![u] = Asking(u, c)]
<1>5. f[u] = Asking(u, c) /\ \A v \in Users \ {u} : f[v] = dl[v]  BY <1>1
<1>6. dl' = f \/ \E w \in Users : dl' = [f EXCEPT ![w].overlapped = TRUE]  BY <1>4
<1>7. f \in [Users -> {f[v] : v \in Users}]  BY <1>1
<1>8. \A v \in Users \ {u} : dl[v] \in Download  BY <1>1
<1>. HIDE DEF f
<1>9. ASSUME NEW w \in Users, dl' = [f EXCEPT ![w].overlapped = TRUE], NEW v \in Users
      PROVE  /\ dl'[v].seg = f[v].seg /\ dl'[v].phase = f[v].phase /\ dl'[v].pos = f[v].pos
             /\ dl'[v].file = f[v].file /\ dl'[v].tainted = f[v].tainted
  <2>1. CASE v = w
    <3>1. dl'[v] = [f[v] EXCEPT !.overlapped = TRUE]  BY <1>7, <1>9, <2>1
    <3>. QED  BY <3>1
  <2>2. CASE v # w
    <3>1. dl'[v] = f[v]  BY <1>7, <1>9, <2>2
    <3>. QED  BY <3>1
  <2>. QED  BY <2>1, <2>2
<1>10. \A v \in Users : /\ dl'[v].seg = f[v].seg /\ dl'[v].phase = f[v].phase
                         /\ dl'[v].pos = f[v].pos /\ dl'[v].file = f[v].file
                         /\ dl'[v].tainted = f[v].tainted
  BY <1>6, <1>9
<1>11. Resumable \in {done, {}} /\ (temp => Resumable = done)  BY DEF Resumable
<1>. QED  BY <1>2, <1>3, <1>5, <1>10, <1>11

\* What getDownload hands out, and what it leaves alone.
LEMMA GetDownloadFact ==
  ASSUME DInv, ~OVERLAP_CHUNKS, NEW u \in Users, GetDownload(u)
  PROVE  /\ dl[u].phase = "none" /\ inFile /\ inUser
         /\ \A v \in Users \ {u} : dl'[v] = dl[v]
         /\ dl'[u].phase = "asked" /\ dl'[u].listed /\ dl'[u].pos = 0
         /\ ~dl'[u].file /\ ~dl'[u].tainted
         /\ \/ dl'[u].seg = NoSegment
            \/ /\ dl'[u].seg \in SegmentType
               /\ \A d \in done' : ~Overlaps(dl'[u].seg, d)
               /\ \A v \in Listed : ~Overlaps(dl'[u].seg, dl[v].seg)
         /\ done' \in {done, {}} /\ (temp => done' = done) /\ ~IsFinished(done')
<1>1. done \in SUBSET SegmentType /\ SegmentsOK(done)  BY DEF DInv, IInv, TypeOK, DoneOK, SegmentsOK
<1>2. dl \in [Users -> Download]  BY DEF DInv, IInv, TypeOK
<1>3. /\ dl[u].phase = "none" /\ inFile /\ inUser
      /\ done' = Resumable
  BY DEF GetDownload
<1>4. Resumable \in {done, {}} /\ (temp => Resumable = done)  BY DEF Resumable
<1>5. ~IsFinished(done)  BY <1>3 DEF DInv, Listing
<1>6. ~IsFinished(Resumable)  BY <1>4, <1>5 DEF IsFinished
<1>7. SegmentsOK(Resumable) /\ Resumable \in SUBSET SegmentType
  BY <1>1, <1>4 DEF SegmentsOK, Consolidated
<1>8. PICK c : /\ dl' = [dl EXCEPT ![u] = Asking(u, c)]
               /\ \/ c.seg = NoSegment
                  \/ c.seg \in FreshSegments(Resumable)
  <2>1. SlowTails(Resumable) = {}  BY DEF SlowTails
  <2>2. \A c \in NextSegments(Resumable) : ~c.overlap /\ c.seg \in FreshSegments(Resumable)
    BY <2>1 DEF NextSegments
  <2>3. CASE \E c \in NextSegments(Resumable) : ~c.overlap /\ dl' = [dl EXCEPT ![u] = Asking(u, c)]
    BY <2>2, <2>3
  <2>4. CASE dl' = [dl EXCEPT ![u] = Asking(u, [seg |-> NoSegment, overlap |-> FALSE])]
    <3>. DEFINE c == [seg |-> NoSegment, overlap |-> FALSE]
    <3>1. c.seg = NoSegment  OBVIOUS
    <3>2. dl' = [dl EXCEPT ![u] = Asking(u, c)]  BY <2>4
    <3>. HIDE DEF c
    <3>. QED  BY <3>1, <3>2
  <2>. QED  BY <2>2, <2>3, <2>4 DEF GetDownload
<1>9. /\ Asking(u, c).seg = c.seg /\ Asking(u, c).phase = "asked" /\ Asking(u, c).listed
      /\ Asking(u, c).pos = 0 /\ ~Asking(u, c).file /\ ~Asking(u, c).tainted
  BY DEF Asking, NoDownload
<1>10. dl'[u] = Asking(u, c) /\ \A v \in Users \ {u} : dl'[v] = dl[v]  BY <1>2, <1>8
<1>11. c.seg \in FreshSegments(Resumable) =>
         /\ c.seg \in SegmentType
         /\ \A d \in Resumable : ~Overlaps(c.seg, d)
         /\ \A v \in Listed : ~Overlaps(c.seg, dl[v].seg)
  BY <1>6, <1>7, FreshFact, FreshMeetsNothing
<1>. QED  BY <1>3, <1>4, <1>6, <1>8, <1>9, <1>10, <1>11

LEMMA GetDownloadApart ==
  ASSUME DInv, ~OVERLAP_CHUNKS, NEW u \in Users, GetDownload(u)  PROVE Apart' /\ Listing'
<1>1. /\ dl[u].phase = "none" /\ inFile /\ inUser
      /\ \A v \in Users \ {u} : dl'[v] = dl[v]
      /\ dl'[u].phase = "asked" /\ dl'[u].listed
      /\ \/ dl'[u].seg = NoSegment
         \/ /\ dl'[u].seg \in SegmentType
            /\ \A d \in done' : ~Overlaps(dl'[u].seg, d)
            /\ \A v \in Listed : ~Overlaps(dl'[u].seg, dl[v].seg)
      /\ done' \in {done, {}} /\ ~IsFinished(done')
  BY GetDownloadFact
<1>2. inFile' = inFile /\ inUser' = inUser  BY DEF GetDownload
<1>3. done \in SUBSET SegmentType /\ \A v \in Users : dl[v].seg \in SegmentType \cup {NoSegment}
  BY DEF DInv, IInv, TypeOK, Download
<1>4. \A d \in done' : ~Overlaps(dl'[u].seg, d)  BY <1>1, <1>3, NothingMeets
<1>5. \A v \in Users \ {u} : Active(v) => ~Overlaps(dl'[u].seg, dl[v].seg)
  <2>1. SUFFICES ASSUME NEW v \in Users \ {u}, Active(v)  PROVE ~Overlaps(dl'[u].seg, dl[v].seg)
    OBVIOUS
  <2>2. CASE v \in Listed  BY <1>1, <1>3, <2>2, NothingMeets
  <2>3. CASE v \notin Listed
    <3>1. dl[v].seg = NoSegment  BY <1>1, <2>1, <2>3 DEF Listed, DInv, Listing
    <3>. QED  BY <1>1, <3>1, NothingMeets
  <2>. QED  BY <2>2, <2>3
<1>6. Apart'
  <2>1. \A v \in Users \ {u} : Active(v)' <=> Active(v)  BY <1>1 DEF Active
  <2>. QED  BY <1>1, <1>4, <1>5, <2>1, OverlapsBothWays DEF DInv, Apart
<1>7. Listing'  BY <1>1, <1>2 DEF DInv, Listing, Listed, Active
<1>. QED  BY <1>6, <1>7

\* putDownload: the user's download is gone, the others keep their segments,
\* and the segment added to the finished ones, if any, meets none of theirs.
LEMMA PutApart ==
  ASSUME DInv, NEW u \in Users, dl'[u] = NoDownload,
         \A v \in Users \ {u} : dl'[v].seg = dl[v].seg /\ dl'[v].phase = dl[v].phase,
         \/ done' = done
         \/ \E s \in SegmentType :
              /\ done' = AddSegment(done, s)
              /\ \A v \in Users \ {u} : Active(v) => ~Overlaps(dl[v].seg, s)
  PROVE  Apart'
<1>1. done \in SUBSET SegmentType /\ \A v \in Users : dl[v].seg \in SegmentType \cup {NoSegment}
  BY DEF DInv, IInv, TypeOK, Download
<1>2. ~Active(u)' /\ \A v \in Users \ {u} : Active(v)' <=> Active(v)  BY DEF Active, NoDownload
<1>3. ASSUME NEW v \in Users \ {u}, Active(v), NEW e \in done'
      PROVE  ~Overlaps(dl[v].seg, e)
  <2>1. CASE done' = done  BY <1>3, <2>1 DEF DInv, Apart
  <2>2. ASSUME NEW s \in SegmentType, done' = AddSegment(done, s),
               ~Overlaps(dl[v].seg, s)
        PROVE  ~Overlaps(dl[v].seg, e)
    <3>1. \A d \in done : ~Overlaps(dl[v].seg, d)  BY <1>3 DEF DInv, Apart
    <3>2. e \in SegmentType  BY <1>1, <1>3, <2>2, AddSegmentType
    <3>3. CASE dl[v].seg = NoSegment  BY <3>2, <3>3, NothingMeets
    <3>4. CASE dl[v].seg \in SegmentType  BY <1>1, <1>3, <2>2, <3>1, <3>4, AddSegmentMeets
    <3>. QED  BY <1>1, <3>3, <3>4
  <2>. QED  BY <1>3, <2>1, <2>2
<1>. QED  BY <1>2, <1>3 DEF DInv, Apart

LEMMA PutOrphanApart == ASSUME DInv, NEW u \in Users, PutOrphan(u)  PROVE Apart' /\ Listing'
<1>1. /\ dl' = [dl EXCEPT ![u] = NoDownload] /\ ~inFile
      /\ UNCHANGED <<done, inFile, inUser>>
  BY DEF PutOrphan, queueVars
<1>2. dl'[u] = NoDownload /\ \A v \in Users \ {u} : dl'[v] = dl[v]
  BY <1>1 DEF DInv, IInv, TypeOK
<1>3. Apart'  BY <1>1, <1>2, PutApart
<1>4. Listing'  BY <1>1, <1>2 DEF DInv, Listing, Listed, Active, NoDownload
<1>. QED  BY <1>3, <1>4

\* A download that has all its data and whose item is queued: its segment
\* meets none of the others', is listed, and is none of the finished ones.
LEMMA FinishingFact ==
  ASSUME DInv, NEW u \in Users, dl[u].phase = "finishing", inFile
  PROVE  /\ dl[u].seg \in SegmentType /\ dl[u].listed /\ inUser /\ ~IsFinished(done)
         /\ \A d \in done : ~Overlaps(dl[u].seg, d)
         /\ \A v \in Users \ {u} : Active(v) => ~Overlaps(dl[v].seg, dl[u].seg)
<1>1. dl[u].seg # NoSegment /\ dl[u].seg \in SegmentType
  BY DEF DInv, IInv, TypeOK, Download, DownloadOK
<1>2. Active(u)  BY DEF Active
<1>3. dl[u].listed  BY <1>1, <1>2 DEF DInv, Listing
<1>4. inUser /\ ~IsFinished(done)  BY <1>3 DEF DInv, Listing, Listed
<1>. QED  BY <1>1, <1>2, <1>3, <1>4, OverlapsBothWays DEF DInv, Apart

LEMMA PutSegmentApart == ASSUME DInv, NEW u \in Users, PutSegment(u)  PROVE Apart' /\ Listing'
<1>1. /\ dl' = [dl EXCEPT ![u] = NoDownload] /\ dl[u].phase = "finishing" /\ inFile
      /\ done' = AddSegment(done, dl[u].seg) /\ ~IsFinished(done')
      /\ UNCHANGED <<inFile, inUser>>
  BY DEF PutSegment
<1>2. dl'[u] = NoDownload /\ \A v \in Users \ {u} : dl'[v] = dl[v]
  BY <1>1 DEF DInv, IInv, TypeOK
<1>3. Apart'  BY <1>1, <1>2, FinishingFact, PutApart
<1>4. Listing'  BY <1>1, <1>2, FinishingFact DEF DInv, Listing, Listed, Active, NoDownload
<1>. QED  BY <1>3, <1>4

LEMMA DroppedIs == ASSUME IInv
                   PROVE  \A v \in Users :
                            /\ Dropped[v].seg = dl[v].seg /\ Dropped[v].phase = dl[v].phase
                            /\ Dropped[v].pos = dl[v].pos /\ Dropped[v].file = dl[v].file
                            /\ Dropped[v].tainted = dl[v].tainted
                            /\ Dropped[v].over = dl[v].over /\ ~Dropped[v].listed
<1>1. dl \in [Users -> Download]  BY DEF IInv, TypeOK
<1>. TAKE v \in Users
<1>2. CASE v \in Listed
  <2>1. Dropped[v] = [dl[v] EXCEPT !.listed = FALSE, !.disc = TRUE]  BY <1>2 DEF Dropped
  <2>. QED  BY <1>1, <2>1 DEF Download
<1>3. CASE v \notin Listed  BY <1>3 DEF Dropped, Listed
<1>. QED  BY <1>2, <1>3

\* Once every byte is finished nobody has a byte left to fetch.
LEMMA LastLeavesNothing ==
  ASSUME DInv, NEW u \in Users, PutLastSegment(u)
  PROVE  /\ Apart' /\ Listed' = {} /\ dl'[u] = NoDownload
         /\ \A v \in Users : dl'[v].phase # "none" => dl[v].phase # "none" /\ dl[v].seg = NoSegment
         /\ \A v \in Users : dl'[v].phase # "none" => dl'[v].seg = NoSegment
<1>1. /\ dl' = [Dropped EXCEPT ![u] = NoDownload] /\ dl[u].phase = "finishing" /\ inFile
      /\ done' = AddSegment(done, dl[u].seg) /\ IsFinished(done')
  BY DEF PutLastSegment
<1>2. Dropped \in [Users -> Download]  BY DroppedFact DEF DInv
<1>3. /\ dl'[u] = NoDownload
      /\ \A v \in Users \ {u} : /\ dl'[v].seg = dl[v].seg /\ dl'[v].phase = dl[v].phase
                                /\ ~dl'[v].listed
  BY <1>1, <1>2, DroppedIs DEF DInv
<1>4. Apart'  BY <1>1, <1>3, FinishingFact, PutApart
<1>5. ASSUME NEW v \in Users \ {u}, dl'[v].phase # "none"  PROVE dl'[v].seg = NoSegment
  <2>1. done' = {WholeFile}  BY <1>1 DEF IsFinished
  <2>2. ~Overlaps(dl'[v].seg, WholeFile)  BY <1>4, <1>5, <2>1 DEF Apart, Active
  <2>3. dl[v].seg \in SegmentType \cup {NoSegment} /\ OnBoundary(dl[v].seg)
    BY DEF DInv, IInv, TypeOK, Download, DownloadOK
  <2>4. dl[v].seg \in SegmentType => Overlaps(dl[v].seg, WholeFile)
    BY <2>3, SizeAssumption DEF SegmentType, OnBoundary, Overlaps, WholeFile, Segment, End
  <2>. QED  BY <1>3, <2>2, <2>3, <2>4
<1>6. dl'[u].phase = "none" /\ ~dl'[u].listed  BY <1>3 DEF NoDownload
<1>. QED  BY <1>3, <1>4, <1>5, <1>6 DEF Listed

LEMMA PutLastSegmentApart ==
  ASSUME DInv, NEW u \in Users, PutLastSegment(u)  PROVE Apart' /\ Listing'
<1>1. IsFinished(done') /\ inUser' = FALSE  BY DEF PutLastSegment
<1>2. /\ Apart' /\ Listed' = {}
      /\ \A v \in Users : dl'[v].phase # "none" => dl'[v].seg = NoSegment
  BY LastLeavesNothing
<1>3. \A v \in Users : ~dl'[v].listed  BY <1>2 DEF Listed
<1>. QED  BY <1>1, <1>2, <1>3 DEF Listing, Active

\* What putDownload(d, false) keeps of a download: nothing, or whole blocks
\* from the start of its segment, but never all of it.
LEMMA KeptFact ==
  ASSUME DInv, NEW u \in Users, dl[u].phase = "failing", inFile, Kept(u) > 0
  PROVE  LET s == Segment(dl[u].seg.start, Kept(u)) IN
         /\ s \in SegmentType /\ s.start = dl[u].seg.start /\ s.size = Kept(u)
         /\ dl[u].seg \in SegmentType /\ dl[u].listed /\ inUser
         /\ Kept(u) <= dl[u].pos /\ dl[u].pos < dl[u].seg.size
         /\ \A d \in done : ~Overlaps(dl[u].seg, d) /\ ~Overlaps(s, d)
         /\ \A v \in Users \ {u} : Active(v) => ~Overlaps(dl[v].seg, s)
<1>. DEFINE s == Segment(dl[u].seg.start, Kept(u))
<1>1. dl[u].pos \in Nat /\ dl[u].pos <= dl[u].seg.size
      /\ (dl[u].pos < dl[u].seg.size \/ dl[u].seg = NoSegment)
      /\ dl[u].seg \in SegmentType \cup {NoSegment}
  BY DEF DInv, IInv, TypeOK, Download, DownloadOK
<1>2. Kept(u) \in 0 .. dl[u].pos  BY <1>1, AlignDownFact DEF Kept
<1>3. dl[u].seg # NoSegment  BY <1>1, <1>2 DEF NoSegment, Segment
<1>4. dl[u].seg.start \in Nat /\ dl[u].seg.size \in Nat /\ dl[u].seg \in SegmentType
  BY <1>1, <1>3 DEF SegmentType
<1>5. s \in SegmentType /\ s.start = dl[u].seg.start /\ s.size = Kept(u)
  BY <1>2, <1>4 DEF Segment, SegmentType
<1>6. Active(u)  BY DEF Active
<1>7. dl[u].listed /\ inUser  BY <1>3, <1>6 DEF DInv, Listing, Listed
<1>. HIDE DEF s
<1>8. \A t \in SegmentType \cup {NoSegment} : ~Overlaps(dl[u].seg, t) => ~Overlaps(s, t)
  BY <1>1, <1>2, <1>3, <1>4, <1>5 DEF Overlaps, End, SegmentType, NoSegment, Segment
<1>9. done \in SUBSET SegmentType /\ \A v \in Users : dl[v].seg \in SegmentType \cup {NoSegment}
  BY DEF DInv, IInv, TypeOK, Download
<1>10. \A d \in done : ~Overlaps(dl[u].seg, d) /\ ~Overlaps(s, d)
  BY <1>6, <1>8, <1>9 DEF DInv, Apart
<1>11. \A v \in Users \ {u} : Active(v) => ~Overlaps(dl[v].seg, s)
  BY <1>6, <1>8, <1>9, OverlapsBothWays DEF DInv, Apart
<1>12. s \in SegmentType /\ s.start = dl[u].seg.start /\ s.size = Kept(u)
       /\ dl[u].seg \in SegmentType /\ dl[u].listed /\ inUser
       /\ Kept(u) <= dl[u].pos /\ dl[u].pos < dl[u].seg.size
  BY <1>1, <1>2, <1>3, <1>4, <1>5, <1>7
<1>. QED  BY <1>10, <1>11, <1>12 DEF s

\* A failed download does not finish the file: the end of its segment is
\* nobody else's.
LEMMA KeptDoesNotFinish ==
  ASSUME DInv, NEW u \in Users, dl[u].phase = "failing", inFile, Kept(u) > 0
  PROVE  ~IsFinished(AddSegment(done, Segment(dl[u].seg.start, Kept(u))))
<1>. DEFINE s == Segment(dl[u].seg.start, Kept(u))
            t == Segment(dl[u].seg.start + Kept(u), dl[u].seg.size - Kept(u))
<1>1. /\ s \in SegmentType /\ s.start = dl[u].seg.start /\ s.size = Kept(u)
      /\ dl[u].seg \in SegmentType
      /\ Kept(u) <= dl[u].pos /\ dl[u].pos < dl[u].seg.size
      /\ \A d \in done : ~Overlaps(dl[u].seg, d)
  BY KeptFact
<1>2. dl[u].pos \in Nat /\ OnBoundary(dl[u].seg) /\ done \in SUBSET SegmentType
  BY DEF DInv, IInv, TypeOK, Download, DownloadOK
<1>3. dl[u].seg.start \in Nat /\ dl[u].seg.size \in Nat /\ Kept(u) \in Nat \ {0}
  BY <1>1, <1>2 DEF SegmentType
<1>4. t.start = dl[u].seg.start + Kept(u) /\ End(t) = End(dl[u].seg) /\ t \in SegmentType
  BY <1>1, <1>2, <1>3 DEF Segment, SegmentType, End
<1>. HIDE DEF s, t
<1>5. ~Overlaps(t, s)  BY <1>1, <1>3, <1>4 DEF Overlaps, End
<1>6. \A d \in done : ~Overlaps(t, d)
  BY <1>1, <1>2, <1>3, <1>4 DEF Overlaps, End, SegmentType
<1>7. Overlaps(t, WholeFile)
  BY <1>1, <1>2, <1>3, <1>4, SizeAssumption DEF Overlaps, OnBoundary, WholeFile, Segment, End, SegmentType
<1>8. SUFFICES ASSUME AddSegment(done, s) = {WholeFile}  PROVE FALSE  BY DEF IsFinished, s
<1>. QED  BY <1>1, <1>2, <1>4, <1>5, <1>6, <1>7, <1>8, AddSegmentMeets

LEMMA PutFailedFact ==
  ASSUME IInv, NEW u \in Users, PutFailed(u)
  PROVE  /\ dl[u].phase = "failing" /\ inFile /\ UNCHANGED <<inFile, inUser, fileVars, restarts>>
         /\ dl'[u] = NoDownload
         /\ \A v \in Users \ {u} :
              /\ dl'[v].seg = dl[v].seg /\ dl'[v].phase = dl[v].phase /\ dl'[v].pos = dl[v].pos
              /\ dl'[v].listed = dl[v].listed /\ dl'[v].file = dl[v].file
              /\ dl'[v].tainted = dl[v].tainted /\ dl'[v].over = dl[v].over
              /\ dl'[v].disc = dl[v].disc /\ (dl'[v].overlapped => dl[v].overlapped)
              /\ dl[u].over /\ Overlapped(u) = {v} => ~dl'[v].overlapped
         /\ done' = IF Kept(u) > 0 THEN AddSegment(done, Segment(dl[u].seg.start, Kept(u))) ELSE done
<1>1. dl \in [Users -> Download]  BY DEF IInv, TypeOK
<1>. DEFINE f == [dl EXCEPT ![u] = NoDownload]
<1>2. f \in [Users -> Download] /\ f[u] = NoDownload /\ \A v \in Users \ {u} : f[v] = dl[v]
  BY <1>1, ConstantsFact
<1>3. dl' = f \/ \E w \in Users \ {u} : dl' = [f EXCEPT ![w].overlapped = FALSE]
  BY DEF PutFailed, PutBack, Overlapped, Listed
<1>4. dl[u].over /\ Overlapped(u) # {} =>
        \E w \in Overlapped(u) : dl' = [f EXCEPT ![w].overlapped = FALSE]
  BY DEF PutFailed, PutBack
<1>5. Overlapped(u) \subseteq Users \ {u}  BY DEF Overlapped, Listed
<1>. HIDE DEF f
<1>6. ASSUME NEW v \in Users
      PROVE  /\ dl'[v].seg = f[v].seg /\ dl'[v].phase = f[v].phase
             /\ dl'[v].pos = f[v].pos /\ dl'[v].listed = f[v].listed
             /\ dl'[v].file = f[v].file /\ dl'[v].tainted = f[v].tainted
             /\ dl'[v].over = f[v].over /\ dl'[v].disc = f[v].disc
             /\ dl'[v].overlapped => f[v].overlapped
  BY <1>2, <1>3 DEF Download
<1>7. ASSUME NEW v \in Users \ {u}, dl[u].over, Overlapped(u) = {v}  PROVE ~dl'[v].overlapped
  BY <1>2, <1>4, <1>5, <1>7 DEF Download
<1>8. dl'[u] = NoDownload  BY <1>2, <1>3
<1>9. /\ dl[u].phase = "failing" /\ inFile /\ UNCHANGED <<inFile, inUser, fileVars, restarts>>
      /\ done' = IF Kept(u) > 0 THEN AddSegment(done, Segment(dl[u].seg.start, Kept(u))) ELSE done
  BY DEF PutFailed
<1>10. ASSUME NEW v \in Users \ {u}
       PROVE  /\ dl'[v].seg = dl[v].seg /\ dl'[v].phase = dl[v].phase /\ dl'[v].pos = dl[v].pos
              /\ dl'[v].listed = dl[v].listed /\ dl'[v].file = dl[v].file
              /\ dl'[v].tainted = dl[v].tainted /\ dl'[v].over = dl[v].over
              /\ dl'[v].disc = dl[v].disc /\ (dl'[v].overlapped => dl[v].overlapped)
  BY <1>2, <1>6
<1>. QED  BY <1>7, <1>8, <1>9, <1>10

LEMMA PutFailedApart == ASSUME DInv, NEW u \in Users, PutFailed(u)  PROVE Apart' /\ Listing'
<1>1. /\ dl[u].phase = "failing" /\ inFile /\ UNCHANGED <<inFile, inUser>>
      /\ dl'[u] = NoDownload
      /\ \A v \in Users \ {u} : /\ dl'[v].seg = dl[v].seg /\ dl'[v].phase = dl[v].phase
                                /\ dl'[v].listed = dl[v].listed
      /\ done' = IF Kept(u) > 0 THEN AddSegment(done, Segment(dl[u].seg.start, Kept(u))) ELSE done
  BY PutFailedFact DEF DInv
<1>2. Apart'
  <2>1. CASE Kept(u) > 0  BY <1>1, <2>1, KeptFact, PutApart
  <2>2. CASE ~(Kept(u) > 0)  BY <1>1, <2>2, PutApart
  <2>. QED  BY <2>1, <2>2
<1>3. IsFinished(done') <=> IsFinished(done)
  <2>1. CASE Kept(u) > 0
    <3>1. ~IsFinished(done')  BY <1>1, <2>1, KeptDoesNotFinish
    <3>2. ~IsFinished(done)  BY <1>1, <2>1, KeptFact DEF DInv, Listing
    <3>. QED  BY <3>1, <3>2
  <2>2. CASE ~(Kept(u) > 0)  BY <1>1, <2>2
  <2>. QED  BY <2>1, <2>2
<1>4. Listing'
  <2>1. ~dl'[u].listed /\ dl'[u].phase = "none"  BY <1>1 DEF NoDownload
  <2>2. Listed' \subseteq Listed  BY <1>1, <2>1 DEF Listed
  <2>. QED  BY <1>1, <1>3, <2>1, <2>2 DEF DInv, Listing, Active
<1>. QED  BY <1>2, <1>4

\* remove leaves the downloads what they were, but for two flags.
LEMMA UserRemovesIs ==
  ASSUME IInv, UserRemoves
  PROVE  /\ inFile /\ ~inFile' /\ done' = done /\ restarts' = restarts
         /\ \A v \in Users : /\ dl'[v].seg = dl[v].seg /\ dl'[v].phase = dl[v].phase
                             /\ dl'[v].pos = dl[v].pos /\ dl'[v].file = dl[v].file
                             /\ dl'[v].tainted = dl[v].tainted /\ dl'[v].over = dl[v].over
<1>1. dl \in [Users -> Download]  BY DEF IInv, TypeOK
<1>2. inFile /\ inFile' = FALSE /\ UNCHANGED <<done, restarts>>  BY DEF UserRemoves
<1>3. dl' = Removed  BY DEF UserRemoves
<1>. QED  BY <1>1, <1>2, <1>3, RemovedFact

LEMMA UserRemovesFact ==
  ASSUME DInv, UserRemoves
  PROVE  /\ inFile /\ ~inFile' /\ ~inUser' /\ done' = done /\ restarts' = restarts
         /\ \A v \in Users : /\ dl'[v].seg = dl[v].seg /\ dl'[v].phase = dl[v].phase
                             /\ dl'[v].pos = dl[v].pos /\ dl'[v].file = dl[v].file
                             /\ dl'[v].tainted = dl[v].tainted /\ ~dl'[v].listed
<1>1. dl \in [Users -> Download]  BY DEF DInv, IInv, TypeOK
<1>2. ~inUser' /\ \A v \in Users : ~dl'[v].listed
  <2>1. /\ inUser' = (inUser /\ IsFinished(done))
        /\ \A v \in Users : dl'[v].listed = (dl[v].listed /\ IsFinished(done))
    BY <1>1, RemovedFact DEF UserRemoves
  <2>2. IsFinished(done) => ~inUser /\ Listed = {}  BY DEF DInv, Listing
  <2>. QED  BY <2>1, <2>2 DEF Listed
<1>. QED  BY <1>2, UserRemovesIs DEF DInv

LEMMA UserRemovesApart == ASSUME DInv, UserRemoves  PROVE Apart' /\ Listing'
<1>1. /\ ~inFile' /\ ~inUser' /\ done' = done
      /\ \A v \in Users : /\ dl'[v].seg = dl[v].seg /\ dl'[v].phase = dl[v].phase
                          /\ ~dl'[v].listed
  BY UserRemovesFact
<1>. QED  BY <1>1 DEF DInv, Apart, Listing, Active, Listed

LEMMA RestartApart == ASSUME DInv, Restart  PROVE Apart' /\ Listing'
<1>1. /\ dl' = [u \in Users |-> NoDownload] /\ done' = saved.done
      /\ inFile' = saved.queued /\ inUser' = QueuedAgain
  BY DEF Restart
<1>2. \A u \in Users : dl'[u].phase = "none" /\ ~dl'[u].listed  BY <1>1 DEF NoDownload
<1>3. inUser' <=> inFile' /\ ~IsFinished(done')  BY <1>1 DEF QueuedAgain
<1>. QED  BY <1>2, <1>3 DEF Apart, Listing, Active, Listed

LEMMA DataStep == ASSUME DInv, ~OVERLAP_CHUNKS, [Next]_vars  PROVE DInv'
<1>1. IInv'  BY StepPreserves DEF DInv
<1>2. ASSUME NEW u \in Users, UserNext(u)  PROVE Apart' /\ Listing'
  BY <1>2, GetDownloadApart, QuietKeeps, PutOrphanApart, PutSegmentApart, PutLastSegmentApart,
     PutFailedApart DEF UserNext
<1>3. ASSUME UserRemoves \/ Restart  PROVE Apart' /\ Listing'
  BY <1>3, UserRemovesApart, RestartApart
<1>4. ASSUME RunMover \/ LoseTemp \/ SaveQueue \/ UNCHANGED vars  PROVE Apart' /\ Listing'
  <2>1. UNCHANGED <<dl, done, inFile, inUser>>
    BY <1>4 DEF RunMover, LoseTemp, SaveQueue, vars, queueVars
  <2>2. SameWork  BY <2>1 DEF SameWork
  <2>. QED  BY <2>2, SameWorkKeeps DEF DInv
<1>. QED  BY <1>1, <1>2, <1>3, <1>4 DEF Next, DInv

LEMMA DataInit == Init => DInv
<1>. SUFFICES ASSUME Init PROVE DInv  OBVIOUS
<1>1. IInv  BY InitEstablishes
<1>2. \A u \in Users : dl[u].phase = "none" /\ ~dl[u].listed  BY DEF Init, NoDownload
<1>3. done = {} /\ inFile /\ inUser  BY DEF Init
<1>. QED  BY <1>1, <1>2, <1>3 DEF DInv, Apart, Listing, Active, Listed, IsFinished

LEMMA DataInvariance == Spec => [](~OVERLAP_CHUNKS => DInv)
<1>1. Init => (~OVERLAP_CHUNKS => DInv)  BY DataInit
<1>2. (~OVERLAP_CHUNKS => DInv) /\ [Next]_vars => (~OVERLAP_CHUNKS => DInv)'  BY DataStep
<1>. QED  BY <1>1, <1>2, PTL DEF Spec

\* Without OVERLAP_CHUNKS no byte is downloaded twice and none that is
\* finished is downloaded: getNextSegment sees every running download, as
\* QueueItem::downloads holds each of them until putDownload takes it out.
THEOREM NoByteTwice == Spec => []RunningDisjoint
<1>1. (~OVERLAP_CHUNKS => DInv) => RunningDisjoint
  BY DEF DInv, Apart, Listing, RunningDisjoint, Listed
<1>. QED  BY <1>1, DataInvariance, PTL

\* The item is under its sources in userQueue exactly while it is queued and
\* unfinished, and putDownload never takes it out a second time.
THEOREM QueuedUnderItsSources == Spec => [](~OVERLAP_CHUNKS => UserQueueMatches)
<1>1. DInv => UserQueueMatches
  <2>. SUFFICES ASSUME DInv PROVE UserQueueMatches  OBVIOUS
  <2>1. inUser <=> inFile /\ ~IsFinished(done)  BY DEF DInv, Listing
  <2>2. \A u \in Users : dl[u].phase = "finishing" /\ inFile => inUser  BY FinishingFact
  <2>. QED  BY <2>1, <2>2 DEF UserQueueMatches
<1>2. (~OVERLAP_CHUNKS => DInv) => (~OVERLAP_CHUNKS => UserQueueMatches)  BY <1>1
<1>. QED  BY <1>2, DataInvariance, PTL

-----------------------------------------------------------------------------
(* Finished bytes stay finished.                                           *)

\* Finished bytes stay finished, whatever downloads fail or are dropped: the
\* segments addSegment is given meet no finished one, and getDownload forgets
\* the finished ones only without a temporary file.
THEOREM FinishedStaysFinished == ASSUME ~OVERLAP_CHUNKS  PROVE Spec => DoneMonotone
<1>. DEFINE Grows == Covered(done) \subseteq Covered(done') \/ ~temp \/ restarts' # restarts
<1>1. DInv /\ [Next]_vars => [Grows]_vars
  <2>. SUFFICES ASSUME DInv, [Next]_vars  PROVE Grows  OBVIOUS
  <2>0. done \in SUBSET SegmentType /\ Consolidated(done) /\ restarts \in Nat
    BY LimitAssumption DEF DInv, IInv, TypeOK, DoneOK
  <2>1. ASSUME NEW u \in Users, GetDownload(u)  PROVE Grows  BY <2>1, GetDownloadFact
  <2>2. ASSUME NEW u \in Users, PutSegment(u) \/ PutLastSegment(u)  PROVE Grows
    <3>1. dl[u].phase = "finishing" /\ inFile /\ done' = AddSegment(done, dl[u].seg)
      BY <2>2 DEF PutSegment, PutLastSegment
    <3>. QED  BY <2>0, <3>1, FinishingFact, AddSegmentKeepsBytes
  <2>3. ASSUME NEW u \in Users, PutFailed(u)  PROVE Grows
    <3>1. /\ dl[u].phase = "failing" /\ inFile
          /\ done' = IF Kept(u) > 0 THEN AddSegment(done, Segment(dl[u].seg.start, Kept(u))) ELSE done
      BY <2>3 DEF PutFailed
    <3>2. CASE Kept(u) > 0  BY <2>0, <3>1, <3>2, KeptFact, AddSegmentKeepsBytes
    <3>3. CASE ~(Kept(u) > 0)  BY <3>1, <3>3
    <3>. QED  BY <3>2, <3>3
  <2>4. CASE Restart  BY <2>0, <2>4 DEF Restart
  <2>5. ASSUME done' = done  PROVE Grows  BY <2>5
  <2>6. ASSUME NEW u \in Users, \/ StartData(u) \/ Receive(u) \/ ConnectionFails(u)
                               \/ PutOrphan(u) \/ RemoveDisconnects(u)
        PROVE  done' = done
    BY <2>6 DEF StartData, Receive, ConnectionFails, PutOrphan, RemoveDisconnects, queueVars
  <2>7. ASSUME RunMover \/ UserRemoves \/ LoseTemp \/ SaveQueue \/ UNCHANGED vars
        PROVE  done' = done
    BY <2>7 DEF RunMover, UserRemoves, LoseTemp, SaveQueue, vars, queueVars
  <2>. QED  BY <2>1, <2>2, <2>3, <2>4, <2>5, <2>6, <2>7 DEF Next, UserNext
<1>2. Spec => []DInv
  <2>1. (~OVERLAP_CHUNKS => DInv) => DInv  OBVIOUS
  <2>. QED  BY <2>1, DataInvariance, PTL
<1>. QED  BY <1>1, <1>2, PTL DEF Spec, DoneMonotone
-----------------------------------------------------------------------------
(***************************************************************************)
(* Two downloads of the same bytes, which OVERLAP_CHUNKS allows: a faster  *)
(* user is given the tail of a slow download and takes over when its data  *)
(* starts.  The promise is made for two users.  With a third it is not     *)
(* kept: setFile disconnects one download that holds the tail, and         *)
(* putDownload unmarks one, and neither has to be the one getNextSegment   *)
(* chose.                                                                  *)
(*                                                                         *)
(* The invariant follows the hand-over.  A download that waits for its     *)
(* data either meets nobody or is marked (AskedApart); the mark is gone,   *)
(* or the slow download told, by the time the file is open twice           *)
(* (TakenOver).                                                            *)
(***************************************************************************)
AtMostTwo == \A u, v, w \in Users : u = v \/ u = w \/ v = w

Handled ==
  \A u \in Users :
    /\ dl[u].listed => dl[u].phase # "none"
    /\ dl[u].phase = "asked" => ~dl[u].file
    /\ dl[u].phase \in {"running", "finishing"} => dl[u].file
    /\ dl[u].over => dl[u].seg \in SegmentType

AskedApart ==
  \A u, v \in Listed : u # v /\ dl[u].phase = "asked" /\ ~dl[u].overlapped
                         => ~Overlaps(dl[u].seg, dl[v].seg)

TakenOver ==
  \A u, v \in Listed : u # v /\ dl[u].file /\ dl[v].file /\ dl[v].overlapped => dl[v].disc

Pairs == AskedApart /\ TakenOver /\ OverlapResolved /\ OverlapMarkBacked

OInv == IInv /\ Handled /\ Pairs

\* Two segments that end together have a byte in common.
LEMMA ContainsMeets == ASSUME NEW s \in SegmentType \cup {NoSegment}, NEW t \in SegmentType,
                              Contains(s, t)
                       PROVE  Overlaps(s, t) /\ Overlaps(t, s)
BY DEF SegmentType, NoSegment, Segment, Contains, Overlaps, End

\* Nothing is said of pairs while nobody is listed, or only one.
LEMMA FewListed == ASSUME \A v, w \in Listed' : v = w,
                          inFile' => \A v \in Listed' :
                                       dl'[v].overlapped /\ dl'[v].file => dl'[v].disc
                   PROVE  Pairs'
<1>1. AskedApart' /\ TakenOver' /\ OverlapResolved'
  BY DEF AskedApart, TakenOver, OverlapResolved
<1>2. OverlapMarkBacked'  BY DEF OverlapMarkBacked, Listed
<1>. QED  BY <1>1, <1>2 DEF Pairs

\* What getDownload hands out when two users are about: bytes nobody fetches,
\* or the tail of the other user's download, which is marked.
LEMMA GetDownloadShape ==
  ASSUME OInv, AtMostTwo, NEW u \in Users, GetDownload(u)
  PROVE  /\ u \notin Listed /\ inFile /\ inFile'
         /\ dl'[u].phase = "asked" /\ ~dl'[u].file /\ dl'[u].listed
         /\ dl'[u].over => dl'[u].seg \in SegmentType
         /\ \A v \in Users \ {u} :
              /\ dl'[v].phase = dl[v].phase /\ dl'[v].file = dl[v].file /\ dl'[v].seg = dl[v].seg
              /\ dl'[v].over = dl[v].over /\ dl'[v].listed = dl[v].listed
              /\ dl'[v].disc = dl[v].disc
         /\ \/ /\ \A v \in Listed : dl'[v] = dl[v] /\ ~Overlaps(dl'[u].seg, dl[v].seg)
            \/ /\ dl'[u].overlapped /\ dl'[u].over
               /\ \A v \in Listed : dl[v].file /\ Contains(dl[v].seg, dl'[u].seg)
<1>1. dl \in [Users -> Download] /\ done \in SUBSET SegmentType /\ SegmentsOK(done)
  BY DEF OInv, IInv, TypeOK, DoneOK, SegmentsOK
<1>2. Resumable \in SUBSET SegmentType /\ SegmentsOK(Resumable)
  BY <1>1 DEF Resumable, SegmentsOK, Consolidated
<1>3. dl[u].phase = "none" /\ inFile /\ inFile' = inFile  BY DEF GetDownload
<1>4. u \notin Listed  BY <1>3 DEF OInv, Handled, Listed
<1>5. \A c : /\ Asking(u, c).phase = "asked" /\ ~Asking(u, c).file /\ Asking(u, c).listed
             /\ Asking(u, c).seg = c.seg /\ Asking(u, c).over = c.overlap
             /\ Asking(u, c).overlapped = c.overlap
  BY DEF Asking, NoDownload
<1>. DEFINE Fresh == \E c : /\ dl' = [dl EXCEPT ![u] = Asking(u, c)] /\ c.overlap = FALSE
                            /\ \A v \in Listed : ~Overlaps(c.seg, dl[v].seg)
            Tail  == \E c : \E v \in Listed :
                       /\ dl' = [dl EXCEPT ![u] = Asking(u, c), ![v].overlapped = TRUE]
                       /\ c.overlap = TRUE /\ c.seg \in SegmentType
                       /\ Contains(dl[v].seg, c.seg) /\ \E w \in Listed : dl[w].file
<1>6. Fresh \/ Tail
  <2>1. ASSUME NEW c \in NextSegments(Resumable), ~c.overlap,
               dl' = [dl EXCEPT ![u] = Asking(u, c)]
        PROVE  Fresh
    <3>1. c.overlap = FALSE  BY <1>2, <2>1, NextSegmentsFact DEF OInv
    <3>2. c.seg \in FreshSegments(Resumable)  BY <2>1 DEF NextSegments
    <3>. QED  BY <1>2, <2>1, <3>1, <3>2, FreshMeetsNoRunning
  <2>2. ASSUME NEW c \in NextSegments(Resumable), c.overlap, NEW v \in Listed,
               Contains(dl[v].seg, c.seg),
               dl' = [dl EXCEPT ![u] = Asking(u, c), ![v].overlapped = TRUE]
        PROVE  Tail
    <3>1. c.overlap = TRUE /\ c.seg \in SegmentType  BY <1>2, <2>2, NextSegmentsFact DEF OInv
    <3>2. c.seg \in SlowTails(Resumable)  BY <2>2 DEF NextSegments
    <3>3. \E w \in Listed : dl[w].file  BY <3>2 DEF SlowTails, Slow
    <3>. QED  BY <2>2, <3>1, <3>3
  <2>3. ASSUME dl' = [dl EXCEPT ![u] = Asking(u, [seg |-> NoSegment, overlap |-> FALSE])]
        PROVE  Fresh
    <3>. DEFINE c == [seg |-> NoSegment, overlap |-> FALSE]
    <3>1. c.seg = NoSegment /\ c.overlap = FALSE /\ dl' = [dl EXCEPT ![u] = Asking(u, c)]  BY <2>3
    <3>2. \A v \in Listed : dl[v].seg \in SegmentType \cup {NoSegment}  BY <1>1 DEF Listed, Download
    <3>. HIDE DEF c
    <3>. QED  BY <3>1, <3>2, NothingMeets
  <2>. QED  BY <2>1, <2>2, <2>3 DEF GetDownload
<1>7. CASE Fresh
  <2>1. PICK c : /\ dl' = [dl EXCEPT ![u] = Asking(u, c)] /\ c.overlap = FALSE
                 /\ \A v \in Listed : ~Overlaps(c.seg, dl[v].seg)
    BY <1>7
  <2>2. dl'[u] = Asking(u, c) /\ \A v \in Users \ {u} : dl'[v] = dl[v]  BY <1>1, <2>1
  <2>3. Listed \subseteq Users \ {u}  BY <1>4 DEF Listed
  <2>. QED  BY <1>3, <1>4, <1>5, <2>1, <2>2, <2>3
<1>8. CASE Tail
  <2>1. PICK c : \E v \in Listed :
                   /\ dl' = [dl EXCEPT ![u] = Asking(u, c), ![v].overlapped = TRUE]
                   /\ c.overlap = TRUE /\ c.seg \in SegmentType
                   /\ Contains(dl[v].seg, c.seg) /\ \E w \in Listed : dl[w].file
    BY <1>8
  <2>2. PICK v \in Listed : /\ dl' = [dl EXCEPT ![u] = Asking(u, c), ![v].overlapped = TRUE]
                            /\ c.overlap = TRUE /\ c.seg \in SegmentType
                            /\ Contains(dl[v].seg, c.seg) /\ \E w \in Listed : dl[w].file
    BY <2>1
  <2>3. Listed = {v} /\ v # u /\ v \in Users  BY <1>4, <2>2 DEF AtMostTwo, Listed
  <2>4. dl'[u] = Asking(u, c)  BY <1>1, <2>2, <2>3
  <2>5. \A w \in Users \ {u} :
          /\ dl'[w].phase = dl[w].phase /\ dl'[w].file = dl[w].file /\ dl'[w].seg = dl[w].seg
          /\ dl'[w].over = dl[w].over /\ dl'[w].listed = dl[w].listed
          /\ dl'[w].disc = dl[w].disc
    BY <1>1, <2>2, <2>3 DEF Download
  <2>6. /\ dl'[u].overlapped /\ dl'[u].over /\ dl'[u].seg \in SegmentType
        /\ dl'[u].phase = "asked" /\ ~dl'[u].file /\ dl'[u].listed
    BY <1>5, <2>2, <2>4
  <2>7. \A w \in Listed : dl[w].file /\ Contains(dl[w].seg, dl'[u].seg)
    BY <1>5, <2>2, <2>3, <2>4
  <2>. QED  BY <1>3, <1>4, <2>5, <2>6, <2>7
<1>. QED  BY <1>6, <1>7, <1>8

LEMMA GetDownloadOver == ASSUME OInv, AtMostTwo, NEW u \in Users, GetDownload(u)
                         PROVE  Handled' /\ Pairs'
<1>1. /\ u \notin Listed /\ inFile /\ inFile'
      /\ dl'[u].phase = "asked" /\ ~dl'[u].file /\ dl'[u].listed
      /\ dl'[u].over => dl'[u].seg \in SegmentType
      /\ \A v \in Users \ {u} :
           /\ dl'[v].phase = dl[v].phase /\ dl'[v].file = dl[v].file /\ dl'[v].seg = dl[v].seg
           /\ dl'[v].over = dl[v].over /\ dl'[v].listed = dl[v].listed
           /\ dl'[v].disc = dl[v].disc
      /\ \/ /\ \A v \in Listed : dl'[v] = dl[v] /\ ~Overlaps(dl'[u].seg, dl[v].seg)
         \/ /\ dl'[u].overlapped /\ dl'[u].over
            /\ \A v \in Listed : dl[v].file /\ Contains(dl[v].seg, dl'[u].seg)
  BY GetDownloadShape
<1>2. Handled'  BY <1>1 DEF OInv, Handled
<1>3. Listed' = Listed \cup {u} /\ Listed \subseteq Users \ {u}  BY <1>1 DEF Listed
<1>4. \A v, w \in Listed : v = w  BY <1>3 DEF AtMostTwo
<1>5. AskedApart'
  <2>1. SUFFICES ASSUME NEW v \in Listed', NEW w \in Listed', v # w,
                        dl'[v].phase = "asked", ~dl'[v].overlapped
                 PROVE  ~Overlaps(dl'[v].seg, dl'[w].seg)
    BY DEF AskedApart
  <2>2. CASE v = u
    <3>1. w \in Listed  BY <1>3, <2>1, <2>2
    <3>. QED  BY <1>1, <2>1, <2>2, <3>1
  <2>3. CASE v # u
    <3>1. v \in Listed /\ w = u /\ v \in Users \ {u}  BY <1>3, <1>4, <2>1, <2>3
    <3>2. ~dl[v].file  BY <1>1, <2>1, <3>1 DEF OInv, Handled
    <3>3. ~Overlaps(dl'[u].seg, dl[v].seg)  BY <1>1, <3>1, <3>2
    <3>. QED  BY <1>1, <3>1, <3>3, OverlapsBothWays
  <2>. QED  BY <2>2, <2>3
<1>6. TakenOver' /\ OverlapResolved'
  <2>1. \A v, w \in Listed' : v # w => ~(dl'[v].file /\ dl'[w].file)  BY <1>1, <1>3, <1>4
  <2>. QED  BY <2>1 DEF TakenOver, OverlapResolved
<1>7. OverlapMarkBacked'
  <2>1. SUFFICES ASSUME NEW v \in Listed', dl'[v].overlapped, dl'[v].file, ~dl'[v].disc
                 PROVE  \E w \in Listed' \ {v} : dl'[w].over /\ Contains(dl'[v].seg, dl'[w].seg)
    BY DEF OverlapMarkBacked
  <2>2. v \in Listed /\ v \in Users \ {u}  BY <1>1, <1>3, <2>1
  <2>3. ASSUME \A x \in Listed : dl'[x] = dl[x] /\ ~Overlaps(dl'[u].seg, dl[x].seg)
        PROVE  FALSE
    <3>1. \E w \in Listed \ {v} : TRUE  BY <1>1, <2>1, <2>2, <2>3 DEF OInv, Pairs, OverlapMarkBacked
    <3>. QED  BY <1>4, <2>2, <3>1
  <2>4. dl'[u].over /\ Contains(dl'[v].seg, dl'[u].seg)  BY <1>1, <2>2, <2>3
  <2>. QED  BY <1>3, <2>2, <2>4
<1>. QED  BY <1>2, <1>5, <1>6, <1>7 DEF Pairs

\* What startData does to the downloads, the marks and the disconnects.
LEMMA StartDataShape ==
  ASSUME IInv, NEW u \in Users, StartData(u)
  PROVE  /\ dl[u].phase = "asked" /\ UNCHANGED inFile
         /\ \A v \in Users :
              /\ dl'[v].seg = dl[v].seg /\ dl'[v].over = dl[v].over /\ dl'[v].listed = dl[v].listed
              /\ dl[v].disc => dl'[v].disc
              /\ v # u => /\ dl'[v].phase = dl[v].phase /\ dl'[v].file = dl[v].file
                          /\ dl'[v].overlapped = dl[v].overlapped
         /\ ~dl'[u].overlapped
         /\ \/ dl'[u].phase = "failing" /\ dl'[u].file = dl[u].file
            \/ /\ dl'[u].phase \in {"running", "failing"} /\ dl'[u].file /\ inFile
               /\ ~dl[u].overlapped \/ \E v \in Overlapped(u) : dl'[v].disc
<1>1. dl \in [Users -> Download]  BY DEF IInv, TypeOK
<1>2. dl[u].phase = "asked" /\ inFile' = inFile  BY DEF StartData, queueVars
<1>. DEFINE Alike(f) == \A v \in Users :
              /\ f[v].seg = dl[v].seg /\ f[v].over = dl[v].over /\ f[v].listed = dl[v].listed
              /\ dl[v].disc => f[v].disc
              /\ f[v].phase = dl[v].phase /\ f[v].file = dl[v].file
              /\ f[v].overlapped = dl[v].overlapped
<1>3. \E f \in [Users -> Download] :
        /\ Alike(f)
        /\ \/ StartFails(f, u)
           \/ OpenTemp(f, u) /\ inFile /\ (~dl[u].overlapped \/ \E v \in Overlapped(u) : f[v].disc)
  <2>1. CASE StartFails(dl, u)  BY <1>1, <2>1
  <2>2. CASE OpenTemp(dl, u) /\ inFile /\ ~dl[u].overlapped  BY <1>1, <2>2
  <2>3. ASSUME NEW w \in Overlapped(u), OpenTemp(Disconnect(w), u), inFile, dl[u].overlapped
        PROVE  \E f \in [Users -> Download] :
                 /\ Alike(f)
                 /\ OpenTemp(f, u) /\ inFile /\ (~dl[u].overlapped \/ \E v \in Overlapped(u) : f[v].disc)
    <3>. DEFINE f == Disconnect(w)
    <3>1. w \in Users /\ f = [dl EXCEPT ![w].disc = TRUE]
      BY <2>3 DEF Disconnect, Overlapped, Listed
    <3>2. f \in [Users -> Download] /\ f[w].disc  BY <1>1, <3>1 DEF Download
    <3>3. Alike(f)  BY <1>1, <3>1 DEF Download
    <3>. QED  BY <2>3, <3>2, <3>3
  <2>. QED  BY <2>1, <2>2, <2>3 DEF StartData
<1>4. PICK f \in [Users -> Download] :
        /\ Alike(f)
        /\ \/ StartFails(f, u)
           \/ OpenTemp(f, u) /\ inFile /\ (~dl[u].overlapped \/ \E v \in Overlapped(u) : f[v].disc)
  BY <1>3
<1>. DEFINE Rest == \A v \in Users :
              /\ dl'[v].seg = f[v].seg /\ dl'[v].over = f[v].over /\ dl'[v].listed = f[v].listed
              /\ dl'[v].disc = f[v].disc
              /\ v # u => /\ dl'[v].phase = f[v].phase /\ dl'[v].file = f[v].file
                          /\ dl'[v].overlapped = f[v].overlapped
<1>5. CASE StartFails(f, u)
  <2>1. dl' = [f EXCEPT ![u].phase = "failing", ![u].overlapped = FALSE]
    BY <1>5 DEF StartFails
  <2>2. Rest  BY <2>1 DEF Download
  <2>3. dl'[u].phase = "failing" /\ ~dl'[u].overlapped /\ dl'[u].file = f[u].file
    BY <2>1 DEF Download
  <2>. QED  BY <1>2, <1>4, <2>2, <2>3
<1>6. CASE /\ OpenTemp(f, u) /\ inFile /\ ~StartFails(f, u)
           /\ ~dl[u].overlapped \/ \E v \in Overlapped(u) : f[v].disc
  <2>. DEFINE ph == IF f[u].seg.size = 0 THEN "failing" ELSE "running"
  <2>1. dl' = [f EXCEPT ![u].phase = ph, ![u].file = TRUE, ![u].overlapped = FALSE]
    BY <1>6 DEF OpenTemp
  <2>2. ph \in {"failing", "running"}  OBVIOUS
  <2>. HIDE DEF ph
  <2>3. Rest  BY <2>1 DEF Download
  <2>4. dl'[u].phase = ph /\ ~dl'[u].overlapped /\ dl'[u].file  BY <2>1 DEF Download
  <2>5. ~dl[u].overlapped \/ \E v \in Overlapped(u) : dl'[v].disc
    BY <1>6, <2>3 DEF Overlapped, Listed
  <2>. QED  BY <1>2, <1>4, <1>6, <2>2, <2>3, <2>4, <2>5
<1>. QED  BY <1>4, <1>5, <1>6

LEMMA StartDataOver == ASSUME OInv, AtMostTwo, NEW u \in Users, StartData(u)
                       PROVE  Handled' /\ Pairs'
<1>1. /\ dl[u].phase = "asked" /\ inFile' = inFile
      /\ \A v \in Users :
           /\ dl'[v].seg = dl[v].seg /\ dl'[v].over = dl[v].over /\ dl'[v].listed = dl[v].listed
           /\ dl[v].disc => dl'[v].disc
           /\ v # u => /\ dl'[v].phase = dl[v].phase /\ dl'[v].file = dl[v].file
                       /\ dl'[v].overlapped = dl[v].overlapped
      /\ ~dl'[u].overlapped
      /\ \/ dl'[u].phase = "failing" /\ dl'[u].file = dl[u].file
         \/ /\ dl'[u].phase \in {"running", "failing"} /\ dl'[u].file /\ inFile
            /\ ~dl[u].overlapped \/ \E v \in Overlapped(u) : dl'[v].disc
  BY StartDataShape DEF OInv
<1>2. Handled'  BY <1>1 DEF OInv, Handled
<1>3. Listed' = Listed /\ Listed \subseteq Users  BY <1>1 DEF Listed
<1>4. AskedApart'  BY <1>1, <1>3 DEF OInv, Pairs, AskedApart
\* u opens the file: the other listed user is told, or meets u nowhere
<1>5. ASSUME u \in Listed, NEW v \in Listed, v # u, dl'[u].file
      PROVE  dl'[v].disc \/ (~Overlaps(dl[u].seg, dl[v].seg) /\ ~dl[v].overlapped) \/ ~dl[v].file
  <2>1. ~dl[u].file  BY <1>1 DEF OInv, Handled
  <2>2. inFile /\ (~dl[u].overlapped \/ \E w \in Overlapped(u) : dl'[w].disc)  BY <1>1, <1>5, <2>1
  <2>3. \A w \in Listed : w = u \/ w = v  BY <1>3, <1>5 DEF AtMostTwo
  <2>4. CASE \E w \in Overlapped(u) : dl'[w].disc  BY <2>3, <2>4 DEF Overlapped
  <2>5. CASE ~dl[u].overlapped
    <3>1. ~Overlaps(dl[u].seg, dl[v].seg)  BY <1>1, <1>5, <2>5 DEF OInv, Pairs, AskedApart
    <3>2. ASSUME dl[v].overlapped, dl[v].file, ~dl[v].disc  PROVE FALSE
      <4>1. dl[u].over /\ Contains(dl[v].seg, dl[u].seg)
        BY <1>5, <2>2, <2>3, <3>2 DEF OInv, Pairs, OverlapMarkBacked
      <4>2. dl[u].seg \in SegmentType /\ dl[v].seg \in SegmentType \cup {NoSegment}
        BY <1>3, <1>5, <4>1 DEF OInv, Handled, IInv, TypeOK, Download
      <4>. QED  BY <3>1, <4>1, <4>2, ContainsMeets
    <3>. QED  BY <1>1, <1>3, <1>5, <3>1, <3>2
  <2>. QED  BY <2>2, <2>4, <2>5
<1>6. TakenOver'
  <2>1. SUFFICES ASSUME NEW v \in Listed, NEW w \in Listed, v # w,
                        dl'[v].file, dl'[w].file, dl'[w].overlapped
                 PROVE  dl'[w].disc
    BY <1>3 DEF TakenOver
  <2>2. w # u /\ dl[w].file /\ dl[w].overlapped  BY <1>1, <1>3, <2>1
  <2>3. CASE v = u  BY <1>5, <2>1, <2>2, <2>3
  <2>4. CASE v # u
    <3>1. dl[v].file /\ dl[w].file  BY <1>1, <1>3, <2>1, <2>2, <2>4
    <3>2. dl[w].disc  BY <2>1, <2>2, <3>1 DEF OInv, Pairs, TakenOver
    <3>. QED  BY <1>1, <1>3, <3>2
  <2>. QED  BY <2>3, <2>4
<1>7. OverlapResolved'
  <2>1. SUFFICES ASSUME NEW v \in Listed, NEW w \in Listed, v # w,
                        dl'[v].file, dl'[w].file, Overlaps(dl[v].seg, dl[w].seg)
                 PROVE  dl'[v].disc \/ dl'[w].disc
    BY <1>1, <1>3 DEF OverlapResolved
  <2>2. CASE v = u
    <3>1. dl[w].file  BY <1>1, <1>3, <2>1, <2>2
    <3>. QED  BY <1>5, <2>1, <2>2, <3>1
  <2>3. CASE w = u
    <3>1. dl[v].file  BY <1>1, <1>3, <2>1, <2>3
    <3>. QED  BY <1>5, <2>1, <2>3, <3>1, OverlapsBothWays
  <2>4. CASE v # u /\ w # u
    <3>1. dl[v].file /\ dl[w].file  BY <1>1, <1>3, <2>1, <2>4
    <3>2. dl[v].disc \/ dl[w].disc  BY <2>1, <3>1 DEF OInv, Pairs, OverlapResolved
    <3>. QED  BY <1>1, <1>3, <3>2
  <2>. QED  BY <2>2, <2>3, <2>4
<1>8. OverlapMarkBacked'
  <2>1. SUFFICES ASSUME inFile', NEW v \in Listed, dl'[v].overlapped, dl'[v].file, ~dl'[v].disc
                 PROVE  \E w \in Listed \ {v} : dl[w].over /\ Contains(dl[v].seg, dl[w].seg)
    BY <1>1, <1>3 DEF OverlapMarkBacked
  <2>2. inFile /\ dl[v].overlapped /\ dl[v].file /\ ~dl[v].disc  BY <1>1, <1>3, <2>1
  <2>. QED  BY <2>2 DEF OInv, Pairs, OverlapMarkBacked
<1>. QED  BY <1>2, <1>4, <1>6, <1>7, <1>8 DEF Pairs

\* A byte arrives, or the connection fails: nothing of the hand-over changes.
LEMMA QuietOver ==
  ASSUME OInv, NEW u \in Users, Receive(u) \/ ConnectionFails(u) \/ RemoveDisconnects(u)
  PROVE  Handled' /\ Pairs'
<1>1. /\ \A v \in Users :
           /\ dl'[v].seg = dl[v].seg /\ dl'[v].over = dl[v].over /\ dl'[v].listed = dl[v].listed
           /\ dl'[v].file = dl[v].file /\ (dl[v].disc => dl'[v].disc)
           /\ dl'[v].overlapped = dl[v].overlapped
           /\ dl'[v].phase # dl[v].phase =>
                \/ dl'[v].phase = "failing"
                \/ dl'[v].phase \in {"running", "finishing"} /\ dl[v].phase = "running"
      /\ UNCHANGED inFile
  <2>1. CASE Receive(u)
    <3>1. UNCHANGED inFile  BY <2>1 DEF Receive, queueVars
    <3>2. dl'[u].phase \in {"failing", "running", "finishing"} /\ dl[u].phase = "running"
      BY <2>1, ReceiveFact DEF OInv
    <3>3. \A v \in Users : /\ dl'[v].seg = dl[v].seg /\ dl'[v].listed = dl[v].listed
                           /\ dl'[v].file = dl[v].file /\ dl'[v].disc = dl[v].disc
                           /\ dl'[v].over = dl[v].over /\ dl'[v].overlapped = dl[v].overlapped
                           /\ v # u => dl'[v] = dl[v]
      BY <2>1, ReceiveFact DEF OInv
    <3>. QED  BY <3>1, <3>2, <3>3
  <2>2. CASE ConnectionFails(u)
    <3>1. UNCHANGED inFile  BY <2>2 DEF ConnectionFails, queueVars
    <3>. QED  BY <2>2, <3>1, ConnectionFailsFact DEF OInv
  <2>3. CASE RemoveDisconnects(u)
    <3>1. dl \in [Users -> Download]  BY DEF OInv, IInv, TypeOK
    <3>. QED  BY <2>3, <3>1, RemoveDisconnectsFact
  <2>. QED  BY <2>1, <2>2, <2>3
<1>2. Listed' = Listed /\ Listed \subseteq Users  BY <1>1 DEF Listed
<1>3. Handled'  BY <1>1 DEF OInv, Handled
<1>4. AskedApart'  BY <1>1, <1>2 DEF OInv, Pairs, AskedApart
<1>5. TakenOver'  BY <1>1, <1>2 DEF OInv, Pairs, TakenOver
<1>6. OverlapResolved'  BY <1>1, <1>2 DEF OInv, Pairs, OverlapResolved
<1>7. OverlapMarkBacked'  BY <1>1, <1>2 DEF OInv, Pairs, OverlapMarkBacked
<1>. QED  BY <1>3, <1>4, <1>5, <1>6, <1>7 DEF Pairs

\* putDownload: of two users one is left at most, and what is left of the
\* hand-over is that it is told, or no longer marked.
LEMMA PutOver ==
  ASSUME OInv, AtMostTwo, NEW u \in Users, dl'[u] = NoDownload, inFile' = inFile,
         \A v \in Users \ {u} :
           /\ dl'[v].seg = dl[v].seg /\ dl'[v].phase = dl[v].phase
           /\ dl'[v].listed = dl[v].listed /\ dl'[v].file = dl[v].file
           /\ dl'[v].over = dl[v].over /\ dl'[v].disc = dl[v].disc
           /\ dl'[v].overlapped => dl[v].overlapped,
         inFile => \A v \in Listed \ {u} :
           dl[v].file /\ ~dl[v].disc /\ dl[v].overlapped /\ u \in Listed /\ dl[u].over
             /\ Contains(dl[v].seg, dl[u].seg) => ~dl'[v].overlapped
  PROVE  Handled' /\ Pairs'
<1>1. /\ ~dl'[u].listed /\ dl'[u].phase = "none" /\ ~dl'[u].file /\ ~dl'[u].over
  BY DEF NoDownload
<1>2. Handled'  BY <1>1 DEF OInv, Handled
<1>3. Listed' = Listed \ {u} /\ Listed \subseteq Users  BY <1>1 DEF Listed
<1>4. \A v, w \in Listed' : v = w  BY <1>3 DEF AtMostTwo
<1>5. ASSUME inFile', NEW v \in Listed', dl'[v].overlapped, dl'[v].file, ~dl'[v].disc
      PROVE  FALSE
  <2>1. v \in Users \ {u} /\ v \in Listed  BY <1>3, <1>5
  <2>2. \A w \in Users : w = u \/ w = v  BY <2>1 DEF AtMostTwo
  <2>3. dl[v].overlapped /\ dl[v].file /\ ~dl[v].disc  BY <1>5, <2>1
  <2>4. \E w \in Listed \ {v} : dl[w].over /\ Contains(dl[v].seg, dl[w].seg)
    BY <1>5, <2>1, <2>3 DEF OInv, Pairs, OverlapMarkBacked
  <2>5. u \in Listed /\ dl[u].over /\ Contains(dl[v].seg, dl[u].seg)  BY <1>3, <2>2, <2>4
  <2>. QED  BY <1>5, <2>1, <2>3, <2>5
<1>. QED  BY <1>2, <1>4, <1>5, FewListed

LEMMA PutOrphanOver == ASSUME OInv, AtMostTwo, NEW u \in Users, PutOrphan(u)
                       PROVE  Handled' /\ Pairs'
<1>1. dl' = [dl EXCEPT ![u] = NoDownload] /\ ~inFile /\ inFile' = inFile
  BY DEF PutOrphan, queueVars
<1>2. dl'[u] = NoDownload /\ \A v \in Users \ {u} : dl'[v] = dl[v]
  BY <1>1 DEF OInv, IInv, TypeOK
<1>. QED  BY <1>1, <1>2, PutOver

LEMMA PutSegmentOver == ASSUME OInv, AtMostTwo, NEW u \in Users, PutSegment(u)
                        PROVE  Handled' /\ Pairs'
<1>1. dl' = [dl EXCEPT ![u] = NoDownload] /\ dl[u].phase = "finishing" /\ inFile' = inFile
  BY DEF PutSegment
<1>2. dl'[u] = NoDownload /\ \A v \in Users \ {u} : dl'[v] = dl[v]
  BY <1>1 DEF OInv, IInv, TypeOK
<1>3. dl[u].file  BY <1>1 DEF OInv, Handled
<1>4. \A v \in Listed \ {u} : u \in Listed /\ dl[v].file /\ dl[v].overlapped => dl[v].disc
  BY <1>3 DEF OInv, Pairs, TakenOver
<1>. QED  BY <1>1, <1>2, <1>4, PutOver

LEMMA PutFailedOver == ASSUME OInv, AtMostTwo, NEW u \in Users, PutFailed(u)
                       PROVE  Handled' /\ Pairs'
<1>1. /\ dl'[u] = NoDownload /\ inFile' = inFile
      /\ \A v \in Users \ {u} :
           /\ dl'[v].seg = dl[v].seg /\ dl'[v].phase = dl[v].phase
           /\ dl'[v].listed = dl[v].listed /\ dl'[v].file = dl[v].file
           /\ dl'[v].over = dl[v].over /\ dl'[v].disc = dl[v].disc
           /\ dl'[v].overlapped => dl[v].overlapped
           /\ dl[u].over /\ Overlapped(u) = {v} => ~dl'[v].overlapped
  BY PutFailedFact DEF OInv
<1>2. ASSUME NEW v \in Listed \ {u}, dl[u].over, Contains(dl[v].seg, dl[u].seg)
      PROVE  ~dl'[v].overlapped
  <2>1. v \in Overlapped(u) /\ v \in Users \ {u}  BY <1>2 DEF Overlapped, Listed
  <2>2. Overlapped(u) = {v}  BY <2>1 DEF AtMostTwo, Overlapped, Listed
  <2>. QED  BY <1>1, <1>2, <2>1, <2>2
<1>. QED  BY <1>1, <1>2, PutOver

\* The queue lets go of every download at once.
LEMMA AllGoneOver ==
  ASSUME OInv, \A v \in Users : \/ dl'[v] = NoDownload
                                \/ /\ dl'[v].seg = dl[v].seg /\ dl'[v].phase = dl[v].phase
                                   /\ dl'[v].file = dl[v].file /\ dl'[v].over = dl[v].over
                                   /\ ~dl'[v].listed
  PROVE  Handled' /\ Pairs'
<1>1. ~NoDownload.listed /\ NoDownload.phase = "none" /\ ~NoDownload.file /\ ~NoDownload.over
  BY DEF NoDownload
<1>2. Handled'  BY <1>1 DEF OInv, Handled
<1>3. Listed' = {}  BY <1>1 DEF Listed
<1>. QED  BY <1>2, <1>3, FewListed

LEMMA PutLastSegmentOver == ASSUME OInv, NEW u \in Users, PutLastSegment(u)
                            PROVE  Handled' /\ Pairs'
<1>1. dl' = [Dropped EXCEPT ![u] = NoDownload]  BY DEF PutLastSegment
<1>2. Dropped \in [Users -> Download]  BY DroppedFact DEF OInv
<1>3. dl'[u] = NoDownload /\ \A v \in Users \ {u} : dl'[v] = Dropped[v]  BY <1>1, <1>2
<1>. QED  BY <1>3, DroppedIs, AllGoneOver DEF OInv

LEMMA UserRemovesOver == ASSUME OInv, UserRemoves  PROVE Handled' /\ Pairs'
<1>1. dl \in [Users -> Download]  BY DEF OInv, IInv, TypeOK
<1>2. /\ ~inFile'
      /\ \A v \in Users :
           /\ dl'[v].seg = dl[v].seg /\ dl'[v].over = dl[v].over /\ dl'[v].phase = dl[v].phase
           /\ dl'[v].file = dl[v].file /\ dl'[v].overlapped = dl[v].overlapped
           /\ dl'[v].disc = dl[v].disc /\ (dl'[v].listed => dl[v].listed)
  BY <1>1, RemovedFact DEF UserRemoves
<1>3. Listed' \subseteq Listed /\ Listed \subseteq Users  BY <1>2 DEF Listed
<1>4. Handled'  BY <1>2 DEF OInv, Handled
<1>5. AskedApart'  BY <1>2, <1>3 DEF OInv, Pairs, AskedApart
<1>6. TakenOver'  BY <1>2, <1>3 DEF OInv, Pairs, TakenOver
<1>7. OverlapResolved'  BY <1>2, <1>3 DEF OInv, Pairs, OverlapResolved
<1>8. OverlapMarkBacked'  BY <1>2 DEF OverlapMarkBacked
<1>. QED  BY <1>4, <1>5, <1>6, <1>7, <1>8 DEF Pairs

LEMMA RestartOver == ASSUME OInv, Restart  PROVE Handled' /\ Pairs'
<1>1. dl' = [u \in Users |-> NoDownload]  BY DEF Restart
<1>. QED  BY <1>1, AllGoneOver

LEMMA OverStep == ASSUME AtMostTwo, OInv, [Next]_vars  PROVE OInv'
<1>1. IInv'  BY StepPreserves DEF OInv
<1>2. ASSUME NEW u \in Users, UserNext(u)  PROVE Handled' /\ Pairs'
  BY <1>2, GetDownloadOver, StartDataOver, QuietOver, PutOrphanOver, PutSegmentOver,
     PutLastSegmentOver, PutFailedOver DEF UserNext
<1>3. ASSUME UserRemoves \/ Restart  PROVE Handled' /\ Pairs'
  BY <1>3, UserRemovesOver, RestartOver
<1>4. ASSUME RunMover \/ LoseTemp \/ SaveQueue \/ UNCHANGED vars  PROVE Handled' /\ Pairs'
  <2>1. UNCHANGED <<dl, inFile>>  BY <1>4 DEF RunMover, LoseTemp, SaveQueue, vars, queueVars
  <2>. QED  BY <2>1 DEF OInv, Handled, Pairs, AskedApart, TakenOver, OverlapResolved,
                        OverlapMarkBacked, Listed
<1>. QED  BY <1>1, <1>2, <1>3, <1>4 DEF Next, OInv

LEMMA OverInvariance == ASSUME AtMostTwo  PROVE Spec => []OInv
<1>1. Init => OInv
  <2>. SUFFICES ASSUME Init PROVE OInv  OBVIOUS
  <2>1. IInv  BY InitEstablishes
  <2>2. \A u \in Users : ~dl[u].listed /\ dl[u].phase = "none" /\ ~dl[u].file /\ ~dl[u].over
    BY DEF Init, NoDownload
  <2>3. Handled  BY <2>2 DEF Handled
  <2>4. Listed = {}  BY <2>2 DEF Listed
  <2>5. Pairs  BY <2>4 DEF Pairs, AskedApart, TakenOver, OverlapResolved, OverlapMarkBacked
  <2>. QED  BY <2>1, <2>3, <2>5 DEF OInv
<1>2. OInv /\ [Next]_vars => OInv'  BY OverStep
<1>. QED  BY <1>1, <1>2, PTL DEF Spec

\* Of two downloads that write to the same bytes one has been told to
\* disconnect: setFile tells the slow one before it opens the file, and a
\* download that opens it without telling anybody meets nobody.
THEOREM OverlapIsResolved == ASSUME AtMostTwo  PROVE Spec => []OverlapResolved
<1>1. OInv => OverlapResolved  BY DEF OInv, Pairs
<1>. QED  BY <1>1, OverInvariance, PTL

\* While the file is queued, a running download marked as overlapped has one
\* that overlaps it: when the overlapping one ends, whatever the way,
\* putDownload takes the mark away or the slow download has been told.
THEOREM OverlapMarkIsBacked == ASSUME AtMostTwo  PROVE Spec => []OverlapMarkBacked
<1>1. OInv => OverlapMarkBacked  BY DEF OInv, Pairs
<1>. QED  BY <1>1, OverInvariance, PTL
=============================================================================
