----------------------- MODULE FileDownloadData_proofs -----------------------
(***************************************************************************)
(* Theorems about the data of a file, for any number of users and any      *)
(* file.  About FileDownload without OVERLAP_CHUNKS: what counts as        *)
(* finished is right on disk, until the first restart and, if nobody       *)
(* deletes the temporary file, the second; the download implements         *)
(* VerifiedFile; what it has completed is kept.  About FileRecheck, with   *)
(* OVERLAP_CHUNKS too: types, and the same of the data and of the          *)
(* completed file, among honest users.                                     *)
(***************************************************************************)
EXTENDS FileRecheck, FileDownload_proofs, FiniteSetTheorems

-----------------------------------------------------------------------------
(***************************************************************************)
(* What is on disk.  A finished byte is right because the byte was right   *)
(* while it was still being fetched: the Merkle check has passed the whole *)
(* blocks of each download, and its last block too as long as it has not   *)
(* been sent a wrong byte, and nobody else writes there.                   *)
(***************************************************************************)
Passed(d) == d.seg.start .. d.seg.start + (IF d.tainted THEN AlignDown(d.pos) ELSE d.pos) - 1

Stream(d) ==
  /\ d.pos > 0 \/ d.phase \in {"running", "finishing"} => d.file
  /\ d.file => d.phase # "none" /\ temp
  /\ d.phase = "finishing" => ~d.tainted /\ d.pos = d.seg.size
  /\ d.file => \A b \in Passed(d) : disk[b] = "good"

StreamInv == IInv /\ \A u \in Users : Stream(dl[u])

GoodInv ==
  /\ DInv
  /\ \A u \in Users : Stream(dl[u])
  /\ restarts = 0 => DoneIsGood

LEMMA GoodIsStream == GoodInv => StreamInv
BY DEF GoodInv, DInv, StreamInv

\* Only the data that has not been checked grows within a block.
LEMMA AlignDownWithin == ASSUME NEW x \in Nat, (x + 1) % BlockSize # 0
                         PROVE  AlignDown(x + 1) = AlignDown(x)
<1>. DEFINE q == x \div BlockSize
            r == x % BlockSize
            k == (x + 1) \div BlockSize
            m == (x + 1) % BlockSize
<1>1. x = BlockSize * q + r /\ x + 1 = BlockSize * k + m  BY Division
<1>2. q \in Int /\ k \in Int  BY BlockAssumption
<1>3. r \in 0 .. BlockSize - 1 /\ m \in 1 .. BlockSize - 1  BY Remainder
<1>. HIDE DEF q, r, k, m
<1>4. (k - q) * BlockSize = r + 1 - m  BY <1>1, <1>2, <1>3, BlockAssumption
<1>5. k - q >= 1 => (k - q) * BlockSize >= BlockSize
  <2>1. (k - q) * BlockSize = (k - q - 1) * BlockSize + BlockSize  BY <1>2, BlockAssumption
  <2>2. k - q >= 1 => (k - q - 1) * BlockSize >= 0  BY <1>2, BlockAssumption
  <2>. QED  BY <1>2, <2>1, <2>2, BlockAssumption
<1>6. k - q <= -1 => (k - q) * BlockSize <= -BlockSize
  <2>1. (k - q) * BlockSize = (k - q + 1) * BlockSize - BlockSize  BY <1>2, BlockAssumption
  <2>2. k - q <= -1 => (k - q + 1) * BlockSize <= 0  BY <1>2, BlockAssumption
  <2>. QED  BY <1>2, <2>1, <2>2, BlockAssumption
<1>7. k = q  BY <1>2, <1>3, <1>4, <1>5, <1>6, BlockAssumption
<1>8. m = r + 1  BY <1>2, <1>3, <1>4, <1>7, BlockAssumption
<1>. QED  BY <1>3, <1>8 DEF AlignDown, m, r

\* The bytes that have passed lie in the download's segment, in the file.
LEMMA PassedFact == ASSUME IInv, NEW u \in Users
                    PROVE  /\ Passed(dl[u]) \subseteq Bytes(dl[u].seg)
                           /\ Bytes(dl[u].seg) \subseteq Offsets
                           /\ \A d \in done : Bytes(d) \subseteq Offsets
<1>1. /\ dl[u].pos \in Nat /\ dl[u].pos <= dl[u].seg.size /\ dl[u].tainted \in BOOLEAN
      /\ dl[u].seg.start \in Nat /\ dl[u].seg.size \in Nat /\ End(dl[u].seg) <= Size
  BY DEF IInv, TypeOK, Download, DownloadOK, OnBoundary, SegmentType, NoSegment, Segment
<1>2. AlignDown(dl[u].pos) \in 0 .. dl[u].pos  BY <1>1, AlignDownFact
<1>3. \A d \in done : d.start \in Nat /\ d.size \in Nat /\ End(d) <= Size
  BY DEF IInv, TypeOK, DoneOK, OnBoundary, SegmentType
<1>. QED  BY <1>1, <1>2, <1>3, SizeAssumption DEF Passed, Bytes, End, Offsets

\* Segments that do not overlap share no byte.
LEMMA NoSharedByte == ASSUME NEW s \in SegmentType \cup {NoSegment},
                             NEW t \in SegmentType \cup {NoSegment}, ~Overlaps(s, t)
                      PROVE  Bytes(s) \cap Bytes(t) = {}
BY DEF SegmentType, NoSegment, Segment, Overlaps, Bytes, End

\* The temporary file disappears only when nobody holds it open.
LEMMA EraseFact == ASSUME NEW H, DeleteTemp(H) \/ MoveTemp(H) \/ RenameTemp(H)
                   PROVE  UNCHANGED <<temp, disk>> \/ (~temp' /\ H = {})
BY DEF DeleteTemp, MoveTemp, RenameTemp, Erase

\* Steps that write nothing: a download stays what it was or is put back, and
\* the file stays what it was or disappears under nobody.
LEMMA NothingWritten ==
  ASSUME \A v \in Users : Stream(dl[v]),
         \A v \in Users : \/ dl'[v] = NoDownload
                          \/ /\ dl'[v].seg = dl[v].seg /\ dl'[v].phase = dl[v].phase
                             /\ dl'[v].pos = dl[v].pos /\ dl'[v].file = dl[v].file
                             /\ dl'[v].tainted = dl[v].tainted,
         \/ UNCHANGED <<temp, disk>>
         \/ ~temp' /\ \A v \in Users : ~dl'[v].file
  PROVE  \A v \in Users : Stream(dl[v])'
<1>1. ASSUME NEW v \in Users, dl'[v] = NoDownload  PROVE Stream(dl[v])'
  BY <1>1 DEF Stream, NoDownload
<1>2. ASSUME NEW v \in Users, dl'[v].seg = dl[v].seg, dl'[v].phase = dl[v].phase,
             dl'[v].pos = dl[v].pos, dl'[v].file = dl[v].file, dl'[v].tainted = dl[v].tainted
      PROVE  Stream(dl[v])'
  BY <1>2 DEF Stream, Passed
<1>. QED  BY <1>1, <1>2

LEMMA StartDataGood == ASSUME StreamInv, NEW u \in Users, StartData(u)
                       PROVE  (\A v \in Users : Stream(dl[v])') /\ (DoneIsGood => DoneIsGood')
<1>1. IInv /\ \A v \in Users : Stream(dl[v])  BY DEF StreamInv
<1>2. /\ \A v \in Users : /\ dl'[v].seg = dl[v].seg /\ dl'[v].pos = dl[v].pos
                          /\ dl'[v].tainted = dl[v].tainted
                          /\ v # u => dl'[v].phase = dl[v].phase /\ dl'[v].file = dl[v].file
      /\ dl[u].phase = "asked" /\ dl'[u].phase \in {"failing", "running"}
      /\ \/ dl'[u].file = dl[u].file /\ dl'[u].phase = "failing" /\ UNCHANGED fileVars
         \/ /\ dl'[u].file /\ ~(SomethingDownloaded /\ ~temp) /\ temp' = TRUE
            /\ disk' \in {disk, Extended}
  BY <1>1, StartDataFact
<1>3. \A v \in Users : Passed(dl'[v]) = Passed(dl[v])  BY <1>2 DEF Passed
<1>4. UNCHANGED <<done, inFile>>  BY DEF StartData, queueVars
<1>5. dl[u].pos = 0 /\ dl[u].seg.start \in Nat
  BY <1>1, <1>2 DEF IInv, TypeOK, Download, DownloadOK, SegmentType, NoSegment, Segment
<1>6. Passed(dl[u]) = {}
  <2>1. AlignDown(0) = 0  BY AlignDownFact
  <2>. QED  BY <1>5, <2>1 DEF Passed
<1>7. CASE dl'[u].file = dl[u].file /\ dl'[u].phase = "failing" /\ UNCHANGED fileVars
  <2>1. temp' = temp /\ disk' = disk  BY <1>7 DEF fileVars
  <2>2. \A v \in Users : Stream(dl[v])'  BY <1>1, <1>2, <1>3, <1>7, <2>1 DEF Stream
  <2>. QED  BY <1>4, <2>1, <2>2 DEF DoneIsGood
<1>8. CASE /\ dl'[u].file /\ ~(SomethingDownloaded /\ ~temp) /\ temp' = TRUE
           /\ disk' \in {disk, Extended}
  <2>1. \A b \in Offsets : disk[b] = "good" => disk'[b] = "good"
    <3>1. disk \in [Offsets -> Contents]  BY <1>1 DEF IInv, TypeOK
    <3>. QED  BY <1>8, <3>1 DEF Extended
  <2>2. \A v \in Users : Passed(dl[v]) \subseteq Offsets  BY <1>1, PassedFact
  <2>3. \A v \in Users : Stream(dl[v])'
    <3>1. Stream(dl[u])'  BY <1>2, <1>3, <1>5, <1>6, <1>8 DEF Stream
    <3>2. ASSUME NEW v \in Users \ {u}  PROVE Stream(dl[v])'
      BY <1>1, <1>2, <1>3, <1>8, <2>1, <2>2 DEF Stream
    <3>. QED  BY <3>1, <3>2
  <2>4. ASSUME DoneIsGood, inFile  PROVE \A b \in Covered(done) : disk'[b] = "good"
    <3>1. CASE temp
      <4>1. Covered(done) \subseteq Offsets  BY <1>1, PassedFact DEF Covered
      <4>. QED  BY <2>1, <2>4, <3>1, <4>1 DEF DoneIsGood
    <3>2. CASE ~temp
      <4>1. done = {}  BY <1>8, <3>2 DEF SomethingDownloaded
      <4>. QED  BY <4>1 DEF Covered
    <3>. QED  BY <3>1, <3>2
  <2>. QED  BY <1>4, <2>3, <2>4 DEF DoneIsGood
<1>. QED  BY <1>2, <1>7, <1>8

\* A byte written by one download is no byte of another, nor a finished one.
LEMMA ReceiveGood == ASSUME GoodInv, NEW u \in Users, Receive(u)
                     PROVE  (\A v \in Users : Stream(dl[v])') /\ (DoneIsGood => DoneIsGood')
<1>. DEFINE p == dl[u].seg.start + dl[u].pos
<1>1. /\ IInv /\ Apart /\ disk \in [Offsets -> Contents] /\ done \in SUBSET SegmentType
      /\ \A v \in Users : /\ Stream(dl[v]) /\ dl[v] \in Download /\ DownloadOK(dl[v])
                          /\ dl[v].seg \in SegmentType \cup {NoSegment}
  BY DEF GoodInv, DInv, IInv, TypeOK, Download
<1>2. /\ dl[u].phase = "running" /\ dl[u].seg \in SegmentType /\ dl[u].pos < dl[u].seg.size
      /\ \A v \in Users : /\ dl'[v].seg = dl[v].seg /\ dl'[v].file = dl[v].file
                          /\ v # u => dl'[v] = dl[v]
      /\ \/ /\ dl'[u].phase = "failing" /\ dl'[u].pos = dl[u].pos
            /\ dl'[u].tainted = dl[u].tainted /\ UNCHANGED disk
         \/ /\ dl'[u].phase \in {"running", "finishing"}
            /\ disk' = Written(p, "good") /\ ~dl[u].tainted /\ ~dl'[u].tainted
            /\ dl'[u].pos = dl[u].pos + 1
            /\ dl'[u].phase = "finishing" => dl'[u].pos = dl[u].seg.size
         \/ /\ dl'[u].phase = "running" /\ dl'[u].tainted
            /\ \E x \in {"good", "bad"} : disk' = Written(p, x)
            /\ dl'[u].pos = dl[u].pos + 1 /\ (p + 1) % BlockSize # 0
         \/ /\ dl'[u].phase = "failing" /\ dl'[u].pos = 0
            /\ \E x \in {"good", "bad"} : disk' = Written(p, x)
  BY <1>1, ReceiveFact
<1>3. temp' = temp /\ UNCHANGED <<done, inFile>>  BY DEF Receive, queueVars
<1>4. /\ dl[u].seg.start \in Nat /\ dl[u].pos \in Nat /\ dl[u].seg.size \in Nat
      /\ dl[u].seg.start % BlockSize = 0 /\ dl[u].file /\ temp /\ Active(u)
      /\ dl[u].tainted \in BOOLEAN
  BY <1>1, <1>2 DEF SegmentType, Download, DownloadOK, OnBoundary, Stream, Active
<1>5. p \in Bytes(dl[u].seg) /\ p \in Offsets  BY <1>1, <1>2, <1>4, PassedFact DEF Bytes, End
<1>. HIDE DEF p
<1>6. \A b \in Offsets \ {p} : disk[b] = "good" => disk'[b] = "good"
  BY <1>1, <1>2 DEF Written
<1>7. disk' = Written(p, "good") => disk'[p] = "good"  BY <1>5 DEF Written
<1>8. ASSUME NEW v \in Users \ {u}  PROVE Stream(dl[v])'
  <2>1. SUFFICES ASSUME dl[v].file, NEW b \in Passed(dl[v])  PROVE disk'[b] = "good"
    BY <1>1, <1>2, <1>3 DEF Stream, Passed
  <2>2. ~Overlaps(dl[u].seg, dl[v].seg)  BY <1>1, <1>4, <2>1 DEF Apart, Stream, Active
  <2>3. Bytes(dl[u].seg) \cap Bytes(dl[v].seg) = {}  BY <1>1, <2>2, NoSharedByte
  <2>4. b \in Offsets \ {p}  BY <1>1, <1>5, <2>1, <2>3, PassedFact
  <2>. QED  BY <1>1, <1>6, <2>1, <2>4 DEF Stream
<1>9. DoneIsGood => DoneIsGood'
  <2>1. SUFFICES ASSUME DoneIsGood, inFile, NEW b \in Covered(done)  PROVE disk'[b] = "good"
    BY <1>3 DEF DoneIsGood
  <2>2. PICK d \in done : b \in Bytes(d)  BY <2>1 DEF Covered
  <2>3. ~Overlaps(dl[u].seg, d)  BY <1>1, <1>4 DEF Apart
  <2>4. Bytes(dl[u].seg) \cap Bytes(d) = {}  BY <1>1, <2>3, NoSharedByte
  <2>5. b \in Offsets \ {p}  BY <1>1, <1>5, <2>2, <2>4, PassedFact
  <2>. QED  BY <1>4, <1>6, <2>1, <2>5 DEF DoneIsGood
<1>10. Stream(dl[u])'
  <2>1. Passed(dl[u]) \subseteq Offsets /\ \A b \in Passed(dl[u]) : disk[b] = "good" /\ b < p
    <3>1. AlignDown(dl[u].pos) \in 0 .. dl[u].pos  BY <1>4, AlignDownFact
    <3>2. \A b \in Passed(dl[u]) : b < p  BY <1>4, <3>1 DEF Passed, p
    <3>. QED  BY <1>1, <1>4, <3>2, PassedFact DEF Stream
  <2>2. p \in Int  BY <1>4 DEF p
  <2>3. \A b \in Passed(dl[u]) : disk'[b] = "good"  BY <1>6, <2>1, <2>2
  <2>4. /\ dl'[u].phase # "none" /\ dl'[u].file /\ temp' /\ dl'[u].seg = dl[u].seg
        /\ dl'[u].phase = "finishing" => ~dl'[u].tainted /\ dl'[u].pos = dl'[u].seg.size
    BY <1>2, <1>3, <1>4
  <2>5. SUFFICES \A b \in Passed(dl'[u]) : disk'[b] = "good"  BY <2>4 DEF Stream
  <2>6. CASE dl'[u].pos = dl[u].pos /\ dl'[u].tainted = dl[u].tainted
    <3>1. Passed(dl'[u]) = Passed(dl[u])  BY <2>4, <2>6 DEF Passed
    <3>. QED  BY <2>3, <3>1
  <2>7. CASE /\ disk' = Written(p, "good") /\ ~dl[u].tainted /\ ~dl'[u].tainted
             /\ dl'[u].pos = dl[u].pos + 1
    <3>1. Passed(dl'[u]) = Passed(dl[u]) \cup {p}  BY <1>4, <2>4, <2>7 DEF Passed, p
    <3>. QED  BY <1>7, <2>3, <2>7, <3>1
  <2>8. CASE /\ dl'[u].tainted /\ dl'[u].pos = dl[u].pos + 1 /\ (p + 1) % BlockSize # 0
    <3>1. (dl[u].pos + 1) % BlockSize # 0
      <4>1. p + 1 = dl[u].seg.start + (dl[u].pos + 1)  BY <1>4 DEF p
      <4>2. SUFFICES ASSUME (dl[u].pos + 1) % BlockSize = 0  PROVE FALSE  OBVIOUS
      <4>3. dl[u].seg.start \in Int /\ dl[u].pos + 1 \in Int  BY <1>4
      <4>4. (dl[u].seg.start + (dl[u].pos + 1)) % BlockSize = 0  BY <1>4, <4>2, <4>3, BoundarySum
      <4>. QED  BY <2>8, <4>1, <4>4
    <3>2. AlignDown(dl[u].pos + 1) = AlignDown(dl[u].pos)  BY <1>4, <3>1, AlignDownWithin
    <3>3. AlignDown(dl[u].pos) \in 0 .. dl[u].pos  BY <1>4, AlignDownFact
    <3>4. Passed(dl'[u]) \subseteq Passed(dl[u])  BY <1>4, <2>4, <2>8, <3>2, <3>3 DEF Passed
    <3>. QED  BY <2>3, <3>4
  <2>9. CASE dl'[u].pos = 0
    <3>1. AlignDown(0) = 0  BY AlignDownFact
    <3>2. Passed(dl'[u]) = {}  BY <1>4, <2>4, <2>9, <3>1 DEF Passed
    <3>. QED  BY <3>2
  <2>. QED  BY <1>2, <2>6, <2>7, <2>8, <2>9
<1>. QED  BY <1>8, <1>9, <1>10

\* The put of a download that has its bytes right: what it adds is right.
LEMMA PutGood ==
  ASSUME done \in SUBSET SegmentType, DoneIsGood, NEW s \in SegmentType,
         done' = AddSegment(done, s), inFile, temp => \A b \in Bytes(s) : disk[b] = "good",
         UNCHANGED <<temp, disk>> \/ ~temp'
  PROVE  DoneIsGood'
<1>1. SUFFICES ASSUME temp', inFile', NEW b \in Covered(done')  PROVE disk'[b] = "good"
  BY DEF DoneIsGood
<1>2. temp /\ disk' = disk  BY <1>1
<1>3. b \in Covered(done) \cup Bytes(s)  BY <1>1, AddSegmentBytes
<1>. QED  BY <1>2, <1>3 DEF DoneIsGood

LEMMA FinishedBytesGood ==
  ASSUME StreamInv, NEW u \in Users, dl[u].phase = "finishing"
  PROVE  \A b \in Bytes(dl[u].seg) : disk[b] = "good"
<1>1. Stream(dl[u])  BY DEF StreamInv
<1>2. dl[u].file /\ ~dl[u].tainted /\ dl[u].pos = dl[u].seg.size  BY <1>1 DEF Stream
<1>3. dl[u].seg.start \in Nat /\ dl[u].seg.size \in Nat
  BY DEF StreamInv, IInv, TypeOK, Download, SegmentType, NoSegment, Segment
<1>4. Bytes(dl[u].seg) \subseteq Passed(dl[u])  BY <1>2, <1>3 DEF Passed, Bytes, End
<1>. QED  BY <1>1, <1>2, <1>4 DEF Stream

LEMMA KeptBytesGood ==
  ASSUME StreamInv, NEW u \in Users, dl[u].phase = "failing", Kept(u) > 0
  PROVE  \A b \in Bytes(Segment(dl[u].seg.start, Kept(u))) : disk[b] = "good"
<1>1. Stream(dl[u])  BY DEF StreamInv
<1>2. dl[u].pos \in Nat /\ dl[u].tainted \in BOOLEAN /\ dl[u].seg.start \in Nat
  BY DEF StreamInv, IInv, TypeOK, Download, SegmentType, NoSegment, Segment
<1>3. Kept(u) \in 0 .. dl[u].pos /\ Kept(u) = AlignDown(dl[u].pos)  BY <1>2, AlignDownFact DEF Kept
<1>4. dl[u].file  BY <1>1, <1>2, <1>3 DEF Stream
<1>5. Bytes(Segment(dl[u].seg.start, Kept(u))) \subseteq Passed(dl[u])
  BY <1>2, <1>3 DEF Bytes, Passed, Segment, End
<1>. QED  BY <1>1, <1>4, <1>5 DEF Stream

\* What a step that puts a download back does to the file.
LEMMA PutErases ==
  ASSUME NEW u \in Users, dl'[u] = NoDownload,
         \A v \in Users \ {u} : dl'[v].file = dl[v].file,
         DeleteTemp(Open \ {u}) \/ MoveTemp(Open \ {u})
  PROVE  UNCHANGED <<temp, disk>> \/ (~temp' /\ \A v \in Users : ~dl'[v].file)
<1>1. UNCHANGED <<temp, disk>> \/ (~temp' /\ Open \ {u} = {})  BY EraseFact
<1>. QED  BY <1>1 DEF Open, NoDownload

LEMMA OrphanGood == ASSUME StreamInv, NEW u \in Users, PutOrphan(u)
                    PROVE  (\A v \in Users : Stream(dl[v])') /\ (DoneIsGood => DoneIsGood')
<1>1. /\ dl' = [dl EXCEPT ![u] = NoDownload] /\ ~inFile /\ UNCHANGED <<done, inFile>>
      /\ DeleteTemp(Open \ {u})
  BY DEF PutOrphan, queueVars
<1>2. dl'[u] = NoDownload /\ \A v \in Users \ {u} : dl'[v] = dl[v]
  BY <1>1 DEF StreamInv, IInv, TypeOK
<1>3. UNCHANGED <<temp, disk>> \/ (~temp' /\ \A v \in Users : ~dl'[v].file)
  BY <1>1, <1>2, PutErases
<1>4. \A v \in Users : Stream(dl[v])'  BY <1>2, <1>3, NothingWritten DEF StreamInv
<1>. QED  BY <1>1, <1>4 DEF DoneIsGood

LEMMA SegmentGood == ASSUME StreamInv, NEW u \in Users, PutSegment(u) \/ PutLastSegment(u)
                     PROVE  (\A v \in Users : Stream(dl[v])') /\ (DoneIsGood => DoneIsGood')
<1>1. dl[u].phase = "finishing" /\ inFile /\ done' = AddSegment(done, dl[u].seg)
  BY DEF PutSegment, PutLastSegment
<1>2. /\ dl'[u] = NoDownload
      /\ \A v \in Users \ {u} : /\ dl'[v].seg = dl[v].seg /\ dl'[v].phase = dl[v].phase
                                /\ dl'[v].pos = dl[v].pos /\ dl'[v].file = dl[v].file
                                /\ dl'[v].tainted = dl[v].tainted
  <2>1. dl \in [Users -> Download] /\ Dropped \in [Users -> Download] /\ IInv
    BY DroppedFact DEF StreamInv, IInv, TypeOK
  <2>2. CASE PutSegment(u)
    <3>1. dl' = [dl EXCEPT ![u] = NoDownload]  BY <2>2 DEF PutSegment
    <3>. QED  BY <2>1, <3>1
  <2>3. CASE PutLastSegment(u)
    <3>1. dl' = [Dropped EXCEPT ![u] = NoDownload]  BY <2>3 DEF PutLastSegment
    <3>. QED  BY <2>1, <3>1, DroppedIs
  <2>. QED  BY <2>2, <2>3
<1>3. UNCHANGED <<temp, disk>> \/ (~temp' /\ \A v \in Users : ~dl'[v].file)
  <2>1. CASE PutSegment(u)  BY <2>1 DEF PutSegment, fileVars
  <2>2. CASE PutLastSegment(u)
    <3>1. MoveTemp(Open \ {u})  BY <2>2 DEF PutLastSegment
    <3>. QED  BY <1>2, <3>1, PutErases
  <2>. QED  BY <2>1, <2>2
<1>4. \A v \in Users : Stream(dl[v])'  BY <1>2, <1>3, NothingWritten DEF StreamInv
<1>5. dl[u].seg \in SegmentType /\ done \in SUBSET SegmentType
  BY <1>1 DEF StreamInv, IInv, TypeOK, Download, DownloadOK
<1>6. DoneIsGood => DoneIsGood'  BY <1>1, <1>3, <1>5, FinishedBytesGood, PutGood
<1>. QED  BY <1>4, <1>6

LEMMA FailedGood == ASSUME StreamInv, NEW u \in Users, PutFailed(u)
                    PROVE  (\A v \in Users : Stream(dl[v])') /\ (DoneIsGood => DoneIsGood')
<1>1. IInv  BY DEF StreamInv
<1>2. /\ dl[u].phase = "failing" /\ inFile /\ UNCHANGED <<inFile, fileVars>>
      /\ dl'[u] = NoDownload
      /\ \A v \in Users \ {u} : /\ dl'[v].seg = dl[v].seg /\ dl'[v].phase = dl[v].phase
                                /\ dl'[v].pos = dl[v].pos /\ dl'[v].file = dl[v].file
                                /\ dl'[v].tainted = dl[v].tainted
      /\ done' = IF Kept(u) > 0 THEN AddSegment(done, Segment(dl[u].seg.start, Kept(u))) ELSE done
  BY <1>1, PutFailedFact
<1>3. UNCHANGED <<temp, disk>>  BY <1>2 DEF fileVars
<1>4. \A v \in Users : Stream(dl[v])'  BY <1>2, <1>3, NothingWritten DEF StreamInv
<1>5. CASE Kept(u) > 0
  <2>1. Segment(dl[u].seg.start, Kept(u)) \in SegmentType /\ done \in SUBSET SegmentType
    <3>1. dl[u].seg.start \in Nat /\ dl[u].pos \in Nat
      BY <1>1 DEF IInv, TypeOK, Download, SegmentType, NoSegment, Segment
    <3>2. Kept(u) \in 0 .. dl[u].pos  BY <3>1, AlignDownFact DEF Kept
    <3>. QED  BY <1>1, <1>5, <3>1, <3>2 DEF IInv, TypeOK, SegmentType, Segment
  <2>2. \A b \in Bytes(Segment(dl[u].seg.start, Kept(u))) : disk[b] = "good"
    BY <1>2, <1>5, KeptBytesGood
  <2>3. done' = AddSegment(done, Segment(dl[u].seg.start, Kept(u)))  BY <1>2, <1>5
  <2>4. DoneIsGood => DoneIsGood'  BY <1>2, <1>3, <2>1, <2>2, <2>3, PutGood
  <2>. QED  BY <1>4, <2>4
<1>6. CASE ~(Kept(u) > 0)
  <2>1. UNCHANGED <<done, inFile, temp, disk>>  BY <1>2, <1>3, <1>6
  <2>. QED  BY <1>4, <2>1 DEF DoneIsGood
<1>. QED  BY <1>5, <1>6

LEMMA FileStepGood ==
  ASSUME StreamInv, RunMover \/ LoseTemp \/ SaveQueue \/ UNCHANGED vars
  PROVE  (\A v \in Users : Stream(dl[v])') /\ (DoneIsGood => DoneIsGood')
<1>1. UNCHANGED <<dl, done, inFile>>
  BY DEF RunMover, LoseTemp, SaveQueue, vars, queueVars
<1>2. UNCHANGED <<temp, disk>> \/ (~temp' /\ Open = {})
  <2>1. CASE RunMover
    <3>1. RenameTemp(Open)  BY <2>1 DEF RunMover
    <3>. QED  BY <3>1, EraseFact
  <2>2. CASE LoseTemp \/ SaveQueue \/ UNCHANGED vars
    BY <2>2 DEF LoseTemp, SaveQueue, vars, fileVars
  <2>. QED  BY <2>1, <2>2
<1>3. UNCHANGED <<temp, disk>> \/ (~temp' /\ \A v \in Users : ~dl'[v].file)
  BY <1>1, <1>2 DEF Open
<1>4. \A v \in Users : Stream(dl[v])'  BY <1>1, <1>3, NothingWritten DEF StreamInv
<1>. QED  BY <1>1, <1>2, <1>4 DEF DoneIsGood

LEMMA RemovesGood == ASSUME StreamInv, UserRemoves
                     PROVE  (\A v \in Users : Stream(dl[v])') /\ (DoneIsGood => DoneIsGood')
<1>1. /\ ~inFile'
      /\ \A v \in Users : /\ dl'[v].seg = dl[v].seg /\ dl'[v].phase = dl[v].phase
                          /\ dl'[v].pos = dl[v].pos /\ dl'[v].file = dl[v].file
                          /\ dl'[v].tainted = dl[v].tainted
  BY UserRemovesIs DEF StreamInv
<1>2. UNCHANGED <<temp, disk>> \/ (~temp' /\ Open = {})
  <2>1. CASE Listed = {}
    <3>1. DeleteTemp(Open)  BY <2>1 DEF UserRemoves
    <3>. QED  BY <3>1, EraseFact
  <2>2. CASE Listed # {}  BY <2>2 DEF UserRemoves, fileVars
  <2>. QED  BY <2>1, <2>2
<1>3. UNCHANGED <<temp, disk>> \/ (~temp' /\ \A v \in Users : ~dl'[v].file)
  BY <1>1, <1>2 DEF Open
<1>4. \A v \in Users : Stream(dl[v])'  BY <1>1, <1>3, NothingWritten DEF StreamInv
<1>. QED  BY <1>1, <1>4 DEF DoneIsGood

LEMMA OtherUserGood ==
  ASSUME StreamInv, NEW u \in Users, GetDownload(u) \/ ConnectionFails(u) \/ RemoveDisconnects(u)
  PROVE  (\A v \in Users : Stream(dl[v])') /\ (DoneIsGood => DoneIsGood')
<1>1. UNCHANGED <<temp, disk, inFile>>
  BY DEF GetDownload, ConnectionFails, RemoveDisconnects, fileVars, queueVars
<1>2. IInv /\ \A v \in Users : Stream(dl[v])  BY DEF StreamInv
<1>3. CASE GetDownload(u)
  <2>1. /\ \A v \in Users \ {u} :
             /\ dl'[v].seg = dl[v].seg /\ dl'[v].phase = dl[v].phase /\ dl'[v].pos = dl[v].pos
             /\ dl'[v].file = dl[v].file /\ dl'[v].tainted = dl[v].tainted
        /\ dl'[u].phase = "asked" /\ dl'[u].pos = 0 /\ ~dl'[u].file
        /\ done' \in {done, {}}
    BY <1>2, <1>3, GetDownloadIs
  <2>2. Stream(dl[u])'  BY <2>1 DEF Stream
  <2>3. ASSUME NEW v \in Users \ {u}  PROVE Stream(dl[v])'
    BY <1>1, <1>2, <2>1 DEF Stream, Passed
  <2>4. DoneIsGood => DoneIsGood'  BY <1>1, <2>1 DEF DoneIsGood, Covered
  <2>. QED  BY <2>2, <2>3, <2>4
<1>4. CASE ConnectionFails(u)
  <2>1. done' = done  BY <1>4 DEF ConnectionFails, queueVars
  <2>2. /\ \A v \in Users : /\ dl'[v].seg = dl[v].seg /\ dl'[v].pos = dl[v].pos
                            /\ dl'[v].file = dl[v].file /\ dl'[v].tainted = dl[v].tainted
                            /\ v # u => dl'[v] = dl[v]
        /\ dl'[u].phase = "failing"
    BY <1>2, <1>4, ConnectionFailsFact
  <2>3. \A v \in Users : Passed(dl'[v]) = Passed(dl[v])  BY <2>2 DEF Passed
  <2>4. \A v \in Users : Stream(dl[v])'  BY <1>1, <1>2, <2>2, <2>3 DEF Stream
  <2>. QED  BY <1>1, <2>1, <2>4 DEF DoneIsGood
<1>5. CASE RemoveDisconnects(u)
  <2>1. dl \in [Users -> Download]  BY <1>2 DEF IInv, TypeOK
  <2>2. /\ done' = done
        /\ \A v \in Users : /\ dl'[v].seg = dl[v].seg /\ dl'[v].pos = dl[v].pos
                            /\ dl'[v].phase = dl[v].phase /\ dl'[v].file = dl[v].file
                            /\ dl'[v].tainted = dl[v].tainted
    BY <1>5, <2>1, RemoveDisconnectsFact
  <2>3. \A v \in Users : Passed(dl'[v]) = Passed(dl[v])  BY <2>2 DEF Passed
  <2>4. \A v \in Users : Stream(dl[v])'  BY <1>1, <1>2, <2>2, <2>3 DEF Stream
  <2>. QED  BY <1>1, <2>2, <2>4 DEF DoneIsGood
<1>. QED  BY <1>3, <1>4, <1>5

LEMMA RestartsCount == ASSUME [Next]_vars, ~Restart  PROVE restarts' = restarts
<1>1. ASSUME NEW u \in Users, UserNext(u)  PROVE restarts' = restarts
  BY <1>1 DEF UserNext, GetDownload, StartData, Receive, ConnectionFails, PutOrphan, PutSegment,
              PutLastSegment, PutFailed, RemoveDisconnects
<1>2. ASSUME RunMover \/ UserRemoves \/ LoseTemp \/ SaveQueue \/ UNCHANGED vars
      PROVE  restarts' = restarts
  BY <1>2 DEF RunMover, UserRemoves, LoseTemp, SaveQueue, vars
<1>. QED  BY <1>1, <1>2 DEF Next

\* Every step but a restart keeps what is finished right.
LEMMA NoRestartGood ==
  ASSUME GoodInv, ~OVERLAP_CHUNKS, [Next]_vars, ~Restart
  PROVE  (\A v \in Users : Stream(dl[v])') /\ (DoneIsGood => DoneIsGood')
<1>0. StreamInv  BY GoodIsStream
<1>1. ASSUME NEW u \in Users, UserNext(u)
      PROVE  (\A v \in Users : Stream(dl[v])') /\ (DoneIsGood => DoneIsGood')
  BY <1>0, <1>1, OtherUserGood, StartDataGood, ReceiveGood, OrphanGood, SegmentGood, FailedGood
     DEF UserNext
<1>. QED  BY <1>0, <1>1, FileStepGood, RemovesGood DEF Next

LEMMA GoodStep == ASSUME GoodInv, ~OVERLAP_CHUNKS, [Next]_vars  PROVE GoodInv'
<1>1. DInv'  BY DataStep DEF GoodInv
<1>2. CASE Restart
  <2>1. dl' = [u \in Users |-> NoDownload] /\ restarts' = restarts + 1  BY <1>2 DEF Restart
  <2>2. \A v \in Users : Stream(dl[v])'  BY <2>1 DEF Stream, NoDownload
  <2>3. restarts' # 0  BY <2>1, LimitAssumption DEF GoodInv, DInv, IInv, TypeOK
  <2>. QED  BY <1>1, <2>2, <2>3 DEF GoodInv
<1>3. ~Restart => restarts' = restarts  BY RestartsCount
<1>. QED  BY <1>1, <1>2, <1>3, NoRestartGood DEF GoodInv

LEMMA GoodInit == Init => GoodInv
<1>. SUFFICES ASSUME Init PROVE GoodInv  OBVIOUS
<1>1. DInv  BY DataInit
<1>2. done = {} /\ ~temp /\ \A v \in Users : dl[v] = NoDownload  BY DEF Init
<1>. QED  BY <1>1, <1>2 DEF GoodInv, Stream, NoDownload, DoneIsGood

\* Until the program is restarted, what counts as finished is on disk and is
\* right, whatever the peers send and whatever fails: putDownload adds to the
\* finished segments only what the Merkle check has passed.  (With restarts
\* and a lost temporary file it fails: run file_stale_save.)
THEOREM FinishedIsRight ==
  ASSUME ~OVERLAP_CHUNKS  PROVE Spec => [](restarts = 0 => DoneIsGood)
<1>1. Init => GoodInv  BY GoodInit
<1>2. GoodInv /\ [Next]_vars => GoodInv'  BY GoodStep
<1>3. GoodInv => (restarts = 0 => DoneIsGood)  BY DEF GoodInv
<1>. QED  BY <1>1, <1>2, <1>3, PTL DEF Spec

-----------------------------------------------------------------------------
(***************************************************************************)
(* The inductive invariant of the refinement: the queue does not count as  *)
(* unfinished what it has found complete, nor does the saved one.          *)
(***************************************************************************)
RefInv ==
  /\ GoodInv
  /\ completed /\ inFile => IsFinished(done)
  /\ saved.completed /\ saved.queued => IsFinished(saved.done)

LEMMA RefStep == ASSUME RefInv, ~OVERLAP_CHUNKS, [Next]_vars  PROVE RefInv'
<1>1. GoodInv /\ DInv /\ GoodInv'  BY GoodStep DEF RefInv, GoodInv
<1>. DEFINE Goal == /\ completed' /\ inFile' => IsFinished(done')
                    /\ saved'.completed /\ saved'.queued => IsFinished(saved'.done)
<1>2. ASSUME NEW u \in Users, GetDownload(u)  PROVE Goal
  <2>1. inUser /\ inFile /\ UNCHANGED <<completed, saved>>  BY <1>2 DEF GetDownload
  <2>. QED  BY <1>1, <2>1 DEF RefInv, DInv, Listing
<1>3. ASSUME NEW u \in Users, PutSegment(u)  PROVE Goal
  <2>1. inUser  BY <1>1, <1>3, FinishingFact DEF PutSegment
  <2>2. inFile /\ UNCHANGED <<completed, saved>>  BY <1>3 DEF PutSegment
  <2>. QED  BY <1>1, <2>1, <2>2 DEF RefInv, DInv, Listing
<1>4. ASSUME NEW u \in Users, PutLastSegment(u)  PROVE Goal
  BY <1>4 DEF RefInv, PutLastSegment
<1>5. ASSUME NEW u \in Users, PutFailed(u)  PROVE Goal
  <2>1. dl[u].phase = "failing" /\ inFile /\ UNCHANGED <<completed, saved, inFile>>  BY <1>5 DEF PutFailed
  <2>2. CASE Kept(u) > 0
    <3>1. inUser  BY <1>1, <2>1, <2>2, KeptFact
    <3>. QED  BY <1>1, <2>1, <3>1 DEF RefInv, DInv, Listing
  <2>3. CASE ~(Kept(u) > 0)
    <3>1. done' = done  BY <1>5, <2>3 DEF PutFailed
    <3>. QED  BY <2>1, <3>1 DEF RefInv
  <2>. QED  BY <2>2, <2>3
<1>6. ASSUME UserRemoves  PROVE Goal
  <2>1. ~inFile' /\ saved' = saved  BY <1>6 DEF UserRemoves
  <2>. QED  BY <2>1 DEF RefInv
<1>7. ASSUME SaveQueue  PROVE Goal
  <2>1. /\ saved'.completed = completed /\ saved'.queued = inFile
        /\ saved'.done = IF inFile THEN done ELSE {}
        /\ UNCHANGED <<done, inFile, completed>>
    BY <1>7 DEF SaveQueue, queueVars
  <2>. QED  BY <2>1 DEF RefInv
<1>8. ASSUME Restart  PROVE Goal
  <2>1. completed' = saved.completed /\ inFile' = saved.queued /\ done' = saved.done /\ saved' = saved
    BY <1>8 DEF Restart
  <2>. QED  BY <2>1 DEF RefInv
<1>9. ASSUME UNCHANGED <<done, inFile, completed, saved>>  PROVE Goal  BY <1>9 DEF RefInv
<1>10. ASSUME NEW u \in Users, \/ StartData(u) \/ Receive(u) \/ ConnectionFails(u)
                               \/ PutOrphan(u) \/ RemoveDisconnects(u)
       PROVE  UNCHANGED <<done, inFile, completed, saved>>
  BY <1>10 DEF StartData, Receive, ConnectionFails, PutOrphan, RemoveDisconnects, queueVars
<1>11. ASSUME RunMover \/ LoseTemp \/ UNCHANGED vars
       PROVE  UNCHANGED <<done, inFile, completed, saved>>
  BY <1>11 DEF RunMover, LoseTemp, vars, queueVars
<1>. HIDE DEF Goal
<1>12. Goal
  BY <1>2, <1>3, <1>4, <1>5, <1>6, <1>7, <1>8, <1>9, <1>10, <1>11 DEF Next, UserNext
<1>. QED  BY <1>1, <1>12 DEF RefInv, Goal

LEMMA RefInit == Init => RefInv
<1>. SUFFICES ASSUME Init PROVE RefInv  OBVIOUS
<1>1. ~completed /\ ~saved.completed  BY DEF Init
<1>. QED  BY <1>1, GoodInit DEF RefInv

-----------------------------------------------------------------------------
(* Every step of the download is a step of VerifiedFile, or none.          *)

Same == UNCHANGED <<inFile, completed, done, saved, temp>>

LEMMA SameIsNone == Same => UNCHANGED Abstract!vars
BY DEF Same, Abstract!vars, Have, Status

\* Only the temporary file appears or disappears.
LEMMA FileOnly == ASSUME TypeOK, temp' \in BOOLEAN, UNCHANGED <<inFile, completed, done, saved>>
                  PROVE  [Abstract!Next]_Abstract!vars
<1>1. CASE temp' = temp  BY <1>1, SameIsNone DEF Same
<1>2. CASE temp /\ ~temp'
  <2>1. temp' = FALSE  BY <1>2 DEF TypeOK
  <2>. QED  BY <1>2, <2>1 DEF Abstract!Next, Abstract!Vanish, Have, Status
<1>3. CASE ~temp /\ temp'  BY <1>3 DEF Abstract!Next, Abstract!Create, Have, Status
<1>. QED  BY <1>1, <1>2, <1>3 DEF TypeOK

\* Some bytes more, not yet all.
LEMMA GainStep ==
  ASSUME RefInv, inUser, temp, UNCHANGED <<inFile, completed, saved, temp>>,
         done' \in SUBSET SegmentType, SegmentsOK(done'), ~IsFinished(done'),
         Covered(done) \subseteq Covered(done')
  PROVE  Abstract!Gain
<1>1. inFile /\ ~completed  BY DEF RefInv, GoodInv, DInv, Listing
<1>2. \A d \in done' : Bytes(d) \subseteq Offsets
  BY SizeAssumption DEF SegmentsOK, OnBoundary, Bytes, End, Offsets, SegmentType
<1>3. Covered(done') \in SUBSET Offsets /\ Covered(done') # Offsets
  BY <1>2, AllCovered DEF Covered, Offsets, SegmentsOK, OnBoundary
<1>4. Covered(done') = Covered(done) \cup Covered(done')  OBVIOUS
<1>. QED  BY <1>1, <1>3, <1>4 DEF Abstract!Gain, Have, Status

LEMMA StepRefines ==
  ASSUME RefInv, ~OVERLAP_CHUNKS, [Next]_vars  PROVE [Abstract!Next]_Abstract!vars
<1>. DEFINE Goal == [Abstract!Next]_Abstract!vars
<1>1. GoodInv /\ DInv /\ IInv /\ TypeOK  BY DEF RefInv, GoodInv, DInv, IInv
<1>2. TypeOK' /\ IInv'
  <2>1. IInv'  BY <1>1, StepPreserves
  <2>. QED  BY <2>1 DEF IInv
<1>3. done' \in SUBSET SegmentType /\ SegmentsOK(done')  BY <1>2 DEF IInv, TypeOK, DoneOK, SegmentsOK
<1>4. temp \in BOOLEAN /\ temp' \in BOOLEAN  BY <1>1, <1>2 DEF TypeOK
<1>. HIDE DEF Goal
<1>5. ASSUME UNCHANGED <<inFile, completed, done, saved>>  PROVE Goal
  BY <1>1, <1>4, <1>5, FileOnly DEF Goal
<1>6. ASSUME NEW u \in Users, GetDownload(u)  PROVE Goal
  <2>1. inFile /\ inUser /\ UNCHANGED <<inFile, completed, saved, temp>>
    BY <1>6 DEF GetDownload, fileVars
  <2>2. done' \in {done, {}} /\ (temp => done' = done)  BY <1>1, <1>6, GetDownloadFact
  <2>3. CASE done' = done  BY <1>5, <2>1, <2>3
  <2>4. CASE done' = {} /\ ~temp
    <3>1. ~completed  BY <1>1, <2>1 DEF RefInv, DInv, Listing
    <3>2. Covered(done') = {}  BY <2>4 DEF Covered
    <3>3. Abstract!Forget  BY <2>1, <2>4, <3>1, <3>2 DEF Abstract!Forget, Have, Status
    <3>. QED  BY <3>3 DEF Goal, Abstract!Next
  <2>. QED  BY <1>4, <2>2, <2>3, <2>4
<1>7. ASSUME NEW u \in Users, PutSegment(u)  PROVE Goal
  <2>1. /\ dl[u].phase = "finishing" /\ inFile /\ done' = AddSegment(done, dl[u].seg)
        /\ ~IsFinished(done') /\ UNCHANGED <<inFile, completed, saved, temp>>
    BY <1>7 DEF PutSegment, fileVars
  <2>2. /\ inUser /\ dl[u].seg \in SegmentType
        /\ \A d \in done : ~Overlaps(dl[u].seg, d)
    BY <1>1, <2>1, FinishingFact
  <2>3. temp  BY <1>1, <2>1 DEF GoodInv, Stream
  <2>4. Covered(done) \subseteq Covered(done')
    BY <1>1, <2>1, <2>2, AddSegmentKeepsBytes DEF IInv, TypeOK, DoneOK
  <2>. QED  BY <1>3, <2>1, <2>2, <2>3, <2>4, GainStep DEF Goal, Abstract!Next
<1>8. ASSUME NEW u \in Users, PutLastSegment(u)  PROVE Goal
  <2>1. /\ dl[u].phase = "finishing" /\ inFile
        /\ IsFinished(done') /\ completed' = TRUE /\ saved' = saved
    BY <1>8 DEF PutLastSegment
  <2>2. inUser  BY <1>1, <2>1, FinishingFact
  <2>3. temp /\ ~completed  BY <1>1, <2>1, <2>2 DEF GoodInv, Stream, RefInv, DInv, Listing
  <2>4. Abstract!Complete  BY <1>4, <2>1, <2>3 DEF Abstract!Complete, Have, Status
  <2>. QED  BY <2>4 DEF Goal, Abstract!Next
<1>9. ASSUME NEW u \in Users, PutFailed(u)  PROVE Goal
  <2>1. /\ dl[u].phase = "failing" /\ inFile
        /\ done' = IF Kept(u) > 0 THEN AddSegment(done, Segment(dl[u].seg.start, Kept(u))) ELSE done
        /\ UNCHANGED <<inFile, completed, saved, temp>>
    BY <1>9 DEF PutFailed, fileVars
  <2>2. CASE ~(Kept(u) > 0)  BY <1>5, <2>1, <2>2
  <2>3. CASE Kept(u) > 0
    <3>. DEFINE s == Segment(dl[u].seg.start, Kept(u))
    <3>1. /\ s \in SegmentType /\ inUser /\ Kept(u) <= dl[u].pos
          /\ \A d \in done : ~Overlaps(s, d)
      BY <1>1, <2>1, <2>3, KeptFact
    <3>2. ~IsFinished(done')  BY <1>1, <2>1, <2>3, KeptDoesNotFinish
    <3>3. dl[u].pos > 0
      <4>1. dl[u].pos \in Nat /\ Kept(u) \in Int
        <5>1. dl[u].pos \in Nat  BY <1>1 DEF TypeOK, Download
        <5>. QED  BY <5>1, AlignDownFact DEF Kept
      <4>. QED  BY <2>3, <3>1, <4>1
    <3>4. temp  BY <1>1, <3>3 DEF GoodInv, Stream
    <3>5. done' = AddSegment(done, s)  BY <2>1, <2>3
    <3>6. done \in SUBSET SegmentType /\ Consolidated(done)  BY <1>1 DEF IInv, TypeOK, DoneOK
    <3>. HIDE DEF s
    <3>7. Covered(done) \subseteq Covered(done')  BY <3>1, <3>5, <3>6, AddSegmentKeepsBytes
    <3>. QED  BY <1>3, <2>1, <3>1, <3>2, <3>4, <3>7, GainStep DEF Goal, Abstract!Next
  <2>. QED  BY <2>2, <2>3
<1>10. ASSUME UserRemoves  PROVE Goal
  <2>1. inFile /\ inFile' = FALSE /\ UNCHANGED <<done, saved, completed>>
        /\ (UNCHANGED temp \/ ~temp')
    BY <1>10 DEF UserRemoves, DeleteTemp, Erase, fileVars
  <2>2. CASE completed
    <3>1. CASE temp' = temp
      BY <1>1, <2>1, <2>2, <3>1 DEF Goal, Abstract!vars, Have, Status, TypeOK
    <3>2. CASE temp /\ ~temp'
      <4>1. temp' = FALSE  BY <1>4, <3>2
      <4>2. Abstract!Vanish  BY <1>1, <2>1, <2>2, <3>2, <4>1 DEF Abstract!Vanish, Have, Status, TypeOK
      <4>. QED  BY <4>2 DEF Goal, Abstract!Next
    <3>. QED  BY <1>4, <2>1, <3>1, <3>2
  <2>3. CASE ~completed
    <3>1. Abstract!Remove  BY <1>4, <2>1, <2>3 DEF Abstract!Remove, Have, Status
    <3>. QED  BY <3>1 DEF Goal, Abstract!Next
  <2>. QED  BY <2>2, <2>3
<1>11. ASSUME SaveQueue  PROVE Goal
  <2>1. /\ saved'.completed = completed /\ saved'.queued = inFile
        /\ saved'.done = IF inFile THEN done ELSE {}
        /\ UNCHANGED <<done, inFile, completed, temp>>
    BY <1>11 DEF SaveQueue, queueVars, fileVars
  <2>2. Abstract!Save  BY <2>1 DEF Abstract!Save, Have, Status
  <2>. QED  BY <2>2 DEF Goal, Abstract!Next
<1>12. ASSUME Restart  PROVE Goal
  <2>1. completed' = saved.completed /\ inFile' = saved.queued /\ done' = saved.done
        /\ saved' = saved /\ temp' = temp
    BY <1>12 DEF Restart
  <2>2. Abstract!Restart  BY <2>1 DEF Abstract!Restart, Have, Status
  <2>. QED  BY <2>2 DEF Goal, Abstract!Next
<1>13. ASSUME NEW u \in Users, \/ StartData(u) \/ Receive(u) \/ ConnectionFails(u)
                               \/ PutOrphan(u) \/ RemoveDisconnects(u)
       PROVE  UNCHANGED <<inFile, completed, done, saved>>
  BY <1>13 DEF StartData, Receive, ConnectionFails, PutOrphan, RemoveDisconnects, queueVars
<1>14. ASSUME RunMover \/ LoseTemp \/ UNCHANGED vars
       PROVE  UNCHANGED <<inFile, completed, done, saved>>
  BY <1>14 DEF RunMover, LoseTemp, vars, queueVars
<1>15. Goal
  BY <1>5, <1>6, <1>7, <1>8, <1>9, <1>10, <1>11, <1>12, <1>13, <1>14 DEF Next, UserNext
<1>. QED  BY <1>15 DEF Goal

\* The download queue keeps the promise of VerifiedFile: what is verified
\* only grows, is forgotten only with the temporary file, and is complete
\* only when every byte is, whatever segments it asks for, in which order.
THEOREM Refinement == ASSUME ~OVERLAP_CHUNKS  PROVE Spec => AbstractSpec
<1>1. Init => Abstract!Init
  BY DEF Init, Abstract!Init, Have, Status, Covered
<1>2. RefInv /\ [Next]_vars => [Abstract!Next]_Abstract!vars  BY StepRefines
<1>3. Init => RefInv  BY RefInit
<1>4. RefInv /\ [Next]_vars => RefInv'  BY RefStep
<1>. QED  BY <1>1, <1>2, <1>3, <1>4, PTL DEF Spec, AbstractSpec, Abstract!Spec

-----------------------------------------------------------------------------
(* getNextSegment always finds something to fetch of an unfinished file.   *)

LEMMA FreshThere ==
  ASSUME NEW D \in SUBSET SegmentType, SegmentsOK(D), ~IsFinished(D), Listed = {}
  PROVE  FreshSegments(D) # {}
<1>1. CASE MULTI_CHUNK
  <2>1. Running = {}  BY DEF Running
  <2>2. PICK st \in ScanPoints : IsFree(D, {}, st, 1)  BY UnfinishedBlock
  <2>3. FreeSegments(D, Running, 1) # {}  BY <2>1, <2>2, ScanFinds
  <2>4. 1 \in 1 .. RoundUp(Size) \div BlockSize  BY OneBlock
  <2>. QED  BY <1>1, <2>3, <2>4 DEF FreshSegments
<1>2. CASE ~MULTI_CHUNK  BY <1>2, GapThere DEF FreshSegments
<1>. QED  BY <1>1, <1>2

\* Forgetting what is finished takes no answer away.
LEMMA FreshAfterReset ==
  ASSUME NEW D, FreshSegments(D) # {}  PROVE FreshSegments({}) # {}
<1>1. CASE MULTI_CHUNK
  <2>1. PICK n \in 1 .. RoundUp(Size) \div BlockSize : FreeSegments(D, Running, n) # {}
    BY <1>1 DEF FreshSegments
  <2>2. PICK q \in ScanPoints \X (1 .. n) : IsFree(D, Running, q[1], q[2])
    BY <2>1 DEF FreeSegments
  <2>3. IsFree({}, Running, q[1], q[2])  BY <2>2 DEF IsFree
  <2>4. q[1] \in ScanPoints /\ q[2] \in 1 .. n /\ n \in Nat
    BY <2>2, OneBlock
  <2>5. FreeSegments({}, Running, n) # {}  BY <2>3, <2>4, ScanFinds
  <2>. QED  BY <1>1, <2>5 DEF FreshSegments
<1>2. CASE ~MULTI_CHUNK
  <2>1. Listed = {}  BY <1>2 DEF FreshSegments
  <2>2. FirstGap({}).size > 0  BY SizeAssumption DEF FirstGap, WholeFile, Segment
  <2>. QED  BY <1>2, <2>1, <2>2 DEF FreshSegments
<1>. QED  BY <1>1, <1>2

\* getDownload never asks for an empty segment.
LEMMA GetDownloadHasBytes ==
  ASSUME DInv, ~OVERLAP_CHUNKS, NEW u \in Users, GetDownload(u)  PROVE dl'[u].seg # NoSegment
<1>1. /\ done \in SUBSET SegmentType /\ SegmentsOK(done) /\ ~IsFinished(done)
      /\ inUser
      /\ Listed = {} \/ NextSegments(done) # {}
  BY DEF DInv, IInv, TypeOK, DoneOK, SegmentsOK, Listing, GetDownload
<1>2. Resumable \in {done, {}}  BY DEF Resumable
<1>3. /\ Resumable \in SUBSET SegmentType /\ SegmentsOK(Resumable) /\ ~IsFinished(Resumable)
  BY <1>1, <1>2 DEF SegmentsOK, Consolidated, IsFinished
<1>4. BelowLimit /\ FreshSegments(Resumable) # {}
  <2>1. CASE Listed = {}
    <3>1. Cardinality(Listed) = 0  BY <2>1, FS_EmptySet
    <3>2. BelowLimit  BY <3>1, LimitAssumption DEF BelowLimit
    <3>. QED  BY <1>3, <2>1, <3>2, FreshThere
  <2>2. CASE NextSegments(done) # {}
    <3>1. SlowTails(done) = {}  BY DEF SlowTails
    <3>2. BelowLimit /\ FreshSegments(done) # {}  BY <2>2, <3>1 DEF NextSegments
    <3>. QED  BY <1>2, <3>2, FreshAfterReset
  <2>. QED  BY <1>1, <2>1, <2>2
<1>5. NextSegments(Resumable) # {}  BY <1>4 DEF NextSegments
<1>6. SlowTails(Resumable) = {}  BY DEF SlowTails
<1>7. PICK c \in NextSegments(Resumable) : dl' = [dl EXCEPT ![u] = Asking(u, c)]
  BY <1>5, <1>6 DEF GetDownload, NextSegments
<1>8. c.seg \in SegmentType  BY <1>3, <1>7, NextSegmentsFact DEF DInv
<1>9. dl'[u].seg = c.seg  BY <1>7 DEF DInv, IInv, TypeOK, Asking, NoDownload
<1>. QED  BY <1>8, <1>9 DEF SegmentType, NoSegment, Segment

-----------------------------------------------------------------------------
(***************************************************************************)
(* What is complete.  With no empty downloads, nobody downloads anything   *)
(* of a complete file, so nobody is left to put a download back and delete *)
(* the temporary file before it is moved.                                  *)
(***************************************************************************)
HasBytes == \A u \in Users : Active(u) => dl[u].seg # NoSegment

AtRest ==
  /\ \A u \in Users : ~Active(u)
  /\ temp => AllGood
  /\ inFile => KEEP_FINISHED_FILES
  /\ target = "good" \/ temp \/ (KEEP_FINISHED_FILES /\ ~inFile)

KeptInv == RefInv /\ HasBytes /\ (restarts = 0 /\ completed => AtRest)

LEMMA HasBytesStep == ASSUME KeptInv, ~OVERLAP_CHUNKS, [Next]_vars  PROVE HasBytes'
<1>1. DInv /\ IInv /\ HasBytes  BY DEF KeptInv, RefInv, GoodInv, DInv
<1>2. ASSUME \A v \in Users : dl'[v].phase # "none" =>
               dl[v].phase # "none" /\ dl'[v].seg = dl[v].seg
      PROVE  HasBytes'
  BY <1>1, <1>2 DEF HasBytes, Active
<1>3. ASSUME NEW u \in Users, GetDownload(u)  PROVE HasBytes'
  <2>1. dl'[u].seg # NoSegment /\ \A v \in Users \ {u} : dl'[v] = dl[v]
    BY <1>1, <1>3, GetDownloadHasBytes, GetDownloadFact
  <2>. QED  BY <1>1, <2>1 DEF HasBytes, Active
<1>4. ASSUME NEW u \in Users, StartData(u)  PROVE HasBytes'
  BY <1>1, <1>2, <1>4, StartDataFact
<1>5. ASSUME NEW u \in Users, Receive(u)  PROVE HasBytes'
  <2>1. /\ dl[u].phase = "running"
        /\ \A v \in Users : dl'[v].seg = dl[v].seg /\ (v # u => dl'[v] = dl[v])
    BY <1>1, <1>5, ReceiveFact
  <2>. QED  BY <1>2, <2>1
<1>6. ASSUME NEW u \in Users, ConnectionFails(u)  PROVE HasBytes'
  <2>1. /\ dl[u].phase \in {"asked", "running"}
        /\ \A v \in Users : dl'[v].seg = dl[v].seg /\ (v # u => dl'[v] = dl[v])
    BY <1>1, <1>6, ConnectionFailsFact
  <2>. QED  BY <1>2, <2>1
<1>7. ASSUME NEW u \in Users, PutOrphan(u) \/ PutSegment(u)  PROVE HasBytes'
  <2>1. dl' = [dl EXCEPT ![u] = NoDownload]  BY <1>7 DEF PutOrphan, PutSegment
  <2>2. dl'[u].phase = "none" /\ \A v \in Users \ {u} : dl'[v] = dl[v]
    BY <1>1, <2>1 DEF IInv, TypeOK, NoDownload
  <2>. QED  BY <1>2, <2>2
<1>8. ASSUME NEW u \in Users, PutLastSegment(u)  PROVE HasBytes'
  <2>1. \A v \in Users : dl'[v].phase # "none" => dl[v].phase # "none" /\ dl[v].seg = NoSegment
    BY <1>1, <1>8, LastLeavesNothing
  <2>. QED  BY <1>1, <2>1 DEF HasBytes, Active
<1>9. ASSUME NEW u \in Users, PutFailed(u)  PROVE HasBytes'
  <2>1. /\ dl'[u] = NoDownload
        /\ \A v \in Users \ {u} : dl'[v].seg = dl[v].seg /\ dl'[v].phase = dl[v].phase
    BY <1>1, <1>9, PutFailedFact
  <2>. QED  BY <1>2, <2>1 DEF NoDownload
<1>10. ASSUME UserRemoves  PROVE HasBytes'
  BY <1>1, <1>2, <1>10, UserRemovesFact
<1>11. ASSUME Restart  PROVE HasBytes'
  BY <1>11 DEF Restart, HasBytes, Active, NoDownload
<1>12. ASSUME dl' = dl  PROVE HasBytes'  BY <1>1, <1>12 DEF HasBytes, Active
<1>13. ASSUME RunMover \/ LoseTemp \/ SaveQueue \/ UNCHANGED vars  PROVE dl' = dl
  BY <1>13 DEF RunMover, LoseTemp, SaveQueue, vars
<1>14. ASSUME NEW u \in Users, RemoveDisconnects(u)  PROVE HasBytes'
  <2>1. dl \in [Users -> Download]  BY <1>1 DEF IInv, TypeOK
  <2>. QED  BY <1>2, <1>14, <2>1, RemoveDisconnectsFact
<1>. QED  BY <1>3, <1>4, <1>5, <1>6, <1>7, <1>8, <1>9, <1>10, <1>11, <1>12, <1>13, <1>14
          DEF Next, UserNext

\* The last segment: every byte on disk is right, and the file is moved now
\* or left for FileMover.
LEMMA LastAtRest ==
  ASSUME KeptInv, ~OVERLAP_CHUNKS, restarts = 0, NEW u \in Users, PutLastSegment(u)
  PROVE  AtRest'
<1>1. GoodInv /\ DInv /\ IInv /\ HasBytes /\ DoneIsGood
  BY DEF KeptInv, RefInv, GoodInv, DInv
<1>2. /\ dl[u].phase = "finishing" /\ inFile /\ MoveTemp(Open \ {u})
      /\ done' = AddSegment(done, dl[u].seg) /\ IsFinished(done')
      /\ inFile' = KEEP_FINISHED_FILES
  BY DEF PutLastSegment
<1>3. \A v \in Users : ~Active(v)'
  <2>1. \A v \in Users : dl'[v].phase # "none" => dl[v].phase # "none" /\ dl[v].seg = NoSegment
    BY <1>1, LastLeavesNothing
  <2>. QED  BY <1>1, <2>1 DEF HasBytes, Active
<1>4. temp  BY <1>1, <1>2 DEF GoodInv, Stream
<1>5. AllGood
  <2>1. Offsets \subseteq Covered(done) \cup Bytes(dl[u].seg)
    <3>1. Covered(done') = Offsets  BY <1>2, FinishedCovers DEF Offsets
    <3>2. dl[u].seg \in SegmentType /\ done \in SUBSET SegmentType
      BY <1>1, <1>2, FinishingFact DEF IInv, TypeOK
    <3>. QED  BY <1>2, <3>1, <3>2, AddSegmentBytes
  <2>2. \A b \in Covered(done) : disk[b] = "good"  BY <1>1, <1>2, <1>4 DEF DoneIsGood
  <2>3. \A b \in Bytes(dl[u].seg) : disk[b] = "good"  BY <1>1, <1>2, GoodIsStream, FinishedBytesGood
  <2>. QED  BY <2>1, <2>2, <2>3 DEF AllGood
<1>6. temp' => AllGood'
  <2>1. UNCHANGED <<temp, disk>> \/ ~temp'  BY <1>2, EraseFact
  <2>. QED  BY <1>5, <2>1 DEF AllGood
<1>7. target' = "good" \/ temp'
  <2>1. CASE OverMoverLimit /\ temp  BY <1>4, <2>1, <1>2 DEF MoveTemp
  <2>2. CASE ~(OverMoverLimit /\ temp)
    <3>1. RenameTemp(Open \ {u})  BY <1>2, <2>2 DEF MoveTemp
    <3>. QED  BY <1>4, <1>5, <3>1 DEF RenameTemp, Verdict
  <2>. QED  BY <2>1, <2>2
<1>. QED  BY <1>2, <1>3, <1>6, <1>7 DEF AtRest

\* A complete file: only FileMover and the user touch it.
LEMMA AtRestStays ==
  ASSUME KeptInv, ~OVERLAP_CHUNKS, AtRest, completed, [Next]_vars, ~Restart
  PROVE  AtRest'
<1>1. DInv /\ RefInv /\ TypeOK  BY DEF KeptInv, RefInv, GoodInv, DInv, IInv
<1>2. \A u \in Users : dl[u].phase = "none"  BY DEF AtRest, Active
<1>3. ~inUser  BY <1>1 DEF RefInv, DInv, Listing
<1>4. \A u \in Users : UserNext(u) => RemoveDisconnects(u)
  BY <1>2, <1>3 DEF UserNext, GetDownload, StartData, Receive, ConnectionFails, PutOrphan, PutSegment,
                    PutLastSegment, PutFailed
<1>5. ~LoseTemp  BY DEF LoseTemp
<1>6. CASE RunMover
  <2>1. RenameTemp(Open) /\ UNCHANGED <<dl, inFile>>  BY <1>6 DEF RunMover, queueVars
  <2>2. UNCHANGED <<temp, disk>> \/ ~temp'  BY <2>1, EraseFact
  <2>3. temp' => AllGood'  BY <2>2 DEF AtRest, AllGood
  <2>4. target' = "good" \/ (target' = target /\ temp' = temp /\ ~temp)
    BY <2>1 DEF RenameTemp, Verdict, AtRest
  <2>. QED  BY <2>1, <2>3, <2>4 DEF AtRest, Active
<1>7. CASE UserRemoves
  <2>1. inFile /\ ~inFile' /\ \A v \in Users : dl'[v].phase = dl[v].phase
    BY <1>1, <1>7, UserRemovesFact
  <2>2. UNCHANGED <<temp, disk>> \/ ~temp'
    BY <1>7 DEF UserRemoves, DeleteTemp, Erase, fileVars
  <2>3. temp' => AllGood'  BY <2>2 DEF AtRest, AllGood
  <2>. QED  BY <2>1, <2>3 DEF AtRest, Active
<1>8. CASE SaveQueue \/ UNCHANGED vars
  <2>1. UNCHANGED <<dl, inFile, temp, disk, target>>
    BY <1>8 DEF SaveQueue, vars, queueVars, fileVars
  <2>. QED  BY <2>1 DEF AtRest, Active, AllGood
<1>9. ASSUME NEW u \in Users, RemoveDisconnects(u)  PROVE AtRest'
  <2>1. dl \in [Users -> Download]  BY <1>1 DEF TypeOK
  <2>2. /\ \A v \in Users : dl'[v].phase = dl[v].phase
        /\ UNCHANGED <<inFile, temp, disk, target>>
    BY <1>9, <2>1, RemoveDisconnectsFact
  <2>. QED  BY <2>2 DEF AtRest, Active, AllGood
<1>. QED  BY <1>4, <1>5, <1>6, <1>7, <1>8, <1>9 DEF Next

LEMMA KeptStep == ASSUME KeptInv, ~OVERLAP_CHUNKS, [Next]_vars  PROVE KeptInv'
<1>1. RefInv' /\ HasBytes'  BY RefStep, HasBytesStep DEF KeptInv
<1>2. ASSUME restarts' = 0, completed'  PROVE AtRest'
  <2>1. restarts \in Nat /\ completed \in BOOLEAN
    BY LimitAssumption DEF KeptInv, RefInv, GoodInv, DInv, IInv, TypeOK
  <2>2. ~Restart
    <3>1. Restart => restarts' = restarts + 1  BY DEF Restart
    <3>. QED  BY <1>2, <2>1, <3>1
  <2>3. restarts = 0  BY <1>2, <2>2, RestartsCount
  <2>4. CASE completed  BY <2>2, <2>3, <2>4, AtRestStays DEF KeptInv
  <2>5. CASE ~completed
    <3>1. \E u \in Users : PutLastSegment(u)
      <4>1. ASSUME NEW u \in Users, UserNext(u), ~PutLastSegment(u)  PROVE completed' = completed
        BY <4>1 DEF UserNext, GetDownload, StartData, Receive, ConnectionFails, PutOrphan,
                    PutSegment, PutFailed, RemoveDisconnects
      <4>2. ASSUME RunMover \/ UserRemoves \/ LoseTemp \/ SaveQueue \/ UNCHANGED vars
            PROVE  completed' = completed
        BY <4>2 DEF RunMover, UserRemoves, LoseTemp, SaveQueue, vars
      <4>. QED  BY <1>2, <2>2, <2>5, <4>1, <4>2 DEF Next
    <3>. QED  BY <2>3, <3>1, LastAtRest
  <2>. QED  BY <2>4, <2>5
<1>. QED  BY <1>1, <1>2 DEF KeptInv

\* Until a restart, a file the queue has found complete exists with every
\* byte right, under its final name or as the temporary file, until the user
\* removes the finished item.  (With OVERLAP_CHUNKS it fails: run
\* file_overlap_big.)
THEOREM CompletedIsKept ==
  ASSUME ~OVERLAP_CHUNKS  PROVE Spec => [](restarts = 0 => CompletedFileKept)
<1>1. Init => KeptInv
  <2>. SUFFICES ASSUME Init PROVE KeptInv  OBVIOUS
  <2>1. ~completed /\ \A u \in Users : dl[u].phase = "none"  BY DEF Init, NoDownload
  <2>. QED  BY <2>1, RefInit DEF KeptInv, HasBytes, Active
<1>2. KeptInv /\ [Next]_vars => KeptInv'  BY KeptStep
<1>3. KeptInv => (restarts = 0 => CompletedFileKept)
  BY DEF KeptInv, AtRest, CompletedFileKept
<1>. QED  BY <1>1, <1>2, <1>3, PTL DEF Spec

-----------------------------------------------------------------------------
(***************************************************************************)
(* After a restart.  As long as nobody deletes the temporary file, getDown-*)
(* load forgets nothing (a finished segment means a file), so that the     *)
(* saved segments are finished ones, and still right when the program      *)
(* stops.  After the restart getDownload may forget them, unsaved: a       *)
(* second one brings them back wrongly.                                    *)
(***************************************************************************)
SavedInv ==
  restarts = 0 /\ losses = 0 =>
    /\ inUser /\ done # {} => temp
    /\ moving => completed
    /\ saved.queued => Covered(saved.done) \subseteq Covered(done)
    /\ saved.queued /\ temp => \A b \in Covered(saved.done) : disk[b] = "good"

OnceInv ==
  /\ RefInv
  /\ SavedInv
  /\ restarts = 1 /\ losses = 0 => DoneIsGood

\* Nothing that arrives is written over a finished byte.
LEMMA NothingOverwritten ==
  ASSUME GoodInv, NEW u \in Users, StartData(u) \/ Receive(u), temp, NEW b \in Covered(done),
         disk[b] = "good"
  PROVE  disk'[b] = "good"
<1>1. IInv /\ Apart /\ done \in SUBSET SegmentType  BY DEF GoodInv, DInv, IInv, TypeOK
<1>2. PICK d \in done : b \in Bytes(d)  BY DEF Covered
<1>3. b \in Offsets  BY <1>1, <1>2, PassedFact
<1>4. CASE StartData(u)
  <2>1. UNCHANGED fileVars \/ disk' \in {disk, Extended}  BY <1>1, <1>4, StartDataFact
  <2>. QED  BY <1>3, <2>1 DEF fileVars, Extended
<1>5. CASE Receive(u)
  <2>. DEFINE p == dl[u].seg.start + dl[u].pos
  <2>1. /\ dl[u].phase = "running" /\ dl[u].seg \in SegmentType /\ dl[u].pos < dl[u].seg.size
        /\ disk' = disk \/ \E x \in {"good", "bad"} : disk' = Written(p, x)
    BY <1>1, <1>5, ReceiveFact
  <2>2. dl[u].pos \in Nat  BY <1>1 DEF IInv, TypeOK, Download
  <2>3. p \in Bytes(dl[u].seg)  BY <2>1, <2>2 DEF Bytes, End, SegmentType
  <2>. HIDE DEF p
  <2>4. ~Overlaps(dl[u].seg, d)  BY <1>1, <1>2, <2>1 DEF Apart, Active
  <2>5. Bytes(dl[u].seg) \cap Bytes(d) = {}  BY <1>1, <1>2, <2>1, <2>4, NoSharedByte
  <2>6. b # p  BY <1>2, <2>3, <2>5
  <2>. QED  BY <1>3, <2>1, <2>6 DEF Written
<1>. QED  BY <1>4, <1>5

\* A step that saves nothing, forgets nothing, and leaves what is finished as
\* it is on disk.
LEMMA SavedStays ==
  ASSUME SavedInv, restarts = 0, losses = 0, UNCHANGED saved,
         Covered(done) \subseteq Covered(done'), completed => completed',
         moving' => moving \/ completed', inUser' /\ done' # {} => temp',
         temp' => \/ UNCHANGED <<temp, disk>>
                  \/ temp /\ \A b \in Covered(done) : disk[b] = "good" => disk'[b] = "good"
                  \/ done = {}
  PROVE  SavedInv'
<1>1. \A b \in Covered(saved.done) : saved.queued => b \in Covered(done)  BY DEF SavedInv
<1>2. done = {} => Covered(done) = {}  BY DEF Covered
<1>. QED  BY <1>1, <1>2 DEF SavedInv

LEMMA SavedStep ==
  ASSUME OnceInv, ~OVERLAP_CHUNKS, [Next]_vars, ~Restart, restarts = 0, losses = 0, losses' = 0
  PROVE  SavedInv'
<1>1. /\ GoodInv /\ DInv /\ IInv /\ SavedInv /\ DoneIsGood
      /\ done \in SUBSET SegmentType /\ Consolidated(done)
      /\ completed /\ inFile => IsFinished(done)
      /\ \A u \in Users : Stream(dl[u]) /\ dl[u].pos \in Nat
  BY DEF OnceInv, RefInv, GoodInv, DInv, IInv, TypeOK, DoneOK, Download
<1>2. ASSUME NEW u \in Users, GetDownload(u)  PROVE SavedInv'
  <2>1. inUser /\ done' = Resumable /\ UNCHANGED <<inFile, inUser, fileVars, saved, completed>>
    BY <1>2 DEF GetDownload
  <2>2. done' = done
    <3>1. CASE done = {}  BY <2>1, <3>1 DEF Resumable
    <3>2. CASE done # {}  BY <1>1, <2>1, <3>2 DEF SavedInv, Resumable
    <3>. QED  BY <3>1, <3>2
  <2>. QED  BY <1>1, <2>1, <2>2, SavedStays DEF SavedInv, fileVars
<1>3. ASSUME NEW u \in Users, StartData(u)  PROVE SavedInv'
  <2>1. UNCHANGED <<done, inUser, saved, completed>>  BY <1>3 DEF StartData, queueVars
  <2>2. moving' = moving  BY <1>3 DEF StartData, StartFails, OpenTemp, fileVars
  <2>3. UNCHANGED <<temp, disk>> \/ (temp' /\ ~(SomethingDownloaded /\ ~temp))
    BY <1>1, <1>3, StartDataFact DEF fileVars
  <2>4. ~temp /\ temp' => done = {}  BY <2>3 DEF SomethingDownloaded
  <2>5. temp => \A b \in Covered(done) : disk[b] = "good" => disk'[b] = "good"
    BY <1>1, <1>3, NothingOverwritten
  <2>. QED  BY <1>1, <2>1, <2>2, <2>3, <2>4, <2>5, SavedStays DEF SavedInv
<1>4. ASSUME NEW u \in Users, Receive(u)  PROVE SavedInv'
  <2>1. UNCHANGED <<done, inUser, saved, completed, temp, moving>>  BY <1>4 DEF Receive, queueVars
  <2>2. temp => \A b \in Covered(done) : disk[b] = "good" => disk'[b] = "good"
    BY <1>1, <1>4, NothingOverwritten
  <2>. QED  BY <1>1, <2>1, <2>2, SavedStays DEF SavedInv
<1>5. ASSUME NEW u \in Users, ConnectionFails(u) \/ RemoveDisconnects(u)  PROVE SavedInv'
  <2>1. UNCHANGED <<done, inUser, saved, completed, fileVars>>
    BY <1>5 DEF ConnectionFails, RemoveDisconnects, queueVars
  <2>. QED  BY <1>1, <2>1, SavedStays DEF SavedInv, fileVars
<1>6. ASSUME NEW u \in Users, PutOrphan(u)  PROVE SavedInv'
  <2>1. ~inFile /\ UNCHANGED <<done, inUser, saved, completed>> /\ DeleteTemp(Open \ {u})
    BY <1>6 DEF PutOrphan, queueVars
  <2>2. moving' = moving /\ (UNCHANGED <<temp, disk>> \/ ~temp')  BY <2>1, EraseFact DEF DeleteTemp
  <2>3. ~inUser  BY <1>1, <2>1 DEF DInv, Listing
  <2>. QED  BY <1>1, <2>1, <2>2, <2>3, SavedStays
<1>7. ASSUME NEW u \in Users, PutSegment(u) \/ PutLastSegment(u)  PROVE SavedInv'
  <2>1. dl[u].phase = "finishing" /\ inFile /\ done' = AddSegment(done, dl[u].seg) /\ saved' = saved
    BY <1>7 DEF PutSegment, PutLastSegment
  <2>2. Covered(done) \subseteq Covered(done')
    BY <1>1, <2>1, FinishingFact, AddSegmentKeepsBytes
  <2>3. temp  BY <1>1, <2>1 DEF Stream
  <2>4. CASE PutSegment(u)
    <3>1. UNCHANGED <<inUser, completed, fileVars>>  BY <2>4 DEF PutSegment
    <3>. QED  BY <1>1, <2>1, <2>2, <2>3, <3>1, SavedStays DEF fileVars
  <2>5. CASE PutLastSegment(u)
    <3>1. inUser' = FALSE /\ completed' = TRUE /\ MoveTemp(Open \ {u})  BY <2>5 DEF PutLastSegment
    <3>2. UNCHANGED <<temp, disk>> \/ ~temp'  BY <3>1, EraseFact
    <3>. QED  BY <1>1, <2>1, <2>2, <3>1, <3>2, SavedStays
  <2>. QED  BY <1>7, <2>4, <2>5
<1>8. ASSUME NEW u \in Users, PutFailed(u)  PROVE SavedInv'
  <2>1. /\ dl[u].phase = "failing" /\ inFile /\ UNCHANGED <<inUser, saved, completed, fileVars>>
        /\ done' = IF Kept(u) > 0 THEN AddSegment(done, Segment(dl[u].seg.start, Kept(u))) ELSE done
    BY <1>8 DEF PutFailed
  <2>2. CASE Kept(u) > 0
    <3>1. Covered(done) \subseteq Covered(done')
      BY <1>1, <2>1, <2>2, KeptFact, AddSegmentKeepsBytes
    <3>2. dl[u].pos > 0  BY <1>1, <2>2, AlignDownFact DEF Kept
    <3>3. temp  BY <1>1, <3>2 DEF Stream
    <3>. QED  BY <1>1, <2>1, <3>1, <3>3, SavedStays DEF fileVars
  <2>3. CASE ~(Kept(u) > 0)  BY <1>1, <2>1, <2>3, SavedStays DEF SavedInv, fileVars
  <2>. QED  BY <2>2, <2>3
<1>9. CASE RunMover
  <2>1. /\ moving /\ ~moving' /\ UNCHANGED <<done, inUser, saved, completed>> /\ RenameTemp(Open)
    BY <1>9 DEF RunMover, queueVars
  <2>2. UNCHANGED <<temp, disk>> \/ ~temp'  BY <2>1, EraseFact
  <2>3. ~inUser  BY <1>1, <2>1 DEF SavedInv, DInv, Listing
  <2>. QED  BY <1>1, <2>1, <2>2, <2>3, SavedStays
<1>10. CASE UserRemoves
  <2>1. ~inUser' /\ done' = done  BY <1>1, <1>10, UserRemovesFact
  <2>2. UNCHANGED <<saved, completed>>  BY <1>10 DEF UserRemoves
  <2>3. moving' = moving /\ (UNCHANGED <<temp, disk>> \/ ~temp')
    BY <1>10 DEF UserRemoves, DeleteTemp, Erase, fileVars
  <2>. QED  BY <1>1, <2>1, <2>2, <2>3, SavedStays
<1>11. CASE SaveQueue
  <2>1. /\ saved'.queued = inFile /\ saved'.done = IF inFile THEN done ELSE {}
        /\ UNCHANGED <<done, inUser, inFile, completed, temp, disk, moving>>
    BY <1>11 DEF SaveQueue, queueVars, fileVars
  <2>. QED  BY <1>1, <2>1 DEF SavedInv, DoneIsGood
<1>12. CASE UNCHANGED vars
  <2>1. UNCHANGED <<done, inUser, saved, completed, temp, disk, moving>>  BY <1>12 DEF vars
  <2>. QED  BY <1>1, <2>1, SavedStays DEF SavedInv
<1>13. ~LoseTemp  BY DEF LoseTemp
<1>. QED  BY <1>2, <1>3, <1>4, <1>5, <1>6, <1>7, <1>8, <1>9, <1>10, <1>11, <1>12, <1>13
          DEF Next, UserNext

LEMMA LossesCount == ASSUME TypeOK, [Next]_vars  PROVE losses' = 0 => losses = 0
<1>1. losses \in Nat  BY LimitAssumption DEF TypeOK
<1>2. ASSUME NEW u \in Users, UserNext(u)  PROVE losses' = losses
  BY <1>2 DEF UserNext, GetDownload, StartData, Receive, ConnectionFails, PutOrphan, PutSegment,
              PutLastSegment, PutFailed, RemoveDisconnects
<1>3. ASSUME RunMover \/ UserRemoves \/ SaveQueue \/ Restart \/ UNCHANGED vars  PROVE losses' = losses
  BY <1>3 DEF RunMover, UserRemoves, SaveQueue, Restart, vars
<1>4. LoseTemp => losses' = losses + 1  BY DEF LoseTemp
<1>. QED  BY <1>1, <1>2, <1>3, <1>4 DEF Next

LEMMA OnceStep == ASSUME OnceInv, ~OVERLAP_CHUNKS, [Next]_vars  PROVE OnceInv'
<1>1. GoodInv /\ TypeOK /\ restarts \in Nat
  BY LimitAssumption DEF OnceInv, RefInv, GoodInv, DInv, IInv, TypeOK
<1>2. RefInv' /\ GoodInv'  BY RefStep DEF OnceInv, RefInv
<1>3. losses' = 0 => losses = 0  BY <1>1, LossesCount
<1>4. CASE Restart
  <2>1. /\ restarts' = restarts + 1 /\ done' = saved.done /\ inFile' = saved.queued
        /\ UNCHANGED <<temp, disk>>
    BY <1>4 DEF Restart
  <2>2. SavedInv'  BY <1>1, <2>1 DEF SavedInv
  <2>3. restarts' = 1 /\ losses' = 0 => DoneIsGood'
    BY <1>1, <1>3, <2>1 DEF OnceInv, SavedInv, DoneIsGood
  <2>. QED  BY <1>2, <2>2, <2>3 DEF OnceInv
<1>5. CASE ~Restart
  <2>1. restarts' = restarts  BY <1>5, RestartsCount
  <2>2. SavedInv'
    <3>1. CASE restarts = 0 /\ losses' = 0  BY <1>3, <1>5, <3>1, SavedStep
    <3>2. CASE ~(restarts = 0 /\ losses' = 0)  BY <2>1, <3>2 DEF SavedInv
    <3>. QED  BY <3>1, <3>2
  <2>3. DoneIsGood => DoneIsGood'  BY <1>1, <1>5, NoRestartGood
  <2>4. restarts' = 1 /\ losses' = 0 => DoneIsGood'  BY <1>3, <2>1, <2>3 DEF OnceInv
  <2>. QED  BY <1>2, <2>2, <2>4 DEF OnceInv
<1>. QED  BY <1>4, <1>5

\* What counts as finished is right after a restart too, at whatever moment
\* the program stopped and however old the saved queue was, unless somebody
\* deletes the temporary file.  (A second restart may bring back segments of a
\* temporary file that getDownload found missing after the first: the saved
\* queue has not been told.)
THEOREM FinishedIsRightAfterRestart ==
  ASSUME ~OVERLAP_CHUNKS  PROVE Spec => [](restarts <= 1 /\ losses = 0 => DoneIsGood)
<1>1. Init => OnceInv
  <2>. SUFFICES ASSUME Init PROVE OnceInv  OBVIOUS
  <2>1. done = {} /\ ~moving /\ ~saved.queued /\ restarts = 0  BY DEF Init
  <2>. QED  BY <2>1, RefInit DEF OnceInv, SavedInv
<1>2. OnceInv /\ [Next]_vars => OnceInv'  BY OnceStep
<1>3. OnceInv => (restarts <= 1 /\ losses = 0 => DoneIsGood)
  <2>1. OnceInv => restarts \in Nat
    BY LimitAssumption DEF OnceInv, RefInv, GoodInv, DInv, IInv, TypeOK
  <2>. QED  BY <2>1 DEF OnceInv, RefInv, GoodInv
<1>. QED  BY <1>1, <1>2, <1>3, PTL DEF Spec

-----------------------------------------------------------------------------
(***************************************************************************)
(* The recheck of the temporary file, beside all that the download does.   *)
(* What it adds to the finished segments are blocks of the file, one after *)
(* the other; AddBlocks is the last value of that recursion.               *)
(***************************************************************************)
NumBlocks == RoundUp(Size) \div BlockSize

OneMore(D, good, n) ==
  LET b == Candidate((n - 1) * BlockSize, 1) IN IF b \in good THEN AddSegment(D, b) ELSE D

UpTo(D, good, k, f) == f = [n \in 0 .. k |-> IF n = 0 THEN D ELSE OneMore(f[n - 1], good, n)]

\* The recursion has a value: the least k without one is not 0, nor one more
\* than a k with one.
LEMMA UpToThere == ASSUME NEW D, NEW good, NEW k \in Nat  PROVE \E f : UpTo(D, good, k, f)
<1>. DEFINE missing == {m \in Nat : ~ \E f : UpTo(D, good, m, f)}
<1>1. SUFFICES ASSUME missing # {}  PROVE FALSE  OBVIOUS
<1>2. PICK m \in missing : \A y \in missing : m <= y  BY <1>1, LeastElement
<1>3. m # 0
  <2>1. UpTo(D, good, 0, [n \in 0 .. 0 |-> D])  BY DEF UpTo
  <2>. QED  BY <1>2, <2>1
<1>4. m - 1 \in Nat /\ m - 1 \notin missing  BY <1>2, <1>3
<1>5. PICK f : UpTo(D, good, m - 1, f)  BY <1>4
<1>. DEFINE g == [n \in 0 .. m |-> IF n = m THEN OneMore(f[m - 1], good, m) ELSE f[n]]
<1>6. UpTo(D, good, m, g)
  <2>. DEFINE h == [n \in 0 .. m |-> IF n = 0 THEN D ELSE OneMore(g[n - 1], good, n)]
  <2>1. ASSUME NEW n \in 0 .. m  PROVE g[n] = h[n]
    <3>1. CASE n = m
      <4>1. g[m - 1] = f[m - 1]  BY <1>2, <1>4
      <4>. QED  BY <1>3, <3>1, <4>1
    <3>2. CASE n = 0  BY <1>3, <1>4, <1>5, <3>2 DEF UpTo
    <3>3. CASE n # m /\ n # 0
      <4>1. n \in 0 .. m - 1 /\ n - 1 \in 0 .. m - 1  BY <1>4, <3>3
      <4>2. f[n] = OneMore(f[n - 1], good, n)  BY <1>5, <3>3, <4>1 DEF UpTo
      <4>3. g[n] = f[n] /\ g[n - 1] = f[n - 1]  BY <1>4, <3>3, <4>1
      <4>. QED  BY <3>3, <4>2, <4>3
    <3>. QED  BY <3>1, <3>2, <3>3
  <2>2. g = h  BY <2>1
  <2>. QED  BY <2>2 DEF UpTo
<1>. QED  BY <1>2, <1>6

LEMMA AddBlocksIs == ASSUME NEW D, NEW good
                     PROVE  \E f : UpTo(D, good, NumBlocks, f) /\ AddBlocks(D, good) = f[NumBlocks]
<1>. DEFINE up == CHOOSE f : UpTo(D, good, NumBlocks, f)
<1>1. NumBlocks \in Nat  BY OneBlock DEF NumBlocks
<1>2. UpTo(D, good, NumBlocks, up)  BY <1>1, UpToThere
<1>3. AddBlocks(D, good) = up[NumBlocks]  BY DEF AddBlocks, UpTo, NumBlocks, OneMore
<1>. QED  BY <1>2, <1>3

\* Every block the recheck adds starts at a boundary inside the file.
LEMMA BlockStart == ASSUME NEW n \in 1 .. NumBlocks  PROVE (n - 1) * BlockSize \in ScanPoints
<1>1. NumBlocks \in Nat  BY OneBlock DEF NumBlocks
<1>2. (n - 1) * BlockSize \in Nat /\ ((n - 1) * BlockSize) % BlockSize = 0
  BY <1>1, WholeBlocks, BlockAssumption
<1>3. RoundUp(Size) = NumBlocks * BlockSize
  <2>1. (Size + BlockSize - 1) \div BlockSize \in Int  BY SizeAssumption, BlockAssumption
  <2>2. \A k \in Int : (k * BlockSize) \div BlockSize = k  BY BlockAssumption
  <2>. QED  BY <2>1, <2>2 DEF RoundUp, NumBlocks
<1>4. RoundUp(Size) <= Size + BlockSize - 1
  <2>. DEFINE x == Size + BlockSize - 1
              q == x \div BlockSize
              r == x % BlockSize
  <2>1. x \in Nat  BY SizeAssumption, BlockAssumption
  <2>2. x = BlockSize * q + r /\ r \in 0 .. BlockSize - 1 /\ q \in Int
    BY <2>1, Division, Remainder, BlockAssumption
  <2>3. RoundUp(Size) = q * BlockSize  BY DEF RoundUp
  <2>. HIDE DEF x, q, r
  <2>4. q * BlockSize \in Int /\ q * BlockSize = BlockSize * q  BY <2>2, BlockAssumption
  <2>5. RoundUp(Size) <= x  BY <2>1, <2>2, <2>3, <2>4
  <2>. QED  BY <2>5 DEF x
<1>5. (n - 1) * BlockSize + BlockSize <= NumBlocks * BlockSize
  <2>1. (n - 1) * BlockSize + BlockSize = n * BlockSize  BY <1>1, BlockAssumption
  <2>2. (NumBlocks - n) * BlockSize \in Nat  BY <1>1, BlockAssumption
  <2>3. NumBlocks * BlockSize = n * BlockSize + (NumBlocks - n) * BlockSize  BY <1>1, BlockAssumption
  <2>4. n * BlockSize \in Int /\ NumBlocks * BlockSize \in Int  BY <1>1, BlockAssumption
  <2>. QED  BY <2>1, <2>2, <2>3, <2>4
<1>6. (n - 1) * BlockSize <= Size - 1
  <2>. DEFINE y == (n - 1) * BlockSize
              z == NumBlocks * BlockSize
  <2>1. y \in Nat /\ z \in Int /\ y + BlockSize <= z /\ z <= Size + BlockSize - 1
    BY <1>1, <1>2, <1>3, <1>4, <1>5, BlockAssumption
  <2>. HIDE DEF y, z
  <2>2. y <= Size - 1  BY <2>1, SizeAssumption, BlockAssumption
  <2>. QED  BY <2>2 DEF y
<1>. QED  BY <1>2, <1>6 DEF ScanPoints

\* What the recheck notes are whole blocks, apart, and no byte but those that
\* were finished or have matched.
LEMMA AddBlocksFact ==
  ASSUME NEW D \in SUBSET SegmentType, SegmentsOK(D), NEW good \in SUBSET SegmentType
  PROVE  /\ AddBlocks(D, good) \in SUBSET SegmentType
         /\ SegmentsOK(AddBlocks(D, good))
         /\ Covered(AddBlocks(D, good)) \subseteq Covered(D) \cup Covered(good)
<1>. DEFINE OK(E) == /\ E \in SUBSET SegmentType /\ SegmentsOK(E)
                     /\ Covered(E) \subseteq Covered(D) \cup Covered(good)
<1>0. SUFFICES OK(AddBlocks(D, good))  OBVIOUS
<1>1. PICK f : UpTo(D, good, NumBlocks, f) /\ AddBlocks(D, good) = f[NumBlocks]  BY AddBlocksIs
<1>2. NumBlocks \in Nat  BY OneBlock DEF NumBlocks
<1>. DEFINE wrong == {n \in 0 .. NumBlocks : ~OK(f[n])}
<1>3. SUFFICES ASSUME wrong # {}  PROVE FALSE
  <2>1. NumBlocks \in 0 .. NumBlocks  BY <1>2
  <2>. HIDE DEF OK
  <2>. QED  BY <1>1, <2>1
<1>4. wrong \in SUBSET Nat  BY <1>2
<1>5. PICK n \in wrong : \A m \in wrong : n <= m
  <2>. HIDE DEF wrong
  <2>. QED  BY <1>3, <1>4, LeastElement
<1>6. n # 0
  <2>1. f[0] = D  BY <1>1, <1>2 DEF UpTo
  <2>2. OK(D)  OBVIOUS
  <2>. HIDE DEF OK
  <2>. QED  BY <1>5, <2>1, <2>2
<1>7. n - 1 \in 0 .. NumBlocks /\ n \in 1 .. NumBlocks  BY <1>2, <1>5, <1>6
<1>8. OK(f[n - 1])
  <2>1. n - 1 \notin wrong  BY <1>2, <1>4, <1>5, <1>7
  <2>. HIDE DEF OK
  <2>. QED  BY <1>7, <2>1
<1>9. f[n] = OneMore(f[n - 1], good, n)  BY <1>1, <1>2, <1>7 DEF UpTo
<1>. DEFINE b == Candidate((n - 1) * BlockSize, 1)
            E == f[n - 1]
<1>10. b \in SegmentType /\ OnBoundary(b)  BY <1>7, BlockStart, CandidateFact
<1>11. CASE b \in good
  <2>. HIDE DEF b, E
  <2>1. f[n] = AddSegment(E, b)  BY <1>9, <1>11 DEF OneMore, b, E
  <2>2. AddSegment(E, b) \in SUBSET SegmentType  BY <1>8, <1>10, AddSegmentType DEF E
  <2>3. SegmentsOK(AddSegment(E, b))
    BY <1>8, <1>10, AddSegmentConsolidated, AddSegmentOnBoundary DEF SegmentsOK, E
  <2>4. Covered(AddSegment(E, b)) \subseteq Covered(E) \cup Bytes(b)
    BY <1>8, <1>10, AddSegmentBytes DEF E
  <2>5. Bytes(b) \subseteq Covered(good)  BY <1>11 DEF Covered
  <2>6. Covered(E) \subseteq Covered(D) \cup Covered(good)  BY <1>8 DEF E
  <2>7. OK(f[n])  BY <2>1, <2>2, <2>3, <2>4, <2>5, <2>6
  <2>. HIDE DEF OK
  <2>. QED  BY <1>5, <2>7
<1>12. CASE b \notin good
  <2>1. f[n] = f[n - 1]  BY <1>9, <1>12 DEF OneMore
  <2>. HIDE DEF OK
  <2>. QED  BY <1>5, <1>8, <2>1
<1>. QED  BY <1>11, <1>12

-----------------------------------------------------------------------------
(***************************************************************************)
(* The inductive invariant of the recheck's types: that of the download,   *)
(* and what the thread remembers across the lock.                          *)
(***************************************************************************)
CheckOK == /\ check \in [phase : {"idle", "tree", "hash", "verdict"}, upto : 0 .. Size,
                         good : SUBSET SegmentType, allGood : BOOLEAN]
           /\ rechecks \in 0 .. MaxRechecks

RTInv == IInv /\ CheckOK

LEMMA TempSizeFact == TempSize \in 0 .. Size
<1>. DEFINE S == {b \in Offsets : disk[b] # "none"}
<1>1. IsFiniteSet(Offsets) /\ Cardinality(Offsets) = Size
  <2>1. 0 \in Int /\ Size - 1 \in Int /\ 0 <= Size - 1 + 1  BY SizeAssumption
  <2>2. IsFiniteSet(0 .. Size - 1) /\ Cardinality(0 .. Size - 1) = Size - 1 - 0 + 1
    BY <2>1, SizeAssumption, FS_Interval
  <2>. QED  BY <2>2, SizeAssumption DEF Offsets
<1>2. S \in SUBSET Offsets  OBVIOUS
<1>. HIDE DEF S
<1>3. IsFiniteSet(S) /\ Cardinality(S) <= Cardinality(Offsets)  BY <1>1, <1>2, FS_Subset
<1>4. Cardinality(S) \in Nat  BY <1>3, FS_CardinalityType
<1>. QED  BY <1>1, <1>3, <1>4, SizeAssumption DEF TempSize, S

LEMMA IdleOK == Idle \in [phase : {"idle", "tree", "hash", "verdict"}, upto : 0 .. Size,
                          good : SUBSET SegmentType, allGood : BOOLEAN]
BY SizeAssumption DEF Idle

\* What the hashes are taken of are blocks, cut short where the file was.
LEMMA BlocksFact == ASSUME NEW k \in 0 .. Size  PROVE BlocksBelow(k) \in SUBSET SegmentType
<1>. SUFFICES ASSUME NEW p \in ScanPoints, p < k
              PROVE  Segment(p, Lowest(BlockSize, k - p)) \in SegmentType
  BY DEF BlocksBelow
<1>1. p \in Nat /\ k \in Nat  BY SizeAssumption DEF ScanPoints
<1>. QED  BY <1>1, BlockAssumption DEF Segment, SegmentType, Lowest

\* moveStuckFile notes the whole file as finished.
LEMMA StuckFact == ASSUME IInv
                   PROVE  /\ AddSegment(done, WholeFile) \in SUBSET SegmentType
                          /\ SegmentsOK(AddSegment(done, WholeFile))
BY ConstantsFact, AddSegmentType, AddSegmentConsolidated, AddSegmentOnBoundary
   DEF IInv, TypeOK, DoneOK, SegmentsOK

LEMMA RecheckStepTypes == ASSUME RTInv, RecheckStep  PROVE RTInv'
<1>1. IInv /\ CheckOK /\ TypeOK /\ check.upto \in 0 .. Size  BY DEF RTInv, IInv, CheckOK
<1>2. CASE RecheckLooks
  <2>1. /\ disk' = Extended /\ UNCHANGED <<done, saved, dl>>
        /\ UNCHANGED <<inFile, inUser, temp, target, moving, dirty, completed, restarts, losses>>
    BY <1>2 DEF RecheckLooks, queueVars
  <2>2. IInv'  BY <1>1, <2>1, ContentFact DEF IInv, TypeOK, DoneOK, SegmentsOK
  <2>3. check' \in [phase : {"idle", "tree", "hash", "verdict"}, upto : 0 .. Size,
                    good : SUBSET SegmentType, allGood : BOOLEAN]
    BY <1>2, TempSizeFact, IdleOK DEF RecheckLooks
  <2>4. rechecks' \in 0 .. MaxRechecks  BY <1>1, <1>2, RecheckAssumption DEF RecheckLooks, CheckOK
  <2>. QED  BY <2>2, <2>3, <2>4 DEF RTInv, CheckOK
<1>3. CASE RecheckForgets
  <2>1. /\ done' = IF inFile THEN {} ELSE done
        /\ UNCHANGED <<dl, inFile, inUser, temp, disk, target, moving, dirty, saved, completed>>
        /\ UNCHANGED <<restarts, losses, rechecks>>
    BY <1>3 DEF RecheckForgets, fileVars
  <2>2. IInv'  BY <1>1, <2>1 DEF IInv, TypeOK, DoneOK, SegmentsOK, Consolidated
  <2>3. check' \in [phase : {"idle", "tree", "hash", "verdict"}, upto : 0 .. Size,
                    good : SUBSET SegmentType, allGood : BOOLEAN]
    BY <1>1, <1>3, IdleOK DEF RecheckForgets, CheckOK
  <2>. QED  BY <1>1, <2>1, <2>2, <2>3 DEF RTInv, CheckOK
<1>4. CASE RecheckHashes
  <2>1. UNCHANGED vars /\ rechecks' = rechecks  BY <1>4 DEF RecheckHashes
  <2>2. IInv'  BY <1>1, <2>1 DEF vars, IInv, TypeOK, DoneOK, SegmentsOK
  <2>. DEFINE good == {b \in BlocksBelow(check.upto) : Matches(b)}
  <2>3. good \in SUBSET SegmentType  BY <1>1, BlocksFact
  <2>4. check' = [check EXCEPT !.phase = "verdict", !.good = good,
                               !.allGood = good = BlocksBelow(check.upto)]
    BY <1>4 DEF RecheckHashes
  <2>. HIDE DEF good
  <2>. DEFINE ag == good = BlocksBelow(check.upto)
  <2>5. ag \in BOOLEAN  OBVIOUS
  <2>6. check' = [check EXCEPT !.phase = "verdict", !.good = good, !.allGood = ag]  BY <2>4
  <2>. HIDE DEF ag
  <2>7. check' \in [phase : {"idle", "tree", "hash", "verdict"}, upto : 0 .. Size,
                    good : SUBSET SegmentType, allGood : BOOLEAN]
    BY <1>1, <2>3, <2>5, <2>6 DEF CheckOK
  <2>. QED  BY <1>1, <2>1, <2>2, <2>7 DEF RTInv, CheckOK
<1>5. CASE RecheckFindsBad
  <2>1. /\ done' = AddBlocks(done, check.good) /\ dirty' = TRUE /\ check' = Idle
        /\ UNCHANGED <<dl, inFile, inUser, temp, disk, target, moving, saved, completed>>
        /\ UNCHANGED <<restarts, losses, rechecks>>
    BY <1>5 DEF RecheckFindsBad, fileVars
  <2>2. done \in SUBSET SegmentType /\ SegmentsOK(done) /\ check.good \in SUBSET SegmentType
    BY <1>1 DEF IInv, TypeOK, DoneOK, SegmentsOK, CheckOK
  <2>3. done' \in SUBSET SegmentType /\ SegmentsOK(done')
    BY <2>1, <2>2, AddBlocksFact
  <2>4. IInv'  BY <1>1, <2>1, <2>3 DEF IInv, TypeOK, DoneOK, SegmentsOK
  <2>. QED  BY <1>1, <2>1, <2>4, IdleOK DEF RTInv, CheckOK
<1>6. CASE MoveStuckFile
  <2>1. /\ MoveTemp(Open) /\ inUser' = (inUser /\ ~IsFinished(done))
        /\ inFile' = KEEP_FINISHED_FILES
        /\ dl' \in {dl, Unlisted} /\ done' \in {done, AddSegment(done, WholeFile)}
        /\ completed' = TRUE /\ check' = Idle
        /\ UNCHANGED <<dirty, saved, restarts, losses, rechecks>>
    BY <1>6 DEF MoveStuckFile
  <2>2. /\ temp' \in BOOLEAN /\ disk' \in [Offsets -> Contents]
        /\ target' \in Contents /\ moving' \in BOOLEAN
    BY <1>1, <2>1, MoveFact
  <2>3. dl' \in [Users -> Download] /\ \A v \in Users : DownloadOK(dl'[v])
    BY <1>1, <2>1, UnlistedFact DEF IInv, TypeOK
  <2>4. done' \in SUBSET SegmentType /\ SegmentsOK(done')
    <3>1. done \in SUBSET SegmentType /\ SegmentsOK(done)
      BY <1>1 DEF IInv, TypeOK, DoneOK, SegmentsOK
    <3>. QED  BY <1>1, <2>1, <3>1, StuckFact
  <2>5. inUser' \in BOOLEAN /\ inFile' \in BOOLEAN  BY <1>1, <2>1, SettingAssumption DEF TypeOK
  <2>6. TypeOK'  BY <1>1, <2>1, <2>2, <2>3, <2>4, <2>5 DEF TypeOK
  <2>7. IInv'  BY <1>1, <2>1, <2>3, <2>4, <2>6 DEF IInv, DoneOK, SegmentsOK
  <2>. QED  BY <1>1, <2>1, <2>7, IdleOK DEF RTInv, CheckOK
<1>7. CASE RecheckGivesUp
  <2>1. UNCHANGED vars /\ rechecks' = rechecks /\ check' = Idle  BY <1>7 DEF RecheckGivesUp
  <2>2. IInv'  BY <1>1, <2>1 DEF vars, IInv, TypeOK, DoneOK, SegmentsOK
  <2>. QED  BY <1>1, <2>1, <2>2, IdleOK DEF RTInv, CheckOK
<1>. QED  BY <1>2, <1>3, <1>4, <1>5, <1>6, <1>7 DEF RecheckStep

LEMMA RecheckTypesStep == ASSUME RTInv, [RecheckNext]_allVars  PROVE RTInv'
<1>1. CASE RecheckStep  BY <1>1, RecheckStepTypes
<1>2. CASE DownloadStep
  <2>1. [Next]_vars /\ UNCHANGED <<check, rechecks>>  BY <1>2 DEF DownloadStep, Next, recheckVars
  <2>. QED  BY <2>1, StepPreserves DEF RTInv, CheckOK
<1>3. CASE Crash
  <2>1. [Next]_vars /\ check' = Idle /\ rechecks' = rechecks  BY <1>3 DEF Crash, Next
  <2>. QED  BY <2>1, StepPreserves, IdleOK DEF RTInv, CheckOK
<1>4. CASE UNCHANGED allVars
  <2>1. [Next]_vars /\ UNCHANGED <<check, rechecks>>  BY <1>4 DEF allVars, vars
  <2>. QED  BY <2>1, StepPreserves DEF RTInv, CheckOK
<1>. QED  BY <1>1, <1>2, <1>3, <1>4 DEF RecheckNext

LEMMA RecheckTypesInit == RecheckInit => RTInv
BY InitEstablishes, IdleOK, RecheckAssumption DEF RecheckInit, RTInv, CheckOK

\* Everything keeps its type when a temporary file is rechecked beside the
\* downloads, moved when it is found complete, and hashed while they go on.
THEOREM RecheckTypeCorrect == RecheckSpec => []RecheckTypeOK
<1>1. RTInv => RecheckTypeOK  BY DEF RTInv, IInv, CheckOK, RecheckTypeOK
<1>. QED  BY <1>1, RecheckTypesInit, RecheckTypesStep, PTL DEF RecheckSpec

\* The finished segments stay whole blocks that never touch, though the
\* recheck forgets them, adds the blocks that match one by one while downloads
\* may add theirs, or notes the whole file.
THEOREM RecheckKeepsSegments == RecheckSpec => []DoneOK
<1>1. RTInv => DoneOK  BY DEF RTInv, IInv
<1>. QED  BY <1>1, RecheckTypesInit, RecheckTypesStep, PTL DEF RecheckSpec

-----------------------------------------------------------------------------
(***************************************************************************)
(* The recheck and what is finished.  It forgets the finished segments     *)
(* while downloads may still write behind them, so that a wrong byte may   *)
(* come over a right one; from honest users none comes.  The steps of the  *)
(* download then keep the right bytes, and the temporary file for as long  *)
(* as the item is queued and nobody deletes it.                            *)
(***************************************************************************)
Untainted == \A v \in Users : ~dl[v].tainted
Keeps == \A b \in Offsets : disk[b] = "good" => disk'[b] = "good"
FileKept ==
  /\ inFile' => inFile
  /\ temp' => (temp /\ Keeps) \/ (~temp /\ inFile /\ done = {} /\ done' = {})
  /\ temp /\ inFile' => temp' \/ losses' # losses \/ moving
  /\ done' # {} => done # {} \/ temp
  /\ moving' => moving \/ ~inFile'
  /\ UNCHANGED <<saved, restarts>>

LEMMA KeepsStream ==
  ASSUME IInv, NEW v \in Users, Stream(dl[v]), temp' = temp, Keeps,
         dl'[v].seg = dl[v].seg, dl'[v].phase = dl[v].phase, dl'[v].pos = dl[v].pos,
         dl'[v].file = dl[v].file, dl'[v].tainted = dl[v].tainted
  PROVE  Stream(dl[v])'
<1>1. Passed(dl'[v]) = Passed(dl[v])  BY DEF Passed
<1>2. Passed(dl[v]) \subseteq Offsets  BY PassedFact
<1>. QED  BY <1>1, <1>2 DEF Stream, Keeps

LEMMA DoneInFile == ASSUME IInv  PROVE Covered(done) \subseteq Offsets
<1>1. \A d \in done : d.start \in Nat /\ d.size \in Nat /\ End(d) <= Size
  BY DEF IInv, TypeOK, DoneOK, OnBoundary, SegmentType
<1>. QED  BY <1>1, SizeAssumption DEF Covered, Bytes, End, Offsets

LEMMA KeepsDone == ASSUME IInv, DoneIsGood, Keeps, UNCHANGED <<temp, inFile, done>>
                   PROVE  DoneIsGood'
BY DoneInFile DEF DoneIsGood, Keeps

\* A byte from an honest user is right, wherever it goes.
LEMMA ReceiveHonest ==
  ASSUME StreamInv, Untainted, BadUsers = {}, NEW u \in Users, Receive(u)
  PROVE  /\ (\A v \in Users : Stream(dl[v])') /\ Untainted'
         /\ Keeps /\ UNCHANGED temp /\ (DoneIsGood => DoneIsGood')
<1>. DEFINE p == dl[u].seg.start + dl[u].pos
<1>1. /\ IInv /\ disk \in [Offsets -> Contents]
      /\ \A v \in Users : Stream(dl[v]) /\ dl[v] \in Download /\ ~dl[v].tainted
  BY DEF StreamInv, IInv, TypeOK, Untainted
<1>2. /\ dl[u].phase = "running" /\ dl[u].seg \in SegmentType /\ dl[u].pos < dl[u].seg.size
      /\ \A v \in Users : /\ dl'[v].seg = dl[v].seg /\ dl'[v].file = dl[v].file
                          /\ v # u => dl'[v] = dl[v]
      /\ \/ /\ dl'[u].phase = "failing" /\ dl'[u].pos = dl[u].pos
            /\ dl'[u].tainted = dl[u].tainted /\ UNCHANGED disk
         \/ /\ dl'[u].phase \in {"running", "finishing"}
            /\ disk' = Written(p, "good") /\ ~dl[u].tainted /\ ~dl'[u].tainted
            /\ dl'[u].pos = dl[u].pos + 1
            /\ dl'[u].phase = "finishing" => dl'[u].pos = dl[u].seg.size
  BY <1>1, ReceiveFact
<1>3. temp' = temp /\ UNCHANGED <<done, inFile>>  BY DEF Receive, queueVars
<1>4. dl[u].seg.start \in Nat /\ dl[u].pos \in Nat /\ dl[u].seg.size \in Nat /\ dl[u].file
  BY <1>1, <1>2 DEF SegmentType, Download, Stream
<1>5. p \in Offsets  BY <1>1, <1>2, <1>4, PassedFact DEF Bytes, End
<1>. HIDE DEF p
<1>6. Keeps /\ (disk' = Written(p, "good") => disk'[p] = "good")
  BY <1>1, <1>2, <1>5 DEF Written, Keeps
<1>7. ASSUME NEW v \in Users \ {u}  PROVE Stream(dl[v])'
  BY <1>1, <1>2, <1>3, <1>6, KeepsStream
<1>8. Stream(dl[u])'
  <2>1. Passed(dl[u]) \subseteq Offsets /\ \A b \in Passed(dl[u]) : disk[b] = "good"
    BY <1>1, <1>4, PassedFact DEF Stream
  <2>2. \A b \in Passed(dl[u]) : disk'[b] = "good"  BY <1>6, <2>1 DEF Keeps
  <2>3. Passed(dl'[u]) = Passed(dl[u])
        \/ (Passed(dl'[u]) = Passed(dl[u]) \cup {p} /\ disk' = Written(p, "good"))
    <3>1. CASE dl'[u].pos = dl[u].pos /\ dl'[u].tainted = dl[u].tainted
      BY <1>2, <3>1 DEF Passed
    <3>2. CASE /\ disk' = Written(p, "good") /\ ~dl[u].tainted /\ ~dl'[u].tainted
               /\ dl'[u].pos = dl[u].pos + 1
      <4>1. Passed(dl'[u]) = Passed(dl[u]) \cup {p}  BY <1>2, <1>4, <3>2 DEF Passed, p
      <4>. QED  BY <3>2, <4>1
    <3>. QED  BY <1>2, <3>1, <3>2
  <2>4. \A b \in Passed(dl'[u]) : disk'[b] = "good"  BY <1>6, <2>2, <2>3
  <2>. QED  BY <1>1, <1>2, <1>3, <1>4, <2>4 DEF Stream
<1>9. Untainted'  BY <1>1, <1>2 DEF Untainted
<1>. QED  BY <1>1, <1>3, <1>6, <1>7, <1>8, <1>9, KeepsDone

\* The steps of the download that neither save the queue nor restart.
LEMMA HonestUser ==
  ASSUME StreamInv, Untainted, BadUsers = {}, ~KEEP_FINISHED_FILES, NEW u \in Users, UserNext(u)
  PROVE  /\ (\A v \in Users : Stream(dl[v])') /\ Untainted'
         /\ FileKept /\ (DoneIsGood => DoneIsGood')
<1>1. IInv /\ (\A v \in Users : ~dl[v].tainted /\ Stream(dl[v])) /\ dl \in [Users -> Download]
  BY DEF StreamInv, Untainted, IInv, TypeOK
<1>2. CASE GetDownload(u)
  <2>1. /\ UNCHANGED <<inFile, temp, disk, moving, saved, restarts>>
        /\ done' \in {done, {}} /\ ~dl'[u].tainted
        /\ \A v \in Users \ {u} : dl'[v].tainted = dl[v].tainted
    BY <1>1, <1>2, GetDownloadIs DEF fileVars
  <2>2. Untainted'  BY <1>1, <2>1 DEF Untainted
  <2>3. FileKept  BY <2>1 DEF FileKept, Keeps
  <2>. QED  BY <1>2, <2>2, <2>3, OtherUserGood
<1>3. CASE StartData(u)
  <2>1. /\ \A v \in Users : dl'[v].tainted = dl[v].tainted
        /\ \/ UNCHANGED fileVars
           \/ /\ ~(SomethingDownloaded /\ ~temp) /\ temp' = TRUE /\ disk' \in {disk, Extended}
    BY <1>1, <1>3, StartDataFact
  <2>2. UNCHANGED <<done, inFile, saved, restarts>>  BY <1>3 DEF StartData, queueVars
  <2>3. UNCHANGED moving  BY <1>3 DEF StartData, StartFails, OpenTemp, fileVars
  <2>4. ~inFile => UNCHANGED fileVars  BY <1>3 DEF StartData, StartFails
  <2>5. disk' \in {disk, Extended} => Keeps
    <3>1. disk \in [Offsets -> Contents]  BY <1>1 DEF IInv, TypeOK
    <3>. QED  BY <3>1 DEF Keeps, Extended
  <2>6. UNCHANGED fileVars => temp' = temp /\ disk' = disk  BY DEF fileVars
  <2>7. FileKept  BY <2>1, <2>2, <2>3, <2>4, <2>5, <2>6 DEF FileKept, SomethingDownloaded
  <2>8. Untainted'  BY <1>1, <2>1 DEF Untainted
  <2>. QED  BY <1>3, <2>7, <2>8, StartDataGood
<1>4. CASE Receive(u)
  <2>1. /\ (\A v \in Users : Stream(dl[v])') /\ Untainted'
        /\ Keeps /\ UNCHANGED temp /\ (DoneIsGood => DoneIsGood')
    BY <1>4, ReceiveHonest
  <2>2. UNCHANGED <<done, inFile, moving, saved, restarts>>  BY <1>4 DEF Receive, queueVars
  <2>. QED  BY <2>1, <2>2 DEF FileKept
<1>5. CASE ConnectionFails(u)
  <2>1. UNCHANGED <<done, inFile, temp, disk, moving, saved, restarts>>
    BY <1>5 DEF ConnectionFails, queueVars, fileVars
  <2>2. Untainted'  BY <1>1, <1>5, ConnectionFailsFact DEF Untainted
  <2>3. FileKept  BY <2>1 DEF FileKept, Keeps
  <2>. QED  BY <1>5, <2>2, <2>3, OtherUserGood
<1>6. CASE PutOrphan(u)
  <2>1. /\ ~inFile /\ UNCHANGED <<done, inFile, moving, saved, restarts>>
        /\ DeleteTemp(Open \ {u}) /\ dl' = [dl EXCEPT ![u] = NoDownload]
    BY <1>6 DEF PutOrphan, queueVars, DeleteTemp
  <2>2. UNCHANGED <<temp, disk>> \/ ~temp'  BY <2>1, EraseFact
  <2>3. Untainted'  BY <1>1, <2>1 DEF Untainted, NoDownload
  <2>4. FileKept  BY <2>1, <2>2 DEF FileKept, Keeps
  <2>. QED  BY <1>6, <2>3, <2>4, OrphanGood
<1>7. CASE PutSegment(u)
  <2>1. /\ dl[u].phase = "finishing" /\ dl' = [dl EXCEPT ![u] = NoDownload]
        /\ UNCHANGED <<inFile, temp, disk, moving, saved, restarts>>
    BY <1>7 DEF PutSegment, fileVars
  <2>2. temp  BY <1>1, <2>1 DEF Stream
  <2>3. Untainted'  BY <1>1, <2>1 DEF Untainted, NoDownload
  <2>4. FileKept  BY <2>1, <2>2 DEF FileKept, Keeps
  <2>. QED  BY <1>7, <2>3, <2>4, SegmentGood
<1>8. CASE PutLastSegment(u)
  <2>1. /\ dl[u].phase = "finishing" /\ dl' = [Dropped EXCEPT ![u] = NoDownload]
        /\ ~inFile' /\ MoveTemp(Open \ {u}) /\ UNCHANGED <<saved, restarts>>
    BY <1>8 DEF PutLastSegment
  <2>2. temp  BY <1>1, <2>1 DEF Stream
  <2>3. UNCHANGED <<temp, disk>> \/ ~temp'  BY <2>1, EraseFact
  <2>4. Untainted'
    <3>1. Dropped \in [Users -> Download]  BY <1>1, DroppedFact
    <3>2. dl'[u].tainted = FALSE /\ \A v \in Users \ {u} : dl'[v].tainted = dl[v].tainted
      BY <1>1, <2>1, <3>1, DroppedIs DEF NoDownload
    <3>. QED  BY <1>1, <3>2 DEF Untainted
  <2>5. FileKept  BY <2>1, <2>2, <2>3 DEF FileKept, Keeps
  <2>. QED  BY <1>8, <2>4, <2>5, SegmentGood
<1>9. CASE PutFailed(u)
  <2>1. /\ dl[u].phase = "failing" /\ UNCHANGED <<inFile, temp, disk, moving>>
        /\ dl'[u] = NoDownload /\ \A v \in Users \ {u} : dl'[v].tainted = dl[v].tainted
        /\ done' = IF Kept(u) > 0 THEN AddSegment(done, Segment(dl[u].seg.start, Kept(u))) ELSE done
    BY <1>1, <1>9, PutFailedFact DEF fileVars
  <2>2. UNCHANGED <<saved, restarts>>  BY <1>9 DEF PutFailed
  <2>3. Untainted'  BY <1>1, <2>1 DEF Untainted, NoDownload
  <2>4. Kept(u) > 0 => temp
    <3>1. dl[u].pos \in Nat  BY <1>1 DEF Download
    <3>2. Kept(u) > 0 => dl[u].pos > 0  BY <3>1, AlignDownFact DEF Kept
    <3>. QED  BY <1>1, <3>2 DEF Stream
  <2>5. FileKept  BY <2>1, <2>2, <2>4 DEF FileKept, Keeps
  <2>. QED  BY <1>9, <2>3, <2>5, FailedGood
<1>10. CASE RemoveDisconnects(u)
  <2>1. /\ UNCHANGED <<done, inFile, temp, disk, moving, saved, restarts>>
        /\ \A v \in Users : dl'[v].tainted = dl[v].tainted
    BY <1>1, <1>10, RemoveDisconnectsFact
  <2>2. Untainted'  BY <1>1, <2>1 DEF Untainted
  <2>3. FileKept  BY <2>1 DEF FileKept, Keeps
  <2>. QED  BY <1>10, <2>2, <2>3, OtherUserGood
<1>. QED  BY <1>2, <1>3, <1>4, <1>5, <1>6, <1>7, <1>8, <1>9, <1>10 DEF UserNext

LEMMA HonestStep ==
  ASSUME StreamInv, Untainted, BadUsers = {}, ~KEEP_FINISHED_FILES,
         [Next]_vars, ~Restart, ~SaveQueue
  PROVE  /\ (\A v \in Users : Stream(dl[v])') /\ Untainted'
         /\ FileKept /\ (DoneIsGood => DoneIsGood')
<1>1. CASE \E u \in Users : UserNext(u)  BY <1>1, HonestUser
<1>2. CASE RunMover
  <2>1. /\ UNCHANGED <<dl, done, inFile, saved, restarts>> /\ moving /\ ~moving'
        /\ RenameTemp(Open)
    BY <1>2 DEF RunMover, queueVars
  <2>2. UNCHANGED <<temp, disk>> \/ ~temp'  BY <2>1, EraseFact
  <2>3. FileKept  BY <2>1, <2>2 DEF FileKept, Keeps
  <2>4. Untainted'  BY <2>1 DEF Untainted
  <2>. QED  BY <1>2, <2>3, <2>4, FileStepGood
<1>3. CASE UserRemoves
  <2>1. ~inFile' /\ UNCHANGED <<done, saved, restarts>>  BY <1>3 DEF UserRemoves
  <2>2. UNCHANGED <<temp, disk, moving>> \/ (~temp' /\ UNCHANGED moving)
    <3>1. DeleteTemp(Open) \/ UNCHANGED fileVars  BY <1>3 DEF UserRemoves
    <3>. QED  BY <3>1 DEF DeleteTemp, Erase, fileVars
  <2>3. FileKept  BY <2>1, <2>2 DEF FileKept, Keeps
  <2>4. Untainted'  BY <1>3, UserRemovesIs DEF Untainted, StreamInv
  <2>. QED  BY <1>3, <2>3, <2>4, RemovesGood
<1>4. CASE LoseTemp
  <2>1. UNCHANGED <<dl, done, inFile, moving, saved, restarts>> /\ ~temp' /\ losses' = losses + 1
    BY <1>4 DEF LoseTemp, queueVars
  <2>2. losses' # losses  BY <2>1 DEF StreamInv, IInv, TypeOK
  <2>3. FileKept  BY <2>1, <2>2 DEF FileKept
  <2>4. Untainted'  BY <2>1 DEF Untainted
  <2>. QED  BY <1>4, <2>3, <2>4, FileStepGood
<1>5. CASE UNCHANGED vars
  <2>1. FileKept /\ Untainted'  BY <1>5 DEF vars, FileKept, Untainted, Keeps
  <2>. QED  BY <1>5, <2>1, FileStepGood
<1>. QED  BY <1>1, <1>2, <1>3, <1>4, <1>5 DEF Next

(***************************************************************************)
(* The inductive invariant.  What a block matched stays right until the    *)
(* recheck notes it, because nobody takes the temporary file away and only *)
(* right bytes are written; and what Queue.xml says is right too, as long  *)
(* as there has been no restart, so that it may come back once.            *)
(***************************************************************************)
VerdictRight ==
  check.phase = "verdict" /\ inFile =>
    temp /\ Covered(check.good) \subseteq {b \in Offsets : disk[b] = "good"}

QueueRight ==
  /\ inFile /\ done # {} => temp
  /\ saved.queued /\ temp => \A b \in Covered(saved.done) : disk[b] = "good"
  /\ inFile /\ saved.queued /\ saved.done # {} => temp

RecheckInv ==
  /\ RTInv
  /\ \A u \in Users : Stream(dl[u])
  /\ Untainted
  /\ moving => ~inFile
  /\ losses = 0 => VerdictRight
  /\ losses = 0 /\ restarts = 0 => QueueRight
  /\ losses = 0 /\ restarts <= 1 => DoneIsGood

LEMMA SavedInFile == ASSUME IInv  PROVE Covered(saved.done) \subseteq Offsets
<1>1. \A d \in saved.done : d.start \in Nat /\ d.size \in Nat /\ End(d) <= Size
  BY DEF IInv, TypeOK, SegmentsOK, OnBoundary, SegmentType
<1>. QED  BY <1>1, SizeAssumption DEF Covered, Bytes, End, Offsets

\* A step of the download, the recheck looking on.
LEMMA DownloadKeepsRight ==
  ASSUME RecheckInv, BadUsers = {}, ~KEEP_FINISHED_FILES, [Next]_vars, ~Restart, RTInv',
         UNCHANGED check
  PROVE  RecheckInv'
<1>1. IInv /\ StreamInv /\ TypeOK  BY DEF RecheckInv, RTInv, IInv, StreamInv
<1>2. losses \in Nat /\ restarts \in Nat /\ restarts' = restarts /\ (losses' = 0 => losses = 0)
  BY <1>1, LossesCount, RestartsCount, LimitAssumption DEF TypeOK
<1>3. CASE SaveQueue
  <2>1. /\ UNCHANGED <<dl, done, inFile, temp, disk, moving, losses>>
        /\ saved' = [queued |-> inFile, done |-> IF inFile THEN done ELSE {}, completed |-> completed]
    BY <1>3 DEF SaveQueue, queueVars, fileVars
  <2>2. (\A v \in Users : Stream(dl[v])') /\ (DoneIsGood => DoneIsGood')
    BY <1>1, <1>3, FileStepGood
  <2>3. Untainted' /\ (moving' => ~inFile')  BY <2>1 DEF RecheckInv, Untainted
  <2>4. losses' = 0 => VerdictRight'  BY <2>1 DEF RecheckInv, VerdictRight
  <2>5. losses' = 0 /\ restarts' = 0 => QueueRight'
    BY <1>2, <2>1 DEF RecheckInv, QueueRight, DoneIsGood
  <2>. QED  BY <1>2, <2>1, <2>2, <2>3, <2>4, <2>5 DEF RecheckInv
<1>4. CASE ~SaveQueue
  <2>1. /\ (\A v \in Users : Stream(dl[v])') /\ Untainted'
        /\ FileKept /\ (DoneIsGood => DoneIsGood')
    BY <1>1, <1>4, HonestStep DEF RecheckInv
  <2>2. moving' => ~inFile'  BY <2>1 DEF RecheckInv, FileKept
  <2>3. ASSUME losses' = 0, VerdictRight, check.phase = "verdict", inFile'
        PROVE  temp' /\ Covered(check.good) \subseteq {b \in Offsets : disk'[b] = "good"}
    <3>1. inFile /\ temp /\ Covered(check.good) \subseteq {b \in Offsets : disk[b] = "good"}
      BY <2>1, <2>3 DEF VerdictRight, FileKept
    <3>2. losses' = losses /\ ~moving  BY <1>2, <2>3, <3>1 DEF RecheckInv
    <3>3. temp' /\ Keeps  BY <2>1, <2>3, <3>1, <3>2 DEF FileKept
    <3>. QED  BY <3>1, <3>3 DEF Keeps
  <2>4. losses' = 0 => VerdictRight'  BY <1>2, <2>3 DEF RecheckInv, VerdictRight
  <2>5. ASSUME losses' = 0, restarts' = 0  PROVE QueueRight'
    <3>1. losses = 0 /\ losses' = losses /\ restarts = 0 /\ QueueRight /\ saved' = saved
      BY <1>2, <2>1, <2>5 DEF RecheckInv, FileKept
    <3>2. temp /\ inFile' => temp'
      BY <2>1, <3>1 DEF FileKept, RecheckInv
    <3>3. inFile' /\ done' # {} => temp'  BY <2>1, <3>1, <3>2 DEF FileKept, QueueRight
    <3>4. inFile' /\ saved.queued /\ saved.done # {} => temp'
      BY <2>1, <3>1, <3>2 DEF FileKept, QueueRight
    <3>5. ASSUME saved.queued, temp', NEW b \in Covered(saved.done)  PROVE disk'[b] = "good"
      <4>1. CASE temp /\ Keeps
        <5>1. disk[b] = "good"  BY <3>1, <3>5, <4>1 DEF QueueRight
        <5>. QED  BY <1>1, <3>5, <4>1, <5>1, SavedInFile DEF Keeps
      <4>2. CASE ~temp /\ inFile
        <5>1. saved.done = {}  BY <3>1, <3>5, <4>2 DEF QueueRight
        <5>. QED  BY <3>5, <5>1 DEF Covered
      <4>. QED  BY <2>1, <3>5, <4>1, <4>2 DEF FileKept
    <3>. QED  BY <3>1, <3>3, <3>4, <3>5 DEF QueueRight
  <2>6. losses' = 0 /\ restarts' <= 1 => DoneIsGood'  BY <1>2, <2>1 DEF RecheckInv
  <2>. QED  BY <2>1, <2>2, <2>4, <2>5, <2>6 DEF RecheckInv
<1>. QED  BY <1>3, <1>4

\* A restart brings back what Queue.xml says.
LEMMA RestartKeepsRight ==
  ASSUME RecheckInv, Restart, check' = Idle, RTInv'
  PROVE  RecheckInv'
<1>1. /\ dl' = [u \in Users |-> NoDownload] /\ restarts' = restarts + 1 /\ losses' = losses
      /\ done' = saved.done /\ inFile' = saved.queued /\ moving' = FALSE
      /\ UNCHANGED <<temp, disk, saved>>
  BY DEF Restart
<1>2. restarts \in Nat  BY LimitAssumption DEF RecheckInv, RTInv, IInv, TypeOK
<1>3. (\A v \in Users : Stream(dl[v])') /\ Untainted'
  BY <1>1 DEF Stream, NoDownload, Untainted
<1>4. VerdictRight'  BY DEF VerdictRight, Idle
<1>5. losses' = 0 /\ restarts' <= 1 => DoneIsGood'
  BY <1>1, <1>2 DEF RecheckInv, QueueRight, DoneIsGood
<1>. QED  BY <1>1, <1>2, <1>3, <1>4, <1>5 DEF RecheckInv

LEMMA MatchesRight == ASSUME NEW k \in 0 .. Size
                      PROVE  Covered({b \in BlocksBelow(k) : Matches(b)})
                               \subseteq {b \in Offsets : disk[b] = "good"}
<1>. SUFFICES ASSUME NEW p \in ScanPoints, p < k, Matches(Segment(p, Lowest(BlockSize, k - p))),
                     NEW x \in Bytes(Segment(p, Lowest(BlockSize, k - p)))
              PROVE  x \in Offsets /\ disk[x] = "good"
  BY DEF Covered, BlocksBelow
<1>1. p \in Nat /\ k \in Nat  BY SizeAssumption DEF ScanPoints
<1>2. x \in p .. k - 1  BY <1>1, BlockAssumption DEF Bytes, End, Segment, Lowest
<1>3. x \in Offsets  BY <1>1, <1>2, SizeAssumption DEF Offsets
<1>4. disk[x] = "good"  BY DEF Matches
<1>. QED  BY <1>3, <1>4

\* A step of the recheck.
LEMMA RecheckKeepsRight ==
  ASSUME RecheckInv, ~KEEP_FINISHED_FILES, RecheckStep, RTInv'
  PROVE  RecheckInv'
<1>1. /\ IInv /\ TypeOK /\ CheckOK /\ check.upto \in 0 .. Size
      /\ \A v \in Users : Stream(dl[v])
  BY DEF RecheckInv, RTInv, IInv, CheckOK
<1>2. CASE RecheckLooks
  <2>1. /\ disk' = Extended /\ check'.phase \in {"tree", "idle"}
        /\ UNCHANGED <<dl, done, inFile, temp, moving, saved, restarts, losses>>
    BY <1>2 DEF RecheckLooks, queueVars, Idle
  <2>2. Keeps  BY <1>1, <2>1 DEF TypeOK, Extended, Keeps
  <2>3. \A v \in Users : Stream(dl[v])'  BY <1>1, <2>1, <2>2, KeepsStream
  <2>4. DoneIsGood => DoneIsGood'  BY <1>1, <2>1, <2>2, KeepsDone
  <2>5. QueueRight => QueueRight'
    BY <1>1, <2>1, <2>2, SavedInFile DEF QueueRight, Keeps
  <2>6. VerdictRight'  BY <2>1 DEF VerdictRight
  <2>7. Untainted' /\ (moving' => ~inFile')  BY <2>1 DEF RecheckInv, Untainted
  <2>. QED  BY <2>1, <2>3, <2>4, <2>5, <2>6, <2>7 DEF RecheckInv
<1>3. CASE RecheckForgets
  <2>1. /\ done' \in {done, {}} /\ check'.phase \in {"hash", "idle"}
        /\ UNCHANGED <<dl, inFile, temp, disk, moving, saved, restarts, losses>>
    BY <1>1, <1>3 DEF RecheckForgets, fileVars, CheckOK, Idle
  <2>2. \A v \in Users : Stream(dl[v])'  BY <1>1, <2>1, NothingWritten
  <2>3. DoneIsGood => DoneIsGood'  BY <2>1 DEF DoneIsGood, Covered
  <2>4. QueueRight => QueueRight'  BY <2>1 DEF QueueRight
  <2>5. VerdictRight'  BY <2>1 DEF VerdictRight
  <2>6. Untainted' /\ (moving' => ~inFile')  BY <2>1 DEF RecheckInv, Untainted
  <2>. QED  BY <2>1, <2>2, <2>3, <2>4, <2>5, <2>6 DEF RecheckInv
<1>4. CASE RecheckHashes
  <2>1. UNCHANGED <<dl, done, inFile, temp, disk, moving, saved, restarts, losses>> /\ temp
    BY <1>4 DEF RecheckHashes, vars
  <2>2. check'.good = {b \in BlocksBelow(check.upto) : Matches(b)}
    BY <1>1, <1>4 DEF RecheckHashes, CheckOK
  <2>3. \A v \in Users : Stream(dl[v])'  BY <1>1, <2>1, NothingWritten
  <2>4. DoneIsGood => DoneIsGood'  BY <2>1 DEF DoneIsGood
  <2>5. QueueRight => QueueRight'  BY <2>1 DEF QueueRight
  <2>6. VerdictRight'  BY <1>1, <2>1, <2>2, MatchesRight DEF VerdictRight
  <2>7. Untainted' /\ (moving' => ~inFile')  BY <2>1 DEF RecheckInv, Untainted
  <2>. QED  BY <2>1, <2>3, <2>4, <2>5, <2>6, <2>7 DEF RecheckInv
<1>5. CASE RecheckFindsBad
  <2>1. /\ done' = AddBlocks(done, check.good) /\ check' = Idle /\ inFile
        /\ check.phase = "verdict"
        /\ UNCHANGED <<dl, inFile, temp, disk, moving, saved, restarts, losses>>
    BY <1>5 DEF RecheckFindsBad, fileVars
  <2>2. Covered(done') \subseteq Covered(done) \cup Covered(check.good)
    <3>1. done \in SUBSET SegmentType /\ SegmentsOK(done) /\ check.good \in SUBSET SegmentType
      BY <1>1 DEF IInv, TypeOK, DoneOK, SegmentsOK, CheckOK
    <3>. QED  BY <2>1, <3>1, AddBlocksFact
  <2>3. losses' = 0 => temp /\ Covered(check.good) \subseteq {b \in Offsets : disk[b] = "good"}
    BY <2>1 DEF RecheckInv, VerdictRight
  <2>4. \A v \in Users : Stream(dl[v])'  BY <1>1, <2>1, NothingWritten
  <2>5. losses' = 0 /\ DoneIsGood => DoneIsGood'  BY <2>1, <2>2, <2>3 DEF DoneIsGood
  <2>6. losses' = 0 /\ QueueRight => QueueRight'  BY <2>1, <2>3 DEF QueueRight
  <2>7. VerdictRight'  BY <2>1 DEF VerdictRight, Idle
  <2>8. Untainted' /\ (moving' => ~inFile')  BY <2>1 DEF RecheckInv, Untainted
  <2>. QED  BY <2>1, <2>4, <2>5, <2>6, <2>7, <2>8 DEF RecheckInv
<1>6. CASE MoveStuckFile
  <2>1. /\ MoveTemp(Open) /\ ~inFile' /\ dl' \in {dl, Unlisted} /\ check' = Idle
        /\ UNCHANGED <<saved, restarts, losses>>
    BY <1>6 DEF MoveStuckFile
  <2>2. \A v \in Users : /\ dl'[v].seg = dl[v].seg /\ dl'[v].phase = dl[v].phase
                         /\ dl'[v].pos = dl[v].pos /\ dl'[v].file = dl[v].file
                         /\ dl'[v].tainted = dl[v].tainted
    BY <1>1, <2>1, UnlistedFact
  <2>3. UNCHANGED <<temp, disk>> \/ (~temp' /\ Open = {})  BY <2>1, EraseFact
  <2>4. \A v \in Users : Stream(dl[v])'
    <3>1. UNCHANGED <<temp, disk>> \/ (~temp' /\ \A v \in Users : ~dl'[v].file)
      BY <2>2, <2>3 DEF Open
    <3>. QED  BY <1>1, <2>2, <3>1, NothingWritten
  <2>5. QueueRight => QueueRight'  BY <2>1, <2>3 DEF QueueRight
  <2>6. VerdictRight' /\ DoneIsGood'  BY <2>1 DEF VerdictRight, DoneIsGood
  <2>7. Untainted'  BY <2>2 DEF RecheckInv, Untainted
  <2>. QED  BY <2>1, <2>4, <2>5, <2>6, <2>7 DEF RecheckInv
<1>7. CASE RecheckGivesUp
  <2>1. /\ check' = Idle
        /\ UNCHANGED <<dl, done, inFile, temp, disk, moving, saved, restarts, losses>>
    BY <1>7 DEF RecheckGivesUp, vars
  <2>2. \A v \in Users : Stream(dl[v])'  BY <1>1, <2>1, NothingWritten
  <2>3. DoneIsGood => DoneIsGood'  BY <2>1 DEF DoneIsGood
  <2>4. QueueRight => QueueRight'  BY <2>1 DEF QueueRight
  <2>5. VerdictRight'  BY <2>1 DEF VerdictRight, Idle
  <2>6. Untainted' /\ (moving' => ~inFile')  BY <2>1 DEF RecheckInv, Untainted
  <2>. QED  BY <2>1, <2>2, <2>3, <2>4, <2>5, <2>6 DEF RecheckInv
<1>. QED  BY <1>2, <1>3, <1>4, <1>5, <1>6, <1>7 DEF RecheckStep

LEMMA RecheckInvStep ==
  ASSUME RecheckInv, BadUsers = {}, ~KEEP_FINISHED_FILES, [RecheckNext]_allVars
  PROVE  RecheckInv'
<1>1. RTInv'  BY RecheckTypesStep DEF RecheckInv
<1>2. CASE RecheckStep  BY <1>1, <1>2, RecheckKeepsRight
<1>3. CASE DownloadStep \/ UNCHANGED allVars
  <2>1. [Next]_vars /\ UNCHANGED check
    BY <1>3 DEF DownloadStep, Next, recheckVars, allVars, vars
  <2>2. restarts' = restarts
    <3>1. ASSUME NEW u \in Users, UserNext(u)  PROVE restarts' = restarts
      BY <3>1 DEF UserNext, GetDownload, StartData, Receive, ConnectionFails, PutOrphan,
                  PutSegment, PutLastSegment, PutFailed, RemoveDisconnects
    <3>2. ASSUME RunMover \/ UserRemoves \/ LoseTemp \/ SaveQueue \/ UNCHANGED allVars
          PROVE  restarts' = restarts
      BY <3>2 DEF RunMover, UserRemoves, LoseTemp, SaveQueue, allVars, vars
    <3>. QED  BY <1>3, <3>1, <3>2 DEF DownloadStep
  <2>3. ~Restart
    <3>1. restarts \in Nat  BY LimitAssumption DEF RecheckInv, RTInv, IInv, TypeOK
    <3>2. restarts' # restarts + 1  BY <2>2, <3>1
    <3>. QED  BY <3>2 DEF Restart
  <2>. QED  BY <1>1, <2>1, <2>3, DownloadKeepsRight
<1>4. CASE Crash  BY <1>1, <1>4, RestartKeepsRight DEF Crash
<1>. QED  BY <1>2, <1>3, <1>4 DEF RecheckNext

LEMMA RecheckInvInit == RecheckInit => RecheckInv
<1>. SUFFICES ASSUME RecheckInit PROVE RecheckInv  OBVIOUS
<1>1. RTInv  BY RecheckTypesInit
<1>2. /\ done = {} /\ ~temp /\ ~moving /\ \A v \in Users : dl[v] = NoDownload
      /\ ~saved.queued /\ check.phase = "idle"
  BY DEF RecheckInit, Init, Idle
<1>. QED  BY <1>1, <1>2 DEF RecheckInv, Stream, NoDownload, Untainted, VerdictRight, QueueRight,
                            DoneIsGood

\* What counts as finished is right though the temporary file is rechecked at
\* any moment, even while downloads write to it and overlap: through any
\* number of rechecks and one restart, as long as the users send right bytes
\* and nobody deletes the file.
THEOREM RecheckKeepsFinishedRight ==
  ASSUME BadUsers = {}, ~KEEP_FINISHED_FILES
  PROVE  RecheckSpec => [](losses = 0 /\ restarts <= 1 => DoneIsGood)
<1>1. RecheckInit => RecheckInv  BY RecheckInvInit
<1>2. RecheckInv /\ [RecheckNext]_allVars => RecheckInv'  BY RecheckInvStep
<1>3. RecheckInv => (losses = 0 /\ restarts <= 1 => DoneIsGood)  BY DEF RecheckInv
<1>. QED  BY <1>1, <1>2, <1>3, PTL DEF RecheckSpec

-----------------------------------------------------------------------------
(***************************************************************************)
(* The recheck and the completed file.  The file of full size is looked at *)
(* as a whole, and when every block has matched it is still all there when *)
(* it is moved; when the last segment is put back the finished bytes are   *)
(* all of them, and right.  Queue.xml brings back no file that has been    *)
(* moved: an item it has completed is not queued in it.                    *)
(***************************************************************************)
FullFile == temp => \A b \in Offsets : disk[b] # "none"

CheckWhole ==
  /\ check.phase # "idle" => check.upto = Size
  /\ check.phase = "verdict" /\ check.allGood => check.good = BlocksBelow(check.upto)

MovedRight ==
  /\ completed => ~inFile /\ target = "good"
  /\ saved.completed => ~saved.queued /\ completed

MovedInv ==
  /\ RecheckInv
  /\ ~moving
  /\ FullFile
  /\ CheckWhole
  /\ losses = 0 /\ restarts <= 1 => MovedRight

LEMMA FullStays == ASSUME IInv, ANTI_FRAG, FullFile, [Next]_vars  PROVE FullFile'
<1>1. disk \in [Offsets -> Contents]  BY DEF IInv, TypeOK
<1>2. ASSUME NEW u \in Users, UserNext(u)  PROVE FullFile'
  <2>1. CASE StartData(u)
    <3>1. UNCHANGED fileVars \/ disk' = Extended
      BY <2>1 DEF StartData, StartFails, OpenTemp
    <3>. QED  BY <1>1, <3>1 DEF FullFile, fileVars, Extended
  <2>2. CASE Receive(u)
    <3>1. temp' = temp /\ (disk' = disk \/ \E p, x : x \in {"good", "bad"} /\ disk' = Written(p, x))
      BY <2>2 DEF Receive, Sendable
    <3>. QED  BY <1>1, <3>1 DEF FullFile, Written
  <2>3. CASE \/ GetDownload(u) \/ ConnectionFails(u) \/ PutSegment(u)
             \/ PutFailed(u) \/ RemoveDisconnects(u)
    BY <2>3 DEF GetDownload, ConnectionFails, PutSegment, PutFailed, RemoveDisconnects, fileVars,
                FullFile
  <2>4. CASE PutOrphan(u) \/ PutLastSegment(u)
    <3>1. DeleteTemp(Open \ {u}) \/ MoveTemp(Open \ {u})  BY <2>4 DEF PutOrphan, PutLastSegment
    <3>. QED  BY <3>1, EraseFact DEF FullFile
  <2>. QED  BY <1>2, <2>1, <2>2, <2>3, <2>4 DEF UserNext
<1>3. CASE RunMover \/ UserRemoves
  <2>1. RenameTemp(Open) \/ DeleteTemp(Open) \/ UNCHANGED fileVars  BY <1>3 DEF RunMover, UserRemoves
  <2>2. UNCHANGED <<temp, disk>> \/ ~temp'  BY <2>1, EraseFact DEF fileVars
  <2>. QED  BY <2>2 DEF FullFile
<1>4. CASE LoseTemp \/ SaveQueue \/ Restart \/ UNCHANGED vars
  BY <1>4 DEF LoseTemp, SaveQueue, Restart, vars, fileVars, FullFile
<1>. QED  BY <1>2, <1>3, <1>4 DEF Next

\* Only the last segment has the queue move the file.
LEMMA TargetStays ==
  ASSUME ~OverMoverLimit, ~moving, [Next]_vars
  PROVE  /\ ~moving'
         /\ \/ UNCHANGED <<target, completed>> /\ (saved' = saved \/ SaveQueue)
            \/ Restart
            \/ \E u \in Users : PutLastSegment(u)
<1>1. ASSUME NEW u \in Users, UserNext(u), ~PutLastSegment(u)
      PROVE  UNCHANGED <<target, completed, moving, saved>>
  BY <1>1 DEF UserNext, GetDownload, StartData, StartFails, OpenTemp, Receive, ConnectionFails,
              PutOrphan, DeleteTemp, PutSegment, PutFailed, RemoveDisconnects, fileVars
<1>2. ASSUME NEW u \in Users, PutLastSegment(u)  PROVE moving' = moving
  BY <1>2 DEF PutLastSegment, MoveTemp
<1>3. CASE UserRemoves \/ LoseTemp \/ UNCHANGED vars
  BY <1>3 DEF UserRemoves, LoseTemp, DeleteTemp, fileVars, vars
<1>4. CASE SaveQueue  BY <1>4 DEF SaveQueue, fileVars
<1>5. CASE Restart  BY <1>5 DEF Restart
<1>6. ~RunMover  BY DEF RunMover
<1>. QED  BY <1>1, <1>2, <1>3, <1>4, <1>5, <1>6 DEF Next

\* What is finished when nothing is left to fetch, and is right, is the file.
LEMMA LastIsGood ==
  ASSUME StreamInv, DoneIsGood, ~OverMoverLimit, NEW u \in Users, PutLastSegment(u)
  PROVE  target' = "good"
<1>1. /\ dl[u].phase = "finishing" /\ inFile /\ IsFinished(AddSegment(done, dl[u].seg))
      /\ MoveTemp(Open \ {u})
  BY DEF PutLastSegment
<1>2. /\ dl[u].seg \in SegmentType /\ done \in SUBSET SegmentType /\ temp
  BY <1>1 DEF StreamInv, Stream, IInv, TypeOK, Download, DownloadOK
<1>3. \A b \in Bytes(dl[u].seg) : disk[b] = "good"  BY <1>1, FinishedBytesGood
<1>4. Covered(AddSegment(done, dl[u].seg)) \subseteq Covered(done) \cup Bytes(dl[u].seg)
  BY <1>2, AddSegmentBytes
<1>5. Offsets \subseteq Covered(AddSegment(done, dl[u].seg))
  BY <1>1, SizeAssumption DEF IsFinished, Covered, Bytes, WholeFile, Segment, End, Offsets
<1>6. AllGood  BY <1>1, <1>2, <1>3, <1>4, <1>5 DEF AllGood, DoneIsGood
<1>. QED  BY <1>1, <1>2, <1>6 DEF MoveTemp, RenameTemp, Verdict

\* The blocks of the whole file are the whole file.
LEMMA BlocksCover == Offsets \subseteq Covered(BlocksBelow(Size))
<1>. SUFFICES ASSUME NEW x \in Offsets  PROVE x \in Covered(BlocksBelow(Size))  OBVIOUS
<1>. DEFINE p == AlignDown(x)
            b == Segment(p, Lowest(BlockSize, Size - p))
<1>1. x \in Nat /\ x < Size  BY SizeAssumption DEF Offsets
<1>2. p \in 0 .. x /\ p % BlockSize = 0 /\ x < p + BlockSize
  <2>. DEFINE r == x % BlockSize
  <2>1. r \in 0 .. BlockSize - 1  BY <1>1, Remainder
  <2>2. p = x - r  BY DEF AlignDown
  <2>. HIDE DEF p, r
  <2>3. x < p + BlockSize  BY <1>1, <2>1, <2>2, BlockAssumption
  <2>. QED  BY <1>1, <2>3, AlignDownFact DEF p
<1>. HIDE DEF p
<1>3. p \in ScanPoints /\ p < Size  BY <1>1, <1>2, SizeAssumption DEF ScanPoints
<1>4. b \in BlocksBelow(Size)  BY <1>3 DEF BlocksBelow
<1>5. x \in Bytes(b)  BY <1>1, <1>2, SizeAssumption, BlockAssumption DEF Bytes, End, Segment, Lowest
<1>. QED  BY <1>4, <1>5 DEF Covered

LEMMA WholeTemp == ASSUME TypeOK, FullFile, temp  PROVE TempSize = Size
<1>. DEFINE S == {b \in Offsets : disk[b] # "none"}
<1>1. S = 0 .. Size - 1  BY DEF FullFile, Offsets
<1>. HIDE DEF S
<1>2. 0 \in Int /\ Size - 1 \in Int /\ ~(0 > Size - 1)  BY SizeAssumption
<1>3. Cardinality(0 .. Size - 1) = Size - 1 - 0 + 1  BY <1>2, FS_Interval
<1>4. Cardinality(S) = Size  BY <1>1, <1>3, SizeAssumption
<1>. QED  BY <1>4 DEF TempSize, S

\* A step of the recheck: only moveStuckFile moves the file, and all of it is
\* right.
LEMMA RecheckMovesRight ==
  ASSUME MovedInv, ~KEEP_FINISHED_FILES, ~OverMoverLimit, RecheckStep, RecheckInv'
  PROVE  MovedInv'
<1>1. /\ IInv /\ TypeOK /\ CheckOK /\ disk \in [Offsets -> Contents]
      /\ (losses = 0 => VerdictRight) /\ check.phase \in {"idle", "tree", "hash", "verdict"}
  BY DEF MovedInv, RecheckInv, RTInv, IInv, TypeOK, CheckOK
<1>2. CASE RecheckLooks
  <2>1. /\ disk' = Extended /\ temp
        /\ UNCHANGED <<inFile, temp, target, moving, saved, completed, restarts, losses>>
        /\ check' = IF Listed = {} THEN [Idle EXCEPT !.phase = "tree", !.upto = TempSize] ELSE Idle
    BY <1>2 DEF RecheckLooks, queueVars
  <2>2. TempSize = Size  BY <1>1, <2>1, WholeTemp DEF MovedInv
  <2>3. FullFile'  BY <1>1, <2>1 DEF FullFile, Extended
  <2>4. CheckWhole'  BY <2>1, <2>2 DEF CheckWhole, Idle
  <2>5. MovedRight => MovedRight'  BY <2>1 DEF MovedRight
  <2>. QED  BY <2>1, <2>3, <2>4, <2>5 DEF MovedInv
<1>3. CASE RecheckForgets
  <2>1. UNCHANGED <<inFile, temp, disk, target, moving, saved, completed, restarts, losses>>
    BY <1>3 DEF RecheckForgets, fileVars
  <2>2. CheckWhole'
    <3>1. \/ check'.phase = "hash" /\ check'.upto = check.upto /\ check.phase = "tree"
          \/ check'.phase = "idle"
      BY <1>1, <1>3 DEF RecheckForgets, CheckOK, Idle
    <3>. QED  BY <3>1 DEF MovedInv, CheckWhole
  <2>3. FullFile' /\ (MovedRight => MovedRight')  BY <2>1 DEF MovedInv, FullFile, MovedRight
  <2>. QED  BY <2>1, <2>2, <2>3 DEF MovedInv
<1>4. CASE RecheckHashes
  <2>1. UNCHANGED <<inFile, temp, disk, target, moving, saved, completed, restarts, losses>>
    BY <1>4 DEF RecheckHashes, vars
  <2>2. CheckWhole'
    <3>1. /\ check.phase = "hash" /\ check'.upto = check.upto
          /\ check'.allGood => check'.good = BlocksBelow(check.upto)
      BY <1>1, <1>4 DEF RecheckHashes, CheckOK
    <3>. QED  BY <3>1 DEF MovedInv, CheckWhole
  <2>3. FullFile' /\ (MovedRight => MovedRight')  BY <2>1 DEF MovedInv, FullFile, MovedRight
  <2>. QED  BY <2>1, <2>2, <2>3 DEF MovedInv
<1>5. CASE RecheckFindsBad \/ RecheckGivesUp
  <2>1. /\ UNCHANGED <<inFile, temp, disk, target, moving, saved, completed, restarts, losses>>
        /\ check' = Idle
    BY <1>5 DEF RecheckFindsBad, RecheckGivesUp, fileVars, vars
  <2>2. CheckWhole'  BY <2>1 DEF CheckWhole, Idle
  <2>3. FullFile' /\ (MovedRight => MovedRight')  BY <2>1 DEF MovedInv, FullFile, MovedRight
  <2>. QED  BY <2>1, <2>2, <2>3 DEF MovedInv
<1>6. CASE MoveStuckFile
  <2>1. /\ check.phase = "verdict" /\ inFile /\ check.allGood
        /\ MoveTemp(Open) /\ ~inFile' /\ completed' = TRUE /\ check' = Idle
        /\ UNCHANGED <<saved, restarts, losses>>
    BY <1>6 DEF MoveStuckFile, Stuck
  <2>2. ~moving'  BY <2>1 DEF MoveTemp, MovedInv
  <2>3. FullFile'
    <3>1. UNCHANGED <<temp, disk>> \/ ~temp'  BY <2>1, EraseFact
    <3>. QED  BY <3>1 DEF MovedInv, FullFile
  <2>4. CheckWhole'  BY <2>1 DEF CheckWhole, Idle
  <2>5. losses = 0 => target' = "good"
    <3>1. SUFFICES ASSUME losses = 0  PROVE target' = "good"  OBVIOUS
    <3>2. temp /\ Covered(check.good) \subseteq {b \in Offsets : disk[b] = "good"}
      BY <1>1, <2>1, <3>1 DEF VerdictRight
    <3>3. check.good = BlocksBelow(Size)  BY <2>1 DEF MovedInv, CheckWhole
    <3>4. AllGood  BY <3>2, <3>3, BlocksCover DEF AllGood
    <3>. QED  BY <2>1, <3>2, <3>4 DEF MoveTemp, RenameTemp, Verdict
  <2>6. losses' = 0 /\ restarts' <= 1 => MovedRight'
    BY <2>1, <2>5 DEF MovedInv, MovedRight
  <2>. QED  BY <2>2, <2>3, <2>4, <2>6 DEF MovedInv
<1>. QED  BY <1>2, <1>3, <1>4, <1>5, <1>6 DEF RecheckStep

\* A step of the download.
LEMMA DownloadMovesRight ==
  ASSUME MovedInv, BadUsers = {}, ~KEEP_FINISHED_FILES, ~OverMoverLimit, ANTI_FRAG,
         [Next]_vars, UNCHANGED check \/ check' = Idle, RecheckInv'
  PROVE  MovedInv'
<1>1. IInv /\ StreamInv /\ TypeOK  BY DEF MovedInv, RecheckInv, RTInv, IInv, StreamInv
<1>2. FullFile'  BY <1>1, FullStays DEF MovedInv
<1>3. CheckWhole'  BY DEF MovedInv, CheckWhole, Idle
<1>4. /\ ~moving'
      /\ \/ UNCHANGED <<target, completed>> /\ (saved' = saved \/ SaveQueue)
         \/ Restart
         \/ \E u \in Users : PutLastSegment(u)
  BY TargetStays DEF MovedInv
<1>5. losses' = 0 => losses = 0  BY <1>1, LossesCount
<1>6. restarts \in Nat  BY <1>1, LimitAssumption DEF TypeOK
<1>7. ASSUME losses' = 0, restarts' <= 1  PROVE MovedRight'
  <2>1. CASE Restart
    <3>1. /\ restarts' = restarts + 1 /\ inFile' = saved.queued /\ completed' = saved.completed
          /\ UNCHANGED <<target, saved>>
      BY <2>1 DEF Restart
    <3>2. MovedRight  BY <1>5, <1>6, <1>7, <3>1 DEF MovedInv
    <3>. QED  BY <3>1, <3>2 DEF MovedRight
  <2>2. CASE ~Restart
    <3>1. restarts' = restarts  BY <2>2, RestartsCount
    <3>2. MovedRight /\ DoneIsGood  BY <1>5, <1>7, <3>1 DEF MovedInv, RecheckInv
    <3>3. CASE SaveQueue
      <4>1. /\ UNCHANGED <<inFile, target, completed>>
            /\ saved'.queued = inFile /\ saved'.completed = completed
        BY <3>3 DEF SaveQueue, queueVars, fileVars
      <4>. QED  BY <3>2, <4>1 DEF MovedRight
    <3>4. CASE ~SaveQueue
      <4>1. inFile' => inFile
        BY <1>1, <2>2, <3>4, HonestStep DEF MovedInv, RecheckInv, FileKept
      <4>2. CASE UNCHANGED <<target, completed, saved>>
        BY <3>2, <4>1, <4>2 DEF MovedRight
      <4>3. ASSUME NEW u \in Users, PutLastSegment(u)  PROVE MovedRight'
        <5>1. ~inFile' /\ completed' = TRUE /\ saved' = saved  BY <4>3 DEF PutLastSegment
        <5>2. target' = "good"  BY <1>1, <3>2, <4>3, LastIsGood
        <5>. QED  BY <3>2, <5>1, <5>2 DEF MovedRight
      <4>. QED  BY <1>4, <2>2, <3>4, <4>2, <4>3
    <3>. QED  BY <3>3, <3>4
  <2>. QED  BY <2>1, <2>2
<1>. QED  BY <1>2, <1>3, <1>4, <1>7 DEF MovedInv

LEMMA MovedStep ==
  ASSUME MovedInv, BadUsers = {}, ~KEEP_FINISHED_FILES, ~OverMoverLimit, ANTI_FRAG,
         [RecheckNext]_allVars
  PROVE  MovedInv'
<1>1. RecheckInv'  BY RecheckInvStep DEF MovedInv
<1>2. CASE RecheckStep  BY <1>1, <1>2, RecheckMovesRight
<1>3. CASE DownloadStep \/ Crash \/ UNCHANGED allVars
  <2>1. [Next]_vars /\ (UNCHANGED check \/ check' = Idle)
    BY <1>3 DEF DownloadStep, Crash, Next, recheckVars, allVars, vars
  <2>. QED  BY <1>1, <2>1, DownloadMovesRight
<1>. QED  BY <1>2, <1>3 DEF RecheckNext

LEMMA MovedInit == RecheckInit => MovedInv
<1>. SUFFICES ASSUME RecheckInit PROVE MovedInv  OBVIOUS
<1>1. RecheckInv  BY RecheckInvInit
<1>2. ~temp /\ ~moving /\ ~completed /\ ~saved.completed /\ check.phase = "idle"
  BY DEF RecheckInit, Init, Idle
<1>. QED  BY <1>1, <1>2 DEF MovedInv, FullFile, CheckWhole, MovedRight

\* A file the queue has found complete is under its final name with every byte
\* right, whether the last segment completed it or the recheck, which finds it
\* "stuck in the temp folder": the recheck moves no file that is not whole,
\* and no restart has it moved again.  (With a temporary file that is not
\* extended at once it fails: run file_recheck_short.)
THEOREM RecheckKeepsCompleted ==
  ASSUME BadUsers = {}, ~KEEP_FINISHED_FILES, ~OverMoverLimit, ANTI_FRAG
  PROVE  RecheckSpec => [](losses = 0 /\ restarts <= 1 => CompletedFileKept)
<1>1. RecheckInit => MovedInv  BY MovedInit
<1>2. MovedInv /\ [RecheckNext]_allVars => MovedInv'  BY MovedStep
<1>3. MovedInv => (losses = 0 /\ restarts <= 1 => CompletedFileKept)
  BY DEF MovedInv, MovedRight, CompletedFileKept
<1>. QED  BY <1>1, <1>2, <1>3, PTL DEF RecheckSpec
=============================================================================
