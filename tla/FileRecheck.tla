----------------------------- MODULE FileRecheck -----------------------------
(***************************************************************************)
(* QueueManager::Rechecker: the thread that hashes the temporary file of   *)
(* a queued item when the user asks for it, beside all that FileDownload   *)
(* does.  Rechecker::run takes QueueManager::cs three times: to look at    *)
(* the item, to forget its finished segments, and to note what the hashes  *)
(* say; the lock is free between them, while the tree is fetched from the  *)
(* database and while the file is read.                                    *)
(*                                                                         *)
(* The file is opened for reading without FILE_SHARE_WRITE: while it is    *)
(* open nobody opens it for writing, so that reading it is one step.  When *)
(* it cannot be opened the exception leaves run and ends the program.      *)
(***************************************************************************)
EXTENDS FileDownload

CONSTANTS
  SmallestChecked,   \* temporary files below 64 KiB are not checked
  MaxRechecks        \* bound on the rechecks explored

\* A leaf of the tree stands for at least MIN_BLOCK_SIZE, 64 KiB.
ASSUME RecheckAssumption ==
  /\ SmallestChecked \in 1 .. BlockSize
  /\ MaxRechecks \in Nat

VARIABLES
  check,      \* where the thread is, and what it remembers across the lock
  rechecks    \* counter for the bound

recheckVars == <<check, rechecks>>
allVars == <<vars, check, rechecks>>

\* upto: tempSize; good: sizes, the blocks that match; allGood: ~hasBadBlocks
Idle == [phase |-> "idle", upto |-> 0, good |-> {}, allGood |-> TRUE]

TempSize == Cardinality({b \in Offsets : disk[b] # "none"})

\* Rechecker::run, first section: the file is given its full size before it
\* is asked whether downloads run.
RecheckLooks ==
  /\ check.phase = "idle"
  /\ rechecks < MaxRechecks
  /\ inFile /\ temp
  /\ TempSize >= SmallestChecked
  /\ TempSize # Size => Open = {}
  /\ disk' = Extended
  /\ check' = IF Listed = {} THEN [Idle EXCEPT !.phase = "tree", !.upto = TempSize] ELSE Idle
  /\ rechecks' = rechecks + 1
  /\ UNCHANGED <<queueVars, dl, temp, target, moving, dirty, saved, completed, restarts, losses>>

\* Second section: whether downloads run is not asked again.
RecheckForgets ==
  /\ check.phase = "tree"
  /\ done' = IF inFile THEN {} ELSE done
  /\ check' = IF inFile THEN [check EXCEPT !.phase = "hash"] ELSE Idle
  /\ UNCHANGED <<dl, inFile, inUser, fileVars, dirty, saved, completed, restarts, losses, rechecks>>

(***************************************************************************)
(* The hashing, up to the size the file had before it was extended.  A     *)
(* block cut short by that size does not match its leaf.                   *)
(***************************************************************************)
BlocksBelow(upto) ==
  {Segment(st, Lowest(BlockSize, upto - st)) : st \in {p \in ScanPoints : p < upto}}

Matches_AnyByte(b) == \E x \in Bytes(b) : disk[x] = "good"
Matches(b) == /\ End(b) = Lowest(Size, b.start + BlockSize)
              /\ \A x \in Bytes(b) : disk[x] = "good"

RecheckHashes ==
  /\ check.phase = "hash"
  /\ temp /\ Open = {}
  /\ LET blocks == BlocksBelow(check.upto)
         good   == {b \in blocks : Matches(b)}
     IN  check' = [check EXCEPT !.phase = "verdict", !.good = good, !.allGood = good = blocks]
  /\ UNCHANGED <<vars, rechecks>>

(***************************************************************************)
(* Third section: the good blocks are finished again, in ascending order;  *)
(* if no block was bad the file "probably got stuck in the temp folder":   *)
(* moveStuckFile.  It would take the item out of userQueue if it were      *)
(* finished, which the second section has just undone: without             *)
(* KEEP_FINISHED_FILES userQueue is left with a freed item, of which       *)
(* nothing more is modelled.                                               *)
(***************************************************************************)
AddBlocks(D, good) ==
  LET upTo[n \in 0 .. RoundUp(Size) \div BlockSize] ==
        IF n = 0 THEN D
        ELSE LET b == Candidate((n - 1) * BlockSize, 1)
             IN  IF b \in good THEN AddSegment(upTo[n - 1], b) ELSE upTo[n - 1]
  IN  upTo[RoundUp(Size) \div BlockSize]

RecheckFindsBad ==
  /\ check.phase = "verdict" /\ inFile /\ ~check.allGood
  /\ done' = AddBlocks(done, check.good)
  /\ dirty' = TRUE
  /\ check' = Idle
  /\ UNCHANGED <<dl, inFile, inUser, fileVars, saved, completed, restarts, losses, rechecks>>

Stuck_Always == check.phase = "verdict" /\ inFile
Stuck == check.phase = "verdict" /\ inFile /\ check.allGood

MoveStuckFile ==
  /\ Stuck
  /\ MoveTemp(Open)
  /\ inUser' = (inUser /\ ~IsFinished(done))
  /\ inFile' = KEEP_FINISHED_FILES
  /\ dl' = IF IsFinished(done) THEN Unlisted ELSE dl
  /\ done' = IF KEEP_FINISHED_FILES THEN AddSegment(done, WholeFile) ELSE done
  /\ completed' = TRUE
  /\ check' = Idle
  /\ UNCHANGED <<dirty, saved, restarts, losses, rechecks>>

RecheckGivesUp ==
  /\ check.phase = "verdict" /\ ~inFile
  /\ check' = Idle
  /\ UNCHANGED <<vars, rechecks>>

-----------------------------------------------------------------------------
RecheckInit == Init /\ check = Idle /\ rechecks = 0

\* An exception of the recheck ends the program like any other crash.
Crash == Restart /\ check' = Idle /\ UNCHANGED rechecks

RecheckStep ==
  \/ RecheckLooks \/ RecheckForgets \/ RecheckHashes
  \/ RecheckFindsBad \/ MoveStuckFile \/ RecheckGivesUp

DownloadStep ==
  /\ (\E u \in Users : UserNext(u)) \/ RunMover \/ UserRemoves \/ LoseTemp \/ SaveQueue
  /\ UNCHANGED recheckVars

RecheckNext == RecheckStep \/ DownloadStep \/ Crash

RecheckSpec == RecheckInit /\ [][RecheckNext]_allVars

-----------------------------------------------------------------------------
(***************************************************************************)
(* The recheck keeps to what FileDownload asks of the finished segments    *)
(* and of the completed file (DoneOK, DoneIsGood, CompletedFileKept), with *)
(* temporary files of full size and honest users.                          *)
(***************************************************************************)
RecheckTypeOK ==
  /\ TypeOK
  /\ check \in [phase : {"idle", "tree", "hash", "verdict"}, upto : 0 .. Size,
                good : SUBSET SegmentType, allGood : BOOLEAN]
  /\ rechecks \in 0 .. MaxRechecks
=============================================================================
