---------------------------- MODULE FileDownload ----------------------------
(***************************************************************************)
(* One file of the download queue, fetched in segments from several users  *)
(* at once: QueueManager::getDownload, setFile and putDownload, the        *)
(* DownloadManager handlers that call them, the Merkle check on received   *)
(* data, the temporary file, the thread that moves large finished files,   *)
(* the saved queue, removal by the user, and restarts.                     *)
(*                                                                         *)
(* Each action is one critical section of QueueManager::cs, or one data    *)
(* handler of a connection's socket thread; the users' threads interleave  *)
(* freely between them.  The file's hash tree is known (the fetching of    *)
(* trees is not modelled), every user has the whole file, and data goes to *)
(* the temporary file as it is received (SETTING(BUFFER_SIZE) = 0).        *)
(***************************************************************************)
EXTENDS Segments, FiniteSets

CONSTANTS
  Users,              \* the users the file can be had from
  BadUsers,           \* those of them that may send wrong bytes
  MaxSegments,        \* QueueItem::maxSegments
  MULTI_CHUNK,        \* setting: several segments at once
  OVERLAP_CHUNKS,     \* setting: let a faster user overlap a slow chunk
  KEEP_FINISHED_FILES,\* setting: finished items stay in the file queue
  ANTI_FRAG,          \* setting: give the temporary file its full size at once
  OverMoverLimit,     \* the file is larger than MOVER_LIMIT
  MaxRestarts,        \* bound on the restarts explored
  MaxLosses           \* bound on the temporary files lost behind our back

ASSUME UsersAssumption == BadUsers \subseteq Users
ASSUME LimitAssumption ==
  /\ MaxSegments \in Nat \ {0}
  /\ MaxRestarts \in Nat
  /\ MaxLosses \in Nat
ASSUME SettingAssumption ==
  /\ MULTI_CHUNK \in BOOLEAN
  /\ OVERLAP_CHUNKS \in BOOLEAN
  /\ KEEP_FINISHED_FILES \in BOOLEAN
  /\ ANTI_FRAG \in BOOLEAN
  /\ OverMoverLimit \in BOOLEAN

VARIABLES
  done,       \* QueueItem::done
  dl,         \* the Download object of each user's connection
  inFile,     \* the item is in fileQueue
  inUser,     \* the item is in userQueue, under each of its sources
  temp,       \* the temporary file exists
  disk,       \* what each byte of the temporary file holds
  target,     \* what has been moved to the target, "none" at first
  moving,     \* FileMover has the file in its list
  dirty,      \* QueueManager::dirty
  saved,      \* Queue.xml: is the item in it, with which segments
  completed,  \* history: the queue has found the file finished
  restarts, losses   \* counters for the bounds

queueVars == <<done, inFile, inUser>>
fileVars == <<temp, disk, target, moving>>
vars == <<done, dl, inFile, inUser, temp, disk, target, moving, dirty, saved,
          completed, restarts, losses>>

-----------------------------------------------------------------------------
(***************************************************************************)
(* A download: asked (created, the GET is on its way), running (the peer's *)
(* SND has been answered and the file is open), finishing (all data is     *)
(* there, putDownload is next) or failing (failDownload has been entered,  *)
(* putDownload is next).  listed: it is in QueueItem::downloads and in     *)
(* UserQueue::m_running; due: it is in the list QueueManager::remove has   *)
(* made of those to disconnect; disc: its connection has been told to;     *)
(* over: FLAG_OVERLAP; overlapped: the flag of its segment; tainted: it    *)
(* has written a wrong byte to the block it is in.                         *)
(***************************************************************************)
Phases == {"none", "asked", "running", "finishing", "failing"}

\* What getNextSegment answers when there is nothing to ask for.
NoSegment == Segment(0, 0)

NoDownload ==
  [phase |-> "none", seg |-> WholeFile, pos |-> 0, listed |-> FALSE,
   file |-> FALSE, due |-> FALSE, disc |-> FALSE, over |-> FALSE,
   overlapped |-> FALSE, tainted |-> FALSE]

Download ==
  [phase : Phases, seg : SegmentType \cup {NoSegment}, pos : Nat, listed : BOOLEAN,
   file : BOOLEAN, due : BOOLEAN, disc : BOOLEAN, over : BOOLEAN,
   overlapped : BOOLEAN, tainted : BOOLEAN]

Listed == {u \in Users : dl[u].listed}
Running == {dl[u].seg : u \in Listed}
Open == {u \in Users : dl[u].file}

\* getDownloadedBytes() > 0
SomethingDownloaded == done # {} \/ \E u \in Listed : dl[u].pos > 0

(***************************************************************************)
(* What a byte of the temporary file holds: the right value, another one   *)
(* (the zeros a file is extended with count as wrong), or "none" past its  *)
(* end.                                                                    *)
(***************************************************************************)
Contents == {"none", "good", "bad"}
Offsets == 0 .. Size - 1
NoContent == [b \in Offsets |-> "none"]
Extended == [b \in Offsets |-> IF disk[b] = "none" THEN "bad" ELSE disk[b]]
Written(p, x) ==
  [b \in Offsets |-> IF b = p THEN x
                     ELSE IF b < p /\ disk[b] = "none" THEN "bad" ELSE disk[b]]
AllGood == \A b \in Offsets : disk[b] = "good"

Init ==
  /\ done = {}
  /\ dl = [u \in Users |-> NoDownload]
  /\ inFile = TRUE
  /\ inUser = TRUE
  /\ temp = FALSE
  /\ disk = NoContent
  /\ target = "none"
  /\ moving = FALSE
  /\ dirty = TRUE
  /\ saved = [queued |-> FALSE, done |-> {}, completed |-> FALSE]
  /\ completed = FALSE
  /\ restarts = 0
  /\ losses = 0

-----------------------------------------------------------------------------
(***************************************************************************)
(* QueueItem::getNextSegment.  The wished size depends on speeds and is    *)
(* any number of blocks.  The clock decides which running download is slow *)
(* enough to be overlapped: any that has started and is not overlapped yet.*)
(* FirstGap is empty only for a finished item, which is not in userQueue.  *)
(* Only the number of downloads limits them: SETTING(DONT_BEGIN_SEGMENT),  *)
(* which asks for no other segment above some speed, is off.               *)
(***************************************************************************)
Slow(v) == /\ v \in Listed
           /\ dl[v].file
           /\ dl[v].phase \in {"running", "failing"}
           /\ dl[v].seg # NoSegment

FreshSegments_Repeats(D) ==   \* forgets what is being downloaded
  UNION {FreeSegments(D, {}, n) : n \in 1 .. RoundUp(Size) \div BlockSize}
FreshSegments(D) ==
  IF MULTI_CHUNK
  THEN UNION {FreeSegments(D, Running, n) : n \in 1 .. RoundUp(Size) \div BlockSize}
  ELSE IF Listed = {} /\ FirstGap(D).size > 0 THEN {FirstGap(D)} ELSE {}

SlowTails(D) ==
  IF MULTI_CHUNK /\ OVERLAP_CHUNKS /\ FreshSegments(D) = {}
  THEN {SlowTail(dl[v].seg, dl[v].pos) : v \in {w \in Users : Slow(w) /\ ~dl[w].overlapped}}
  ELSE {}

BelowLimit == MULTI_CHUNK => Cardinality(Listed) < MaxSegments

\* The answers for finished segments D; overlap is the segment's flag.
NextSegments(D) ==
  IF ~BelowLimit THEN {}
  ELSE {[seg |-> s, overlap |-> FALSE] : s \in FreshSegments(D)}
         \cup {[seg |-> s, overlap |-> TRUE] : s \in SlowTails(D)}

(***************************************************************************)
(* QueueManager::getDownload, with UserQueue::getNext and the Download     *)
(* constructor: a user's idle connection asks for work.  An item nobody    *)
(* downloads is taken unseen, any other only if there is a segment for the *)
(* user; the finished segments are forgotten when the temporary file is    *)
(* gone, and the segment is chosen anew.                                   *)
(***************************************************************************)
Resumable_Always == IF SomethingDownloaded /\ temp THEN {} ELSE done
Resumable == IF SomethingDownloaded /\ ~temp THEN {} ELSE done

Asking(u, c) == [NoDownload EXCEPT !.phase = "asked", !.seg = c.seg, !.listed = TRUE,
                                   !.over = c.overlap, !.overlapped = c.overlap]

GetDownload(u) ==
  /\ dl[u].phase = "none"
  /\ inFile /\ inUser
  /\ Listed = {} \/ NextSegments(done) # {}
  /\ done' = Resumable
  /\ \/ \E c \in NextSegments(Resumable) :
          \/ /\ ~c.overlap
             /\ dl' = [dl EXCEPT ![u] = Asking(u, c)]
          \/ /\ c.overlap
             /\ \E v \in Listed :   \* the first whose segment holds the tail
                  /\ Contains(dl[v].seg, c.seg)
                  /\ dl' = [dl EXCEPT ![u] = Asking(u, c), ![v].overlapped = TRUE]
     \/ /\ NextSegments(Resumable) = {}
        /\ dl' = [dl EXCEPT ![u] = Asking(u, [seg |-> NoSegment, overlap |-> FALSE])]
  /\ UNCHANGED <<inFile, inUser, fileVars, dirty, saved, completed, restarts, losses>>

(***************************************************************************)
(* DownloadManager::startData and QueueManager::setFile: the peer's answer *)
(* arrives.  A download that overlaps a slow one disconnects it now, or    *)
(* fails when that one is gone or nearly done.  Without finished segments  *)
(* a missing temporary file is created.  An empty download fails at once:  *)
(* the hash of no data is no leaf of the tree (endData, flush).            *)
(***************************************************************************)
StartFails(f, u) == dl' = [f EXCEPT ![u].phase = "failing", ![u].overlapped = FALSE]
                    /\ UNCHANGED fileVars

OpenTemp(f, u) ==
  \/ /\ ~(SomethingDownloaded /\ ~temp)
     /\ dl' = [f EXCEPT ![u].phase = IF f[u].seg.size = 0 THEN "failing" ELSE "running",
                        ![u].file = TRUE, ![u].overlapped = FALSE]
     /\ temp' = TRUE
     /\ disk' = IF ANTI_FRAG THEN Extended ELSE disk
     /\ UNCHANGED <<target, moving>>
  \/ StartFails(f, u)        \* the temporary file is gone, or cannot be opened

Disconnect_Not(v) == dl
Disconnect(v) == [dl EXCEPT ![v].disc = TRUE]

Overlapped(u) == {v \in Listed \ {u} : Contains(dl[v].seg, dl[u].seg)}

StartData(u) ==
  /\ dl[u].phase = "asked"
  /\ \/ ~inFile /\ StartFails(dl, u)
     \/ inFile /\ ~dl[u].overlapped /\ OpenTemp(dl, u)
     \/ inFile /\ dl[u].overlapped /\ StartFails(dl, u)
     \/ /\ inFile /\ dl[u].overlapped
        /\ \E v \in Overlapped(u) : Slow(v) /\ OpenTemp(Disconnect(v), u)
  /\ UNCHANGED <<queueVars, dirty, saved, completed, restarts, losses>>

(***************************************************************************)
(* DownloadManager::on(Data) and endData: one byte arrives.  The Merkle    *)
(* check hashes it before it is written; it can tell that the data is      *)
(* wrong only at the end of a block, or, for the short last block of the   *)
(* file, when the download is flushed, with all of it on disk already.     *)
(***************************************************************************)
Sendable(u) == IF u \in BadUsers THEN {"good", "bad"} ELSE {"good"}

\* endData: the flush hashes a short last block
AfterLast_NoCheck(bad) == "finishing"
AfterLast(bad) == IF bad THEN "failing" ELSE "finishing"

Receive(u) ==
  /\ dl[u].phase = "running"
  /\ \E x \in Sendable(u) :
       LET d    == dl[u]
           p    == d.seg.start + d.pos
           bad  == d.tainted \/ x = "bad"
           full == (p + 1) % BlockSize = 0
           last == d.pos + 1 = d.seg.size
       IN \/ /\ bad /\ full
             /\ dl' = [dl EXCEPT ![u].phase = "failing"]
             /\ UNCHANGED disk
          \/ /\ ~(bad /\ full)
             /\ disk' = Written(p, x)
             /\ dl' = [dl EXCEPT ![u].pos = IF last /\ bad THEN 0 ELSE d.pos + 1,
                                 ![u].tainted = bad,
                                 ![u].phase = IF ~last THEN "running"
                                              ELSE AfterLast(bad)]
  /\ UNCHANGED <<queueVars, temp, target, moving, dirty, saved, completed, restarts, losses>>

\* The connection is closed, by the peer, by the network or by disconnect().
ConnectionFails(u) ==
  /\ dl[u].phase \in {"asked", "running"}
  /\ dl' = [dl EXCEPT ![u].phase = "failing"]
  /\ UNCHANGED <<queueVars, fileVars, dirty, saved, completed, restarts, losses>>

-----------------------------------------------------------------------------
(***************************************************************************)
(* The temporary file.  Windows neither renames nor deletes a file that is *)
(* held open without FILE_SHARE_DELETE; File::renameFile then copies it,   *)
(* which FILE_SHARE_READ allows.  target stands for the file under its     *)
(* final name, in its own directory or, when that one cannot be written,   *)
(* beside the temporary file.                                              *)
(***************************************************************************)
Verdict == IF AllGood THEN "good" ELSE "bad"

Erase(holders) == IF holders = {} THEN temp' = FALSE /\ disk' = NoContent
                                  ELSE UNCHANGED <<temp, disk>>

RenameTemp_NoCopy(holders) ==
  \/ temp /\ holders = {} /\ target' = Verdict /\ Erase(holders)
  \/ (holders # {} \/ ~temp) /\ UNCHANGED <<temp, disk, target>>

\* QueueManager::moveFile_ while holders keep the temporary file open
RenameTemp(holders) ==
  \/ temp /\ target' = Verdict /\ Erase(holders)
  \/ ~temp /\ UNCHANGED <<temp, disk, target>>

\* QueueManager::moveFile
MoveTemp(holders) ==
  \/ OverMoverLimit /\ temp /\ moving' = TRUE /\ UNCHANGED <<temp, disk, target>>
  \/ ~(OverMoverLimit /\ temp) /\ RenameTemp(holders) /\ UNCHANGED moving

DeleteTemp_Not(holders) == UNCHANGED fileVars
DeleteTemp(holders) == Erase(holders) /\ UNCHANGED <<target, moving>>

\* FileMover::run takes the file from its list
RunMover ==
  /\ moving
  /\ moving' = FALSE
  /\ RenameTemp(Open)
  /\ UNCHANGED <<queueVars, dl, dirty, saved, completed, restarts, losses>>

-----------------------------------------------------------------------------
(***************************************************************************)
(* QueueManager::putDownload.                                              *)
(***************************************************************************)
\* userQueue.remove(q): nobody downloads the item any more.
Unlisted == [v \in Users |-> [dl[v] EXCEPT !.listed = FALSE]]

\* The last segment is there: the other downloads are disconnected before.
Dropped == [v \in Users |-> IF v \in Listed
                            THEN [dl[v] EXCEPT !.listed = FALSE, !.disc = TRUE]
                            ELSE dl[v]]

\* The item is gone: the temporary file is deleted.
PutOrphan(u) ==
  /\ dl[u].phase \in {"finishing", "failing"}
  /\ ~inFile
  /\ dl' = [dl EXCEPT ![u] = NoDownload]
  /\ DeleteTemp(Open \ {u})
  /\ UNCHANGED <<queueVars, dirty, saved, completed, restarts, losses>>

PutSegment(u) ==
  LET added == AddSegment(done, dl[u].seg) IN
  /\ dl[u].phase = "finishing"
  /\ inFile
  /\ ~IsFinished(added)
  /\ done' = added
  /\ dl' = [dl EXCEPT ![u] = NoDownload]
  /\ dirty' = TRUE
  /\ UNCHANGED <<inFile, inUser, fileVars, saved, completed, restarts, losses>>

PutLastSegment(u) ==
  /\ dl[u].phase = "finishing"
  /\ inFile
  /\ IsFinished(AddSegment(done, dl[u].seg))
  /\ done' = AddSegment(done, dl[u].seg)
  /\ dl' = [Dropped EXCEPT ![u] = NoDownload]
  /\ MoveTemp(Open \ {u})
  /\ inUser' = FALSE
  /\ inFile' = KEEP_FINISHED_FILES
  /\ completed' = TRUE
  /\ dirty' = TRUE
  /\ UNCHANGED <<saved, restarts, losses>>

\* putDownload(d, false): whole blocks are kept, the rest is thrown away, and
\* the download this one overlapped may be overlapped again.
Kept_Unaligned(u) == dl[u].pos
Kept(u) == AlignDown(dl[u].pos)

PutBack_StaysMarked(u) == dl' = [dl EXCEPT ![u] = NoDownload]
PutBack(u) ==
  \/ /\ ~dl[u].over \/ Overlapped(u) = {}
     /\ dl' = [dl EXCEPT ![u] = NoDownload]
  \/ /\ dl[u].over
     /\ \E v \in Overlapped(u) :
          dl' = [dl EXCEPT ![u] = NoDownload, ![v].overlapped = FALSE]

PutFailed_Empty(u) ==   \* adds a segment even when no block is complete
  /\ dl[u].phase = "failing"
  /\ inFile
  /\ done' = AddSegment(done, Segment(dl[u].seg.start, Kept(u)))
  /\ dirty' = TRUE
  /\ PutBack(u)
  /\ UNCHANGED <<inFile, inUser, fileVars, saved, completed, restarts, losses>>

PutFailed(u) ==
  /\ dl[u].phase = "failing"
  /\ inFile
  /\ done' = IF Kept(u) > 0 THEN AddSegment(done, Segment(dl[u].seg.start, Kept(u))) ELSE done
  /\ dirty' = (dirty \/ Kept(u) > 0)
  /\ PutBack(u)
  /\ UNCHANGED <<inFile, inUser, fileVars, saved, completed, restarts, losses>>

-----------------------------------------------------------------------------
(***************************************************************************)
(* QueueManager::remove: the user takes the item off the queue.  Under cs  *)
(* it makes a list of the users who download, and takes a finished item    *)
(* out of fileQueue only; it disconnects them one by one with cs released. *)
(* ConnectionManager::disconnect stops at the user's first connection for  *)
(* downloads: a user has one here.  A download put back in the meantime    *)
(* has left nothing to disconnect.                                         *)
(***************************************************************************)
Removed_First == \* userQueue.remove before the list is made
  [v \in Users |-> [dl[v] EXCEPT !.listed = @ /\ IsFinished(done)]]
Removed == [v \in Users |-> [dl[v] EXCEPT !.listed = @ /\ IsFinished(done),
                                           !.due = @ \/ dl[v].listed]]

UserRemoves ==
  /\ inFile
  /\ inFile' = FALSE
  /\ IF Listed = {} THEN DeleteTemp(Open) ELSE UNCHANGED fileVars
  /\ dl' = Removed
  /\ inUser' = (inUser /\ IsFinished(done))
  /\ dirty' = TRUE
  /\ UNCHANGED <<done, saved, completed, restarts, losses>>

RemoveDisconnects(u) ==
  /\ dl[u].due
  /\ dl' = [dl EXCEPT ![u].due = FALSE, ![u].disc = TRUE]
  /\ UNCHANGED <<queueVars, fileVars, dirty, saved, completed, restarts, losses>>

\* Somebody deletes the temporary file of an unfinished download.
LoseTemp ==
  /\ losses < MaxLosses
  /\ losses' = losses + 1
  /\ temp /\ Open = {} /\ ~completed
  /\ temp' = FALSE /\ disk' = NoContent
  /\ UNCHANGED <<queueVars, dl, target, moving, dirty, saved, completed, restarts>>

\* QueueManager::saveQueue
SaveQueue ==
  /\ dirty
  /\ saved' = [queued |-> inFile, done |-> IF inFile THEN done ELSE {}, completed |-> completed]
  /\ dirty' = FALSE
  /\ UNCHANGED <<queueVars, dl, fileVars, completed, restarts, losses>>

QueuedAgain_Always == saved.queued
QueuedAgain == saved.queued /\ ~IsFinished(saved.done)

\* The program stops, at any moment, and starts again: QueueManager::loadQueue
Restart ==
  /\ restarts < MaxRestarts
  /\ restarts' = restarts + 1
  /\ dl' = [u \in Users |-> NoDownload]
  /\ done' = saved.done
  /\ inFile' = saved.queued
  /\ inUser' = QueuedAgain
  /\ completed' = saved.completed
  /\ moving' = FALSE
  /\ dirty' = FALSE
  /\ UNCHANGED <<temp, disk, target, saved, losses>>

-----------------------------------------------------------------------------
UserNext(u) ==
  \/ GetDownload(u) \/ StartData(u) \/ Receive(u) \/ ConnectionFails(u)
  \/ PutOrphan(u) \/ PutSegment(u) \/ PutLastSegment(u) \/ PutFailed(u)
  \/ RemoveDisconnects(u)

Next == (\E u \in Users : UserNext(u)) \/ RunMover \/ UserRemoves \/ LoseTemp
          \/ SaveQueue \/ Restart

Spec == Init /\ [][Next]_vars

(***************************************************************************)
(* Fairness.  Every thread keeps running: a handler that can run does, a   *)
(* user who is online is asked again and again (ConnectionManager's second *)
(* timer), a peer that has accepted keeps sending, and a connection told   *)
(* to disconnect is closed by its socket thread.  Nobody has to remove the *)
(* item, to save or to restart.                                            *)
(***************************************************************************)
Fairness ==
  /\ \A u \in Users :
       /\ WF_vars(GetDownload(u))
       /\ WF_vars(StartData(u))
       /\ WF_vars(Receive(u))
       /\ WF_vars(PutOrphan(u) \/ PutSegment(u) \/ PutLastSegment(u) \/ PutFailed(u))
       /\ WF_vars(RemoveDisconnects(u))
       /\ WF_vars(dl[u].disc /\ ConnectionFails(u))
  /\ WF_vars(RunMover)

LiveSpec == Spec /\ Fairness

-----------------------------------------------------------------------------
TypeOK ==
  /\ done \in SUBSET SegmentType
  /\ dl \in [Users -> Download]
  /\ inFile \in BOOLEAN /\ inUser \in BOOLEAN
  /\ temp \in BOOLEAN
  /\ disk \in [Offsets -> Contents]
  /\ target \in Contents
  /\ moving \in BOOLEAN
  /\ dirty \in BOOLEAN
  /\ saved \in [queued : BOOLEAN, done : SUBSET SegmentType, completed : BOOLEAN]
  /\ completed \in BOOLEAN
  /\ restarts \in 0 .. MaxRestarts
  /\ losses \in 0 .. MaxLosses

(***************************************************************************)
(* The finished segments never touch, start on a block boundary and end on *)
(* one or at the end of the file, through every interleaving of finished   *)
(* and failed downloads, resets and restarts.  getNextSegment,             *)
(* isFinished and the Merkle check of the next download rely on it.        *)
(***************************************************************************)
DoneOK == Consolidated(done) /\ \A s \in done : OnBoundary(s)

(***************************************************************************)
(* What counts as finished is on disk and is right: wrong data that a      *)
(* malicious source sent never ends up in a finished segment, nor does a   *)
(* restart or a failed download count a byte that was not written.         *)
(***************************************************************************)
DoneIsGood == temp /\ inFile => \A b \in Covered(done) : disk[b] = "good"

(***************************************************************************)
(* Without OVERLAP_CHUNKS no byte is being downloaded twice, nor is one    *)
(* that is finished: getNextSegment hands out "the next segment that is    *)
(* not done and not being downloaded", and nothing that happens until the  *)
(* download is put back (failures of others, resets) changes that.         *)
(***************************************************************************)
RunningDisjoint ==
  ~OVERLAP_CHUNKS =>
    \A u \in Listed : /\ \A v \in Listed \ {u} : ~Overlaps(dl[u].seg, dl[v].seg)
                      /\ \A s \in done : ~Overlaps(dl[u].seg, s)

(***************************************************************************)
(* An item is under its sources in userQueue exactly while it is queued    *)
(* and unfinished, and putDownload never takes it out a second time        *)
(* (UserQueue::remove asserts that it is there).                           *)
(***************************************************************************)
UserQueueMatches ==
  /\ inUser <=> inFile /\ ~IsFinished(done)
  /\ \A u \in Users :
       dl[u].phase = "finishing" /\ inFile /\ IsFinished(AddSegment(done, dl[u].seg)) => inUser

(***************************************************************************)
(* A download the queue has lost sight of (item finished or removed) has   *)
(* been told to disconnect, or the removal under way still holds it in its *)
(* list: none goes on filling a file nobody wants.                         *)
(***************************************************************************)
DroppedAreTold ==
  \A u \in Users : dl[u].phase # "none" /\ ~dl[u].listed => dl[u].disc \/ dl[u].due

(***************************************************************************)
(* A file the queue has found complete exists: under its final name, or    *)
(* still as the temporary file, with every byte right, until the user      *)
(* takes the finished item off the queue.                                  *)
(***************************************************************************)
CompletedFileKept ==
  completed => \/ target = "good"
               \/ temp /\ AllGood
               \/ KEEP_FINISHED_FILES /\ ~inFile

(***************************************************************************)
(* Finished bytes stay finished, whatever downloads fail or are dropped;   *)
(* only a missing temporary file or a restart takes them back.             *)
(***************************************************************************)
DoneMonotone ==
  [][Covered(done) \subseteq Covered(done') \/ ~temp \/ restarts' # restarts]_vars

(***************************************************************************)
(* Of two downloads that write to the same bytes, one is being             *)
(* disconnected: setFile opens the file for an overlapping download only   *)
(* after telling the slow one (two users).                                 *)
(***************************************************************************)
OverlapResolved ==
  \A u, v \in Listed :
    u # v /\ dl[u].file /\ dl[v].file /\ Overlaps(dl[u].seg, dl[v].seg)
      => dl[u].disc \/ dl[v].disc

(***************************************************************************)
(* While the file is queued, a running download marked as overlapped,      *)
(* which hides it from faster users, has a download that overlaps it: the  *)
(* mark does not outlive an overlapping download that failed before it     *)
(* could take over.                                                        *)
(***************************************************************************)
OverlapMarkBacked ==
  \A v \in Listed :
    inFile /\ dl[v].overlapped /\ dl[v].file /\ ~dl[v].disc
      => \E u \in Listed \ {v} : dl[u].over /\ Contains(dl[v].seg, dl[u].seg)

(***************************************************************************)
(* Once nothing from outside makes downloads fail (a peer, the network, a  *)
(* file that cannot be opened), the file is completed, or the user takes   *)
(* it off the queue: no segment is forgotten by everyone, nobody waits for *)
(* a segment that is never handed out, and the queue does not make its own *)
(* downloads fail for ever, by asking for an empty segment or by resuming  *)
(* a temporary file that is gone.                                          *)
(***************************************************************************)
OwnFailure(u) == \/ dl[u].seg = NoSegment
                 \/ dl[u].disc
                 \/ dl[u].phase = "asked" /\ SomethingDownloaded /\ ~temp
NoMoreFailures ==
  <>[][\A u \in Users : dl'[u].phase = "failing" => \/ dl[u].phase = "failing"
                                                    \/ OwnFailure(u)]_vars
EventuallyComplete == NoMoreFailures => <>(completed \/ ~inFile)

(***************************************************************************)
(* The temporary file of an item the user removed is deleted in the end,   *)
(* by remove or by the last of its downloads.                              *)
(***************************************************************************)
TempCleanedUp == (~inFile /\ ~completed) ~> ~temp

(***************************************************************************)
(* The promise of the whole: VerifiedFile.                                 *)
(***************************************************************************)
Status(queued, complete) ==
  IF complete THEN "complete" ELSE IF queued THEN "queued" ELSE "removed"
Have(queued, complete, D) ==
  IF complete THEN Offsets ELSE IF queued THEN Covered(D) ELSE {}

Abstract == INSTANCE VerifiedFile WITH
  AllBytes <- Offsets,
  have     <- Have(inFile, completed, done),
  saved    <- [have   |-> Have(saved.queued, saved.completed, saved.done),
               status |-> Status(saved.queued, saved.completed)],
  present  <- temp,
  status   <- Status(inFile, completed)

AbstractSpec == Abstract!Spec
=============================================================================
