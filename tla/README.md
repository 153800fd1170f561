# FlylinkDC++ download core: TLA+ specifications and proofs

Specifications of the file transfer core of FlylinkDC++ / StrongDC++ (this
repository, C++): what the client does to fetch one file from many peers, to
know which parts of it are right, to get and keep connections for it, and to
share its own upload slots out. They are kept beside the code; every
definition names in `PROJECT.json` ("map") the source lines it stands for.

The program's own logic is in `client/` (about 36 000 lines) and `dht/` (4 200
lines). `MediaInfoLib`, `Zenlib`, `boost`, `bzip2`, the other vendored
libraries and the Windows user interface (`windows/`) are left aside.

## 1. Inventory

### Components

| component | state | operations | correct when |
|---|---|---|---|
| **Queue item** (`QueueItem`, `Segment.h`) | `done` (finished segments), `downloads`, sources, priority | `addSegment`, `isFinished`, `getNextSegment`, `isChunkDownloaded`, `isNeededPart`, `getPartialInfo` | `done` stays consolidated; finished means every byte; a segment handed out is useful and not handed out twice; nothing unverified is offered to others |
| **Queue manager** (`QueueManager`) | `fileQueue`, `userQueue` (items by priority and user), `m_running`, `dirty`, `Queue.xml` | `add`, `addSource`, `getDownload`, `setFile`, `putDownload`, `remove`, `removeSource`, `setPriority`, `moveFile`, `saveQueue`, `loadQueue`, `dropSource`, `handlePartialResult` | what counts as finished is on disk and right; a completed file is kept; an item is under its sources exactly while it can be downloaded; a restart resumes from the truth |
| **Queue file** (`setDirty`, `saveQueue`, `loadQueue`) | `dirty`, `lastSave`; `Queue.xml`, `Queue.xml.tmp`, `Queue.xml.bak` | the timer's save, `shutdown`, the destructor, writing, copying and renaming, loading | what was saved is not lost by a failing operation or a crash; every change is saved in the end |
| **Download manager** (`DownloadManager`) | running downloads, idle connections | `checkDownloads`, `startData`, `on(Data)`, `endData`, `failDownload`, slow-source disconnection | each download is put back exactly once, with what was verified |
| **File mover** (`FileMover`) | list of files to move, `active` | `moveFile`, `run` | a finished large file reaches its target |
| **Rechecker** (`Rechecker`) | list of files, `active` | `add`, `run` (three critical sections) | blocks reported finished are on disk |
| **Connection manager** (`ConnectionManager`) | connection queue items (state, last attempt, errors), user connections, expected connections | `getDownloadConnection`, second timer, NMDC and ADC handshakes, `failed`, `shutdown` | one usable connection per user and direction; every wish for one is retried or given up |
| **Upload manager** (`UploadManager`) | slots, waiting users, notified users, reserved and partial slots, delayed uploads | `prepareFile`, `getAutoSlot`, `addFailedUpload`, `removeConnection`, `notifyQueuedUsers` | slots are never exceeded nor leaked; waiting users are served in turn |
| **Buffered socket** (`BufferedSocket`) | task queue, state, disconnecting flag | `addTask`, `checkEvents`, `run`, `shutdown` | tasks run in order; shutdown ends; one failure is reported |
| **DHT** (`KBucket`, `DHT`, `SearchManager`, `IndexManager`) | node table, running searches, published files | `addOrUpdate`, `checkExpiration`, search step, publish | bucket limits, live nodes survive, searches end |
| **Throttle**, **hub search queue** | tokens, waiting threads; queue of searches | `read`/`write`, `add`/`pop` | the limit holds; everybody gets a turn |
| hashing and its database, share, hubs, sockets/TLS/HTTP, port mapping, settings and utilities | files, text, external services | parsing, storage, system calls | not modelled, see section 8 |

### How they interact

A user's connection (one socket thread each) calls `DownloadManager`, which
calls `QueueManager::getDownload` (segment chosen, `Download` created),
then, when the peer answers, `setFile` (temporary file opened), then writes
data as it arrives, then `putDownload`. All queue state is under the single
lock `QueueManager::cs`, but a download spans three critical sections and all
the data in between, on as many threads as there are users. `FileMover` and
`Rechecker` are threads of their own that touch the same files and items;
the user interface removes items at any moment; the minute timer saves the
queue; the program may stop at any moment.

### What is hard

The interleaving of several downloads of one file, each of which may finish,
fail, be overlapped by a faster one or find its item gone; malicious data; the
temporary file's life (created, extended, written by several, moved at once or
by another thread, deleted by whoever comes last, missing); the saved queue
lagging behind the file; and rechecks that read state, let the lock go and
write it back.

A wish to download travels through three managers with three locks. The queue
asks `ConnectionManager` for a connection when a source appears or a download
is put back; the second timer tries, times out, retries and throws away items
nobody needs; a connection that comes about, asked for or not, is associated
with the item or not, handed to `DownloadManager`, which asks the queue for
work and lets the connection rest in `idlers` when there is none; and a failure
is told to one manager after the other. Between any two of these steps the
queue, the user or another connection of his may change.

`UploadManager` counts its slots in three counters that one function changes
without the lock, and calls waiting users who may not come. A `BufferedSocket`
is driven by tasks from all threads, has an owner that may let it go from any
of them, and waits for a flag while it holds a lock.

The queue is saved through three files by nine file operations, each of which
may fail, and between any two of which the program may die; what is read after
a restart is one of the three.

`PROJECT.json` lists the hazards with the line where each bites.

## 2. Modules

| module | what it is |
|---|---|
| `Segments` | segments, `addSegment`, `isFinished`, `isChunkDownloaded`, `getNextSegment`, rounding, as operators in closed form |
| `SegmentSets` | every set of finished segments `addSegment` can build, and what each operator answers on it |
| `SegmentLoops` | the loops of `addSegment` and `getNextSegment` step by step, as the code runs them, to be compared with the closed forms on these sets |
| `VerifiedFile` | the abstract promise about one queued file: verified bytes only grow, except when the temporary file is gone or a restart falls back to what was saved; complete means all bytes verified |
| `FileDownload` | the download of one file by several users, with mover, removal, saved queue and restarts; implements `VerifiedFile` |
| `FileRecheck` | `FileDownload` with the recheck thread |
| `Connections` | the wish to download from a user: `ConnectionManager` composed with the connections of `DownloadManager` and with what they ask of the queue |
| `UploadSlots` | upload slots, waiting and notified users of `UploadManager` |
| `SocketTasks` | one `BufferedSocket`: its tasks, its thread, its owner |
| `QueueFiles` | the queue's way to `Queue.xml` and back: `setDirty`, `saveQueue` through `.tmp` and `.bak`, `loadQueue`, the timer, the end of the program, failing operations, crashes |
| `SegmentLemmas`, `SegmentSets_proofs`, `FileDownload_proofs`, `FileDownloadData_proofs`, `Connections_proofs`, `SocketTasks_proofs`, `UploadSlots_proofs`, `QueueFiles_proofs` | theorems (section 6) |
| `MCSegmentSets`, `MCFileDownload`, `MCFileRecheck`, `MCConnections`, `MCUploadSlots`, `MCSocketTasks`, `MCQueueFiles` | instances for TLC |

### From code to model

`FileDownload` has one record per user's connection, `dl[u]`, for its
`Download`. Its `phase` says which handler comes next:

```
none --getDownload--> asked --startData/setFile--> running --last byte--> finishing --putDownload(true)--> none
                        |                             |
                        +------ failDownload ---------+--> failing --putDownload(false)--> none
```

| action | code |
|---|---|
| `GetDownload` | `QueueManager::getDownload`, `UserQueue::getNext`, `Download::Download`, `QueueItem::getNextSegment` |
| `StartData` | `DownloadManager::startData`, `QueueManager::setFile` |
| `Receive` | `DownloadManager::on(Data)`, `endData`, `MerkleCheckOutputStream`, one byte at a time |
| `ConnectionFails` | `onFailed`, `failDownload` up to its call of `putDownload` |
| `PutSegment`, `PutLastSegment`, `PutFailed`, `PutOrphan` | the four ways through `putDownload`: a segment, the last one, a failure, the item is gone |
| `RunMover` | `FileMover::run`, `moveFile_` |
| `UserRemoves`, `RemoveDisconnects` | `QueueManager::remove` under the lock, and the disconnects it makes after it has released it |
| `SaveQueue`, `Restart` | `saveQueue`; the program stops at any moment and `loadQueue` runs |
| `LoseTemp` | somebody deletes the temporary file (environment) |
| `RecheckLooks`, `RecheckForgets`, `RecheckHashes`, `RecheckFindsBad`, `MoveStuckFile`, `RecheckGivesUp` | the critical sections of `Rechecker::run`, the hashing, and the three outcomes |

`listed` is membership in `QueueItem::downloads` and `UserQueue::m_running`;
`due` in the list of users `remove` makes under the lock and works off without it;
`disc` that `UserConnection::disconnect` was called (the socket thread may
still deliver data it had read). `disk` says of each byte whether the temporary
file holds the right value, another one, or ends before it; the model needs no
more of the data.

What is abstracted in these modules:

* The hash tree is known and a leaf identifies its block; trees and file lists
  are not downloaded. Every source has the whole file.
* The size a user wishes for depends on measured speeds: any number of blocks.
  The other test of speed, `DONT_BEGIN_SEGMENT`, which asks for no further segment
  while the item is fast enough, is off (`BelowLimit`).
  Whether a download is slow enough to be overlapped depends on the clock: any.
* Data is written as it arrives (`SETTING(BUFFER_SIZE)` = 0) and the disk does
  not fail. Buffered writes are in the plan.
* Windows file semantics: a file open without `FILE_SHARE_DELETE` can neither
  be renamed nor deleted, but can be copied (`File::renameFile` falls back to a
  copy); a file open for reading without `FILE_SHARE_WRITE` cannot be opened for
  writing. The latter makes the rechecker's reading a single step.
* A user has one download connection: `ConnectionManager::disconnect` of a user stops
  at the first one it finds (two of them are finding 8).
* One item, which is not added again after it was removed, and whose sources stay
  (`removeSource` is in `Connections`, and in the planned `UserQueue`). One recheck at a
  time. The user-level guards that the queue itself does not check (slots,
  priorities) are left to the planned `UserQueue`.
* `completed` is a history variable: the queue has found the file complete. It
  is saved and restored with the item so that the properties make sense after a
  restart; nothing in the model reads it.

#### Connections

`conn[c]` is a `UserConnection` object; its `phase` says which message it waits
for, or which step of a handler its thread is about to make:

```
          nick -> direction -> key --+--> up
gone --<                             |
          inf ------------> ready ---+--> added -> checking -> getting -> busy
                                              ^       |           |        |
                                              |       v           v        |
                                              |    closing     parking     |
                                              |                   v        |
                                              +--- Updated ---- idle       |
                                              +------- endData, denied ----+
```

| action | code |
|---|---|
| `UserComes`, `UserGoes`, `UserConnected` | `ClientManager::putOnline`, `putOffline`; `QueueManager::on(UserConnected)`, which the listeners are told later |
| `SetPriority`, `AddSource`, `RemoveSource` | the queue's operations of that name; whom they ask for goes into `asks`, for they call `getDownloadConnection` after they have let `QueueManager::cs` go |
| `GetDownloadConnection`, `Forced` | `getDownloadConnection` with `checkIdle`; `force` |
| `SecondOffline`, `SecondUnwanted`, `SecondAttempt`, `SecondTimeout` | the four ways an item takes through `on(Second)` |
| `Connected`, `MyNick`, `Direction`, `INF` | `nmdcConnect`, `adcConnect`, `accept`, and the handshake messages |
| `AddDownloadConnection`, `AddUploadConnection` | `on(Key)` and the end of `on(INF)` |
| `Failed`, `OnFailed` | `ConnectionManager::failed`, then `DownloadManager::onFailed`: two listeners of one event, two locks |
| `AddConnection`, `RefuseConnection`, `CheckDownloads`, `GetDownload`, `Park`, `Updated` | `addConnection` and the critical sections of `checkDownloads`; `on(Updated)` |
| `EndData`, `FileNotAvailable`, `PutDenied`, `FailDownload` | how a download ends |

What is abstracted: the clock (a deadline may pass at any time; an attempt that
is not forced times out, after 50 s, before the next one is due, after 60 s);
the number of errors, but for a protocol error; the order of the item list,
through which `MyNick` clears errors; several `Updated` tasks of one connection
as one, several wishes for one user as one. `DownloadManager`'s list of
downloads is joined with the queue's, `hasDownload` with `startDownload`, and
`removeDownload` with `putDownload`. The table of expected connections, the
flood check and the key check only decide whether an incoming connection of an
online user exists or goes on: both may happen at any time. There is one file,
of which every source has everything; the speed limit of `startDownload`,
`maxSegments` and `DOWNCONN_PER_SEC` are off. Peers send each handshake message
once. A connection that is put away is gone at once: nobody listens to it.

#### UploadSlots

| action | code |
|---|---|
| `PrepareFile` | `prepareFile` from the lock on: the choice (`SlotFor`), the granting (`Grant`) or the place in the queue (`Refuse`) |
| `TransmitDone`, `Failed` | the handlers of that name, with `removeUpload` |
| `Load`, `Store` | the decrement in `removeConnection`, which holds no lock: another thread's change of the counter in between is lost, or survives and this one is lost. `raced` records it |
| `Second` | `on(Second)`: delayed uploads expire, `notifyQueuedUsers` |
| `Minute` | `on(Minute)`: reservations and calls expire |
| `ReserveSlot`, `UnreserveSlot`, `UserDisconnected` | the operations of that name |

Left out: files, speeds and the clock (`auto` says that an automatic slot is
due; calls and reservations expire at any time), and what `hasUpload` compares
(`twin`, possible whenever another upload runs). A user has one upload connection
at a time, which is what `ConnectionManager` sees to (`ActiveIffAssociated`).

#### SocketTasks

`thread` is where the socket's thread is, `owner` what its owner has done with
it. `Pop` and the actions named for the tasks are `checkEvents`; `CheckSocket`,
`Throw`, `Fail` and `FireFailed` are `run`, with the reading, sending and
connecting that may throw; `Write`, `Request`, `Disconnect`, `Start` are what
other threads do; `PutSocket` and `ShutdownWaited` are `putSocket` and
`shutdown` from another thread, which holds `cs` while it waits for `m_speaking`,
and so keeps everybody from the task list (`Held`). The owner is a
`UserConnection`, whose listener deletes it on the socket's own thread when it
fails, or a `Client`, which is shut down and connected anew from other threads.
`writeBuf` and `sendBuf` say whether there is anything in the two buffers
`threadSendData` swaps; a sending that is stopped, or throws, leaves the latter full
(`SendDataStopped`, `Throw`). `NoDataStranded` is about a socket that was not told
gracelessly to disconnect: of one that was, a second `SEND_DATA` puts the unsent
rest back into `writeBuf`, and nobody sends it before the `DISCONNECT` behind it.
`m_threadId` is left out (before `run` sets it, it is no thread's), the data and
the modes of reading too.

#### QueueFiles

`saveQueue` runs under `QueueManager::cs`, so the queue stands still while it is
written; `step` is the file operation that comes next.

| action | code |
|---|---|
| `Add`, `Remove` | any operation that calls `setDirty`, for an item that comes or goes |
| `Tick`, `Second`, `SaveNow` | the clock; `on(Second)`, after 10 seconds of being dirty; `saveQueue()` called from elsewhere |
| `Leave`, `Destructor` | `shutdown()`, which forces a save; `~QueueManager`, which saves what is still dirty |
| `OpenTmp`, `WriteTmp` | the `File` for `.tmp`, the writing and flushing of the list |
| `DropBak`, `CopyBegins`, `CopyEnds`, `DropXml` | `deleteFile`, `copyFile`, `deleteFile` |
| `Rename`, `RenameCopies`, `DropTmp` | `File::renameFile`, which copies and deletes where it cannot rename |
| `GiveUp` | an exception, caught by `saveQueue`: `dirty` stays, the delay begins anew |
| `Crash`, `Start` | the program dies; `loadQueue`, which keeps what it could read of a list that ends too early |

`saved` and `exposed` are history variables: what the last complete save holds
of the present queue, and whether since then the program has met the moment
without a whole `Queue.xml`. A file is whole or holds a beginning of the list;
what the list says of an item (sources, segments) is in `FileDownload`. A
`deleteFile` that fails is ignored, as in the code. The file system does not
reorder what it was told.

#### Variants

A definition called `Name_Slip` is a variant of `Name` with a plausible mistake;
`PROJECT.json` ("mutants") says which property catches which slip.

## 3. Runs

| run | instance | question | states |
|---|---|---|---|
| `segment_sets` | file of 7 bytes, blocks of 2, every segment, aligned or not | is `addSegment`'s closed form the loop, does the set stay consolidated, are the answers of `getNextSegment` and `isChunkDownloaded` right on every set | 128 |
| `file_download` | 5 bytes in 3 blocks (the last short), 2 users, one may send wrong bytes, failures, removal, a restart at any moment, `KEEP_FINISHED_FILES` | is what counts as finished right, is nothing fetched twice, is the completed file kept, does it implement `VerifiedFile` | 850 000 |
| `file_download_live` | same file over `MOVER_LIMIT`, the temporary file may be lost once, `ANTI_FRAG` | is the file completed once downloads stop failing; is the temporary file of a removed item deleted | 126 000 |
| `file_overlap` | `OVERLAP_CHUNKS`, small file, 2 users | is the slow download told before two write the same bytes; does an overlapped mark outlive its reason; is the slow one told when the file is complete first; is the completed file kept | 227 000 |
| `file_recheck` | 2 rechecks, `ANTI_FRAG`, one download at a time (no `MULTI_CHUNK`), a restart | does a recheck report only what is on disk; is what it moves complete | 148 000 |
| `connections` | one user, 2 connections, 2 segments, one download slot, paused and normal priority, 2 disturbances | is a wish to download never lost, and always pursued; does an active item have exactly one living connection; is an idle connection alive | 354 000 |
| `upload_slots` | 3 users on 2 connections, one slot of each kind, reservations for one user | are slots counted as they are used, and free ones given within their number; is everybody who waits called while slots are free | 376 000 |
| `socket_tasks` | socket of a `UserConnection`, 4 tasks waiting, `m_speaking` uninitialised | is data never left without a task; does a graceless disconnection end the thread | 28 000 |
| `queue_files` | 2 items, 2 failing operations, 2 crashes, a delay of 2 ticks | is what was saved always in one of the files; is a queue that is not dirty the one in `Queue.xml`, but for the end of the program; is every change saved in the end | 282 000 |
| `file_overlap_big` | `OVERLAP_CHUNKS` and a file over `MOVER_LIMIT` | violation: the completed file is lost | |
| `file_stale_save` | the temporary file is lost, then a restart | violation: bytes count as finished that are not on disk | |
| `file_recheck_short` | recheck of a temporary file below its full size | violation: an incomplete file is moved as complete | |

Five configurations are kept beside these runs, to be started by hand: each shows
a statement of the sources violated (section 5). `SocketShutdown.cfg`
(`MCSocketTasks`): `shutdown` never returns. `ConnectionsTwo.cfg`
(`MCConnections`): a user has two downloads. `QueueCrash.cfg` (`MCQueueFiles`):
the saved queue is gone. `QueueClean.cfg` (`MCQueueFiles`): a queue that need not be
saved is not in `Queue.xml`. `UploadSlotsAuto.cfg` (`MCUploadSlots`, three connections):
more slots are opened automatically than the setting says.

Bounds, all named constants.

`SegmentSets`: seven bytes in blocks of two leave room for three segments that do not
touch, unaligned ones and a short last block; two running downloads (`MaxRunning`)
are the fewest that can leave a hole between them. The proof is for any number.

`Connections`: two connections of one user meet in every way the code arbitrates:
one works while another arrives, fails, rests or is refused; both want the one
slot; both want the one item. What several users share (slots, the error clearing
of `MyNick`) is left to the proof, which is for any number of them, and to a
check of the inductive invariant on two users with two connections and one
segment (2.7 million states). `MaxTroubles` = 2 bounds departures, protocol errors,
priorities, refusals, removed sources and forced attempts, of which any two may
meet; failures of connections, arrivals and unanswered attempts are not bounded.
`UploadSlots`: a third user is what it takes for somebody to wait behind a user
who was called; one slot of a kind is at its limit at once. `MayTouch` bounds
the lost changes of a counter to one: it is a bound of the model, not of the
code, where they add up. `SocketTasks`: `MaxTasks` bounds the tasks that wait; four hold a
start, data, a file and a disconnection in any order. `QueueFiles`: two crashes let
the program die in a save and again in the save after the restart; two failures,
in one save or in two that follow each other, meet every place where an earlier
failure has left a file behind; nothing depends on the length of the delay but
that it is not over at once. Deadlock is not checked
where sockets and connections rightly end.

`FileDownload` and `FileRecheck`: three blocks, the last one short, are the smallest
file in which a finished segment can lie strictly between two others, touch
one or both, and be short; blocks of two bytes are the smallest in which a
download can stop inside a block. Two users are enough for every race the code
arbitrates pairwise; `MaxRestarts` = 1 lets a restart fall between any two
steps, and `MaxLosses` = 1 lets the file vanish once at any point between
downloads. Deadlock is not checked: when the file is complete or removed the
system rightly stops.

`OverlapResolved` is about two users. With three, `setFile` disconnects the
*first* download whose segment holds the new one, which need not be the one that
`getDownload` decided to overlap; the property is not claimed for three.

## 4. Fairness and liveness

`LiveSpec` assumes weak fairness of each handler that can run, of `getDownload`
(the connection manager's second timer asks again for every user who is online
and has items), of a peer that has accepted a request (it keeps sending), and of
the closing of a connection that was told to disconnect (its socket thread sees
the flag). A `remove` that has let `QueueManager::cs` go goes on to its
disconnections (`RemoveDisconnects`): its thread waits for nobody. Nothing forces the user to remove, the queue to be saved or the
program to restart. `EventuallyComplete` supposes besides that downloads fail
only finitely often for reasons from outside (`NoMoreFailures`): while peers and
the network fail for ever the code promises nothing. Failures the queue brings on
itself (`OwnFailure`: an empty segment, a temporary file that is gone) are not
excused. Weak fairness suffices because no handler is disabled by another user's
steps for ever: what a user may be denied (a segment) is denied only while some
other download holds it, and that one ends.

`Connections!LiveSpec`: the second timer ticks, listeners are told, threads go
on with the handler they are in, and a connection that is silent for three minutes
is closed by `on(Minute)`, be it in its handshake, idle or told to disconnect.
Peers and downloads owe nothing. `WishPursued` needs the closing of idle
connections: the wake-up that `checkDownloads` may miss between the queue's answer and its
entry in `idlers` is made good only by it (without it TLC shows the connection
resting for ever beside something to download). It says that a source is
attempted or downloaded from again and again, not that he answers, and promises
nothing for a user who broke the protocol: he is left alone on purpose.

`UploadSlots!LiveSpec`: both timers tick, and a user who was called is dropped
in the end if he does not ask (`MinuteFor`); he can be called again only when
there is room, which takes the queue's first user with it. `WaitingCalled` is
conditional on slots staying free: uploads owe nobody their end.

`SocketTasks!LiveSpec`: the socket's thread goes on wherever it does not wait for
its peer; a peer that reads nothing may hold up the sending of data until the
socket is told to disconnect. `SocketShutdown.cfg` supposes a reading peer
(`ReadingPeerSpec`), so that what hangs is the program's own doing.

`QueueFiles!LiveSpec`: the clock and the second timer go on, the thread in
`saveQueue` comes to its end, the program's end too. Nothing forces a change, a
forced save, a failure or a crash. `ChangesSaved` needs the bound on failures: a
disk that fails for ever saves nothing.

## 5. What the model found

`PROJECT.json` ("findings") quotes the lines. In short:

1. `putDownload` of a download whose item is gone deletes the temporary file
   even when it is the completed one, still waiting for `FileMover`
   (`file_overlap_big`).
2. `getDownload` resets the finished segments of an item whose temporary file
   is gone without `setDirty`; after a restart the old segments are believed
   (`file_stale_save`). With two restarts the removal of an item that was not saved
   in time is enough, and nobody need have deleted the file.
3. `Rechecker::run` hashes a short temporary file only up to its old size and
   moves it as complete (`file_recheck_short`).
4. `moveStuckFile` never takes the item out of `userQueue`, because its caller
   has just emptied `done`: without `KEEP_FINISHED_FILES` a freed item stays
   there, with it the completed file is fetched again. Found when
   `UserQueueMatches` and `DoneIsGood` were tried on `FileRecheck` with
   `KEEP_FINISHED_FILES`; the `file_recheck` run uses the setting off, and models
   nothing of the freed item.
5. `addSegment` shortens a finished segment when one strictly inside it is added:
   verified bytes are forgotten. `KeepsAllWhenNotNested` states when nothing is
   lost; overlapping downloads and rechecks can break its premise.
6. `putDownload(d, false)` may complete `done` without noticing (overlapping
   only): the item is stuck until a recheck.

7. `BufferedSocket::shutdown` waits for `m_speaking` inside the lock that
   `threadSendData` needs before it can clear the flag: a hub's socket that is
   given up from another thread between the taking of a `SEND_DATA` task and its
   working off hangs both threads (`SocketShutdown.cfg`, `ShutdownReturns`).
8. A user may have two downloads, against an assertion of `UserQueue::addDownload`:
   `ConnectionManager::failed`, told first, makes his item waiting again, and a
   new connection may come about before `DownloadManager::onFailed` puts the old
   one's download back. `m_running` then holds one of the two, and
   `removeDownload`, which looks for the user, takes the first
   (`ConnectionsTwo.cfg`, `OneDownloadPerUser`).
9. `saveQueue` deletes `Queue.xml` before it renames the new one. After a crash
   in between `loadQueue` opens neither of the other files, and the first save
   overwrites the one and deletes the other: the backup only serves a user who
   looks for it in time (`QueueCrash.cfg`, `QueueNotLost`). `SavedQueueExists`
   says what does hold, with `exposed` for this case and the next.
10. The same without a crash: at its end the program also saves a queue that is
   clean. When the renaming fails then, nothing sets `dirty`, and `~QueueManager`
   passes by a queue that is in no `Queue.xml` (`QueueClean.cfg`, `CleanIsOnDisk`).
   `CleanMeansSaved` states this one exception.
11. `getAutoSlot` opens one slot more than `AUTO_SLOTS`, the "Max slots" of its
   comment, allows: it refuses when the slots in use exceed the sum, and not when
   they have reached it (`UploadSlotsAuto.cfg`, `AutoSlotsBounded`). The theorem
   `AutoSlotsOneOver` says that it never is more than one.

Also met, and listed as hazards rather than as properties: `removeConnection`
lowers the upload counters without the lock, and a lost change lasts until a
restart (the model has it, `SlotsAccounted` speaks of what holds before);
`MyNick` clears other users'
protocol errors; a forced attempt for a user who broke the protocol is never
timed out; a task `CONNECT` in front of `SHUTDOWN`, and `fail` overwriting the
state `shutdown` has set, keep a socket's thread for ever.

Also met, and not a property: an exception in `Rechecker::run` (the file is open
in a download) leaves the thread function and ends the program; the model treats
it as a crash. `Util::roundDown` rounds to the nearest multiple; `GapIsFirstMissing`
shows that this does no harm for the segments the queue keeps.

## 6. Proofs

TLAPS proves, for every file and block size, set of users, setting and bound:

* `SegmentLemmas!AddSegmentConsolidated`: `addSegment` keeps the set
  consolidated. The closed form merges the new segment with its predecessor,
  when that one reaches it, and its successor; the proof shows that any other
  segment is clear of the merged one. That there *is* a nearest successor when
  some segment begins before the new one ends takes the least-number principle.
* `SegmentSets_proofs`, of every set that calls of `addSegment` can build:
  `DoneStaysConsolidated` (`DoneConsolidated`), `FinishedMeansAll`
  (`FinishedIffAllCovered`), `NothingLost` (`KeepsAllWhenNotNested`), `OnlyDoneIsOffered`
  (`OffersOnlyDone`), `NextSegmentIsUseful` (`NextSegmentUseful`), `GapIsFirstRun`
  (`GapIsFirstMissing`), with up to `MaxRunning` running downloads, whatever that is;
  and that the closed forms are the loops of the code:
  `AddSegmentLoops` (`AddSegmentIsTheLoop`), `NextSegmentLoops` (`NextSegmentIsTheScan`).
* `FileDownload_proofs!TypeCorrect` and `DoneSegmentsCorrect`: `TypeOK` and
  `DoneOK` of `Spec`.
* `FileDownload_proofs!LostDownloadsAreTold`: `DroppedAreTold` of `Spec`: told, or
  still in the list of the `remove` that dropped it.
* without `OVERLAP_CHUNKS`, `FileDownload_proofs!NoByteTwice`
  (`RunningDisjoint`), `QueuedUnderItsSources` (`UserQueueMatches`) and
  `FinishedStaysFinished` (`DoneMonotone`), and until the first restart
  `FileDownloadData_proofs!FinishedIsRight` (`DoneIsGood`);
* without `OVERLAP_CHUNKS`, `FileDownloadData_proofs!Refinement` (`Spec`
  implements `VerifiedFile`) and, until the first restart, `CompletedIsKept`
  (`CompletedFileKept`);
* without `OVERLAP_CHUNKS`, as long as nobody deletes the temporary file and up to the
  second restart, `FileDownloadData_proofs!FinishedIsRightAfterRestart`
  (`DoneIsGood` again);
* for at most two users, with `OVERLAP_CHUNKS` or without,
  `FileDownload_proofs!OverlapIsResolved` (`OverlapResolved`) and
  `OverlapMarkIsBacked` (`OverlapMarkBacked`);
* of `FileRecheck`, all in `FileDownloadData_proofs`: `RecheckTypeCorrect`
  (`RecheckTypeOK`), `RecheckKeepsSegments` (`DoneOK`), `RecheckKeepsFinishedRight`
  (`DoneIsGood`) and `RecheckKeepsCompleted` (`CompletedFileKept`).

The sets of `SegmentSets` satisfy `SInv`: consolidated, and inside the file. What
takes an argument beyond it: that a set without a gap is one segment
(`AllCovered`, by the end of the segment that begins the file); that no byte is lost
when neither of two segments lies strictly inside the other
(`AddSegmentAllBytes`); that the scan finds a first free candidate where there is a
free block (`ScanFinds`, the least-number principle again); and that the first gap,
whose bounds go through `roundDown` and `roundUp`, is the first run of missing bytes
(`GapIsFirst`), since a set of whole blocks is left as it is by either rounding
(`RoundOfBoundary`).

Every other proof speaks of `addSegment` and `getNextSegment` in closed form; the
loops are recursive functions (`SegmentLoops`). A recursive function of TLA+ must first
be shown to exist. For the scan the function in closed form is one
(`ScanThere`), and any other agrees with it, or else there were a last start, and
for it a smallest size, at which it does not (`ScanValue`). The loop of `addSegment`
is counted: there is a run of any number of turns (`LoopThere`), each turn leaves
one segment more behind the iterator (`OneMoreBehind`), so that after as many as
there were segments it is at the end (`ThenAtEnd`); and `Stage` follows the set, which
is the one it began with until the iterator is past the new segment, then has
it joined to its predecessor, and from the next turn on is the closed form.

`DoneOK` is not inductive by itself: `done` receives the segments of downloads
and is replaced by the saved segments. The invariant `IInv` adds to the types
that the saved segments are consolidated and of whole blocks, that every download
has a segment of whole blocks (or the empty one), and that it has not gone past
its end; in particular a running or failed download has not reached its end, so
that the tail of a slow one (`SlowTail`) is never empty. The proof has one lemma
per action (`GetDownloadKeeps`, ...), the facts about `getNextSegment`
(`NextSegmentsFact`) and about what `putDownload` adds (`AddedWhole`, `AddedKept`).
`LostDownloadsAreTold` needs only the types besides.

The data of a file, without overlapping (`DInv`, `GoodInv`, `RefInv`, `KeptInv`,
each on top of the one before):

* `Apart`: no two downloads share a byte, and none has a finished one. It needs
  `Listing`: a download is handed out only while the item is in `userQueue`, that is
  while it is queued and unfinished, and whoever has bytes to fetch of a queued item
  is listed, so that `getNextSegment` has seen him (`FreshMeetsNothing`). Two facts
  carry the steps of `putDownload`: what meets the new set of segments meets the
  added one or an old one (`AddSegmentMeets`), and a failed download never finishes
  the file, since the end of its segment is nobody else's (`KeptDoesNotFinish`).
* `Stream`: the whole blocks a download has received are right on disk, all it has
  received if it was never sent a wrong byte, and an open file exists. What
  `putDownload` adds is within that; what others write lies elsewhere.
* `RefInv`: an item found complete, or saved as complete, is finished if it is
  queued: it takes this to see that the step back to nothing (`Forget`) is never
  taken for a complete file. A set of whole blocks without a gap is the whole file
  (`AllCovered`), so that every step of `putDownload` but the last is a `Gain`.
* `KeptInv`: nobody has an empty download, because `getNextSegment` finds something
  in every unfinished file (`FreshThere`: an unfinished byte lies in a block no
  segment holds) and forgetting the finished segments takes no answer away
  (`FreshAfterReset`). Then nobody downloads of a complete file (`AtRest`), and
  nobody is left to delete it.

* `OnceInv`: before the first restart the saved segments are finished ones, and right
  on disk as long as there is a temporary file, even after the item was removed
  (`SavedInv`). It holds because `getDownload` has nothing to forget: a finished
  segment of an item that can be downloaded means that the temporary file is there,
  for whatever deletes or moves it has taken the item out of `userQueue` first; in
  `FileMover`'s case this takes that it only moves files found complete.

The hypotheses are needed: with `OVERLAP_CHUNKS` an overlapped download outlives
the completion (finding 1), and a restart may bring back segments of a temporary
file that was lost, a second one also those of a file that was removed (finding 2).
After a restart `CompletedIsKept` would not hold for large files: the removal of a
finished item whose file still waits for `FileMover` may not have been saved. For
small ones TLC has the run `file_download`.

Overlapping with two users (`OInv`). That a mark has its reason and that writers of
the same bytes are being disconnected are not inductive: what has been chosen and
not yet opened matters. `AskedApart`: a download that was asked for and not marked
meets nobody, so that opening its file brings no new pair together unless `setFile`
tells the other. `TakenOver`: of two open files the one marked is being
disconnected. `Handled` says what the phases have to do with the open file. Once the
item has gone nobody needs a mark any more, and `OverlapMarkBacked` says nothing of
it. A third user breaks
`OverlapResolved` itself (section 3): `setFile` tells the first download that holds
the segment, not the one `getDownload` chose.

The recheck (`FileRecheck`). `RTInv` is `IInv` and the types of what the thread holds
(`CheckOK`), whose found blocks are whole blocks of the file. `RecheckInv` adds what
links the thread to the item it has let go: what the verdict will report is on disk,
if the item is still there (`VerdictRight`), and what `Queue.xml` says is right until it
has been read again (`QueueRight`). The steps of the download keep both
(`FileKept`): they write only right bytes, and take the temporary file away only
when the item goes, or when it has no finished segment. The blocks the verdict adds
one after the other (`AddBlocks`, a recursive function) stay within what was
found: the function exists for every number of blocks (`UpToThere`), by the least
one for which it would not. `MovedInv` adds that the temporary file has its
full size (`FullFile`), so that a check whose every block matched has seen all
(`CheckWhole`), and that what was moved does not come back (`MovedRight`).

The hypotheses are those under which TLC finds no violation: the recheck empties `done`
while downloads go on, so that a block may be handed out that lies behind a running
download and a wrong byte written over a right one (`BadUsers = {}`); with
`KEEP_FINISHED_FILES` the moved item is downloaded again (finding 4); without
`ANTI_FRAG` a short file is moved (finding 3); over `MOVER_LIMIT` a removal deletes the
completed file (finding 1). Overlapping downloads, `MULTI_CHUNK`, several users and any number of
rechecks are all in.

For `Connections`, for every set of users, connections and segments, all settings
and bounds: `TypeCorrect`, `ActiveAssociated`, `IdlersAlive` and `WishesKept`.
The invariant `IInv` of `Connections_proofs` consists of

* `TypeOK` and `Shape`: what a connection's phase says about its other fields (a
  connection has a download only when it is busy, denied or failing; it is
  associated exactly from its handing over to its failure; ...). Without it no step can be
  told what it leaves behind;
* `ActiveIffAssociated`, inductive with `Shape`: a connection becomes associated
  only when its item is not active, and the item leaves that state only in `failed`;
* `IdlersListen`;
* `RunningBacked`: a user has a download in the queue only because a connection
  of his has one. `AddSource` asks for nobody who has; that the asking is then done
  when the download is put back is what `NoWishForgotten` rests on;
* `NoWishForgotten`. A step can break it by removing an item (`SecondUnwanted`,
  only when there is nothing to download; `SecondOffline`, only when the user
  is away), by making something downloadable (priority, source, a download put
  back: each asks), or by a user's coming online (who is `arriving` until the
  queue has been told).

The proof has one lemma for each part and, within it, one step per action;
`WishKept` collects the steps that leave a wish as it was.

For `SocketTasks`, for any owner, memory and bound: `SocketTypeCorrect` and
`DataHasItsTask` (`NoDataStranded`). The latter is not inductive alone: a socket
whose buffer holds data might begin to run. `StartsOnce` says that it cannot: a
socket is started once, and while its start is to come or waits, nothing has been
written and the thread has done nothing that could fail. And `SEND_DATA` swaps the two
buffers: `SendBufUsed` says that what is in the other one of a running socket is being
sent, or its sending threw, or was stopped because the socket is being disconnected;
only in the last case can a second `SEND_DATA` put it back. `RoomForShutdown` is what
the bound of the task list needs: `SHUTDOWN` comes once, last, beyond it.

For `UploadSlots`, for any users, settings and number of connections: `TypesAreKept`
(`SlotsTypeOK`). That nobody waits twice in the queue rests on `ClearedLined`: the
queue with some users taken out of it (`Cleared`, a recursive function) has each of
the others in one place; `CountUp`, an induction over its length, shows it.
For at most 255 connections (`FewConnections`; the counters have eight bits):
`SlotsAreAccounted`. The invariant says that, until a change is lost, a counter is
the number of connections that hold a slot of its kind or have left and not yet been
taken off (`Counted`): `Failed` moves a connection from the one to the other, which
changes no count, and `Store` takes it off. The bound of the free slots given away
follows from the reason each was given for (`ReasonFact`), and so does
`AutoSlotsOneOver`: `getAutoSlot` allows a slot while those in use are not more than
`SLOTS + AUTO_SLOTS`, which is one more than the setting (finding 11).

For `QueueFiles`, for any items, delay and bounds: `TypeCorrect`, `SavedIsSomewhere`
(`SavedQueueExists`) and `CleanIsSaved` (`CleanMeansSaved`). The invariant follows
the files through `saveQueue`: until the temporary file is whole, `Queue.xml` is not
touched (`SavedInv`); from then on the temporary file is the queue, which stands
still (`TmpIsQueue`), until it is renamed; `Control` says in which steps there is
a `Queue.xml` to copy, and that only `shutdown` saves a clean queue. A clean queue is
the one in `Queue.xml` because nothing but `saveQueue` writes the file and whatever
changes the queue makes it dirty (`CleanInv`); where the forced save of a clean queue
failed, the temporary file, which was whole before, still is.

The proofs assume what the modules `ASSUME`: positive file and block size,
settings that are booleans, bounds that are natural numbers; TLC evaluates the same assumptions in every run.
Every safety property that a passing run checks has a theorem. Model-checked only is
liveness (`EventuallyComplete` and the others of section 4), which needs fairness
and `ENABLED`; and what `CompletedFileKept` says, without recheck, of a file that is
completed after a restart.

## 7. Plan

Done: `Segments`, `SegmentSets`, `SegmentLoops` and their proofs; `FileDownload`, its
abstract specification and its proofs, the refinement and two overlapping users
included; `FileRecheck` and its proofs; `Connections` and its proofs; `UploadSlots`, `SocketTasks` and `QueueFiles` with theirs. Left, in this order:

1. `UserQueue`: several items, priorities, file slots, sources removed and added,
   in the manner of `FileDownload` with the segments abstracted; partial sources.
   What reading the code for it has shown so far: `removeSource(user)` asks
   `getNext` for his next item and so passes by those it would not start now
   (no file slot, no free block), although the source is to be removed from all;
   it removes a running item in the same loop, and then tells no connection to
   disconnect; `setPriority(PAUSED)` aborts the downloads `DownloadManager` knows
   and misses one that is handed out and not started; `on(Second)` decides
   automatic priorities under the lock and sets them after it, over what the user
   has set in between; `handlePartialResult` may bring back a source that was
   removed while his answer was on its way.
2. `KBucket`: node table of the DHT.

## 8. Not modelled

Hash tree arithmetic and SQL storage (data transformation), directory lists and
share scanning (disk and XML), hub protocols (text parsing), sockets, TLS and HTTP
(thin layers over the system), port mapping (sequential tries against external
routers), settings, favourites and logs. The components planned above are marked
`not_modelled` in `PROJECT.json` until they are done.
