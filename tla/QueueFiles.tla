----------------------------- MODULE QueueFiles -----------------------------
(***************************************************************************)
(* How the download queue gets to Queue.xml and back: setDirty, saveQueue, *)
(* which goes through Queue.xml.tmp and Queue.xml.bak, and loadQueue; with *)
(* the timer, the end of the program, failing file operations, and a crash *)
(* between any two of them.                                                *)
(*                                                                         *)
(* saveQueue holds QueueManager::cs, so the queue stays what it is while   *)
(* it is being written; every file operation is a step.                    *)
(***************************************************************************)
EXTENDS Naturals

CONSTANTS
  Items,
  None,        \* no such file
  Delay,       \* the 10 seconds between two saves, in ticks
  MaxFaults,   \* bound on file operations that fail
  MaxCrashes   \* bound on crashes

ASSUME QueueFilesAssumption ==
  /\ None \notin [whole : BOOLEAN, items : SUBSET Items]
  /\ Delay \in Nat
  /\ MaxFaults \in Nat
  /\ MaxCrashes \in Nat

VARIABLES
  queue,       \* QueueManager::fileQueue
  dirty,
  age,         \* since lastSave
  step,        \* of saveQueue; "idle" when nobody is in it
  leaving,     \* how far the program's end has come
  up,          \* the program runs
  xml, tmp, bak, \* Queue.xml, Queue.xml.tmp, Queue.xml.bak
  faults, crashes, \* counters for the bounds
  saved,       \* what the last complete save holds of the present queue
  exposed      \* the moment without Queue.xml has been met since

files == <<xml, tmp, bak>>
memory == <<queue, dirty, age>>
program == <<leaving, up>>
counters == <<faults, crashes>>
promise == <<saved, exposed>>
vars == <<memory, step, program, files, counters, promise>>

-----------------------------------------------------------------------------
\* A file being written holds a beginning of the list.
File == [whole : BOOLEAN, items : SUBSET Items]
Whole(s) == [whole |-> TRUE, items |-> s]
Part(s)  == [whole |-> FALSE, items |-> s]

Working == up /\ leaving = "no"

\* every change restarts the delay
SetDirty_Slip == dirty' = TRUE /\ age' = 0

SetDirty == dirty' = TRUE /\ age' = IF dirty THEN age ELSE 0

Init ==
  /\ queue = {} /\ dirty = TRUE /\ age = Delay
  /\ step = "idle" /\ leaving = "no" /\ up = TRUE
  /\ xml = None /\ tmp = None /\ bak = None
  /\ faults = 0 /\ crashes = 0
  /\ saved = {} /\ exposed = FALSE

-----------------------------------------------------------------------------
\* Any operation that calls setDirty, for an item that comes or goes.
Add(i) ==
  /\ Working /\ step = "idle"
  /\ i \notin queue
  /\ queue' = queue \cup {i}
  /\ SetDirty
  /\ UNCHANGED <<step, program, files, counters, promise>>

Remove(i) ==
  /\ Working /\ step = "idle"
  /\ i \in queue
  /\ queue' = queue \ {i}
  /\ saved' = saved \ {i}
  /\ SetDirty
  /\ UNCHANGED <<step, program, files, counters, exposed>>

\* the delay is counted on and on
Tick_Slip ==
  /\ Working
  /\ age' = age + 1
  /\ UNCHANGED <<queue, dirty, step, program, files, counters, promise>>

Tick ==
  /\ Working
  /\ age < Delay
  /\ age' = age + 1
  /\ UNCHANGED <<queue, dirty, step, program, files, counters, promise>>

\* on(Second), or saveQueue() from the user interface at any moment
Second ==
  /\ Working /\ step = "idle"
  /\ dirty /\ age = Delay
  /\ step' = "open"
  /\ UNCHANGED <<memory, program, files, counters, promise>>

SaveNow ==
  /\ Working /\ step = "idle"
  /\ dirty
  /\ step' = "open"
  /\ UNCHANGED <<memory, program, files, counters, promise>>

\* shutdown(): saveQueue(true)
Leave ==
  /\ Working /\ step = "idle"
  /\ leaving' = "shutdown"
  /\ step' = "open"
  /\ UNCHANGED <<memory, up, files, counters, promise>>

\* ~QueueManager: saveQueue()
Destructor ==
  /\ up /\ step = "idle"
  /\ \/ /\ leaving = "shutdown" /\ dirty
        /\ leaving' = "destructor"
        /\ step' = "open"
        /\ UNCHANGED <<up, memory>>
     \/ /\ leaving = "destructor" \/ (leaving = "shutdown" /\ ~dirty)
        /\ leaving' = "no"
        /\ up' = FALSE
        /\ queue' = {}
        /\ UNCHANGED <<dirty, age, step>>
  /\ UNCHANGED <<files, counters, promise>>

-----------------------------------------------------------------------------
(***************************************************************************)
(* saveQueue.  Fault: the operation of this step fails; GiveUp: it throws, *)
(* and saveQueue catches.                                                  *)
(***************************************************************************)
At(s) == step = s /\ up
To(s) == step' = s /\ UNCHANGED <<memory, promise>>

Fault == faults < MaxFaults /\ faults' = faults + 1
Works == UNCHANGED faults

\* dirty is cleared outside the try
GiveUp_Slip ==
  /\ Fault
  /\ step' = "idle" /\ age' = 0 /\ dirty' = FALSE
  /\ UNCHANGED <<queue, saved>>

GiveUp ==
  /\ Fault
  /\ step' = "idle" /\ age' = 0
  /\ UNCHANGED <<queue, dirty, saved>>

Saved ==
  /\ step' = "idle" /\ age' = 0 /\ dirty' = FALSE
  /\ saved' = queue /\ exposed' = FALSE
  /\ UNCHANGED queue

OpenTmp ==
  /\ At("open")
  /\ \/ Works /\ tmp' = Part(queue) /\ To("write")
     \/ GiveUp /\ UNCHANGED <<tmp, exposed>>
  /\ UNCHANGED <<xml, bak>>

\* without f.flush() the stream's destructor writes, and swallows the error
WriteTmp_Slip ==
  /\ At("write")
  /\ \/ Works /\ tmp' = Whole(queue)
     \/ Fault /\ UNCHANGED tmp
  /\ To("dropBak")
  /\ UNCHANGED <<xml, bak>>

WriteTmp ==
  /\ At("write")
  /\ \/ Works /\ tmp' = Whole(queue) /\ To("dropBak")
     \/ GiveUp /\ UNCHANGED <<tmp, exposed>>
  /\ UNCHANGED <<xml, bak>>

DropBak ==
  /\ At("dropBak")
  /\ \/ Works /\ bak' = None
     \/ Fault /\ UNCHANGED bak
  /\ To(IF xml = None THEN "rename" ELSE "copy")
  /\ UNCHANGED <<xml, tmp>>

CopyBegins ==
  /\ At("copy")
  /\ Works /\ bak' = Part(xml.items) /\ To("copying")
  /\ UNCHANGED <<xml, tmp>>

CopyEnds ==
  /\ At("copying")
  /\ \/ Works /\ bak' = xml /\ To("dropXml")
     \/ GiveUp /\ bak' \in {None, bak} /\ UNCHANGED exposed
  /\ UNCHANGED <<xml, tmp>>

DropXml ==
  /\ At("dropXml")
  /\ \/ Works /\ xml' = None
     \/ Fault /\ UNCHANGED xml
  /\ To("rename")
  /\ UNCHANGED <<tmp, bak>>

\* File::renameFile: MoveFile does not replace a file; then copy and delete.
Rename ==
  /\ At("rename")
  /\ \/ Works /\ xml = None /\ xml' = tmp /\ tmp' = None /\ Saved
     \/ /\ IF xml = None THEN Fault ELSE Works
        /\ xml' = Part(queue)
        /\ To("renaming")
        /\ UNCHANGED tmp
  /\ UNCHANGED bak

RenameCopies ==
  /\ At("renaming")
  /\ \/ Works /\ xml' = tmp /\ To("dropTmp")
     \/ GiveUp /\ xml' \in {None, xml} /\ exposed' = TRUE
  /\ UNCHANGED <<tmp, bak>>

DropTmp ==
  /\ At("dropTmp")
  /\ \/ Works /\ tmp' = None
     \/ Fault /\ UNCHANGED tmp
  /\ Saved
  /\ UNCHANGED <<xml, bak>>

SaveStep ==
  /\ \/ OpenTmp \/ WriteTmp \/ DropBak \/ CopyBegins \/ CopyEnds \/ DropXml
     \/ Rename \/ RenameCopies \/ DropTmp
  /\ UNCHANGED <<program, crashes>>

-----------------------------------------------------------------------------
Crash ==
  /\ up
  /\ crashes < MaxCrashes
  /\ crashes' = crashes + 1
  /\ up' = FALSE /\ leaving' = "no" /\ step' = "idle"
  /\ queue' = {}
  /\ UNCHANGED <<dirty, age, files, faults, promise>>

\* loadQueue: of a list that ends too early, what was read stays; dirty,
\* set by the constructor, is cleared only when the list was whole.
Loaded(q, whole) ==
  queue' = q /\ dirty' = ~whole /\ exposed' = (exposed \/ (~whole /\ saved # {}))

Start ==
  /\ ~up
  /\ up' = TRUE
  /\ age' = Delay
  /\ \/ xml = None /\ Loaded({}, FALSE)
     \/ xml # None /\ xml.whole /\ Loaded(xml.items, TRUE)
     \/ xml # None /\ ~xml.whole /\ \E s \in SUBSET xml.items : Loaded(s, FALSE)
  /\ UNCHANGED <<step, leaving, files, counters, saved>>

-----------------------------------------------------------------------------
Change == \E i \in Items : Add(i) \/ Remove(i)

Next ==
  \/ Change \/ Tick \/ Second \/ SaveNow \/ Leave \/ Destructor \/ SaveStep
  \/ Crash \/ Start

Spec == Init /\ [][Next]_vars

\* The clock goes on, and so does the thread that is in saveQueue.
LiveSpec ==
  Spec /\ WF_vars(Tick) /\ WF_vars(Second) /\ WF_vars(SaveStep) /\ WF_vars(Destructor)

-----------------------------------------------------------------------------
Steps == {"idle", "open", "write", "dropBak", "copy", "copying", "dropXml",
          "rename", "renaming", "dropTmp"}

TypeOK ==
  /\ queue \subseteq Items /\ dirty \in BOOLEAN /\ age \in 0..Delay
  /\ step \in Steps /\ leaving \in {"no", "shutdown", "destructor"} /\ up \in BOOLEAN
  /\ {xml, tmp, bak} \subseteq File \cup {None}
  /\ faults \in 0..MaxFaults /\ crashes \in 0..MaxCrashes
  /\ saved \subseteq Items /\ exposed \in BOOLEAN

Holds(f) == f # None /\ f.whole /\ saved \subseteq f.items

(***************************************************************************)
(* What was once saved and not removed since is at any moment, wherever    *)
(* saveQueue is and whichever of its operations failed, in one of the      *)
(* three files, whole, for whoever looks for it after a crash; unless,     *)
(* since the last complete save, the program has started without a whole   *)
(* Queue.xml, or failed to rename the new one after deleting the old.      *)
(***************************************************************************)
SavedQueueExists ==
  exposed \/ saved = {} \/ \E f \in {xml, tmp, bak} : Holds(f)

(***************************************************************************)
(* A queue that is not dirty is the one in Queue.xml, so that the timer    *)
(* and ~QueueManager may pass it by, whatever has failed or crashed; with  *)
(* one exception.  shutdown also saves a clean queue: when the renaming    *)
(* fails then, the queue stays clean, and is whole in Queue.xml.tmp only   *)
(* (CleanIsOnDisk).                                                        *)
(***************************************************************************)
CleanMeansSaved ==
  up /\ ~dirty /\ step = "idle" =>
    xml = Whole(queue) \/ (leaving = "shutdown" /\ tmp = Whole(queue))

(***************************************************************************)
(* A change gets to disk in the end, however often the queue changes in    *)
(* the meantime (setDirty restarts the 10 seconds only for a clean queue)  *)
(* and although saves may fail, as long as the program runs.               *)
(***************************************************************************)
ChangesSaved == dirty ~> (~dirty \/ ~up)

(***************************************************************************)
(* dirty: "The queue needs to be saved".  One that does not is the one in  *)
(* Queue.xml, without any exception.                                       *)
(***************************************************************************)
CleanIsOnDisk == up /\ ~dirty /\ step = "idle" => xml = Whole(queue)

(***************************************************************************)
(* "The XML is now backed up before writing a new one, so that you don't   *)
(* lose your queue when ++ crashes": what was saved and not removed since  *)
(* is in the queue of the running program or in one of its files.          *)
(***************************************************************************)
QueueNotLost ==
  (up /\ saved \subseteq queue) \/ saved = {} \/ \E f \in {xml, tmp, bak} : Holds(f)

=============================================================================
