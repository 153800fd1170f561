-------------------------- MODULE QueueFiles_proofs --------------------------
(***************************************************************************)
(* Proofs about QueueFiles: for any items, delay and bounds, wherever      *)
(* saveQueue is when the program crashes and whichever of its operations   *)
(* fail, a saved queue is in one of the three files unless Queue.xml was   *)
(* missed (exposed), and a clean one is Queue.xml's, but for the end of    *)
(* the program.                                                            *)
(***************************************************************************)
EXTENDS QueueFiles, TLAPS

\* Queue.xml is still, or again, the last one; Queue.xml.tmp is the next one.
XmlStands == {"idle", "open", "write", "dropBak", "copy", "copying", "dropXml"}
TmpReady  == {"dropBak", "copy", "copying", "dropXml", "rename", "renaming", "dropTmp"}

\* Nobody saves when the program is down, only shutdown saves a clean queue, and
\* only what there is is copied.
Control == /\ ~up => step = "idle"
           /\ step # "idle" /\ ~dirty => leaving = "shutdown"
           /\ step \in {"copy", "copying"} => xml # None

\* From WriteTmp on, Queue.xml.tmp is the queue, for it is locked.
TmpIsQueue == /\ up /\ step \in TmpReady \ {"dropTmp"} => tmp = Whole(queue)
              /\ up /\ step = "dropTmp" => xml = Whole(queue)

Promised == ~exposed /\ saved # {}

SavedInv ==
  Promised => /\ xml # None /\ xml.whole => saved \subseteq xml.items
              /\ \E f \in {xml, tmp, bak} : Holds(f)
              /\ up => saved \subseteq queue
              /\ up /\ step \in XmlStands => Holds(xml)

CleanInv ==
  up /\ ~dirty /\ step \in XmlStands =>
    \/ xml = Whole(queue)
    \/ step = "idle" /\ leaving = "shutdown" /\ tmp = Whole(queue)

IInv == TypeOK /\ Control /\ TmpIsQueue /\ SavedInv /\ CleanInv
-----------------------------------------------------------------------------
\* A step of saveQueue, and what it leaves alone.
LEMMA StepOf ==
  ASSUME SaveStep
  PROVE  /\ \/ OpenTmp \/ WriteTmp \/ DropBak \/ CopyBegins \/ CopyEnds \/ DropXml
            \/ Rename \/ RenameCopies \/ DropTmp
         /\ UNCHANGED <<up, leaving, crashes>>
BY DEF SaveStep, program

\* Files hold items, and no file is None.
LEMMA FileTypes ==
  ASSUME NEW s \in SUBSET Items
  PROVE  Whole(s) \in File /\ Part(s) \in File
BY DEF Whole, Part, File

LEMMA FileFields ==
  ASSUME NEW f \in File
  PROVE  f.items \in SUBSET Items /\ f.whole \in BOOLEAN
BY DEF File

\* Every step keeps the types.
LEMMA TypesKept ==
  ASSUME TypeOK, Control, [Next]_vars
  PROVE  TypeOK'
<1>. USE QueueFilesAssumption, FileTypes, FileFields DEF vars, memory, program,
       files, counters, promise, TypeOK, Steps, Control
<1>1. CASE Change
  <2>1. PICK i \in Items : Add(i) \/ Remove(i)
    BY <1>1 DEF Change
  <2>2. queue' \subseteq Items /\ saved' \subseteq Items
    BY <2>1 DEF Add, Remove
  <2>3. dirty' \in BOOLEAN
    BY <2>1 DEF Add, Remove, SetDirty
  <2>5. age' \in 0..Delay
    BY <2>1 DEF Add, Remove, SetDirty
  <2>4. UNCHANGED <<step, program, files, counters, exposed>>
    BY <2>1 DEF Add, Remove
  <2>. QED BY <2>2, <2>3, <2>4, <2>5
<1>2. CASE Tick
  BY <1>2 DEF Tick, Working
<1>3. CASE Second
  BY <1>3 DEF Second, Working
<1>4. CASE SaveNow
  BY <1>4 DEF SaveNow, Working
<1>5. CASE Leave
  BY <1>5 DEF Leave, Working
<1>6. CASE Destructor
  BY <1>6 DEF Destructor
<1>7. CASE SaveStep /\ OpenTmp
  BY <1>7, StepOf DEF OpenTmp, At, To, Works, Fault, GiveUp, Saved
<1>8. CASE SaveStep /\ WriteTmp
  BY <1>8, StepOf DEF WriteTmp, At, To, Works, Fault, GiveUp, Saved
<1>9. CASE SaveStep /\ DropBak
  BY <1>9, StepOf DEF DropBak, At, To, Works, Fault, GiveUp, Saved
<1>10. CASE SaveStep /\ CopyBegins
  <2>1. xml \in File
    BY <1>10 DEF CopyBegins, At
  <2>2. bak' \in File
    BY <1>10, <2>1 DEF CopyBegins
  <2>. QED BY <1>10, StepOf, <2>2 DEF CopyBegins, At, To, Works
<1>11. CASE SaveStep /\ CopyEnds
  BY <1>11, StepOf DEF CopyEnds, At, To, Works, Fault, GiveUp, Saved
<1>12. CASE SaveStep /\ DropXml
  BY <1>12, StepOf DEF DropXml, At, To, Works, Fault, GiveUp, Saved
<1>13. CASE SaveStep /\ Rename
  <2>1. {xml', tmp', bak'} \subseteq File \cup {None}
    BY <1>13 DEF Rename
  <2>2. queue' \subseteq Items /\ saved' \subseteq Items
    BY <1>13 DEF Rename, At, To, Works, Fault, GiveUp, Saved
  <2>3. dirty' \in BOOLEAN
    BY <1>13 DEF Rename, At, To, Works, Fault, GiveUp, Saved
  <2>6. age' \in 0..Delay
    BY <1>13 DEF Rename, At, To, Works, Fault, GiveUp, Saved
  <2>4. faults' \in 0..MaxFaults
    BY <1>13 DEF Rename, At, To, Works, Fault, GiveUp, Saved
  <2>5. step' \in Steps /\ exposed' \in BOOLEAN
    BY <1>13 DEF Rename, At, To, Works, Fault, GiveUp, Saved
  <2>. QED BY <1>13, StepOf, <2>1, <2>2, <2>3, <2>4, <2>5, <2>6
<1>14. CASE SaveStep /\ RenameCopies
  <2>1. {xml', tmp', bak'} \subseteq File \cup {None}
    BY <1>14 DEF RenameCopies
  <2>2. queue' \subseteq Items /\ saved' \subseteq Items
    BY <1>14 DEF RenameCopies, At, To, Works, Fault, GiveUp, Saved
  <2>3. dirty' \in BOOLEAN
    BY <1>14 DEF RenameCopies, At, To, Works, Fault, GiveUp, Saved
  <2>6. age' \in 0..Delay
    BY <1>14 DEF RenameCopies, At, To, Works, Fault, GiveUp, Saved
  <2>4. faults' \in 0..MaxFaults
    BY <1>14 DEF RenameCopies, At, To, Works, Fault, GiveUp, Saved
  <2>5. step' \in Steps /\ exposed' \in BOOLEAN
    BY <1>14 DEF RenameCopies, At, To, Works, Fault, GiveUp, Saved
  <2>. QED BY <1>14, StepOf, <2>1, <2>2, <2>3, <2>4, <2>5, <2>6
<1>15. CASE SaveStep /\ DropTmp
  <2>1. {xml', tmp', bak'} \subseteq File \cup {None}
    BY <1>15 DEF DropTmp
  <2>2. queue' \subseteq Items /\ saved' \subseteq Items
    BY <1>15 DEF DropTmp, At, To, Works, Fault, GiveUp, Saved
  <2>3. dirty' \in BOOLEAN
    BY <1>15 DEF DropTmp, At, To, Works, Fault, GiveUp, Saved
  <2>6. age' \in 0..Delay
    BY <1>15 DEF DropTmp, At, To, Works, Fault, GiveUp, Saved
  <2>4. faults' \in 0..MaxFaults
    BY <1>15 DEF DropTmp, At, To, Works, Fault, GiveUp, Saved
  <2>5. step' \in Steps /\ exposed' \in BOOLEAN
    BY <1>15 DEF DropTmp, At, To, Works, Fault, GiveUp, Saved
  <2>. QED BY <1>15, StepOf, <2>1, <2>2, <2>3, <2>4, <2>5, <2>6
<1>16. CASE Crash
  <2>1. crashes' \in 0..MaxCrashes
    BY <1>16 DEF Crash
  <2>. QED BY <1>16, <2>1 DEF Crash
<1>17. CASE Start
  <2>1. queue' \subseteq Items
    BY <1>17 DEF Start, Loaded
  <2>2. dirty' \in BOOLEAN
    BY <1>17 DEF Start, Loaded
  <2>3. exposed' \in BOOLEAN
    BY <1>17 DEF Start, Loaded
  <2>. QED BY <1>17, <2>1, <2>2, <2>3 DEF Start
<1>18. CASE UNCHANGED vars
  BY <1>18
<1>. QED BY StepOf, <1>1, <1>2, <1>3, <1>4, <1>5, <1>6, <1>7, <1>8, <1>9, <1>10,
       <1>11, <1>12, <1>13, <1>14, <1>15, <1>16, <1>17, <1>18 DEF Next

\* Nothing changes the queue while it is being written.
LEMMA TmpKept ==
  ASSUME TypeOK, TypeOK', Control, TmpIsQueue, [Next]_vars
  PROVE  Control' /\ TmpIsQueue'
<1>. USE QueueFilesAssumption DEF vars, memory, program, files, counters, promise,
       TypeOK, Whole, Part, File, Control, TmpIsQueue, TmpReady
<1>1. CASE Change
  BY <1>1 DEF Change, Add, Remove, Working, SetDirty
<1>2. CASE Tick
  BY <1>2 DEF Tick, Working
<1>3. CASE Second
  BY <1>3 DEF Second, Working
<1>4. CASE SaveNow
  BY <1>4 DEF SaveNow, Working
<1>5. CASE Leave
  BY <1>5 DEF Leave, Working
<1>6. CASE Destructor
  <2>1. CASE dirty /\ step' = "open"
    BY <1>6, <2>1 DEF Destructor
  <2>2. CASE step' = "idle"
    BY <1>6, <2>2 DEF Destructor
  <2>. QED BY <1>6, <2>1, <2>2 DEF Destructor
<1>7. CASE SaveStep /\ OpenTmp
  BY <1>7, StepOf DEF OpenTmp, At, To, Works, Fault, GiveUp, Saved
<1>8. CASE SaveStep /\ WriteTmp
  BY <1>8, StepOf DEF WriteTmp, At, To, Works, Fault, GiveUp, Saved
<1>9. CASE SaveStep /\ DropBak
  BY <1>9, StepOf DEF DropBak, At, To, Works, Fault, GiveUp, Saved
<1>10. CASE SaveStep /\ CopyBegins
  BY <1>10, StepOf DEF CopyBegins, At, To, Works, Fault, GiveUp, Saved
<1>11. CASE SaveStep /\ CopyEnds
  BY <1>11, StepOf DEF CopyEnds, At, To, Works, Fault, GiveUp, Saved
<1>12. CASE SaveStep /\ DropXml
  BY <1>12, StepOf DEF DropXml, At, To, Works, Fault, GiveUp, Saved
<1>13. CASE SaveStep /\ Rename
  BY <1>13, StepOf DEF Rename, At, To, Works, Fault, GiveUp, Saved
<1>14. CASE SaveStep /\ RenameCopies
  BY <1>14, StepOf DEF RenameCopies, At, To, Works, Fault, GiveUp, Saved
<1>15. CASE SaveStep /\ DropTmp
  BY <1>15, StepOf DEF DropTmp, At, To, Works, Fault, GiveUp, Saved
<1>16. CASE Crash
  BY <1>16 DEF Crash
<1>17. CASE Start
  BY <1>17 DEF Start, Loaded
<1>18. CASE UNCHANGED vars
  BY <1>18
<1>. QED BY StepOf, <1>1, <1>2, <1>3, <1>4, <1>5, <1>6, <1>7, <1>8, <1>9, <1>10,
       <1>11, <1>12, <1>13, <1>14, <1>15, <1>16, <1>17, <1>18 DEF Next

\* A step leaves what was saved in one of the files.
LEMMA SavedKept ==
  ASSUME IInv, TypeOK', TmpIsQueue', [Next]_vars
  PROVE  SavedInv'
<1>. USE QueueFilesAssumption, FileTypes DEF vars, memory, program, files,
       counters, promise, TypeOK, Whole, Part, File, IInv, Control, TmpIsQueue,
       TmpReady, XmlStands, SavedInv, Promised, Holds
<1>1. CASE Change
  BY <1>1 DEF Change, Add, Remove, Working, SetDirty
<1>2. CASE Tick
  BY <1>2 DEF Tick, Working
<1>3. CASE Second
  BY <1>3 DEF Second, Working
<1>4. CASE SaveNow
  BY <1>4 DEF SaveNow, Working
<1>5. CASE Leave
  BY <1>5 DEF Leave, Working
<1>6. CASE Destructor
  BY <1>6 DEF Destructor
<1>7. CASE SaveStep /\ OpenTmp
  BY <1>7, StepOf DEF OpenTmp, At, To, Works, Fault, GiveUp, Saved
<1>8. CASE SaveStep /\ WriteTmp
  BY <1>8, StepOf DEF WriteTmp, At, To, Works, Fault, GiveUp, Saved
<1>9. CASE SaveStep /\ DropBak
  BY <1>9, StepOf DEF DropBak, At, To, Works, Fault, GiveUp, Saved
<1>10. CASE SaveStep /\ CopyBegins
  BY <1>10, StepOf DEF CopyBegins, At, To, Works, Fault, GiveUp, Saved
<1>11. CASE SaveStep /\ CopyEnds
  BY <1>11, StepOf DEF CopyEnds, At, To, Works, Fault, GiveUp, Saved
<1>12. CASE SaveStep /\ DropXml
  <2>1. step' = "rename" /\ UNCHANGED <<up, queue, saved, exposed, tmp, bak>>
    BY <1>12, StepOf DEF DropXml, To
  <2>2. up /\ tmp = Whole(queue) /\ xml' \in {None, xml}
    BY <1>12 DEF DropXml, At
  <2>3. ASSUME Promised PROVE Holds(tmp)'
    BY <2>1, <2>2, <2>3
  <2>. QED BY <2>1, <2>2, <2>3
<1>13. CASE SaveStep /\ Rename
  <2>1. up /\ tmp = Whole(queue) /\ UNCHANGED <<up, queue>>
    BY <1>13, StepOf DEF Rename, At, To, Saved
  <2>2. CASE step' = "idle"
    <3>1. xml' = Whole(queue) /\ saved' = queue
      BY <1>13, <2>1, <2>2 DEF Rename, At, To, Saved
    <3>. QED BY <2>1, <3>1
  <2>3. CASE step' = "renaming"
    <3>1. xml' = Part(queue) /\ UNCHANGED <<tmp, saved, exposed>>
      BY <1>13, <2>3 DEF Rename, At, To, Saved
    <3>2. ASSUME Promised PROVE Holds(tmp)'
      BY <2>1, <3>1, <3>2
    <3>. QED BY <2>1, <2>3, <3>1, <3>2
  <2>. QED BY <1>13, <2>2, <2>3 DEF Rename, To, Saved
<1>14. CASE SaveStep /\ RenameCopies
  <2>1. CASE exposed'
    BY <2>1
  <2>2. CASE ~exposed'
    <3>1. xml' = Whole(queue) /\ UNCHANGED <<up, queue, saved, exposed>> /\ up
      BY <1>14, StepOf, <2>2 DEF RenameCopies, At, To
    <3>2. step' = "dropTmp"
      BY <1>14, <2>2 DEF RenameCopies, To
    <3>. QED BY <3>1, <3>2
  <2>. QED BY <2>1, <2>2
<1>15. CASE SaveStep /\ DropTmp
  <2>1. up /\ xml' = Whole(queue) /\ UNCHANGED <<up, queue>> /\ saved' = queue
    BY <1>15, StepOf DEF DropTmp, At, Saved
  <2>. QED BY <2>1
<1>16. CASE Crash
  BY <1>16 DEF Crash
<1>17. CASE Start
  BY <1>17 DEF Start, Loaded
<1>18. CASE UNCHANGED vars
  BY <1>18
<1>. QED BY StepOf, <1>1, <1>2, <1>3, <1>4, <1>5, <1>6, <1>7, <1>8, <1>9, <1>10,
       <1>11, <1>12, <1>13, <1>14, <1>15, <1>16, <1>17, <1>18 DEF Next

\* A step that leaves the queue clean leaves it in Queue.xml.
LEMMA CleanKept ==
  ASSUME IInv, TypeOK', TmpIsQueue', [Next]_vars
  PROVE  CleanInv'
<1>. USE QueueFilesAssumption DEF vars, memory, program, files, counters, promise,
       TypeOK, Whole, Part, File, IInv, Control, TmpIsQueue, TmpReady, XmlStands,
       CleanInv
<1>1. CASE Change
  BY <1>1 DEF Change, Add, Remove, Working, SetDirty
<1>2. CASE Tick
  BY <1>2 DEF Tick, Working
<1>3. CASE Second
  BY <1>3 DEF Second, Working
<1>4. CASE SaveNow
  BY <1>4 DEF SaveNow, Working
<1>5. CASE Leave
  BY <1>5 DEF Leave, Working
<1>6. CASE Destructor
  BY <1>6 DEF Destructor
<1>7. CASE SaveStep /\ OpenTmp
  BY <1>7, StepOf DEF OpenTmp, At, To, Works, Fault, GiveUp, Saved
<1>8. CASE SaveStep /\ WriteTmp
  BY <1>8, StepOf DEF WriteTmp, At, To, Works, Fault, GiveUp, Saved
<1>9. CASE SaveStep /\ DropBak
  BY <1>9, StepOf DEF DropBak, At, To, Works, Fault, GiveUp, Saved
<1>10. CASE SaveStep /\ CopyBegins
  BY <1>10, StepOf DEF CopyBegins, At, To, Works, Fault, GiveUp, Saved
<1>11. CASE SaveStep /\ CopyEnds
  BY <1>11, StepOf DEF CopyEnds, At, To, Works, Fault, GiveUp, Saved
<1>12. CASE SaveStep /\ DropXml
  BY <1>12, StepOf DEF DropXml, At, To, Works, Fault, GiveUp, Saved
<1>13. CASE SaveStep /\ Rename
  BY <1>13, StepOf DEF Rename, At, To, Works, Fault, GiveUp, Saved
<1>14. CASE SaveStep /\ RenameCopies
  BY <1>14, StepOf DEF RenameCopies, At, To, Works, Fault, GiveUp, Saved
<1>15. CASE SaveStep /\ DropTmp
  BY <1>15, StepOf DEF DropTmp, At, To, Works, Fault, GiveUp, Saved
<1>16. CASE Crash
  BY <1>16 DEF Crash
<1>17. CASE Start
  BY <1>17 DEF Start, Loaded
<1>18. CASE UNCHANGED vars
  BY <1>18
<1>. QED BY StepOf, <1>1, <1>2, <1>3, <1>4, <1>5, <1>6, <1>7, <1>8, <1>9, <1>10,
       <1>11, <1>12, <1>13, <1>14, <1>15, <1>16, <1>17, <1>18 DEF Next

-----------------------------------------------------------------------------
LEMMA InitHolds ==
  ASSUME Init
  PROVE  IInv
<1>1. TypeOK
  <2>1. age \in 0..Delay /\ faults \in 0..MaxFaults /\ crashes \in 0..MaxCrashes
    BY QueueFilesAssumption DEF Init
  <2>2. step \in Steps /\ leaving \in {"no", "shutdown", "destructor"}
    BY DEF Init, Steps
  <2>. QED BY <2>1, <2>2 DEF Init, TypeOK
<1>2. Control /\ TmpIsQueue
  BY DEF Init, Control, TmpIsQueue, TmpReady
<1>3. SavedInv /\ CleanInv
  BY DEF Init, SavedInv, Promised, CleanInv
<1>. QED BY <1>1, <1>2, <1>3 DEF IInv

LEMMA StepHolds ==
  ASSUME IInv, [Next]_vars
  PROVE  IInv'
<1>1. TypeOK'
  BY TypesKept DEF IInv
<1>2. Control' /\ TmpIsQueue'
  BY <1>1, TmpKept DEF IInv
<1>. QED BY <1>1, <1>2, SavedKept, CleanKept DEF IInv

(***************************************************************************)
(* The invariant of saveQueue holds between any two of its file operations.*)
(***************************************************************************)
THEOREM Invariance == Spec => []IInv
<1>1. Init => IInv
  BY InitHolds
<1>2. IInv /\ [Next]_vars => IInv'
  BY StepHolds
<1>. QED BY <1>1, <1>2, PTL DEF Spec

(***************************************************************************)
(* Types of the queue's memory and files.                                  *)
(***************************************************************************)
THEOREM TypeCorrect == Spec => []TypeOK
<1>1. IInv => TypeOK
  BY DEF IInv
<1>. QED BY <1>1, Invariance, PTL

(***************************************************************************)
(* saveQueue never destroys what it saved before: after any number of      *)
(* crashes and failures, wherever they fall, one of the three files holds  *)
(* it, unless Queue.xml was missed.                                        *)
(***************************************************************************)
THEOREM SavedIsSomewhere == Spec => []SavedQueueExists
<1>1. IInv => SavedQueueExists
  BY DEF IInv, SavedInv, Promised, SavedQueueExists
<1>. QED BY <1>1, Invariance, PTL

(***************************************************************************)
(* setDirty, saveQueue and loadQueue keep dirty so that a queue they call  *)
(* clean is in Queue.xml; or, when the forced save of a clean queue failed *)
(* at the end of the program, in Queue.xml.tmp.                            *)
(***************************************************************************)
THEOREM CleanIsSaved == Spec => []CleanMeansSaved
<1>1. IInv => CleanMeansSaved
  BY DEF IInv, CleanInv, XmlStands, CleanMeansSaved
<1>. QED BY <1>1, Invariance, PTL

=============================================================================
