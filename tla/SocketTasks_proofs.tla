------------------------- MODULE SocketTasks_proofs -------------------------
(***************************************************************************)
(* Proofs about SocketTasks, for any owner, memory and bound.              *)
(***************************************************************************)
EXTENDS SocketTasks, TLAPS

-----------------------------------------------------------------------------
(***************************************************************************)
(* The inductive invariant.  SHUTDOWN is the last task and finds room.  A  *)
(* socket is started once: while its start is to come or waits, nothing    *)
(* has been written and the thread has done nothing that could fail.  What *)
(* is in sendBuf of a running socket is being sent, or its sending threw,  *)
(* or was stopped because the socket is being disconnected.                *)
(***************************************************************************)
RoomForShutdown == owner # "gone" => Len(tasks) <= MaxTasks

StartWaits == \E i \in DOMAIN tasks : tasks[i] \in Starts
StartWorked == At("event") /\ thread.doing \in Starts
Fresh == state = "STARTING" /\ ~writeBuf /\ ~sendBuf /\ thread.at \in {"events", "event", "ended"}

StartsOnce ==
  /\ owner = "creating" => ~StartWaits /\ ~StartWorked /\ Fresh
  /\ StartWaits => ~StartWorked
  /\ StartWaits \/ StartWorked => Fresh
  /\ \A i, j \in DOMAIN tasks : tasks[i] \in Starts /\ tasks[j] \in Starts => i = j

SendBufUsed ==
  sendBuf /\ state = "RUNNING" => disconnecting \/ thread.at \in {"sending", "caught", "failing"}

IInv == SocketTypeOK /\ RoomForShutdown /\ StartsOnce /\ SendBufUsed /\ NoDataStranded

-----------------------------------------------------------------------------
\* What a task at the end of the list, or one taken from its head, leaves.
LEMMA AppendFacts ==
  ASSUME NEW s \in Seq(Tasks), NEW t \in Tasks
  PROVE  /\ Append(s, t) \in Seq(Tasks)
         /\ Len(Append(s, t)) = Len(s) + 1
         /\ DOMAIN Append(s, t) = DOMAIN s \cup {Len(s) + 1}
         /\ \A i \in DOMAIN s : Append(s, t)[i] = s[i]
         /\ Append(s, t)[Len(s) + 1] = t
         /\ Len(s) + 1 \notin DOMAIN s
  OBVIOUS

LEMMA TailFacts ==
  ASSUME NEW s \in Seq(Tasks), s # <<>>
  PROVE  /\ Head(s) \in Tasks
         /\ Head(s) = s[1]
         /\ 1 \in DOMAIN s
         /\ Tail(s) \in Seq(Tasks)
         /\ Len(Tail(s)) = Len(s) - 1
         /\ \A i \in DOMAIN Tail(s) : i \in 1 .. Len(s) - 1 /\ i + 1 \in DOMAIN s /\ Tail(s)[i] = s[i + 1]
         /\ \A i \in DOMAIN s : i # 1 => i - 1 \in DOMAIN Tail(s) /\ Tail(s)[i - 1] = s[i]
  OBVIOUS

LEMMA InitInv == Init => IInv
<1>. SUFFICES ASSUME Init PROVE IInv
  OBVIOUS
<1>1. tasks = <<>> /\ tasks \in Seq(Tasks) /\ Len(tasks) = 0 /\ DOMAIN tasks = {}
  BY DEF Init
<1>2. thread \in [at : Places, doing : Tasks] /\ thread.at = "events"
  BY DEF Init, Places, Tasks
<1>3. speaking \in BOOLEAN /\ disconnecting \in BOOLEAN /\ writeBuf \in BOOLEAN
      /\ sendBuf \in BOOLEAN
  BY SocketTasksAssumption, Zenon DEF Init
<1>4. Len(tasks) <= MaxTasks /\ Len(tasks) <= MaxTasks + 1
  BY <1>1, SocketTasksAssumption
<1>5. SocketTypeOK
  BY <1>1, <1>2, <1>3, <1>4, Zenon DEF SocketTypeOK, Init
<1>6. StartsOnce
  BY <1>1, <1>2 DEF StartsOnce, StartWaits, StartWorked, Fresh, Init, At
<1>. QED BY <1>4, <1>5, <1>6 DEF IInv, RoomForShutdown, SendBufUsed, NoDataStranded, Init

\* A task is added at the end.
LEMMA Added ==
  ASSUME IInv, NEW t \in Tasks, AddTask(t)
  PROVE  /\ tasks' \in Seq(Tasks)
         /\ Len(tasks)' <= MaxTasks
         /\ t \notin Starts => (StartWaits' <=> StartWaits)
         /\ t \notin Starts \/ ~StartWaits =>
              \A i, j \in DOMAIN tasks' :
                tasks'[i] \in Starts /\ tasks'[j] \in Starts => i = j
         /\ (\E i \in DOMAIN tasks : tasks[i] = "SEND_DATA") \/ t = "SEND_DATA" =>
              \E i \in DOMAIN tasks' : tasks'[i] = "SEND_DATA"
<1>1. tasks \in Seq(Tasks) /\ tasks' = Append(tasks, t) /\ Len(tasks) < MaxTasks
  BY DEF AddTask, IInv, SocketTypeOK
<1>2. Len(tasks) \in Nat /\ MaxTasks \in Nat
  BY <1>1, SocketTasksAssumption
<1>3. /\ Append(tasks, t) \in Seq(Tasks)
      /\ Len(Append(tasks, t)) = Len(tasks) + 1
      /\ DOMAIN Append(tasks, t) = DOMAIN tasks \cup {Len(tasks) + 1}
      /\ \A i \in DOMAIN tasks : Append(tasks, t)[i] = tasks[i]
      /\ Append(tasks, t)[Len(tasks) + 1] = t
      /\ Len(tasks) + 1 \notin DOMAIN tasks
  BY <1>1, AppendFacts
<1>4. tasks' \in Seq(Tasks) /\ Len(tasks)' <= MaxTasks
  BY <1>1, <1>2, <1>3
<1>5. ASSUME t \notin Starts PROVE StartWaits' <=> StartWaits
  BY <1>1, <1>3, <1>5, Zenon DEF StartWaits
<1>6. ASSUME t \notin Starts \/ ~StartWaits,
             NEW i \in DOMAIN tasks', NEW j \in DOMAIN tasks',
             tasks'[i] \in Starts, tasks'[j] \in Starts
      PROVE  i = j
  BY <1>1, <1>3, <1>6 DEF IInv, StartsOnce, StartWaits
<1>7. ASSUME (\E i \in DOMAIN tasks : tasks[i] = "SEND_DATA") \/ t = "SEND_DATA"
      PROVE  \E i \in DOMAIN tasks' : tasks'[i] = "SEND_DATA"
  BY <1>1, <1>3, <1>7, Zenon
<1>. QED BY <1>4, <1>5, <1>6, <1>7

\* A task other than a start, from outside; it may be the one for new data.
LEMMA RequestKeeps ==
  ASSUME IInv, NEW t \in Tasks \ Starts, AddTask(t),
         UNCHANGED <<state, speaking, sendBuf, thread, owner>>,
         disconnecting' \in BOOLEAN, disconnecting => disconnecting', writeBuf' \in BOOLEAN,
         writeBuf' # writeBuf => t = "SEND_DATA" /\ state # "STARTING"
  PROVE  IInv'
<1>1. /\ tasks' \in Seq(Tasks)
      /\ Len(tasks)' <= MaxTasks
      /\ StartWaits' <=> StartWaits
      /\ \A i, j \in DOMAIN tasks' : tasks'[i] \in Starts /\ tasks'[j] \in Starts => i = j
      /\ (\E i \in DOMAIN tasks : tasks[i] = "SEND_DATA") \/ t = "SEND_DATA" =>
            \E i \in DOMAIN tasks' : tasks'[i] = "SEND_DATA"
  BY Added
<1>2. Len(tasks)' <= MaxTasks + 1
  BY <1>1, SocketTasksAssumption
<1>3. SocketTypeOK'
  BY <1>1, <1>2, Zenon DEF IInv, SocketTypeOK
<1>4. RoomForShutdown'
  BY <1>1 DEF RoomForShutdown
<1>5. (StartWorked' <=> StartWorked) /\ (Fresh => Fresh')
  BY DEF StartWorked, Fresh, At
<1>6. StartsOnce'
  BY <1>1, <1>5 DEF IInv, StartsOnce
<1>7. NoDataStranded'
  BY <1>1 DEF IInv, NoDataStranded, Doing, At
<1>8. SendBufUsed'
  BY DEF IInv, SendBufUsed
<1>. QED BY <1>3, <1>4, <1>6, <1>7, <1>8 DEF IInv

\* shutdown: SHUTDOWN is added, whatever the bound, and the state reset.
LEMMA ShutdownKeeps ==
  ASSUME IInv, owner # "gone", Shutdown,
         speaking' \in BOOLEAN, UNCHANGED <<writeBuf, sendBuf>>,
         \/ UNCHANGED thread
         \/ At("failing") /\ thread' = [thread EXCEPT !.at = "events"]
  PROVE  IInv'
<1>1. /\ tasks \in Seq(Tasks) /\ tasks' = Append(tasks, "SHUTDOWN")
      /\ Len(tasks) <= MaxTasks /\ "SHUTDOWN" \in Tasks /\ "SHUTDOWN" \notin Starts
  BY DEF Shutdown, IInv, SocketTypeOK, RoomForShutdown, Tasks, Starts
<1>2. Len(tasks) \in Nat /\ MaxTasks \in Nat
  BY <1>1, SocketTasksAssumption
<1>3. /\ tasks' \in Seq(Tasks)
      /\ Len(tasks)' = Len(tasks) + 1
      /\ DOMAIN tasks' = DOMAIN tasks \cup {Len(tasks) + 1}
      /\ \A i \in DOMAIN tasks : tasks'[i] = tasks[i]
      /\ tasks'[Len(tasks) + 1] = "SHUTDOWN"
  BY <1>1, AppendFacts
<1>4. SocketTypeOK'
  <2>1. thread' \in [at : Places, doing : Tasks]
    BY DEF IInv, SocketTypeOK, Places
  <2>2. Len(tasks)' <= MaxTasks + 1
    BY <1>1, <1>2, <1>3
  <2>. QED BY <1>3, <2>1, <2>2, Zenon DEF Shutdown, IInv, SocketTypeOK
<1>5. RoomForShutdown' /\ SendBufUsed' /\ NoDataStranded'
  BY DEF Shutdown, RoomForShutdown, SendBufUsed, NoDataStranded
<1>6. StartWaits' <=> StartWaits
  BY <1>1, <1>3, Zenon DEF StartWaits
<1>7. (StartWorked' => StartWorked) /\ (Fresh => Fresh')
  BY DEF Shutdown, StartWorked, Fresh, At, IInv, SocketTypeOK
<1>8. \A i, j \in DOMAIN tasks' : tasks'[i] \in Starts /\ tasks'[j] \in Starts => i = j
  BY <1>1, <1>3 DEF IInv, StartsOnce
<1>9. StartsOnce'
  BY <1>6, <1>7, <1>8 DEF StartsOnce, IInv, Shutdown
<1>. QED BY <1>4, <1>5, <1>9 DEF IInv

-----------------------------------------------------------------------------
LEMMA OtherThreadsKeep ==
  ASSUME IInv, OtherThreads
  PROVE  IInv'
<1>1. ASSUME NEW task \in Starts, Start(task) PROVE IInv'
  <2>1. task \in Tasks /\ AddTask(task) /\ owner = "creating" /\ owner' = "open"
        /\ UNCHANGED <<state, speaking, disconnecting, writeBuf, sendBuf, thread>>
    BY <1>1 DEF Start, Starts, Tasks
  <2>2. ~StartWaits /\ ~StartWorked /\ Fresh
    BY <2>1 DEF IInv, StartsOnce
  <2>3. /\ tasks' \in Seq(Tasks)
        /\ Len(tasks)' <= MaxTasks
        /\ \A i, j \in DOMAIN tasks' : tasks'[i] \in Starts /\ tasks'[j] \in Starts => i = j
    BY <2>1, <2>2, Added
  <2>4. Len(tasks)' <= MaxTasks + 1
    BY <2>3, SocketTasksAssumption
  <2>5. SocketTypeOK'
    BY <2>1, <2>3, <2>4, Zenon DEF IInv, SocketTypeOK
  <2>6. ~StartWorked' /\ Fresh' /\ owner' # "creating"
    BY <2>1, <2>2 DEF StartWorked, Fresh, At
  <2>7. StartsOnce'
    BY <2>3, <2>6 DEF StartsOnce
  <2>8. NoDataStranded' /\ SendBufUsed'
    BY <2>6 DEF NoDataStranded, SendBufUsed, Fresh
  <2>. QED BY <2>3, <2>5, <2>7, <2>8 DEF IInv, RoomForShutdown
<1>2. ASSUME NEW graceless \in BOOLEAN, Disconnect(graceless) PROVE IInv'
  <2>1. AddTask("DISCONNECT") /\ "DISCONNECT" \in Tasks \ Starts
        /\ UNCHANGED <<state, speaking, writeBuf, sendBuf, thread, owner>>
    BY <1>2 DEF Disconnect, Starts, Tasks
  <2>2. disconnecting' \in BOOLEAN /\ (disconnecting => disconnecting') /\ writeBuf' \in BOOLEAN
    BY <1>2, Zenon DEF Disconnect, IInv, SocketTypeOK
  <2>. QED BY <2>1, <2>2, RequestKeeps
<1>3. ASSUME NEW task \in {"SEND_FILE", "UPDATED"}, Request(task) PROVE IInv'
  <2>1. AddTask(task) /\ task \in Tasks \ Starts
        /\ UNCHANGED <<state, speaking, disconnecting, writeBuf, sendBuf, thread, owner>>
    BY <1>3 DEF Request, Starts, Tasks
  <2>. QED BY <2>1, RequestKeeps DEF IInv, SocketTypeOK
<1>4. ASSUME Write PROVE IInv'
  <2>1. CASE writeBuf = TRUE
    <3>1. UNCHANGED vars
      BY <1>4, <2>1, Zenon DEF Write, vars
    <3>. QED BY <3>1
         DEF vars, IInv, SocketTypeOK, RoomForShutdown, StartsOnce, StartWaits,
             StartWorked, Fresh, SendBufUsed, NoDataStranded, At, Doing
  <2>2. CASE writeBuf = FALSE
    <3>1. AddTask("SEND_DATA") /\ "SEND_DATA" \in Tasks \ Starts
          /\ UNCHANGED <<state, speaking, disconnecting, sendBuf, thread, owner>>
          /\ writeBuf' = TRUE /\ state # "STARTING"
      BY <1>4, <2>2 DEF Write, Starts, Tasks
    <3>. QED BY <3>1, RequestKeeps DEF IInv, SocketTypeOK
  <2>. QED BY <2>1, <2>2 DEF IInv, SocketTypeOK
<1>5. ASSUME PutSocket PROVE IInv'
  <2>1. /\ owner # "gone" /\ owner' = "spinning"
        /\ UNCHANGED <<state, tasks, speaking, disconnecting, writeBuf, sendBuf, thread>>
    BY <1>5 DEF PutSocket, Owned
  <2>2. SocketTypeOK'
    BY <2>1 DEF IInv, SocketTypeOK
  <2>. QED BY <2>1, <2>2
       DEF IInv, RoomForShutdown, StartsOnce, StartWaits, StartWorked, Fresh,
           SendBufUsed, NoDataStranded, At, Doing
<1>6. ASSUME ShutdownWaited PROVE IInv'
  BY <1>6, ShutdownKeeps DEF ShutdownWaited, IInv, SocketTypeOK
<1>. QED BY <1>1, <1>2, <1>3, <1>4, <1>5, <1>6 DEF OtherThreads

-----------------------------------------------------------------------------
(***************************************************************************)
(* A step of the thread that leaves the tasks alone and takes up no new    *)
(* one; it may begin to run or to fail only when no start waits.  What is  *)
(* put back into the write buffer is so only when disconnecting.           *)
(***************************************************************************)
LEMMA WorkKeeps ==
  ASSUME IInv, UNCHANGED <<tasks, disconnecting, owner>>,
         state' \in {"STARTING", "RUNNING", "FAILED"},
         speaking' \in BOOLEAN, writeBuf' \in BOOLEAN, writeBuf' => writeBuf,
         sendBuf' \in BOOLEAN,
         NEW place \in Places, Goes(place), place # "event",
         Fresh => Fresh' \/ (~StartWaits /\ owner # "creating"),
         writeBuf' /\ state' = "RUNNING" /\ ~disconnecting =>
           state = "RUNNING" /\ ~Doing("SEND_DATA"),
         sendBuf' /\ state' = "RUNNING" =>
           disconnecting \/ place \in {"sending", "caught", "failing"}
  PROVE  IInv'
<1>1. thread' = [at |-> place, doing |-> thread.doing]
  BY DEF Goes, IInv, SocketTypeOK
<1>2. SocketTypeOK'
  BY <1>1 DEF IInv, SocketTypeOK
<1>3. RoomForShutdown'
  BY DEF IInv, RoomForShutdown
<1>4. StartsOnce'
  BY <1>1 DEF IInv, StartsOnce, StartWaits, StartWorked, At
<1>5. NoDataStranded'
  BY <1>1 DEF IInv, NoDataStranded, Doing, At
<1>6. SendBufUsed'
  BY <1>1 DEF SendBufUsed
<1>. QED BY <1>2, <1>3, <1>4, <1>5, <1>6 DEF IInv

LEMMA PopKeeps ==
  ASSUME IInv, Pop
  PROVE  IInv'
<1>1. /\ tasks \in Seq(Tasks) /\ tasks # <<>> /\ tasks' = Tail(tasks)
      /\ thread' = [at |-> "event", doing |-> Head(tasks)]
      /\ At("events")
      /\ UNCHANGED <<state, disconnecting, writeBuf, sendBuf, owner>> /\ speaking' = TRUE
  BY DEF Pop, IInv, SocketTypeOK
<1>2. /\ Head(tasks) \in Tasks
      /\ Head(tasks) = tasks[1]
      /\ 1 \in DOMAIN tasks
      /\ tasks' \in Seq(Tasks)
      /\ Len(tasks)' = Len(tasks) - 1
      /\ \A i \in DOMAIN tasks' : /\ i \in Nat \ {0}
                                  /\ i + 1 \in DOMAIN tasks /\ tasks'[i] = tasks[i + 1]
      /\ \A i \in DOMAIN tasks : i # 1 => i - 1 \in DOMAIN tasks' /\ tasks'[i - 1] = tasks[i]
  BY <1>1, TailFacts
<1>3. Len(tasks) \in Nat /\ MaxTasks \in Nat
  BY <1>1, SocketTasksAssumption
<1>4. SocketTypeOK' /\ RoomForShutdown'
  BY <1>1, <1>2, <1>3 DEF IInv, SocketTypeOK, RoomForShutdown, Places
<1>5. ~StartWorked /\ ~Doing("SEND_DATA")
  BY <1>1 DEF StartWorked, Doing, At
<1>6. (StartWaits' => StartWaits) /\ (StartWorked' => StartWaits)
  BY <1>1, <1>2 DEF StartWaits, StartWorked, At
<1>7. StartWaits' => ~StartWorked'
  <2>. SUFFICES ASSUME NEW i \in DOMAIN tasks', tasks'[i] \in Starts, tasks[1] \in Starts
                PROVE  FALSE
    BY <1>1, <1>2 DEF StartWaits, StartWorked, At
  <2>. QED BY <1>2 DEF IInv, StartsOnce
<1>8. Fresh => Fresh'
  BY <1>1 DEF Fresh
<1>9. \A i, j \in DOMAIN tasks' : tasks'[i] \in Starts /\ tasks'[j] \in Starts => i = j
  <2>. SUFFICES ASSUME NEW i \in DOMAIN tasks', NEW j \in DOMAIN tasks',
                       tasks'[i] \in Starts, tasks'[j] \in Starts
                PROVE  i = j
    OBVIOUS
  <2>1. i + 1 = j + 1
    BY <1>2 DEF IInv, StartsOnce
  <2>. QED BY <1>2, <2>1
<1>10. StartsOnce'
  BY <1>1, <1>6, <1>7, <1>8, <1>9 DEF IInv, StartsOnce
<1>11. NoDataStranded'
  BY <1>1, <1>2, <1>5 DEF IInv, NoDataStranded, Doing, At
<1>12. SendBufUsed'
  BY <1>1 DEF IInv, SendBufUsed, At
<1>. QED BY <1>4, <1>10, <1>11, <1>12 DEF IInv

LEMMA EventDoneKeeps ==
  ASSUME IInv, EventDone, thread.at # "ended",
         writeBuf /\ state = "RUNNING" /\ ~disconnecting => ~Doing("SEND_DATA"),
         sendBuf /\ state = "RUNNING" => disconnecting
  PROVE  IInv'
<1>1. Goes("events") /\ "events" \in Places /\ speaking' = FALSE
  BY DEF EventDone, Places
<1>2. Fresh => Fresh'
  BY <1>1 DEF EventDone, Fresh, Goes, others, IInv, SocketTypeOK
<1>. QED BY <1>1, <1>2, WorkKeeps DEF EventDone, others, IInv, SocketTypeOK

\* A step that changes nothing but the place, of a socket that is running.
LEMMA RunningKeeps ==
  ASSUME IInv, NEW place \in Places, Goes(place), place # "event",
         UNCHANGED others, state' = state, state = "RUNNING", speaking' \in BOOLEAN,
         ~Doing("SEND_DATA"),
         sendBuf => disconnecting \/ place \in {"sending", "caught", "failing"}
  PROVE  IInv'
<1>1. ~Fresh
  BY DEF Fresh
<1>. QED BY <1>1, WorkKeeps DEF others, IInv, SocketTypeOK

-----------------------------------------------------------------------------
LEMMA ThreadKeeps ==
  ASSUME IInv, Thread \/ DataSent \/ FileSent \/ Throw
  PROVE  IInv'
<1>1. CASE Pop BY <1>1, PopKeeps
<1>2. CASE NoEvent
  BY <1>2, RunningKeeps DEF NoEvent, Doing, At, Places, IInv, SocketTypeOK, SendBufUsed
<1>3. CASE Ignored
  BY <1>3, EventDoneKeeps DEF Ignored, Obeyed, Doing, At, IInv, SendBufUsed
<1>4. CASE Updated
  BY <1>4, RunningKeeps DEF Updated, Doing, At, Places, IInv, SocketTypeOK, SendBufUsed
<1>5. CASE ThreadSendData
  <2>1. CASE writeBuf
    <3>1. ~Fresh /\ Goes("sending") /\ "sending" \in Places /\ writeBuf' = sendBuf
          /\ sendBuf' = TRUE /\ UNCHANGED <<state, speaking, tasks, disconnecting, owner>>
      BY <1>5, <2>1 DEF ThreadSendData, Fresh, Places
    <3>2. writeBuf' => disconnecting
      BY <1>5, <3>1 DEF ThreadSendData, Doing, At, IInv, SendBufUsed
    <3>. QED BY <2>1, <3>1, <3>2, WorkKeeps DEF IInv, SocketTypeOK
  <2>2. CASE ~writeBuf
    BY <1>5, <2>2, EventDoneKeeps DEF ThreadSendData, Doing, At, IInv, SendBufUsed
  <2>. QED BY <2>1, <2>2
<1>6. CASE DataSent
  <2>1. /\ At("sending") /\ Goes("events") /\ sendBuf' = FALSE /\ speaking' = FALSE
        /\ UNCHANGED <<state, tasks, disconnecting, writeBuf, owner>>
    BY <1>6 DEF DataSent
  <2>2. ~Fresh /\ ~Doing("SEND_DATA")
    BY <2>1 DEF Fresh, Doing, At
  <2>. QED BY <2>1, <2>2, WorkKeeps DEF Places, IInv, SocketTypeOK
<1>16. CASE SendDataStopped
  BY <1>16, EventDoneKeeps DEF SendDataStopped, Doing, At
<1>7. CASE ThreadSendFile
  BY <1>7, RunningKeeps DEF ThreadSendFile, Doing, At, Places, IInv, SocketTypeOK, SendBufUsed
<1>8. CASE FileSent \/ SendFileStopped
  <2>1. At("file") /\ Goes("socket") /\ UNCHANGED <<state, speaking, others>>
    BY <1>8 DEF FileSent, SendFileStopped
  <2>2. ~Fresh /\ ~Doing("SEND_DATA")
    BY <2>1 DEF Fresh, Doing, At
  <2>. QED BY <2>1, <2>2, WorkKeeps DEF others, Places, IInv, SocketTypeOK, SendBufUsed, At
<1>9. CASE ThreadStart
  <2>1. StartWorked /\ Goes("connecting") /\ state' = "RUNNING"
        /\ UNCHANGED <<speaking, others>>
    BY <1>9 DEF ThreadStart, StartWorked
  <2>2. ~StartWaits /\ owner # "creating" /\ ~writeBuf /\ ~sendBuf
    BY <2>1 DEF IInv, StartsOnce, Fresh
  <2>. QED BY <2>1, <2>2, WorkKeeps DEF others, Places, IInv, SocketTypeOK
<1>10. CASE Connected
  BY <1>10, EventDoneKeeps DEF Connected, Doing, At, IInv, SendBufUsed
<1>11. CASE End
  <2>1. Goes("ended") /\ state = "STARTING" /\ UNCHANGED <<state, speaking, others>>
    BY <1>11 DEF End
  <2>2. Fresh => Fresh'
    BY <2>1 DEF Fresh, Goes, others, IInv, SocketTypeOK
  <2>. QED BY <2>1, <2>2, WorkKeeps DEF others, Places, IInv, SocketTypeOK
<1>12. CASE CheckSocket
  <2>1. At("socket") /\ Goes("events") /\ UNCHANGED <<state, speaking, others>>
    BY <1>12 DEF CheckSocket
  <2>2. ~Fresh /\ ~Doing("SEND_DATA")
    BY <2>1 DEF Fresh, Doing, At
  <2>. QED BY <2>1, <2>2, WorkKeeps DEF others, Places, IInv, SocketTypeOK, SendBufUsed, At
<1>13. CASE Throw
  <2>1. /\ thread.at \in {"connecting", "sending", "file", "socket"}
        /\ Goes("caught") /\ speaking' = FALSE /\ UNCHANGED <<state, others>>
    BY <1>13 DEF Throw
  <2>2. ~Fresh /\ ~Doing("SEND_DATA")
    BY <2>1 DEF Fresh, Doing, At
  <2>. QED BY <2>1, <2>2, WorkKeeps DEF others, Places, IInv, SocketTypeOK, SendBufUsed, At
<1>14. CASE Fail
  <2>1. ~Doing("SEND_DATA") /\ thread.at # "ended"
    BY <1>14 DEF Fail, Doing, At
  <2>2. CASE state = "RUNNING"
    BY <1>14, <2>1, <2>2, RunningKeeps DEF Fail, Places, IInv, SocketTypeOK
  <2>3. CASE state # "RUNNING"
    BY <1>14, <2>1, <2>3, EventDoneKeeps DEF Fail
  <2>. QED BY <2>2, <2>3
<1>15. CASE FireFailed
  <2>1. /\ At("failing") /\ Goes("events") /\ speaking' = FALSE
        /\ UNCHANGED <<writeBuf, sendBuf>>
    BY <1>15 DEF FireFailed
  <2>2. CASE Owner = "UserConnection" /\ Listening
    <3>1. Shutdown /\ owner # "gone" /\ thread' = [thread EXCEPT !.at = "events"]
      BY <1>15, <2>2 DEF FireFailed, Listening, Goes
    <3>. QED BY <2>1, <3>1, ShutdownKeeps
  <2>3. CASE ~(Owner = "UserConnection" /\ Listening)
    <3>1. /\ state' = "FAILED" /\ UNCHANGED <<tasks, disconnecting>>
          /\ owner' = IF owner = "open" THEN "failed" ELSE owner
      BY <1>15, <2>3 DEF FireFailed
    <3>2. owner # "creating" /\ ~StartWaits /\ ~StartWorked
      BY <2>1 DEF IInv, StartsOnce, Fresh, At
    <3>3. ~StartWaits' /\ ~StartWorked'
      BY <2>1, <3>1, <3>2 DEF StartWaits, StartWorked, At, Goes, IInv, SocketTypeOK
    <3>4. SocketTypeOK'
      BY <2>1, <3>1 DEF IInv, SocketTypeOK, Goes, Places
    <3>. QED BY <2>1, <3>1, <3>2, <3>3, <3>4
         DEF IInv, RoomForShutdown, StartsOnce, SendBufUsed, NoDataStranded
  <2>. QED BY <2>2, <2>3
<1>. QED BY <1>1, <1>2, <1>3, <1>4, <1>5, <1>6, <1>7, <1>8, <1>9, <1>10, <1>11, <1>12,
            <1>13, <1>14, <1>15, <1>16 DEF Thread

LEMMA NextInv ==
  ASSUME IInv, [Next]_vars
  PROVE  IInv'
<1>1. CASE OtherThreads BY <1>1, OtherThreadsKeep
<1>2. CASE Thread \/ DataSent \/ FileSent \/ Throw BY <1>2, ThreadKeeps
<1>3. CASE UNCHANGED vars
  BY <1>3 DEF vars, IInv, SocketTypeOK, RoomForShutdown, StartsOnce, StartWaits,
     StartWorked, Fresh, SendBufUsed, NoDataStranded, Doing, At
<1>. QED BY <1>1, <1>2, <1>3 DEF Next

LEMMA Invariant == Spec => []IInv
<1>1. Init => IInv BY InitInv
<1>2. IInv /\ [Next]_vars => IInv' BY NextInv
<1>. QED BY <1>1, <1>2, PTL DEF Spec

-----------------------------------------------------------------------------
\* The variables keep their types, and SHUTDOWN is given once.
THEOREM SocketTypeCorrect == Spec => []SocketTypeOK
<1>1. IInv => SocketTypeOK BY DEF IInv
<1>. QED BY <1>1, Invariant, PTL

\* Data in the write buffer of a running socket that is not being disconnected has
\* a task that will send it, however write, threadSendData, with what it leaves in
\* sendBuf, and the end of the socket interleave.
THEOREM DataHasItsTask == Spec => []NoDataStranded
<1>1. IInv => NoDataStranded BY DEF IInv
<1>. QED BY <1>1, Invariant, PTL
=============================================================================
