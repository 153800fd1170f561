----------------------------- MODULE SocketTasks -----------------------------
(***************************************************************************)
(* One BufferedSocket: the tasks other threads give it, its own thread     *)
(* that works them off, and how its owner lets go of it.                   *)
(*                                                                         *)
(* BufferedSocket::cs is held for longer than one step only by shutdown,   *)
(* which waits inside it (Held).  m_threadId is left out: before run has   *)
(* set it, it is nobody's.  Data and the modes of reading are left out.    *)
(***************************************************************************)
EXTENDS Naturals, Sequences

CONSTANTS
  Owner,         \* the class of its owner
  FreshMemory,   \* what m_speaking, which is not initialised, may start with
  MaxTasks       \* bound on the tasks that wait

ASSUME SocketTasksAssumption ==
  /\ Owner \in {"UserConnection", "Client"}
  /\ FreshMemory \in SUBSET BOOLEAN
  /\ MaxTasks \in Nat

VARIABLES
  state,          \* BufferedSocket::state
  tasks,
  speaking,       \* m_speaking
  disconnecting,
  writeBuf,       \* it is not empty
  sendBuf,        \* neither is this one, what the thread sends from
  thread,         \* where its thread is: [at |-> ..., doing |-> the task]
  owner           \* what its owner has done with it

others == <<tasks, disconnecting, writeBuf, sendBuf, owner>>
vars == <<state, tasks, speaking, disconnecting, writeBuf, sendBuf, thread, owner>>

Tasks == {"CONNECT", "ACCEPTED", "DISCONNECT", "SEND_DATA", "SEND_FILE", "UPDATED",
          "SHUTDOWN"}
Starts == {"CONNECT", "ACCEPTED"}

(***************************************************************************)
(* events: at the head of the loop of checkEvents.  event: it has a task.  *)
(* connecting, sending, file: in a long task.  socket: before checkSocket. *)
(* caught: in the handler of run.  failing: fail has seen RUNNING.         *)
(***************************************************************************)
Places == {"events", "event", "connecting", "sending", "file", "socket", "caught",
           "failing", "ended"}

At(place) == thread.at = place
Doing(task) == At("event") /\ thread.doing = task
Goes(place) == thread' = [thread EXCEPT !.at = place]
Held == owner = "spinning"
Listening == owner \in {"creating", "open"}
Owned == owner \in {"creating", "open", "failed"}

Init ==
  /\ state = "STARTING"
  /\ tasks = <<>>
  /\ speaking \in FreshMemory
  /\ disconnecting = FALSE
  /\ writeBuf = FALSE
  /\ sendBuf = FALSE
  /\ thread = [at |-> "events", doing |-> "SHUTDOWN"]
  /\ owner = "creating"

-----------------------------------------------------------------------------
(* Other threads, and listeners on the thread itself.                      *)

AddTask(task) ==
  /\ ~Held
  /\ Len(tasks) < MaxTasks
  /\ tasks' = Append(tasks, task)

\* connect and accept
Start(task) ==
  /\ owner = "creating"
  /\ AddTask(task)
  /\ owner' = "open"
  /\ UNCHANGED <<state, speaking, disconnecting, writeBuf, sendBuf, thread>>

Disconnect(graceless) ==
  /\ Owned
  /\ AddTask("DISCONNECT")
  /\ disconnecting' = (disconnecting \/ graceless)
  /\ UNCHANGED <<state, speaking, writeBuf, sendBuf, thread, owner>>

\* transmitFile and updated, of a UserConnection that is connected
Request(task) ==
  /\ Owner = "UserConnection" /\ owner = "open" /\ state # "STARTING"
  /\ AddTask(task)
  /\ UNCHANGED <<state, speaking, disconnecting, writeBuf, sendBuf, thread, owner>>

Write ==
  /\ owner = "open" /\ state # "STARTING"
  /\ IF writeBuf THEN ~Held /\ UNCHANGED tasks ELSE AddTask("SEND_DATA")
  /\ writeBuf' = TRUE
  /\ UNCHANGED <<state, speaking, disconnecting, sendBuf, thread, owner>>

-----------------------------------------------------------------------------
(* shutdown.  The flag is awaited only by a thread that is not the         *)
(* socket's own.                                                           *)

Shutdown_KeepsState ==
  /\ tasks' = Append(tasks, "SHUTDOWN")
  /\ disconnecting' = TRUE
  /\ state' = IF state = "RUNNING" THEN "FAILED" ELSE state
  /\ owner' = "gone"

Shutdown_Twice ==
  /\ tasks' = tasks \o <<"SHUTDOWN", "SHUTDOWN">>
  /\ disconnecting' = TRUE
  /\ state' = "STARTING"
  /\ owner' = "gone"

Shutdown ==
  /\ tasks' = Append(tasks, "SHUTDOWN")
  /\ disconnecting' = TRUE
  /\ state' = "STARTING"
  /\ owner' = "gone"

\* putSocket from another thread: a Client connects anew or is shut down; a
\* UserConnection is deleted by its creator when connect or accept has thrown.
PutSocket ==
  /\ IF Owner = "Client" THEN Owned ELSE owner = "creating"
  /\ owner' = "spinning"
  /\ UNCHANGED <<state, tasks, speaking, disconnecting, writeBuf, sendBuf, thread>>

ShutdownWaited ==
  /\ owner = "spinning"
  /\ ~speaking
  /\ Shutdown
  /\ UNCHANGED <<speaking, writeBuf, sendBuf, thread>>

-----------------------------------------------------------------------------
(* The thread: checkEvents.                                                *)

Pop ==
  /\ At("events")
  /\ tasks # <<>> /\ ~Held
  /\ speaking' = TRUE
  /\ thread' = [at |-> "event", doing |-> Head(tasks)]
  /\ tasks' = Tail(tasks)
  /\ UNCHANGED <<state, disconnecting, writeBuf, sendBuf, owner>>

NoEvent ==
  /\ At("events")
  /\ tasks = <<>> /\ state = "RUNNING"
  /\ Goes("socket")
  /\ UNCHANGED <<state, speaking, others>>

\* the end of a turn of the loop
EventDone ==
  /\ speaking' = FALSE
  /\ Goes("events")
  /\ UNCHANGED <<state, others>>

Obeyed ==
  CASE state = "RUNNING"  -> {"UPDATED", "SEND_DATA", "SEND_FILE", "DISCONNECT"}
    [] state = "STARTING" -> Starts \cup {"SHUTDOWN"}
    [] OTHER              -> {}

Ignored ==
  /\ At("event")
  /\ thread.doing \notin Obeyed
  /\ EventDone

\* the loop goes on, and the flag stays
Updated ==
  /\ Doing("UPDATED") /\ state = "RUNNING"
  /\ Goes("events")
  /\ UNCHANGED <<state, speaking, others>>

\* threadSendData, up to its loop: the buffers are swapped.
ThreadSendData_ClearsAfter ==
  /\ Doing("SEND_DATA") /\ state = "RUNNING" /\ ~Held
  /\ IF writeBuf
     THEN /\ Goes("sending")
          /\ sendBuf' = TRUE
          /\ UNCHANGED <<state, speaking, tasks, disconnecting, writeBuf, owner>>
     ELSE EventDone

ThreadSendData ==
  /\ Doing("SEND_DATA") /\ state = "RUNNING" /\ ~Held
  /\ IF writeBuf
     THEN /\ writeBuf' = sendBuf
          /\ sendBuf' = TRUE
          /\ Goes("sending")
          /\ UNCHANGED <<state, speaking, tasks, disconnecting, owner>>
     ELSE EventDone

DataSent_KeepsBuffer == At("sending") /\ EventDone

DataSent ==
  /\ At("sending")
  /\ sendBuf' = FALSE
  /\ speaking' = FALSE
  /\ Goes("events")
  /\ UNCHANGED <<state, tasks, disconnecting, writeBuf, owner>>

\* the early return, which leaves the rest in sendBuf
SendDataStopped == At("sending") /\ disconnecting /\ EventDone

\* threadSendFile; break leaves the loop, and the flag stays.
ThreadSendFile ==
  /\ Doing("SEND_FILE") /\ state = "RUNNING"
  /\ Goes(IF disconnecting THEN "socket" ELSE "file")
  /\ UNCHANGED <<state, speaking, others>>

FileSent ==
  /\ At("file")
  /\ Goes("socket")
  /\ UNCHANGED <<state, speaking, others>>

SendFileStopped == disconnecting /\ FileSent

\* threadConnect and threadAccept up to their loops.  They last thirty seconds at
\* most, and end early without an error when the socket is to be disconnected.
ThreadStart ==
  /\ At("event") /\ thread.doing \in Starts /\ state = "STARTING"
  /\ state' = "RUNNING"
  /\ Goes("connecting")
  /\ UNCHANGED <<speaking, others>>

Connected == At("connecting") /\ EventDone

\* SHUTDOWN: checkEvents returns false, and run deletes the socket.
End ==
  /\ Doing("SHUTDOWN") /\ state = "STARTING"
  /\ Goes("ended")
  /\ UNCHANGED <<state, speaking, others>>

-----------------------------------------------------------------------------
(* The thread: checkSocket, exceptions, and fail.                          *)

CheckSocket ==
  /\ At("socket")
  /\ Goes("events")
  /\ UNCHANGED <<state, speaking, others>>

\* The peer or the network: connecting, reading or writing throws.
Throw ==
  /\ thread.at \in {"connecting", "sending", "file", "socket"}
  /\ At("socket") => state = "RUNNING"
  /\ speaking' = FALSE
  /\ Goes("caught")
  /\ UNCHANGED <<state, others>>

Fail ==
  /\ At("caught") \/ (Doing("DISCONNECT") /\ state = "RUNNING")
  /\ IF state = "RUNNING"
     THEN Goes("failing") /\ UNCHANGED <<state, speaking, others>>
     ELSE EventDone

\* The listener of a UserConnection deletes it, with its socket; a Client stops
\* to listen.  Both ways back to the loop leave the flag off.
FireFailed ==
  /\ At("failing")
  /\ IF Owner = "UserConnection" /\ Listening
     THEN Shutdown
     ELSE /\ state' = "FAILED"
          /\ owner' = IF owner = "open" THEN "failed" ELSE owner
          /\ UNCHANGED <<tasks, disconnecting>>
  /\ speaking' = FALSE
  /\ Goes("events")
  /\ UNCHANGED <<writeBuf, sendBuf>>

-----------------------------------------------------------------------------
OtherThreads ==
  \/ \E task \in Starts : Start(task)
  \/ \E graceless \in BOOLEAN : Disconnect(graceless)
  \/ \E task \in {"SEND_FILE", "UPDATED"} : Request(task)
  \/ Write \/ PutSocket \/ ShutdownWaited

\* steps that wait for nobody
Thread ==
  \/ Pop \/ NoEvent \/ Ignored \/ Updated \/ ThreadSendData \/ SendDataStopped
  \/ ThreadSendFile \/ SendFileStopped \/ ThreadStart \/ Connected \/ End
  \/ CheckSocket \/ Fail \/ FireFailed

Next == OtherThreads \/ Thread \/ DataSent \/ FileSent \/ Throw

Spec == Init /\ [][Next]_vars

\* Threads go on; a peer that reads nothing may hold up the sending.
LiveSpec == Spec /\ WF_vars(Thread) /\ WF_vars(ShutdownWaited)

\* The same with a peer that reads what is sent to it.
ReadingPeerSpec == LiveSpec /\ WF_vars(DataSent) /\ WF_vars(FileSent)

-----------------------------------------------------------------------------
\* The types; and SHUTDOWN is given once, beyond the bound of the others.
SocketTypeOK ==
  /\ state \in {"STARTING", "RUNNING", "FAILED"}
  /\ tasks \in Seq(Tasks)
  /\ Len(tasks) <= MaxTasks + 1
  /\ speaking \in BOOLEAN
  /\ disconnecting \in BOOLEAN
  /\ writeBuf \in BOOLEAN
  /\ sendBuf \in BOOLEAN
  /\ thread \in [at : Places, doing : Tasks]
  /\ owner \in {"creating", "open", "failed", "spinning", "gone"}

(***************************************************************************)
(* Data never waits in the write buffer of a running socket without a task *)
(* that will send it, though write asks for one only when the buffer is    *)
(* empty, data is added while other data is being sent, and the next       *)
(* SEND_DATA swaps back what is left in sendBuf.  Not so for a socket told *)
(* gracelessly to disconnect: it leaves the rest in sendBuf, and a second  *)
(* SEND_DATA puts that back into writeBuf, where it stays until the        *)
(* DISCONNECT behind it.                                                   *)
(***************************************************************************)
NoDataStranded ==
  writeBuf /\ state = "RUNNING" /\ ~disconnecting =>
    (\E i \in DOMAIN tasks : tasks[i] = "SEND_DATA") \/ Doing("SEND_DATA")

(***************************************************************************)
(* A connection that has been started and is then told gracelessly to      *)
(* disconnect ends, thread and all, whatever its peer does and whatever it *)
(* was busy with: waitShutdown does not wait for it in vain.               *)
(***************************************************************************)
Told ==
  /\ disconnecting
  /\ \E i \in DOMAIN tasks :
       /\ tasks[i] = "DISCONNECT"
       /\ \/ state = "RUNNING"
          \/ \E j \in 1 .. i - 1 : tasks[j] \in Starts

GracelessEnds == Told ~> At("ended")

\* The comment in shutdown: it waits for the event being processed to be done.
ShutdownReturns == owner = "spinning" ~> owner = "gone"
=============================================================================
