----------------------------- MODULE Connections -----------------------------
(***************************************************************************)
(* How the wish to download from a user becomes a connection: the queue    *)
(* items of ConnectionManager, its second timer, the NMDC and ADC          *)
(* handshakes, failures, and DownloadManager's connections, working or     *)
(* idle, down to what they ask of the queue.                               *)
(*                                                                         *)
(* An action is one critical section, of ConnectionManager::cs,            *)
(* DownloadManager::cs or QueueManager::cs; every connection has a thread  *)
(* of its own, and the timer, the hubs and the user interface have theirs. *)
(* The clock is left out: what waits for a deadline may go on at any time. *)
(***************************************************************************)
EXTENDS Integers, FiniteSets

CONSTANTS
  Users,
  Nobody,
  Conns,              \* UserConnection objects, reused once deleted
  Segments,           \* the segments of the one file in the queue
  NoSegment,
  Priorities,         \* those the user gives it
  DOWNLOAD_SLOTS,     \* setting, 0 for no limit
  EXTRA_DOWNLOAD_SLOTS, \* setting: more slots, for the highest priority
  MaxTroubles         \* bound on users' and hubs' disturbances

ASSUME ConnectionsAssumption ==
  /\ Nobody \notin Users
  /\ NoSegment \notin Segments
  /\ Priorities \subseteq {"PAUSED", "LOWEST", "NORMAL", "HIGHEST"}
  /\ DOWNLOAD_SLOTS \in Nat
  /\ EXTRA_DOWNLOAD_SLOTS \in Nat
  /\ MaxTroubles \in Nat

VARIABLES
  item,       \* ConnectionManager::downloads, by user
  uploads,    \* ConnectionManager::uploads: the users who have an item there
  conn,       \* the connections
  idlers,     \* DownloadManager::idlers
  asks,       \* users for whom a thread is about to call getDownloadConnection
  sources,    \* of the file
  priority,   \* of the file
  done,       \* its finished segments
  fetching,   \* QueueItem::downloads: the connections whose Download is in it
  running,    \* UserQueue::m_running: users with a download
  online,     \* User::ONLINE
  arriving,   \* online, and UserConnected not yet handled
  troubles    \* counter for the bound

cmVars == <<item, uploads>>
downloadVars == <<fetching, running>>
queueVars == <<sources, priority, done, downloadVars>>
userVars == <<online, arriving>>
vars == <<item, uploads, conn, idlers, asks, sources, priority, done, fetching,
          running, online, arriving, troubles>>

-----------------------------------------------------------------------------
(***************************************************************************)
(* ConnectionQueueItem.  errors: -1 after a protocol error, 0 for any      *)
(* other count (only the delay between attempts depends on it).  tried:    *)
(* lastAttempt is not 0.                                                   *)
(***************************************************************************)
States == {"WAITING", "CONNECTING", "NO_DOWNLOAD_SLOTS", "ACTIVE"}
Item == [state : States, errors : {-1, 0}, tried : BOOLEAN]
NoItem == [state |-> "none"]
NewItem == [state |-> "WAITING", errors |-> 0, tried |-> FALSE]

(***************************************************************************)
(* UserConnection.  phase: the message it waits for (nick, direction, key, *)
(* inf), the next step of a handler that is under way (ready, added,       *)
(* checking, getting, parking, denied, failing), or where it rests (idle,  *)
(* busy, up, closing).  ours: the peer's token is that of the item;        *)
(* assoc: FLAG_ASSOCIATED; role: FLAG_DOWNLOAD or FLAG_UPLOAD; seg: what   *)
(* its Download is for; woken: an Updated task is in its queue.            *)
(***************************************************************************)
Handshake == {"nick", "direction", "key", "inf"}
Phases == Handshake \cup
          {"gone", "ready", "added", "checking", "getting", "parking", "denied",
           "failing", "idle", "busy", "up", "closing"}

Conn == [phase : Phases, user : Users \cup {Nobody}, ours : BOOLEAN, assoc : BOOLEAN,
         role : {"none", "down", "up"}, seg : Segments \cup {NoSegment}, woken : BOOLEAN]

Gone == [phase |-> "gone", user |-> Nobody, ours |-> FALSE, assoc |-> FALSE,
         role |-> "none", seg |-> NoSegment, woken |-> FALSE]

At(c, phase) == conn[c].phase = phase
Moved(c, phase) == [conn EXCEPT ![c].phase = phase]

\* putConnection of a connection that only ConnectionManager listens to:
\* nobody hears of it any more, and its own thread deletes it.
Put(c) == [conn EXCEPT ![c] = Gone]

Has(u) == item[u] # NoItem
Unfinished == done # Segments
Downloading(c) == conn[c].seg # NoSegment

\* what QueueItem::getNextSegment can still hand out
Free == {s \in Segments \ done : \A c \in fetching : conn[c].seg # s}

\* DownloadManager listens to the connection.
Listening == {"checking", "getting", "parking", "idle", "busy", "denied", "failing"}

\* QueueManager::hasDownload, QueueItem::PAUSED standing for none
HasDownload(u) == IF u \in sources /\ Free # {} THEN priority ELSE "PAUSED"

\* DownloadManager::startDownload
DownloadCount == Cardinality({c \in Conns : Downloading(c)})
Full(slots) == DOWNLOAD_SLOTS # 0 /\ DownloadCount >= slots

StartDownload(prio) ==
  IF Full(DOWNLOAD_SLOTS)
  THEN ~Full(DOWNLOAD_SLOTS + EXTRA_DOWNLOAD_SLOTS) /\ prio = "HIGHEST"
  ELSE DownloadCount = 0 \/ prio # "LOWEST"

Trouble == troubles < MaxTroubles /\ troubles' = troubles + 1

-----------------------------------------------------------------------------
Init ==
  /\ item = [u \in Users |-> NoItem]
  /\ uploads = {}
  /\ conn = [c \in Conns |-> Gone]
  /\ idlers = {}
  /\ asks = {}
  /\ sources = Users
  /\ priority \in Priorities
  /\ done = {}
  /\ fetching = {}
  /\ running = {}
  /\ online = {}
  /\ arriving = {}
  /\ troubles = 0

-----------------------------------------------------------------------------
(* The users, the hubs, and the queue.                                     *)

UserComes(u) ==
  /\ u \notin online
  /\ online' = online \cup {u}
  /\ arriving' = arriving \cup {u}
  /\ UNCHANGED <<cmVars, conn, idlers, asks, queueVars, troubles>>

\* QueueManager::on(UserConnected)
UserConnected(u) ==
  /\ u \in arriving
  /\ arriving' = arriving \ {u}
  /\ asks' = IF Unfinished /\ priority # "PAUSED" /\ u \in sources
             THEN asks \cup {u} ELSE asks
  /\ UNCHANGED <<cmVars, conn, idlers, queueVars, online, troubles>>

UserGoes(u) ==
  /\ u \in online \ arriving
  /\ Trouble
  /\ online' = online \ {u}
  /\ UNCHANGED <<cmVars, conn, idlers, asks, queueVars, arriving>>

\* QueueManager::setPriority
SetPriority(p) ==
  /\ Unfinished
  /\ priority # p
  /\ Trouble
  /\ priority' = p
  /\ asks' = IF p = "HIGHEST" \/ priority = "PAUSED"
             THEN asks \cup (sources \cap online) ELSE asks
  /\ UNCHANGED <<cmVars, conn, idlers, sources, done, downloadVars, userVars>>

\* QueueManager::addSource and its callers, add and readd
AddSource(u) ==
  /\ u \notin sources
  /\ sources' = sources \cup {u}
  /\ asks' = IF /\ Unfinished /\ priority # "PAUSED" /\ u \in online
                /\ u \notin running
             THEN asks \cup {u} ELSE asks
  /\ UNCHANGED <<cmVars, conn, idlers, priority, done, downloadVars, userVars, troubles>>

\* UserQueue::removeDownload: a download of the user leaves the item's list,
\* the first when there should be two.
RemoveDownload(u) ==
  LET his == {c \in fetching : conn[c].user = u} IN
  /\ IF his = {} THEN UNCHANGED fetching
     ELSE \E c \in his : fetching' = fetching \ {c}
  /\ running' = running \ {u}

\* QueueManager::removeSource, up to the disconnection of the source
DropSource(u) ==
  /\ sources' = sources \ {u}
  /\ IF u \in sources \cap running THEN RemoveDownload(u) ELSE UNCHANGED downloadVars

\* the user asks for it, the source is too slow, ...
RemoveSource(u) ==
  /\ u \in sources
  /\ Trouble
  /\ DropSource(u)
  /\ UNCHANGED <<cmVars, conn, idlers, asks, priority, done, userVars>>

-----------------------------------------------------------------------------
(* ConnectionManager: wishes and the second timer.                         *)

\* DownloadManager::checkIdle, called under ConnectionManager::cs
CheckIdle(u) ==
  IF \E c \in idlers : conn[c].user = u
  THEN \E c \in idlers : /\ conn[c].user = u
                        /\ conn' = [conn EXCEPT ![c].woken = TRUE]
  ELSE UNCHANGED conn

GetDownloadConnection(u) ==
  /\ u \in asks
  /\ asks' = asks \ {u}
  /\ IF Has(u) THEN CheckIdle(u) /\ UNCHANGED item
               ELSE item' = [item EXCEPT ![u] = NewItem] /\ UNCHANGED conn
  /\ UNCHANGED <<uploads, idlers, queueVars, userVars, troubles>>

\* putCQI of a download item; the token it had is nobody's now.
PutCQI_Clears(u) ==
  /\ item' = [item EXCEPT ![u].state = "none"]
  /\ UNCHANGED conn

PutCQI(u) ==
  /\ item' = [item EXCEPT ![u] = NoItem]
  /\ conn' = [c \in Conns |-> IF conn[c].user = u
                              THEN [conn[c] EXCEPT !.ours = FALSE] ELSE conn[c]]

ProtocolFailed(u) == item[u].errors = -1 /\ item[u].tried
Pending(u) == Has(u) /\ item[u].state # "ACTIVE"
InTurn(u) == Pending(u) /\ u \in online /\ ~ProtocolFailed(u)

\* on(Second) for an item whose user has left
SecondOffline(u) ==
  /\ Pending(u)
  /\ u \notin online
  /\ PutCQI(u)
  /\ UNCHANGED <<uploads, idlers, asks, queueVars, userVars, troubles>>

\* on(Second) for an item whose next attempt is due.  A connection attempt
\* times out before the next one is due, unless the attempt was forced.
Due(u) == InTurn(u) /\ (item[u].tried => item[u].state # "CONNECTING")

SecondUnwanted(u) ==
  /\ Due(u)
  /\ HasDownload(u) = "PAUSED"
  /\ PutCQI(u)
  /\ UNCHANGED <<uploads, idlers, asks, queueVars, userVars, troubles>>

NextState(u) ==
  LET start == StartDownload(HasDownload(u)) IN
  CASE item[u].state = "WAITING" -> IF start THEN "CONNECTING" ELSE "NO_DOWNLOAD_SLOTS"
    [] item[u].state = "NO_DOWNLOAD_SLOTS" /\ start -> "WAITING"
    [] OTHER -> item[u].state

SecondAttempt(u) ==
  /\ Due(u)
  /\ HasDownload(u) # "PAUSED"
  /\ item' = [item EXCEPT ![u].state = NextState(u), ![u].tried = TRUE]
  /\ UNCHANGED <<uploads, conn, idlers, asks, queueVars, userVars, troubles>>

\* on(Second) for an attempt that was not answered in time
SecondTimeout_StaysConnecting(u) ==
  /\ InTurn(u)
  /\ item[u].state = "CONNECTING"
  /\ item[u].tried
  /\ item' = [item EXCEPT ![u].errors = 0]
  /\ UNCHANGED <<uploads, conn, idlers, asks, queueVars, userVars, troubles>>

SecondTimeout(u) ==
  /\ InTurn(u)
  /\ item[u].state = "CONNECTING"
  /\ item[u].tried
  /\ item' = [item EXCEPT ![u].state = "WAITING", ![u].errors = 0]
  /\ UNCHANGED <<uploads, conn, idlers, asks, queueVars, userVars, troubles>>

\* ConnectionManager::force
Forced(u) ==
  /\ Has(u)
  /\ item[u].tried
  /\ Trouble
  /\ item' = [item EXCEPT ![u].tried = FALSE]
  /\ UNCHANGED <<uploads, conn, idlers, asks, queueVars, userVars>>

-----------------------------------------------------------------------------
(* ConnectionManager: a connection up to its handing over.                 *)

\* A connection with an online user exists, whoever made it: an NMDC one that
\* will say its nick, or an ADC one that will send its INF, in answer to our
\* request (ours) or for reasons of the peer's own.
Connected(c, u) ==
  /\ At(c, "gone")
  /\ u \in online
  /\ \E phase \in {"nick", "inf"}, ours \in BOOLEAN :
       /\ ours => phase = "inf" /\ Has(u) /\ item[u].state = "CONNECTING"
       /\ conn' = [conn EXCEPT ![c] = [Gone EXCEPT !.phase = phase, !.user = u,
                                                  !.ours = ours]]
  /\ UNCHANGED <<cmVars, idlers, asks, queueVars, userVars, troubles>>

\* on(MyNick).  The search for the user's item clears the errors of every item
\* it passes; the order of the list is left out.
MyNick(c) ==
  /\ At(c, "nick")
  /\ LET u == conn[c].user
         wanted == Has(u) /\ item[u].state \in {"CONNECTING", "WAITING"}
     IN  /\ \E passed \in SUBSET Users :
              /\ IF wanted THEN u \in passed ELSE passed = Users
              /\ item' = [v \in Users |-> IF v \in passed /\ Has(v)
                                         THEN [item[v] EXCEPT !.errors = 0]
                                         ELSE item[v]]
         /\ conn' = IF wanted
                    THEN [conn EXCEPT ![c].phase = "direction", ![c].role = "down"]
                    ELSE IF u \in online
                    THEN [conn EXCEPT ![c].phase = "direction", ![c].role = "up"]
                    ELSE Put(c)
  /\ UNCHANGED <<uploads, idlers, asks, queueVars, userVars, troubles>>

\* on(Direction): when both sides want to download the higher number wins; a
\* draw, or two sides that want to upload, end the connection.
Direction(c) ==
  /\ At(c, "direction")
  /\ \/ conn' = Moved(c, "key")
     \/ /\ conn[c].role = "down"
        /\ conn' = [conn EXCEPT ![c].phase = "key", ![c].role = "up"]
     \/ conn' = Put(c)
  /\ UNCHANGED <<cmVars, idlers, asks, queueVars, userVars, troubles>>

\* on(INF) up to the choice of the direction.  A user nobody knows, or a key
\* that is not his, end the connection.
INF(c) ==
  /\ At(c, "inf")
  /\ \/ /\ conn' = Put(c)
        /\ UNCHANGED item
     \/ LET u == conn[c].user IN
        /\ item' = IF Has(u) THEN [item EXCEPT ![u].errors = 0] ELSE item
        /\ conn' = [conn EXCEPT ![c].phase = "ready",
                               ![c].role = IF Has(u) /\ conn[c].ours
                                           THEN "down" ELSE "up"]
  /\ UNCHANGED <<uploads, idlers, asks, queueVars, userVars, troubles>>

HandsOver(c) == conn[c].phase \in {"key", "ready"}

\* on(Key) and on(INF): addDownloadConnection
AddDownloadConnection_AnyState(c) ==
  /\ HandsOver(c)
  /\ conn[c].role = "down"
  /\ LET u == conn[c].user IN
     IF Has(u)
     THEN /\ item' = [item EXCEPT ![u].state = "ACTIVE"]
          /\ conn' = [conn EXCEPT ![c].phase = "added", ![c].assoc = TRUE]
     ELSE /\ conn' = Put(c)
          /\ UNCHANGED item
  /\ UNCHANGED <<uploads, idlers, asks, queueVars, userVars, troubles>>

AddDownloadConnection(c) ==
  /\ HandsOver(c)
  /\ conn[c].role = "down"
  /\ LET u == conn[c].user IN
     IF Has(u) /\ item[u].state \in {"WAITING", "CONNECTING"}
     THEN /\ item' = [item EXCEPT ![u].state = "ACTIVE"]
          /\ conn' = [conn EXCEPT ![c].phase = "added", ![c].assoc = TRUE]
     ELSE /\ conn' = Put(c)
          /\ UNCHANGED item
  /\ UNCHANGED <<uploads, idlers, asks, queueVars, userVars, troubles>>

\* addUploadConnection
AddUploadConnection(c) ==
  /\ HandsOver(c)
  /\ conn[c].role = "up"
  /\ LET u == conn[c].user IN
     IF u \notin uploads
     THEN /\ uploads' = uploads \cup {u}
          /\ conn' = [conn EXCEPT ![c].phase = "up", ![c].assoc = TRUE]
     ELSE /\ conn' = Put(c)
          /\ UNCHANGED uploads
  /\ UNCHANGED <<item, idlers, asks, queueVars, userVars, troubles>>

(***************************************************************************)
(* ConnectionManager::failed, the first listener told of a failure: its    *)
(* socket has failed, or the peer has broken the protocol.                 *)
(***************************************************************************)
AtRest == Handshake \cup {"idle", "busy", "up", "closing"}

FailedDownload(c, protocolError) ==
  /\ item' = [item EXCEPT ![conn[c].user] =
                [state |-> "WAITING", errors |-> IF protocolError THEN -1 ELSE 0,
                 tried |-> TRUE]]
  /\ conn' = IF conn[c].phase \in Listening THEN Moved(c, "failing") ELSE Put(c)
  /\ UNCHANGED uploads

Failed(c, protocolError) ==
  /\ conn[c].phase \in AtRest
  /\ IF protocolError THEN Trouble ELSE UNCHANGED troubles
  /\ CASE conn[c].assoc /\ conn[c].role = "down" -> FailedDownload(c, protocolError)
       [] conn[c].assoc /\ conn[c].role = "up" ->
            /\ uploads' = uploads \ {conn[c].user}
            /\ conn' = Put(c)
            /\ UNCHANGED item
       [] OTHER -> conn' = Put(c) /\ UNCHANGED <<item, uploads>>
  /\ UNCHANGED <<idlers, asks, queueVars, userVars>>

-----------------------------------------------------------------------------
(* DownloadManager.                                                        *)

\* addConnection: too old a client, or a blocked address
RefuseConnection(c) ==
  /\ At(c, "added")
  /\ Trouble
  /\ DropSource(conn[c].user)
  /\ conn' = Moved(c, "closing")
  /\ UNCHANGED <<cmVars, idlers, asks, priority, done, userVars>>

AddConnection(c) ==
  /\ At(c, "added")
  /\ conn' = Moved(c, "checking")
  /\ UNCHANGED <<cmVars, idlers, asks, queueVars, userVars, troubles>>

\* checkDownloads up to startDownload; removeConnection when there is no slot
CheckDownloads(c) ==
  /\ At(c, "checking")
  /\ conn' = Moved(c, IF StartDownload(HasDownload(conn[c].user))
                      THEN "getting" ELSE "closing")
  /\ UNCHANGED <<cmVars, idlers, asks, queueVars, userVars, troubles>>

\* checkDownloads: QueueManager::getDownload
GetDownload(c) ==
  /\ At(c, "getting")
  /\ IF HasDownload(conn[c].user) # "PAUSED"
     THEN /\ \E s \in Free : conn' = [conn EXCEPT ![c].phase = "busy", ![c].seg = s]
          /\ fetching' = fetching \cup {c}
          /\ running' = running \cup {conn[c].user}
     ELSE /\ conn' = Moved(c, "parking")
          /\ UNCHANGED downloadVars
  /\ UNCHANGED <<cmVars, idlers, asks, sources, priority, done, userVars, troubles>>

\* checkDownloads when there is nothing to download now
Park(c) ==
  /\ At(c, "parking")
  /\ conn' = Moved(c, "idle")
  /\ idlers' = idlers \cup {c}
  /\ UNCHANGED <<cmVars, asks, queueVars, userVars, troubles>>

\* on(Updated)
Updated(c) ==
  /\ conn[c].phase \in {"idle", "busy"}
  /\ conn[c].woken
  /\ conn' = [conn EXCEPT ![c].woken = FALSE,
                         ![c].phase = IF c \in idlers THEN "checking" ELSE @]
  /\ idlers' = idlers \ {c}
  /\ UNCHANGED <<cmVars, asks, queueVars, userVars, troubles>>

\* endData: putDownload of a finished segment, then checkDownloads again
EndData(c) ==
  /\ At(c, "busy")
  /\ done' = done \cup {conn[c].seg}
  /\ RemoveDownload(conn[c].user)
  /\ conn' = [conn EXCEPT ![c].phase = "checking", ![c].seg = NoSegment]
  /\ UNCHANGED <<cmVars, idlers, asks, sources, priority, userVars, troubles>>

\* putDownload of one that did not finish: the item's users are asked again.
PutDownload_NoAsk(c) ==
  /\ RemoveDownload(conn[c].user)
  /\ UNCHANGED asks

PutDownload(c) ==
  /\ RemoveDownload(conn[c].user)
  /\ asks' = IF Unfinished /\ priority # "PAUSED"
             THEN asks \cup (sources \cap online) ELSE asks

\* fileNotAvailable: removeSource, then putDownload and checkDownloads
FileNotAvailable(c) ==
  /\ At(c, "busy")
  /\ DropSource(conn[c].user)
  /\ conn' = Moved(c, "denied")
  /\ UNCHANGED <<cmVars, idlers, asks, priority, done, userVars, troubles>>

PutDenied(c) ==
  /\ At(c, "denied")
  /\ PutDownload(c)
  /\ conn' = [conn EXCEPT ![c].phase = "checking", ![c].seg = NoSegment]
  /\ UNCHANGED <<cmVars, idlers, sources, priority, done, userVars, troubles>>

\* failDownload on MaxedOut and other answers: putDownload, removeConnection
FailDownload(c) ==
  /\ At(c, "busy")
  /\ PutDownload(c)
  /\ conn' = [conn EXCEPT ![c].phase = "closing", ![c].seg = NoSegment]
  /\ UNCHANGED <<cmVars, idlers, sources, priority, done, userVars, troubles>>

\* onFailed, the second listener told of a failure; then the object is deleted
OnFailed_StaysIdle(c) ==
  /\ At(c, "failing")
  /\ IF Downloading(c) THEN PutDownload(c) ELSE UNCHANGED <<asks, downloadVars>>
  /\ conn' = Put(c)
  /\ UNCHANGED <<cmVars, idlers, sources, priority, done, userVars, troubles>>

OnFailed(c) ==
  /\ At(c, "failing")
  /\ idlers' = idlers \ {c}
  /\ IF Downloading(c) THEN PutDownload(c) ELSE UNCHANGED <<asks, downloadVars>>
  /\ conn' = Put(c)
  /\ UNCHANGED <<cmVars, sources, priority, done, userVars, troubles>>

-----------------------------------------------------------------------------
UserNext(u) ==
  \/ UserComes(u) \/ UserConnected(u) \/ UserGoes(u)
  \/ AddSource(u) \/ RemoveSource(u)
  \/ GetDownloadConnection(u) \/ Forced(u)
  \/ SecondOffline(u) \/ SecondUnwanted(u) \/ SecondAttempt(u) \/ SecondTimeout(u)

\* What the thread of a connection does between two waits.
Handler(c) ==
  \/ AddDownloadConnection(c) \/ AddUploadConnection(c)
  \/ AddConnection(c) \/ CheckDownloads(c) \/ GetDownload(c) \/ Park(c)
  \/ Updated(c) \/ PutDenied(c) \/ OnFailed(c)

ConnNext(c) ==
  \/ \E u \in Users : Connected(c, u)
  \/ MyNick(c) \/ Direction(c) \/ INF(c)
  \/ \E protocolError \in BOOLEAN : Failed(c, protocolError)
  \/ RefuseConnection(c) \/ EndData(c) \/ FileNotAvailable(c) \/ FailDownload(c)
  \/ Handler(c)

Next ==
  \/ \E u \in Users : UserNext(u)
  \/ \E p \in Priorities : SetPriority(p)
  \/ \E c \in Conns : ConnNext(c)

Spec == Init /\ [][Next]_vars

(***************************************************************************)
(* The timer ticks and threads go on.  A connection at rest, but for one   *)
(* that transfers, is closed in the end: removeConnection has told it to,  *)
(* or on(Minute) finds it silent for three minutes.                        *)
(***************************************************************************)
Second(u) == SecondOffline(u) \/ SecondUnwanted(u) \/ SecondAttempt(u) \/ SecondTimeout(u)
Silent(c) == conn[c].phase \in Handshake \cup {"idle", "closing"} /\ Failed(c, FALSE)

Fairness ==
  /\ \A u \in Users : /\ WF_vars(UserConnected(u))
                     /\ WF_vars(GetDownloadConnection(u))
                     /\ WF_vars(Second(u))
  /\ \A c \in Conns : WF_vars(Handler(c)) /\ WF_vars(Silent(c))

LiveSpec == Spec /\ Fairness

-----------------------------------------------------------------------------
TypeOK ==
  /\ item \in [Users -> Item \cup {NoItem}]
  /\ uploads \subseteq Users
  /\ conn \in [Conns -> Conn]
  /\ idlers \subseteq Conns
  /\ asks \subseteq Users
  /\ sources \subseteq Users
  /\ priority \in Priorities
  /\ done \subseteq Segments
  /\ fetching \subseteq Conns
  /\ running \subseteq Users
  /\ online \subseteq Users
  /\ arriving \subseteq online
  /\ troubles \in 0 .. MaxTroubles

(***************************************************************************)
(* A download item is active exactly while one connection of the user is   *)
(* associated with it and has not failed, and never two: failed finds the  *)
(* item it dereferences, and no item stays active with nobody to free it.  *)
(* An upload item is there exactly for one associated connection.          *)
(***************************************************************************)
Associated(u, role) ==
  {c \in Conns : /\ conn[c].user = u /\ conn[c].assoc /\ conn[c].role = role
                 /\ conn[c].phase # "failing"}

ActiveIffAssociated ==
  \A u \in Users :
    /\ item[u].state = "ACTIVE" <=> Associated(u, "down") # {}
    /\ u \in uploads <=> Associated(u, "up") # {}
    /\ \A role \in {"down", "up"} : \A c, d \in Associated(u, role) : c = d

(***************************************************************************)
(* A connection in idlers is alive, and its failure will be heard of:      *)
(* checkIdle never wakes an object that has been deleted.                  *)
(***************************************************************************)
IdlersListen ==
  \A c \in idlers : At(c, "idle") \/ At(c, "failing")

(***************************************************************************)
(* "Only one download per user...", as UserQueue::addDownload asserts:     *)
(* QueueItem::downloads, in which removeDownload finds a download by its   *)
(* user, and m_running know at most one download of a user.                *)
(***************************************************************************)
OneDownloadPerUser ==
  \A c, d \in fetching : c # d => conn[c].user # conn[d].user

(***************************************************************************)
(* Whenever a source is online and there is something to download from     *)
(* him, he has an item in ConnectionManager, or some thread is about to    *)
(* ask for one: the timer's removal of items nobody needs never loses a    *)
(* wish.  What a dying download still holds does not count; it makes the   *)
(* asking when it is put back.                                             *)
(***************************************************************************)
Returning(c) == Downloading(c) /\ conn[c].phase \in {"denied", "failing"}
HeldAside(s) == \E c \in Conns \ fetching : conn[c].seg = s

NoWishForgotten ==
  \A u \in online \ arriving :
    (/\ u \in sources
     /\ priority # "PAUSED"
     /\ \E s \in Free : ~HeldAside(s)
     /\ \A c \in Conns : ~Returning(c))
      => Has(u) \/ u \in asks

(***************************************************************************)
(* A source that is online and has something for us, and did not break the *)
(* protocol, is asked for a connection or downloaded from, again and       *)
(* again, unless there is no download slot for it; and no attempt lasts    *)
(* for ever.  A lost wake-up of an idle connection, a request that is not  *)
(* answered, an item the timer has removed cost time only.                 *)
(***************************************************************************)
Wanted(u) ==
  /\ u \in online
  /\ HasDownload(u) # "PAUSED"
  /\ Has(u) => item[u].errors # -1

Pursued(u) ==
  \/ item[u].state = "CONNECTING"
  \/ \E c \in Conns : conn[c].user = u /\ Downloading(c)
  \/ ~StartDownload(HasDownload(u))

WishPursued ==
  \A u \in Users : /\ []<>(~Wanted(u) \/ Pursued(u))
                  /\ []<>(~Wanted(u) \/ item[u].state # "CONNECTING")
=============================================================================
